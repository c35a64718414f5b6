--------------------------- MODULE StagingRules ---------------------------
(***************************************************************************)
(* What a staged draft of the official data must look like                 *)
(* (scripts/data_staging_validation.py), and what of it a release may      *)
(* take (scripts/data_seed_release.py).  This module has no variables: it  *)
(* says what the two scripts conclude from the contents they read.         *)
(*                                                                         *)
(* A file is [form, body].  form says what reading its bytes gives:        *)
(* "absent", "broken" (not the JSON object of its schema, or the CSV, it   *)
(* should be: where the code reports that later, the command fails later), *)
(* "loose" (parsed, but not the canonical bytes of its value) or           *)
(* "canonical".  Its hash is the file itself.  Identifiers are numbers     *)
(* above 0 in the order of the scripts' sorts; 0 stands for one that does  *)
(* not match its pattern.  What the text patterns find in a record is a    *)
(* field of the record, and an issue is a conjunct that fails: which of    *)
(* the issue codes is reported is left out.                                *)
(***************************************************************************)
EXTENDS Naturals, Sequences, FiniteSets

CONSTANTS
  KbIds, OfficeIds, Intents,  \* the canonical identifiers, increasing
  IntentOf,                   \* the category the name of a KB id stands for
  Withheld,                   \* KB-WASTE-03
  Refused,                    \* the two mappings the policy rejects
  Hosts, MapHosts,            \* allowed hosts of sources, of map links
  Personal,                   \* contact values the PII patterns match
  Author, Reviewer, None

Content == {"kb", "office", "mapping"}
Staged == Content \cup {"approval"}

Absent == [form |-> "absent", body |-> None]
Parses(file) == file.form \in {"loose", "canonical"}
Canonical(value) == [form |-> "canonical", body |-> value]

Ids(records) == [i \in DOMAIN records |-> records[i].id]
Elements(s) == {s[i] : i \in DOMAIN s}
Increasing(s) == \A i, j \in DOMAIN s : i < j => s[i] < s[j]

(* A mapping is known by its office and its intent.                        *)
KeyOf(mapping) == <<mapping.id, mapping.intent>>
Before(k, l) == k[1] < l[1] \/ (k[1] = l[1] /\ k[2] < l[2])

(***************************************************************************)
(* The decisions a manifest must hold: one per record, KB before MAPPING   *)
(* before OFFICE, each in the order of its ids.                            *)
(***************************************************************************)
Recommended(type, id) ==
  IF type = "KB" /\ id = <<Withheld>> THEN "WITHHOLD"
  ELSE IF type = "MAPPING" /\ id \in Refused THEN "REJECT"
  ELSE "APPROVE"

(* An id is a tuple: of one number, or a mapping's office and intent.       *)
Key(type, id) == [type |-> type, id |-> id]

(* The records' keys in the order of the sort; a draft whose ids repeat or *)
(* are out of order is refused before this order is looked at.             *)
DecisionKeys(kb, offices, mappings) ==
  [i \in DOMAIN kb |-> Key("KB", <<kb[i].id>>)]
    \o [i \in DOMAIN mappings |-> Key("MAPPING", KeyOf(mappings[i]))]
    \o [i \in DOMAIN offices |-> Key("OFFICE", <<offices[i].id>>)]

Entry(key, decision, comment) ==
  [key |-> key, recommended |-> Recommended(key.type, key.id),
   decision |-> decision, comment |-> comment]

(* build_pending_manifest: counts, decisions and hashes are three readings *)
(* of each content file.                                                   *)
PendingManifest(counted, listed, hashed, submitted) ==
  LET keys == DecisionKeys(listed["kb"].body, listed["office"].body,
                           listed["mapping"].body)
  IN [state |-> "PENDING", author |-> Author, submitted |-> submitted,
      reviewer |-> None, reviewed |-> FALSE, text |-> {},
      entries |-> [a \in Content |-> [count |-> Len(counted[a].body),
                                      hash |-> hashed[a]]],
      decisions |-> [i \in DOMAIN keys |-> Entry(keys[i], None, FALSE)]]

(***************************************************************************)
(* The records of the three content files.                                 *)
(***************************************************************************)
RecordsInOrder(records) ==
  Increasing(SelectSeq(Ids(records), LAMBDA id : id # 0))

CanonicalKbRecords(kb) ==
  /\ Ids(kb) = KbIds
  /\ \A i \in DOMAIN kb : kb[i].category = IntentOf[kb[i].id]

MappingsSound(mappings, offices) ==
  /\ \A i \in DOMAIN mappings :
       /\ mappings[i].id \in Elements(Ids(offices))
       /\ mappings[i].intent \in Elements(Intents)
  /\ \A i, j \in DOMAIN mappings :
       i < j => Before(KeyOf(mappings[i]), KeyOf(mappings[j]))

DraftMetadata(kb) ==
  \A i \in DOMAIN kb : kb[i].status = "DRAFT" /\ kb[i].approver = None

SourcesAllowed(records) ==
  \A i \in DOMAIN records :
    /\ records[i].host \in Hosts
    /\ records[i].map \in Hosts \cup MapHosts \cup {None}

(* _load_source_registry: one complete pending row per canonical id, in    *)
(* the canonical order.                                                    *)
RegistrySound(registry) ==
  /\ Parses(registry)
  /\ registry.body.columns
  /\ Ids(registry.body.rows) = KbIds
  /\ \A i \in DOMAIN registry.body.rows :
       registry.body.rows[i].filled /\ registry.body.rows[i].pending

SourcesMatchRegistry(kb, registry) ==
  \A i \in DOMAIN kb : \A j \in DOMAIN registry.body.rows :
    kb[i].id = registry.body.rows[j].id
      => kb[i].source = registry.body.rows[j].source

(* _validate_text_safety: no secret, no mock marker, nothing personal; an  *)
(* office's contact may look personal when the approved matrix has it.     *)
TextSafe(records) == \A i \in DOMAIN records : records[i].text = {}

PublicContacts(matrix) ==
  {<<matrix.offices[i].id, matrix.offices[i].contact>>
     : i \in DOMAIN matrix.offices}

ContactsSafe(offices, matrix) ==
  \A i \in DOMAIN offices :
    offices[i].contact \in Personal
      => <<offices[i].id, offices[i].contact>> \in PublicContacts(matrix)

(***************************************************************************)
(* The approved source matrix pins the records, the registry, the source   *)
(* audits and the bytes of the content files; the script pins the matrix.  *)
(***************************************************************************)
KbSource(r) == [id |-> r.id, category |-> r.category, source |-> r.source]
RegistrySource(row) ==
  [id |-> row.id, category |-> IntentOf[row.id], source |-> row.source]
OfficeSource(r) == [id |-> r.id, source |-> r.source, contact |-> r.contact]
MappingSource(r) ==
  [id |-> r.id, intent |-> r.intent, source |-> r.source,
   recommended |-> Recommended("MAPPING", KeyOf(r))]

MatchesMatrix(kb, offices, mappings, registry, matrix) ==
  /\ [i \in DOMAIN kb |-> KbSource(kb[i])] = matrix.kb
  /\ [i \in DOMAIN registry.body.rows |->
        RegistrySource(registry.body.rows[i])] = matrix.kb
  /\ [i \in DOMAIN offices |-> OfficeSource(offices[i])] = matrix.offices
  /\ [i \in DOMAIN mappings |-> MappingSource(mappings[i])] = matrix.mappings

RegistryPinned(registry, matrix) == registry = matrix.registry
AuditsPinned(audits, matrix) == audits = matrix.audits
ContentPinned(hashed, matrix) ==
  \A a \in Content : hashed[a] = matrix.content[a]

(* _scan_runtime_files: a tracked runtime or operations file outside the   *)
(* allow list must be a trusted text file that does not name the staging   *)
(* directory.                                                              *)
RuntimeClean(tracked) ==
  \A f \in tracked :
    f.runtime /\ ~f.allowed => f.trusted /\ ~f.refers

(***************************************************************************)
(* The approval manifest.                                                  *)
(***************************************************************************)
Reviewed(m) == m.state \in {"APPROVED", "REJECTED"}

ReviewMetadata(m) ==
  /\ m.state = "PENDING" \/ Reviewed(m)
  /\ m.reviewer # None => m.reviewer # m.author
  /\ m.state = "PENDING" => m.reviewer = None /\ ~m.reviewed
  /\ Reviewed(m) => m.reviewer # None /\ m.reviewed

EntriesMatch(m, counted, hashed) ==
  /\ DOMAIN m.entries = Content
  /\ \A a \in Content :
       /\ Parses(counted[a]) => m.entries[a].count = Len(counted[a].body)
       /\ ~Parses(counted[a]) => m.entries[a].count = 0
       /\ hashed[a] # Absent => m.entries[a].hash = hashed[a]

DecisionsCover(m, kb, offices, mappings) ==
  LET keys == DecisionKeys(kb, offices, mappings) IN
  /\ [i \in DOMAIN m.decisions |-> m.decisions[i].key] = keys
  /\ \A i \in DOMAIN keys :
       m.decisions[i].recommended = Recommended(keys[i].type, keys[i].id)

(* Over the identifiers the code lists, whatever the draft holds.          *)
StaticKeys ==
  LET pairs == [i \in 1..(Len(OfficeIds) * Len(Intents)) |->
                  <<OfficeIds[((i - 1) \div Len(Intents)) + 1],
                    Intents[((i - 1) % Len(Intents)) + 1]>>]
  IN [i \in DOMAIN KbIds |-> Key("KB", <<KbIds[i]>>)]
       \o [i \in DOMAIN pairs |-> Key("MAPPING", pairs[i])]
       \o [i \in DOMAIN OfficeIds |-> Key("OFFICE", <<OfficeIds[i]>>)]

(* _manifest_projection: how many of each type a field of the decisions    *)
(* approves, withholds or rejects.                                         *)
Disposed(m, type, value, field) ==
  Cardinality({i \in DOMAIN m.decisions :
                 m.decisions[i].key.type = type
                 /\ m.decisions[i][field] = value})

InitialProjection ==
  [kb |-> Len(KbIds) - 1, office |-> Len(OfficeIds),
   mapping |-> Len(OfficeIds) * Len(Intents) - Cardinality(Refused),
   withheld |-> 1, rejected |-> Cardinality(Refused)]

ProjectionOf(m, field) ==
  [kb |-> Disposed(m, "KB", "APPROVE", field),
   office |-> Disposed(m, "OFFICE", "APPROVE", field),
   mapping |-> Disposed(m, "MAPPING", "APPROVE", field),
   withheld |-> Disposed(m, "KB", "WITHHOLD", field),
   rejected |-> Disposed(m, "MAPPING", "REJECT", field)]

PendingProjection(m) ==
  /\ [i \in DOMAIN m.decisions |-> m.decisions[i].key] = StaticKeys
  /\ \A i \in DOMAIN m.decisions :
       m.decisions[i].decision = None /\ ~m.decisions[i].comment
  /\ ProjectionOf(m, "recommended") = InitialProjection

ReviewComplete(m) ==
  \A i \in DOMAIN m.decisions :
    /\ m.decisions[i].comment
    /\ m.decisions[i].decision # None
    /\ m.decisions[i].key.type \in {"OFFICE", "MAPPING"}
         => m.decisions[i].decision # "WITHHOLD"

(* _approved_policy_flags.  A mapping the policy would reject may still be *)
(* approved by the reviewer.                                               *)
ApprovedPolicy(m) ==
  LET Of(type) == {i \in DOMAIN m.decisions : m.decisions[i].key.type = type}
      approved == {i \in Of("MAPPING") : m.decisions[i].decision = "APPROVE"}
  IN /\ \A n \in Elements(KbIds) : \E i \in Of("KB") :
          /\ m.decisions[i].key.id = <<n>>
          /\ m.decisions[i].decision = Recommended("KB", <<n>>)
     /\ \A n \in Elements(OfficeIds) : \E i \in Of("OFFICE") :
          m.decisions[i].key.id = <<n>> /\ m.decisions[i].decision = "APPROVE"
     /\ \A i \in Of("MAPPING") :
          m.decisions[i].decision \in {"APPROVE", "REJECT"}
     /\ Cardinality(approved) >= InitialProjection.mapping

ManifestSound(m, kb, offices, mappings, counted, hashed) ==
  /\ ReviewMetadata(m)
  /\ EntriesMatch(m, counted, hashed)
  /\ DecisionsCover(m, kb, offices, mappings)
  /\ m.state = "PENDING" => PendingProjection(m)
  /\ Reviewed(m) => ReviewComplete(m)
  /\ m.state = "APPROVED" => ApprovedPolicy(m)

(***************************************************************************)
(* validate_staging.  The script opens the same files again and again; s   *)
(* holds what each reading returned, and StagingReads the order: the hash  *)
(* of the matrix, its value, then of each staged file the value and the    *)
(* bytes, the registry, its hash, the audits, the pinned bytes, and of     *)
(* each content file its count and its bytes for the manifest's entries.   *)
(***************************************************************************)
Reading(pass, file) == [pass |-> pass, file |-> file]

ContentReads ==
  <<Reading("hash", "matrix"), Reading("value", "matrix"),
    Reading("value", "kb"), Reading("bytes", "kb"),
    Reading("value", "office"), Reading("bytes", "office"),
    Reading("value", "mapping"), Reading("bytes", "mapping")>>
ManifestReads == <<Reading("value", "approval"), Reading("bytes", "approval")>>
AuditReads ==
  <<Reading("value", "registry"), Reading("hash", "registry"),
    Reading("hash", "audits"),
    Reading("hash", "kb"), Reading("hash", "office"),
    Reading("hash", "mapping"),
    Reading("count", "kb"), Reading("entry", "kb"),
    Reading("count", "office"), Reading("entry", "office"),
    Reading("count", "mapping"), Reading("entry", "mapping"),
    Reading("value", "tracked")>>

StagingReads == ContentReads \o ManifestReads \o AuditReads

StagingValid(s, pinnedMatrix) ==
  LET Value(f) == s[Reading("value", f)]
      Pass(p) == [a \in Content |-> s[Reading(p, a)]]
      kb == Value("kb").body
      offices == Value("office").body
      mappings == Value("mapping").body
      matrix == Value("matrix").body
  IN /\ s[Reading("hash", "matrix")] = pinnedMatrix
     /\ Value("matrix").form = "canonical"
     /\ \A f \in Staged :
          /\ Parses(Value(f))
          /\ s[Reading("bytes", f)] = Canonical(Value(f).body)
     /\ Len(kb) = Len(KbIds)
     /\ Len(offices) = Len(OfficeIds)
     /\ Len(mappings) = Len(OfficeIds) * Len(Intents)
     /\ CanonicalKbRecords(kb)
     /\ RecordsInOrder(offices)
     /\ MappingsSound(mappings, offices)
     /\ DraftMetadata(kb)
     /\ \A f \in Content : SourcesAllowed(Value(f).body) /\ TextSafe(Value(f).body)
     /\ RegistrySound(Value("registry"))
     /\ SourcesMatchRegistry(kb, Value("registry"))
     /\ Value("registry").body.text = {} /\ Value("approval").body.text = {}
     /\ ContactsSafe(offices, matrix)
     /\ MatchesMatrix(kb, offices, mappings, Value("registry"), matrix)
     /\ RegistryPinned(s[Reading("hash", "registry")], matrix)
     /\ AuditsPinned(s[Reading("hash", "audits")], matrix)
     /\ ContentPinned(Pass("hash"), matrix)
     /\ ManifestSound(Value("approval").body, kb, offices, mappings,
                      Pass("count"), Pass("entry"))
     /\ RuntimeClean(Value("tracked").body)

(***************************************************************************)
(* The release gate (data_seed_release.py): the captured bytes must be the *)
(* ones the code pins, reviewed as the code says, with exactly the         *)
(* recommended decisions; then the approved records become rows.           *)
(***************************************************************************)
ExactDecisions(m) ==
  /\ [i \in DOMAIN m.decisions |-> m.decisions[i].key] = StaticKeys
  /\ \A i \in DOMAIN m.decisions :
       LET d == m.decisions[i] IN
         /\ d.recommended = Recommended(d.key.type, d.key.id)
         /\ d.decision = Recommended(d.key.type, d.key.id)
         /\ d.comment
  /\ ProjectionOf(m, "decision") = InitialProjection

SnapshotEntries(m, captured, pinned) ==
  /\ DOMAIN m.entries = Content
  /\ \A a \in Content :
       /\ m.entries[a].count = Len(pinned[a].body)
       /\ m.entries[a].hash = pinned[a]
       /\ captured[a] = m.entries[a].hash

ApprovedSnapshot(captured, pinned) ==
  LET m == captured["approval"].body IN
  /\ \A f \in Staged : Parses(captured[f])
  /\ \A a \in Content : captured[a] = pinned[a]
  /\ m.state = "APPROVED"
  /\ m.author = Author
  /\ m.reviewer = Reviewer
  /\ m.reviewed
  /\ captured["approval"] = pinned["approval"]
  /\ SnapshotEntries(m, captured, pinned)
  /\ ExactDecisions(m)

Approves(m, type, id) ==
  \E i \in DOMAIN m.decisions :
    m.decisions[i].key = Key(type, id) /\ m.decisions[i].decision = "APPROVE"

KbRow(r) == [id |-> r.id, category |-> r.category, source |-> r.source,
             status |-> "ACTIVE", approver |-> Reviewer]
OfficeRow(r) == [id |-> r.id, source |-> r.source, contact |-> r.contact]
MappingRow(r) == [office |-> r.id, intent |-> r.intent]

(* _build_projected_records: the rows of the four tables of a release.     *)
ProjectedRecords(captured) ==
  LET m == captured["approval"].body
      kb == {r \in Elements(captured["kb"].body) : Approves(m, "KB", <<r.id>>)}
  IN [kb_documents |-> {KbRow(r) : r \in kb},
      kb_question_examples |->
        UNION {{[kb |-> r.id, example |-> e] : e \in r.examples} : r \in kb},
      offices |-> {OfficeRow(r) : r \in {o \in Elements(captured["office"].body)
                                          : Approves(m, "OFFICE", <<o.id>>)}},
      office_service_mappings |->
        {MappingRow(r) : r \in {x \in Elements(captured["mapping"].body)
                                  : Approves(m, "MAPPING", KeyOf(x))}}]

ProjectionComplete(rows) ==
  /\ Cardinality(rows.kb_documents) = InitialProjection.kb
  /\ Cardinality(rows.offices) = InitialProjection.office
  /\ Cardinality(rows.office_service_mappings) = InitialProjection.mapping
=============================================================================
