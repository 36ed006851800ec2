----------------------------- MODULE BaselineGate -----------------------------
(***************************************************************************)
(* verify_baseline_family: what the files of a baseline must say, alone    *)
(* and of each other, before a provider may be implemented for it.  The    *)
(* disk is a record of four documents: the contract, its evidence, the     *)
(* approved definition and the fixtures.  A contract's form is what is     *)
(* first wrong with its fields, "sound" when nothing is.                   *)
(***************************************************************************)
EXTENDS StrategyDefinitions, FiniteSets

CONSTANTS
  ProtectedKeys,   \* PROTECTED_SEMANTIC_KEYS
  Critical,        \* signal_timing and no_lookahead
  Family,          \* the seeded pair of the family the baseline is of
  Pinned           \* the pinned repository and commit, <<repository, commit>>

ASSUME CriticalAssumption == Critical \subseteq ProtectedKeys

Authoritative ==
  {"AUTHORITATIVE_EXECUTABLE", "AUTHORITATIVE_TEST", "AUTHORITATIVE_FROZEN_DEFINITION"}

Claim(evidence, id) == evidence.claims[CHOOSE i \in DOMAIN evidence.claims : evidence.claims[i].id = id]
Elements(seq) == {seq[i] : i \in DOMAIN seq}

\* load_json_object, then a comparison with the bytes on disk.
CanonicalFile(file) == Readable(file) /\ file.layout = "canonical"

\* validate_contract_document.
SoundContract(contract) ==
  /\ contract.form = "sound"
  /\ contract.status = "RESOLVED" =>
       contract.unresolved = 0 /\ \A k \in ProtectedKeys : contract.protected[k].resolved

\* Evidence that cannot prove a semantic alone is passed over, not refused.
Proven(evidence, ids) ==
  /\ ids # <<>>
  /\ \A id \in Elements(ids) : \E c \in Elements(evidence.claims) : c.id = id
  /\ \E id \in Elements(ids) : Claim(evidence, id).class \in Authoritative

\* _require_protected_evidence.
ProtectedEvidence(contract, evidence) ==
  /\ \A k \in ProtectedKeys : Proven(evidence, contract.protected[k].ids)
  /\ \A k \in Critical : \E id \in Elements(contract.protected[k].ids) :
       Claim(evidence, id).class = "AUTHORITATIVE_EXECUTABLE"

\* validate_evidence_document: a claim about the pinned repository is of the
\* pinned commit; claims are sorted, each with an id of its own.
SoundEvidence(contract, evidence) ==
  /\ evidence.claims # <<>> /\ evidence.form = "sound"
  /\ \A c \in Elements(evidence.claims) :
       c.repository \in {Pinned[1], "zorqen"} /\ (c.repository = Pinned[1] => c.commit = Pinned[2])
  /\ \A i, j \in DOMAIN evidence.claims : i < j => evidence.claims[i].id < evidence.claims[j].id
  /\ contract.status = "RESOLVED" => ProtectedEvidence(contract, evidence)

Contradictions(evidence) ==
  Cardinality({i \in DOMAIN evidence.claims : evidence.claims[i].class = "CONTRADICTORY"})

\* Faulty variant: the expected trace is not compared with the manifest.
SoundCaseLax(case, files) ==
  /\ files[case.id].expected # None
  /\ case.execution = files[case.id].execution
  /\ case.context = files[case.id].context
  /\ case.commit = Pinned[2]

\* verify_fixture_manifest, of one case: its trace and its candles are those
\* the manifest recorded, and a case without candles has no candle files.
SoundCase(case, files) ==
  /\ files[case.id].expected # None /\ case.expected = files[case.id].expected
  /\ case.execution = files[case.id].execution
  /\ case.context = files[case.id].context
  /\ case.commit = Pinned[2]

SoundFixtures(contract, fixtures) ==
  IF contract.status # "RESOLVED" THEN fixtures.manifest = None
  ELSE /\ fixtures.manifest # None /\ CanonicalFile(fixtures.manifest)
       /\ fixtures.manifest.cases # <<>>
       /\ \A case \in Elements(fixtures.manifest.cases) : SoundCase(case, fixtures.files)

\* Faulty variant: the definition's source is not compared with the contract.
ApprovedDefinitionUnbound(contract, file) ==
  IF contract.status # "RESOLVED" THEN file.flaw = "missing"
  ELSE Definition(file) # Refused /\ Definition(file).status = "approved"

\* verify_approved_definition.
ApprovedDefinition(contract, file) ==
  IF contract.status # "RESOLVED" THEN file.flaw = "missing"
  ELSE LET def == Definition(file)
       IN /\ def # Refused /\ def.status = "approved" /\ def.family = Family
          /\ def.source = contract
          /\ def.execution = "5m" /\ def.warmup = 165
          /\ def.contexts = <<[timeframe |-> "1h", warmup |-> 205]>>

\* verify_baseline_family: the report, or Refused.
VerifyBaseline(disk) ==
  LET contract == disk.contract.body
      evidence == disk.evidence.body
  IN IF /\ CanonicalFile(disk.contract) /\ CanonicalFile(disk.evidence)
        /\ SoundContract(contract)
        /\ SoundEvidence(contract, evidence)
        /\ contract.status = "RESOLVED" => Contradictions(evidence) = 0
        /\ SoundFixtures(contract, disk.fixtures)
        /\ ApprovedDefinition(contract, disk.definition)
     THEN [allowed |-> contract.status = "RESOLVED" /\ contract.unresolved = 0,
           contract |-> contract, evidence |-> evidence,
           fixtures |-> IF contract.status = "RESOLVED" THEN disk.fixtures.manifest.cases ELSE None,
           definition |-> IF contract.status = "RESOLVED"
                          THEN HashDefinition(Definition(disk.definition)) ELSE None]
     ELSE Refused
===============================================================================
