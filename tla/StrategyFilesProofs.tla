------------------------- MODULE StrategyFilesProofs -------------------------
(***************************************************************************)
(* That a baseline is resolved only if its evidence proves it, whatever is *)
(* edited, regenerated or left half regenerated before it is verified;     *)
(* that an instance has exactly the values its definition allows, and a    *)
(* definition in use accepts its own defaults; and that hashes tell        *)
(* definitions, instances and reports apart.                               *)
(***************************************************************************)
EXTENDS StrategyFiles, FiniteSetTheorems, TLAPS

\* The generator that runs is one of those there are.
GeneratorInv ==
  /\ gen \in [version : {1} \cup DOMAIN Bundles, step : 0..6]
  /\ gen.step > 0 => gen.version \in DOMAIN Bundles

\* What verify-baseline reads is well formed, and what it has allowed is proven.
IInv ==
  /\ GeneratorInv
  /\ tool = "verify" => Listed(disk)
  /\ ResolvedMeansProven

----------------------------------------------------------------------------
(* The gate, of files in any state. *)

\* The claim an id stands for is one of the claims, and has that id.
LEMMA ClaimIsCited ==
  ASSUME NEW evidence, NEW ids, Proven(evidence, ids), NEW id \in Elements(ids)
  PROVE  Claim(evidence, id) \in Elements(evidence.claims) /\ Claim(evidence, id).id = id
<1>1. PICK n \in DOMAIN evidence.claims : evidence.claims[n].id = id
  BY DEF Proven, Elements
<1>2. (CHOOSE i \in DOMAIN evidence.claims : evidence.claims[i].id = id) \in DOMAIN evidence.claims
      /\ evidence.claims[CHOOSE i \in DOMAIN evidence.claims : evidence.claims[i].id = id].id = id
  BY <1>1
<1> QED BY <1>2 DEF Claim, Elements

\* Evidence without contradictory claims.
LEMMA NoneContradictory ==
  ASSUME NEW evidence, IsFiniteSet(DOMAIN evidence.claims), Contradictions(evidence) = 0,
         NEW c \in Elements(evidence.claims)
  PROVE  c.class # "CONTRADICTORY"
<1> DEFINE bad == {i \in DOMAIN evidence.claims : evidence.claims[i].class = "CONTRADICTORY"}
<1>1. IsFiniteSet(bad)  BY FS_Subset
<1>2. bad = {}  BY <1>1, FS_EmptySet DEF Contradictions
<1> QED BY <1>2 DEF Elements

\* The hash of a definition commits to its source.
LEMMA HashKeepsSource ==
  ASSUME NEW file, Definition(file) # Refused, "source" \in DOMAIN file.doc
  PROVE  HashDefinition(Definition(file)).source = Definition(file).source
<1>1. "source" \in DOMAIN Definition(file)  BY DEF Definition
<1> QED BY <1>1 DEF HashDefinition

\* What verify_baseline_family allows is proven.
LEMMA VerifiedIsProven ==
  ASSUME NEW d, Listed(d), VerifyBaseline(d) # Refused, VerifyBaseline(d).allowed
  PROVE  LET contract == VerifyBaseline(d).contract
             claims == Elements(VerifyBaseline(d).evidence.claims)
             Cited(k) == {c \in claims : c.id \in Elements(contract.protected[k].ids)}
         IN /\ contract.unresolved = 0
            /\ \A k \in ProtectedKeys :
                 contract.protected[k].resolved /\ \E c \in Cited(k) : c.class \in Authoritative
            /\ \A k \in Critical : \E c \in Cited(k) : c.class = "AUTHORITATIVE_EXECUTABLE"
            /\ \A c \in claims : c.class # "CONTRADICTORY"
            /\ VerifyBaseline(d).definition.source = contract
<1> DEFINE contract == d.contract.body  evidence == d.evidence.body
           Cited(k) == {c \in Elements(evidence.claims) :
                          c.id \in Elements(contract.protected[k].ids)}
<1>1. /\ VerifyBaseline(d).contract = contract /\ VerifyBaseline(d).evidence = evidence
      /\ contract.status = "RESOLVED" /\ contract.unresolved = 0
      /\ VerifyBaseline(d).definition = HashDefinition(Definition(d.definition))
  BY DEF VerifyBaseline
<1>2. /\ SoundContract(contract) /\ ProtectedEvidence(contract, evidence)
      /\ Contradictions(evidence) = 0 /\ ApprovedDefinition(contract, d.definition)
  BY <1>1 DEF VerifyBaseline, SoundEvidence
<1>3. ASSUME NEW k \in ProtectedKeys
      PROVE  contract.protected[k].resolved /\ \E c \in Cited(k) : c.class \in Authoritative
  <2>1. Proven(evidence, contract.protected[k].ids)  BY <1>2 DEF ProtectedEvidence
  <2>2. PICK id \in Elements(contract.protected[k].ids) :
          Claim(evidence, id).class \in Authoritative
    BY <2>1 DEF Proven
  <2> QED BY <1>1, <1>2, <2>1, <2>2, ClaimIsCited DEF SoundContract
<1>4. ASSUME NEW k \in Critical
      PROVE  \E c \in Cited(k) : c.class = "AUTHORITATIVE_EXECUTABLE"
  <2>1. Proven(evidence, contract.protected[k].ids)
    BY <1>2, CriticalAssumption DEF ProtectedEvidence
  <2>2. PICK id \in Elements(contract.protected[k].ids) :
          Claim(evidence, id).class = "AUTHORITATIVE_EXECUTABLE"
    BY <1>2 DEF ProtectedEvidence
  <2> QED BY <2>1, <2>2, ClaimIsCited
<1>5. \A c \in Elements(evidence.claims) : c.class # "CONTRADICTORY"
  BY <1>2, NoneContradictory DEF Listed
<1>6. VerifyBaseline(d).definition.source = contract
  BY <1>1, <1>2, HashKeepsSource DEF ApprovedDefinition, Listed
<1> QED BY <1>1, <1>3, <1>4, <1>5, <1>6

----------------------------------------------------------------------------
(* Files in use stay well formed. *)

\* A hand edit leaves one of the foreseen contents.
LEMMA EditKeepsListed ==
  ASSUME NEW file \in Used, tool = "verify", Listed(disk), HandEdit(file)  PROVE Listed(disk)'
<1>1. PICK content \in Alternatives["verify"][file] : disk' = [disk EXCEPT ![file] = content]
  BY DEF HandEdit
<1>2. file \in {"contract", "evidence", "definition", "fixtures"}  BY DEF Used
<1>3. DOMAIN disk' = DOMAIN disk  BY <1>1
<1>4. disk'.evidence = disk.evidence \/ disk'.evidence \in Alternatives["verify"]["evidence"]
  BY <1>1, <1>2 DEF Listed
<1>5. disk'.definition = disk.definition \/ disk'.definition \in Alternatives["verify"]["definition"]
  BY <1>1, <1>2 DEF Listed
<1>6. disk'.fixtures = disk.fixtures \/ disk'.fixtures \in Alternatives["verify"]["fixtures"]
  BY <1>1, <1>2 DEF Listed
<1> QED BY <1>3, <1>4, <1>5, <1>6, FilesAssumption DEF Listed

\* A step of write_fixtures leaves files and manifests as they are read.
LEMMA FixturesStayTyped ==
  ASSUME NEW old, TypedFixtures(old), NEW new, TypedFixtures(new),
         NEW step \in {"candles", "expected", "manifest"}
  PROVE  TypedFixtures(FixturesAfter(step, old, new))
<1> DEFINE result == FixturesAfter(step, old, new)
           Candles == [c \in DOMAIN old.files |->
                         [new.files[c] EXCEPT !.expected = old.files[c].expected]]
           Expected == [c \in DOMAIN old.files |->
                          [old.files[c] EXCEPT !.expected = new.files[c].expected]]
<1>1. /\ DOMAIN old = {"manifest", "files"}
      /\ DOMAIN old.files = CaseIds /\ DOMAIN new.files = CaseIds
      /\ \A id \in CaseIds : AreCaseFiles(old.files[id]) /\ AreCaseFiles(new.files[id])
  BY DEF TypedFixtures
<1>2. ASSUME NEW f, NEW x, AreCaseFiles(f)  PROVE AreCaseFiles([f EXCEPT !.expected = x])
  <2>1. f = [expected |-> f.expected, execution |-> f.execution, context |-> f.context]
    BY <1>2 DEF AreCaseFiles
  <2>2. [f EXCEPT !.expected = x] = [expected |-> x, execution |-> f.execution,
                                     context |-> f.context]
    BY <2>1
  <2> QED BY <2>2 DEF AreCaseFiles
<1>3. CASE step = "manifest"
  <2>1. result = [old EXCEPT !.manifest = new.manifest]  BY <1>3 DEF FixturesAfter
  <2>2. DOMAIN result = DOMAIN old /\ result.files = old.files /\ result.manifest = new.manifest
    BY <1>1, <2>1
  <2> HIDE DEF result
  <2>3. TypedFixtures(result)  BY <1>1, <2>2 DEF TypedFixtures
  <2> QED BY <2>3 DEF result
<1>4. CASE step = "candles"
  <2>1. result = [old EXCEPT !.files = Candles]  BY <1>4 DEF FixturesAfter
  <2>2. \A id \in CaseIds : AreCaseFiles(Candles[id])  BY <1>1, <1>2
  <2>3. DOMAIN Candles = CaseIds  BY <1>1
  <2> HIDE DEF Candles
  <2>4. DOMAIN result = DOMAIN old /\ result.files = Candles /\ result.manifest = old.manifest
    BY <1>1, <2>1
  <2> HIDE DEF result
  <2>5. TypedFixtures(result)  BY <1>1, <2>2, <2>3, <2>4 DEF TypedFixtures
  <2> QED BY <2>5 DEF result
<1>5. CASE step = "expected"
  <2>1. result = [old EXCEPT !.files = Expected]  BY <1>5 DEF FixturesAfter
  <2>2. \A id \in CaseIds : AreCaseFiles(Expected[id])  BY <1>1, <1>2
  <2>3. DOMAIN Expected = CaseIds  BY <1>1
  <2> HIDE DEF Expected
  <2>4. DOMAIN result = DOMAIN old /\ result.files = Expected /\ result.manifest = old.manifest
    BY <1>1, <2>1
  <2> HIDE DEF result
  <2>5. TypedFixtures(result)  BY <1>1, <2>2, <2>3, <2>4 DEF TypedFixtures
  <2> QED BY <2>5 DEF result
<1> QED BY <1>3, <1>4, <1>5

\* So does every step of the generator.
LEMMA GenerateKeepsListed ==
  ASSUME Listed(disk), GeneratorInv, Generate  PROVE Listed(disk)'
<1> DEFINE step == Steps[gen.step]  new == Bundles[gen.version]
<1>1. Listed(new)  BY FilesAssumption DEF Generate, GeneratorInv
<1>0. step \in {"contract", "evidence", "definition", "candles", "expected", "manifest"}
  <2>1. gen.step \in 1..6  BY DEF Generate, GeneratorInv
  <2> QED BY <2>1 DEF Steps
<1>2. CASE step \in DOMAIN disk
  <2>1. disk' = [disk EXCEPT ![step] = new[step]]  BY <1>2 DEF Generate
  <2>2. disk'.evidence \in {disk.evidence, new.evidence}  BY <2>1, <1>2 DEF Listed
  <2>3. disk'.definition \in {disk.definition, new.definition}  BY <2>1, <1>2 DEF Listed
  <2>4. disk'.fixtures = disk.fixtures
    <3> HIDE DEF step
    <3> QED BY <1>0, <2>1, <1>2 DEF Listed
  <2>5. DOMAIN disk' = DOMAIN disk  BY <2>1
  <2> QED BY <2>2, <2>3, <2>4, <2>5, <1>1 DEF Listed
<1>3. CASE step \notin DOMAIN disk
  <2>1. disk' = [disk EXCEPT !.fixtures = FixturesAfter(step, disk.fixtures, new.fixtures)]
    BY <1>3 DEF Generate
  <2>2. step \in {"candles", "expected", "manifest"}
    <3> HIDE DEF step
    <3> QED BY <1>0, <1>3 DEF Listed
  <2>3. TypedFixtures(FixturesAfter(step, disk.fixtures, new.fixtures))
    BY <1>1, <2>2, FixturesStayTyped DEF Listed
  <2>4. disk'.evidence = disk.evidence /\ disk'.definition = disk.definition
        /\ disk'.fixtures = FixturesAfter(step, disk.fixtures, new.fixtures)
        /\ DOMAIN disk' = DOMAIN disk
    BY <2>1 DEF Listed
  <2> QED BY <2>3, <2>4 DEF Listed
<1> QED BY <1>2, <1>3

----------------------------------------------------------------------------
(* Parameters and values. *)

Kinds == {"decimal", "integer", "boolean", "enum"}
Numeric == {"decimal", "integer"}

\* A parameter as a definition that was accepted has it.
SoundParameter(amounts, p) ==
  /\ p \in ParameterDoc(amounts)
  /\ p.kind \in Kinds
  /\ AcceptsValue(p, p.default)
  /\ p.default.t \in {"decimal", "int", "bool", "str"}
  /\ (p.kind \in Numeric /\ p.step # Null) => p.step.n > 0

LEMMA CanonicalType ==
  ASSUME NEW amounts, NEW v \in Scalar(amounts)
  PROVE  CanonicalDecimal(v) = Refused
           \/ (CanonicalDecimal(v) \in Scalar(amounts) /\ CanonicalDecimal(v).t = "decimal")
<1> DEFINE w == [v EXCEPT !.t = "decimal"]
<1>1. w \in Scalar(amounts) /\ w.t = "decimal"
  <2>1. v \in [t : Types, n : amounts, s : STRING] /\ "decimal" \in Types
    BY DEF Scalar, Types
  <2>2. w = [t |-> "decimal", n |-> v.n, s |-> v.s]  BY <2>1
  <2>3. v.n \in amounts /\ v.s \in STRING  BY <2>1
  <2> HIDE DEF w
  <2> QED BY <2>1, <2>2, <2>3 DEF Scalar
<1>2. CanonicalDecimal(v) = w \/ CanonicalDecimal(v) = Refused  BY DEF CanonicalDecimal
<1> HIDE DEF w
<1> QED BY <1>1, <1>2

\* What _parse_parameter lets through is sound: it accepts its own default.
LEMMA ParameterIsSound ==
  ASSUME NEW amounts \in SUBSET Int, NEW doc \in ParameterDoc(amounts), Parameter(doc) # Refused
  PROVE  SoundParameter(amounts, Parameter(doc))
<1> DEFINE typed == [doc EXCEPT !.default = CanonicalDecimal(doc.default),
                                !.minimum = OptionalDecimal(doc.minimum),
                                !.maximum = OptionalDecimal(doc.maximum),
                                !.step = OptionalDecimal(doc.step)]
<1>1. /\ doc \in [key : Int, kind : STRING, default : Scalar(amounts), minimum : Scalar(amounts),
                  maximum : Scalar(amounts), step : Scalar(amounts), choices : Seq(Scalar(amounts))]
      /\ doc.kind \in {"boolean", "enum"} =>
           doc.minimum = Null /\ doc.maximum = Null /\ doc.step = Null
  BY DEF ParameterDoc
<1>2. CASE doc.kind = "decimal"
  <2>1. /\ Parameter(doc) = typed /\ SoundNumber(typed)
        /\ Refused \notin {typed.default, typed.minimum, typed.maximum, typed.step}
    BY <1>2 DEF Parameter
  <2>2. /\ typed.kind = "decimal" /\ typed.key = doc.key /\ typed.choices = doc.choices
        /\ typed.default = CanonicalDecimal(doc.default)
        /\ typed.minimum = OptionalDecimal(doc.minimum)
        /\ typed.maximum = OptionalDecimal(doc.maximum)
        /\ typed.step = OptionalDecimal(doc.step)
    BY <1>1, <1>2
  <2>3. /\ typed.default \in Scalar(amounts) /\ typed.default.t = "decimal"
        /\ typed.minimum \in Scalar(amounts) /\ typed.maximum \in Scalar(amounts)
        /\ typed.step \in Scalar(amounts)
    <3> HIDE DEF typed
    <3> QED BY <1>1, <2>1, <2>2, CanonicalType DEF OptionalDecimal
  <2>4. typed \in [key : Int, kind : STRING, default : Scalar(amounts),
                   minimum : Scalar(amounts), maximum : Scalar(amounts),
                   step : Scalar(amounts), choices : Seq(Scalar(amounts))]
    <3> DEFINE Rewritten(a, b, c, d) ==
          [doc EXCEPT !.default = a, !.minimum = b, !.maximum = c, !.step = d]
    <3>1. \A a, b, c, d \in Scalar(amounts) :
            Rewritten(a, b, c, d) \in
              [key : Int, kind : STRING, default : Scalar(amounts),
               minimum : Scalar(amounts), maximum : Scalar(amounts),
               step : Scalar(amounts), choices : Seq(Scalar(amounts))]
      BY <1>1
    <3>2. typed = Rewritten(typed.default, typed.minimum, typed.maximum, typed.step)
      BY <2>2
    <3> HIDE DEF typed, Rewritten
    <3>3. Rewritten(typed.default, typed.minimum, typed.maximum, typed.step)
            \in [key : Int, kind : STRING, default : Scalar(amounts),
                 minimum : Scalar(amounts), maximum : Scalar(amounts),
                 step : Scalar(amounts), choices : Seq(Scalar(amounts))]
      BY <2>3, <3>1, Zenon
    <3> QED BY <3>2, <3>3, Zenon
  <2> HIDE DEF typed
  <2>5. typed \in ParameterDoc(amounts)  BY <2>2, <2>4, <1>2 DEF ParameterDoc
  <2>6. AcceptsValue(typed, typed.default)
    BY <2>1, <2>2, <2>3 DEF AcceptsValue, SoundNumber, OnStep
  <2>7. typed.step # Null => typed.step.n > 0  BY <2>1 DEF SoundNumber
  <2> QED BY <2>1, <2>2, <2>3, <2>5, <2>6, <2>7 DEF SoundParameter, Kinds
<1>3. CASE doc.kind = "integer"
  <2>1. Parameter(doc) = doc /\ doc.default.t = "int" /\ SoundNumber(doc)
    BY <1>3 DEF Parameter
  <2>2. AcceptsValue(doc, doc.default)
    BY <1>3, <2>1 DEF AcceptsValue, SoundNumber, OnStep
  <2>3. doc.step # Null => doc.step.n > 0  BY <2>1 DEF SoundNumber
  <2> QED BY <1>3, <2>1, <2>2, <2>3 DEF SoundParameter, Kinds
<1>4. CASE doc.kind = "boolean"
  <2>1. Parameter(doc) = doc /\ doc.default.t = "bool"  BY <1>4 DEF Parameter
  <2>2. AcceptsValue(doc, doc.default)  BY <1>4, <2>1 DEF AcceptsValue
  <2> QED BY <1>4, <2>1, <2>2 DEF SoundParameter, Kinds, Numeric
<1>5. CASE doc.kind = "enum"
  <2>1. Parameter(doc) = doc /\ SoundEnum(doc)  BY <1>5 DEF Parameter
  <2>2. PICK i \in DOMAIN doc.choices : doc.default = doc.choices[i]  BY <2>1 DEF SoundEnum
  <2>3. doc.default.t = "str"  BY <2>1, <2>2 DEF SoundEnum
  <2>4. AcceptsValue(doc, doc.default)  BY <1>5, <2>2, <2>3 DEF AcceptsValue
  <2> QED BY <1>5, <2>1, <2>3, <2>4 DEF SoundParameter, Kinds, Numeric
<1>6. CASE doc.kind \notin Kinds
  BY <1>6 DEF Parameter, Kinds
<1> QED BY <1>2, <1>3, <1>4, <1>5, <1>6 DEF Kinds

\* A definition as parse_definition_file returns it.
SoundlyDefined(amounts, def) ==
  /\ \A i \in DOMAIN def.parameters : SoundParameter(amounts, def.parameters[i])
  /\ CanonicalParameters(def)
  /\ DOMAIN def.parameters \subseteq Int

LEMMA DefinitionIsSound ==
  ASSUME NEW amounts \in SUBSET Int, NEW file, TypedDefinition(amounts, file),
         Definition(file) # Refused
  PROVE  SoundlyDefined(amounts, Definition(file))
<1> DEFINE doc == file.doc
           parsed == [i \in DOMAIN doc.parameters |-> Parameter(doc.parameters[i])]
           def == [doc EXCEPT !.parameters = parsed]
<1>1. /\ Definition(file) = def /\ SoundDefinition(def)
      /\ \A i \in DOMAIN parsed : parsed[i] # Refused
  BY DEF Definition
<1>2. def.parameters = parsed  BY DEF TypedDefinition
<1>3. /\ DOMAIN doc.parameters \subseteq Int
      /\ \A i \in DOMAIN doc.parameters : doc.parameters[i] \in ParameterDoc(amounts)
  BY DEF TypedDefinition
<1>4. \A i \in DOMAIN parsed : SoundParameter(amounts, parsed[i])
  BY <1>1, <1>3, ParameterIsSound
<1> QED BY <1>1, <1>2, <1>3, <1>4 DEF SoundlyDefined, SoundDefinition

\* Keys in strictly increasing order are all different.
LEMMA KeysDiffer ==
  ASSUME NEW amounts, NEW def, SoundlyDefined(amounts, def),
         NEW i \in DOMAIN def.parameters, NEW j \in DOMAIN def.parameters,
         def.parameters[i].key = def.parameters[j].key
  PROVE  i = j
<1>1. /\ i \in Int /\ j \in Int
      /\ def.parameters[i].key \in Int /\ def.parameters[j].key \in Int
  BY DEF SoundlyDefined, SoundParameter, ParameterDoc
<1>2. /\ i < j => def.parameters[i].key < def.parameters[j].key
      /\ j < i => def.parameters[j].key < def.parameters[i].key
  BY DEF SoundlyDefined, CanonicalParameters
<1> QED BY <1>1, <1>2

----------------------------------------------------------------------------
(* Instances. *)

\* Amounts that the decimal context subtracts without rounding.
Exact(amounts) ==
  \A a \in amounts : /\ Magnitude(a) < 10 ^ Digits
                     /\ \A b \in amounts : Magnitude(a - b) < 10 ^ Digits

\* Those are subtracted exactly.
LEMMA RoundedExactly ==
  ASSUME NEW x \in Int, Magnitude(x) < 10 ^ Digits  PROVE Rounded(x) = x
<1> DEFINE m == Magnitude(x)
           Fits(k) == m < 10 ^ (Digits + k)
           drop == CHOOSE k \in 0..9 : Fits(k) /\ \A i \in 0..(k - 1) : ~Fits(i)
<1>1. Fits(0)
  <2>1. Digits + 0 = Digits  BY DigitsAssumption
  <2> QED BY <2>1
<1>2. drop = 0
  <2> HIDE DEF Fits
  <2>1. 0 \in 0..9 /\ \A i \in 0..(0 - 1) : ~Fits(i)  OBVIOUS
  <2>2. \A k \in 0..9 : (\A i \in 0..(k - 1) : ~Fits(i)) => k = 0  BY <1>1
  <2> QED BY <1>1, <2>1, <2>2
<1>3. 10 ^ 0 = 1  OBVIOUS
<1>4. m \in Nat /\ m \div 1 = m /\ m % 1 = 0 /\ x = IF x < 0 THEN -m ELSE m
  BY DEF Magnitude
<1> DEFINE unit == 10 ^ drop
           low == m \div unit
           rest == 2 * (m % unit)
           up == rest > unit \/ (rest = unit /\ low % 2 = 1)
           r == unit * (IF up THEN low + 1 ELSE low)
<1>5. Rounded(x) = IF x < 0 THEN -r ELSE r  BY DEF Rounded
<1>6. unit = 1  BY <1>2, <1>3
<1>7. low = m /\ rest = 0
  <2> HIDE DEF drop, m, unit
  <2> QED BY <1>4, <1>6
<1>8. ~up
  <2> HIDE DEF drop, m, unit, low, rest
  <2> QED BY <1>6, <1>7
<1>9. r = m
  <2> HIDE DEF drop, m, unit, low, rest, up
  <2> QED BY <1>4, <1>6, <1>7, <1>8
<1> HIDE DEF r, m
<1> QED BY <1>4, <1>5, <1>9

\* A number is a multiple of another when its magnitude is.
LEMMA MultipleEitherWay ==
  ASSUME NEW x \in Int, NEW s \in Nat \ {0}, Magnitude(x) % s = 0  PROVE x % s = 0
<1>1. CASE x >= 0  BY <1>1 DEF Magnitude
<1>2. CASE x < 0
  <2> DEFINE k == (-x) \div s  j == x \div s  r == x % s
  <2>1. k \in Int /\ j \in Int /\ r \in 0..(s - 1) /\ x = s * j + r  OBVIOUS
  <2>2. -x = s * k  BY <1>2 DEF Magnitude
  <2>3. r = s * (-k - j)  BY <2>1, <2>2
  <2>4. -k - j \in Int  BY <2>1
  <2>5. -k - j >= 1 => s * (-k - j) >= s  BY <2>4
  <2>6. -k - j <= -1 => s * (-k - j) <= -s  BY <2>4
  <2>7. -k - j = 0 => s * (-k - j) = 0  BY <2>4
  <2> HIDE DEF k, j, r
  <2>8. r = 0  BY <2>1, <2>3, <2>4, <2>5, <2>6, <2>7
  <2> QED BY <2>8 DEF r
<1> QED BY <1>1, <1>2

\* A parameter accepts values of its kind, within its bounds, among its choices.
LEMMA AcceptedIsDefined ==
  ASSUME NEW amounts \in SUBSET Int, NEW p, SoundParameter(amounts, p), NEW v, AcceptsValue(p, v)
  PROVE  /\ v.t = [decimal |-> "decimal", integer |-> "int", boolean |-> "bool",
                   enum |-> "str"][p.kind]
         /\ InBounds(p, v)
         /\ p.kind = "enum" => v \in Elements(p.choices)
<1>1. /\ p.kind \in Kinds
      /\ p.kind \in {"boolean", "enum"} => p.minimum = Null /\ p.maximum = Null
  BY DEF SoundParameter, ParameterDoc
<1>2. CASE p.kind = "decimal"  BY <1>2 DEF AcceptsValue
<1>3. CASE p.kind = "integer"  BY <1>3 DEF AcceptsValue
<1>4. CASE p.kind = "boolean"  BY <1>1, <1>4 DEF AcceptsValue, InBounds
<1>5. CASE p.kind = "enum"  BY <1>1, <1>5 DEF AcceptsValue, InBounds, Elements
<1> QED BY <1>1, <1>2, <1>3, <1>4, <1>5 DEF Kinds

\* And, of amounts that the context subtracts exactly, values on its steps.
LEMMA AcceptedIsOnStep ==
  ASSUME NEW amounts \in SUBSET Int, Exact(amounts), NEW p, SoundParameter(amounts, p),
         NEW v \in Scalar(amounts), AcceptsValue(p, v)
  PROVE  ExactlyOnStep(p, v)
<1> SUFFICES ASSUME p.step # Null, p.kind \in Numeric
             PROVE  (v.n - Base(p)) % p.step.n = 0
  BY DEF ExactlyOnStep, Numeric
<1>1. /\ v.n \in amounts /\ p.minimum.n \in amounts /\ p.step.n \in Int /\ p.step.n > 0
  BY DEF SoundParameter, ParameterDoc, Scalar
<1>2. OnStep(p, v)  BY DEF AcceptsValue, Numeric
<1> DEFINE x == v.n - Base(p)
<1>3. x \in Int /\ Magnitude(x) < 10 ^ Digits
  <2>1. CASE p.minimum = Null
    <3>0. v.n \in Int /\ Base(p) = 0  BY <1>1, <2>1 DEF Base
    <3>1. x = v.n  BY <3>0
    <3> HIDE DEF x
    <3> QED BY <1>1, <3>1 DEF Exact
  <2>2. CASE p.minimum # Null
    <3> DEFINE a == v.n  b == p.minimum.n
    <3>1. x = a - b  BY <2>2 DEF Base
    <3>2. a \in amounts /\ b \in amounts  BY <1>1
    <3> HIDE DEF x, a, b
    <3>3. Magnitude(a - b) < 10 ^ Digits  BY <3>2 DEF Exact
    <3> QED BY <3>1, <3>2, <3>3
  <2> QED BY <2>1, <2>2
<1>4. CASE p.kind = "decimal"
  <2>1. Magnitude(Rounded(x)) % p.step.n = 0  BY <1>2, <1>4 DEF OnStep, DecimalAligned
  <2> HIDE DEF x
  <2>2. Magnitude(x) % p.step.n = 0  BY <1>3, <2>1, RoundedExactly
  <2>3. p.step.n \in Nat \ {0}  BY <1>1
  <2>4. x % p.step.n = 0  BY <1>3, <2>2, <2>3, MultipleEitherWay
  <2> QED BY <2>4 DEF x
<1>5. CASE p.kind = "integer"  BY <1>2, <1>5 DEF OnStep, IntAligned
<1> QED BY <1>4, <1>5 DEF Numeric


----------------------------------------------------------------------------
(* The two ways to an instance. *)

TypedSet(amounts, set) == \A i \in DOMAIN set.values : set.values[i].value \in Scalar(amounts)

\* Pairs, some of whose values were refused when they were typed.
TypedOrRefused(amounts, pairs) ==
  \A i \in DOMAIN pairs : pairs[i].value = Refused \/ pairs[i].value \in Scalar(amounts)

\* The pair of a key that there is.
LEMMA OfIsThere ==
  ASSUME NEW seq, NEW key \in Keys(seq)
  PROVE  \E i \in DOMAIN seq : Of(seq, key) = seq[i] /\ seq[i].key = key
<1>1. PICK i \in DOMAIN seq : seq[i].key = key  BY DEF Keys
<1> DEFINE c == CHOOSE j \in DOMAIN seq : seq[j].key = key
<1>2. c \in DOMAIN seq /\ seq[c].key = key  BY <1>1
<1> QED BY <1>2 DEF Of

\* A set that was bound has values that were not refused.
LEMMA BoundIsTyped ==
  ASSUME NEW amounts, NEW def, NEW pairs, TypedOrRefused(amounts, pairs),
         Bind(def, pairs) # Refused
  PROVE  TypedSet(amounts, Bind(def, pairs))
<1> DEFINE values == [i \in DOMAIN def.parameters |->
             [key |-> def.parameters[i].key, value |-> Of(pairs, def.parameters[i].key).value]]
<1>1. /\ Keys(pairs) = Keys(def.parameters)
      /\ \A i \in DOMAIN def.parameters : Of(pairs, def.parameters[i].key).value # Refused
      /\ Bind(def, pairs) = ParameterSet(HashDefinition(def), values)
  BY DEF Bind
<1>2. Bind(def, pairs).values = values
  <2> HIDE DEF values
  <2> QED BY <1>1 DEF ParameterSet
<1>3. ASSUME NEW i \in DOMAIN def.parameters
      PROVE  Of(pairs, def.parameters[i].key).value \in Scalar(amounts)
  <2>1. def.parameters[i].key \in Keys(pairs)  BY <1>1 DEF Keys
  <2>2. PICK j \in DOMAIN pairs : Of(pairs, def.parameters[i].key) = pairs[j]
    BY <2>1, OfIsThere
  <2> QED BY <1>1, <2>2 DEF TypedOrRefused
<1> QED BY <1>2, <1>3 DEF TypedSet

\* The values of a file, typed by the definition's parameters.
LEMMA CoercedIsTyped ==
  ASSUME NEW amounts, NEW def, NEW pairs, TypedPairs(amounts, pairs)
  PROVE  TypedOrRefused(amounts, Coerced(def, pairs))
<1> SUFFICES ASSUME NEW i \in DOMAIN pairs
             PROVE  \/ Coerced(def, pairs)[i].value = Refused
                    \/ Coerced(def, pairs)[i].value \in Scalar(amounts)
  BY DEF TypedOrRefused, Coerced
<1>1. pairs[i] \in [key : Int, value : Scalar(amounts)]
  <2> DEFINE R == [key : Int, value : Scalar(amounts)]
  <2>1. pairs \in Seq(R)  BY DEF TypedPairs
  <2> HIDE DEF R
  <2>2. \A k \in DOMAIN pairs : pairs[k] \in R  BY <2>1
  <2>3. pairs[i] \in R  BY <2>2
  <2> QED BY <2>3 DEF R
<1>2. \/ Coerced(def, pairs)[i].value = CanonicalDecimal(pairs[i].value)
      \/ Coerced(def, pairs)[i].value = pairs[i].value
  BY <1>1 DEF Coerced
<1> QED BY <1>1, <1>2, CanonicalType

\* What an instance of a sound definition and a typed set has.
LEMMA InstanceIsDefined ==
  ASSUME NEW amounts \in SUBSET Int, NEW def, SoundlyDefined(amounts, def), NEW set,
         set # Refused => TypedSet(amounts, set), Instance(def, set) # Refused
  PROVE  /\ HasDefinedValues(Instance(def, set))
         /\ Exact(amounts) => HasValuesOnSteps(Instance(def, set))
<1>1. /\ Instance(def, set).definition = def /\ Instance(def, set).set = set
      /\ set # Refused /\ Matches(def, set)
  BY DEF Instance
<1>2. DOMAIN set.values = DOMAIN def.parameters  BY <1>1 DEF Matches
<1>3. ASSUME NEW i \in DOMAIN def.parameters
      PROVE  /\ SoundParameter(amounts, def.parameters[i])
             /\ AcceptsValue(def.parameters[i], set.values[i].value)
             /\ set.values[i].key = def.parameters[i].key
             /\ set.values[i].value \in Scalar(amounts)
  BY <1>1, <1>2 DEF Matches, SoundlyDefined, TypedSet
<1>4. HasDefinedValues(Instance(def, set))
  BY <1>1, <1>2, <1>3, AcceptedIsDefined DEF HasDefinedValues
<1>5. Exact(amounts) => HasValuesOnSteps(Instance(def, set))
  BY <1>1, <1>2, <1>3, AcceptedIsOnStep DEF HasValuesOnSteps
<1> QED BY <1>4, <1>5

\* That an instance and a parameter set are not what an error is.
RefusedIsNoRecord ==
  /\ \A d, s, h : [definition |-> d, set |-> s, hash |-> h] # Refused
  /\ \A h, v : [definition_hash |-> h, values |-> v] # Refused

\* The defaults of a sound definition bind.
LEMMA DefaultsAreBound ==
  ASSUME RefusedIsNoRecord, NEW amounts \in SUBSET Int, NEW def, SoundlyDefined(amounts, def)
  PROVE  Instance(def, BindDefaults(def)) # Refused
<1> DEFINE ps == def.parameters
           pairs == [i \in DOMAIN ps |-> [key |-> ps[i].key, value |-> ps[i].default]]
           hash == HashDefinition(def)
           values == [i \in DOMAIN ps |-> [key |-> ps[i].key, value |-> Of(pairs, ps[i].key).value]]
<1>1. ASSUME NEW i \in DOMAIN ps
      PROVE  /\ Of(pairs, ps[i].key).value = ps[i].default
             /\ ps[i].default # Refused /\ AcceptsValue(ps[i], ps[i].default)
             /\ ps[i].default.t \in {"decimal", "int", "bool", "str"}
  <2>1. ps[i].key \in Keys(pairs)  BY DEF Keys
  <2>2. PICK j \in DOMAIN pairs : Of(pairs, ps[i].key) = pairs[j] /\ pairs[j].key = ps[i].key
    BY <2>1, OfIsThere
  <2>3. j \in DOMAIN ps /\ ps[j].key = ps[i].key  BY <2>2
  <2>4. j = i  BY <2>3, KeysDiffer
  <2>5. Of(pairs, ps[i].key).value = ps[i].default  BY <2>2, <2>4
  <2>6. SoundParameter(amounts, ps[i])  BY DEF SoundlyDefined
  <2>7. ps[i].default \in Scalar(Int)  BY <2>6 DEF SoundParameter, ParameterDoc, Scalar
  <2> QED BY <2>5, <2>6, <2>7, FilesAssumption DEF SoundParameter
<1>2. Keys(pairs) = Keys(ps)  BY DEF Keys
<1>3. BindDefaults(def) = ParameterSet(hash, values)
  <2>1. BindDefaults(def) = Bind(def, pairs)  BY DEF BindDefaults
  <2>2. \A i \in DOMAIN ps :
          LET v == Of(pairs, ps[i].key).value IN v # Refused /\ AcceptsValue(ps[i], v)
    BY <1>1
  <2> HIDE DEF pairs
  <2> QED BY <1>2, <2>1, <2>2 DEF Bind
<1>4. /\ \A i \in DOMAIN values : values[i].value.t \in {"decimal", "int", "bool", "str"}
      /\ \A i, j \in DOMAIN values : i < j => values[i].key < values[j].key
  BY <1>1 DEF SoundlyDefined, CanonicalParameters
<1>5. BindDefaults(def) = [definition_hash |-> hash, values |-> values]
  <2> HIDE DEF values, hash
  <2> QED BY <1>3, <1>4 DEF ParameterSet
<1>6. Matches(def, BindDefaults(def))
  <2> HIDE DEF pairs
  <2>1. DOMAIN values = DOMAIN ps  OBVIOUS
  <2>2. \A i \in DOMAIN values : values[i].key = ps[i].key /\ AcceptsValue(ps[i], values[i].value)
    BY <1>1
  <2>3. BindDefaults(def).definition_hash = hash /\ BindDefaults(def).values = values
    BY <1>5
  <2> HIDE DEF values
  <2> QED BY <2>1, <2>2, <2>3 DEF Matches
<1>7. BindDefaults(def) # Refused
  <2> HIDE DEF values, hash
  <2> QED BY <1>5 DEF RefusedIsNoRecord
<1> QED BY <1>6, <1>7 DEF Instance, RefusedIsNoRecord

----------------------------------------------------------------------------
LEMMA InitInv == Init => IInv
BY FilesAssumption DEF Init, IInv, GeneratorInv, ResolvedMeansProven

\* A step that leaves the answer alone.
LEMMA FilesStep ==
  ASSUME IInv, UNCHANGED <<tool, answer>>,
         \/ \E file \in Used : HandEdit(file)
         \/ \E version \in DOMAIN Bundles : StartGenerator(version)
         \/ Generate \/ GeneratorDies
  PROVE  IInv'
<1>1. ResolvedMeansProven'  BY DEF IInv, ResolvedMeansProven, Accepted
<1>2. CASE \E file \in Used : HandEdit(file)
  <2>1. GeneratorInv'  BY <1>2 DEF HandEdit, IInv, GeneratorInv
  <2>2. (tool = "verify" => Listed(disk))'
    <3> SUFFICES ASSUME tool = "verify" PROVE Listed(disk)'  BY DEF Listed
    <3> QED BY <1>2, EditKeepsListed DEF IInv
  <2> QED BY <1>1, <2>1, <2>2 DEF IInv
<1>3. CASE \E version \in DOMAIN Bundles : StartGenerator(version)
  BY <1>1, <1>3 DEF StartGenerator, IInv, GeneratorInv, Listed
<1>4. CASE Generate
  <2>1. GeneratorInv'
    <3>1. gen \in [version : {1} \cup DOMAIN Bundles, step : 0..6]
          /\ gen.version \in DOMAIN Bundles
      BY <1>4 DEF Generate, IInv, GeneratorInv
    <3>2. Len(Steps) = 6  BY DEF Steps
    <3> QED BY <1>4, <3>1, <3>2 DEF Generate, GeneratorInv
  <2>2. (tool = "verify" => Listed(disk))'
    <3> SUFFICES ASSUME tool = "verify" PROVE Listed(disk)'  BY DEF Listed
    <3> QED BY <1>4, GenerateKeepsListed DEF IInv
  <2> QED BY <1>1, <2>1, <2>2 DEF IInv
<1>5. CASE GeneratorDies
  BY <1>1, <1>5 DEF GeneratorDies, IInv, GeneratorInv, Listed
<1> QED BY <1>2, <1>3, <1>4, <1>5

\* A command changes the answer and nothing else.
LEMMA CommandStep ==
  ASSUME IInv, NEW command, NEW result, NEW of, Answers(command, result, of),
         command # "verify" \/ (tool = "verify" /\ result = VerifyBaseline(disk))
  PROVE  IInv'
<1>1. answer'.command = command /\ answer'.result = result /\ UNCHANGED <<tool, disk, gen>>
  BY DEF Answers
<1>2. ResolvedMeansProven'
  <2>1. CASE command # "verify"  BY <1>1, <2>1 DEF ResolvedMeansProven
  <2>2. CASE tool = "verify" /\ result = VerifyBaseline(disk)
    <3> SUFFICES ASSUME answer'.result # Refused, answer'.result.allowed
                 PROVE  ResolvedMeansProven'
      BY DEF ResolvedMeansProven, Accepted
    <3> QED BY <1>1, <2>2, VerifiedIsProven DEF IInv, ResolvedMeansProven
  <2> QED BY <2>1, <2>2
<1> QED BY <1>1, <1>2 DEF IInv, GeneratorInv, Listed

LEMMA InvStep == IInv /\ [Next]_vars => IInv'
<1> SUFFICES ASSUME IInv, [Next]_vars PROVE IInv'  OBVIOUS
<1>1. CASE \/ \E file \in Used : HandEdit(file)
           \/ \E version \in DOMAIN Bundles : StartGenerator(version)
           \/ Generate \/ GeneratorDies
  <2>1. UNCHANGED <<tool, answer>>
    BY <1>1 DEF HandEdit, StartGenerator, Generate, GeneratorDies
  <2> QED BY <1>1, <2>1, FilesStep
<1>2. CASE ValidateDefinition  BY <1>2, CommandStep DEF ValidateDefinition
<1>3. CASE BindParameters  BY <1>3, CommandStep DEF BindParameters, AnswersInstance
<1>4. CASE UseDefaults  BY <1>4, CommandStep DEF UseDefaults, AnswersInstance
<1>5. CASE BuildByHand  BY <1>5, CommandStep DEF BuildByHand, AnswersInstance
<1>6. CASE Verify  BY <1>6, CommandStep DEF Verify
<1>7. CASE UNCHANGED vars
  BY <1>7 DEF vars, IInv, GeneratorInv, Listed, ResolvedMeansProven, Accepted
<1> QED BY <1>1, <1>2, <1>3, <1>4, <1>5, <1>6, <1>7 DEF Next

----------------------------------------------------------------------------
(* Parameter files and the instances made of them. *)

\* What the parameter commands read is typed, and what they answer is sound.
BindInv(amounts) ==
  /\ tool = "bind" =>
       /\ gen.step = 0
       /\ {"definition", "parameters"} \subseteq DOMAIN disk
       /\ TypedDefinition(amounts, disk.definition)
       /\ TypedPairs(amounts, disk.parameters.pairs)
  /\ DefinedValues
  /\ Exact(amounts) => ValuesOnSteps
  /\ RefusedIsNoRecord => DefaultsBind

LEMMA BindInit == ASSUME NEW amounts, Typed(amounts), Init PROVE BindInv(amounts)
<1>1. answer.command = "none"  BY DEF Init
<1>2. DefinedValues /\ ValuesOnSteps /\ DefaultsBind
  BY <1>1 DEF DefinedValues, ValuesOnSteps, DefaultsBind, IsInstance
<1>3. /\ gen.step = 0 /\ {"definition", "parameters"} \subseteq DOMAIN disk
      /\ TypedDefinition(amounts, disk.definition)
      /\ TypedPairs(amounts, disk.parameters.pairs)
  BY DEF Init, Typed
<1> QED BY <1>2, <1>3 DEF BindInv

\* A step that leaves the answer alone leaves typed files.
LEMMA BindFilesStep ==
  ASSUME NEW amounts, Typed(amounts), BindInv(amounts), UNCHANGED <<tool, answer>>,
         \/ \E file \in Used : HandEdit(file)
         \/ \E version \in DOMAIN Bundles : StartGenerator(version)
         \/ Generate \/ GeneratorDies
         \/ UNCHANGED vars
  PROVE  BindInv(amounts)'
<1>1. /\ DefinedValues' /\ (Exact(amounts) => ValuesOnSteps')
      /\ (RefusedIsNoRecord => DefaultsBind')
  BY DEF BindInv, DefinedValues, ValuesOnSteps, DefaultsBind, IsInstance, Accepted
<1>2. ASSUME tool = "bind"
      PROVE  /\ gen'.step = 0
             /\ {"definition", "parameters"} \subseteq DOMAIN disk'
             /\ TypedDefinition(amounts, disk'.definition)
             /\ TypedPairs(amounts, disk'.parameters.pairs)
  <2>1. /\ gen.step = 0
        /\ {"definition", "parameters"} \subseteq DOMAIN disk
        /\ TypedDefinition(amounts, disk.definition)
        /\ TypedPairs(amounts, disk.parameters.pairs)
    BY <1>2 DEF BindInv
  <2>2. CASE \E file \in Used : HandEdit(file)
    <3>1. PICK file \in Used : HandEdit(file)  BY <2>2
    <3>2. file \in {"definition", "parameters"} /\ gen' = gen  BY <1>2, <3>1 DEF Used, HandEdit
    <3>3. PICK content \in Alternatives["bind"][file] : disk' = [disk EXCEPT ![file] = content]
      BY <1>2, <3>1 DEF HandEdit
    <3>4. CASE file = "definition"
      <4>1. TypedDefinition(amounts, content)  BY <3>3, <3>4 DEF Typed
      <4>2. /\ DOMAIN disk' = DOMAIN disk /\ disk'.definition = content
            /\ disk'.parameters = disk.parameters
        BY <2>1, <3>3, <3>4
      <4> QED BY <2>1, <3>2, <4>1, <4>2
    <3>5. CASE file = "parameters"
      <4>1. TypedPairs(amounts, content.pairs)  BY <3>3, <3>5 DEF Typed
      <4>2. /\ DOMAIN disk' = DOMAIN disk /\ disk'.parameters = content
            /\ disk'.definition = disk.definition
        BY <2>1, <3>3, <3>5
      <4> QED BY <2>1, <3>2, <4>1, <4>2
    <3> QED BY <3>2, <3>4, <3>5
  <2>3. CASE \E version \in DOMAIN Bundles : StartGenerator(version)
    BY <1>2, <2>3 DEF StartGenerator
  <2>4. CASE Generate \/ GeneratorDies  BY <2>1, <2>4 DEF Generate, GeneratorDies
  <2>5. CASE UNCHANGED vars  BY <2>1, <2>5 DEF vars
  <2> QED BY <2>2, <2>3, <2>4, <2>5
<1> QED BY <1>1, <1>2 DEF BindInv

\* An answer that is sound if it is an instance.
SoundAnswer(amounts, command, result) ==
  /\ (command \in {"bind", "defaults", "hand"} /\ result # Refused) =>
       HasDefinedValues(result) /\ (Exact(amounts) => HasValuesOnSteps(result))
  /\ (command = "defaults" /\ RefusedIsNoRecord) => result # Refused

LEMMA BindAnswerStep ==
  ASSUME NEW amounts, BindInv(amounts), NEW command, NEW result, NEW of,
         Answers(command, result, of), SoundAnswer(amounts, command, result)
  PROVE  BindInv(amounts)'
<1>1. answer'.command = command /\ answer'.result = result /\ UNCHANGED <<tool, disk, gen>>
  BY DEF Answers
<1>2. /\ DefinedValues' /\ (Exact(amounts) => ValuesOnSteps')
      /\ (RefusedIsNoRecord => DefaultsBind')
  BY <1>1 DEF SoundAnswer, DefinedValues, ValuesOnSteps, DefaultsBind, IsInstance, Accepted
<1> QED BY <1>1, <1>2 DEF BindInv

LEMMA BindStep ==
  ASSUME NEW amounts \in SUBSET Int, Typed(amounts), BindInv(amounts), [Next]_vars
  PROVE  BindInv(amounts)'
<1>1. CASE \/ \E file \in Used : HandEdit(file)
           \/ \E version \in DOMAIN Bundles : StartGenerator(version)
           \/ Generate \/ GeneratorDies
           \/ UNCHANGED vars
  <2>1. UNCHANGED <<tool, answer>>
    BY <1>1 DEF HandEdit, StartGenerator, Generate, GeneratorDies, vars
  <2> QED BY <1>1, <2>1, BindFilesStep
<1>2. CASE ValidateDefinition
  BY <1>2, BindAnswerStep DEF ValidateDefinition, SoundAnswer
<1>3. CASE BindParameters
  <2> DEFINE pairs == disk.parameters.pairs
             result == BindFiles(disk.definition, disk.parameters)
             set == Bind(Current, Coerced(Current, pairs))
  <2>1. TypedDefinition(amounts, disk.definition) /\ TypedPairs(amounts, pairs)
    BY <1>3 DEF BindParameters, BindInv
  <2>2. Answers("bind", result, IF result = Refused THEN None ELSE Meaning(result))
    BY <1>3 DEF BindParameters, AnswersInstance
  <2>3. ASSUME result # Refused
        PROVE  HasDefinedValues(result) /\ (Exact(amounts) => HasValuesOnSteps(result))
    <3>1. Current # Refused /\ result = Instance(Current, set)
      BY <2>3 DEF BindFiles, Current
    <3>2. SoundlyDefined(amounts, Current)  BY <2>1, <3>1, DefinitionIsSound DEF Current
    <3>3. set # Refused => TypedSet(amounts, set)
      <4>1. TypedOrRefused(amounts, Coerced(Current, pairs))  BY <2>1, CoercedIsTyped
      <4> QED BY <4>1, BoundIsTyped
    <3> HIDE DEF result, set
    <3> QED BY <2>3, <3>1, <3>2, <3>3, InstanceIsDefined
  <2> HIDE DEF result
  <2>4. SoundAnswer(amounts, "bind", result)  BY <2>3 DEF SoundAnswer
  <2> QED BY <2>2, <2>4, BindAnswerStep
<1>4. CASE UseDefaults
  <2> DEFINE set == BindDefaults(Current)
             result == Instance(Current, set)
  <2>1. TypedDefinition(amounts, disk.definition) /\ Current # Refused
    BY <1>4 DEF UseDefaults, BindInv
  <2>2. Answers("defaults", result, IF result = Refused THEN None ELSE Meaning(result))
    BY <1>4 DEF UseDefaults, AnswersInstance
  <2>3. SoundlyDefined(amounts, Current)  BY <2>1, DefinitionIsSound DEF Current
  <2>4. set # Refused => TypedSet(amounts, set)
    <3> DEFINE pairs == [i \in DOMAIN Current.parameters |->
                 [key |-> Current.parameters[i].key, value |-> Current.parameters[i].default]]
    <3>1. TypedOrRefused(amounts, pairs)
      BY <2>3 DEF TypedOrRefused, SoundlyDefined, SoundParameter, ParameterDoc
    <3>2. set = Bind(Current, pairs)  BY DEF BindDefaults
    <3> HIDE DEF pairs, set
    <3> QED BY <3>1, <3>2, BoundIsTyped
  <2>5. result # Refused =>
          HasDefinedValues(result) /\ (Exact(amounts) => HasValuesOnSteps(result))
    <3> HIDE DEF set
    <3> QED BY <2>3, <2>4, InstanceIsDefined
  <2>6. RefusedIsNoRecord => result # Refused  BY <2>3, DefaultsAreBound
  <2> HIDE DEF result
  <2>7. SoundAnswer(amounts, "defaults", result)  BY <2>5, <2>6 DEF SoundAnswer
  <2> QED BY <2>2, <2>7, BindAnswerStep
<1>5. CASE BuildByHand
  <2>1. PICK pairs \in HandPairs, hash \in {HashDefinition(Current), None} :
          AnswersInstance("hand", Instance(Current, ParameterSet(hash, pairs)))
    BY <1>5 DEF BuildByHand
  <2> DEFINE set == ParameterSet(hash, pairs)
             result == Instance(Current, set)
  <2>2. TypedDefinition(amounts, disk.definition) /\ Current # Refused
    BY <1>5 DEF BuildByHand, BindInv
  <2>3. Answers("hand", result, IF result = Refused THEN None ELSE Meaning(result))
    BY <2>1 DEF AnswersInstance
  <2>4. SoundlyDefined(amounts, Current)  BY <2>2, DefinitionIsSound DEF Current
  <2>5. set # Refused => TypedSet(amounts, set)
    <3>1. set # Refused => set.values = pairs  BY DEF ParameterSet
    <3>2. \A i \in DOMAIN pairs : pairs[i].value \in Scalar(amounts)
      <4> DEFINE R == [key : Int, value : Scalar(amounts)]
      <4>1. pairs \in Seq(R)  BY DEF Typed, TypedPairs
      <4>2. \A r \in R : r.value \in Scalar(amounts)  OBVIOUS
      <4> HIDE DEF R
      <4> QED BY <4>1, <4>2
    <3> HIDE DEF set
    <3> QED BY <3>1, <3>2 DEF TypedSet
  <2>6. result # Refused =>
          HasDefinedValues(result) /\ (Exact(amounts) => HasValuesOnSteps(result))
    <3> HIDE DEF set
    <3> QED BY <2>4, <2>5, InstanceIsDefined
  <2> HIDE DEF result
  <2>7. SoundAnswer(amounts, "hand", result)  BY <2>6 DEF SoundAnswer
  <2> QED BY <2>3, <2>7, BindAnswerStep
<1>6. CASE Verify  BY <1>6, BindAnswerStep DEF Verify, SoundAnswer
<1> QED BY <1>1, <1>2, <1>3, <1>4, <1>5, <1>6 DEF Next

\* However it was come by, an instance has a value for every parameter of its
\* definition and no other, of its kind, within its bounds, among its choices.
THEOREM InstancesAlwaysDefined == Spec => []DefinedValues
<1>1. BindInv(Int) => DefinedValues  BY DEF BindInv
<1>2. Int \in SUBSET Int /\ Typed(Int)  BY FilesAssumption
<1>3. Init => BindInv(Int)  BY <1>2, BindInit
<1>4. BindInv(Int) /\ [Next]_vars => BindInv(Int)'  BY <1>2, BindStep
<1> QED BY <1>1, <1>3, <1>4, PTL DEF Spec

\* And on its parameters' steps, of amounts that the decimal context subtracts
\* exactly; that the condition is needed is what the run step_alignment shows.
THEOREM ValuesAlwaysDefined ==
  ASSUME NEW amounts \in SUBSET Int, Typed(amounts), Exact(amounts)
  PROVE  Spec => []OnlyDefinedValues
<1>1. BindInv(amounts) => OnlyDefinedValues  BY DEF BindInv, OnlyDefinedValues
<1>2. Init => BindInv(amounts)  BY BindInit
<1>3. BindInv(amounts) /\ [Next]_vars => BindInv(amounts)'  BY BindStep
<1> QED BY <1>1, <1>2, <1>3, PTL DEF Spec

\* The defaults of every definition that is accepted can be bound, however many
\* parameters it has and whatever their bounds and steps.
THEOREM DefaultsAlwaysBind == RefusedIsNoRecord => (Spec => []DefaultsBind)
<1> SUFFICES ASSUME RefusedIsNoRecord PROVE Spec => []DefaultsBind  OBVIOUS
<1>1. BindInv(Int) => DefaultsBind  BY DEF BindInv
<1>2. Int \in SUBSET Int /\ Typed(Int)  BY FilesAssumption
<1>3. Init => BindInv(Int)  BY <1>2, BindInit
<1>4. BindInv(Int) /\ [Next]_vars => BindInv(Int)'  BY <1>2, BindStep
<1> QED BY <1>1, <1>3, <1>4, PTL DEF Spec

----------------------------------------------------------------------------
(* What hashes tell apart. *)

\* A parameter that was read: its numbers are decimals, spelled canonically, or
\* none of them is a decimal.
Spelled(p) ==
  \A v \in {p.default, p.minimum, p.maximum, p.step} :
    IF p.kind = "decimal" THEN v = Null \/ (v.t = "decimal" /\ v.s = "canonical")
    ELSE v.t # "decimal"

\* So are all that are read from a file.
LEMMA ParameterIsSpelled ==
  ASSUME NEW doc \in ParameterDoc(Int), Parameter(doc) # Refused
  PROVE  Spelled(Parameter(doc))
<1> DEFINE typed == [doc EXCEPT !.default = CanonicalDecimal(doc.default),
                                !.minimum = OptionalDecimal(doc.minimum),
                                !.maximum = OptionalDecimal(doc.maximum),
                                !.step = OptionalDecimal(doc.step)]
<1>1. /\ doc \in [key : Int, kind : STRING, default : Scalar(Int), minimum : Scalar(Int),
                  maximum : Scalar(Int), step : Scalar(Int), choices : Seq(Scalar(Int))]
      /\ doc.kind \in {"boolean", "enum"} =>
           doc.minimum = Null /\ doc.maximum = Null /\ doc.step = Null
  BY DEF ParameterDoc
<1>2. Null.t = "null"  BY DEF Null
<1>3. CASE doc.kind = "decimal"
  <2>1. /\ Parameter(doc) = typed
        /\ Refused \notin {typed.default, typed.minimum, typed.maximum, typed.step}
    BY <1>3 DEF Parameter
  <2>2. /\ typed.kind = "decimal"
        /\ typed.default = CanonicalDecimal(doc.default)
        /\ typed.minimum = OptionalDecimal(doc.minimum)
        /\ typed.maximum = OptionalDecimal(doc.maximum)
        /\ typed.step = OptionalDecimal(doc.step)
    BY <1>1, <1>3
  <2>3. ASSUME NEW v \in Scalar(Int), CanonicalDecimal(v) # Refused
        PROVE  CanonicalDecimal(v).t = "decimal" /\ CanonicalDecimal(v).s = "canonical"
    BY <2>3 DEF CanonicalDecimal, Canonical, Scalar
  <2> HIDE DEF typed
  <2>4. \A v \in {typed.default, typed.minimum, typed.maximum, typed.step} :
          v = Null \/ (v.t = "decimal" /\ v.s = "canonical")
    BY <1>1, <2>1, <2>2, <2>3 DEF OptionalDecimal
  <2> QED BY <2>1, <2>2, <2>4 DEF Spelled
<1>4. CASE doc.kind = "integer"
  <2>1. /\ Parameter(doc) = doc /\ doc.default.t = "int"
        /\ \A v \in {doc.minimum, doc.maximum, doc.step} : v = Null \/ v.t = "int"
    BY <1>4 DEF Parameter
  <2> QED BY <1>2, <1>4, <2>1 DEF Spelled
<1>5. CASE doc.kind = "boolean"
  <2>1. Parameter(doc) = doc /\ doc.default.t = "bool"  BY <1>5 DEF Parameter
  <2> QED BY <1>1, <1>2, <1>5, <2>1 DEF Spelled
<1>6. CASE doc.kind = "enum"
  <2>1. Parameter(doc) = doc /\ SoundEnum(doc)  BY <1>6 DEF Parameter
  <2>2. doc.default.t = "str"  BY <2>1 DEF SoundEnum
  <2> QED BY <1>1, <1>2, <1>6, <2>1, <2>2 DEF Spelled
<1>7. CASE doc.kind \notin Kinds  BY <1>7 DEF Parameter, Kinds
<1> QED BY <1>3, <1>4, <1>5, <1>6, <1>7 DEF Kinds

\* Among values of a kind, the canonical spelling tells amounts apart.
LEMMA JsonTells ==
  ASSUME NEW v \in Scalar(Int), NEW w \in Scalar(Int), InJson(v) = InJson(w),
         \/ \A x \in {v, w} : x = Null \/ (x.t = "decimal" /\ x.s = "canonical")
         \/ \A x \in {v, w} : x.t # "decimal"
  PROVE  v = w
<1>1. /\ v = [t |-> v.t, n |-> v.n, s |-> v.s] /\ w = [t |-> w.t, n |-> w.n, s |-> w.s]
  BY DEF Scalar
<1>2. \A x \in {v, w} : x.t = "decimal" => InJson(x) = [t |-> "str", n |-> x.n, s |-> "canonical"]
  BY <1>1 DEF InJson
<1>3. \A x \in {v, w} : x.t # "decimal" => InJson(x) = x  BY DEF InJson
<1>4. Null.t = "null"  BY DEF Null
<1>5. CASE v.t = "decimal" /\ w.t = "decimal"
  <2>1. v.s = "canonical" /\ w.s = "canonical"  BY <1>4, <1>5
  <2>2. v.n = w.n  BY <1>2, <1>5
  <2> QED BY <1>1, <1>5, <2>1, <2>2
<1>6. CASE v.t # "decimal" /\ w.t # "decimal"  BY <1>3, <1>6
<1>7. CASE v.t = "decimal" /\ w.t # "decimal"
  <2>1. w = Null  BY <1>7
  <2>2. InJson(v).t = "str" /\ InJson(w).t = "null"  BY <1>2, <1>3, <1>4, <1>7, <2>1
  <2> QED BY <2>2
<1>8. CASE v.t # "decimal" /\ w.t = "decimal"
  <2>1. v = Null  BY <1>8
  <2>2. InJson(w).t = "str" /\ InJson(v).t = "null"  BY <1>2, <1>3, <1>4, <1>8, <2>1
  <2> QED BY <2>2
<1> QED BY <1>5, <1>6, <1>7, <1>8

\* A parameter as hash_definition writes it.
Written(p) ==
  [p EXCEPT !.default = InJson(p.default), !.minimum = InJson(p.minimum),
            !.maximum = InJson(p.maximum), !.step = InJson(p.step)]

\* What is written of a parameter that was read tells it from every other.
LEMMA WrittenTells ==
  ASSUME NEW p \in ParameterDoc(Int), Spelled(p), NEW q \in ParameterDoc(Int), Spelled(q),
         Written(p) = Written(q)
  PROVE  p = q
<1> DEFINE R == [key : Int, kind : STRING, default : Scalar(Int), minimum : Scalar(Int),
                 maximum : Scalar(Int), step : Scalar(Int), choices : Seq(Scalar(Int))]
<1>1. p \in R /\ q \in R  BY DEF ParameterDoc
<1>2. ASSUME NEW r \in R
      PROVE  /\ Written(r).key = r.key /\ Written(r).kind = r.kind
             /\ Written(r).choices = r.choices
             /\ Written(r).default = InJson(r.default) /\ Written(r).minimum = InJson(r.minimum)
             /\ Written(r).maximum = InJson(r.maximum) /\ Written(r).step = InJson(r.step)
             /\ r = [key |-> r.key, kind |-> r.kind, default |-> r.default, minimum |-> r.minimum,
                     maximum |-> r.maximum, step |-> r.step, choices |-> r.choices]
             /\ {r.default, r.minimum, r.maximum, r.step} \subseteq Scalar(Int)
  BY DEF Written
<1> HIDE DEF R
<1>3. p.kind = q.kind /\ p.key = q.key /\ p.choices = q.choices  BY <1>1, <1>2
<1>4. ASSUME NEW v \in {p.default, p.minimum, p.maximum, p.step},
             NEW w \in {q.default, q.minimum, q.maximum, q.step}, InJson(v) = InJson(w)
      PROVE  v = w
  <2>1. v \in Scalar(Int) /\ w \in Scalar(Int)  BY <1>1, <1>2
  <2>2. \/ \A x \in {v, w} : x = Null \/ (x.t = "decimal" /\ x.s = "canonical")
        \/ \A x \in {v, w} : x.t # "decimal"
    BY <1>3 DEF Spelled
  <2> QED BY <1>4, <2>1, <2>2, JsonTells
<1>5. /\ p.default = q.default /\ p.minimum = q.minimum
      /\ p.maximum = q.maximum /\ p.step = q.step
  BY <1>1, <1>2, <1>4
<1> QED BY <1>1, <1>2, <1>3, <1>5

\* A definition that was read.
ReadDefinition(d) ==
  /\ SoundlyDefined(Int, d)
  /\ "parameters" \in DOMAIN d /\ d = [x \in DOMAIN d |-> d[x]]
  /\ d.parameters = [i \in DOMAIN d.parameters |-> d.parameters[i]]
  /\ \A i \in DOMAIN d.parameters : Spelled(d.parameters[i])

\* Every definition that parse_definition_file returns is.
LEMMA DefinitionIsRead ==
  ASSUME NEW file, TypedDefinition(Int, file), Definition(file) # Refused
  PROVE  ReadDefinition(Definition(file))
<1> DEFINE doc == file.doc
           parsed == [i \in DOMAIN doc.parameters |-> Parameter(doc.parameters[i])]
           def == [doc EXCEPT !.parameters = parsed]
<1>1. Definition(file) = def /\ \A i \in DOMAIN parsed : parsed[i] # Refused
  BY DEF Definition
<1>2. \A i \in DOMAIN doc.parameters : doc.parameters[i] \in ParameterDoc(Int)
  BY DEF TypedDefinition
<1>3. \A i \in DOMAIN parsed : Spelled(parsed[i])  BY <1>1, <1>2, ParameterIsSpelled
<1>4. def.parameters = parsed /\ "parameters" \in DOMAIN def /\ def = [x \in DOMAIN def |-> def[x]]
  BY DEF TypedDefinition
<1>5. parsed = [i \in DOMAIN parsed |-> parsed[i]]  OBVIOUS
<1>6. SoundlyDefined(Int, def)  BY <1>1, DefinitionIsSound
<1> HIDE DEF def, parsed
<1> QED BY <1>1, <1>3, <1>4, <1>5, <1>6 DEF ReadDefinition

\* The hash of a definition commits to all of it.
LEMMA DefinitionsTell ==
  ASSUME NEW d, ReadDefinition(d), NEW e, ReadDefinition(e),
         HashDefinition(d) = HashDefinition(e)
  PROVE  d = e
<1> DEFINE Hashed(x) == [i \in DOMAIN x.parameters |-> Written(x.parameters[i])]
<1>1. ASSUME NEW x, ReadDefinition(x)
      PROVE  /\ HashDefinition(x) = [x EXCEPT !.parameters = Hashed(x)]
             /\ DOMAIN HashDefinition(x) = DOMAIN x
             /\ HashDefinition(x).parameters = Hashed(x)
             /\ \A f \in DOMAIN x : f # "parameters" => HashDefinition(x)[f] = x[f]
             /\ \A i \in DOMAIN x.parameters :
                  x.parameters[i] \in ParameterDoc(Int) /\ Spelled(x.parameters[i])
  <2>1. HashDefinition(x) = [x EXCEPT !.parameters = Hashed(x)]
    BY DEF HashDefinition, Written
  <2>2. \A i \in DOMAIN x.parameters :
          x.parameters[i] \in ParameterDoc(Int) /\ Spelled(x.parameters[i])
    BY <1>1 DEF ReadDefinition, SoundlyDefined, SoundParameter
  <2>3. "parameters" \in DOMAIN x  BY <1>1 DEF ReadDefinition
  <2> HIDE DEF Hashed
  <2> QED BY <2>1, <2>2, <2>3
<1>2. Hashed(d) = Hashed(e)
  <2> HIDE DEF Hashed
  <2>1. HashDefinition(d).parameters = Hashed(d) /\ HashDefinition(e).parameters = Hashed(e)
    BY <1>1
  <2> QED BY <2>1
<1>3. DOMAIN d.parameters = DOMAIN e.parameters
  <2>1. DOMAIN Hashed(d) = DOMAIN Hashed(e)  BY <1>2
  <2> QED BY <2>1
<1>4. \A i \in DOMAIN d.parameters : d.parameters[i] = e.parameters[i]
  <2> TAKE i \in DOMAIN d.parameters
  <2>1. Hashed(d)[i] = Written(d.parameters[i]) /\ Hashed(e)[i] = Written(e.parameters[i])
    BY <1>3
  <2> QED BY <1>1, <1>2, <1>3, <2>1, WrittenTells
<1>5. d.parameters = e.parameters  BY <1>3, <1>4 DEF ReadDefinition
<1>6. DOMAIN d = DOMAIN e /\ \A f \in DOMAIN d : d[f] = e[f]
  <2> HIDE DEF Hashed
  <2>1. DOMAIN HashDefinition(d) = DOMAIN d /\ DOMAIN HashDefinition(e) = DOMAIN e
    BY <1>1
  <2>2. /\ \A f \in DOMAIN d : f # "parameters" => HashDefinition(d)[f] = d[f]
        /\ \A f \in DOMAIN e : f # "parameters" => HashDefinition(e)[f] = e[f]
    BY <1>1
  <2> QED BY <1>5, <2>1, <2>2
<1> QED BY <1>6 DEF ReadDefinition

\* An instance that is kept is one of a definition that was read and of pairs.
Kept(d, set) ==
  /\ ReadDefinition(d) /\ set # Refused /\ Matches(d, set)
  /\ \A i \in DOMAIN set.values :
       /\ set.values[i] = [key |-> set.values[i].key, value |-> set.values[i].value]
       /\ set.values[i].value \in Scalar(Int)

\* Of values of one kind, what is written is the same when they say the same.
LEMMA SaysWhatIsWritten ==
  ASSUME NEW v \in Scalar(Int), NEW w \in Scalar(Int), v.t = w.t
  PROVE  InJson(v) = InJson(w) <=> Says(v) = Says(w)
<1>1. /\ v = [t |-> v.t, n |-> v.n, s |-> v.s] /\ w = [t |-> w.t, n |-> w.n, s |-> w.s]
  BY DEF Scalar
<1>2. CASE v.t = "decimal"
  <2>1. /\ InJson(v) = [t |-> "str", n |-> v.n, s |-> "canonical"]
        /\ InJson(w) = [t |-> "str", n |-> w.n, s |-> "canonical"]
    BY <1>1, <1>2 DEF InJson
  <2>2. Says(v) = <<"decimal", v.n, "">> /\ Says(w) = <<"decimal", w.n, "">>
    BY <1>2 DEF Says
  <2>3. InJson(v) = InJson(w) <=> v.n = w.n  BY <2>1
  <2>4. \A x, y : <<"decimal", x, "">> = <<"decimal", y, "">> <=> x = y  OBVIOUS
  <2>5. Says(v) = Says(w) <=> v.n = w.n  BY <2>2, <2>4
  <2> QED BY <2>3, <2>5
<1>3. CASE v.t # "decimal"
  <2>1. InJson(v) = v /\ InJson(w) = w  BY <1>3 DEF InJson
  <2>2. Says(v) = <<v.t, v.n, v.s>> /\ Says(w) = <<w.t, w.n, w.s>>  BY <1>3 DEF Says
  <2> QED BY <1>1, <2>1, <2>2
<1> QED BY <1>2, <1>3

\* The hash of an instance commits to what it means, and to nothing else.
LEMMA InstancesTell ==
  ASSUME NEW d, NEW a, Kept(d, a), NEW e, NEW b, Kept(e, b)
  PROVE  Instance(d, a).hash = Instance(e, b).hash
           <=> Meaning(Instance(d, a)) = Meaning(Instance(e, b))
<1> DEFINE Pairs(x) == [i \in DOMAIN x.values |-> [x.values[i] EXCEPT !.value = InJson(x.values[i].value)]]
           Meant(x) == [i \in DOMAIN x.values |-> <<x.values[i].key, Says(x.values[i].value)>>]
<1>1. ASSUME NEW x, NEW c, Kept(x, c)
      PROVE  /\ Instance(x, c).hash =
                  [definition |-> HashDefinition(x),
                   set |-> [definition_hash |-> HashDefinition(x), parameters |-> Pairs(c)]]
             /\ Meaning(Instance(x, c)) = <<x, Meant(c)>>
  <2>1. Instance(x, c) = [definition |-> x, set |-> c,
                          hash |-> [definition |-> HashDefinition(x), set |-> SetHash(c)]]
    BY <1>1 DEF Kept, Instance
  <2>2. c.definition_hash = HashDefinition(x)  BY <1>1 DEF Kept, Matches
  <2>3. SetHash(c) = [definition_hash |-> HashDefinition(x), parameters |-> Pairs(c)]
    BY <2>2 DEF SetHash
  <2>4. /\ Instance(x, c).definition = x /\ Instance(x, c).set = c
        /\ Instance(x, c).hash = [definition |-> HashDefinition(x), set |-> SetHash(c)]
    BY <2>1
  <2>5. Meaning(Instance(x, c)) = <<x, Meant(c)>>  BY <2>4 DEF Meaning
  <2> QED BY <2>3, <2>4, <2>5
<1>2. Instance(d, a).hash = Instance(e, b).hash
        <=> HashDefinition(d) = HashDefinition(e) /\ Pairs(a) = Pairs(b)
  <2> HIDE DEF Pairs, Meant
  <2> DEFINE Whole(h, x) == [definition |-> h, set |-> [definition_hash |-> h, parameters |-> x]]
  <2>1. /\ Instance(d, a).hash = Whole(HashDefinition(d), Pairs(a))
        /\ Instance(e, b).hash = Whole(HashDefinition(e), Pairs(b))
    BY <1>1
  <2>2. \A h, x, g, y : Whole(h, x) = Whole(g, y) <=> h = g /\ x = y
    <3> TAKE h, x, g, y
    <3>1. /\ Whole(h, x).definition = h /\ Whole(h, x).set.parameters = x
          /\ Whole(g, y).definition = g /\ Whole(g, y).set.parameters = y
      OBVIOUS
    <3> QED BY <3>1
  <2> HIDE DEF Whole
  <2> QED BY <2>1, <2>2
<1>3. Meaning(Instance(d, a)) = Meaning(Instance(e, b)) <=> d = e /\ Meant(a) = Meant(b)
  <2> HIDE DEF Pairs, Meant
  <2>1. /\ Meaning(Instance(d, a)) = <<d, Meant(a)>>
        /\ Meaning(Instance(e, b)) = <<e, Meant(b)>>
    BY <1>1
  <2>2. \A x, y, z, u : <<x, y>> = <<z, u>> <=> x = z /\ y = u  OBVIOUS
  <2> QED BY <2>1, <2>2
<1>4. HashDefinition(d) = HashDefinition(e) <=> d = e  BY DefinitionsTell DEF Kept
<1>5. ASSUME d = e
      PROVE  Pairs(a) = Pairs(b) <=> Meant(a) = Meant(b)
  <2>1. DOMAIN a.values = DOMAIN d.parameters /\ DOMAIN b.values = DOMAIN d.parameters
    BY <1>5 DEF Kept, Matches
  <2>2. ASSUME NEW i \in DOMAIN d.parameters
        PROVE  Pairs(a)[i] = Pairs(b)[i] <=> Meant(a)[i] = Meant(b)[i]
    <3> DEFINE v == a.values[i].value  w == b.values[i].value
               p == d.parameters[i]
    <3>1. /\ a.values[i].key = p.key /\ b.values[i].key = p.key
          /\ AcceptsValue(p, v) /\ AcceptsValue(p, w) /\ SoundParameter(Int, p)
      BY <1>5, <2>1 DEF Kept, Matches, ReadDefinition, SoundlyDefined
    <3>2. /\ v \in Scalar(Int) /\ w \in Scalar(Int)
          /\ a.values[i] = [key |-> p.key, value |-> v]
          /\ b.values[i] = [key |-> p.key, value |-> w]
      BY <2>1, <3>1 DEF Kept
    <3>3. v.t = w.t
      <4> HIDE DEF v, w, p
      <4> QED BY <3>1, AcceptedIsDefined
    <3>4. InJson(v) = InJson(w) <=> Says(v) = Says(w)
      <4> HIDE DEF v, w
      <4> QED BY <3>2, <3>3, SaysWhatIsWritten
    <3>5. /\ Pairs(a)[i] = [a.values[i] EXCEPT !.value = InJson(v)]
          /\ Pairs(b)[i] = [b.values[i] EXCEPT !.value = InJson(w)]
          /\ Meant(a)[i] = <<p.key, Says(v)>> /\ Meant(b)[i] = <<p.key, Says(w)>>
      BY <2>1, <3>1
    <3> HIDE DEF v, w, p, Pairs, Meant
    <3>6. /\ Pairs(a)[i] = [key |-> p.key, value |-> InJson(v)]
          /\ Pairs(b)[i] = [key |-> p.key, value |-> InJson(w)]
      BY <3>2, <3>5
    <3> QED BY <3>4, <3>5, <3>6
  <2>3. Pairs(a) = Pairs(b) <=> \A i \in DOMAIN d.parameters : Pairs(a)[i] = Pairs(b)[i]
    BY <2>1
  <2>4. Meant(a) = Meant(b) <=> \A i \in DOMAIN d.parameters : Meant(a)[i] = Meant(b)[i]
    BY <2>1
  <2> HIDE DEF Pairs, Meant
  <2> QED BY <2>2, <2>3, <2>4
<1> QED BY <1>2, <1>3, <1>4, <1>5

\* What the report of files that passed holds.
LEMMA ReportIs ==
  ASSUME NEW f, Listed(f), VerifyBaseline(f) # Refused
  PROVE  LET contract == f.contract.body
             resolved == contract.status = "RESOLVED"
             manifest == f.fixtures.manifest
             def == Definition(f.definition)
         IN /\ VerifyBaseline(f) =
                 [allowed |-> resolved /\ contract.unresolved = 0,
                  contract |-> contract, evidence |-> f.evidence.body,
                  fixtures |-> IF resolved THEN manifest.cases ELSE None,
                  definition |-> IF resolved THEN HashDefinition(def) ELSE None]
            /\ ~resolved => manifest = None /\ def = Refused
            /\ resolved =>
                 /\ manifest # None /\ def # Refused /\ ReadDefinition(def)
                 /\ manifest.cases = [i \in DOMAIN manifest.cases |-> manifest.cases[i]]
                 /\ \A i \in DOMAIN manifest.cases :
                      /\ SoundCase(manifest.cases[i], f.fixtures.files)
                      /\ IsCase(manifest.cases[i])
                      /\ AreCaseFiles(f.fixtures.files[manifest.cases[i].id])
<1> DEFINE contract == f.contract.body
           resolved == contract.status = "RESOLVED"
           manifest == f.fixtures.manifest
           def == Definition(f.definition)
<1>1. /\ SoundFixtures(contract, f.fixtures) /\ ApprovedDefinition(contract, f.definition)
      /\ VerifyBaseline(f) =
           [allowed |-> resolved /\ contract.unresolved = 0,
            contract |-> contract, evidence |-> f.evidence.body,
            fixtures |-> IF resolved THEN manifest.cases ELSE None,
            definition |-> IF resolved THEN HashDefinition(def) ELSE None]
  BY DEF VerifyBaseline
<1>2. ASSUME ~resolved PROVE manifest = None /\ def = Refused
  <2>1. manifest = None /\ f.definition.flaw = "missing"
    BY <1>1, <1>2 DEF SoundFixtures, ApprovedDefinition
  <2>2. ~Readable(f.definition)  BY <2>1 DEF Readable, Flaws
  <2> QED BY <2>1, <2>2 DEF Definition
<1>3. ASSUME resolved
      PROVE  /\ manifest # None /\ def # Refused /\ ReadDefinition(def)
             /\ manifest.cases = [i \in DOMAIN manifest.cases |-> manifest.cases[i]]
             /\ \A i \in DOMAIN manifest.cases :
                  /\ SoundCase(manifest.cases[i], f.fixtures.files)
                  /\ IsCase(manifest.cases[i])
                  /\ AreCaseFiles(f.fixtures.files[manifest.cases[i].id])
  <2>1. /\ manifest # None
        /\ \A case \in Elements(manifest.cases) : SoundCase(case, f.fixtures.files)
    BY <1>1, <1>3 DEF SoundFixtures
  <2>2. def # Refused  BY <1>1, <1>3 DEF ApprovedDefinition
  <2>3. ReadDefinition(def)  BY <2>2, DefinitionIsRead DEF Listed
  <2>4. /\ manifest.cases \in Seq(Elements(manifest.cases))
        /\ \A case \in Elements(manifest.cases) : IsCase(case) /\ case.id \in CaseIds
        /\ \A id \in CaseIds : AreCaseFiles(f.fixtures.files[id])
    BY <2>1 DEF Listed, TypedFixtures
  <2>5. \A i \in DOMAIN manifest.cases : manifest.cases[i] \in Elements(manifest.cases)
    BY DEF Elements
  <2>6. manifest.cases = [i \in DOMAIN manifest.cases |-> manifest.cases[i]]
    <3> HIDE DEF manifest
    <3> QED BY <2>4
  <2> QED BY <2>1, <2>2, <2>3, <2>4, <2>5, <2>6
<1> QED BY <1>1, <1>2, <1>3

\* The hashes of a report commit to what it is about, down to the fixtures'
\* files: the manifest's hashes are theirs.
LEMMA ReportsTell ==
  ASSUME NEW f, Listed(f), VerifyBaseline(f) # Refused,
         NEW g, Listed(g), VerifyBaseline(g) # Refused
  PROVE  VerifyBaseline(f) = VerifyBaseline(g) <=> Reported(f) = Reported(g)
<1> DEFINE Resolved(x) == x.contract.body.status = "RESOLVED"
           Cases(x) == x.fixtures.manifest.cases
           Def(x) == Definition(x.definition)
           Seen(x) == [i \in DOMAIN Cases(x) |-> <<Cases(x)[i].id, x.fixtures.files[Cases(x)[i].id]>>]
           Same == f.contract.body = g.contract.body /\ f.evidence.body = g.evidence.body
<1>1. VerifyBaseline(f) = VerifyBaseline(g) <=>
        Same /\ (Resolved(f) => Cases(f) = Cases(g) /\ HashDefinition(Def(f)) = HashDefinition(Def(g)))
  <2> DEFINE Report(a, c, e, x, d) ==
        [allowed |-> a, contract |-> c, evidence |-> e, fixtures |-> x, definition |-> d]
  <2>1. /\ VerifyBaseline(f) =
             Report(Resolved(f) /\ f.contract.body.unresolved = 0, f.contract.body, f.evidence.body,
                    IF Resolved(f) THEN Cases(f) ELSE None,
                    IF Resolved(f) THEN HashDefinition(Def(f)) ELSE None)
        /\ VerifyBaseline(g) =
             Report(Resolved(g) /\ g.contract.body.unresolved = 0, g.contract.body, g.evidence.body,
                    IF Resolved(g) THEN Cases(g) ELSE None,
                    IF Resolved(g) THEN HashDefinition(Def(g)) ELSE None)
    BY ReportIs
  <2>2. /\ VerifyBaseline(f).contract = f.contract.body
        /\ VerifyBaseline(f).evidence = f.evidence.body
        /\ VerifyBaseline(g).contract = g.contract.body
        /\ VerifyBaseline(g).evidence = g.evidence.body
        /\ Resolved(f) => /\ VerifyBaseline(f).fixtures = Cases(f)
                          /\ VerifyBaseline(f).definition = HashDefinition(Def(f))
        /\ Resolved(g) => /\ VerifyBaseline(g).fixtures = Cases(g)
                          /\ VerifyBaseline(g).definition = HashDefinition(Def(g))
    <3> HIDE DEF Cases, Def
    <3> QED BY <2>1
  <2>3. Same => (Resolved(f) <=> Resolved(g))  OBVIOUS
  <2>4. ASSUME VerifyBaseline(f) = VerifyBaseline(g)
        PROVE  Same /\ (Resolved(f) => Cases(f) = Cases(g) /\ HashDefinition(Def(f)) = HashDefinition(Def(g)))
    <3>1. Same  BY <2>2, <2>4
    <3> HIDE DEF Same, Resolved, Cases, Def
    <3> QED BY <2>2, <2>3, <2>4, <3>1
  <2>5. ASSUME Same, Resolved(f) => Cases(f) = Cases(g) /\ HashDefinition(Def(f)) = HashDefinition(Def(g))
        PROVE  VerifyBaseline(f) = VerifyBaseline(g)
    <3>1. /\ (IF Resolved(f) THEN Cases(f) ELSE None) = (IF Resolved(g) THEN Cases(g) ELSE None)
          /\ (IF Resolved(f) THEN HashDefinition(Def(f)) ELSE None)
               = (IF Resolved(g) THEN HashDefinition(Def(g)) ELSE None)
      <4> HIDE DEF Same, Resolved, Cases, Def
      <4> QED BY <2>3, <2>5
    <3>2. f.contract.body = g.contract.body /\ f.evidence.body = g.evidence.body  BY <2>5
    <3>3. (Resolved(f) /\ f.contract.body.unresolved = 0)
            = (Resolved(g) /\ g.contract.body.unresolved = 0)
      BY <3>2
    <3> HIDE DEF Same, Resolved, Cases, Def, Report
    <3> QED BY <2>1, <3>1, <3>2, <3>3
  <2> QED BY <2>4, <2>5
<1>2. Reported(f) = Reported(g) <=>
        Same /\ Def(f) = Def(g) /\ (Resolved(f) => Seen(f) = Seen(g))
  <2> DEFINE Part(x) == IF x.fixtures.manifest = None THEN <<>> ELSE Seen(x)
  <2>1. /\ Reported(f) = <<f.contract.body, f.evidence.body, Def(f), Part(f)>>
        /\ Reported(g) = <<g.contract.body, g.evidence.body, Def(g), Part(g)>>
    BY DEF Reported
  <2>2. /\ Resolved(f) <=> f.fixtures.manifest # None
        /\ Resolved(g) <=> g.fixtures.manifest # None
    BY ReportIs
  <2>3. \A a, b, c, d, p, q, r, s :
          <<a, b, c, d>> = <<p, q, r, s>> <=> a = p /\ b = q /\ c = r /\ d = s
    OBVIOUS
  <2>4. Same => (Resolved(f) <=> Resolved(g))  OBVIOUS
  <2>5. Part(f) = IF Resolved(f) THEN Seen(f) ELSE <<>>  BY <2>2
  <2>6. Part(g) = IF Resolved(g) THEN Seen(g) ELSE <<>>  BY <2>2
  <2>7. Reported(f) = Reported(g) <=> Same /\ Def(f) = Def(g) /\ Part(f) = Part(g)
    <3> HIDE DEF Part, Def
    <3> QED BY <2>1, <2>3
  <2> HIDE DEF Part, Def, Seen, Same, Resolved
  <2> QED BY <2>4, <2>5, <2>6, <2>7
<1>3. ASSUME Same
      PROVE  Def(f) = Def(g) <=> (Resolved(f) => HashDefinition(Def(f)) = HashDefinition(Def(g)))
  <2>1. Resolved(f) <=> Resolved(g)  BY <1>3
  <2>2. /\ ~Resolved(f) => Def(f) = Refused
        /\ ~Resolved(g) => Def(g) = Refused
        /\ Resolved(f) => ReadDefinition(Def(f))
        /\ Resolved(g) => ReadDefinition(Def(g))
    BY ReportIs
  <2> HIDE DEF Resolved, Def
  <2> QED BY <2>1, <2>2, DefinitionsTell
<1>4. ASSUME Same, Resolved(f)
      PROVE  Cases(f) = Cases(g) <=> Seen(f) = Seen(g)
  <2>1. Resolved(g)  BY <1>4
  <2>2. ASSUME NEW x \in {f, g}
        PROVE  /\ Cases(x) = [i \in DOMAIN Cases(x) |-> Cases(x)[i]]
               /\ \A i \in DOMAIN Cases(x) :
                    /\ SoundCase(Cases(x)[i], x.fixtures.files)
                    /\ IsCase(Cases(x)[i]) /\ AreCaseFiles(x.fixtures.files[Cases(x)[i].id])
    BY <1>4, <2>1, ReportIs
  <2>3. ASSUME NEW x \in {f, g}, NEW i \in DOMAIN Cases(x)
        PROVE  LET c == Cases(x)[i]  t == x.fixtures.files[c.id]
               IN /\ c.expected = t.expected /\ c.execution = t.execution
                  /\ c.context = t.context /\ c.commit = Pinned[2]
                  /\ c = [id |-> c.id, expected |-> t.expected, execution |-> t.execution,
                          context |-> t.context, commit |-> Pinned[2]]
                  /\ t = [expected |-> c.expected, execution |-> c.execution, context |-> c.context]
                  /\ Seen(x)[i] = <<c.id, t>>
    <3> DEFINE c == Cases(x)[i]  t == x.fixtures.files[c.id]
    <3>1. SoundCase(c, x.fixtures.files) /\ IsCase(c) /\ AreCaseFiles(t)  BY <2>2, <2>3
    <3>2. Seen(x)[i] = <<c.id, t>>  BY <2>3
    <3>3. /\ c.expected = t.expected /\ c.execution = t.execution
          /\ c.context = t.context /\ c.commit = Pinned[2]
      BY <3>1 DEF SoundCase
    <3>4. /\ c = [id |-> c.id, expected |-> c.expected, execution |-> c.execution,
                  context |-> c.context, commit |-> c.commit]
          /\ t = [expected |-> t.expected, execution |-> t.execution, context |-> t.context]
      <4> HIDE DEF c, t
      <4> QED BY <3>1 DEF IsCase, AreCaseFiles
    <3> HIDE DEF c, t
    <3>5. /\ c = [id |-> c.id, expected |-> t.expected, execution |-> t.execution,
                  context |-> t.context, commit |-> Pinned[2]]
          /\ t = [expected |-> c.expected, execution |-> c.execution, context |-> c.context]
      BY <3>3, <3>4
    <3> QED BY <3>2, <3>3, <3>5 DEF c, t
  <2>4. ASSUME Cases(f) = Cases(g) PROVE Seen(f) = Seen(g)
    <3>1. ASSUME NEW i \in DOMAIN Cases(f) PROVE Seen(f)[i] = Seen(g)[i]
      <4>1. i \in DOMAIN Cases(g) /\ Cases(f)[i] = Cases(g)[i]  BY <2>4, <3>1
      <4> DEFINE c == Cases(f)[i]  t == f.fixtures.files[c.id]
                 d == Cases(g)[i]  u == g.fixtures.files[d.id]
      <4>2. /\ Seen(f)[i] = <<c.id, t>> /\ Seen(g)[i] = <<d.id, u>>
            /\ t = [expected |-> c.expected, execution |-> c.execution, context |-> c.context]
            /\ u = [expected |-> d.expected, execution |-> d.execution, context |-> d.context]
        BY <2>3, <3>1, <4>1
      <4>3. c = d  BY <4>1
      <4> HIDE DEF c, d, t, u, Seen
      <4>4. t = u /\ c.id = d.id  BY <4>2, <4>3
      <4> QED BY <4>2, <4>4
    <3>2. DOMAIN Seen(f) = DOMAIN Cases(f) /\ DOMAIN Seen(g) = DOMAIN Cases(f)  BY <2>4
    <3>3. Seen(f) = [i \in DOMAIN Seen(f) |-> Seen(f)[i]] /\ Seen(g) = [i \in DOMAIN Seen(g) |-> Seen(g)[i]]
      OBVIOUS
    <3> HIDE DEF Cases, Seen
    <3> QED BY <3>1, <3>2, <3>3
  <2>5. ASSUME Seen(f) = Seen(g) PROVE Cases(f) = Cases(g)
    <3>1. DOMAIN Cases(f) = DOMAIN Cases(g)
      <4>1. DOMAIN Seen(f) = DOMAIN Seen(g)  BY <2>5
      <4> QED BY <4>1
    <3>2. ASSUME NEW i \in DOMAIN Cases(f) PROVE Cases(f)[i] = Cases(g)[i]
      <4> DEFINE c == Cases(f)[i]  t == f.fixtures.files[c.id]
                 d == Cases(g)[i]  u == g.fixtures.files[d.id]
      <4>1. /\ Seen(f)[i] = <<c.id, t>> /\ Seen(g)[i] = <<d.id, u>>
            /\ c = [id |-> c.id, expected |-> t.expected, execution |-> t.execution,
                    context |-> t.context, commit |-> Pinned[2]]
            /\ d = [id |-> d.id, expected |-> u.expected, execution |-> u.execution,
                    context |-> u.context, commit |-> Pinned[2]]
        BY <2>3, <3>1, <3>2
      <4> HIDE DEF c, d, t, u, Seen
      <4>2. c.id = d.id /\ t = u
        <5>1. <<c.id, t>> = <<d.id, u>>  BY <2>5, <4>1
        <5> QED BY <5>1
      <4>3. c = d  BY <4>1, <4>2
      <4> QED BY <4>3 DEF c, d
    <3> HIDE DEF Cases, Seen
    <3> QED BY <2>2, <3>1, <3>2
  <2> QED BY <2>4, <2>5
<1> HIDE DEF Same, Resolved, Cases, Def, Seen
<1> QED BY <1>1, <1>2, <1>3, <1>4

\* What an accepted answer is made of.
AnswerInv ==
  Accepted =>
    \/ /\ answer.command = "validate"
       /\ \E d : ReadDefinition(d) /\ answer.result = HashDefinition(d) /\ answer.of = d
    \/ /\ IsInstance
       /\ \E d, set : /\ Kept(d, set) /\ answer.result = Instance(d, set)
                      /\ answer.of = Meaning(Instance(d, set))
    \/ /\ answer.command = "verify"
       /\ \E f : /\ Listed(f) /\ VerifyBaseline(f) # Refused
                 /\ answer.result = VerifyBaseline(f) /\ answer.of = Reported(f)

\* Two such answers have the same hashes when they are of the same.
LEMMA AnswersTell ==
  ASSUME AnswerInv, AnswerInv', Accepted, Accepted',
         (IsInstance /\ IsInstance') \/ answer.command = answer'.command
  PROVE  Identity(answer) = Identity(answer') <=> answer.of = answer'.of
<1>1. CASE answer.command = "validate"
  <2>1. answer'.command = "validate"  BY <1>1 DEF IsInstance
  <2>2. PICK d : ReadDefinition(d) /\ answer.result = HashDefinition(d) /\ answer.of = d
    BY <1>1 DEF AnswerInv, IsInstance
  <2>3. PICK e : ReadDefinition(e) /\ answer'.result = HashDefinition(e) /\ answer'.of = e
    BY <2>1 DEF AnswerInv, IsInstance
  <2>4. Identity(answer) = answer.result /\ Identity(answer') = answer'.result
    BY <1>1, <2>1 DEF Identity
  <2> QED BY <2>2, <2>3, <2>4, DefinitionsTell
<1>2. CASE answer.command = "verify"
  <2>1. answer'.command = "verify"  BY <1>2 DEF IsInstance
  <2>2. PICK f : /\ Listed(f) /\ VerifyBaseline(f) # Refused
                 /\ answer.result = VerifyBaseline(f) /\ answer.of = Reported(f)
    BY <1>2 DEF AnswerInv, IsInstance
  <2>3. PICK g : /\ Listed(g) /\ VerifyBaseline(g) # Refused
                 /\ answer'.result = VerifyBaseline(g) /\ answer'.of = Reported(g)
    BY <2>1 DEF AnswerInv, IsInstance
  <2>4. Identity(answer) = answer.result /\ Identity(answer') = answer'.result
    BY <1>2, <2>1 DEF Identity
  <2> QED BY <2>2, <2>3, <2>4, ReportsTell
<1>3. CASE answer.command \notin {"validate", "verify"}
  <2>1. IsInstance /\ IsInstance'  BY <1>3 DEF AnswerInv, IsInstance
  <2>2. PICK d, a : /\ Kept(d, a) /\ answer.result = Instance(d, a)
                    /\ answer.of = Meaning(Instance(d, a))
    BY <2>1 DEF AnswerInv, IsInstance
  <2>3. PICK e, b : /\ Kept(e, b) /\ answer'.result = Instance(e, b)
                    /\ answer'.of = Meaning(Instance(e, b))
    BY <2>1 DEF AnswerInv, IsInstance
  <2>4. /\ Identity(answer) = Instance(d, a).hash
        /\ Identity(answer') = Instance(e, b).hash
    BY <2>1, <2>2, <2>3 DEF Identity, IsInstance
  <2> QED BY <2>2, <2>3, <2>4, InstancesTell
<1> QED BY <1>1, <1>2, <1>3

\* The pairs of a set, whatever they hold.
ArePairs(set) ==
  \A i \in DOMAIN set.values : /\ set.values[i] = [key |-> set.values[i].key, value |-> set.values[i].value]
                               /\ set.values[i].value \in Scalar(Int)

\* A set that was bound has pairs.
LEMMA BoundIsPairs ==
  ASSUME NEW def, NEW pairs, TypedOrRefused(Int, pairs), Bind(def, pairs) # Refused
  PROVE  ArePairs(Bind(def, pairs))
<1> DEFINE values == [i \in DOMAIN def.parameters |->
             [key |-> def.parameters[i].key, value |-> Of(pairs, def.parameters[i].key).value]]
<1>1. Bind(def, pairs) = ParameterSet(HashDefinition(def), values)  BY DEF Bind
<1>2. Bind(def, pairs).values = values
  <2> HIDE DEF values
  <2> QED BY <1>1 DEF ParameterSet
<1>3. \A i \in DOMAIN values : values[i] = [key |-> values[i].key, value |-> values[i].value]
  OBVIOUS
<1>4. TypedSet(Int, Bind(def, pairs))  BY BoundIsTyped
<1> HIDE DEF values
<1> QED BY <1>2, <1>3, <1>4 DEF ArePairs, TypedSet

\* An instance made of a definition that was read and of pairs is kept.
LEMMA InstanceAnswered ==
  ASSUME NEW command \in {"bind", "defaults", "hand"}, NEW d, ReadDefinition(d), NEW set,
         set # Refused => ArePairs(set), AnswersInstance(command, Instance(d, set))
  PROVE  AnswerInv'
<1> DEFINE result == Instance(d, set)
<1>1. /\ answer'.command = command /\ answer'.result = result
      /\ answer'.of = IF result = Refused THEN None ELSE Meaning(result)
  BY DEF AnswersInstance, Answers
<1>2. ASSUME result # Refused PROVE Kept(d, set)
  BY <1>2 DEF Instance, Kept, ArePairs
<1>3. ASSUME Accepted'
      PROVE  IsInstance' /\ \E x, y : /\ Kept(x, y) /\ answer'.result = Instance(x, y)
                                      /\ answer'.of = Meaning(Instance(x, y))
  <2>1. result # Refused  BY <1>1, <1>3 DEF Accepted
  <2>2. IsInstance'  BY <1>1 DEF IsInstance
  <2> QED BY <1>1, <1>2, <2>1, <2>2
<1> QED BY <1>3 DEF AnswerInv

\* Every command answers of what it has read.
LEMMA AnswerStep ==
  ASSUME IInv, BindInv(Int), AnswerInv, [Next]_vars  PROVE AnswerInv'
<1>0. tool = "bind" /\ Current # Refused => ReadDefinition(Current)
  BY DefinitionIsRead DEF BindInv, Current
<1>1. CASE \/ \E file \in Used : HandEdit(file)
           \/ \E version \in DOMAIN Bundles : StartGenerator(version)
           \/ Generate \/ GeneratorDies
           \/ UNCHANGED vars
  <2>1. answer' = answer
    BY <1>1 DEF HandEdit, StartGenerator, Generate, GeneratorDies, vars
  <2> QED BY <2>1 DEF AnswerInv, Accepted, IsInstance
<1>2. CASE ValidateDefinition
  <2>1. /\ answer'.command = "validate"
        /\ answer'.result = IF Current = Refused THEN Refused ELSE HashDefinition(Current)
        /\ answer'.of = IF answer'.result = Refused THEN None ELSE Current
    BY <1>2 DEF ValidateDefinition, Answers
  <2>2. ASSUME Accepted'
        PROVE  \E d : ReadDefinition(d) /\ answer'.result = HashDefinition(d) /\ answer'.of = d
    <3>1. answer'.result # Refused  BY <2>2 DEF Accepted
    <3>2. Current # Refused /\ ReadDefinition(Current)
      BY <1>0, <1>2, <2>1, <3>1 DEF ValidateDefinition
    <3> QED BY <2>1, <3>1, <3>2
  <2> QED BY <2>1, <2>2 DEF AnswerInv
<1>3. CASE BindParameters
  <2> DEFINE pairs == disk.parameters.pairs
             result == BindFiles(disk.definition, disk.parameters)
             set == Bind(Current, Coerced(Current, pairs))
  <2>1. tool = "bind" /\ TypedPairs(Int, pairs) /\ AnswersInstance("bind", result)
    BY <1>3 DEF BindParameters, BindInv
  <2>2. CASE result = Refused
    <3>1. answer'.result = Refused  BY <2>1, <2>2 DEF AnswersInstance, Answers
    <3> QED BY <3>1 DEF AnswerInv, Accepted
  <2>3. CASE result # Refused
    <3>1. Current # Refused /\ result = Instance(Current, set)
      BY <2>3 DEF BindFiles, Current
    <3>2. set # Refused => ArePairs(set)
      <4>1. TypedOrRefused(Int, Coerced(Current, pairs))  BY <2>1, CoercedIsTyped
      <4> QED BY <4>1, BoundIsPairs
    <3>3. ReadDefinition(Current)  BY <1>0, <2>1, <3>1
    <3> HIDE DEF set, result
    <3> QED BY <2>1, <3>1, <3>2, <3>3, InstanceAnswered
  <2> QED BY <2>2, <2>3
<1>4. CASE UseDefaults
  <2> DEFINE set == BindDefaults(Current)
             pairs == [i \in DOMAIN Current.parameters |->
                 [key |-> Current.parameters[i].key, value |-> Current.parameters[i].default]]
  <2>1. /\ ReadDefinition(Current)
        /\ AnswersInstance("defaults", Instance(Current, set))
    BY <1>0, <1>4 DEF UseDefaults
  <2>2. set # Refused => ArePairs(set)
    <3>1. TypedOrRefused(Int, pairs)
      BY <2>1 DEF TypedOrRefused, ReadDefinition, SoundlyDefined, SoundParameter, ParameterDoc
    <3>2. set = Bind(Current, pairs)  BY DEF BindDefaults
    <3> HIDE DEF pairs, set
    <3> QED BY <3>1, <3>2, BoundIsPairs
  <2> HIDE DEF set
  <2> QED BY <2>1, <2>2, InstanceAnswered
<1>5. CASE BuildByHand
  <2>1. PICK pairs \in HandPairs, hash \in {HashDefinition(Current), None} :
          AnswersInstance("hand", Instance(Current, ParameterSet(hash, pairs)))
    BY <1>5 DEF BuildByHand
  <2> DEFINE set == ParameterSet(hash, pairs)
  <2>2. ReadDefinition(Current)  BY <1>0, <1>5 DEF BuildByHand
  <2>3. set # Refused => ArePairs(set)
    <3>1. set # Refused => set.values = pairs  BY DEF ParameterSet
    <3>2. \A i \in DOMAIN pairs : /\ pairs[i] = [key |-> pairs[i].key, value |-> pairs[i].value]
                                  /\ pairs[i].value \in Scalar(Int)
      <4> DEFINE R == [key : Int, value : Scalar(Int)]
      <4>1. pairs \in Seq(R)  BY FilesAssumption DEF Typed, TypedPairs
      <4>2. \A r \in R : r = [key |-> r.key, value |-> r.value] /\ r.value \in Scalar(Int)
        OBVIOUS
      <4> HIDE DEF R
      <4> QED BY <4>1, <4>2
    <3> HIDE DEF set
    <3> QED BY <3>1, <3>2 DEF ArePairs
  <2> HIDE DEF set
  <2> QED BY <2>1, <2>2, <2>3, InstanceAnswered DEF set
<1>6. CASE Verify
  <2>1. /\ answer'.command = "verify" /\ answer'.result = VerifyBaseline(disk)
        /\ answer'.of = IF answer'.result = Refused THEN None ELSE Reported(disk)
        /\ Listed(disk)
    BY <1>6 DEF Verify, Answers, IInv
  <2>2. ASSUME Accepted'
        PROVE  \E f : /\ Listed(f) /\ VerifyBaseline(f) # Refused
                      /\ answer'.result = VerifyBaseline(f) /\ answer'.of = Reported(f)
    <3>1. answer'.result # Refused  BY <2>2 DEF Accepted
    <3> QED BY <2>1, <3>1
  <2> QED BY <2>1, <2>2 DEF AnswerInv
<1> QED BY <1>1, <1>2, <1>3, <1>4, <1>5, <1>6 DEF Next

\* Two answers of a kind carry the same hashes exactly when they are about the
\* same definition, values, documents and fixture files, whatever was edited,
\* regenerated or left half regenerated in between (hash_definition,
\* compute_parameter_set_hash, the hashes of a verification's result).
THEOREM HashesAlwaysIdentify == Spec => HashesIdentify
<1> DEFINE Inv == IInv /\ BindInv(Int) /\ AnswerInv
<1>1. Init => Inv
  <2>1. Init => AnswerInv  BY DEF Init, AnswerInv, Accepted
  <2>2. Init => BindInv(Int)  BY FilesAssumption, BindInit
  <2> QED BY <2>1, <2>2, InitInv
<1>2. Inv /\ [Next]_vars => Inv'
  <2>1. Int \in SUBSET Int /\ Typed(Int)  BY FilesAssumption
  <2> QED BY <2>1, InvStep, BindStep, AnswerStep
<1>3. Inv /\ Inv' =>
        [(Accepted /\ Accepted' /\ ((IsInstance /\ IsInstance') \/ answer.command = answer'.command)) =>
           (Identity(answer) = Identity(answer') <=> answer.of = answer'.of)]_vars
  BY AnswersTell
<1> HIDE DEF Inv
<1> QED BY <1>1, <1>2, <1>3, PTL DEF Spec, HashesIdentify

----------------------------------------------------------------------------
(* The gate again. *)

\* For every set of protected semantics, every disk a session begins with and
\* everything a person or a generator, interrupted or not, leaves in the files:
\* a baseline whose provider is allowed is proven by its evidence and bound to
\* its own contract (verify_baseline_family).
THEOREM ResolvedAlwaysProven == Spec => []ResolvedMeansProven
<1>1. IInv => ResolvedMeansProven  BY DEF IInv
<1> QED BY <1>1, InitInv, InvStep, PTL DEF Spec
===============================================================================
