----------------------------- MODULE StrategyFiles -----------------------------
(***************************************************************************)
(* The strategy command line over files that people edit and the baseline  *)
(* generator rewrites, one file after the other: validate-definition,      *)
(* bind-parameters and verify-baseline, and the two ways to an instance    *)
(* that do not read a parameter file, the defaults and a parameter set     *)
(* built by hand.  Each command answers by an exit status and hashes.      *)
(***************************************************************************)
EXTENDS BaselineGate

CONSTANTS
  Bundles,       \* the baselines two versions of the generator write
  Starts,        \* the disks a session begins with
  Alternatives,  \* what a person may leave in each file, for each tool
  HandPairs,     \* values a parameter set may be built of by hand
  MaxEdited      \* bound on the baseline's files that differ from all of Starts

\* What can be read of a definition file and of parameter values, as far as
\* their JSON types go; amounts are members of the given set.
Types == {"null", "bool", "int", "str", "decimal"}
Scalar(amounts) == [t : Types, n : amounts, s : STRING]
ParameterDoc(amounts) ==
  {p \in [key : Int, kind : STRING, default : Scalar(amounts), minimum : Scalar(amounts),
          maximum : Scalar(amounts), step : Scalar(amounts), choices : Seq(Scalar(amounts))] :
     p.kind \in {"boolean", "enum"} => p.minimum = Null /\ p.maximum = Null /\ p.step = Null}
TypedDefinition(amounts, file) ==
  "parameters" \in DOMAIN file.doc /\ file.doc.parameters \in Seq(ParameterDoc(amounts))
TypedPairs(amounts, pairs) == pairs \in Seq([key : Int, value : Scalar(amounts)])

\* The cases the generator writes, and what there is of each on a disk.
CaseIds == DOMAIN Bundles[1].fixtures.files
IsCase(c) == c = [id |-> c.id, expected |-> c.expected, execution |-> c.execution,
                  context |-> c.context, commit |-> c.commit]
AreCaseFiles(f) == f = [expected |-> f.expected, execution |-> f.execution, context |-> f.context]
TypedFixtures(fixtures) ==
  /\ DOMAIN fixtures = {"manifest", "files"} /\ DOMAIN fixtures.files = CaseIds
  /\ \A id \in CaseIds : AreCaseFiles(fixtures.files[id])
  /\ fixtures.manifest # None =>
       /\ fixtures.manifest.cases \in Seq(Elements(fixtures.manifest.cases))
       /\ \A case \in Elements(fixtures.manifest.cases) : IsCase(case) /\ case.id \in CaseIds

\* The files of a baseline: claims and cases are listed, and the definition
\* names a source, none perhaps.
Listed(files) ==
  /\ {"contract", "evidence", "definition", "fixtures"} \subseteq DOMAIN files
  /\ IsFiniteSet(DOMAIN files.evidence.body.claims)
  /\ "source" \in DOMAIN files.definition.doc /\ TypedDefinition(Int, files.definition)
  /\ TypedFixtures(files.fixtures)

\* The files of the parameter commands, and the values built by hand.
Typed(amounts) ==
  /\ \A start \in Starts :
       /\ {"definition", "parameters"} \subseteq DOMAIN start
       /\ TypedDefinition(amounts, start.definition)
       /\ TypedPairs(amounts, start.parameters.pairs)
  /\ \A file \in Alternatives["bind"]["definition"] : TypedDefinition(amounts, file)
  /\ \A file \in Alternatives["bind"]["parameters"] : TypedPairs(amounts, file.pairs)
  /\ \A pairs \in HandPairs : TypedPairs(amounts, pairs)

ASSUME FilesAssumption ==
  /\ Refused \notin Scalar(Int)
  /\ Typed(Int)
  /\ \A start \in Starts : Listed(start)
  /\ \A version \in DOMAIN Bundles : Listed(Bundles[version])
  /\ \A file \in Alternatives["verify"]["evidence"] : IsFiniteSet(DOMAIN file.body.claims)
  /\ \A file \in Alternatives["verify"]["definition"] :
       "source" \in DOMAIN file.doc /\ TypedDefinition(Int, file)
  /\ \A fixtures \in Alternatives["verify"]["fixtures"] : TypedFixtures(fixtures)

VARIABLES
  tool,      \* the command line in use: "bind" or "verify"
  disk,      \* the files
  gen,       \* the generator: its version and the next file it writes, 0 when idle
  answer     \* the last command, its result and, history, what the result is of

vars == <<tool, disk, gen, answer>>

Steps == <<"contract", "evidence", "definition", "candles", "expected", "manifest">>
Used == IF tool = "bind" THEN {"definition", "parameters"}
        ELSE {"contract", "evidence", "definition", "fixtures"}

Init ==
  /\ tool \in {"bind", "verify"}
  /\ disk \in Starts
  /\ gen = [version |-> 1, step |-> 0]
  /\ answer = [command |-> "none", result |-> Refused, of |-> None]

----------------------------------------------------------------------------
(* The files change. *)

HandEdit(file) ==
  /\ gen.step = 0
  /\ \E content \in Alternatives[tool][file] : disk' = [disk EXCEPT ![file] = content]
  /\ tool = "verify" => \E start \in Starts :
       Cardinality({f \in Used : disk'[f] # start[f]}) <= MaxEdited
  /\ UNCHANGED <<tool, gen, answer>>

StartGenerator(version) ==
  /\ tool = "verify" /\ gen.step = 0
  /\ gen' = [version |-> version, step |-> 1]
  /\ UNCHANGED <<tool, disk, answer>>

\* What the generator leaves of the fixtures after a step of write_fixtures.
FixturesAfter(step, old, new) ==
  CASE step = "candles" -> [old EXCEPT !.files = [c \in DOMAIN old.files |->
         [new.files[c] EXCEPT !.expected = old.files[c].expected]]]
    [] step = "expected" -> [old EXCEPT !.files = [c \in DOMAIN old.files |->
         [old.files[c] EXCEPT !.expected = new.files[c].expected]]]
    [] step = "manifest" -> [old EXCEPT !.manifest = new.manifest]

\* main of the generator writes its next file.
Generate ==
  /\ gen.step > 0
  /\ LET step == Steps[gen.step]
         new == Bundles[gen.version]
     IN disk' = IF step \in DOMAIN disk THEN [disk EXCEPT ![step] = new[step]]
                ELSE [disk EXCEPT !.fixtures = FixturesAfter(step, disk.fixtures, new.fixtures)]
  /\ gen' = [gen EXCEPT !.step = IF gen.step = Len(Steps) THEN 0 ELSE gen.step + 1]
  /\ UNCHANGED <<tool, answer>>

GeneratorDies ==
  /\ gen.step > 0 /\ gen' = [gen EXCEPT !.step = 0]
  /\ UNCHANGED <<tool, disk, answer>>

----------------------------------------------------------------------------
(* The commands. *)

Answers(command, result, of) ==
  /\ answer' = [command |-> command, result |-> result,
                of |-> IF result = Refused THEN None ELSE of]
  /\ UNCHANGED <<tool, disk, gen>>

Current == Definition(disk.definition)

ValidateDefinition ==
  /\ tool = "bind"
  /\ Answers("validate", IF Current = Refused THEN Refused ELSE HashDefinition(Current), Current)

\* What a value says: the digits a decimal is written with say nothing.
Says(v) == <<v.t, v.n, IF v.t = "decimal" THEN "" ELSE v.s>>
Meaning(instance) ==
  <<instance.definition, [i \in DOMAIN instance.set.values |->
      <<instance.set.values[i].key, Says(instance.set.values[i].value)>>]>>

AnswersInstance(command, instance) ==
  Answers(command, instance, IF instance = Refused THEN None ELSE Meaning(instance))

BindParameters ==
  /\ tool = "bind"
  /\ AnswersInstance("bind", BindFiles(disk.definition, disk.parameters))

UseDefaults ==
  /\ tool = "bind" /\ Current # Refused
  /\ AnswersInstance("defaults", Instance(Current, BindDefaults(Current)))

\* StrategyParameterSet and StrategyInstanceSpecification, called directly.
BuildByHand ==
  /\ tool = "bind" /\ Current # Refused
  /\ \E pairs \in HandPairs, hash \in {HashDefinition(Current), None} :
       AnswersInstance("hand", Instance(Current, ParameterSet(hash, pairs)))

\* What a report is about: the documents, and the cases in their order.
Reported(files) ==
  <<files.contract.body, files.evidence.body, Definition(files.definition),
    IF files.fixtures.manifest = None THEN <<>>
    ELSE LET cases == files.fixtures.manifest.cases
         IN [i \in DOMAIN cases |-> <<cases[i].id, files.fixtures.files[cases[i].id]>>]>>

Verify ==
  /\ tool = "verify"
  /\ Answers("verify", VerifyBaseline(disk), Reported(disk))

Next ==
  \/ \E file \in Used : HandEdit(file)
  \/ \E version \in DOMAIN Bundles : StartGenerator(version)
  \/ Generate \/ GeneratorDies
  \/ ValidateDefinition \/ BindParameters \/ UseDefaults \/ BuildByHand \/ Verify

Spec == Init /\ [][Next]_vars

----------------------------------------------------------------------------
(* Properties. *)

Accepted == answer.result # Refused
IsInstance == answer.command \in {"bind", "defaults", "hand"}

\* v is the base of p plus a whole number of its steps, in exact arithmetic.
ExactlyOnStep(p, v) ==
  p.step = Null \/ p.kind \notin {"decimal", "integer"} \/ (v.n - Base(p)) % p.step.n = 0

HasValuesOnSteps(instance) ==
  LET ps == instance.definition.parameters
      vs == instance.set.values
  IN \A i \in DOMAIN ps \cap DOMAIN vs : ExactlyOnStep(ps[i], vs[i].value)

\* Decimal and integer values that were accepted lie exactly on their
\* parameter's steps, as ADR 0007 decides (_decimal_aligned).
ValuesOnSteps == (IsInstance /\ Accepted) => HasValuesOnSteps(answer.result)

\* One value for every parameter, and no other, of the parameter's kind, within
\* its bounds and among its choices.
HasDefinedValues(instance) ==
  LET ps == instance.definition.parameters
      vs == instance.set.values
      kinds == [decimal |-> "decimal", integer |-> "int", boolean |-> "bool", enum |-> "str"]
  IN /\ DOMAIN vs = DOMAIN ps
     /\ \A i \in DOMAIN ps :
          /\ vs[i].key = ps[i].key /\ vs[i].value.t = kinds[ps[i].kind]
          /\ InBounds(ps[i], vs[i].value)
          /\ ps[i].kind = "enum" => vs[i].value \in Elements(ps[i].choices)

\* What holds of instances also when amounts exceed the decimal context.
DefinedValues == (IsInstance /\ Accepted) => HasDefinedValues(answer.result)

\* An instance, however it was come by, has the values its definition defines,
\* each on its steps too (validate_parameter_set_against_definition).
OnlyDefinedValues == ValuesOnSteps /\ DefinedValues

\* The defaults of every definition that is accepted can be bound: what a
\* definition asks of its defaults is what binding asks of values.
DefaultsBind == answer.command = "defaults" => Accepted

Identity(a) == IF a.command = "verify" \/ a.command = "validate" THEN a.result ELSE a.result.hash

\* Two answers of a kind carry the same hashes exactly when they are about the
\* same thing: whatever was edited or regenerated in between shows, whether in a
\* value, a definition, a contract, a claim, a trace or a candle file.
HashesIdentify ==
  [][ (Accepted /\ Accepted' /\ ((IsInstance /\ IsInstance') \/ answer.command = answer'.command)) =>
        (Identity(answer) = Identity(answer') <=> answer.of = answer'.of) ]_vars

\* A provider may be implemented only for a baseline whose every protected
\* semantic is proven by its evidence, the timing ones by executed code, none of
\* it contradictory, whose approved definition was written for this very
\* contract: a generator that died between two files is found out
\* (verify_baseline_family).
ResolvedMeansProven ==
  (answer.command = "verify" /\ Accepted /\ answer.result.allowed) =>
    LET contract == answer.result.contract
        claims == Elements(answer.result.evidence.claims)
        Cited(k) == {c \in claims : c.id \in Elements(contract.protected[k].ids)}
    IN /\ contract.unresolved = 0
       /\ \A k \in ProtectedKeys :
            contract.protected[k].resolved /\ \E c \in Cited(k) : c.class \in Authoritative
       /\ \A k \in Critical : \E c \in Cited(k) : c.class = "AUTHORITATIVE_EXECUTABLE"
       /\ \A c \in claims : c.class # "CONTRADICTORY"
       /\ answer.result.definition.source = contract
================================================================================
