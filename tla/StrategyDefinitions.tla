------------------------- MODULE StrategyDefinitions -------------------------
(***************************************************************************)
(* Strategy definitions and the values bound to their parameters: what     *)
(* the strict JSON reader lets through, which definitions are accepted,    *)
(* how values are typed and bound, and what the hashes commit to.          *)
(*                                                                         *)
(* A JSON or Python scalar is a record [t, n, s]: its type, its amount and *)
(* its spelling.  Decimal amounts are integers in units of the finest      *)
(* digit; numerals in strings are spelled "canonical" or "padded", any     *)
(* other string is a word.  Parameter keys are numbers, in their           *)
(* lexicographic order.  A hash is the document it is taken of.            *)
(***************************************************************************)
EXTENDS Integers, Sequences

CONSTANTS
  Digits,        \* the precision of the decimal context
  SeededPairs,   \* the family pairs <<id, code>> of strategy_families
  MaxWarmup,     \* MAX_WARMUP_BARS
  None, Refused

ASSUME DigitsAssumption == Digits \in Nat \ {0}

Null == [t |-> "null", n |-> 0, s |-> "literal"]
Canonical(v) == v.t = "str" /\ v.s = "canonical"

----------------------------------------------------------------------------
(* Documents. *)

\* What loads_strict_json and load_json_file turn away before a document is
\* looked at.  A lenient reader would take the last of two equal keys, or the
\* document before the trailing text.
Flaws == {"missing", "too big", "bom", "not utf-8", "not json", "duplicate key",
          "non-finite", "too deep", "not an object", "trailing"}
Readable(file) == file.flaw \notin Flaws

\* _object_pairs_hook, for the pairs of a parameter file.
NoDuplicates(pairs) == \A i, j \in DOMAIN pairs : i # j => pairs[i].key # pairs[j].key

----------------------------------------------------------------------------
(* Parameters. *)

Magnitude(x) == IF x < 0 THEN -x ELSE x

\* Decimal subtraction: exact up to Digits digits, else half-even.
Rounded(x) ==
  LET m == Magnitude(x)
      Fits(k) == m < 10 ^ (Digits + k)
      drop == CHOOSE k \in 0..9 : Fits(k) /\ \A i \in 0..(k - 1) : ~Fits(i)
      unit == 10 ^ drop
      low == m \div unit
      rest == 2 * (m % unit)
      up == rest > unit \/ (rest = unit /\ low % 2 = 1)
      r == unit * (IF up THEN low + 1 ELSE low)
  IN IF x < 0 THEN -r ELSE r

Base(p) == IF p.minimum = Null THEN 0 ELSE p.minimum.n

\* _decimal_aligned: a quotient of more than Digits digits is an error.
DecimalAligned(p, v) ==
  LET d == Magnitude(Rounded(v.n - Base(p)))
  IN d \div p.step.n < 10 ^ Digits /\ d % p.step.n = 0

IntAligned(p, v) == (v.n - Base(p)) % p.step.n = 0

InBounds(p, v) ==
  /\ p.minimum # Null => v.n >= p.minimum.n
  /\ p.maximum # Null => v.n <= p.maximum.n

OnStep(p, v) ==
  p.step = Null \/ IF p.kind = "decimal" THEN DecimalAligned(p, v) ELSE IntAligned(p, v)

\* validate_value, of each kind.
AcceptsValue(p, v) ==
  CASE p.kind \in {"decimal", "integer"} ->
         /\ v.t = (IF p.kind = "decimal" THEN "decimal" ELSE "int")
         /\ InBounds(p, v) /\ OnStep(p, v)
    [] p.kind = "boolean" -> v.t = "bool"
    [] p.kind = "enum" -> v.t = "str" /\ \E i \in DOMAIN p.choices : v = p.choices[i]

\* Faulty variant: the default is aligned from zero.
SoundNumberFromZero(p) ==
  /\ p.minimum # Null /\ p.maximum # Null => p.minimum.n <= p.maximum.n
  /\ InBounds(p, p.default)
  /\ p.step # Null => p.step.n > 0 /\ p.default.n % p.step.n = 0

\* The __post_init__ of decimal and integer parameters.
SoundNumber(p) ==
  /\ p.minimum # Null /\ p.maximum # Null => p.minimum.n <= p.maximum.n
  /\ InBounds(p, p.default)
  /\ p.step # Null => p.step.n > 0 /\ OnStep(p, p.default)

\* The __post_init__ of enum parameters.
SoundEnum(p) ==
  /\ Len(p.choices) >= 2
  /\ \A i, j \in DOMAIN p.choices :
       p.choices[i].t = "str" /\ (i # j => p.choices[i] # p.choices[j])
  /\ \E i \in DOMAIN p.choices : p.default = p.choices[i]

\* _parse_canonical_decimal_string: only the canonical numeral is read.
CanonicalDecimal(v) ==
  IF Canonical(v) THEN [v EXCEPT !.t = "decimal"] ELSE Refused

OptionalDecimal(v) == IF v = Null THEN Null ELSE CanonicalDecimal(v)

\* _parse_parameter: the typed parameter, or Refused.
Parameter(doc) ==
  LET typed == [doc EXCEPT !.default = CanonicalDecimal(doc.default),
                           !.minimum = OptionalDecimal(doc.minimum),
                           !.maximum = OptionalDecimal(doc.maximum),
                           !.step = OptionalDecimal(doc.step)]
      sound ==
        CASE doc.kind = "decimal" ->
               /\ Refused \notin {typed.default, typed.minimum, typed.maximum, typed.step}
               /\ SoundNumber(typed)
          [] doc.kind = "integer" ->
               /\ doc.default.t = "int"
               /\ \A v \in {doc.minimum, doc.maximum, doc.step} : v = Null \/ v.t = "int"
               /\ SoundNumber(doc)
          [] doc.kind = "boolean" -> doc.default.t = "bool"
          [] doc.kind = "enum" -> SoundEnum(doc)
          [] OTHER -> FALSE
  IN IF ~sound THEN Refused ELSE IF doc.kind = "decimal" THEN typed ELSE doc

----------------------------------------------------------------------------
(* Definitions. *)

Minutes(tf) == CASE tf = "5m" -> 5 [] tf = "15m" -> 15 [] tf = "1h" -> 60 [] tf = "4h" -> 240

\* require_canonical_context_requirements.
CanonicalContexts(def) ==
  /\ \A i \in DOMAIN def.contexts :
       /\ def.contexts[i].timeframe # def.execution
       /\ def.contexts[i].warmup \in 0..MaxWarmup
  /\ \A i, j \in DOMAIN def.contexts :
       i < j => Minutes(def.contexts[i].timeframe) < Minutes(def.contexts[j].timeframe)

CanonicalParameters(def) ==
  \A i, j \in DOMAIN def.parameters : i < j => def.parameters[i].key < def.parameters[j].key

\* StrategyDefinition.__post_init__.
SoundDefinition(def) ==
  /\ def.text # "malformed"
  /\ def.family \in SeededPairs
  /\ def.warmup \in 0..MaxWarmup
  /\ CanonicalContexts(def)
  /\ def.directions \in {<<"long">>, <<"short">>, <<"long", "short">>}
  /\ CanonicalParameters(def)
  /\ def.status = "approved" => def.source # None

\* parse_definition_file: the definition a file holds, or Refused.
Definition(file) ==
  LET doc == file.doc
      parsed == [i \in DOMAIN doc.parameters |-> Parameter(doc.parameters[i])]
      def == [doc EXCEPT !.parameters = parsed]
  IN IF /\ Readable(file)
        /\ \A i \in DOMAIN parsed : parsed[i] # Refused
        /\ SoundDefinition(def)
     THEN def ELSE Refused

\* bound_value_to_json: decimals are written canonically, whatever their digits.
InJson(v) == IF v.t = "decimal" THEN [v EXCEPT !.t = "str", !.s = "canonical"] ELSE v

\* hash_definition, of definition_to_document.
HashDefinition(def) ==
  [def EXCEPT !.parameters = [i \in DOMAIN def.parameters |->
     LET p == def.parameters[i]
     IN [p EXCEPT !.default = InJson(p.default), !.minimum = InJson(p.minimum),
                  !.maximum = InJson(p.maximum), !.step = InJson(p.step)]]]

----------------------------------------------------------------------------
(* Parameter sets and instances. *)

Keys(seq) == {seq[i].key : i \in DOMAIN seq}
Of(seq, key) == seq[CHOOSE i \in DOMAIN seq : seq[i].key = key]

\* coerce_parameter_values_for_definition: unknown keys are left to binding.
Coerced(def, pairs) ==
  [i \in DOMAIN pairs |->
     IF pairs[i].key \in Keys(def.parameters) /\ Of(def.parameters, pairs[i].key).kind = "decimal"
     THEN [pairs[i] EXCEPT !.value = CanonicalDecimal(pairs[i].value)]
     ELSE pairs[i]]

\* StrategyParameterSet: bindable values, in the order of their keys.
ParameterSet(definitionHash, pairs) ==
  IF /\ \A i \in DOMAIN pairs : pairs[i].value.t \in {"decimal", "int", "bool", "str"}
     /\ \A i, j \in DOMAIN pairs : i < j => pairs[i].key < pairs[j].key
  THEN [definition_hash |-> definitionHash, values |-> pairs]
  ELSE Refused

\* compute_parameter_set_hash.
SetHash(set) ==
  [definition_hash |-> set.definition_hash,
   parameters |-> [i \in DOMAIN set.values |->
                     [set.values[i] EXCEPT !.value = InJson(set.values[i].value)]]]

\* Faulty variant: a set that shares the definition's hash is taken as it is.
MatchesByHash(def, set) == set.definition_hash = HashDefinition(def)

\* validate_parameter_set_against_definition.
Matches(def, set) ==
  /\ set.definition_hash = HashDefinition(def)
  /\ DOMAIN set.values = DOMAIN def.parameters
  /\ \A i \in DOMAIN set.values :
       /\ set.values[i].key = def.parameters[i].key
       /\ AcceptsValue(def.parameters[i], set.values[i].value)

\* StrategyInstanceSpecification, with its instance_hash.
Instance(def, set) ==
  IF set # Refused /\ Matches(def, set)
  THEN [definition |-> def, set |-> set,
        hash |-> [definition |-> HashDefinition(def), set |-> SetHash(set)]]
  ELSE Refused

\* bind_parameter_values: every key exactly once, defaults are never filled in.
Bind(def, pairs) ==
  IF /\ Keys(pairs) = Keys(def.parameters)
     /\ \A i \in DOMAIN def.parameters :
          LET v == Of(pairs, def.parameters[i].key).value
          IN v # Refused /\ AcceptsValue(def.parameters[i], v)
  THEN ParameterSet(HashDefinition(def),
         [i \in DOMAIN def.parameters |->
            [key |-> def.parameters[i].key, value |-> Of(pairs, def.parameters[i].key).value]])
  ELSE Refused

\* bind_default_parameter_set.
BindDefaults(def) ==
  Bind(def, [i \in DOMAIN def.parameters |->
               [key |-> def.parameters[i].key, value |-> def.parameters[i].default]])

\* bind_parameters_files.
BindFiles(definitionFile, parameterFile) ==
  LET def == Definition(definitionFile)
  IN IF def # Refused /\ Readable(parameterFile) /\ NoDuplicates(parameterFile.pairs)
     THEN Instance(def, Bind(def, Coerced(def, parameterFile.pairs)))
     ELSE Refused
===============================================================================
