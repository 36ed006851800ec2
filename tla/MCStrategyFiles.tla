--------------------------- MODULE MCStrategyFiles ---------------------------
(* Two versions of a baseline with three protected semantics and two fixture  *)
(* cases, and for every file what a person may leave in it: another sound     *)
(* document, or one with a single thing wrong.  Decimals are in hundredths.   *)
EXTENDS StrategyFiles

Num(n) == [t |-> "int", n |-> n, s |-> "numeral"]
Text(n) == [t |-> "str", n |-> n, s |-> "canonical"]
Padded(n) == [t |-> "str", n |-> n, s |-> "padded"]
Word(w) == [t |-> "str", n |-> 0, s |-> w]
Flag(n) == [t |-> "bool", n |-> n, s |-> "literal"]
Dec(n) == [t |-> "decimal", n |-> n, s |-> "canonical"]
Dec0(n) == [t |-> "decimal", n |-> n, s |-> "padded"]

Param(key, kind, default, min, max, step) ==
  [key |-> key, kind |-> kind, default |-> default, minimum |-> min, maximum |-> max,
   step |-> step, choices |-> <<>>]
Risk == Param(1, "decimal", Text(125), Text(25), Text(175), Text(50))
Free == Param(1, "decimal", Text(100), Null, Null, Text(50))
Bars == Param(2, "integer", Num(3), Num(1), Num(7), Num(2))
Shorts == Param(1, "boolean", Flag(1), Null, Null, Null)
Color == [Param(2, "enum", Word("red"), Null, Null, Null)
            EXCEPT !.choices = <<Word("red"), Word("blue")>>]

----------------------------------------------------------------------------
Contract(v) ==
  [flaw |-> "none", layout |-> "canonical",
   body |-> [text |-> v, form |-> "sound", status |-> "RESOLVED", unresolved |-> 0,
             protected |-> [signal_timing |-> [resolved |-> TRUE, ids |-> <<1>>],
                            no_lookahead |-> [resolved |-> TRUE, ids |-> <<1, 3>>],
                            entry |-> [resolved |-> TRUE, ids |-> <<2, 3>>]]]]
AClaim(id, class) ==
  [id |-> id, class |-> class, repository |-> "momo", commit |-> "pinned", text |-> 0]
Claims == <<AClaim(1, "AUTHORITATIVE_EXECUTABLE"), AClaim(2, "AUTHORITATIVE_TEST"),
            AClaim(3, "INFORMATIONAL_DEFAULT")>>
Evidence(v) ==
  [flaw |-> "none", layout |-> "canonical",
   body |-> [form |-> "sound", claims |-> [Claims EXCEPT ![2].text = v]]]
Case(id, v) ==
  [id |-> id, expected |-> v, execution |-> v, context |-> None, commit |-> "pinned"]
Fixtures(v) ==
  [manifest |-> [flaw |-> "none", layout |-> "canonical",
                 cases |-> <<Case("long", v), Case("short", 1)>>],
   files |-> [long |-> [expected |-> v, execution |-> v, context |-> None],
              short |-> [expected |-> 1, execution |-> 1, context |-> None]]]
Def(params) ==
  [flaw |-> "none",
   doc |-> [text |-> "one", family |-> <<"id", "adaptive">>, status |-> "approved",
            execution |-> "5m", warmup |-> 165,
            contexts |-> <<[timeframe |-> "1h", warmup |-> 205]>>,
            directions |-> <<"long", "short">>, parameters |-> params,
            source |-> Contract(1).body]]
Pair(k, v) == [key |-> k, value |-> v]
Params(a, b) == [flaw |-> "none", pairs |-> <<Pair(1, a), Pair(2, b)>>]
Bundle(v) ==
  [contract |-> Contract(v), evidence |-> Evidence(v), fixtures |-> Fixtures(v),
   definition |-> [Def(<<Risk, Bars>>) EXCEPT !.doc.source = Contract(v).body],
   parameters |-> Params(Text(125), Num(3))]
MCBundles == <<Bundle(1), Bundle(2)>>

----------------------------------------------------------------------------
Good == Def(<<Risk, Bars>>)
DefinitionFiles ==
  {Good, Def(<<Free>>), Def(<<Shorts, Color>>), [Good EXCEPT !.flaw = "missing"],
   [Good EXCEPT !.flaw = "duplicate key"],
   [Good EXCEPT !.doc.text = "two"], [Good EXCEPT !.doc.text = "malformed"],
   [Good EXCEPT !.doc.family = <<"id", "other">>],
   [Good EXCEPT !.doc.status = "draft"],
   [Good EXCEPT !.doc.source = None],
   [Good EXCEPT !.doc.status = "draft", !.doc.source = None],
   [Good EXCEPT !.doc.warmup = 164], [Good EXCEPT !.doc.warmup = -1],
   [Good EXCEPT !.doc.directions = <<"short", "long">>],
   [Good EXCEPT !.doc.contexts = <<[timeframe |-> "5m", warmup |-> 1]>>],
   [Good EXCEPT !.doc.contexts = <<[timeframe |-> "4h", warmup |-> 1], [timeframe |-> "1h", warmup |-> 1]>>],
   Def(<<Bars, Risk>>), Def(<<Risk, Risk>>),
   Def(<<[Risk EXCEPT !.default = Text(150)]>>), Def(<<[Risk EXCEPT !.default = Padded(125)]>>),
   Def(<<[Risk EXCEPT !.maximum = Text(200)], Bars>>), Def(<<[Risk EXCEPT !.maximum = Text(100)]>>),
   Def(<<[Risk EXCEPT !.step = Text(0)]>>), Def(<<[Risk EXCEPT !.default = Num(125)]>>),
   Def(<<[Bars EXCEPT !.default = Flag(1)]>>),
   Def(<<Shorts, [Color EXCEPT !.choices = <<Word("red")>>]>>),
   Def(<<Shorts, [Color EXCEPT !.default = Word("green")]>>)}

ParameterFiles ==
  {Params(Text(125), Num(3)), Params(Text(75), Num(3)), Params(Text(75), Num(5)),
   Params(Padded(75), Num(3)), Params(Num(75), Num(3)), Params(Text(100), Num(3)),
   Params(Text(225), Num(3)), Params(Text(75), Num(4)), Params(Text(75), Flag(1)),
   Params(Text(75), Null), Params(Flag(1), Word("red")), Params(Num(1), Word("red")),
   Params(Flag(0), Word("blue")), Params(Flag(1), Word("green")),
   [Params(Text(75), Num(3)) EXCEPT !.flaw = "trailing"],
   [flaw |-> "none", pairs |-> <<Pair(2, Num(3)), Pair(1, Text(75))>>],
   [flaw |-> "none", pairs |-> <<Pair(1, Text(75)), Pair(2, Num(3)), Pair(2, Num(5))>>],
   [flaw |-> "none", pairs |-> <<Pair(1, Text(75)), Pair(2, Num(3)), Pair(9, Num(1))>>],
   [flaw |-> "none", pairs |-> <<Pair(1, Text(100))>>],
   [flaw |-> "none", pairs |-> <<Pair(1, Text(101))>>]}

MCHandPairs ==
  {<<Pair(1, Dec(75)), Pair(2, Num(3))>>, <<Pair(1, Dec0(75)), Pair(2, Num(3))>>,
   <<Pair(1, Text(75)), Pair(2, Num(3))>>, <<Pair(1, Num(75)), Pair(2, Num(3))>>,
   <<Pair(1, Dec(100)), Pair(2, Num(3))>>, <<Pair(1, Dec(75)), Pair(2, Flag(1))>>,
   <<Pair(2, Num(3)), Pair(1, Dec(75))>>, <<Pair(1, Dec(75))>>,
   <<Pair(1, Flag(1)), Pair(2, Word("red"))>>, <<Pair(1, Num(1)), Pair(2, Word("red"))>>}

C == Contract(1)
ContractFiles ==
  {C, Contract(3), [C EXCEPT !.layout = "pretty"], [C EXCEPT !.flaw = "duplicate key"],
   [C EXCEPT !.body.form = "commit"],
   [C EXCEPT !.body.unresolved = 1], [C EXCEPT !.body.status = "UNRESOLVED", !.body.unresolved = 1],
   [C EXCEPT !.body.protected.entry.resolved = FALSE],
   [C EXCEPT !.body.protected.entry.ids = <<>>], [C EXCEPT !.body.protected.entry.ids = <<3>>],
   [C EXCEPT !.body.protected.entry.ids = <<4>>],
   [C EXCEPT !.body.protected.signal_timing.ids = <<2>>]}

E == Evidence(1)
EvidenceFiles ==
  {E, Evidence(3), [E EXCEPT !.layout = "pretty"], [E EXCEPT !.body.form = "local path"],
   [E EXCEPT !.body.claims = <<>>], [E EXCEPT !.body.claims[3].class = "CONTRADICTORY"],
   [E EXCEPT !.body.claims[2].class = "ILLUSTRATIVE_ONLY"],
   [E EXCEPT !.body.claims[1].class = "AUTHORITATIVE_TEST"],
   [E EXCEPT !.body.claims[2].commit = "other"],
   [E EXCEPT !.body.claims[2].repository = "zorqen", !.body.claims[2].commit = "other"],
   [E EXCEPT !.body.claims[3].id = 1]}

F == Fixtures(1)
FixtureFiles ==
  {F, Fixtures(3), [F EXCEPT !.manifest = None], [F EXCEPT !.manifest.layout = "pretty"],
   [F EXCEPT !.manifest.cases = <<>>],
   [F EXCEPT !.manifest.cases = <<Case("short", 1), Case("long", 1)>>],
   [F EXCEPT !.manifest.cases[1].commit = "other"],
   [F EXCEPT !.files.long.expected = 3], [F EXCEPT !.files.long.expected = None],
   [F EXCEPT !.files.long.execution = 3], [F EXCEPT !.files.long.context = 1]}

\* A baseline that is not resolved ships no definition and no fixtures.
Unresolved ==
  [Bundle(1) EXCEPT !.contract.body.status = "UNRESOLVED", !.contract.body.unresolved = 1,
                    !.contract.body.protected.entry.resolved = FALSE,
                    !.definition.flaw = "missing", !.fixtures.manifest = None]
MCStarts == {Bundle(1), Unresolved}

ApprovedFiles ==
  {Good, [Good EXCEPT !.flaw = "missing"], [Good EXCEPT !.flaw = "too big"],
   [Good EXCEPT !.doc.text = "two"], [Good EXCEPT !.doc.family = <<"id2", "price_action">>],
   [Good EXCEPT !.doc.status = "draft"], [Good EXCEPT !.doc.source = None],
   [Good EXCEPT !.doc.source = Contract(3).body], [Good EXCEPT !.doc.warmup = 164]}

MCAlternatives ==
  [verify |-> [contract |-> ContractFiles, evidence |-> EvidenceFiles,
               fixtures |-> FixtureFiles, definition |-> ApprovedFiles],
   bind |-> [definition |-> DefinitionFiles, parameters |-> ParameterFiles]]
MCSeededPairs == {<<"id", "adaptive">>, <<"id2", "price_action">>}
MCProtectedKeys == {"signal_timing", "no_lookahead", "entry"}
MCCritical == {"signal_timing", "no_lookahead"}
MCFamily == <<"id", "adaptive">>
MCPinned == <<"momo", "pinned">>
===============================================================================
