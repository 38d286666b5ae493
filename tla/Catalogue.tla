----------------------------- MODULE Catalogue -----------------------------
(***************************************************************************)
(* The policy catalogue importers: checks listed by `checkov --list`       *)
(* (engine/adapters/checkov/importer.py) and rules of a Semgrep ruleset    *)
(* (engine/adapters/semgrep/importer.py), each turned into a constraint    *)
(* stub with a provenance record beside it.                                *)
(*                                                                         *)
(* A listing is a sequence of lines [key, value]; lines with another key   *)
(* are skipped by the parser and left out here.  A blank string is None.   *)
(* Results are sets: order and repetition of equal ones are left out.      *)
(***************************************************************************)
EXTENDS Scope, SequencesExt

CONSTANTS
    GraphIds,     \* check ids that start with CKV2_
    SlugOf,       \* id -> what is left of it in lower case with hyphens
    ProviderOf,   \* resource type -> provider its prefix stands for, or None
    Seed,         \* the built-in checks, as a sequence
    NotAMapping,  \* a YAML value that is not a mapping where one is expected
    NotAString    \* a YAML value that is not a string where one is expected

SlugScope(providers, types) ==
    [providers |-> providers, resource_types |-> types, environments |-> {},
     repos |-> {}, relationship |-> None]

----------------------------------------------------------------------------
\* Checkov: the line parser

InferProviders(types) == {ProviderOf[t] : t \in types} \ {None}

NewCheck(id) == [id |-> id, title |-> None, resource_types |-> {}, providers |-> {},
                 is_graph |-> id \in GraphIds]

\* A check without an id is dropped.
Flush(checks, current) ==
    IF current = None \/ current.id = None THEN checks ELSE Append(checks, current)

WithResources(check, types) ==
    [check EXCEPT !.resource_types = types, !.providers = InferProviders(types)]

\* A line of a block belongs to the last header read; before the first header
\* it belongs to nothing.
ReadLine(acc, line) ==
    CASE line.key = "Check"   -> [checks  |-> Flush(acc.checks, acc.current),
                                  current |-> NewCheck(line.value)]
      [] line.key # "Check" /\ acc.current = None -> acc
      [] line.key = "ID" /\ acc.current # None -> [acc EXCEPT !.current.id = line.value]
      [] line.key = "Description" /\ acc.current # None -> [acc EXCEPT !.current.title = line.value]
      [] line.key = "Supported resources" /\ acc.current # None ->
             [acc EXCEPT !.current = WithResources(@, line.value)]

\* Mutant of ParseListOutput: the last block is not flushed.
ParseListOutputUnflushed(lines) ==
    FoldLeft(ReadLine, [checks |-> <<>>, current |-> None], lines).checks

ParseListOutput(lines) ==
    LET end == FoldLeft(ReadLine, [checks |-> <<>>, current |-> None], lines)
    IN  Flush(end.checks, end.current)

\* The tool is absent, answers, fails (a non-zero exit, a timeout, an OSError),
\* or garbles; a listing without a check counts as no answer.
EnumerateChecks(tool, lines) ==
    IF tool = "answers" /\ ParseListOutput(lines) # <<>> THEN ParseListOutput(lines) ELSE Seed

\* Output that does not decode raises out of the import.
ImportChecksRaises(tool) == tool = "garbles"

\* Mutant of MakeStub: the scope keeps one provider of several.
MakeStubOfOneProvider(check) ==
    [id          |-> SlugOf[check.id],
     title       |-> IF check.title = None THEN check.id ELSE check.title,
     category    |-> IF check.is_graph THEN "architectural" ELSE "infrastructure",
     scope       |-> SlugScope(IF check.providers = {} THEN {}
                               ELSE {CHOOSE p \in check.providers : TRUE}, check.resource_types),
     severity    |-> "soft",
     enforcement |-> {[engine |-> "checkov", policy |-> check.id]}]

MakeStub(check) ==
    [id          |-> SlugOf[check.id],
     title       |-> IF check.title = None THEN check.id ELSE check.title,
     category    |-> IF check.is_graph THEN "architectural" ELSE "infrastructure",
     scope       |-> SlugScope(check.providers, check.resource_types),
     severity    |-> "soft",
     enforcement |-> {[engine |-> "checkov", policy |-> check.id]}]

\* Of several checks with the same id the first is imported.
ImportChecks(tool, lines) ==
    LET checks == EnumerateChecks(tool, lines)
        first  == {i \in DOMAIN checks : \A j \in 1 .. i - 1 : checks[j].id # checks[i].id}
    IN  {MakeStub(checks[i]) : i \in first}

----------------------------------------------------------------------------
\* Semgrep: one ruleset document

\* A document's own license: its top-level `license` counts only when
\* `metadata` is not a mapping.
DocumentLicense(doc) ==
    IF doc.metadata \in {None, NotAMapping} THEN doc.license ELSE doc.metadata.license

\* Mutant of RuleLicense: a blank license is taken for one.
RuleLicenseEvenBlank(rule, doc) ==
    IF rule.metadata = None THEN DocumentLicense(doc) ELSE rule.metadata.license

\* A rule's license, else the document's; blank and absent ones are unknown.
RuleLicense(rule, doc) ==
    LET own == IF rule.metadata = None THEN None ELSE rule.metadata.license
    IN  IF own \notin {None, "blank"} THEN own
        ELSE IF DocumentLicense(doc) = "blank" THEN None ELSE DocumentLicense(doc)

\* Skipped whatever else it holds: not a mapping, or no string as its id.
Skipped(rule) == rule = NotAMapping \/ rule.id = None

\* meta.get or message.strip on a value that has none ends the whole import.
RuleRaises(rule) ==
    ~Skipped(rule) /\ (rule.metadata = NotAMapping \/ rule.message = NotAString)

\* No file, no mapping or no list of rules, or a rule that raises.
ImportRulesetRaises(doc) ==
    doc = None \/ doc = NotAMapping \/ doc.rules = None
    \/ \E i \in DOMAIN doc.rules : RuleRaises(doc.rules[i])

RuleToStub(rule, doc, path) ==
    [stub    |-> [id          |-> SlugOf[rule.id],
                  title       |-> IF rule.message = None THEN rule.id ELSE rule.message,
                  category    |-> "architectural",
                  scope       |-> SlugScope({}, rule.languages),
                  severity    |-> "soft",
                  enforcement |-> {[engine |-> "semgrep", policy |-> path]}],
     rule_id |-> rule.id,
     license |-> RuleLicense(rule, doc)]

\* What an import that does not raise returns.
ImportRules(doc, path, allow_unknown) ==
    {r \in {RuleToStub(rule, doc, path) :
              rule \in {doc.rules[i] : i \in {j \in DOMAIN doc.rules : ~Skipped(doc.rules[j])}}} :
        allow_unknown \/ r.license # None}
=============================================================================
