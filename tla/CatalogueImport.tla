-------------------------- MODULE CatalogueImport --------------------------
(***************************************************************************)
(* One import of either kind while its input grows: Checkov prints its     *)
(* listing block by block, lines of which may be missing, or fails; a      *)
(* ruleset gains one rule after the other, some of them malformed.         *)
(***************************************************************************)
EXTENDS Catalogue

CONSTANTS
    CheckIds,      \* ids of the checks the tool lists
    ResourceSets,  \* what it lists as the resources of a check: sets of types
    Rules,         \* what stands in a ruleset: rules and what is none
    Documents,     \* rulesets without their rules, and None
    MaxItems       \* bound on blocks and on rules

\* What the tool printed of a check: lost lines are FALSE, or None.
Blocks == [id : CheckIds, header : BOOLEAN, confirm : BOOLEAN, resources : {None} \cup ResourceSets]

\* The checks the parser may make of that.
ListedTypes == UNION ResourceSets
ListedChecks == [id : CheckIds, title : CheckIds \cup {None}, resource_types : SUBSET ListedTypes,
                 providers : SUBSET InferProviders(ListedTypes), is_graph : BOOLEAN]

\* None is no id, no list of resources and no check.
ASSUME AbsenceAssumption == None \notin CheckIds /\ None \notin ResourceSets /\ None \notin ListedChecks

\* The built-in checks name the providers _infer_providers finds.
ASSUME SeedAssumption ==
    \A i \in DOMAIN Seed : Seed[i].providers = InferProviders(Seed[i].resource_types)

Tools == {"answers", "fails", "garbles", "absent"}

VARIABLES tool, blocks, document
importVars == <<tool, blocks, document>>

\* One importer at a time has an input.
ImportInit == /\ blocks = <<>>
              /\ tool \in Tools
              /\ document \in Documents
              /\ document = None \/ tool = "absent"

ListBlock(block) == /\ tool # "absent"
                    /\ Len(blocks) < MaxItems
                    /\ blocks' = Append(blocks, block)
                    /\ UNCHANGED <<tool, document>>
\* the listing is cut short, its end never comes, or it does not decode
Fail == /\ tool = "answers"
        /\ tool' \in {"fails", "garbles"}
        /\ UNCHANGED <<blocks, document>>
AddRule(rule) == /\ document \notin {None, NotAMapping}
                 /\ document.rules # None
                 /\ Len(document.rules) < MaxItems - 1
                 /\ document' = [document EXCEPT !.rules = Append(@, rule)]
                 /\ UNCHANGED <<tool, blocks>>

ListSome == \E b \in Blocks : ListBlock(b)
AddSome == \E r \in Rules : AddRule(r)
\* the next import is of another listing or document
Again == /\ blocks' = <<>>
         /\ document' = None
         /\ tool' \in Tools
ImportNext == ListSome \/ Fail \/ AddSome \/ Again
ImportSpec == ImportInit /\ [][ImportNext]_importVars

\* The lines a block is printed as.
Line(key, value) == [key |-> key, value |-> value]
LinesOf(b) == (IF b.header THEN <<Line("Check", b.id)>> ELSE <<>>)
              \o (IF b.confirm THEN <<Line("ID", b.id)>> ELSE <<>>)
              \o (IF b.resources # None THEN <<Line("Supported resources", b.resources)>> ELSE <<>>)
              \o <<Line("Description", b.id)>>
Lines == FlattenSeq([i \in DOMAIN blocks |-> LinesOf(blocks[i])])

\* The provider and resource type an agent puts into a query for one artifact.
QueryFor(r) == SlugScope({ProviderOf[r]} \ {None}, {r})
RulesetStubs(allow) == IF ImportRulesetRaises(document) THEN {}
                       ELSE ImportRules(document, "rules.yaml", allow)
CheckStubs == IF ImportChecksRaises(tool) THEN {} ELSE ImportChecks(tool, Lines)
AllStubs == CheckStubs \cup {r.stub : r \in RulesetStubs(TRUE)}

----------------------------------------------------------------------------

\* Headers among the first n blocks, and the check a whole block is about.
Headers(n) == Cardinality({i \in 1 .. n : blocks[i].header})
CheckOf(b) ==
    LET types == IF b.resources = None THEN {} ELSE b.resources
    IN  [id |-> b.id, title |-> b.id, resource_types |-> types,
         providers |-> {ProviderOf[r] : r \in types} \ {None},
         is_graph |-> b.id \in GraphIds]

\* Damage to the listing stays local: every block with its header whose next
\* block has its header too is parsed to exactly its own check, in its place,
\* whatever lines other blocks have lost; as many checks are parsed as there
\* are headers (importer.py:56-58: "Any unparseable block is skipped").
DamageIsLocal ==
    LET parsed == ParseListOutput(Lines)
    IN  /\ Len(parsed) = Headers(Len(blocks))
        /\ \A i \in DOMAIN blocks :
             blocks[i].header /\ (i < Len(blocks) => blocks[i + 1].header)
                 => parsed[Headers(i)] = CheckOf(blocks[i])

\* An imported stub is found: a query for one artifact, by its resource type
\* and the provider of that type, selects a stub exactly if the stub names
\* that type or none (importers' scope against scope.py and query.py).
StubReachesItsResources ==
    \A stub \in AllStubs : \A r \in DOMAIN ProviderOf :
        ScopeMatches(stub.scope, QueryFor(r))
            <=> stub.scope.resource_types = {} \/ r \in stub.scope.resource_types

\* The license policy: the default import is the audit import without the
\* rules of unknown license, and every license it records is one the rule or
\* its document states.
LicensePolicyHolds ==
    LET stated(r) == (IF r.metadata \in {None, NotAMapping} THEN {} ELSE {r.metadata.license})
                     \cup (IF document.metadata \in {None, NotAMapping} THEN {document.license}
                           ELSE {document.metadata.license})
    IN  ~ImportRulesetRaises(document) =>
            /\ RulesetStubs(FALSE) = {r \in RulesetStubs(TRUE) : r.license # None}
            /\ \A s \in RulesetStubs(FALSE) :
                 /\ s.license # "blank"
                 /\ \E i \in DOMAIN document.rules :
                      LET rule == document.rules[i]
                      IN  rule # NotAMapping /\ rule.id = s.rule_id /\ s.license \in stated(rule)
=============================================================================
