---------------------------- MODULE MCCatalogue ----------------------------
(* A graph check "CKV2_A", the resource "helm_x" of another provider than   *)
(* its prefix says, "custom_x" of none; rules and rulesets of every shape   *)
(* the importer tells apart.                                                *)
EXTENDS CatalogueImport

MCCheckIds == {"CKV_A", "CKV2_A", "CKV_B"}
MCGraphIds == {"CKV2_A"}
MCSlugOf == [id \in MCCheckIds \cup {"CKV_SEED", "r1", "r-1"} |-> IF id = "r-1" THEN "r1" ELSE id]
MCProviderOf == "aws_x" :> "aws" @@ "aws_y" :> "aws" @@ "helm_x" :> "kubernetes" @@ "custom_x" :> None
MCSeed == <<[id |-> "CKV_SEED", title |-> "seed", resource_types |-> {"aws_x", "helm_x"},
             providers |-> {"aws", "kubernetes"}, is_graph |-> FALSE]>>
MCResourceSets == {{"aws_x", "helm_x"}, {"aws_y", "custom_x"}}

Mapping(licenses) == [license : licenses]
MCRules == {NotAMapping} \cup
           [id : {None, "r1", "r-1"}, message : {None, NotAString},
            languages : {{}, {"aws_x"}, {"aws_y", "helm_x"}},
            metadata : {None, NotAMapping} \cup Mapping({None, "blank", "MIT"})]
MCDocuments == {None, NotAMapping} \cup
               [license : {None, "blank", "Apache"},
                metadata : {None, NotAMapping} \cup Mapping({None, "blank", "GPL"}),
                rules : {None, <<>>}]
=============================================================================
