----------------------------- MODULE MCAdapters -----------------------------
(* SARIF documents on either side of each rule of the normaliser: a level  *)
(* from the result, from its own run's rule, from another run's rule, by   *)
(* default; dropped and malformed results; a third run and a third result, *)
(* which the caps of two cut off.                                          *)
EXTENDS Adapters

Result(level, rule) == [level |-> level, rule |-> rule]
Run(rules, results) == [rules |-> rules, results |-> results]
NoRules == [r \in {} |-> None]
Noted == [r \in {"R"} |-> "note"]
Erring == [r \in {"R"} |-> "error"]

MCSarifDocs ==
    {<<>>,
     <<Run(NoRules, <<Result("note", "R")>>)>>,
     <<Run(NoRules, <<Result("none", "R"), Result("error", "R")>>)>>,
     <<Run(Noted, <<None, Result(None, "R")>>)>>,
     <<Run(Noted, <<>>), Run(NoRules, <<Result(None, "R")>>)>>,
     <<None, Run(Erring, <<Result(None, "R")>>)>>,
     <<Run(NoRules, None), Run(NoRules, <<Result("critical", None)>>)>>,
     <<Run(NoRules, <<>>), Run(NoRules, <<>>), Run(NoRules, <<Result("error", "R")>>)>>,
     <<Run(NoRules, <<None>>), Run(NoRules, <<Result("note", "R"), Result("error", "R")>>)>>}
=============================================================================
