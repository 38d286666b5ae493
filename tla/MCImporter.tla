----------------------------- MODULE MCImporter -----------------------------
(* Two sources of two files each; constraints are told apart by id and     *)
(* severity.                                                               *)
EXTENDS Importer

Anywhere == [providers |-> {}, environments |-> {}, resource_types |-> {}, repos |-> {},
             relationship |-> None]
MCConstraints == {[id |-> "a", severity |-> "hard", scope |-> Anywhere],
                  [id |-> "a", severity |-> "soft", scope |-> Anywhere],
                  [id |-> "b", severity |-> "hard", scope |-> Anywhere]}
MCIdOrder == <<>>
MCConfigs ==
    {[sources |-> <<[name |-> "guild", path |-> "p", precedence |-> 2],
                    [name |-> "team", path |-> "q", precedence |-> 1]>>]}
=============================================================================
