---------------------------- MODULE ServiceClaims ----------------------------
(***************************************************************************)
(* What the repository says of the running service and the code does not   *)
(* do.  Each property quotes the text it states; a run refutes each.       *)
(***************************************************************************)
EXTENDS RegistryService

\* service.py:48-49: "Guards atomic swap of (config, store, registry) on
\* reload ... Reads take a brief snapshot": a pass on the latest bundle is
\* earned under a configuration that bundle was published with.
LatestPassIsOfOneGeneration ==
    [][\A c \in Clients : PassReturned(c) /\ call[c].version = None =>
         \E g \in generations :
            g.bundle_id = answer'[c].bundle_id /\ EarnedUnder(g.config, c)]_vars

\* importer.py:33-34: "an unresolvable precedence conflict is a hard import
\* error (FR-NAMESPACE-3)": no served bundle has one.
NeverServesConflict ==
    (lock = None /\ current # None) => Conflicts(by_id[current].constraints, config) = {}
=============================================================================
