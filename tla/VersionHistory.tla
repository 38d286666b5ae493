--------------------------- MODULE VersionHistory ---------------------------
(***************************************************************************)
(* What a consumer may rely on about published bundles, whatever the       *)
(* registry does: a version once retrievable stays retrievable and never   *)
(* changes, it is filed under its own id, and the latest version is one    *)
(* that can be retrieved (FR-VERSION-2, FR-VERSION-3).                     *)
(***************************************************************************)
EXTENDS Optional

VARIABLES versions,    \* bundle id -> bundle
          latest       \* the id served by default, or None

Init == /\ \A id \in DOMAIN versions : versions[id].bundle_id = id
        /\ latest \in DOMAIN versions \cup {None}

\* One version id is added or published again; the default may move to it.
Publish == \E id \in DOMAIN versions' :
    /\ DOMAIN versions' = DOMAIN versions \cup {id}
    /\ versions'[id].bundle_id = id
    /\ \A old \in DOMAIN versions : versions'[old] = versions[old]
    /\ latest' \in {latest, id}

Spec == Init /\ [][Publish]_<<versions, latest>>
=============================================================================
