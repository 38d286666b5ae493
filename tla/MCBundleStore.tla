--------------------------- MODULE MCBundleStore ---------------------------
(* Three contents; the second one is imported under two configurations, so *)
(* that one id comes with two different precedence records.                *)
EXTENDS BundleStore

MCBundles == {[bundle_id |-> "b1", precedence |-> {}],
              [bundle_id |-> "b2", precedence |-> {}],
              [bundle_id |-> "b2", precedence |-> {"record"}],
              [bundle_id |-> "b3", precedence |-> {}]}
=============================================================================
