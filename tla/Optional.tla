------------------------------ MODULE Optional ------------------------------
(* Python's None, shared by every module whose code has optional values.   *)
CONSTANT None
=============================================================================
