------------------------------- MODULE Absent -------------------------------
(* None, in a row, on the wire or in an option: one value for the modules   *)
(* that are checked together.                                               *)
CONSTANT Null
=============================================================================
