---------------------------- MODULE MCCollector ----------------------------
(* Instances of Collector for TLC.                                          *)
EXTENDS Collector, TLC

\* Programs, probers and process ids are interchangeable.
Symmetry == Permutations(Runs) \cup Permutations(Pid)
=============================================================================
