--------------------------- MODULE MCSourceSweep ---------------------------
(* Instances of SourceSweep for TLC.                                        *)
EXTENDS SourceSweep

\* Every post in a second of its own; the sticky is older than all of them.
OnePerSecond == [x \in 0 .. LastPost |-> x]

\* Thresholds that disable: the third redirect, the first quarantine.
ThreeRedirects == [k \in FailureKinds |->
                     IF k = "redirect" THEN 3 ELSE IF k = "quarantined" THEN 1 ELSE Null]
=============================================================================
