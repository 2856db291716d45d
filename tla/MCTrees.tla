------------------------------ MODULE MCTrees ------------------------------
(* Instances of Trees for TLC.                                              *)
EXTENDS Trees

\* All posts on the first day, so that each is read at both rungs.
SameDay == [p \in Posts |-> 0]

\* Post 3 carries a and its reply b, the others a comment each.
InPost == [c \in Comments |-> IF c \in {"a", "b"} THEN 3 ELSE IF c = "c" THEN 2 ELSE 1]
RepliesTo == [c \in Comments |-> IF c = "b" THEN "a" ELSE Null]
Writers == [c \in Comments |-> IF c \in {"a", "d"} THEN "ann" ELSE "bob"]
DayThenTwo == <<1, 2>>
=============================================================================
