--------------------------- MODULE MCFetchLadder ---------------------------
(* FetchLadder in units of thirty seconds.                                  *)
EXTENDS FetchLadder

ThreeRungs == <<1, 4, 10>>   \* 30, 120 and 300 s
=============================================================================
