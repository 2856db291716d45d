----------------------------- MODULE FakeReddit ------------------------------
(***************************************************************************)
(* The in-memory Reddit as one object (adapters/reddit_fake/gateway.py).   *)
(* Changing an item leaves what is planted alone, planting leaves the item *)
(* alone; an item is looked at by a request that is answered: in a page of *)
(* the listing, or in a tree or an info() that asks nobody for the status. *)
(***************************************************************************)
EXTENDS FakeWorld, FakeRequests

FakeInit == WorldInit /\ RequestsInit

\* What a request that is answered shows.
Shown ==
  /\ raised' = raised
  /\ \/ LookAtListing /\ \E i \in 1 .. MaxCalls : ReadPage(i)
     \/ (LookAtTree \/ LookUp) /\ Ask(FALSE)

FakeNext ==
  \/ Changes /\ UNCHANGED requestVars
  \/ (Planting \/ Requesting) /\ UNCHANGED worldVars
  \/ Shown

FakeSpec == FakeInit /\ [][FakeNext]_<<worldVars, requestVars>>

\* A scenario can rely on the fake: what it shows of an item tells what was done to it, and
\* the failures planted in it are met as they were planted, each request charged to its call.
FakeIsReliable == FakeIsUnderstood /\ ScenariosAreMet
=============================================================================
