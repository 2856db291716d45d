------------------------------ MODULE Gateways ------------------------------
(***************************************************************************)
(* What `run` checks before it lets a gateway write (cli.py): the place of *)
(* the data, the file and its schema, the lock, and what earlier runs have *)
(* recorded.  Two processes; the body of a run is RunBody's matter, here   *)
(* it leaves real or fabricated data.                                      *)
(***************************************************************************)
EXTENDS Naturals, FiniteSets, Absent

CONSTANTS
  Processes,
  MaxCommands  \* bound

ASSUME GatewaysAssumption ==
  Null \notin Processes \cup {"praw", "unreadable"} /\ MaxCommands \in Nat

VARIABLES
  place,     \* where the data directory is: "default" or "elsewhere"
  file,      \* the database: "missing", "behind", "head"
  recorded,  \* the `gateway` keys of the run rows' options_json, Null for no options
  holds,     \* what is in the tables: "real", "fabricated"
  command,   \* the command of each process, Null for none
  at,        \* where it stands: "idle", "placed", "locked", "checked", "writing"
  holder,    \* who has the collector lock, Null for nobody
  asked,     \* history: processes whose gateway has been built
  launched

gatewayVars == <<place, file, recorded, holds, command, at, holder, asked, launched>>

GatewayKinds == {"praw", "fake", "other"}
Commands == [gateway : GatewayKinds, allow : BOOLEAN, dry : BOOLEAN, pytest : BOOLEAN]

GatewaysInit ==
  /\ place \in {"default", "elsewhere"} /\ file \in {"missing", "head"}
  /\ recorded = {} /\ holds = {} /\ command = [p \in Processes |-> Null]
  /\ at = [p \in Processes |-> "idle"] /\ holder = Null /\ asked = {} /\ launched = 0

-----------------------------------------------------------------------------
(* The guards.                                                              *)

\* _guard_gateway: by the place, and under a test by the gateway.
PlaceFits(c) ==
  /\ ~(c.gateway = "fake" /\ place = "default")
  /\ c.gateway # "fake" => ~c.pytest

\* Slip: a row that no longer parses is passed over like one without options.
Evidence_Readable == recorded \ {"fake", "unreadable", Null}

\* run_options and _recorded_gateway: rows that speak for real data.  A refused attempt has
\* no options and wrote none.
Evidence == recorded \ {"fake", Null}

\* _guard_fake_against_real_data.
RowsFit(c) == c.gateway # "fake" \/ c.allow \/ Evidence = {}

-----------------------------------------------------------------------------
(* The command.                                                             *)

Leave(p) ==
  /\ at' = [at EXCEPT ![p] = "idle"] /\ command' = [command EXCEPT ![p] = Null]
  /\ holder' = IF holder = p THEN Null ELSE holder
  /\ asked' = asked \ {p}

Go(p, where) == at' = [at EXCEPT ![p] = where] /\ UNCHANGED command

\* _run_ordered up to the lock.
Launch(p, c) ==
  /\ at[p] = "idle" /\ launched < MaxCommands /\ launched' = launched + 1
  /\ PlaceFits(c) /\ file # "missing"
  /\ at' = [at EXCEPT ![p] = "placed"] /\ command' = [command EXCEPT ![p] = c]
  /\ UNCHANGED <<place, file, recorded, holds, holder, asked>>

\* A dry run looks at the lock and goes on without it.
PassDry(p) ==
  /\ at[p] = "placed" /\ command[p].dry /\ holder = Null /\ Go(p, "locked")
  /\ UNCHANGED <<place, file, recorded, holds, holder, asked, launched>>

Acquire(p) ==
  /\ at[p] = "placed" /\ ~command[p].dry /\ holder = Null /\ Go(p, "locked") /\ holder' = p
  /\ UNCHANGED <<place, file, recorded, holds, asked, launched>>

\* _record_skipped_locked, a row without options, if the holder lets it in.
Refused(p) ==
  /\ at[p] = "placed" /\ holder # Null
  /\ recorded' \in {recorded, IF command[p].dry THEN recorded ELSE recorded \cup {Null}}
  /\ Leave(p) /\ UNCHANGED <<place, file, holds, launched>>

\* _collect_through up to the gateway: the schema, then the rows; any refusal exits 78.
Check(p) ==
  /\ at[p] = "locked"
  /\ IF file = "head" /\ RowsFit(command[p]) THEN Go(p, "checked") /\ UNCHANGED <<holder, asked>>
     ELSE Leave(p)
  /\ UNCHANGED <<place, file, recorded, holds, launched>>

\* Slip: the options are left to the end of the run, which a kill forestalls.
Build_RecordedLater(p) ==
  /\ at[p] = "checked"
  /\ IF command[p].gateway = "other" THEN Leave(p) /\ UNCHANGED recorded
     ELSE /\ Go(p, "writing") /\ asked' = asked \cup {p} /\ UNCHANGED holder
          /\ recorded' = IF command[p].dry THEN recorded ELSE recorded \cup {Null}
  /\ UNCHANGED <<place, file, holds, launched>>

\* GATEWAY_FACTORY, then the row with its options; another kind of gateway cannot be built.
Build(p) ==
  /\ at[p] = "checked"
  /\ IF command[p].gateway = "other" THEN Leave(p) /\ UNCHANGED recorded
     ELSE /\ Go(p, "writing") /\ asked' = asked \cup {p} /\ UNCHANGED holder
          /\ recorded' = IF command[p].dry THEN recorded ELSE recorded \cup {command[p].gateway}
  /\ UNCHANGED <<place, file, holds, launched>>

Data(gateway) == IF gateway = "fake" THEN "fabricated" ELSE "real"

Write(p) ==
  /\ at[p] = "writing"
  /\ holds' = IF command[p].dry THEN holds ELSE holds \cup {Data(command[p].gateway)}
  /\ UNCHANGED <<place, file, recorded, command, at, holder, asked, launched>>

\* The end of a run, or of the process at any point.
End(p) == at[p] # "idle" /\ Leave(p) /\ UNCHANGED <<place, file, recorded, holds, launched>>

-----------------------------------------------------------------------------
(* Around the commands, while none is under way.                            *)

\* The owner creates the database, moves the directory, installs a newer build or upgrades,
\* or a row is left that this build cannot read.
Owner ==
  /\ \A p \in Processes : at[p] = "idle"
  /\ \/ file' \in {"behind", "head"} /\ UNCHANGED <<place, recorded>>
     \/ place' \in {"default", "elsewhere"} /\ UNCHANGED <<file, recorded>>
     \/ recorded # {} /\ UNCHANGED <<place, file>>
          /\ \E kind \in recorded \ {Null} : recorded' = (recorded \ {kind}) \cup {"unreadable"}
  /\ UNCHANGED <<holds, command, at, holder, asked, launched>>

GatewaysNext ==
  \/ Owner
  \/ \E p \in Processes :
       \/ \E c \in Commands : Launch(p, c)
       \/ PassDry(p) \/ Acquire(p) \/ Refused(p) \/ Check(p) \/ Build(p) \/ Write(p) \/ End(p)

GatewaysSpec == GatewaysInit /\ [][GatewaysNext]_gatewayVars

-----------------------------------------------------------------------------
(* Properties.                                                              *)

\* Nothing fabricated is written beside real data, wherever the directory has been moved to
\* and whatever ran before or runs beside it, unless the command that writes it was told to;
\* the default directory never takes any; and no gateway but the fake is built under a test.
NothingFabricated ==
  \A p \in Processes :
    /\ at[p] = "writing" /\ ~command[p].dry /\ command[p].gateway = "fake" =>
         /\ "real" \in holds => command[p].allow
         /\ place = "elsewhere"
    /\ p \in asked /\ command[p].pytest => command[p].gateway = "fake"
=============================================================================
