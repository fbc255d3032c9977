---------------------------- MODULE InstanceState ----------------------------
(***************************************************************************)
(* The files of one installation that outlive every process, the lease on  *)
(* them, and the review servers that open the live database.               *)
(*                                                                         *)
(* A file is the set of its contents: empty when it does not exist.  Two   *)
(* databases are equal when their fingerprints are: a database is the      *)
(* number of migrations in its ledger and the stamp of its newest row.     *)
(***************************************************************************)
EXTENDS Integers, Sequences

CONSTANTS
    Outings,      \* what may happen to an installation (OutingShape)
    Commanders,   \* processes that can run a maintenance command
    MaxFloor,     \* the newest engine version; 0 is older than private state
    Ledger        \* how many migrations each version has

\* Versions only ever add migrations.
ASSUME InstanceAssumption ==
    /\ MaxFloor \in Nat /\ MaxFloor >= 2
    /\ Ledger \in [0 .. MaxFloor -> Nat]
    /\ \A f, g \in 0 .. MaxFloor : f <= g => Ledger[f] <= Ledger[g]

VARIABLES
    disk,      \* the files
    served,    \* runtime -> the review server it runs
    flock,     \* who holds the maintenance lease exclusively: nobody or one
    cmds,      \* commander -> the command it runs
    outing     \* what may still happen

ivars == <<disk, served, flock, cmds, outing>>

Floors   == 0 .. MaxFloor
Runtimes == {"docker", "pm2", "host"}
Places   == {"legacy", "private"}
Database == [floor : Nat, rows : Nat]
AtMostOne(S) == {f \in SUBSET S : \A x, y \in f : x = y}

\* `legacy` is .super-coder/shell_db.db and `private` the owner-only one;
\* `points` is the newest preupdate backup among the private ones; `intent` is
\* update-runtime-intent.json; `pin` and `prev` are engine.ref and engine.ref.prev.
DiskShape ==
    [legacy : AtMostOne(Database), private : AtMostOne(Database),
     candidate : AtMostOne(Database),
     receipt : AtMostOne([status : {"publishing", "private", "legacy"},
                          db : Database]),
     points : AtMostOne(Database), intent : SUBSET Runtimes,
     engine : Floors, pin : AtMostOne(Floors), prev : AtMostOne(Floors),
     rows : Nat]

Down == [at |-> "down", path |-> "private", code |-> 0]
ServerShape ==
    [at : {"down", "imported", "checked", "serving"}, path : Places, code : Floors]

The(S) == CHOOSE x \in S : TRUE

(* Which database is live. *)

Status(d) == IF d.receipt = {} THEN "none" ELSE The(d.receipt).status

\* Two databases of which no receipt says which is live.
Unclear(d) == Status(d) # "private" /\ d.legacy # {} /\ d.private # {}

\* Ordinary commands refuse an unfinished relocation and an unclear pair.
Selectable(d) == Status(d) # "publishing" /\ ~Unclear(d)

\* A mistake to be caught: whatever the receipt says, the file in the repository.
ActivePathByPresence(d) == IF d.legacy = {} THEN "private" ELSE "legacy"

ActivePath(d) ==
    IF Status(d) = "private" \/ d.legacy = {} THEN "private" ELSE "legacy"

RecoveryPath(d) == IF Status(d) = "publishing" THEN "private" ELSE ActivePath(d)

(* Who has the database open. *)

\* Servers of this engine own the lease together while they serve.
Sharers == {r \in Runtimes : served[r].at = "serving" /\ served[r].code > 0}
OpenIn(path) ==
    {r \in Runtimes : served[r].at = "serving" /\ served[r].path = path}
Running  == {r \in Runtimes : served[r].at # "down"}
Starting == {r \in Runtimes : served[r].at \in {"imported", "checked"}}

SpendOn(budget) == outing' = [outing EXCEPT ![budget] = @ - 1]

(***************************************************************************)
(* A review server.  It selects its database when it is imported, checks   *)
(* that no relocation is unfinished, and only then takes the lease.        *)
(***************************************************************************)
Imported ==
    IF disk.engine = 0
    THEN [at |-> IF disk.legacy = {} THEN "down" ELSE "serving",
          path |-> "legacy", code |-> 0]
    ELSE IF Status(disk) = "publishing" \/ Selectable(disk)
    THEN [at |-> "imported", path |-> RecoveryPath(disk), code |-> disk.engine]
    ELSE Down

\* Somebody launches a runtime; in a rush, also while a command runs.
LaunchServer(r) ==
    /\ served[r].at = "down" /\ outing.launches > 0 /\ r \in outing.runtimes
    /\ outing.rush \/ \A c \in Commanders : cmds[c].at = "idle"
    /\ served' = [served EXCEPT ![r] = Imported]
    /\ SpendOn("launches")
    /\ UNCHANGED <<disk, flock, cmds>>

CheckServer(r) ==
    /\ served[r].at = "imported"
    /\ served' = [served EXCEPT ![r] =
          IF Selectable(disk) THEN [@ EXCEPT !.at = "checked"] ELSE Down]
    /\ UNCHANGED <<disk, flock, cmds, outing>>

\* A mistake to be caught: the server does not ask for the lease.
AdmittedUnleased(s) == \E db \in disk[s.path] : db.floor >= Ledger[disk.engine]

\* The database must exist and have every migration of the engine on disk.
Admitted(s) ==
    /\ flock = {}
    /\ \E db \in disk[s.path] : db.floor >= Ledger[disk.engine]

OwnServer(r) ==
    /\ served[r].at = "checked"
    /\ served' = [served EXCEPT ![r] =
          IF Admitted(served[r]) THEN [@ EXCEPT !.at = "serving"] ELSE Down]
    /\ UNCHANGED <<disk, flock, cmds, outing>>

\* A request changes a row.
WriteRow(r) ==
    /\ served[r].at = "serving" /\ outing.writes > 0
    /\ disk' = [disk EXCEPT !.rows = @ + 1,
          ![served[r].path] = {[db EXCEPT !.rows = disk.rows + 1] : db \in @}]
    /\ SpendOn("writes")
    /\ UNCHANGED <<served, flock, cmds>>

\* A server may end at any time: ./sc down, or it dies.
ServerEnds(r) ==
    /\ served[r].at # "down"
    /\ served' = [served EXCEPT ![r] = Down]
    /\ UNCHANGED <<disk, flock, cmds, outing>>

Serve ==
    \E r \in Runtimes : \/ LaunchServer(r) \/ CheckServer(r) \/ OwnServer(r)
                        \/ WriteRow(r) \/ ServerEnds(r)

=============================================================================
