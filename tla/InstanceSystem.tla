--------------------------- MODULE InstanceSystem ---------------------------
(***************************************************************************)
(* The life of an installation: servers, people and maintenance commands   *)
(* over the same files.                                                    *)
(***************************************************************************)
EXTENDS ServiceCutover

\* A behaviour is about one outing: how it starts, which runtimes there are,
\* who runs which commands, and how much may happen beside them.
OutingShape ==
    [start : {"adopting", "pinned", "fresh", "newer"},
     runtimes : SUBSET Runtimes, up : SUBSET Runtimes, crew : SUBSET Commanders,
     chores : Seq([verb : Verbs \ {"none"}, want : Fetched]),
     writes : Nat, launches : Nat, deaths : Nat, rush : BOOLEAN,
     readopt : BOOLEAN]

ASSUME OutingRows == Outings \subseteq OutingShape

\* A record of the past, which no step depends on: the servers that were past
\* their import, and without the lease yet, when the files turned away from
\* what they had looked at.
VARIABLE overtaken

fvars == <<ivars, overtaken>>

\* The database that counts is in the other place now, or the engine on disk
\* went back.
TurnsAway ==
    \/ RecoveryPath(disk') # RecoveryPath(disk)
    \/ disk'.engine < disk.engine

Overtaking ==
    overtaken' = {r \in Runtimes :
        /\ served'[r].at # "down"
        /\ r \in overtaken \/ (r \in Starting /\ TurnsAway)}

\* An old floor whose updater has laid engine 1, unpinned or pinned; a fresh
\* private installation; and one whose engine an updater has moved ahead.
FirstDisk(start) ==
    LET old == {[floor |-> Ledger[0], rows |-> 0]}
        now == {[floor |-> Ledger[1], rows |-> 0]}
        Files(legacy, private, engine, pin, prev) ==
            [legacy |-> legacy, private |-> private, candidate |-> {},
             receipt |-> {}, points |-> {}, intent |-> {},
             engine |-> engine, pin |-> pin, prev |-> prev, rows |-> 0]
    IN CASE start = "adopting" -> Files(old, {}, 1, {0}, {0})
         [] start = "pinned"   -> Files(old, {}, 1, {1}, {0})
         [] start = "fresh"    -> Files({}, now, 1, {1}, {})
         [] start = "newer"    -> Files({}, now, 2, {2}, {1})

InstanceInit ==
    /\ outing \in Outings
    /\ disk = FirstDisk(outing.start)
    /\ served = [r \in Runtimes |->
          IF r \in outing.up
          THEN [at |-> "serving", path |-> ActivePath(disk),
                code |-> IF disk.legacy = {} THEN 1 ELSE 0]
          ELSE Down]
    /\ flock = {}
    /\ cmds = [c \in Commanders |-> NoCommand]
    /\ overtaken = {}

InstanceNext ==
    /\ Serve \/ OldUpdate \/ \E c \in Commanders : Command(c)
    /\ Overtaking

InstanceTypeOK ==
    /\ disk \in DiskShape
    /\ served \in [Runtimes -> ServerShape]
    /\ flock \in AtMostOne(Commanders)
    /\ cmds \in [Commanders -> CommandShape]
    /\ outing \in OutingShape
    /\ overtaken \subseteq Runtimes

(* The database that counts, wherever it is. *)
Authority ==
    CASE Status(disk) = "publishing" -> The(disk.receipt).db
      [] Status(disk) = "private"    -> The(disk.private)
      [] OTHER -> The(IF disk.legacy # {} THEN disk.legacy ELSE disk.private)

Store == INSTANCE OneStore WITH
    store  <- Authority,
    stamp  <- disk.rows,
    points <- disk.points,
    astray <- \E r \in overtaken : served[r].at = "serving"

\* There is one database.  However far a move has come when its mover dies, and
\* whoever finishes it, no row is lost and none reappears: it changes by a row,
\* by a migration, or back to the restore point that was taken of it.  Only an
\* overtaken server, which serves a copy, writes rows that are not in it.
KeepsOneStore == Store!Spec

\* A server serves the database that counts, and never one that lacks a
\* migration of its code, though it looks at the files before it has the lease.
\* The exception is real: once it has the lease the code reads no receipt again,
\* and compares the ledger with the engine then on disk, not with the code it
\* runs.  So a server that was overtaken between the two, by a move whose mover
\* died or by an engine laid back, may serve the copy left behind, or a schema
\* older than its code.  Nobody else does, then or later.
ServesTheAuthority ==
    \A r \in Runtimes \ overtaken : served[r].at = "serving" =>
        /\ disk[served[r].path] = {Authority}
        /\ Authority.floor >= Ledger[served[r].code]

\* What an update stopped is written down, or known to the update that did.
Remembered == disk.intent \cup UNION {cmds[c].held : c \in Commanders}

\* A runtime an update stopped is brought back by it or by a later one: it is
\* forgotten when an update has restarted it, or died before writing it down.
RestartsAreRemembered ==
    [][\A r \in Remembered : r \notin Remembered' =>
         \E c \in Commanders :
            \/ cmds[c].at = "forget" /\ r \in cmds[c].held
            \/ cmds[c].at = "note" /\ cmds'[c].at = "idle"]_fvars

=============================================================================
