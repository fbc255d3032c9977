--------------------------- MODULE StateRelocation ---------------------------
(***************************************************************************)
(* The move of the live database out of the repository, under the lease,   *)
(* and back for an engine that cannot find it elsewhere.  Each write that   *)
(* survives a crash is a step; a receipt says how far a move has come.     *)
(***************************************************************************)
EXTENDS InstanceState

Verbs == {"none", "update", "migrate", "rollback", "engine_only"}

\* The version an update fetches, none with --no-fetch.
Fetched == AtMostOne(Floors \ {0})

\* `held` are the runtimes to bring back, `todo` those still to stop or
\* start, `tried` those started again.
CommandShape ==
    [verb : Verbs,
     at : {"idle", "record", "lay", "recall", "stop", "note",
           "relocate", "recover", "reseal", "backup", "candidate", "announce",
           "publish", "seal", "clear", "ledger", "migrate", "repin", "release",
           "start", "undo", "forget", "claim", "restore", "verify",
           "mirror", "signoff", "drop", "relay", "unpin", "consume"},
     want : Fetched, path : Places, adopted : BOOLEAN,
     held : SUBSET Runtimes, todo : SUBSET Runtimes, tried : SUBSET Runtimes]

NoCommand ==
    [verb |-> "none", at |-> "idle", want |-> {}, path |-> "private",
     adopted |-> FALSE, held |-> {}, todo |-> {}, tried |-> {}]

Goto(c, place) == cmds' = [cmds EXCEPT ![c].at = place]

\* A command ends: the lease goes with its process.
Leave(c) == cmds' = [cmds EXCEPT ![c] = NoCommand] /\ flock' = flock \ {c}

Receipt(status, db) == {[status |-> status, db |-> db]}

(* Where a relocation stands when a command takes the lease. *)

Settled ==
    /\ disk.legacy = {}
    /\ Status(disk) = "none" \/ (Status(disk) = "private" /\ disk.private # {})

\* The move was published; what is left is the very source of the move.
Remnant ==
    /\ Status(disk) = "private" /\ disk.private # {}
    /\ disk.legacy = {The(disk.receipt).db}
    /\ OpenIn("legacy") = {}

Movable ==
    /\ disk.legacy # {} /\ disk.private = {}
    /\ \/ Status(disk) = "none"
       \/ Status(disk) = "legacy" /\ disk.legacy = {The(disk.receipt).db}
    /\ OpenIn("legacy") = {}

Relocate(c) ==
    /\ cmds[c].at = "relocate"
    /\ \/ Settled /\ Goto(c, "ledger") /\ UNCHANGED flock
       \/ Remnant /\ Goto(c, "clear") /\ UNCHANGED flock
       \/ Status(disk) = "publishing" /\ Goto(c, "recover") /\ UNCHANGED flock
       \/ Movable /\ Goto(c, "backup") /\ UNCHANGED flock
       \/ /\ ~Settled /\ ~Remnant /\ ~Movable /\ Status(disk) # "publishing"
          /\ Leave(c)
    /\ UNCHANGED <<disk, served, outing>>

\* Finish a move that was announced, from wherever its database is.
Recovered ==
    LET db == The(disk.receipt).db IN
    IF disk.private # {} THEN disk
    ELSE IF disk.candidate = {db}
    THEN [disk EXCEPT !.private = {db}, !.candidate = {}]
    ELSE [disk EXCEPT !.private = disk.legacy]

RecoverPublishing(c) ==
    /\ cmds[c].at = "recover"
    /\ IF Recovered.private = {The(disk.receipt).db}
       THEN disk' = Recovered /\ Goto(c, "reseal") /\ UNCHANGED flock
       ELSE Leave(c) /\ UNCHANGED disk
    /\ UNCHANGED <<served, outing>>

Reseal(c) ==
    /\ cmds[c].at = "reseal"
    /\ disk' = [disk EXCEPT !.receipt = Receipt("private", The(@).db)]
    /\ Goto(c, "relocate")
    /\ UNCHANGED <<served, flock, outing>>

BackUpLegacy(c) ==
    /\ cmds[c].at = "backup"
    /\ disk' = [disk EXCEPT !.points = disk.legacy]
    /\ Goto(c, "candidate")
    /\ UNCHANGED <<served, flock, outing>>

MakeCandidate(c) ==
    /\ cmds[c].at = "candidate"
    /\ disk' = [disk EXCEPT !.candidate = disk.legacy]
    /\ Goto(c, "announce")
    /\ UNCHANGED <<served, flock, outing>>

Announce(c) ==
    /\ cmds[c].at = "announce"
    /\ disk' = [disk EXCEPT !.receipt = Receipt("publishing", The(disk.candidate))]
    /\ Goto(c, "publish")
    /\ UNCHANGED <<served, flock, outing>>

Publish(c) ==
    /\ cmds[c].at = "publish"
    /\ disk' = [disk EXCEPT !.private = disk.candidate, !.candidate = {}]
    /\ Goto(c, "seal")
    /\ UNCHANGED <<served, flock, outing>>

Seal(c) ==
    /\ cmds[c].at = "seal"
    /\ disk' = [disk EXCEPT !.receipt = Receipt("private", The(@).db)]
    /\ Goto(c, "clear")
    /\ UNCHANGED <<served, flock, outing>>

ClearLegacy(c) ==
    /\ cmds[c].at = "clear"
    /\ disk' = [disk EXCEPT !.legacy = {}]
    /\ Goto(c, "ledger")
    /\ UNCHANGED <<served, flock, outing>>

(* Back to the repository, for an engine without private state. *)

Mirror(c) ==
    /\ cmds[c].at = "mirror"
    /\ disk' = [disk EXCEPT !.legacy = disk.private]
    /\ Goto(c, "signoff")
    /\ UNCHANGED <<served, flock, outing>>

SignOff(c) ==
    /\ cmds[c].at = "signoff"
    /\ disk' = [disk EXCEPT !.receipt = Receipt("legacy", The(disk.legacy))]
    /\ Goto(c, "drop")
    /\ UNCHANGED <<served, flock, outing>>

DropPrivate(c) ==
    /\ cmds[c].at = "drop"
    /\ disk' = [disk EXCEPT !.private = {}]
    /\ Goto(c, "relay")
    /\ UNCHANGED <<served, flock, outing>>

Relocation(c) ==
    \/ Relocate(c) \/ RecoverPublishing(c) \/ Reseal(c) \/ BackUpLegacy(c)
    \/ MakeCandidate(c) \/ Announce(c) \/ Publish(c) \/ Seal(c) \/ ClearLegacy(c)
    \/ Mirror(c) \/ SignOff(c) \/ DropPrivate(c)

=============================================================================
