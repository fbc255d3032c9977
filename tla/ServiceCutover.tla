---------------------------- MODULE ServiceCutover ----------------------------
(***************************************************************************)
(* The maintenance commands: update, migrate, rollback with its            *)
(* engine-only form.  A command may fail or die at every step; what it has *)
(* done to the files stays, and its lease goes.                            *)
(***************************************************************************)
EXTENDS StateRelocation

\* Exclusive ownership is refused while a server or another command has any.
LeaseFree == flock = {} /\ Sharers = {}

StopOrder  == <<"docker", "pm2", "host">>
StartOrder == <<"pm2", "docker", "host">>

\* The next of some runtimes in an order.
First(order, some) ==
    order[CHOOSE i \in 1..3 : /\ order[i] \in some
                              /\ \A j \in 1..(i - 1) : order[j] \notin some]

Begin(c) ==
    LET chore == Head(outing.chores) IN
    /\ c \in outing.crew /\ cmds[c].at = "idle"
    /\ outing.chores # <<>> /\ disk.engine > 0
    /\ outing.rush \/ Starting = {}
    /\ outing' = [outing EXCEPT !.chores = Tail(@)]
    /\ \/ /\ chore.verb = "update"
          /\ cmds' = [cmds EXCEPT ![c] = [NoCommand EXCEPT !.verb = "update",
                        !.want = chore.want,
                        !.at = IF chore.want = {} THEN "recall" ELSE "record"]]
       \* The other commands select their database when they are imported.
       \/ /\ chore.verb # "update" /\ Selectable(disk)
          /\ cmds' = [cmds EXCEPT ![c] = [NoCommand EXCEPT !.verb = chore.verb,
                        !.at = "claim", !.path = ActivePath(disk)]]
       \/ /\ chore.verb # "update" /\ ~Selectable(disk)
          /\ UNCHANGED cmds
    /\ UNCHANGED <<disk, served, flock>>

\* A failed call, an exception or a signal, anywhere.
Dies(c) ==
    /\ cmds[c].at # "idle" /\ outing.deaths > 0
    /\ SpendOn("deaths")
    /\ Leave(c)
    /\ UNCHANGED <<disk, served>>

(* update: lay the fetched engine in place, then stop what runs. *)

RecordPrevious(c) ==
    /\ cmds[c].at = "record"
    /\ disk' = [disk EXCEPT !.prev = disk.pin]
    /\ Goto(c, "lay")
    /\ UNCHANGED <<served, flock, outing>>

LayEngine(c) ==
    /\ cmds[c].at = "lay"
    /\ disk' = [disk EXCEPT !.engine = The(cmds[c].want)]
    /\ Goto(c, "recall")
    /\ UNCHANGED <<served, flock, outing>>

LoadIntent(c) ==
    /\ cmds[c].at = "recall"
    /\ cmds' = [cmds EXCEPT ![c] = [cmds[c] EXCEPT !.at = "stop", !.todo = Runtimes,
                                            !.held = disk.intent]]
    /\ UNCHANGED <<disk, served, flock, outing>>

StopNext(c) ==
    LET r == First(StopOrder, cmds[c].todo) IN
    /\ cmds[c].at = "stop" /\ cmds[c].todo # {}
    /\ \/ /\ r \notin Running
          /\ cmds' = [cmds EXCEPT ![c].todo = @ \ {r}]
          /\ UNCHANGED served
       \/ /\ r \in Running
          /\ served' = [served EXCEPT ![r] = Down]
          /\ cmds' = [cmds EXCEPT ![c] = [cmds[c] EXCEPT !.at = "note",
                          !.held = @ \cup {r}, !.todo = @ \ {r}]]
    /\ UNCHANGED <<disk, flock, outing>>

\* A mistake to be caught: only what this update stopped is written down.
NotedAnew(c) == cmds[c].held \ disk.intent

\* What an earlier update stopped is still to be brought back.
Noted(c) == cmds[c].held

WriteIntent(c) ==
    /\ cmds[c].at = "note"
    /\ disk' = [disk EXCEPT !.intent = Noted(c)]
    /\ Goto(c, "stop")
    /\ UNCHANGED <<served, flock, outing>>

\* Everything is stopped: take the lease or give up.
Enter(c) ==
    /\ cmds[c].at = "stop" /\ cmds[c].todo = {}
    /\ IF LeaseFree
       THEN /\ flock' = {c}
            /\ cmds' = [cmds EXCEPT ![c] = [cmds[c] EXCEPT !.at = "relocate",
                                            !.adopted = disk.legacy # {}]]
       ELSE Leave(c)
    /\ UNCHANGED <<disk, served, outing>>

(* Under the lease: the restore point, the migrations, the pin. *)

\* A relocation has taken the restore point already.
BackUp(c) ==
    /\ cmds[c].at = "ledger"
    /\ disk' = IF cmds[c].adopted THEN disk
               ELSE [disk EXCEPT !.points = disk.private]
    /\ Goto(c, "migrate")
    /\ UNCHANGED <<served, flock, outing>>

\* One file and its ledger row in one transaction; none is pending at the end.
Unapplied(c) == {db \in disk[cmds[c].path] : db.floor < Ledger[disk.engine]}

Migrate(c) ==
    /\ cmds[c].at = "migrate"
    /\ \/ /\ Unapplied(c) # {}
          /\ disk' = [disk EXCEPT ![cmds[c].path] =
                         {[db EXCEPT !.floor = @ + 1] : db \in @}]
          /\ UNCHANGED <<cmds, flock>>
       \/ /\ Unapplied(c) = {} /\ cmds[c].verb = "update"
          /\ Goto(c, "repin") /\ UNCHANGED <<disk, flock>>
       \/ /\ Unapplied(c) = {} /\ cmds[c].verb = "migrate"
          /\ Leave(c) /\ UNCHANGED disk
    /\ UNCHANGED <<served, outing>>

PublishPin(c) ==
    /\ cmds[c].at = "repin"
    /\ disk' = IF cmds[c].want = {} THEN disk ELSE [disk EXCEPT !.pin = cmds[c].want]
    /\ Goto(c, "release")
    /\ UNCHANGED <<served, flock, outing>>

Release(c) ==
    /\ cmds[c].at = "release"
    /\ flock' = flock \ {c}
    /\ cmds' = [cmds EXCEPT ![c] = [cmds[c] EXCEPT !.at = "start", !.todo = cmds[c].held]]
    /\ UNCHANGED <<disk, served, outing>>

(* Bring the runtimes back, or leave all of them stopped. *)

StartNext(c) ==
    LET r == First(StartOrder, cmds[c].todo) IN
    /\ cmds[c].at = "start" /\ cmds[c].todo # {}
    /\ served' = [served EXCEPT ![r] = IF @.at = "down" THEN Imported ELSE @]
    /\ cmds' = [cmds EXCEPT ![c] = [cmds[c] EXCEPT !.todo = @ \ {r},
                                            !.tried = @ \cup {r}]]
    /\ UNCHANGED <<disk, flock, outing>>

StartFails(c) ==
    /\ cmds[c].at = "start" /\ cmds[c].todo # {} /\ outing.deaths > 0
    /\ cmds' = [cmds EXCEPT ![c] = [cmds[c] EXCEPT !.at = "undo",
                      !.tried = @ \cup {First(StartOrder, cmds[c].todo)}]]
    /\ SpendOn("deaths")
    /\ UNCHANGED <<disk, served, flock>>

\* Any server that answers on the port is taken for a healthy restart.
RequireHealth(c) ==
    /\ cmds[c].at = "start" /\ cmds[c].todo = {}
    /\ \/ /\ cmds[c].tried = {} \/ \E r \in Runtimes : served[r].at = "serving"
          /\ Goto(c, "forget")
       \/ /\ cmds[c].tried # {}
          /\ Goto(c, "undo")
    /\ UNCHANGED <<disk, served, flock, outing>>

Undo(c) ==
    /\ cmds[c].at = "undo"
    /\ served' = [r \in Runtimes |-> IF r \in cmds[c].tried THEN Down ELSE served[r]]
    /\ Leave(c)
    /\ UNCHANGED <<disk, outing>>

ClearIntent(c) ==
    /\ cmds[c].at = "forget"
    /\ disk' = [disk EXCEPT !.intent = {}]
    /\ Leave(c)
    /\ UNCHANGED <<served, outing>>

Updating(c) ==
    \/ RecordPrevious(c) \/ LayEngine(c) \/ LoadIntent(c) \/ StopNext(c)
    \/ WriteIntent(c) \/ Enter(c) \/ BackUp(c) \/ Migrate(c) \/ PublishPin(c)
    \/ Release(c) \/ StartNext(c) \/ StartFails(c) \/ RequireHealth(c)
    \/ Undo(c) \/ ClearIntent(c)

(* migrate and rollback: the lease first. *)

ClaimFlock(c) ==
    /\ cmds[c].at = "claim"
    /\ IF Selectable(disk) /\ LeaseFree /\ OpenIn(ActivePath(disk)) = {}
       THEN /\ flock' = {c}
            /\ Goto(c, CASE cmds[c].verb = "migrate"  -> "migrate"
                         [] cmds[c].verb = "rollback" -> "restore"
                         [] OTHER                     -> "verify")
       ELSE Leave(c)
    /\ UNCHANGED <<disk, served, outing>>

\* After the database comes the engine that goes with it.
EngineNext(c) ==
    IF disk.prev = {0} /\ cmds[c].path = "private" THEN "mirror" ELSE "relay"

\* The newest restore point; none is kept beside a database in the repository.
RestoreDatabase(c) ==
    LET point == IF ActivePath(disk) = "private" THEN disk.points ELSE {} IN
    /\ cmds[c].at = "restore"
    /\ \/ point = {} /\ Leave(c) /\ UNCHANGED disk
       \/ /\ point # {}
          /\ disk' = [disk EXCEPT ![cmds[c].path] = point]
          /\ IF disk.prev = {} THEN Leave(c)
                               ELSE Goto(c, EngineNext(c)) /\ UNCHANGED flock
    /\ UNCHANGED <<served, outing>>

\* The database has exactly the migrations of the previous engine.
HalfFloor(c) ==
    /\ disk.prev # {} /\ disk.pin # {} /\ disk.pin # disk.prev
    /\ Ledger[disk.engine] > Ledger[The(disk.prev)]
    /\ \E db \in disk[cmds[c].path] : db.floor = Ledger[The(disk.prev)]

VerifyFloor(c) ==
    /\ cmds[c].at = "verify"
    /\ IF HalfFloor(c) THEN Goto(c, EngineNext(c)) /\ UNCHANGED flock
                       ELSE Leave(c)
    /\ UNCHANGED <<disk, served, outing>>

RelayEngine(c) ==
    /\ cmds[c].at = "relay"
    /\ disk' = [disk EXCEPT !.engine = The(disk.prev)]
    /\ Goto(c, "unpin")
    /\ UNCHANGED <<served, flock, outing>>

RestorePin(c) ==
    /\ cmds[c].at = "unpin"
    /\ disk' = [disk EXCEPT !.pin = disk.prev]
    /\ Goto(c, "consume")
    /\ UNCHANGED <<served, flock, outing>>

ConsumePrevious(c) ==
    /\ cmds[c].at = "consume"
    /\ disk' = [disk EXCEPT !.prev = {}]
    /\ Leave(c)
    /\ UNCHANGED <<served, outing>>

RollingBack(c) ==
    \/ ClaimFlock(c) \/ RestoreDatabase(c) \/ VerifyFloor(c) \/ RelayEngine(c)
    \/ RestorePin(c) \/ ConsumePrevious(c)

\* The updater of an engine without private state: it lays the new engine,
\* pins it at once or not at all, and leaves the rest to the next update.
OldUpdate ==
    /\ disk.engine = 0 /\ outing.readopt
    /\ \E pin \in {disk.pin, {1}} :
          disk' = [disk EXCEPT !.engine = 1, !.prev = disk.pin, !.pin = pin]
    /\ outing' = [outing EXCEPT !.readopt = FALSE]
    /\ UNCHANGED <<served, flock, cmds>>

Command(c) ==
    \/ Begin(c) \/ Updating(c) \/ Relocation(c) \/ RollingBack(c) \/ Dies(c)

=============================================================================
