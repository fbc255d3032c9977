---------------------------- MODULE InstanceProofs ----------------------------
(***************************************************************************)
(* The database of an installation is never lost, doubled or served stale, *)
(* however far a move has come when its mover dies: proved for every       *)
(* number of engine versions, every ledger and every outing of one person, *)
(* with servers launched at any moment of it.                              *)
(***************************************************************************)
EXTENDS SprintProofs, WakeProofs

\* One person runs the commands, one after the other; servers are launched
\* when anybody likes.
OnePerson == \A c, d \in outing.crew : c = d

Busy == {c \in Commanders : cmds[c].at # "idle"}

\* Well formed, but for the record of the past.
FilesTyped ==
    /\ disk \in DiskShape
    /\ served \in [Runtimes -> ServerShape]
    /\ flock \in AtMostOne(Commanders)
    /\ cmds \in [Commanders -> CommandShape]
    /\ outing \in OutingShape

BeforeLease == {"record", "lay", "recall", "stop", "note", "claim"}
AfterLease  == {"start", "undo", "forget"}
InLease     == {"relocate", "recover", "reseal", "backup", "candidate",
                "announce", "publish", "seal", "clear", "ledger", "migrate",
                "repin", "release", "restore", "verify", "mirror", "signoff",
                "drop", "relay", "unpin", "consume"}

\* Where the database is, by what the receipt says.
Placed ==
    /\ Status(disk) = "none" => disk.legacy # {} \/ disk.private # {}
    /\ Status(disk) = "legacy" => disk.legacy # {}
    /\ Status(disk) = "private" => disk.private # {}

\* An engine without private state finds its database in the repository.
OldEngineFinds ==
    disk.engine = 0 => /\ Status(disk) \in {"none", "legacy"}
                       /\ disk.private = {} /\ disk.legacy # {}

\* No database is older than the first version.
OldEnough ==
    \A db \in disk.legacy \cup disk.private \cup disk.candidate \cup disk.points :
        db.floor >= Ledger[0]

Live == Selectable(disk)

\* What a server relies on that nothing has overtaken.
ServerOK(r) ==
    /\ r \in Starting \cup overtaken => served[r].code > 0
    /\ r \in overtaken => served[r].at # "down"
    /\ r \in Starting \ overtaken =>
         /\ served[r].code <= disk.engine
         /\ served[r].path = RecoveryPath(disk)
    /\ served[r].at = "checked" /\ r \notin overtaken =>
         Status(disk) # "publishing"
    /\ served[r].at = "serving" /\ r \notin overtaken =>
         /\ Status(disk) # "publishing" /\ served[r].path = ActivePath(disk)
         /\ \A db \in disk[served[r].path] : db.floor >= Ledger[served[r].code]

\* The servers of an engine without private state do not ask for the lease.
Unasking == {r \in Runtimes : served[r].at = "serving" /\ served[r].code = 0}

\* What a command may rely on, by how far it has come.
Underway(k) ==
    /\ k.at \in InLease \ {"unpin", "consume"} =>
         \A r \in Runtimes : served[r].at # "serving"
    /\ k.at \notin {"unpin", "consume"} \cup AfterLease => disk.engine > 0
    /\ k.at \in {"record", "lay"} => k.want # {}
    /\ k.at = "claim" => Live /\ k.path = ActivePath(disk)
    /\ k.at \in {"stop", "note"} => Unasking \subseteq k.todo

Moving(k) ==
    /\ k.at \in {"recover", "reseal", "publish", "seal"} => Status(disk) = "publishing"
    /\ k.at \in {"reseal", "seal"} => disk.private = {The(disk.receipt).db}
    /\ k.at \in {"backup", "candidate", "announce"} =>
         /\ disk.legacy # {} /\ disk.private = {}
         /\ Status(disk) \in {"none", "legacy"}
    /\ k.at = "announce" => disk.candidate = disk.legacy
    /\ k.at = "publish" =>
         disk.private = {} /\ disk.candidate = {The(disk.receipt).db}
    /\ k.at = "clear" => Status(disk) = "private"
    /\ k.at = "ledger" => ActivePath(disk) = "private" /\ k.path = "private"
    /\ k.at \in {"ledger", "migrate", "restore", "verify"} =>
         Live /\ k.path = ActivePath(disk)
    /\ k.at \in {"mirror", "signoff", "drop", "relay"} => disk.prev # {}
    /\ k.at = "mirror" =>
         /\ disk.private # {} /\ Live /\ ActivePath(disk) = "private"
    /\ k.at = "signoff" =>
         disk.legacy = disk.private /\ Status(disk) \in {"none", "private"}
    /\ k.at = "drop" => Status(disk) = "legacy"
    /\ k.at = "relay" /\ disk.prev = {0} =>
         /\ Status(disk) \in {"none", "legacy"}
         /\ disk.private = {} /\ disk.legacy # {}

\* What an update has stopped.
Noting(k) ==
    /\ k.at \in {"record", "lay", "recall"} => k.verb = "update" /\ k.held = {}
    /\ k.verb # "update" => k.held = {}
    /\ k.at # "note" => k.held \subseteq disk.intent
    /\ k.verb = "update" /\ k.at \notin {"record", "lay", "recall"} =>
         disk.intent \subseteq k.held
    /\ k.verb = "update" => k.path = "private"
    /\ k.at \in {"stop", "note", "relocate", "recover", "reseal", "backup",
                 "candidate", "announce", "publish", "seal", "clear", "ledger",
                 "repin", "release"} \cup AfterLease => k.verb = "update"

\* What a command must find for its next write to be one, whoever else is
\* about.
Fits(k) ==
    /\ k.at \in {"record", "lay"} => k.want # {}
    /\ k.at \in {"recover", "reseal", "publish", "seal"} => disk.receipt # {}
    /\ k.at \in {"backup", "candidate", "signoff"} => disk.legacy # {}
    /\ k.at = "announce" => disk.candidate # {}
    /\ k.at = "mirror" => disk.private # {}
    /\ k.at \in {"mirror", "signoff", "drop", "relay"} => disk.prev # {}

CommandOK(c) ==
    IF c \in Busy THEN Underway(cmds[c]) /\ Moving(cmds[c]) /\ Noting(cmds[c])
    ELSE cmds[c] = NoCommand

OneBusy ==
    /\ OnePerson
    /\ Busy \subseteq outing.crew
    /\ flock = {c \in Busy : cmds[c].at \in InLease}

FilesInv ==
    /\ FilesTyped
    /\ Placed /\ OldEngineFinds /\ OldEnough
    /\ \A r \in Runtimes : ServerOK(r)
    /\ \A c \in Commanders : CommandOK(c)
    /\ OneBusy


-----------------------------------------------------------------------------
(* Sets of at most one element. *)

LEMMA OneOf == ASSUME NEW A, NEW S \in AtMostOne(A), S # {}
               PROVE  The(S) \in A /\ S = {The(S)}
  <1>1. PICK x \in S : TRUE  OBVIOUS
  <1>2. The(S) \in S  BY <1>1 DEF The
  <1> QED  BY <1>2 DEF AtMostOne

LEMMA TheOne == ASSUME NEW x PROVE The({x}) = x
  BY DEF The

LEMMA Single == ASSUME NEW A, NEW x \in A PROVE {x} \in AtMostOne(A)
  BY DEF AtMostOne

LEMMA NoneOf == ASSUME NEW A PROVE {} \in AtMostOne(A)
  BY DEF AtMostOne

\* A row is written to a file that stays.
LEMMA Written ==
    ASSUME NEW S, NEW n, S # {}
    PROVE  {[db EXCEPT !.rows = n] : db \in S} # {}
  <1>1. PICK db \in S : TRUE  OBVIOUS
  <1>2. [db EXCEPT !.rows = n] \in {[e EXCEPT !.rows = n] : e \in S}  BY <1>1
  <1> QED  BY <1>2

\* A row or a migration changes the one database in place.
LEMMA Rewritten ==
    ASSUME NEW S \in AtMostOne(Database)
    PROVE  /\ \A n \in Nat : {[db EXCEPT !.rows = n] : db \in S} \in AtMostOne(Database)
           /\ {[db EXCEPT !.floor = @ + 1] : db \in S} \in AtMostOne(Database)
  BY DEF AtMostOne, Database

LEMMA StatusOf ==
    ASSUME disk \in DiskShape
    PROVE  \/ disk.receipt = {} /\ Status(disk) = "none"
           \/ /\ disk.receipt # {}
              /\ Status(disk) \in {"publishing", "private", "legacy"}
              /\ The(disk.receipt).db \in Database
              /\ disk.receipt = Receipt(Status(disk), The(disk.receipt).db)
  <1>1. CASE disk.receipt = {}  BY <1>1 DEF Status
  <1>2. CASE disk.receipt # {}
    <2>1. The(disk.receipt) \in [status : {"publishing", "private", "legacy"},
                                 db : Database]
      BY <1>2, OneOf DEF DiskShape
    <2>2. disk.receipt = {The(disk.receipt)}  BY <1>2, OneOf DEF DiskShape
    <2> QED  BY <1>2, <2>1, <2>2 DEF Status, Receipt
  <1> QED  BY <1>1, <1>2

LEMMA Received ==
    ASSUME NEW s, NEW db
    PROVE  The(Receipt(s, db)).status = s /\ The(Receipt(s, db)).db = db
  <1>1. The(Receipt(s, db)) = [status |-> s, db |-> db]  BY TheOne DEF Receipt
  <1> QED  BY <1>1

LEMMA FirstOf ==
    ASSUME NEW some \in SUBSET Runtimes, some # {}
    PROVE  /\ First(StopOrder, some) \in some
           /\ First(StartOrder, some) \in some
  <1>1. ASSUME NEW order, order = StopOrder \/ order = StartOrder
        PROVE  First(order, some) \in some
    <2> DEFINE Leads(i) == /\ order[i] \in some
                           /\ \A j \in 1..(i - 1) : order[j] \notin some
    <2>1. order[1] \in some \/ order[2] \in some \/ order[3] \in some
      <3>1. PICK r \in some : r \in {"docker", "pm2", "host"}  BY DEF Runtimes
      <3>2. CASE order = StopOrder  BY <3>1, <3>2 DEF StopOrder
      <3>3. CASE order = StartOrder  BY <3>1, <3>3 DEF StartOrder
      <3> QED  BY <1>1, <3>2, <3>3
    <2>2. \E i \in 1..3 : Leads(i)
      <3>1. CASE order[1] \in some  BY <3>1
      <3>2. CASE order[1] \notin some /\ order[2] \in some  BY <3>2
      <3>3. CASE order[1] \notin some /\ order[2] \notin some  BY <2>1, <3>3
      <3> QED  BY <3>1, <3>2, <3>3
    <2>3. Leads(CHOOSE i \in 1..3 : Leads(i))  BY <2>2
    <2> QED  BY <2>3 DEF First
  <1> QED  BY <1>1

LEMMA ReceiptTypes ==
    ASSUME NEW s \in {"publishing", "private", "legacy"}, NEW db \in Database
    PROVE  Receipt(s, db) \in AtMostOne([status : {"publishing", "private", "legacy"},
                                         db : Database])
  BY Single DEF Receipt

LEMMA IdleIsNoCommand == NoCommand \in CommandShape /\ NoCommand.at = "idle"
  <1>1. {} \in Fetched  BY NoneOf DEF Fetched
  <1> QED  BY <1>1 DEF NoCommand, CommandShape, Verbs, Places

\* Only one commander is busy, so only its own step is to be judged.
LEMMA OneStep ==
    ASSUME FilesInv, NEW c \in Commanders,
           c \in Busy \/ (Busy = {} /\ c \in outing.crew),
           \A d \in Commanders : d # c => cmds'[d] = cmds[d],
           outing'.crew = outing.crew,
           flock' = IF cmds'[c].at \in InLease THEN {c} ELSE {},
           CommandOK(c)'
    PROVE  (\A d \in Commanders : CommandOK(d))' /\ OneBusy'
  <1>1. \A d \in Commanders : d # c => d \notin Busy /\ cmds[d] = NoCommand
    BY DEF FilesInv, OneBusy, OnePerson, CommandOK
  <1>2. \A d \in Commanders : d # c => d \notin Busy' /\ CommandOK(d)'
    BY <1>1, IdleIsNoCommand DEF Busy, CommandOK
  <1>3. (\A d \in Commanders : CommandOK(d))'  BY <1>2
  <1>4. Busy' \subseteq outing'.crew
    BY <1>2 DEF FilesInv, OneBusy, OnePerson, Busy
  <1>5. flock' = {d \in Busy' : cmds'[d].at \in InLease}
    BY <1>2 DEF Busy, InLease
  <1> QED  BY <1>3, <1>4, <1>5 DEF FilesInv, OneBusy, OnePerson

-----------------------------------------------------------------------------
(* Types. *)

LEMMA LeaveTypes ==
    ASSUME FilesTyped, NEW c \in Commanders, Leave(c)
    PROVE  cmds' \in [Commanders -> CommandShape] /\ flock' \in AtMostOne(Commanders)
  BY IdleIsNoCommand DEF Leave, FilesTyped, AtMostOne

LEMMA GotoTypes ==
    ASSUME FilesTyped, NEW c \in Commanders,
           NEW place \in BeforeLease \cup InLease \cup AfterLease, Goto(c, place)
    PROVE  cmds' \in [Commanders -> CommandShape]
  BY DEF Goto, FilesTyped, CommandShape, BeforeLease, InLease, AfterLease

LEMMA ImportedTypes ==
    ASSUME disk \in DiskShape PROVE Imported \in ServerShape
  <1>1. ActivePath(disk) \in Places /\ RecoveryPath(disk) \in Places
    BY DEF ActivePath, RecoveryPath, Places
  <1>2. disk.engine \in Floors  BY DEF DiskShape
  <1>3. CASE disk.engine = 0
    BY <1>3, <1>2 DEF Imported, ServerShape, Places, Floors
  <1>4. CASE disk.engine # 0 /\ (Status(disk) = "publishing" \/ Selectable(disk))
    BY <1>4, <1>1, <1>2 DEF Imported, ServerShape
  <1>5. CASE disk.engine # 0 /\ ~(Status(disk) = "publishing" \/ Selectable(disk))
    BY <1>5, InstanceAssumption DEF Imported, ServerShape, Down, Places, Floors
  <1> QED  BY <1>3, <1>4, <1>5

LEMMA DownTypes == Down \in ServerShape
  BY InstanceAssumption DEF Down, ServerShape, Places, Floors

LEMMA ServeTypes ==
    ASSUME FilesTyped, Serve PROVE FilesTyped'
  <1> USE DEF FilesTyped
  <1>1. ASSUME NEW r \in Runtimes, LaunchServer(r) PROVE FilesTyped'
    <2>1. served' \in [Runtimes -> ServerShape]
      BY <1>1, ImportedTypes DEF LaunchServer
    <2>2. outing' = [outing EXCEPT !.launches = @ - 1] /\ outing.launches > 0
      BY <1>1 DEF LaunchServer, SpendOn
    <2>3. outing.launches - 1 \in Nat  BY <2>2 DEF OutingShape
    <2>4. outing' \in OutingShape  BY <2>2, <2>3 DEF OutingShape
    <2> QED  BY <1>1, <2>1, <2>4 DEF LaunchServer
  <1>2. ASSUME NEW r \in Runtimes, CheckServer(r) PROVE FilesTyped'
    BY <1>2, DownTypes DEF CheckServer, ServerShape
  <1>3. ASSUME NEW r \in Runtimes, OwnServer(r) PROVE FilesTyped'
    BY <1>3, DownTypes DEF OwnServer, ServerShape
  <1>4. ASSUME NEW r \in Runtimes, WriteRow(r) PROVE FilesTyped'
    <2>a. outing' = [outing EXCEPT !.writes = @ - 1] /\ outing.writes > 0
      BY <1>4 DEF WriteRow, SpendOn
    <2>b. outing.writes - 1 \in Nat  BY <2>a DEF OutingShape
    <2>1. outing' \in OutingShape  BY <2>a, <2>b DEF OutingShape
    <2>2. disk.rows + 1 \in Nat  BY DEF DiskShape
    <2>3. CASE served[r].path = "legacy"
      BY <1>4, <2>1, <2>2, <2>3, Rewritten DEF WriteRow, DiskShape
    <2>4. CASE served[r].path = "private"
      BY <1>4, <2>1, <2>2, <2>4, Rewritten DEF WriteRow, DiskShape
    <2> QED  BY <2>3, <2>4 DEF ServerShape, Places
  <1>5. ASSUME NEW r \in Runtimes, ServerEnds(r) PROVE FilesTyped'
    BY <1>5, DownTypes DEF ServerEnds
  <1> QED  BY <1>1, <1>2, <1>3, <1>4, <1>5 DEF Serve

\* A field of the files is replaced by one of its type.
LEMMA Refile ==
    ASSUME FilesTyped,
           disk' \in DiskShape, UNCHANGED <<served, outing>>,
           cmds' \in [Commanders -> CommandShape], flock' \in AtMostOne(Commanders)
    PROVE  FilesTyped'
  BY DEF FilesTyped

LEMMA UpdatingTypes ==
    ASSUME FilesTyped, NEW c \in Commanders, Fits(cmds[c]), Updating(c)
    PROVE  FilesTyped'
  <1>0. FilesTyped  OBVIOUS
  <1>a. /\ disk \in DiskShape /\ served \in [Runtimes -> ServerShape]
        /\ cmds \in [Commanders -> CommandShape] /\ flock \in AtMostOne(Commanders)
        /\ outing \in OutingShape
    BY <1>0 DEF FilesTyped
  <1>b. cmds[c] \in CommandShape  BY <1>a
  <1>c. /\ cmds[c].held \in SUBSET Runtimes /\ cmds[c].todo \in SUBSET Runtimes
        /\ cmds[c].want \in Fetched /\ cmds[c].path \in Places
    BY <1>b DEF CommandShape
  <1>d. ASSUME NEW k \in CommandShape, cmds' = [cmds EXCEPT ![c] = k],
               UNCHANGED <<disk, flock>>,
               served' \in [Runtimes -> ServerShape], outing' \in OutingShape
        PROVE  FilesTyped'
    BY <1>a, <1>d DEF FilesTyped
  <1>1. CASE RecordPrevious(c)
    <2>1. cmds' \in [Commanders -> CommandShape]
      BY <1>0, <1>a, <1>1, GotoTypes DEF RecordPrevious, BeforeLease
    <2>2. disk' \in DiskShape  BY <1>0, <1>a, <1>1 DEF RecordPrevious, DiskShape
    <2> QED  BY <1>0, <1>a, <1>1, <2>1, <2>2, Refile DEF RecordPrevious
  <1>2. CASE LayEngine(c)
    <2>1. cmds' \in [Commanders -> CommandShape]
      BY <1>0, <1>a, <1>2, GotoTypes DEF LayEngine, BeforeLease
    <2>2. cmds[c].want # {} /\ cmds[c].want \in AtMostOne(Floors \ {0})
      BY <1>0, <1>a, <1>2 DEF LayEngine, Fits, CommandShape, Fetched
    <2>3. The(cmds[c].want) \in Floors  BY <2>2, OneOf
    <2>4. disk' \in DiskShape  BY <1>0, <1>a, <1>2, <2>3 DEF LayEngine, DiskShape
    <2> QED  BY <1>0, <1>a, <1>2, <2>1, <2>4, Refile DEF LayEngine
  <1>3. CASE LoadIntent(c)
    <2>1. disk.intent \in SUBSET Runtimes  BY <1>a DEF DiskShape
    <2>2. [cmds[c] EXCEPT !.at = "stop", !.todo = Runtimes, !.held = disk.intent]
             \in CommandShape
      BY <1>b, <2>1 DEF CommandShape
    <2> QED  BY <1>a, <1>d, <1>3, <2>2 DEF LoadIntent
  <1>4. CASE StopNext(c)
    <2> DEFINE r == First(StopOrder, cmds[c].todo)
    <2>1. r \in Runtimes  BY <1>c, <1>4, FirstOf DEF StopNext
    <2>2. [cmds[c] EXCEPT !.todo = @ \ {r}] \in CommandShape
      BY <1>b, <2>1 DEF CommandShape
    <2>3. [cmds[c] EXCEPT !.at = "note", !.held = @ \cup {r}, !.todo = @ \ {r}]
             \in CommandShape
      BY <1>b, <2>1 DEF CommandShape
    <2>4. CASE r \notin Running
      <3>1. cmds' = [cmds EXCEPT ![c] = [cmds[c] EXCEPT !.todo = @ \ {r}]]
        BY <1>4, <2>4 DEF StopNext
      <3> QED  BY <1>a, <1>d, <1>4, <2>2, <2>4, <3>1 DEF StopNext
    <2>5. CASE r \in Running
      <3>1. served' \in [Runtimes -> ServerShape]
        BY <1>a, <1>4, <2>5, DownTypes DEF StopNext
      <3>2. cmds' = [cmds EXCEPT ![c] = [cmds[c] EXCEPT !.at = "note",
                                        !.held = @ \cup {r}, !.todo = @ \ {r}]]
        BY <1>4, <2>5 DEF StopNext
      <3>3. UNCHANGED <<disk, flock, outing>>  BY <1>4 DEF StopNext
      <3> QED  BY <1>a, <1>d, <2>3, <3>1, <3>2, <3>3
    <2> QED  BY <2>4, <2>5
  <1>5. CASE WriteIntent(c)
    <2>1. cmds' \in [Commanders -> CommandShape]
      BY <1>0, <1>a, <1>5, GotoTypes DEF WriteIntent, BeforeLease
    <2>2. disk' \in DiskShape
      BY <1>0, <1>a, <1>5 DEF WriteIntent, DiskShape, Noted, CommandShape
    <2> QED  BY <1>0, <1>a, <1>5, <2>1, <2>2, Refile DEF WriteIntent
  <1>6. CASE Enter(c)
    <2>1. CASE LeaseFree
      <3>1. [cmds[c] EXCEPT !.at = "relocate", !.adopted = disk.legacy # {}]
               \in CommandShape
        BY <1>b DEF CommandShape
      <3>2. {c} \in AtMostOne(Commanders)  BY Single
      <3> QED  BY <1>a, <1>6, <2>1, <3>1, <3>2 DEF Enter, FilesTyped
    <2>2. CASE ~LeaseFree
      BY <1>0, <1>a, <1>6, <2>2, LeaveTypes DEF Enter, FilesTyped
    <2> QED  BY <2>1, <2>2
  <1>7. CASE BackUp(c)
    <2>1. cmds' \in [Commanders -> CommandShape]
      BY <1>0, <1>a, <1>7, GotoTypes DEF BackUp, InLease
    <2>2. disk' \in DiskShape  BY <1>0, <1>a, <1>7 DEF BackUp, DiskShape
    <2> QED  BY <1>0, <1>a, <1>7, <2>1, <2>2, Refile DEF BackUp
  <1>8. CASE Migrate(c)
    <2>1. CASE Unapplied(c) # {}
      <3>1. cmds[c].path \in Places  BY <1>c
      <3>2. CASE cmds[c].path = "legacy"
        <4>1. disk' = [disk EXCEPT !.legacy = {[db EXCEPT !.floor = @ + 1] : db \in @}]
          BY <1>8, <2>1, <3>2 DEF Migrate
        <4>2. disk' \in DiskShape  BY <1>a, <4>1, Rewritten DEF DiskShape
        <4> QED  BY <1>0, <1>a, <1>8, <2>1, <4>2 DEF Migrate, FilesTyped
      <3>3. CASE cmds[c].path = "private"
        <4>1. disk' = [disk EXCEPT !.private = {[db EXCEPT !.floor = @ + 1] : db \in @}]
          BY <1>8, <2>1, <3>3 DEF Migrate
        <4>2. disk' \in DiskShape  BY <1>a, <4>1, Rewritten DEF DiskShape
        <4> QED  BY <1>0, <1>a, <1>8, <2>1, <4>2 DEF Migrate, FilesTyped
      <3> QED  BY <3>1, <3>2, <3>3 DEF Places
    <2>2. CASE Unapplied(c) = {} /\ cmds[c].verb = "update"
      BY <1>0, <1>a, <1>8, <2>2, GotoTypes DEF Migrate, InLease, FilesTyped
    <2>3. CASE Unapplied(c) = {} /\ cmds[c].verb = "migrate"
      BY <1>0, <1>a, <1>8, <2>3, LeaveTypes DEF Migrate, FilesTyped
    <2> QED  BY <1>8, <2>1, <2>2, <2>3 DEF Migrate
  <1>9. CASE PublishPin(c)
    <2>1. cmds' \in [Commanders -> CommandShape]
      BY <1>0, <1>a, <1>9, GotoTypes DEF PublishPin, InLease
    <2>2. cmds[c].want \in AtMostOne(Floors)
      BY <1>c DEF Fetched, AtMostOne
    <2>3. disk' \in DiskShape  BY <1>0, <1>a, <1>9, <2>2 DEF PublishPin, DiskShape
    <2> QED  BY <1>0, <1>a, <1>9, <2>1, <2>3, Refile DEF PublishPin
  <1>10. CASE Release(c)
    <2>1. [cmds[c] EXCEPT !.at = "start", !.todo = cmds[c].held] \in CommandShape
      BY <1>b, <1>c DEF CommandShape
    <2>2. flock' \in AtMostOne(Commanders)  BY <1>a, <1>10 DEF Release, AtMostOne
    <2> QED  BY <1>a, <1>10, <2>1, <2>2 DEF Release, FilesTyped
  <1>11. CASE StartNext(c)
    <2> DEFINE r == First(StartOrder, cmds[c].todo)
    <2>1. r \in Runtimes  BY <1>c, <1>11, FirstOf DEF StartNext
    <2>2. [cmds[c] EXCEPT !.todo = @ \ {r}, !.tried = @ \cup {r}] \in CommandShape
      BY <1>b, <2>1 DEF CommandShape
    <2>3. served' \in [Runtimes -> ServerShape]
      BY <1>a, <1>11, ImportedTypes DEF StartNext
    <2>4. cmds' = [cmds EXCEPT ![c] = [cmds[c] EXCEPT !.todo = @ \ {r},
                                                      !.tried = @ \cup {r}]]
      BY <1>11 DEF StartNext
    <2>5. UNCHANGED <<disk, flock, outing>>  BY <1>11 DEF StartNext
    <2> QED  BY <1>a, <1>d, <2>2, <2>3, <2>4, <2>5
  <1>12. CASE StartFails(c)
    <2> DEFINE r == First(StartOrder, cmds[c].todo)
    <2>1. r \in Runtimes  BY <1>c, <1>12, FirstOf DEF StartFails
    <2>2. SpendOn("deaths") /\ outing.deaths > 0  BY <1>12 DEF StartFails
    <2>3. outing \in OutingShape  BY <1>a
    <2>4. outing' \in OutingShape  BY <2>2, <2>3 DEF SpendOn, OutingShape
    <2>5. [cmds[c] EXCEPT !.at = "undo", !.tried = @ \cup {r}] \in CommandShape
      BY <1>b, <2>1 DEF CommandShape
    <2>6. cmds' = [cmds EXCEPT ![c] = [cmds[c] EXCEPT !.at = "undo",
                                                      !.tried = @ \cup {r}]]
      BY <1>12 DEF StartFails
    <2>7. UNCHANGED <<disk, served, flock>>  BY <1>12 DEF StartFails
    <2> QED  BY <1>a, <1>d, <2>4, <2>5, <2>6, <2>7
  <1>13. CASE RequireHealth(c)
    BY <1>0, <1>a, <1>13, GotoTypes DEF RequireHealth, AfterLease, FilesTyped
  <1>14. CASE Undo(c)
    BY <1>0, <1>a, <1>14, LeaveTypes, DownTypes DEF Undo, FilesTyped
  <1>15. CASE ClearIntent(c)
    <2>1. disk' \in DiskShape  BY <1>0, <1>a, <1>15 DEF ClearIntent, DiskShape
    <2> QED  BY <1>0, <1>a, <1>15, <2>1, LeaveTypes, Refile DEF ClearIntent
  <1> QED
    BY <1>1, <1>2, <1>3, <1>4, <1>5, <1>6, <1>7, <1>8, <1>9, <1>10, <1>11,
       <1>12, <1>13, <1>14, <1>15 DEF Updating

LEMMA RelocationTypes ==
    ASSUME FilesTyped, NEW c \in Commanders, Fits(cmds[c]), Relocation(c)
    PROVE  FilesTyped'
  <1> USE DEF FilesTyped
  <1>0. FilesTyped /\ Fits(cmds[c])  OBVIOUS
  <1>1. CASE Relocate(c)
    BY <1>0, <1>1, GotoTypes, LeaveTypes DEF Relocate, InLease
  <1>2. CASE RecoverPublishing(c)
    <2>1. disk.receipt # {} /\ The(disk.receipt).db \in Database
      BY <1>0, <1>2, StatusOf DEF RecoverPublishing, Fits
    <2>2. Recovered \in DiskShape
      BY <1>0, <2>1, Single, NoneOf DEF Recovered, DiskShape
    <2> QED  BY <1>0, <1>2, <2>2, GotoTypes, LeaveTypes DEF RecoverPublishing, InLease
  <1>3. ASSUME Goto(c, "relocate") \/ Goto(c, "candidate") \/ Goto(c, "announce")
                 \/ Goto(c, "publish") \/ Goto(c, "seal") \/ Goto(c, "clear")
                 \/ Goto(c, "ledger") \/ Goto(c, "signoff") \/ Goto(c, "drop")
                 \/ Goto(c, "relay"),
               disk' \in DiskShape, UNCHANGED <<served, flock, outing>>
        PROVE  FilesTyped'
    <2>1. cmds' \in [Commanders -> CommandShape]
      BY <1>0, <1>3, GotoTypes DEF InLease
    <2> QED  BY <1>0, <1>3, <2>1, Refile
  <1>4. ASSUME disk.receipt # {}
        PROVE  \A s \in {"private", "legacy"} :
                  [disk EXCEPT !.receipt = Receipt(s, The(@).db)] \in DiskShape
    BY <1>0, <1>4, StatusOf, ReceiptTypes DEF DiskShape
  <1>5. CASE Reseal(c)
    BY <1>0, <1>3, <1>4, <1>5 DEF Reseal, Fits
  <1>6. CASE BackUpLegacy(c)
    BY <1>0, <1>3, <1>6 DEF BackUpLegacy, DiskShape
  <1>7. CASE MakeCandidate(c)
    BY <1>0, <1>3, <1>7 DEF MakeCandidate, DiskShape
  <1>8. CASE Announce(c)
    <2>1. disk.candidate # {}  BY <1>0, <1>8 DEF Announce, Fits
    <2>2. The(disk.candidate) \in Database  BY <1>0, <2>1, OneOf DEF DiskShape
    <2>3. disk' \in DiskShape
      BY <1>0, <1>8, <2>2, ReceiptTypes DEF Announce, DiskShape
    <2> QED  BY <1>3, <1>8, <2>3 DEF Announce
  <1>9. CASE Publish(c)
    BY <1>0, <1>3, <1>9, NoneOf DEF Publish, DiskShape
  <1>10. CASE Seal(c)
    BY <1>0, <1>3, <1>4, <1>10 DEF Seal, Fits
  <1>11. CASE ClearLegacy(c)
    BY <1>0, <1>3, <1>11, NoneOf DEF ClearLegacy, DiskShape
  <1>12. CASE Mirror(c)
    BY <1>0, <1>3, <1>12 DEF Mirror, DiskShape
  <1>13. CASE SignOff(c)
    <2>1. disk.legacy # {}  BY <1>0, <1>13 DEF SignOff, Fits
    <2>2. The(disk.legacy) \in Database  BY <1>0, <2>1, OneOf DEF DiskShape
    <2>3. disk' \in DiskShape
      BY <1>0, <1>13, <2>2, ReceiptTypes DEF SignOff, DiskShape
    <2> QED  BY <1>3, <1>13, <2>3 DEF SignOff
  <1>14. CASE DropPrivate(c)
    BY <1>0, <1>3, <1>14, NoneOf DEF DropPrivate, DiskShape
  <1> QED
    BY <1>1, <1>2, <1>5, <1>6, <1>7, <1>8, <1>9, <1>10, <1>11, <1>12, <1>13,
       <1>14 DEF Relocation

LEMMA RollingBackTypes ==
    ASSUME FilesTyped, NEW c \in Commanders, Fits(cmds[c]), RollingBack(c)
    PROVE  FilesTyped'
  <1>0. FilesTyped /\ Fits(cmds[c])  OBVIOUS
  <1>a. disk \in DiskShape /\ cmds[c].path \in Places
    BY <1>0 DEF FilesTyped, CommandShape
  <1>1. CASE ClaimFlock(c)
    <2>1. {c} \in AtMostOne(Commanders)  BY Single
    <2>2. CASE Selectable(disk) /\ LeaseFree /\ OpenIn(ActivePath(disk)) = {}
      <3>1. Goto(c, "migrate") \/ Goto(c, "restore") \/ Goto(c, "verify")
        BY <1>1, <2>2 DEF ClaimFlock
      <3>2. cmds' \in [Commanders -> CommandShape]
        BY <1>0, <3>1, GotoTypes DEF InLease
      <3> QED  BY <1>0, <1>1, <2>1, <2>2, <3>2 DEF ClaimFlock, FilesTyped
    <2>3. CASE ~(Selectable(disk) /\ LeaseFree /\ OpenIn(ActivePath(disk)) = {})
      BY <1>0, <1>1, <2>3, LeaveTypes DEF ClaimFlock, FilesTyped
    <2> QED  BY <2>2, <2>3
  <1>2. EngineNext(c) \in {"mirror", "relay"}  BY DEF EngineNext
  <1>3. CASE RestoreDatabase(c)
    <2> DEFINE point == IF ActivePath(disk) = "private" THEN disk.points ELSE {}
    <2>1. point \in AtMostOne(Database)  BY <1>a, NoneOf DEF DiskShape
    <2>2. disk' \in DiskShape
      <3>1. CASE point = {}  BY <1>3, <1>a, <3>1 DEF RestoreDatabase
      <3>2. CASE point # {}
        <4>1. disk' = [disk EXCEPT ![cmds[c].path] = point]
          BY <1>3, <3>2 DEF RestoreDatabase
        <4> HIDE DEF point
        <4>2. CASE cmds[c].path = "legacy"  BY <1>a, <2>1, <4>1, <4>2 DEF DiskShape
        <4>3. CASE cmds[c].path = "private"  BY <1>a, <2>1, <4>1, <4>3 DEF DiskShape
        <4> QED  BY <1>a, <4>2, <4>3 DEF Places
      <3> QED  BY <3>1, <3>2
    <2>3. Leave(c) \/ (Goto(c, EngineNext(c)) /\ UNCHANGED flock)
      BY <1>3 DEF RestoreDatabase
    <2>4. cmds' \in [Commanders -> CommandShape] /\ flock' \in AtMostOne(Commanders)
      BY <1>0, <1>2, <2>3, LeaveTypes, GotoTypes DEF InLease, FilesTyped
    <2> QED  BY <1>0, <1>3, <2>2, <2>4, Refile DEF RestoreDatabase
  <1>4. CASE VerifyFloor(c)
    <2>1. Leave(c) \/ (Goto(c, EngineNext(c)) /\ UNCHANGED flock)
      BY <1>4 DEF VerifyFloor
    <2>2. cmds' \in [Commanders -> CommandShape] /\ flock' \in AtMostOne(Commanders)
      BY <1>0, <1>2, <2>1, LeaveTypes, GotoTypes DEF InLease, FilesTyped
    <2> QED  BY <1>0, <1>4, <2>2 DEF VerifyFloor, FilesTyped
  <1>5. CASE RelayEngine(c)
    <2>1. disk.prev # {}  BY <1>0, <1>5 DEF RelayEngine, Fits
    <2>2. The(disk.prev) \in Floors  BY <1>a, <2>1, OneOf DEF DiskShape
    <2>3. disk' \in DiskShape  BY <1>5, <1>a, <2>2 DEF RelayEngine, DiskShape
    <2> QED  BY <1>0, <1>5, <2>3, GotoTypes, Refile
         DEF RelayEngine, InLease, FilesTyped
  <1>6. CASE RestorePin(c)
    <2>1. disk' \in DiskShape  BY <1>6, <1>a DEF RestorePin, DiskShape
    <2> QED  BY <1>0, <1>6, <2>1, GotoTypes, Refile
         DEF RestorePin, InLease, FilesTyped
  <1>7. CASE ConsumePrevious(c)
    <2>1. disk' \in DiskShape  BY <1>7, <1>a, NoneOf DEF ConsumePrevious, DiskShape
    <2> QED  BY <1>0, <1>7, <2>1, LeaveTypes, Refile DEF ConsumePrevious
  <1> QED
    BY <1>1, <1>3, <1>4, <1>5, <1>6, <1>7 DEF RollingBack

LEMMA FilesFit ==
    ASSUME FilesInv, NEW c \in Commanders PROVE Fits(cmds[c])
  <1>1. CASE c \in Busy
    <2>1. Underway(cmds[c]) /\ Moving(cmds[c])  BY <1>1 DEF FilesInv, CommandOK
    <2>2. Status(disk) = "publishing" => disk.receipt # {}  BY DEF Status
    <2>3. cmds[c].at = "signoff" => disk.legacy # {}
      BY <2>1 DEF Moving, FilesInv, Placed
    <2>4. cmds[c].at = "announce" => disk.candidate # {}
      BY <2>1 DEF Moving, FilesInv, Placed
    <2> QED  BY <2>1, <2>2, <2>3, <2>4 DEF Fits, Underway, Moving
  <1>2. CASE c \notin Busy
    BY <1>2 DEF Busy, Fits
  <1> QED  BY <1>1, <1>2

LEMMA OtherTypes ==
    ASSUME FilesTyped, OldUpdate \/ \E c \in Commanders : Begin(c) \/ Dies(c)
    PROVE  FilesTyped'
  <1>a. disk \in DiskShape /\ outing \in OutingShape  BY DEF FilesTyped
  <1>1. CASE OldUpdate
    <2>1. 1 \in Floors /\ {1} \in AtMostOne(Floors)
      <3>1. 1 \in Floors  BY InstanceAssumption DEF Floors
      <3> QED  BY <3>1, Single
    <2>2. PICK pin \in {disk.pin, {1}} :
             disk' = [disk EXCEPT !.engine = 1, !.prev = disk.pin, !.pin = pin]
      BY <1>1 DEF OldUpdate
    <2>3. pin \in AtMostOne(Floors)  BY <1>a, <2>1 DEF DiskShape
    <2>4. disk' \in DiskShape  BY <1>a, <2>1, <2>2, <2>3 DEF DiskShape
    <2>5. outing' \in OutingShape  BY <1>1, <1>a DEF OldUpdate, OutingShape
    <2> QED  BY <1>1, <2>4, <2>5 DEF OldUpdate, FilesTyped
  <1>2. ASSUME NEW c \in Commanders, Begin(c) PROVE FilesTyped'
    <2> DEFINE chore == Head(outing.chores)
    <2>1. outing.chores \in Seq([verb : Verbs \ {"none"}, want : Fetched])
          /\ outing.chores # <<>>
      BY <1>2, <1>a DEF Begin, OutingShape
    <2>2. chore \in [verb : Verbs \ {"none"}, want : Fetched]
      <3> HIDE DEF chore
      <3> DEFINE Chores == [verb : Verbs \ {"none"}, want : Fetched]
      <3> HIDE DEF Chores
      <3>1. outing.chores \in Seq(Chores)  BY <2>1 DEF Chores
      <3>2. Head(outing.chores) \in Chores  BY <2>1, <3>1
      <3> QED  BY <3>2 DEF chore, Chores
    <2>3. outing' \in OutingShape
      <3>1. Tail(outing.chores) \in Seq([verb : Verbs \ {"none"}, want : Fetched])
        BY <2>1
      <3>2. outing' = [outing EXCEPT !.chores = Tail(@)]  BY <1>2 DEF Begin
      <3> QED  BY <1>a, <3>1, <3>2 DEF OutingShape
    <2>4. [NoCommand EXCEPT !.verb = "update", !.want = chore.want,
              !.at = IF chore.want = {} THEN "recall" ELSE "record"] \in CommandShape
      BY <2>2, IdleIsNoCommand DEF CommandShape, Verbs
    <2>5. ActivePath(disk) \in Places  BY DEF ActivePath, Places
    <2>6. [NoCommand EXCEPT !.verb = chore.verb, !.at = "claim",
              !.path = ActivePath(disk)] \in CommandShape
      BY <2>2, <2>5, IdleIsNoCommand DEF CommandShape
    <2>7. cmds' \in [Commanders -> CommandShape]
      <3> HIDE DEF chore
      <3>1. \/ cmds' = [cmds EXCEPT ![c] = [NoCommand EXCEPT !.verb = "update",
                           !.want = chore.want,
                           !.at = IF chore.want = {} THEN "recall" ELSE "record"]]
            \/ cmds' = [cmds EXCEPT ![c] = [NoCommand EXCEPT !.verb = chore.verb,
                           !.at = "claim", !.path = ActivePath(disk)]]
            \/ UNCHANGED cmds
        BY <1>2 DEF Begin, chore
      <3> QED  BY <2>4, <2>6, <3>1 DEF FilesTyped
    <2> QED  BY <1>2, <2>3, <2>7 DEF Begin, FilesTyped
  <1>3. ASSUME NEW c \in Commanders, Dies(c) PROVE FilesTyped'
    <2>1. SpendOn("deaths") /\ outing.deaths > 0  BY <1>3 DEF Dies
    <2>a. outing' = [outing EXCEPT !.deaths = @ - 1]  BY <2>1 DEF SpendOn
    <2>b. outing.deaths - 1 \in Nat  BY <1>a, <2>1 DEF OutingShape
    <2>2. outing' \in OutingShape  BY <1>a, <2>a, <2>b DEF OutingShape
    <2> QED  BY <1>3, <2>2, LeaveTypes DEF Dies, FilesTyped
  <1> QED  BY <1>1, <1>2, <1>3

-----------------------------------------------------------------------------
(* Types, for any number of persons: what a command counts on is kept from *)
(* the others by the lease, or is never taken back.                        *)

Fitted(c) ==
    /\ Fits(cmds[c])
    /\ cmds[c].at = "unpin" => disk.prev # {}
    /\ cmds[c].at \in InLease => flock = {c}

TypesInv ==
    /\ FilesTyped
    /\ disk.pin # {}
    /\ \A c \in Commanders : Fitted(c)

\* What exists is still there.
Stay ==
    /\ disk.receipt # {} => disk'.receipt # {}
    /\ disk.legacy # {} => disk'.legacy # {}
    /\ disk.private # {} => disk'.private # {}
    /\ disk.candidate # {} => disk'.candidate # {}
    /\ disk.prev # {} => disk'.prev # {}

LEMMA RestFitted ==
    ASSUME TypesInv, Stay, UNCHANGED flock,
           NEW d \in Commanders, cmds'[d] = cmds[d]
    PROVE  Fitted(d)'
  <1>1. Fitted(d)  BY DEF TypesInv
  <1> QED  BY <1>1 DEF Fitted, Fits, Stay, InLease

\* A command that has the lease, takes it, or takes nothing away.
LEMMA OwnStep ==
    ASSUME TypesInv, FilesTyped', disk'.pin # {},
           NEW c \in Commanders, Fitted(c)',
           \A d \in Commanders : d # c => cmds'[d] = cmds[d],
           flock' \in {flock, flock \ {c}} \/ flock = {},
           cmds[c].at \in InLease \/ Stay
    PROVE  TypesInv'
  <1>1. ASSUME NEW d \in Commanders, d # c PROVE Fitted(d)'
    <2>1. Fitted(d) /\ Fitted(c) /\ cmds'[d] = cmds[d]  BY <1>1 DEF TypesInv
    <2>2. CASE cmds[d].at \in InLease
      <3>1. flock = {d} /\ cmds[c].at \notin InLease /\ Stay
        BY <1>1, <2>1, <2>2 DEF Fitted
      <3>2. UNCHANGED flock  BY <1>1, <3>1
      <3> QED  BY <2>1, <3>1, <3>2, RestFitted
    <2>3. CASE cmds[d].at \notin InLease
      BY <2>1, <2>3 DEF Fitted, Fits, InLease
    <2> QED  BY <2>2, <2>3
  <1> QED  BY <1>1 DEF TypesInv

LEMMA LeaveFitted ==
    ASSUME TypesInv, FilesTyped', disk'.pin # {},
           NEW c \in Commanders, Leave(c), cmds[c].at \in InLease \/ Stay
    PROVE  TypesInv'
  <1>1. cmds'[c] = NoCommand /\ \A d \in Commanders : d # c => cmds'[d] = cmds[d]
    BY DEF Leave, TypesInv, FilesTyped
  <1>2. Fitted(c)'  BY <1>1, IdleIsNoCommand DEF Fitted, Fits, InLease
  <1> QED  BY <1>1, <1>2, OwnStep DEF Leave

LEMMA GotoFitted ==
    ASSUME TypesInv, FilesTyped', disk'.pin # {},
           NEW c \in Commanders, NEW place, Goto(c, place),
           UNCHANGED flock, cmds[c].at \in InLease \/ (Stay /\ place \notin InLease),
           place = "lay" => cmds[c].want # {},
           place # "record",
           place \in {"recover", "reseal", "publish", "seal"} => disk'.receipt # {},
           place \in {"backup", "candidate", "signoff"} => disk'.legacy # {},
           place = "announce" => disk'.candidate # {},
           place = "mirror" => disk'.private # {},
           place \in {"mirror", "signoff", "drop", "relay", "unpin"} => disk'.prev # {}
    PROVE  TypesInv'
  <1>1. /\ cmds'[c].at = place /\ cmds'[c].want = cmds[c].want
        /\ \A d \in Commanders : d # c => cmds'[d] = cmds[d]
    BY DEF Goto, TypesInv, FilesTyped, CommandShape
  <1>2. Fitted(c)
    BY DEF TypesInv
  <1>3. Fits(cmds[c])'  BY <1>1 DEF Fits
  <1>4. Fitted(c)'  BY <1>1, <1>2, <1>3 DEF Fitted
  <1> QED  BY <1>1, <1>4, OwnStep

LEMMA UpdatingFitted ==
    ASSUME TypesInv, NEW c \in Commanders, Updating(c)
    PROVE  TypesInv'
  <1>0. FilesTyped' /\ Fitted(c) /\ disk.pin # {}
    BY UpdatingTypes DEF TypesInv, Fitted
  <1>a. /\ disk \in DiskShape /\ cmds \in [Commanders -> CommandShape]
        /\ cmds[c] \in CommandShape
    BY DEF TypesInv, FilesTyped
  <1>1. CASE RecordPrevious(c)
    <2>1. /\ disk'.pin = disk.pin /\ Stay /\ cmds[c].want # {}
      BY <1>0, <1>1, <1>a DEF RecordPrevious, DiskShape, Stay, Fitted, Fits
    <2> QED  BY <1>0, <1>1, <2>1, GotoFitted DEF RecordPrevious, InLease
  <1>2. CASE LayEngine(c)
    <2>1. disk'.pin = disk.pin /\ Stay
      BY <1>2, <1>a DEF LayEngine, DiskShape, Stay
    <2> QED  BY <1>0, <1>2, <2>1, GotoFitted DEF LayEngine, InLease
  <1>3. CASE LoadIntent(c) \/ StopNext(c)
    <2>1. /\ cmds'[c].at \in {"stop", "note"} /\ UNCHANGED <<disk, flock>>
          /\ \A d \in Commanders : d # c => cmds'[d] = cmds[d]
      <3>1. CASE LoadIntent(c)
        BY <1>a, <3>1 DEF LoadIntent, CommandShape
      <3>2. CASE StopNext(c)
        <4>1. /\ cmds[c].at = "stop" /\ UNCHANGED <<disk, flock>>
              /\ \E todo, some, at : /\ at \in {"stop", "note"}
                    /\ cmds' = [cmds EXCEPT ![c] = [cmds[c] EXCEPT !.at = at,
                                      !.held = some, !.todo = todo]]
          <5> DEFINE r == First(StopOrder, cmds[c].todo)
          <5>1. CASE r \in Running  BY <3>2, <5>1 DEF StopNext
          <5>2. CASE r \notin Running
            <6>1. cmds[c].at = "stop" /\ UNCHANGED <<disk, flock>>
              BY <3>2 DEF StopNext
            <6>2. cmds' = [cmds EXCEPT ![c] = [cmds[c] EXCEPT !.todo = @ \ {r}]]
              BY <3>2, <5>2 DEF StopNext
            <6> HIDE DEF r
            <6>3. cmds' = [cmds EXCEPT ![c] = [cmds[c] EXCEPT !.at = "stop",
                             !.held = cmds[c].held, !.todo = cmds[c].todo \ {r}]]
              BY <1>a, <6>1, <6>2 DEF CommandShape
            <6> QED  BY <6>1, <6>3
          <5> QED  BY <5>1, <5>2
        <4> QED  BY <1>a, <4>1 DEF CommandShape
      <3> QED  BY <1>3, <3>1, <3>2
    <2>2. Fitted(c)'  BY <2>1 DEF Fitted, Fits, InLease
    <2>3. Stay  BY <2>1 DEF Stay
    <2> QED  BY <1>0, <2>1, <2>2, <2>3, OwnStep
  <1>4. CASE WriteIntent(c)
    <2>1. disk'.pin = disk.pin /\ Stay
      BY <1>4, <1>a DEF WriteIntent, DiskShape, Stay
    <2> QED  BY <1>0, <1>4, <2>1, GotoFitted DEF WriteIntent, InLease
  <1>5. CASE Enter(c)
    <2>1. UNCHANGED disk /\ Stay  BY <1>5 DEF Enter, Stay
    <2>2. CASE LeaseFree
      <3>1. /\ cmds'[c].at = "relocate" /\ flock = {} /\ flock' = {c}
            /\ \A d \in Commanders : d # c => cmds'[d] = cmds[d]
        <4>1. flock = {} /\ flock' = {c}  BY <1>5, <2>2 DEF Enter, LeaseFree
        <4>2. cmds' = [cmds EXCEPT ![c] = [cmds[c] EXCEPT !.at = "relocate",
                                           !.adopted = disk.legacy # {}]]
          BY <1>5, <2>2 DEF Enter
        <4>3. PICK adopted : adopted = (disk.legacy # {})  OBVIOUS
        <4>4. cmds' = [cmds EXCEPT ![c] = [cmds[c] EXCEPT !.at = "relocate",
                                           !.adopted = adopted]]
          BY <4>2, <4>3
        <4> QED  BY <1>a, <4>1, <4>4 DEF CommandShape
      <3>2. Fitted(c)'  BY <3>1 DEF Fitted, Fits
      <3> QED  BY <1>0, <2>1, <3>1, <3>2, OwnStep
    <2>3. CASE ~LeaseFree
      BY <1>0, <1>5, <2>1, <2>3, LeaveFitted DEF Enter
    <2> QED  BY <2>2, <2>3
  <1>6. CASE BackUp(c)
    <2>1. disk'.pin = disk.pin  BY <1>6, <1>a DEF BackUp, DiskShape
    <2> QED  BY <1>0, <1>6, <2>1, GotoFitted DEF BackUp, InLease
  <1>7. CASE Migrate(c)
    <2>1. cmds[c].at = "migrate"  BY <1>7 DEF Migrate
    <2>2. disk'.pin = disk.pin
      <3>1. cmds[c].path \in {"legacy", "private"}
        BY <1>a DEF CommandShape, Places
      <3> QED  BY <1>7, <1>a, <3>1 DEF Migrate, DiskShape
    <2>3. CASE UNCHANGED <<cmds, flock>>
      <3>1. Fitted(c)'  BY <1>0, <2>1, <2>3 DEF Fitted, Fits, InLease
      <3> QED  BY <1>0, <2>1, <2>2, <2>3, <3>1, OwnStep DEF InLease
    <2>4. CASE Goto(c, "repin") /\ UNCHANGED flock
      BY <1>0, <2>1, <2>2, <2>4, GotoFitted DEF InLease
    <2>5. CASE Leave(c)
      BY <1>0, <2>1, <2>2, <2>5, LeaveFitted DEF InLease
    <2> QED  BY <1>7, <2>3, <2>4, <2>5 DEF Migrate
  <1>8. CASE PublishPin(c)
    <2>1. disk'.pin # {}  BY <1>0, <1>8, <1>a DEF PublishPin, DiskShape
    <2> QED  BY <1>0, <1>8, <2>1, GotoFitted DEF PublishPin, InLease
  <1>9. CASE Release(c)
    <2>1. /\ cmds'[c].at = "start" /\ UNCHANGED disk /\ flock' = flock \ {c}
          /\ \A d \in Commanders : d # c => cmds'[d] = cmds[d]
      BY <1>9, <1>a DEF Release, CommandShape
    <2>2. Fitted(c)'  BY <2>1 DEF Fitted, Fits, InLease
    <2>3. Stay  BY <2>1 DEF Stay
    <2> QED  BY <1>0, <2>1, <2>2, <2>3, OwnStep
  <1>10. CASE StartNext(c) \/ StartFails(c) \/ RequireHealth(c)
    <2>1. /\ cmds'[c].at \in AfterLease /\ UNCHANGED <<disk, flock>>
          /\ \A d \in Commanders : d # c => cmds'[d] = cmds[d]
      <3>1. CASE StartNext(c)
        BY <1>a, <3>1 DEF StartNext, CommandShape, AfterLease
      <3>2. CASE StartFails(c)
        BY <1>a, <3>2 DEF StartFails, CommandShape, AfterLease
      <3>3. CASE RequireHealth(c)
        BY <1>a, <3>3 DEF RequireHealth, Goto, CommandShape, AfterLease
      <3> QED  BY <1>10, <3>1, <3>2, <3>3
    <2>2. Fitted(c)'  BY <2>1 DEF Fitted, Fits, InLease, AfterLease
    <2>3. Stay  BY <2>1 DEF Stay
    <2> QED  BY <1>0, <2>1, <2>2, <2>3, OwnStep
  <1>11. CASE Undo(c)
    <2>1. UNCHANGED disk /\ Stay /\ Leave(c)  BY <1>11 DEF Undo, Stay
    <2> QED  BY <1>0, <2>1, LeaveFitted
  <1>12. CASE ClearIntent(c)
    <2>1. disk'.pin = disk.pin /\ Stay /\ Leave(c)
      BY <1>12, <1>a DEF ClearIntent, DiskShape, Stay
    <2> QED  BY <1>0, <2>1, LeaveFitted
  <1> QED
    BY <1>1, <1>2, <1>3, <1>4, <1>5, <1>6, <1>7, <1>8, <1>9, <1>10, <1>11, <1>12
       DEF Updating

LEMMA RelocationFitted ==
    ASSUME TypesInv, NEW c \in Commanders, Relocation(c)
    PROVE  TypesInv'
  <1>0. FilesTyped' /\ Fitted(c) /\ disk.pin # {}
    BY RelocationTypes DEF TypesInv, Fitted
  <1>a. disk \in DiskShape
    BY DEF TypesInv, FilesTyped
  <1>b. cmds[c].at \in InLease /\ Fits(cmds[c])
    BY <1>0 DEF Fitted, Relocation, Relocate, RecoverPublishing, Reseal, BackUpLegacy,
       MakeCandidate, Announce, Publish, Seal, ClearLegacy, Mirror, SignOff,
       DropPrivate, InLease
  <1>c. \A s, db : Receipt(s, db) # {}  BY DEF Receipt
  <1>1. CASE Relocate(c)
    <2>1. UNCHANGED disk /\ (Status(disk) = "publishing" => disk.receipt # {})
      BY <1>1 DEF Relocate, Status
    <2>2. CASE Leave(c)  BY <1>0, <1>b, <2>1, <2>2, LeaveFitted
    <2>3. CASE Goto(c, "backup") /\ UNCHANGED flock /\ disk.legacy # {}
      BY <1>0, <1>b, <2>1, <2>3, GotoFitted
    <2>4. CASE Goto(c, "recover") /\ UNCHANGED flock /\ disk.receipt # {}
      BY <1>0, <1>b, <2>1, <2>4, GotoFitted
    <2>5. CASE (Goto(c, "ledger") \/ Goto(c, "clear")) /\ UNCHANGED flock
      BY <1>0, <1>b, <2>1, <2>5, GotoFitted
    <2> QED  BY <1>1, <2>1, <2>2, <2>3, <2>4, <2>5 DEF Relocate, Movable
  <1>2. CASE RecoverPublishing(c)
    <2>1. disk'.pin = disk.pin /\ disk'.receipt = disk.receipt
      BY <1>2, <1>a DEF RecoverPublishing, Recovered, DiskShape
    <2>2. disk.receipt # {}  BY <1>2, <1>b DEF RecoverPublishing, Fits
    <2>3. Leave(c) \/ (Goto(c, "reseal") /\ UNCHANGED flock)
      BY <1>2 DEF RecoverPublishing
    <2> QED  BY <1>0, <1>b, <2>1, <2>2, <2>3, LeaveFitted, GotoFitted
  <1>3. CASE Reseal(c)
    <2>1. disk'.pin = disk.pin  BY <1>3, <1>a DEF Reseal, DiskShape
    <2> QED  BY <1>0, <1>b, <1>3, <2>1, GotoFitted DEF Reseal
  <1>4. CASE BackUpLegacy(c)
    <2>1. disk'.pin = disk.pin /\ disk'.legacy # {}
      BY <1>4, <1>a, <1>b DEF BackUpLegacy, DiskShape, Fits
    <2> QED  BY <1>0, <1>b, <1>4, <2>1, GotoFitted DEF BackUpLegacy
  <1>5. CASE MakeCandidate(c)
    <2>1. disk'.pin = disk.pin /\ disk'.candidate # {}
      BY <1>5, <1>a, <1>b DEF MakeCandidate, DiskShape, Fits
    <2> QED  BY <1>0, <1>b, <1>5, <2>1, GotoFitted DEF MakeCandidate
  <1>6. CASE Announce(c)
    <2>1. disk'.pin = disk.pin /\ disk'.receipt # {}
      BY <1>6, <1>a, <1>c DEF Announce, DiskShape
    <2> QED  BY <1>0, <1>b, <1>6, <2>1, GotoFitted DEF Announce
  <1>7. CASE Publish(c)
    <2>1. disk'.pin = disk.pin /\ disk'.receipt # {}
      BY <1>7, <1>a, <1>b DEF Publish, DiskShape, Fits
    <2> QED  BY <1>0, <1>b, <1>7, <2>1, GotoFitted DEF Publish
  <1>8. CASE Seal(c)
    <2>1. disk'.pin = disk.pin  BY <1>8, <1>a DEF Seal, DiskShape
    <2> QED  BY <1>0, <1>b, <1>8, <2>1, GotoFitted DEF Seal
  <1>9. CASE ClearLegacy(c)
    <2>1. disk'.pin = disk.pin  BY <1>9, <1>a DEF ClearLegacy, DiskShape
    <2> QED  BY <1>0, <1>b, <1>9, <2>1, GotoFitted DEF ClearLegacy
  <1>10. CASE Mirror(c)
    <2>1. disk'.pin = disk.pin /\ disk'.legacy # {} /\ disk'.prev # {}
      BY <1>10, <1>a, <1>b DEF Mirror, DiskShape, Fits
    <2> QED  BY <1>0, <1>b, <1>10, <2>1, GotoFitted DEF Mirror
  <1>11. CASE SignOff(c)
    <2>1. disk'.pin = disk.pin /\ disk'.prev # {}
      BY <1>11, <1>a, <1>b DEF SignOff, DiskShape, Fits
    <2> QED  BY <1>0, <1>b, <1>11, <2>1, GotoFitted DEF SignOff
  <1>12. CASE DropPrivate(c)
    <2>1. disk'.pin = disk.pin /\ disk'.prev # {}
      BY <1>12, <1>a, <1>b DEF DropPrivate, DiskShape, Fits
    <2> QED  BY <1>0, <1>b, <1>12, <2>1, GotoFitted DEF DropPrivate
  <1> QED
    BY <1>1, <1>2, <1>3, <1>4, <1>5, <1>6, <1>7, <1>8, <1>9, <1>10, <1>11, <1>12
       DEF Relocation

LEMMA RollingBackFitted ==
    ASSUME TypesInv, NEW c \in Commanders, RollingBack(c)
    PROVE  TypesInv'
  <1>0. FilesTyped' /\ Fitted(c) /\ disk.pin # {}
    BY RollingBackTypes DEF TypesInv, Fitted
  <1>a. /\ disk \in DiskShape /\ cmds \in [Commanders -> CommandShape]
        /\ cmds[c] \in CommandShape
    BY DEF TypesInv, FilesTyped
  <1>b. Fits(cmds[c])  BY <1>0 DEF Fitted
  <1>1. CASE ClaimFlock(c)
    <2>1. UNCHANGED disk /\ Stay  BY <1>1 DEF ClaimFlock, Stay
    <2>2. CASE Leave(c)  BY <1>0, <2>1, <2>2, LeaveFitted
    <2>3. CASE ~Leave(c)
      <3>1. /\ cmds'[c].at \in {"migrate", "restore", "verify"}
            /\ flock = {} /\ flock' = {c}
            /\ \A d \in Commanders : d # c => cmds'[d] = cmds[d]
        BY <1>1, <1>a, <2>3 DEF ClaimFlock, LeaseFree, Goto, CommandShape
      <3>2. Fitted(c)'  BY <3>1 DEF Fitted, Fits
      <3> QED  BY <1>0, <2>1, <3>1, <3>2, OwnStep
    <2> QED  BY <2>2, <2>3
  <1>2. ASSUME cmds[c].at \in InLease, disk'.pin = disk.pin, disk'.prev = disk.prev,
               disk.prev # {}, Goto(c, EngineNext(c)), UNCHANGED flock,
               cmds[c].path = "private" => disk'.private # {}
        PROVE  TypesInv'
    <2>1. CASE EngineNext(c) = "mirror"
      <3>1. cmds[c].path = "private"  BY <2>1 DEF EngineNext
      <3>2. Goto(c, "mirror")  BY <1>2, <2>1
      <3> QED  BY <1>0, <1>2, <3>1, <3>2, GotoFitted
    <2>2. CASE EngineNext(c) = "relay"
      <3>1. Goto(c, "relay")  BY <1>2, <2>2
      <3> QED  BY <1>0, <1>2, <3>1, GotoFitted
    <2> QED  BY <2>1, <2>2 DEF EngineNext
  <1>3. CASE RestoreDatabase(c)
    <2>1. cmds[c].at \in InLease  BY <1>3 DEF RestoreDatabase, InLease
    <2>2. PICK point : point = IF ActivePath(disk) = "private" THEN disk.points ELSE {}
      OBVIOUS
    <2>3. CASE point = {}
      <3>1. Leave(c) /\ UNCHANGED disk  BY <1>3, <2>2, <2>3 DEF RestoreDatabase
      <3> QED  BY <1>0, <2>1, <3>1, LeaveFitted
    <2>4. CASE point # {}
      <3>1. /\ disk' = [disk EXCEPT ![cmds[c].path] = point]
            /\ IF disk.prev = {} THEN Leave(c)
                                 ELSE Goto(c, EngineNext(c)) /\ UNCHANGED flock
        BY <1>3, <2>2, <2>4 DEF RestoreDatabase
      <3>2. cmds[c].path \in {"legacy", "private"}  BY <1>a DEF CommandShape, Places
      <3>3. /\ disk'.pin = disk.pin /\ disk'.prev = disk.prev
            /\ cmds[c].path = "private" => disk'.private # {}
        BY <1>a, <2>4, <3>1, <3>2 DEF DiskShape
      <3> QED  BY <1>0, <1>2, <2>1, <3>1, <3>3, LeaveFitted
    <2> QED  BY <2>3, <2>4
  <1>4. CASE VerifyFloor(c)
    <2>1. cmds[c].at \in InLease /\ UNCHANGED disk
      BY <1>4 DEF VerifyFloor, InLease
    <2>2. CASE HalfFloor(c)
      <3>1. disk.prev # {} /\ (cmds[c].path = "private" => disk.private # {})
        BY <2>2 DEF HalfFloor
      <3> QED  BY <1>2, <1>4, <2>1, <2>2, <3>1 DEF VerifyFloor
    <2>3. CASE ~HalfFloor(c)
      BY <1>0, <1>4, <2>1, <2>3, LeaveFitted DEF VerifyFloor
    <2> QED  BY <2>2, <2>3
  <1>5. CASE RelayEngine(c)
    <2>1. disk'.pin = disk.pin /\ disk'.prev # {} /\ cmds[c].at \in InLease
      BY <1>5, <1>a, <1>b DEF RelayEngine, DiskShape, Fits, InLease
    <2> QED  BY <1>0, <1>5, <2>1, GotoFitted DEF RelayEngine
  <1>6. CASE RestorePin(c)
    <2>1. disk'.pin # {} /\ cmds[c].at \in InLease
      BY <1>0, <1>6, <1>a DEF RestorePin, DiskShape, Fitted, InLease
    <2> QED  BY <1>0, <1>6, <2>1, GotoFitted DEF RestorePin
  <1>7. CASE ConsumePrevious(c)
    <2>1. disk'.pin = disk.pin /\ cmds[c].at \in InLease /\ Leave(c)
      BY <1>7, <1>a DEF ConsumePrevious, DiskShape, InLease
    <2> QED  BY <1>0, <2>1, LeaveFitted
  <1> QED
    BY <1>1, <1>3, <1>4, <1>5, <1>6, <1>7 DEF RollingBack

LEMMA OtherFitted ==
    ASSUME TypesInv, Serve \/ OldUpdate \/ \E c \in Commanders : Begin(c) \/ Dies(c)
    PROVE  TypesInv'
  <1>a. /\ disk \in DiskShape /\ cmds \in [Commanders -> CommandShape]
        /\ served \in [Runtimes -> ServerShape] /\ disk.pin # {}
    BY DEF TypesInv, FilesTyped
  <1>0. FilesTyped'  BY OtherTypes, ServeTypes DEF TypesInv
  <1>1. ASSUME Stay, UNCHANGED <<cmds, flock>>, disk'.pin # {} PROVE TypesInv'
    BY <1>0, <1>1, RestFitted DEF TypesInv
  <1>2. ASSUME NEW r \in Runtimes, WriteRow(r) PROVE TypesInv'
    <2>1. served[r].path \in {"legacy", "private"}  BY <1>a DEF ServerShape, Places
    <2>2. /\ disk'.receipt = disk.receipt /\ disk'.candidate = disk.candidate
          /\ disk'.pin = disk.pin /\ disk'.prev = disk.prev
          /\ disk.legacy # {} => disk'.legacy # {}
          /\ disk.private # {} => disk'.private # {}
      <3>1. CASE served[r].path = "legacy"
        <4> DEFINE S == {[db EXCEPT !.rows = disk.rows + 1] : db \in disk.legacy}
        <4>1. disk' = [disk EXCEPT !.rows = @ + 1, !.legacy = S]
          BY <1>2, <1>a, <3>1 DEF WriteRow, DiskShape
        <4>2. disk.legacy # {} => S # {}  BY Written
        <4> HIDE DEF S
        <4> QED  BY <1>a, <4>1, <4>2 DEF DiskShape
      <3>2. CASE served[r].path = "private"
        <4> DEFINE S == {[db EXCEPT !.rows = disk.rows + 1] : db \in disk.private}
        <4>1. disk' = [disk EXCEPT !.rows = @ + 1, !.private = S]
          BY <1>2, <1>a, <3>2 DEF WriteRow, DiskShape
        <4>2. disk.private # {} => S # {}  BY Written
        <4> HIDE DEF S
        <4> QED  BY <1>a, <4>1, <4>2 DEF DiskShape
      <3> QED  BY <2>1, <3>1, <3>2
    <2> QED  BY <1>1, <1>2, <1>a, <2>2 DEF WriteRow, Stay
  <1>3. CASE Serve
    <2>1. ASSUME UNCHANGED <<disk, flock, cmds>> PROVE TypesInv'
      BY <1>1, <1>a, <2>1 DEF Stay
    <2> QED
      BY <1>2, <1>3, <2>1 DEF Serve, LaunchServer, CheckServer, OwnServer, ServerEnds
  <1>4. CASE OldUpdate
    <2>1. Stay /\ disk'.pin # {}
      BY <1>4, <1>a DEF OldUpdate, DiskShape, Stay
    <2> QED  BY <1>1, <1>4, <2>1 DEF OldUpdate
  <1>5. ASSUME NEW c \in Commanders, Begin(c) PROVE TypesInv'
    <2>1. UNCHANGED <<disk, flock>> /\ Stay  BY <1>5 DEF Begin, Stay
    <2>2. /\ cmds'[c].at \in {"record", "recall", "claim", "idle"}
          /\ cmds'[c].at = "record" => cmds'[c].want # {}
          /\ \A d \in Commanders : d # c => cmds'[d] = cmds[d]
      BY <1>5, <1>a DEF Begin, NoCommand
    <2>3. Fitted(c)'  BY <2>2 DEF Fitted, Fits, InLease
    <2> QED  BY <1>0, <1>a, <2>1, <2>2, <2>3, OwnStep
  <1>6. ASSUME NEW c \in Commanders, Dies(c) PROVE TypesInv'
    <2>1. UNCHANGED disk /\ Stay /\ Leave(c)  BY <1>6 DEF Dies, Stay
    <2> QED  BY <1>0, <1>a, <2>1, LeaveFitted
  <1> QED  BY <1>3, <1>4, <1>5, <1>6

-----------------------------------------------------------------------------
(* Servers. *)

LEMMA ImportedOK ==
    ASSUME FilesInv, Overtaking, NEW r \in Runtimes, UNCHANGED disk,
           served[r].at = "down", served'[r] = Imported
    PROVE  ServerOK(r)'
  <1>0. disk.engine \in Nat
    BY InstanceAssumption DEF FilesInv, FilesTyped, DiskShape, Floors
  <1>1. r \notin overtaken'
    <2>1. r \notin overtaken /\ r \notin Starting
      BY DEF FilesInv, ServerOK, Starting
    <2> QED  BY <2>1 DEF Overtaking
  <1>2. CASE disk.engine = 0
    <2>1. /\ Status(disk) \in {"none", "legacy"}
          /\ disk.private = {} /\ disk.legacy # {}
      BY <1>2 DEF FilesInv, OldEngineFinds
    <2>2. ActivePath(disk) = "legacy"  BY <2>1 DEF ActivePath
    <2>3. Imported = [at |-> "serving", path |-> "legacy", code |-> 0]
      BY <1>2, <2>1 DEF Imported
    <2>4. \A db \in disk.legacy : db.floor >= Ledger[0]
      BY DEF FilesInv, OldEnough
    <2> QED  BY <1>1, <2>1, <2>2, <2>3, <2>4 DEF ServerOK, Starting
  <1>3. CASE disk.engine # 0
    <2>1. PICK i : i = Imported  OBVIOUS
    <2>2. \/ i = Down
          \/ i = [at |-> "imported", path |-> RecoveryPath(disk), code |-> disk.engine]
      BY <1>3, <2>1 DEF Imported
    <2>3. served'[r] = i  BY <2>1
    <2> QED  BY <1>0, <1>1, <1>3, <2>2, <2>3 DEF ServerOK, Starting, Down
  <1> QED  BY <1>2, <1>3

LEMMA FilesKept ==
    ASSUME Placed, OldEngineFinds, OldEnough, UNCHANGED disk
    PROVE  Placed' /\ OldEngineFinds' /\ OldEnough'
  BY DEF Placed, OldEngineFinds, OldEnough

\* Where the files turn, a starting server is overtaken; a server that serves
\* sees no database move under it.
LEMMA ServersStay ==
    ASSUME FilesInv, FilesTyped', Overtaking,
           \A r \in Runtimes : served'[r] = served[r] \/ served'[r] = Down,
           Status(disk') = "publishing" => Status(disk) = "publishing" \/ TurnsAway,
           \/ \A r \in Runtimes : served[r].at # "serving"
           \/ /\ Status(disk') = Status(disk) /\ ActivePath(disk') = ActivePath(disk)
              /\ \A n \in Nat :
                   (\A db \in disk[ActivePath(disk)] : db.floor >= n) =>
                      \A db \in disk'[ActivePath(disk)] : db.floor >= n
    PROVE  (\A r \in Runtimes : ServerOK(r))'
  <1> SUFFICES ASSUME NEW r \in Runtimes PROVE ServerOK(r)'
    OBVIOUS
  <1>0. /\ disk.engine \in Nat /\ disk'.engine \in Nat
        /\ served[r].code \in Floors /\ \A f \in Floors : Ledger[f] \in Nat
    <2>1. Floors \subseteq Nat  BY InstanceAssumption DEF Floors
    <2>2. served[r] \in ServerShape  BY DEF FilesInv, FilesTyped
    <2> QED  BY <2>1, <2>2, InstanceAssumption
             DEF FilesInv, FilesTyped, DiskShape, ServerShape, Floors
  <1>1. ServerOK(r)  BY DEF FilesInv
  <1>2. r \in overtaken' => /\ served'[r].at # "down"
                            /\ r \in overtaken \/ r \in Starting
    BY DEF Overtaking
  <1>3. served'[r].at # "down" /\ r \notin overtaken' =>
           /\ r \notin overtaken
           /\ r \in Starting => ~TurnsAway
    BY DEF Overtaking
  <1>4. CASE served'[r] = Down
    BY <1>2, <1>4 DEF ServerOK, Starting, Down
  <1>5. CASE served'[r] = served[r]
    <2>1. r \in Starting' <=> r \in Starting  BY <1>5 DEF Starting
    <2>2. r \in Starting' \cup overtaken' => served'[r].code > 0
      BY <1>1, <1>2, <1>5, <2>1 DEF ServerOK
    <2>3. ASSUME r \in Starting' \ overtaken'
          PROVE  served'[r].code <= disk'.engine /\ served'[r].path = RecoveryPath(disk')
      <3>1. r \in Starting \ overtaken /\ ~TurnsAway
        BY <1>3, <2>1, <2>3 DEF Starting
      <3>2. /\ RecoveryPath(disk') = RecoveryPath(disk) /\ disk'.engine >= disk.engine
            /\ served[r].code <= disk.engine /\ served[r].path = RecoveryPath(disk)
        BY <1>0, <1>1, <3>1 DEF TurnsAway, ServerOK
      <3>3. served[r].code \in Nat  BY <1>0, InstanceAssumption DEF Floors
      <3> QED  BY <1>0, <1>5, <3>2, <3>3
    <2>4. ASSUME served'[r].at = "checked", r \notin overtaken'
          PROVE  Status(disk') # "publishing"
      <3>1. r \in Starting /\ r \notin overtaken /\ ~TurnsAway
        BY <1>3, <1>5, <2>4 DEF Starting
      <3> QED  BY <1>1, <1>5, <2>4, <3>1 DEF ServerOK
    <2>5. ASSUME served'[r].at = "serving", r \notin overtaken'
          PROVE  /\ Status(disk') # "publishing" /\ served'[r].path = ActivePath(disk')
                 /\ \A db \in disk'[served'[r].path] : db.floor >= Ledger[served'[r].code]
      <3>1. r \notin overtaken /\ served[r].at = "serving"
        BY <1>3, <1>5, <2>5
      <3>2. /\ Status(disk) # "publishing" /\ served[r].path = ActivePath(disk)
            /\ \A db \in disk[served[r].path] : db.floor >= Ledger[served[r].code]
        BY <1>1, <3>1 DEF ServerOK
      <3>3. Ledger[served[r].code] \in Nat  BY <1>0
      <3>4. /\ Status(disk') = Status(disk) /\ ActivePath(disk') = ActivePath(disk)
            /\ \A db \in disk'[ActivePath(disk)] : db.floor >= Ledger[served[r].code]
        BY <3>1, <3>2, <3>3
      <3> QED  BY <1>5, <3>2, <3>4
    <2> QED  BY <1>2, <2>2, <2>3, <2>4, <2>5 DEF ServerOK
  <1> QED  BY <1>4, <1>5

LEMMA ServersKept ==
    ASSUME FilesInv, FilesTyped', Overtaking, UNCHANGED disk,
           \A r \in Runtimes : served'[r] = served[r] \/ served'[r] = Down
    PROVE  (\A r \in Runtimes : ServerOK(r))'
  <1>1. Status(disk') = Status(disk) /\ ActivePath(disk') = ActivePath(disk)
    OBVIOUS
  <1> QED  BY <1>1, ServersStay

\* Servers come to serve only while nobody has the lease, or under an engine
\* without private state, which no command on its way is about.
LEMMA AttentionKept ==
    ASSUME FilesInv, UNCHANGED <<disk, flock, cmds>>,
           \/ disk.engine = 0
           \/ /\ flock = {} \/ \A r \in Runtimes :
                   served'[r].at = "serving" => served[r].at = "serving"
              /\ Unasking' \subseteq Unasking
    PROVE  (\A d \in Commanders : CommandOK(d))'
  <1> SUFFICES ASSUME NEW d \in Commanders PROVE CommandOK(d)'
    OBVIOUS
  <1>1. CASE d \in Busy
    <2>1. Underway(cmds[d]) /\ Moving(cmds[d]) /\ Noting(cmds[d])
      BY <1>1 DEF FilesInv, CommandOK
    <2>2. disk.engine = 0 => cmds[d].at \in {"unpin", "consume"} \cup AfterLease
      BY <2>1 DEF Underway
    <2>3. flock = {} => cmds[d].at \notin InLease
      BY <1>1 DEF FilesInv, OneBusy
    <2>4. Underway(cmds[d])'
      <3>1. CASE disk.engine = 0
        BY <2>1, <2>2, <3>1 DEF Underway, AfterLease, InLease
      <3>2. CASE disk.engine # 0
        BY <2>1, <2>3, <3>2 DEF Underway, Live
      <3> QED  BY <3>1, <3>2
    <2>5. Moving(cmds[d])' /\ Noting(cmds[d])'
      BY <2>1 DEF Moving, Noting, Live
    <2> QED  BY <1>1, <2>4, <2>5 DEF CommandOK, Busy
  <1>2. CASE d \notin Busy  BY <1>2 DEF FilesInv, CommandOK, Busy
  <1> QED  BY <1>1, <1>2

\* A row that is written, wherever, moves nothing.
LEMMA RowWritten ==
    ASSUME disk \in DiskShape, NEW r \in Runtimes, served[r] \in ServerShape,
           WriteRow(r)
    PROVE  LET Row(S) == {[db EXCEPT !.rows = disk.rows + 1] : db \in S} IN
           /\ disk'.receipt = disk.receipt /\ disk'.engine = disk.engine
           /\ disk'.prev = disk.prev /\ disk'.intent = disk.intent
           /\ disk'.candidate = disk.candidate /\ disk'.points = disk.points
           /\ disk'.rows = disk.rows + 1
           /\ \/ /\ served[r].path = "legacy"
                 /\ disk'.legacy = Row(disk.legacy) /\ disk'.private = disk.private
              \/ /\ served[r].path = "private"
                 /\ disk'.legacy = disk.legacy /\ disk'.private = Row(disk.private)
           /\ disk'.legacy = {} <=> disk.legacy = {}
           /\ disk'.private = {} <=> disk.private = {}
           /\ Status(disk') = Status(disk) /\ Selectable(disk') = Selectable(disk)
           /\ ActivePath(disk') = ActivePath(disk)
           /\ RecoveryPath(disk') = RecoveryPath(disk)
  <1> DEFINE Row(S) == {[db EXCEPT !.rows = disk.rows + 1] : db \in S}
  <1>1. /\ disk'.receipt = disk.receipt /\ disk'.engine = disk.engine
        /\ disk'.prev = disk.prev /\ disk'.intent = disk.intent
        /\ disk'.candidate = disk.candidate /\ disk'.points = disk.points
        /\ disk'.rows = disk.rows + 1
        /\ \/ /\ served[r].path = "legacy"
              /\ disk'.legacy = Row(disk.legacy) /\ disk'.private = disk.private
           \/ /\ served[r].path = "private"
              /\ disk'.legacy = disk.legacy /\ disk'.private = Row(disk.private)
    <2>1. CASE served[r].path = "legacy"
      <3>1. disk' = [disk EXCEPT !.rows = @ + 1, !.legacy = Row(disk.legacy)]
        BY <2>1 DEF WriteRow, DiskShape
      <3> QED  BY <2>1, <3>1 DEF DiskShape
    <2>2. CASE served[r].path = "private"
      <3>1. disk' = [disk EXCEPT !.rows = @ + 1, !.private = Row(disk.private)]
        BY <2>2 DEF WriteRow, DiskShape
      <3> QED  BY <2>2, <3>1 DEF DiskShape
    <2> QED  BY <2>1, <2>2 DEF ServerShape, Places
  <1>2. (disk'.legacy = {} <=> disk.legacy = {})
        /\ (disk'.private = {} <=> disk.private = {})
    BY <1>1
  <1>3. Status(disk') = Status(disk)  BY <1>1 DEF Status
  <1>4. /\ Selectable(disk') = Selectable(disk) /\ ActivePath(disk') = ActivePath(disk)
        /\ RecoveryPath(disk') = RecoveryPath(disk)
    BY <1>2, <1>3 DEF Selectable, Unclear, ActivePath, RecoveryPath
  <1> HIDE DEF Row
  <1> QED  BY <1>1, <1>2, <1>3, <1>4 DEF Row

LEMMA WriteKeeps ==
    ASSUME FilesInv, Overtaking, NEW r \in Runtimes, WriteRow(r), FilesTyped'
    PROVE  FilesInv'
  <1> DEFINE Row(S) == {[db EXCEPT !.rows = disk.rows + 1] : db \in S}
  <1>a. /\ disk \in DiskShape /\ served \in [Runtimes -> ServerShape]
        /\ outing \in OutingShape
    BY DEF FilesInv, FilesTyped
  <1>1. UNCHANGED <<served, flock, cmds>> /\ served[r].at = "serving"
    BY DEF WriteRow
  <1>2. /\ disk'.receipt = disk.receipt /\ disk'.engine = disk.engine
        /\ disk'.prev = disk.prev /\ disk'.intent = disk.intent
        /\ disk'.candidate = disk.candidate /\ disk'.points = disk.points
        /\ disk'.legacy \in {disk.legacy, Row(disk.legacy)}
        /\ disk'.private \in {disk.private, Row(disk.private)}
        /\ disk'.legacy = {} <=> disk.legacy = {}
        /\ disk'.private = {} <=> disk.private = {}
        /\ Status(disk') = Status(disk) /\ Selectable(disk') = Selectable(disk)
        /\ ActivePath(disk') = ActivePath(disk)
        /\ RecoveryPath(disk') = RecoveryPath(disk)
    <2>1. served[r] \in ServerShape  BY <1>a
    <2> QED  BY <1>a, <2>1, RowWritten
  <1>3. \A S \in {disk.legacy, disk.private} : \A n \in Nat :
           (\A db \in S : db.floor >= n) => \A db \in Row(S) : db.floor >= n
    BY <1>a DEF DiskShape, AtMostOne, Database
  <1>4. ActivePath(disk) \in {"legacy", "private"}  BY DEF ActivePath
  <1> HIDE DEF Row
  <1>5. Placed'  BY <1>2 DEF Placed, FilesInv
  <1>6. OldEngineFinds'  BY <1>2 DEF OldEngineFinds, FilesInv
  <1>7. OldEnough'
    <2>1. Ledger[0] \in Nat  BY InstanceAssumption
    <2>2. \A db \in disk'.legacy : db.floor >= Ledger[0]
      BY <1>2, <1>3, <2>1 DEF OldEnough, FilesInv
    <2>3. \A db \in disk'.private : db.floor >= Ledger[0]
      BY <1>2, <1>3, <2>1 DEF OldEnough, FilesInv
    <2> QED  BY <1>2, <2>2, <2>3 DEF OldEnough, FilesInv
  <1>8. (\A q \in Runtimes : ServerOK(q))'
    <2>1. ASSUME NEW n \in Nat, \A db \in disk[ActivePath(disk)] : db.floor >= n
          PROVE  \A db \in disk'[ActivePath(disk)] : db.floor >= n
      <3>1. CASE ActivePath(disk) = "legacy"  BY <1>2, <1>3, <2>1, <3>1
      <3>2. CASE ActivePath(disk) = "private"  BY <1>2, <1>3, <2>1, <3>2
      <3> QED  BY <1>4, <3>1, <3>2
    <2> QED  BY <1>1, <1>2, <2>1, ServersStay
  <1>9. ASSUME NEW d \in Commanders PROVE CommandOK(d)'
    <2>1. CASE d \in Busy
      <3>1. /\ CommandOK(d) /\ Underway(cmds[d])
            /\ cmds[d].at \notin InLease \ {"unpin", "consume"}
        BY <1>1, <2>1 DEF FilesInv, CommandOK, Underway
      <3>2. Underway(cmds[d])'
        BY <1>1, <1>2, <3>1 DEF Underway, Unasking, Live
      <3>3. Moving(cmds[d])'  BY <1>1, <3>1 DEF Moving, InLease
      <3>4. Noting(cmds[d])'  BY <1>1, <1>2, <2>1, <3>1 DEF CommandOK, Noting
      <3> QED  BY <1>1, <2>1, <3>2, <3>3, <3>4 DEF CommandOK, Busy
    <2>2. CASE d \notin Busy  BY <1>1, <2>2 DEF FilesInv, CommandOK, Busy
    <2> QED  BY <2>1, <2>2
  <1>10. OneBusy'
    <2>1. outing' = [outing EXCEPT !.writes = @ - 1]  BY DEF WriteRow, SpendOn
    <2> QED  BY <1>a, <1>1, <2>1 DEF FilesInv, OneBusy, OnePerson, Busy, OutingShape
  <1> QED  BY <1>5, <1>6, <1>7, <1>8, <1>9, <1>10 DEF FilesInv

LEMMA ServeKeeps ==
    ASSUME FilesInv, Overtaking, Serve PROVE FilesInv'
  <1>0. FilesTyped'  BY ServeTypes DEF FilesInv
  <1>a. /\ served \in [Runtimes -> ServerShape] /\ disk \in DiskShape
        /\ outing \in OutingShape
    BY DEF FilesInv, FilesTyped
  <1>b. ASSUME UNCHANGED disk PROVE ~TurnsAway
    <2>1. disk.engine \in Nat  BY <1>a, InstanceAssumption DEF DiskShape, Floors
    <2> QED  BY <1>b, <2>1 DEF TurnsAway
  <1>c. ASSUME NEW r \in Runtimes, UNCHANGED <<disk, flock, cmds>>,
               outing'.crew = outing.crew,
               \A q \in Runtimes : q # r => served'[q] = served[q],
               ServerOK(r)', (\A d \in Commanders : CommandOK(d))'
        PROVE  FilesInv'
    <2>1. ASSUME NEW q \in Runtimes, q # r PROVE ServerOK(q)'
      <3>1. ServerOK(q) /\ served'[q] = served[q] /\ ~TurnsAway
        BY <1>b, <1>c, <2>1 DEF FilesInv
      <3>2. q \in overtaken' <=> q \in overtaken
        BY <3>1 DEF Overtaking, ServerOK
      <3>3. q \in Starting' <=> q \in Starting  BY <3>1 DEF Starting
      <3> QED  BY <1>c, <3>1, <3>2, <3>3 DEF ServerOK
    <2>2. OneBusy'  BY <1>c DEF FilesInv, OneBusy, OnePerson, Busy
    <2> QED  BY <1>0, <1>c, <2>1, <2>2, FilesKept DEF FilesInv
  <1>d. ASSUME NEW r \in Runtimes, UNCHANGED disk, r \in Starting,
               served'[r].at # "down"
        PROVE  r \in overtaken' <=> r \in overtaken
    BY <1>b, <1>d DEF Overtaking
  <1>1. ASSUME NEW r \in Runtimes, LaunchServer(r) PROVE FilesInv'
    <2>1. outing' = [outing EXCEPT !.launches = @ - 1]
      BY <1>1 DEF LaunchServer, SpendOn
    <2>2. outing'.crew = outing.crew  BY <1>a, <2>1 DEF OutingShape
    <2>3. /\ UNCHANGED <<disk, flock, cmds>> /\ served[r].at = "down"
          /\ served'[r] = Imported /\ \A q \in Runtimes : q # r => served'[q] = served[q]
      BY <1>1, <1>a DEF LaunchServer
    <2>4. ServerOK(r)'  BY <2>3, ImportedOK
    <2>5. (\A d \in Commanders : CommandOK(d))'
      <3>1. disk.engine # 0 => served'[r].at # "serving"
        BY <2>3 DEF Imported, Down
      <3>2. disk.engine # 0 =>
               /\ \A q \in Runtimes : served'[q].at = "serving" => served'[q] = served[q]
               /\ Unasking' \subseteq Unasking
        BY <2>3, <3>1 DEF Unasking
      <3> QED  BY <2>3, <3>2, AttentionKept
    <2> QED  BY <1>c, <2>2, <2>3, <2>4, <2>5
  <1>2. ASSUME NEW r \in Runtimes, CheckServer(r) PROVE FilesInv'
    <2>1. /\ UNCHANGED <<disk, flock, cmds, outing>> /\ r \in Starting /\ ServerOK(r)
          /\ \A q \in Runtimes : q # r => served'[q] = served[q]
      BY <1>2, <1>a DEF CheckServer, Starting, FilesInv
    <2>2. \/ /\ served'[r] = Down
          \/ /\ Selectable(disk) /\ served'[r].at = "checked"
             /\ served'[r].path = served[r].path /\ served'[r].code = served[r].code
      <3>1. served[r] \in ServerShape  BY <1>a
      <3>2. served'[r] = IF Selectable(disk) THEN [served[r] EXCEPT !.at = "checked"]
                                             ELSE Down
        BY <1>2, <1>a DEF CheckServer
      <3> QED  BY <3>1, <3>2 DEF ServerShape
    <2>3. ServerOK(r)'
      <3>1. CASE served'[r] = Down
        BY <3>1 DEF ServerOK, Starting, Down, Overtaking
      <3>2. CASE served'[r] # Down
        <4>1. /\ Selectable(disk) /\ served'[r].at = "checked"
              /\ served'[r].path = served[r].path /\ served'[r].code = served[r].code
          BY <2>2, <3>2
        <4>2. r \in overtaken' <=> r \in overtaken  BY <1>d, <2>1, <4>1
        <4> QED  BY <2>1, <4>1, <4>2 DEF ServerOK, Starting, Selectable
      <3> QED  BY <3>1, <3>2
    <2>4. (\A d \in Commanders : CommandOK(d))'
      <3>1. \A q \in Runtimes : served'[q].at = "serving" => served'[q] = served[q]
        BY <2>1, <2>2 DEF Down
      <3>2. Unasking' \subseteq Unasking  BY <3>1 DEF Unasking
      <3> QED  BY <2>1, <3>1, <3>2, AttentionKept
    <2> QED  BY <1>c, <2>1, <2>3, <2>4
  <1>3. ASSUME NEW r \in Runtimes, OwnServer(r) PROVE FilesInv'
    <2>1. /\ UNCHANGED <<disk, flock, cmds, outing>> /\ r \in Starting /\ ServerOK(r)
          /\ \A q \in Runtimes : q # r => served'[q] = served[q]
          /\ served[r].at = "checked"
      BY <1>3, <1>a DEF OwnServer, Starting, FilesInv
    <2>2. \/ served'[r] = Down
          \/ /\ Admitted(served[r]) /\ served'[r].at = "serving"
             /\ served'[r].path = served[r].path /\ served'[r].code = served[r].code
      <3>1. served[r] \in ServerShape  BY <1>a
      <3>2. served'[r] = IF Admitted(served[r]) THEN [served[r] EXCEPT !.at = "serving"]
                                                ELSE Down
        BY <1>3, <1>a DEF OwnServer
      <3> QED  BY <3>1, <3>2 DEF ServerShape
    <2>3. ServerOK(r)'
      <3>1. CASE served'[r] = Down
        BY <3>1 DEF ServerOK, Starting, Down, Overtaking
      <3>2. CASE served'[r] # Down
        <4>1. /\ Admitted(served[r]) /\ served'[r].at = "serving"
              /\ served'[r].path = served[r].path /\ served'[r].code = served[r].code
          BY <2>2, <3>2
        <4>2. r \in overtaken' <=> r \in overtaken  BY <1>d, <2>1, <4>1
        <4>3. r \notin Starting'  BY <4>1 DEF Starting
        <4>4. ASSUME r \notin overtaken
              PROVE  /\ Status(disk) # "publishing" /\ served[r].path = ActivePath(disk)
                     /\ \A db \in disk[served[r].path] : db.floor >= Ledger[served[r].code]
          <5>1. /\ Status(disk) # "publishing" /\ served[r].path = ActivePath(disk)
                /\ served[r].code <= disk.engine
            BY <2>1, <4>4 DEF ServerOK, RecoveryPath
          <5>2. disk[served[r].path] \in AtMostOne(Database)
            <6>1. served[r].path \in {"legacy", "private"}
              BY <1>a DEF ServerShape, Places
            <6> QED  BY <1>a, <6>1 DEF DiskShape
          <5>3. \A db \in disk[served[r].path] : db.floor >= Ledger[disk.engine]
            BY <4>1, <5>2 DEF Admitted, AtMostOne
          <5>4. /\ served[r].code \in Floors /\ disk.engine \in Floors
            BY <1>a DEF ServerShape, DiskShape
          <5>5. /\ Ledger[served[r].code] <= Ledger[disk.engine]
                /\ Ledger[served[r].code] \in Nat /\ Ledger[disk.engine] \in Nat
            BY <5>1, <5>4, InstanceAssumption DEF Floors
          <5>6. \A db \in disk[served[r].path] : db.floor \in Nat
            BY <5>2 DEF AtMostOne, Database
          <5> QED  BY <5>1, <5>3, <5>5, <5>6
        <4> QED  BY <2>1, <4>1, <4>2, <4>3, <4>4 DEF ServerOK
      <3> QED  BY <3>1, <3>2
    <2>4. (\A d \in Commanders : CommandOK(d))'
      <3>1. served'[r].at = "serving" => flock = {}
        BY <2>2 DEF Admitted, Down
      <3>2. served'[r].at = "serving" => served'[r].code > 0
        BY <2>1, <2>2 DEF ServerOK, Down
      <3>3. Unasking' \subseteq Unasking
        <4>1. ASSUME NEW q \in Unasking' PROVE q \in Unasking
          <5>1. q \in Runtimes /\ served'[q].at = "serving" /\ served'[q].code = 0
            BY <4>1 DEF Unasking
          <5>2. q # r  BY <3>2, <5>1
          <5> QED  BY <2>1, <5>1, <5>2 DEF Unasking
        <4> QED  BY <4>1
      <3> QED  BY <2>1, <3>1, <3>3, AttentionKept
    <2> QED  BY <1>c, <2>1, <2>3, <2>4
  <1>4. ASSUME NEW r \in Runtimes, WriteRow(r) PROVE FilesInv'
    BY <1>0, <1>4, WriteKeeps DEF FilesInv
  <1>5. ASSUME NEW r \in Runtimes, ServerEnds(r) PROVE FilesInv'
    <2>1. /\ UNCHANGED <<disk, flock, cmds, outing>> /\ served'[r] = Down
          /\ \A q \in Runtimes : q # r => served'[q] = served[q]
      BY <1>5, <1>a DEF ServerEnds
    <2>2. ServerOK(r)'  BY <2>1 DEF ServerOK, Starting, Down, Overtaking
    <2>3. \A q \in Runtimes : served'[q].at = "serving" => served'[q] = served[q]
      BY <2>1 DEF Down
    <2>4. Unasking' \subseteq Unasking  BY <2>3 DEF Unasking
    <2>5. (\A d \in Commanders : CommandOK(d))'
      BY <2>1, <2>3, <2>4, AttentionKept
    <2> QED  BY <1>c, <2>1, <2>2, <2>5
  <1> QED  BY <1>1, <1>2, <1>3, <1>4, <1>5 DEF Serve

-----------------------------------------------------------------------------
(* Commands that leave the files alone. *)

LEMMA OnlyOne ==
    ASSUME FilesInv, NEW c \in Commanders, c \in Busy
    PROVE  /\ Busy = {c} /\ flock = IF cmds[c].at \in InLease THEN {c} ELSE {}
           /\ CommandOK(c) /\ Underway(cmds[c]) /\ Moving(cmds[c]) /\ Noting(cmds[c])
           /\ cmds[c] \in CommandShape
  <1>1. Busy = {c}  BY DEF FilesInv, OneBusy, OnePerson
  <1> QED  BY <1>1 DEF FilesInv, OneBusy, OnePerson, CommandOK, FilesTyped

LEMMA LeaveOK ==
    ASSUME FilesInv, NEW c \in Commanders, c \in Busy, Leave(c),
           outing'.crew = outing.crew
    PROVE  (\A d \in Commanders : CommandOK(d))' /\ OneBusy'
  <1>0. cmds \in [Commanders -> CommandShape]  BY DEF FilesInv, FilesTyped
  <1>1. cmds'[c] = NoCommand /\ \A d \in Commanders : d # c => cmds'[d] = cmds[d]
    BY <1>0 DEF Leave
  <1>2. CommandOK(c)'  BY <1>1, IdleIsNoCommand DEF CommandOK, Busy
  <1>3. flock' = {}  BY OnlyOne DEF Leave
  <1>4. cmds'[c].at \notin InLease  BY <1>1, IdleIsNoCommand DEF InLease
  <1> QED  BY <1>1, <1>2, <1>3, <1>4, OneStep

\* A command goes on as k.
LEMMA StaysBusy ==
    ASSUME FilesInv, NEW c \in Commanders, c \in Busy,
           NEW k, cmds' = [cmds EXCEPT ![c] = k], k.at # "idle",
           outing'.crew = outing.crew,
           flock' = IF k.at \in InLease THEN {c} ELSE {},
           Underway(k)', Moving(k)', Noting(k)'
    PROVE  (\A d \in Commanders : CommandOK(d))' /\ OneBusy'
  <1>0. cmds \in [Commanders -> CommandShape]  BY DEF FilesInv, FilesTyped
  <1>1. cmds'[c] = k /\ \A d \in Commanders : d # c => cmds'[d] = cmds[d]
    BY <1>0
  <1>2. CommandOK(c)'  BY <1>1 DEF CommandOK, Busy
  <1> QED  BY <1>1, <1>2, OneStep

LEMMA GoesTo ==
    ASSUME FilesInv, NEW c \in Commanders, NEW place, Goto(c, place)
    PROVE  \E k : /\ k.at = place /\ k.path = cmds[c].path /\ k.verb = cmds[c].verb
                  /\ k.held = cmds[c].held /\ k.want = cmds[c].want
                  /\ cmds' = [cmds EXCEPT ![c] = k]
  <1>1. cmds[c] \in CommandShape  BY DEF FilesInv, FilesTyped
  <1>2. PICK k : k = [cmds[c] EXCEPT !.at = place]  OBVIOUS
  <1>3. /\ k.at = place /\ k.path = cmds[c].path /\ k.verb = cmds[c].verb
        /\ k.held = cmds[c].held /\ k.want = cmds[c].want
    BY <1>1, <1>2 DEF CommandShape
  <1>4. cmds' = [cmds EXCEPT ![c] = k]  BY <1>2 DEF Goto
  <1> QED  BY <1>3, <1>4

LEMMA QuietStep ==
    ASSUME FilesInv, Overtaking, UNCHANGED <<disk, served>>, FilesTyped',
           (\A d \in Commanders : CommandOK(d))' /\ OneBusy'
    PROVE  FilesInv'
  <1>1. (\A r \in Runtimes : ServerOK(r))'  BY ServersKept
  <1> QED  BY <1>1, FilesKept DEF FilesInv

LEMMA BeginKeeps ==
    ASSUME FilesInv, Overtaking, NEW c \in Commanders, Begin(c) PROVE FilesInv'
  <1> DEFINE chore == Head(outing.chores)
  <1>a. cmds \in [Commanders -> CommandShape] /\ outing \in OutingShape
    BY DEF FilesInv, FilesTyped
  <1>0. FilesTyped'  BY OtherTypes DEF FilesInv
  <1>1. c \in outing.crew /\ disk.engine > 0
    BY DEF Begin
  <1>2. Busy = {}  BY <1>1 DEF FilesInv, OneBusy, OnePerson, Busy, Begin
  <1>3. flock = {}  BY <1>2 DEF FilesInv, OneBusy, OnePerson
  <1>4. outing'.crew = outing.crew
    BY <1>a DEF Begin, OutingShape
  <1>5. UNCHANGED <<disk, served, flock>>  BY DEF Begin
  <1>6. ASSUME NEW k, cmds' = [cmds EXCEPT ![c] = k],
               k.at \in {"record", "recall", "claim"},
               Underway(k)', Noting(k)'
        PROVE  FilesInv'
    <2>1. cmds'[c] = k /\ \A d \in Commanders : d # c => cmds'[d] = cmds[d]
      BY <1>a, <1>6
    <2>2. Moving(k)'  BY <1>6 DEF Moving
    <2>3. CommandOK(c)'  BY <1>6, <2>1, <2>2 DEF CommandOK, Busy
    <2>4. (\A d \in Commanders : CommandOK(d))' /\ OneBusy'
      BY <1>1, <1>2, <1>3, <1>4, <1>5, <1>6, <2>1, <2>3, OneStep DEF InLease
    <2> QED  BY <1>0, <1>5, <2>4, QuietStep
  <1>7. CASE chore.verb = "update"
    <2>0. PICK k : k = [NoCommand EXCEPT !.verb = "update", !.want = chore.want,
                         !.at = IF chore.want = {} THEN "recall" ELSE "record"]  OBVIOUS
    <2>1. cmds' = [cmds EXCEPT ![c] = k]  BY <2>0, <1>7 DEF Begin
    <2>2. /\ k.at = IF chore.want = {} THEN "recall" ELSE "record"
          /\ k.verb = "update" /\ k.want = chore.want /\ k.held = {}
          /\ k.path = "private"
      BY <2>0 DEF NoCommand
    <2> HIDE DEF chore
    <2>3. Underway(k)'
      BY <1>1, <1>5, <2>2 DEF Underway, InLease
    <2>4. Noting(k)'  BY <2>2 DEF Noting
    <2> QED  BY <1>6, <2>1, <2>2, <2>3, <2>4
  <1>8. CASE chore.verb # "update" /\ Selectable(disk)
    <2>0. PICK k : k = [NoCommand EXCEPT !.verb = chore.verb, !.at = "claim",
                                        !.path = ActivePath(disk)]  OBVIOUS
    <2>1. cmds' = [cmds EXCEPT ![c] = k]  BY <2>0, <1>8 DEF Begin
    <2>2. /\ k.at = "claim" /\ k.verb = chore.verb /\ k.held = {}
          /\ k.path = ActivePath(disk)
      BY <2>0 DEF NoCommand
    <2>3. chore.verb # "update"  BY <2>0, <1>8
    <2> HIDE DEF chore
    <2>4. Underway(k)'
      BY <1>1, <1>5, <1>8, <2>2 DEF Underway, AfterLease, InLease, Live
    <2>5. Noting(k)'  BY <2>2, <2>3 DEF Noting, AfterLease
    <2> QED  BY <1>6, <2>1, <2>2, <2>4, <2>5
  <1>9. CASE chore.verb # "update" /\ ~Selectable(disk)
    <2>1. UNCHANGED cmds  BY <1>9 DEF Begin
    <2>2. (\A d \in Commanders : CommandOK(d))'
      BY <1>2, <2>1 DEF FilesInv, CommandOK, Busy
    <2>3. OneBusy'  BY <1>2, <1>4, <1>5, <2>1 DEF FilesInv, OneBusy, OnePerson, Busy
    <2> QED  BY <1>0, <1>5, <2>2, <2>3, QuietStep
  <1> QED  BY <1>7, <1>8, <1>9

LEMMA DiesKeeps ==
    ASSUME FilesInv, Overtaking, NEW c \in Commanders, Dies(c) PROVE FilesInv'
  <1>0. FilesTyped'  BY OtherTypes DEF FilesInv
  <1>1. outing' = [outing EXCEPT !.deaths = @ - 1] /\ Leave(c) /\ c \in Busy
    BY DEF Dies, SpendOn, Busy
  <1>2. outing'.crew = outing.crew
    BY <1>1 DEF FilesInv, FilesTyped, OutingShape
  <1> QED  BY <1>0, <1>1, <1>2, LeaveOK, QuietStep DEF Dies

LEMMA StoppingKeeps ==
    ASSUME FilesInv, Overtaking, NEW c \in Commanders, LoadIntent(c) \/ StopNext(c) \/ Enter(c)
    PROVE  FilesInv'
  <1>0. FilesTyped'  BY UpdatingTypes, FilesFit DEF FilesInv, Updating
  <1>1. c \in Busy /\ cmds[c].at \in {"recall", "stop"}
    BY DEF LoadIntent, StopNext, Enter, Busy
  <1>2. /\ Underway(cmds[c]) /\ Noting(cmds[c]) /\ cmds[c] \in CommandShape
        /\ flock = {}
    BY <1>1, OnlyOne DEF InLease
  <1>3. disk.engine > 0  BY <1>1, <1>2 DEF Underway, AfterLease
  <1>4. UNCHANGED <<disk, outing>>  BY DEF LoadIntent, StopNext, Enter
  <1>a. served \in [Runtimes -> ServerShape]  BY DEF FilesInv, FilesTyped
  <1>5. CASE LoadIntent(c)
    <2>0. PICK k : k = [cmds[c] EXCEPT !.at = "stop", !.todo = Runtimes,
                                      !.held = disk.intent]  OBVIOUS
    <2>1. cmds' = [cmds EXCEPT ![c] = k]  BY <2>0, <1>5 DEF LoadIntent
    <2>2. /\ k.at = "stop" /\ k.todo = Runtimes /\ k.held = disk.intent
          /\ k.verb = "update" /\ k.path = "private"
      BY <2>0, <1>2, <1>5 DEF LoadIntent, CommandShape, Noting
    <2>3. UNCHANGED <<served, flock>>  BY <1>5 DEF LoadIntent
    <2>4. Underway(k)'
      BY <1>3, <1>4, <2>2, <2>3 DEF Underway, InLease, Unasking
    <2>5. Moving(k)'  BY <2>2 DEF Moving
    <2>6. Noting(k)'  BY <1>4, <2>2 DEF Noting
    <2>7. (\A d \in Commanders : CommandOK(d))' /\ OneBusy'
      BY <1>1, <1>2, <1>4, <2>1, <2>2, <2>3, <2>4, <2>5, <2>6, StaysBusy DEF InLease
    <2> QED  BY <1>0, <1>4, <2>3, <2>7, QuietStep
  <1>6. CASE StopNext(c)
    <2> DEFINE r == First(StopOrder, cmds[c].todo)
    <2>1. CASE r \notin Running
      <3>0. PICK k : k = [cmds[c] EXCEPT !.todo = @ \ {r}]  OBVIOUS
      <3>1. cmds' = [cmds EXCEPT ![c] = k]  BY <3>0, <1>6, <2>1 DEF StopNext
      <3>2. /\ k.at = "stop" /\ k.todo = cmds[c].todo \ {r} /\ k.held = cmds[c].held
            /\ k.verb = cmds[c].verb /\ k.path = cmds[c].path
        BY <3>0, <1>2, <1>6 DEF StopNext, CommandShape
      <3>3. UNCHANGED <<served, flock>>  BY <3>0, <1>6, <2>1 DEF StopNext
      <3>4. cmds[c].at = "stop"  BY <3>0, <1>6 DEF StopNext
      <3> HIDE DEF r
      <3>5. Underway(k)'
        BY <1>2, <1>3, <1>4, <2>1, <3>2, <3>3, <3>4
           DEF Underway, InLease, Unasking, Running
      <3>6. Moving(k)'  BY <3>2 DEF Moving
      <3>7. Noting(k)'  BY <1>2, <1>4, <3>2, <3>4 DEF Noting
      <3>8. (\A d \in Commanders : CommandOK(d))' /\ OneBusy'
        BY <1>1, <1>2, <1>4, <3>1, <3>2, <3>3, <3>5, <3>6, <3>7, StaysBusy DEF InLease
      <3> QED  BY <1>0, <1>4, <3>3, <3>8, QuietStep
    <2>2. CASE r \in Running
      <3>0. PICK k : k = [cmds[c] EXCEPT !.at = "note", !.held = @ \cup {r},
                                        !.todo = @ \ {r}]  OBVIOUS
      <3>1. cmds' = [cmds EXCEPT ![c] = k]  BY <3>0, <1>6, <2>2 DEF StopNext
      <3>2. /\ k.at = "note" /\ k.todo = cmds[c].todo \ {r}
            /\ k.held = cmds[c].held \cup {r}
            /\ k.verb = cmds[c].verb /\ k.path = cmds[c].path
        BY <3>0, <1>2, <1>6 DEF StopNext, CommandShape
      <3>3. served' = [served EXCEPT ![r] = Down] /\ UNCHANGED flock
        BY <3>0, <1>6, <2>2 DEF StopNext
      <3>4. cmds[c].at = "stop"  BY <3>0, <1>6 DEF StopNext
      <3> HIDE DEF r
      <3>5. Unasking' = Unasking \ {r}
        BY <1>a, <3>3 DEF Unasking, Down
      <3>6. Underway(k)'
        BY <1>2, <1>3, <1>4, <3>2, <3>4, <3>5 DEF Underway, InLease
      <3>7. Moving(k)'  BY <3>2 DEF Moving
      <3>8. Noting(k)'  BY <1>2, <1>4, <3>2, <3>4 DEF Noting
      <3>9. (\A d \in Commanders : CommandOK(d))' /\ OneBusy'
        BY <1>1, <1>2, <1>4, <3>1, <3>2, <3>3, <3>6, <3>7, <3>8, StaysBusy DEF InLease
      <3>10. (\A q \in Runtimes : ServerOK(q))'
        BY <1>0, <1>a, <1>4, <3>3, ServersKept
      <3> QED  BY <1>0, <1>4, <3>9, <3>10, FilesKept DEF FilesInv
    <2> QED  BY <2>1, <2>2
  <1>7. CASE Enter(c) /\ LeaseFree
    <2>0. PICK k : k = [cmds[c] EXCEPT !.at = "relocate", !.adopted = disk.legacy # {}]  OBVIOUS
    <2>1. cmds' = [cmds EXCEPT ![c] = k]  BY <2>0, <1>7 DEF Enter
    <2>2. /\ k.at = "relocate" /\ k.held = cmds[c].held
          /\ k.verb = cmds[c].verb /\ k.path = cmds[c].path
      BY <2>0, <1>2 DEF CommandShape
    <2>3. flock' = {c} /\ UNCHANGED served /\ cmds[c].at = "stop" /\ cmds[c].todo = {}
      BY <2>0, <1>7 DEF Enter
    <2>4. \A r \in Runtimes : served[r].at # "serving"
      <3>1. Unasking = {} /\ Sharers = {}
        BY <1>2, <1>7, <2>3 DEF Underway, LeaseFree
      <3>2. ASSUME NEW r \in Runtimes PROVE served[r].code \in Nat
        BY <1>a, InstanceAssumption DEF ServerShape, Floors
      <3> QED  BY <3>1, <3>2 DEF Unasking, Sharers
    <2>5. Underway(k)'
      BY <1>3, <1>4, <2>2, <2>3, <2>4 DEF Underway
    <2>6. Moving(k)'  BY <2>2 DEF Moving
    <2>7. Noting(k)'  BY <1>2, <1>4, <2>2, <2>3 DEF Noting
    <2>8. (\A d \in Commanders : CommandOK(d))' /\ OneBusy'
      BY <1>1, <1>4, <2>1, <2>2, <2>3, <2>5, <2>6, <2>7, StaysBusy DEF InLease
    <2> QED  BY <1>0, <1>4, <2>3, <2>8, QuietStep
  <1>8. CASE Enter(c) /\ ~LeaseFree
    BY <1>0, <1>1, <1>4, <1>8, LeaveOK, QuietStep DEF Enter
  <1> QED  BY <1>5, <1>6, <1>7, <1>8

LEMMA StartingKeeps ==
    ASSUME FilesInv, Overtaking, NEW c \in Commanders,
           Release(c) \/ StartNext(c) \/ StartFails(c) \/ RequireHealth(c) \/ Undo(c)
    PROVE  FilesInv'
  <1>0. FilesTyped'  BY UpdatingTypes, FilesFit DEF FilesInv, Updating
  <1>1. c \in Busy /\ cmds[c].at \in {"release", "start", "undo"}
    BY DEF Release, StartNext, StartFails, RequireHealth, Undo, Busy
  <1>2. /\ Noting(cmds[c]) /\ cmds[c] \in CommandShape
        /\ flock = IF cmds[c].at = "release" THEN {c} ELSE {}
    BY <1>1, OnlyOne DEF InLease
  <1>a. served \in [Runtimes -> ServerShape] /\ outing \in OutingShape
    BY DEF FilesInv, FilesTyped
  <1>b. disk \in DiskShape  BY DEF FilesInv, FilesTyped
  <1>3. UNCHANGED disk /\ outing'.crew = outing.crew
    <2>1. CASE StartFails(c)
      <3>1. outing' = [outing EXCEPT !.deaths = @ - 1]
        BY <2>1 DEF StartFails, SpendOn
      <3> QED  BY <1>a, <2>1, <3>1 DEF StartFails, OutingShape
    <2>2. CASE ~StartFails(c)
      BY <2>2 DEF Release, StartNext, RequireHealth, Undo
    <2> QED  BY <2>1, <2>2
  <1>4. ASSUME NEW k, cmds' = [cmds EXCEPT ![c] = k], k.at \in AfterLease,
               k.verb = cmds[c].verb, k.path = cmds[c].path,
               k.held = cmds[c].held, flock' = {}
        PROVE  (\A d \in Commanders : CommandOK(d))' /\ OneBusy'
    <2>1. Underway(k)'  BY <1>4 DEF Underway, InLease, AfterLease
    <2>2. Moving(k)'  BY <1>4 DEF Moving, AfterLease
    <2>3. Noting(k)'  BY <1>1, <1>2, <1>3, <1>4 DEF Noting, AfterLease
    <2>4. k.at # "idle" /\ k.at \notin InLease  BY <1>4 DEF AfterLease, InLease
    <2> QED  BY <1>1, <1>3, <1>4, <2>1, <2>2, <2>3, <2>4, StaysBusy
  <1>5. CASE Release(c)
    <2>1. PICK k : k = [cmds[c] EXCEPT !.at = "start", !.todo = cmds[c].held]
      OBVIOUS
    <2>2. /\ k.at \in AfterLease /\ k.verb = cmds[c].verb /\ k.path = cmds[c].path
          /\ k.held = cmds[c].held
      BY <1>2, <2>1 DEF CommandShape, AfterLease
    <2>3. cmds' = [cmds EXCEPT ![c] = k] /\ flock' = {} /\ UNCHANGED served
      BY <1>2, <1>5, <2>1 DEF Release
    <2> QED  BY <1>0, <1>3, <1>4, <2>2, <2>3, QuietStep
  <1>6. CASE StartNext(c)
    <2> DEFINE r == First(StartOrder, cmds[c].todo)
    <2>1. PICK k : k = [cmds[c] EXCEPT !.todo = @ \ {r}, !.tried = @ \cup {r}]
      OBVIOUS
    <2>2. /\ k.at \in AfterLease /\ k.verb = cmds[c].verb /\ k.path = cmds[c].path
          /\ k.held = cmds[c].held
      BY <1>2, <1>6, <2>1 DEF CommandShape, AfterLease, StartNext
    <2>3. /\ cmds' = [cmds EXCEPT ![c] = k] /\ flock' = {}
          /\ served' = [served EXCEPT ![r] = IF @.at = "down" THEN Imported ELSE @]
      BY <1>2, <1>6, <2>1 DEF StartNext
    <2>4. (\A d \in Commanders : CommandOK(d))' /\ OneBusy'
      BY <1>4, <2>2, <2>3
    <2> HIDE DEF r
    <2>5. ASSUME NEW q \in Runtimes PROVE ServerOK(q)'
      <3>1. CASE served'[q] = served[q]
        <4>1. ~TurnsAway
          <5>1. disk.engine \in Nat
            BY <1>b, InstanceAssumption DEF DiskShape, Floors
          <5> QED  BY <1>3, <5>1 DEF TurnsAway
        <4>2. ServerOK(q)  BY DEF FilesInv
        <4>3. q \in overtaken' <=> q \in overtaken
          BY <3>1, <4>1, <4>2 DEF Overtaking, ServerOK
        <4> QED  BY <1>3, <3>1, <4>2, <4>3 DEF ServerOK, Starting
      <3>2. CASE served'[q] # served[q]
        <4>1. served[q].at = "down" /\ served'[q] = Imported
          BY <1>a, <2>3, <3>2
        <4> QED  BY <1>3, <4>1, ImportedOK
      <3> QED  BY <3>1, <3>2
    <2> QED  BY <1>0, <1>3, <2>4, <2>5, FilesKept DEF FilesInv
  <1>7. CASE StartFails(c)
    <2> DEFINE r == First(StartOrder, cmds[c].todo)
    <2>1. PICK k : k = [cmds[c] EXCEPT !.at = "undo", !.tried = @ \cup {r}]
      OBVIOUS
    <2>2. /\ k.at \in AfterLease /\ k.verb = cmds[c].verb /\ k.path = cmds[c].path
          /\ k.held = cmds[c].held
      BY <1>2, <2>1 DEF CommandShape, AfterLease
    <2>3. cmds' = [cmds EXCEPT ![c] = k] /\ flock' = {} /\ UNCHANGED served
      BY <1>2, <1>7, <2>1 DEF StartFails
    <2> QED  BY <1>0, <1>3, <1>4, <2>2, <2>3, QuietStep
  <1>8. CASE RequireHealth(c)
    <2>1. PICK place \in {"forget", "undo"} : Goto(c, place)
      BY <1>8 DEF RequireHealth
    <2>2. PICK k : /\ cmds' = [cmds EXCEPT ![c] = k]
                   /\ k.at = place /\ k.path = cmds[c].path /\ k.verb = cmds[c].verb
                   /\ k.held = cmds[c].held
      BY <2>1, GoesTo
    <2>3. flock' = {} /\ UNCHANGED served  BY <1>2, <1>8 DEF RequireHealth
    <2>4. k.at \in AfterLease  BY <2>2 DEF AfterLease
    <2> QED  BY <1>0, <1>3, <1>4, <2>2, <2>3, <2>4, QuietStep
  <1>9. CASE Undo(c)
    <2>1. (\A d \in Commanders : CommandOK(d))' /\ OneBusy'
      BY <1>1, <1>3, <1>9, LeaveOK DEF Undo
    <2>2. \A r \in Runtimes : served'[r] = served[r] \/ served'[r] = Down
      BY <1>9 DEF Undo
    <2>3. (\A r \in Runtimes : ServerOK(r))'
      BY <1>0, <1>3, <2>2, ServersKept
    <2> QED  BY <1>0, <1>3, <2>1, <2>3, FilesKept DEF FilesInv
  <1> QED  BY <1>5, <1>6, <1>7, <1>8, <1>9

\* A database that goes with an engine without private state goes back.
LEMMA EngineNextOK ==
    ASSUME FilesInv, NEW c \in Commanders, Live, cmds[c].path = ActivePath(disk),
           disk.prev # {}, NEW k, k.at = EngineNext(c)
    PROVE  Moving(k)
  <1>0. Status(disk) \in {"none", "legacy", "private"}
    <2>1. Status(disk) \in {"none", "legacy", "private", "publishing"}
      BY StatusOf DEF FilesInv, FilesTyped
    <2> QED  BY <2>1 DEF Live, Selectable
  <1>1. CASE disk.prev = {0} /\ ActivePath(disk) = "private"
    <2>1. k.at = "mirror"  BY <1>1 DEF EngineNext
    <2>2. disk.private # {}
      BY <1>0, <1>1 DEF FilesInv, Placed, ActivePath
    <2> QED  BY <1>1, <2>1, <2>2 DEF Moving
  <1>2. CASE ~(disk.prev = {0} /\ ActivePath(disk) = "private")
    <2>1. k.at = "relay"  BY <1>2 DEF EngineNext
    <2>2. disk.prev = {0} => /\ Status(disk) \in {"none", "legacy"}
                             /\ disk.private = {} /\ disk.legacy # {}
      BY <1>0, <1>2 DEF ActivePath, Live, Selectable, Unclear
    <2> QED  BY <2>1, <2>2 DEF Moving
  <1> QED  BY <1>1, <1>2

\* Under the lease a command decides what to do next.
LEMMA DecidingKeeps ==
    ASSUME FilesInv, Overtaking, NEW c \in Commanders,
           Relocate(c) \/ ClaimFlock(c) \/ VerifyFloor(c)
    PROVE  FilesInv'
  <1>0. FilesTyped'
    BY RelocationTypes, RollingBackTypes, FilesFit
       DEF FilesInv, Relocation, RollingBack
  <1>1. c \in Busy /\ cmds[c].at \in {"relocate", "claim", "verify"}
    BY DEF Relocate, ClaimFlock, VerifyFloor, Busy
  <1>2. /\ Underway(cmds[c]) /\ Moving(cmds[c]) /\ Noting(cmds[c])
        /\ cmds[c] \in CommandShape
        /\ flock = IF cmds[c].at = "claim" THEN {} ELSE {c}
    BY <1>1, OnlyOne DEF InLease
  <1>3. UNCHANGED <<disk, served, outing>>
    BY DEF Relocate, ClaimFlock, VerifyFloor
  <1>4. disk.engine > 0  BY <1>1, <1>2 DEF Underway, AfterLease
  <1>5. \/ (\A r \in Runtimes : served[r].at # "serving") /\ flock' = {c}
        \/ Leave(c)
    <2>1. CASE ClaimFlock(c)
      <3>1. SUFFICES ASSUME ~Leave(c)
                     PROVE  (\A r \in Runtimes : served[r].at # "serving") /\ flock' = {c}
        OBVIOUS
      <3>2. /\ Selectable(disk) /\ LeaseFree /\ OpenIn(ActivePath(disk)) = {}
            /\ flock' = {c}
        BY <2>1, <3>1 DEF ClaimFlock
      <3>3. ASSUME NEW r \in Runtimes, served[r].at = "serving" PROVE FALSE
        <4>1. served[r].code \in Nat
          BY InstanceAssumption DEF FilesInv, FilesTyped, ServerShape, Floors
        <4>2. served[r].code = 0  BY <3>2, <3>3, <4>1 DEF LeaseFree, Sharers
        <4>3. r \notin overtaken  BY <4>2 DEF FilesInv, ServerOK
        <4>4. served[r].path = ActivePath(disk)
          BY <3>3, <4>3 DEF FilesInv, ServerOK
        <4> QED  BY <3>2, <3>3, <4>4 DEF OpenIn
      <3> QED  BY <3>2, <3>3
    <2>2. CASE ~ClaimFlock(c)
      BY <1>1, <1>2, <2>2 DEF Relocate, VerifyFloor, Underway, InLease
    <2> QED  BY <2>1, <2>2
  <1>6. ASSUME Leave(c) PROVE FilesInv'
    BY <1>0, <1>1, <1>3, <1>6, LeaveOK, QuietStep
  <1>7. ASSUME NEW place \in {"ledger", "clear", "recover", "backup"}
                             \cup {"migrate", "restore", "verify", "mirror", "relay"},
               Goto(c, place), ~Leave(c),
               place \in {"ledger", "clear", "recover", "backup"}
                 => cmds[c].verb = "update",
               \A k : k.at = place /\ k.path = cmds[c].path => Moving(k)
        PROVE  FilesInv'
    <2>1. PICK k : /\ cmds' = [cmds EXCEPT ![c] = k]
                   /\ k.at = place /\ k.path = cmds[c].path /\ k.verb = cmds[c].verb
                   /\ k.held = cmds[c].held
      BY <1>7, GoesTo
    <2>2. Underway(k)'
      BY <1>3, <1>4, <1>5, <1>7, <2>1 DEF Underway, InLease
    <2>3. Moving(k)
      BY <1>7, <2>1
    <2>4. Moving(k)'  BY <1>3, <2>3 DEF Moving, Live
    <2>5. Noting(k)'
      BY <1>1, <1>2, <1>3, <1>7, <2>1 DEF Noting, InLease, AfterLease
    <2>6. k.at # "idle" /\ k.at \in InLease  BY <1>7, <2>1 DEF InLease
    <2>7. (\A d \in Commanders : CommandOK(d))' /\ OneBusy'
      BY <1>1, <1>3, <1>5, <1>7, <2>1, <2>2, <2>4, <2>5, <2>6, StaysBusy
    <2> QED  BY <1>0, <1>3, <2>7, QuietStep
  <1>8. CASE Relocate(c) /\ ~Leave(c)
    <2>1. cmds[c].verb = "update" /\ cmds[c].path = "private"
      BY <1>2, <1>8 DEF Relocate, Noting
    <2>2. CASE Settled /\ Goto(c, "ledger")
      <3>1. disk.private # {}  BY <2>2 DEF FilesInv, Placed, Settled
      <3>2. Selectable(disk) /\ ActivePath(disk) = "private"
        BY <2>2, <3>1 DEF Settled, Selectable, Unclear, ActivePath
      <3>3. \A k : k.at = "ledger" /\ k.path = cmds[c].path => Moving(k)
        BY <2>1, <3>2 DEF Moving, Live
      <3> QED  BY <1>7, <1>8, <2>1, <2>2, <3>3
    <2>3. CASE Remnant /\ Goto(c, "clear")
      <3>1. \A k : k.at = "clear" => Moving(k)  BY <2>3 DEF Moving, Remnant
      <3> QED  BY <1>7, <1>8, <2>1, <2>3, <3>1
    <2>4. CASE Status(disk) = "publishing" /\ Goto(c, "recover")
      <3>1. \A k : k.at = "recover" => Moving(k)  BY <2>4 DEF Moving
      <3> QED  BY <1>7, <1>8, <2>1, <2>4, <3>1
    <2>5. CASE Movable /\ Goto(c, "backup")
      <3>1. \A k : k.at = "backup" => Moving(k)  BY <2>5 DEF Moving, Movable
      <3> QED  BY <1>7, <1>8, <2>1, <2>5, <3>1
    <2> QED  BY <1>8, <2>2, <2>3, <2>4, <2>5 DEF Relocate
  <1>9. CASE ClaimFlock(c) /\ ~Leave(c)
    <2>1. PICK place \in {"migrate", "restore", "verify"} : Goto(c, place)
      BY <1>9 DEF ClaimFlock
    <2>2. Live /\ cmds[c].path = ActivePath(disk)
      BY <1>2, <1>9 DEF ClaimFlock, Underway
    <2>3. \A k : k.at = place /\ k.path = cmds[c].path => Moving(k)
      BY <2>1, <2>2 DEF Moving
    <2> QED  BY <1>7, <1>9, <2>1, <2>3
  <1>10. CASE VerifyFloor(c) /\ ~Leave(c)
    <2>1. HalfFloor(c) /\ Goto(c, EngineNext(c))  BY <1>10 DEF VerifyFloor
    <2>2. Live /\ cmds[c].path = ActivePath(disk) /\ disk.prev # {}
      BY <1>2, <1>10, <2>1 DEF VerifyFloor, Moving, HalfFloor
    <2>3. PICK place \in {"mirror", "relay"} : place = EngineNext(c)
      BY DEF EngineNext
    <2>4. \A k : k.at = place /\ k.path = cmds[c].path => Moving(k)
      BY <2>2, <2>3, EngineNextOK
    <2> QED  BY <1>7, <1>10, <2>1, <2>3, <2>4
  <1> QED  BY <1>6, <1>8, <1>9, <1>10

-----------------------------------------------------------------------------
(* Commands that change the files. *)

\* Files change only under the lease, when nothing runs, or in ways that no
\* server notices.
LEMMA FileStep ==
    ASSUME FilesInv, Overtaking, NEW c \in Commanders, c \in Busy, NEW place, Goto(c, place),
           place # "idle", UNCHANGED <<served, flock, outing>>,
           cmds[c].at \in InLease <=> place \in InLease,
           FilesTyped', Placed', OldEngineFinds', OldEnough',
           (\A r \in Runtimes : ServerOK(r))',
           \A k : k.at = place /\ k.path = cmds[c].path /\ k.verb = cmds[c].verb
                  /\ k.held = cmds[c].held /\ k.want = cmds[c].want
                  => Underway(k)' /\ Moving(k)' /\ Noting(k)'
    PROVE  FilesInv'
  <1>1. PICK k : /\ k.at = place /\ k.path = cmds[c].path /\ k.verb = cmds[c].verb
                 /\ k.held = cmds[c].held /\ k.want = cmds[c].want
                 /\ cmds' = [cmds EXCEPT ![c] = k]
    BY GoesTo
  <1>2. flock' = IF k.at \in InLease THEN {c} ELSE {}  BY <1>1, OnlyOne
  <1>3. (\A d \in Commanders : CommandOK(d))' /\ OneBusy'
    BY <1>1, <1>2, StaysBusy
  <1> QED  BY <1>3 DEF FilesInv

\* What is written down about versions and runtimes moves no database.
Elsewhere == UNCHANGED <<disk.legacy, disk.private, disk.candidate, disk.receipt>>

LEMMA ElsewhereKeeps ==
    ASSUME FilesInv, FilesTyped', Overtaking, Elsewhere, UNCHANGED served,
           disk'.engine = disk.engine \/ disk'.engine > 0,
           \A db \in disk'.points : db.floor >= Ledger[0]
    PROVE  /\ Placed' /\ OldEngineFinds' /\ OldEnough'
           /\ (\A r \in Runtimes : ServerOK(r))'
           /\ Selectable(disk') = Selectable(disk)
           /\ ActivePath(disk') = ActivePath(disk)
           /\ Status(disk') = Status(disk)
  <1>1. Status(disk') = Status(disk)  BY DEF Elsewhere, Status
  <1>2. Selectable(disk') = Selectable(disk) /\ ActivePath(disk') = ActivePath(disk)
    BY <1>1 DEF Elsewhere, Selectable, Unclear, ActivePath
  <1>3. Placed'  BY <1>1 DEF FilesInv, Placed, Elsewhere
  <1>4. OldEngineFinds'  BY <1>1 DEF FilesInv, OldEngineFinds, Elsewhere
  <1>5. OldEnough'  BY DEF FilesInv, OldEnough, Elsewhere
  <1>6. (\A r \in Runtimes : ServerOK(r))'
    <2>1. disk'[ActivePath(disk)] = disk[ActivePath(disk)]
      BY DEF Elsewhere, ActivePath
    <2> QED  BY <1>1, <1>2, <2>1, ServersStay
  <1> QED  BY <1>1, <1>2, <1>3, <1>4, <1>5, <1>6

LEMMA BeforeLeaseKeeps ==
    ASSUME FilesInv, Overtaking, NEW c \in Commanders,
           RecordPrevious(c) \/ LayEngine(c) \/ WriteIntent(c)
    PROVE  FilesInv'
  <1>0. FilesTyped'  BY UpdatingTypes, FilesFit DEF FilesInv, Updating
  <1>1. c \in Busy /\ cmds[c].at \in {"record", "lay", "note"}
    BY DEF RecordPrevious, LayEngine, WriteIntent, Busy
  <1>2. /\ Underway(cmds[c]) /\ Noting(cmds[c]) /\ cmds[c] \in CommandShape
        /\ cmds[c].at \notin InLease
    BY <1>1, OnlyOne DEF InLease
  <1>3. disk.engine > 0  BY <1>1, <1>2 DEF Underway, AfterLease
  <1>a. disk \in DiskShape  BY DEF FilesInv, FilesTyped
  <1>4. UNCHANGED <<served, flock, outing>>
    BY DEF RecordPrevious, LayEngine, WriteIntent
  <1>5. CASE RecordPrevious(c)
    <2>1. Elsewhere /\ disk'.engine = disk.engine /\ disk'.intent = disk.intent
          /\ disk'.points = disk.points
      BY <1>5, <1>a DEF RecordPrevious, DiskShape, Elsewhere
    <2>2. /\ Placed' /\ OldEngineFinds' /\ OldEnough'
          /\ (\A r \in Runtimes : ServerOK(r))'
      BY <1>0, <1>4, <2>1, ElsewhereKeeps DEF FilesInv, OldEnough
    <2>3. ASSUME NEW k, k.at = "lay", k.verb = cmds[c].verb, k.path = cmds[c].path,
                 k.held = cmds[c].held, k.want = cmds[c].want
          PROVE  Underway(k)' /\ Moving(k)' /\ Noting(k)'
      BY <1>2, <1>3, <1>4, <1>5, <2>1, <2>3
         DEF RecordPrevious, Underway, Moving, Noting, InLease
    <2> QED  BY <1>0, <1>1, <1>2, <1>4, <1>5, <2>2, <2>3, FileStep
             DEF RecordPrevious, InLease
  <1>6. CASE WriteIntent(c)
    <2>1. Elsewhere /\ disk'.engine = disk.engine /\ disk'.intent = cmds[c].held
          /\ disk'.points = disk.points
      BY <1>6, <1>a DEF WriteIntent, DiskShape, Elsewhere, Noted
    <2>2. /\ Placed' /\ OldEngineFinds' /\ OldEnough'
          /\ (\A r \in Runtimes : ServerOK(r))'
      BY <1>0, <1>4, <2>1, ElsewhereKeeps DEF FilesInv, OldEnough
    <2>3. PICK k : k = [cmds[c] EXCEPT !.at = "stop"]  OBVIOUS
    <2>4. /\ k.at = "stop" /\ k.verb = cmds[c].verb /\ k.path = cmds[c].path
          /\ k.held = cmds[c].held /\ k.todo = cmds[c].todo
          /\ cmds' = [cmds EXCEPT ![c] = k]
      BY <1>2, <1>6, <2>3 DEF CommandShape, WriteIntent, Goto
    <2>5. Underway(k)'
      BY <1>2, <1>3, <1>4, <1>6, <2>1, <2>4
         DEF WriteIntent, Underway, InLease, Unasking
    <2>6. Moving(k)'  BY <2>4 DEF Moving
    <2>7. Noting(k)'  BY <1>2, <1>6, <2>1, <2>4 DEF Noting, WriteIntent
    <2>8. flock = {}  BY <1>1, <1>2, OnlyOne
    <2>9. (\A d \in Commanders : CommandOK(d))' /\ OneBusy'
      BY <1>1, <1>4, <2>4, <2>5, <2>6, <2>7, <2>8, StaysBusy DEF InLease
    <2> QED  BY <1>0, <2>2, <2>9 DEF FilesInv
  <1>7. CASE LayEngine(c)
    <2>1. cmds[c].want # {} /\ cmds[c].want \in AtMostOne(Floors \ {0})
      BY <1>2, <1>7 DEF LayEngine, Underway, CommandShape, Fetched
    <2>2. The(cmds[c].want) \in Floors \ {0}  BY <2>1, OneOf
    <2>3. Elsewhere /\ disk'.engine = The(cmds[c].want) /\ disk'.intent = disk.intent
          /\ disk'.points = disk.points
      BY <1>7, <1>a DEF LayEngine, DiskShape, Elsewhere
    <2>4. disk'.engine > 0  BY <2>2, <2>3, InstanceAssumption DEF Floors
    <2>5. /\ Placed' /\ OldEngineFinds' /\ OldEnough'
          /\ (\A r \in Runtimes : ServerOK(r))'
      BY <1>0, <1>4, <2>3, <2>4, ElsewhereKeeps DEF FilesInv, OldEnough
    <2>6. ASSUME NEW k, k.at = "recall", k.verb = cmds[c].verb, k.path = cmds[c].path,
                 k.held = cmds[c].held
          PROVE  Underway(k)' /\ Moving(k)' /\ Noting(k)'
      BY <1>2, <1>3, <1>4, <1>7, <2>3, <2>4, <2>6
         DEF LayEngine, Underway, Moving, Noting, InLease
    <2> QED  BY <1>0, <1>1, <1>2, <1>4, <1>7, <2>5, <2>6, FileStep
             DEF LayEngine, InLease
  <1> QED  BY <1>5, <1>6, <1>7

\* Places that only an update comes to.
UpdateOnly == {"relocate", "recover", "reseal", "backup", "candidate", "announce",
               "publish", "seal", "clear", "ledger", "repin", "release"}

\* Under the lease nobody serves, and who starts is overtaken when the files
\* turn: only the files and the command are to be judged.
LEMMA LeaseStep ==
    ASSUME FilesInv, Overtaking, NEW c \in Commanders, c \in Busy,
           cmds[c].at \in InLease \ {"unpin", "consume"},
           NEW place \in InLease, Goto(c, place), UNCHANGED <<served, flock, outing>>,
           FilesTyped', Placed', OldEngineFinds', OldEnough',
           disk'.intent = disk.intent,
           Status(disk') = "publishing" => Status(disk) = "publishing" \/ TurnsAway,
           place \notin {"unpin", "consume"} => disk'.engine > 0,
           place \in UpdateOnly => cmds[c].verb = "update",
           \A k : k.at = place /\ k.path = cmds[c].path => Moving(k)'
    PROVE  FilesInv'
  <1>1. (\A r \in Runtimes : served[r].at # "serving") /\ Noting(cmds[c])
    BY OnlyOne DEF Underway
  <1>2. (\A r \in Runtimes : ServerOK(r))'  BY <1>1, ServersStay
  <1>3. ASSUME NEW k, k.at = place, k.path = cmds[c].path, k.verb = cmds[c].verb,
               k.held = cmds[c].held
        PROVE  Underway(k)' /\ Noting(k)'
    <2>1. Underway(k)'  BY <1>1, <1>3 DEF Underway, InLease
    <2>2. Noting(k)'
      BY <1>1, <1>3 DEF Noting, InLease, AfterLease, UpdateOnly
    <2> QED  BY <2>1, <2>2
  <1>4. place # "idle"  BY DEF InLease
  <1> QED  BY <1>2, <1>3, <1>4, FileStep

\* A command takes note under the lease and goes on.
LEMMA RecordingKeeps ==
    ASSUME FilesInv, Overtaking, NEW c \in Commanders,
           BackUp(c) \/ PublishPin(c) \/ RestorePin(c) \/ BackUpLegacy(c)
    PROVE  FilesInv'
  <1>0. FilesTyped'
    BY UpdatingTypes, RelocationTypes, RollingBackTypes, FilesFit
       DEF FilesInv, Updating, Relocation, RollingBack
  <1>1. c \in Busy /\ cmds[c].at \in {"ledger", "repin", "unpin", "backup"}
    BY DEF BackUp, PublishPin, RestorePin, BackUpLegacy, Busy
  <1>2. /\ Underway(cmds[c]) /\ Moving(cmds[c]) /\ Noting(cmds[c])
        /\ cmds[c].at \in InLease
    BY <1>1, OnlyOne DEF InLease
  <1>a. disk \in DiskShape  BY DEF FilesInv, FilesTyped
  <1>3. UNCHANGED <<served, flock, outing>>
    BY DEF BackUp, PublishPin, RestorePin, BackUpLegacy
  <1>4. /\ Elsewhere /\ disk'.engine = disk.engine /\ disk'.intent = disk.intent
        /\ disk'.points \in {disk.points, disk.legacy, disk.private}
    BY <1>a DEF BackUp, PublishPin, RestorePin, BackUpLegacy, DiskShape, Elsewhere
  <1>5. /\ Placed' /\ OldEngineFinds' /\ OldEnough'
        /\ Selectable(disk') = Selectable(disk)
        /\ ActivePath(disk') = ActivePath(disk) /\ Status(disk') = Status(disk)
    <2>1. \A db \in disk'.points : db.floor >= Ledger[0]
      BY <1>4 DEF FilesInv, OldEnough
    <2> QED  BY <1>0, <1>3, <1>4, <2>1, ElsewhereKeeps
  <1>6. CASE BackUp(c)
    <2>1. \A k : k.at = "migrate" /\ k.path = cmds[c].path => Moving(k)'
      BY <1>2, <1>5, <1>6 DEF BackUp, Moving, Live
    <2>2. disk'.engine > 0  BY <1>2, <1>4, <1>6 DEF BackUp, Underway, AfterLease
    <2> QED  BY <1>0, <1>1, <1>2, <1>3, <1>4, <1>5, <1>6, <2>1, <2>2, LeaseStep
             DEF BackUp, InLease, UpdateOnly
  <1>7. CASE PublishPin(c)
    <2>1. \A k : k.at = "release" /\ k.path = cmds[c].path => Moving(k)'
      BY DEF Moving
    <2>2. disk'.engine > 0  BY <1>2, <1>4, <1>7 DEF PublishPin, Underway, AfterLease
    <2>3. cmds[c].verb = "update"  BY <1>2, <1>7 DEF PublishPin, Noting
    <2> QED  BY <1>0, <1>1, <1>2, <1>3, <1>4, <1>5, <1>7, <2>1, <2>2, <2>3, LeaseStep
             DEF PublishPin, InLease
  <1>8. CASE RestorePin(c)
    <2>1. (\A r \in Runtimes : ServerOK(r))'
      <3>1. \A db \in disk'.points : db.floor >= Ledger[0]
        BY <1>4 DEF FilesInv, OldEnough
      <3> QED  BY <1>0, <1>3, <1>4, <3>1, ElsewhereKeeps
    <2>2. ASSUME NEW k, k.at = "consume", k.verb = cmds[c].verb,
                 k.path = cmds[c].path, k.held = cmds[c].held
          PROVE  Underway(k)' /\ Moving(k)' /\ Noting(k)'
      BY <1>2, <1>4, <1>8, <2>2
         DEF RestorePin, Underway, Moving, Noting, InLease, AfterLease
    <2> QED  BY <1>0, <1>1, <1>2, <1>3, <1>5, <1>8, <2>1, <2>2, FileStep
             DEF RestorePin, InLease
  <1>9. CASE BackUpLegacy(c)
    <2>1. \A k : k.at = "candidate" /\ k.path = cmds[c].path => Moving(k)'
      BY <1>2, <1>4, <1>5, <1>9 DEF BackUpLegacy, Moving, Elsewhere
    <2>2. disk'.engine > 0  BY <1>2, <1>4, <1>9 DEF BackUpLegacy, Underway, AfterLease
    <2>3. cmds[c].verb = "update"  BY <1>2, <1>9 DEF BackUpLegacy, Noting
    <2> QED  BY <1>0, <1>1, <1>2, <1>3, <1>4, <1>5, <1>9, <2>1, <2>2, <2>3, LeaseStep
             DEF BackUpLegacy, InLease
  <1> QED  BY <1>6, <1>7, <1>8, <1>9

LEMMA EndingKeeps ==
    ASSUME FilesInv, Overtaking, NEW c \in Commanders, ClearIntent(c) \/ ConsumePrevious(c)
    PROVE  FilesInv'
  <1>0. FilesTyped'
    BY UpdatingTypes, RollingBackTypes, FilesFit
       DEF FilesInv, Updating, RollingBack
  <1>a. disk \in DiskShape  BY DEF FilesInv, FilesTyped
  <1>1. c \in Busy /\ Leave(c) /\ UNCHANGED <<served, outing>>
    BY DEF ClearIntent, ConsumePrevious, Busy
  <1>2. Elsewhere /\ disk'.engine = disk.engine /\ disk'.points = disk.points
    BY <1>a DEF ClearIntent, ConsumePrevious, DiskShape, Elsewhere
  <1>3. /\ Placed' /\ OldEngineFinds' /\ OldEnough'
        /\ (\A r \in Runtimes : ServerOK(r))'
    BY <1>0, <1>1, <1>2, ElsewhereKeeps DEF FilesInv, OldEnough
  <1>4. (\A d \in Commanders : CommandOK(d))' /\ OneBusy'
    BY <1>1, LeaveOK
  <1> QED  BY <1>0, <1>3, <1>4 DEF FilesInv

LEMMA OldUpdateKeeps ==
    ASSUME FilesInv, Overtaking, OldUpdate PROVE FilesInv'
  <1>0. FilesTyped'  BY OtherTypes DEF FilesInv
  <1>a. disk \in DiskShape /\ outing \in OutingShape  BY DEF FilesInv, FilesTyped
  <1>1. disk.engine = 0 /\ UNCHANGED <<served, flock, cmds>>  BY DEF OldUpdate
  <1>2. /\ Elsewhere /\ disk'.engine = 1 /\ disk'.intent = disk.intent
        /\ disk'.points = disk.points
    BY <1>a DEF OldUpdate, DiskShape, Elsewhere
  <1>3. /\ Placed' /\ OldEngineFinds' /\ OldEnough'
        /\ (\A r \in Runtimes : ServerOK(r))'
    BY <1>0, <1>1, <1>2, ElsewhereKeeps DEF FilesInv, OldEnough
  <1>4. ASSUME NEW d \in Commanders PROVE CommandOK(d)'
    <2>1. CASE d \in Busy
      <3>1. /\ cmds[d].at \in {"unpin", "consume"} \cup AfterLease
            /\ Underway(cmds[d]) /\ Noting(cmds[d])
        BY <1>1, <2>1 DEF FilesInv, CommandOK, Underway
      <3>2. Underway(cmds[d])'
        BY <1>1, <3>1 DEF Underway, AfterLease, InLease
      <3>3. Moving(cmds[d])'  BY <1>1, <3>1 DEF Moving, AfterLease
      <3>4. Noting(cmds[d])'  BY <1>1, <1>2, <3>1 DEF Noting
      <3> QED  BY <1>1, <2>1, <3>2, <3>3, <3>4 DEF CommandOK, Busy
    <2>2. CASE d \notin Busy  BY <1>1, <2>2 DEF FilesInv, CommandOK, Busy
    <2> QED  BY <2>1, <2>2
  <1>5. OneBusy'
    <2>1. outing' = [outing EXCEPT !.readopt = FALSE]  BY DEF OldUpdate
    <2> QED  BY <1>a, <1>1, <2>1 DEF FilesInv, OneBusy, OnePerson, Busy, OutingShape
  <1> QED  BY <1>0, <1>3, <1>4, <1>5 DEF FilesInv

-----------------------------------------------------------------------------
(* The move and its way back. *)

LEMMA MoveAnnounced ==
    ASSUME FilesInv, Status(disk) = "publishing"
    PROVE  \E db \in Database :
              disk.receipt = Receipt("publishing", db) /\ The(disk.receipt).db = db
  BY StatusOf DEF FilesInv, FilesTyped

LEMMA Sealed ==
    ASSUME NEW s, NEW db, NEW d, d.receipt = Receipt(s, db)
    PROVE  Status(d) = s
  <1>1. d.receipt # {}  BY DEF Receipt
  <1> QED  BY <1>1, Received DEF Status

\* Files stay as they should be when every database among them was there.
LEMMA StillOldEnough ==
    ASSUME FilesInv,
           disk'.legacy \cup disk'.private \cup disk'.candidate \cup disk'.points
             \subseteq disk.legacy \cup disk.private \cup disk.candidate \cup disk.points
    PROVE  OldEnough'
  BY DEF FilesInv, OldEnough

LEMMA MoveKeeps ==
    ASSUME FilesInv, Overtaking, NEW c \in Commanders,
           MakeCandidate(c) \/ Announce(c) \/ Publish(c) \/ Seal(c) \/ ClearLegacy(c)
    PROVE  FilesInv'
  <1>0. FilesTyped'  BY RelocationTypes, FilesFit DEF FilesInv, Relocation
  <1>a. disk \in DiskShape  BY DEF FilesInv, FilesTyped
  <1>1. c \in Busy /\ cmds[c].at \in {"candidate", "announce", "publish", "seal", "clear"}
    BY DEF MakeCandidate, Announce, Publish, Seal, ClearLegacy, Busy
  <1>2. /\ Underway(cmds[c]) /\ Moving(cmds[c]) /\ Noting(cmds[c])
        /\ cmds[c].at \in InLease
    BY <1>1, OnlyOne DEF InLease
  <1>3. disk.engine > 0 /\ cmds[c].verb = "update" /\ cmds[c].path = "private"
    BY <1>1, <1>2 DEF Underway, AfterLease, Noting
  <1>4. /\ UNCHANGED <<served, flock, outing>>
        /\ disk'.engine = disk.engine /\ disk'.intent = disk.intent
    BY <1>a DEF MakeCandidate, Announce, Publish, Seal, ClearLegacy, DiskShape
  <1>5. OldEngineFinds'  BY <1>3, <1>4 DEF OldEngineFinds
  <1>6. ASSUME NEW place \in {"announce", "publish", "seal", "clear", "ledger"},
               Goto(c, place), Placed', OldEnough',
               Status(disk') = "publishing" => Status(disk) = "publishing" \/ TurnsAway,
               \A k : k.at = place /\ k.path = "private" => Moving(k)'
        PROVE  FilesInv'
    BY <1>0, <1>1, <1>2, <1>3, <1>4, <1>5, <1>6, LeaseStep DEF InLease
  <1>7. CASE MakeCandidate(c)
    <2>1. /\ disk'.candidate = disk.legacy /\ disk'.legacy = disk.legacy
          /\ disk'.private = disk.private /\ disk'.receipt = disk.receipt
          /\ disk'.points = disk.points
      BY <1>7, <1>a DEF MakeCandidate, DiskShape
    <2>2. Status(disk') = Status(disk)  BY <2>1 DEF Status
    <2>3. /\ disk.legacy # {} /\ disk.private = {}
          /\ Status(disk) \in {"none", "legacy"}
      BY <1>2, <1>7 DEF MakeCandidate, Moving
    <2>4. Placed'  BY <2>1, <2>2, <2>3 DEF Placed
    <2>5. \A k : k.at = "announce" => Moving(k)'  BY <2>1, <2>2, <2>3 DEF Moving
    <2> QED  BY <1>6, <1>7, <2>1, <2>2, <2>4, <2>5, StillOldEnough DEF MakeCandidate
  <1>8. CASE Announce(c)
    <2>1. /\ disk.legacy # {} /\ disk.private = {} /\ disk.candidate = disk.legacy
      BY <1>2, <1>8 DEF Announce, Moving
    <2>2. PICK db \in Database : disk.legacy = {db} /\ The(disk.candidate) = db
      BY <1>a, <2>1, OneOf DEF DiskShape
    <2>3. /\ disk'.candidate = {db} /\ disk'.legacy = {db} /\ disk'.private = {}
          /\ disk'.receipt = Receipt("publishing", db) /\ disk'.points = disk.points
      BY <1>8, <1>a, <2>1, <2>2 DEF Announce, DiskShape
    <2>4. Status(disk') = "publishing"  BY <2>3, Sealed
    <2>5. Placed'  BY <2>3, <2>4 DEF Placed
    <2>6. \A k : k.at = "publish" => Moving(k)'
      BY <2>3, <2>4, Received DEF Moving
    <2>7. OldEnough'  BY <2>1, <2>2, <2>3, StillOldEnough
    <2>8. TurnsAway
      <3>1. Status(disk) \in {"none", "legacy"}  BY <1>2, <1>8 DEF Announce, Moving
      <3> QED  BY <2>1, <2>4, <3>1 DEF TurnsAway, RecoveryPath, ActivePath
    <2> QED  BY <1>6, <1>8, <2>5, <2>6, <2>7, <2>8 DEF Announce
  <1>9. CASE Publish(c)
    <2>1. Status(disk) = "publishing"  BY <1>2, <1>9 DEF Publish, Moving
    <2>2. PICK db : /\ disk.receipt = Receipt("publishing", db)
                    /\ disk.candidate = {db}
      BY <1>2, <1>9, <2>1, MoveAnnounced DEF Publish, Moving
    <2>3. /\ disk'.candidate = {} /\ disk'.legacy = disk.legacy /\ disk'.private = {db}
          /\ disk'.receipt = Receipt("publishing", db) /\ disk'.points = disk.points
      BY <1>9, <1>a, <2>2 DEF Publish, DiskShape
    <2>4. Status(disk') = "publishing"  BY <2>3, Sealed
    <2>5. Placed'  BY <2>4 DEF Placed
    <2>6. \A k : k.at = "seal" => Moving(k)'
      BY <2>3, <2>4, Received DEF Moving
    <2>7. OldEnough'  BY <2>2, <2>3, StillOldEnough
    <2> QED  BY <1>6, <1>9, <2>1, <2>5, <2>6, <2>7 DEF Publish
  <1>10. CASE Seal(c)
    <2>1. Status(disk) = "publishing" /\ disk.private # {}
      BY <1>2, <1>10 DEF Seal, Moving
    <2>2. PICK db : /\ disk'.receipt = Receipt("private", db)
                    /\ disk'.legacy = disk.legacy /\ disk'.private = disk.private
                    /\ disk'.candidate = disk.candidate /\ disk'.points = disk.points
      BY <1>10, <1>a DEF Seal, DiskShape
    <2>3. Status(disk') = "private"  BY <2>2, Sealed
    <2>4. Placed'  BY <2>1, <2>2, <2>3 DEF Placed
    <2>5. \A k : k.at = "clear" => Moving(k)'  BY <2>3 DEF Moving
    <2>6. OldEnough'  BY <2>2, StillOldEnough
    <2> QED  BY <1>6, <1>10, <2>1, <2>4, <2>5, <2>6 DEF Seal
  <1>11. CASE ClearLegacy(c)
    <2>1. Status(disk) = "private"  BY <1>2, <1>11 DEF ClearLegacy, Moving
    <2>2. /\ disk'.receipt = disk.receipt
          /\ disk'.legacy = {} /\ disk'.private = disk.private
          /\ disk'.candidate = disk.candidate /\ disk'.points = disk.points
      BY <1>11, <1>a DEF ClearLegacy, DiskShape
    <2>3. Status(disk') = "private"  BY <2>1, <2>2 DEF Status
    <2>4. Placed'  BY <2>1, <2>2, <2>3 DEF FilesInv, Placed
    <2>5. Selectable(disk') /\ ActivePath(disk') = "private"
      BY <2>3 DEF Selectable, Unclear, ActivePath
    <2>6. \A k : k.at = "ledger" /\ k.path = "private" => Moving(k)'
      BY <2>5 DEF Moving, Live
    <2>7. OldEnough'  BY <2>2, StillOldEnough
    <2> QED  BY <1>6, <1>11, <2>3, <2>4, <2>6, <2>7 DEF ClearLegacy
  <1> QED  BY <1>7, <1>8, <1>9, <1>10, <1>11

LEMMA RecoveryKeeps ==
    ASSUME FilesInv, Overtaking, NEW c \in Commanders, RecoverPublishing(c) \/ Reseal(c)
    PROVE  FilesInv'
  <1>0. FilesTyped'  BY RelocationTypes, FilesFit DEF FilesInv, Relocation
  <1>a. disk \in DiskShape  BY DEF FilesInv, FilesTyped
  <1>1. c \in Busy /\ cmds[c].at \in {"recover", "reseal"} /\ UNCHANGED <<served, outing>>
    BY DEF RecoverPublishing, Reseal, Busy
  <1>2. /\ Underway(cmds[c]) /\ Moving(cmds[c]) /\ Noting(cmds[c])
        /\ cmds[c].at \in InLease
    BY <1>1, OnlyOne DEF InLease
  <1>3. /\ disk.engine > 0 /\ cmds[c].verb = "update"
        /\ Status(disk) = "publishing"
    BY <1>1, <1>2 DEF Underway, AfterLease, Noting, Moving
  <1>4. PICK db \in Database :
           disk.receipt = Receipt("publishing", db) /\ The(disk.receipt).db = db
    BY <1>3, MoveAnnounced
  <1>5. CASE RecoverPublishing(c) /\ Leave(c) /\ UNCHANGED disk
    BY <1>0, <1>1, <1>5, LeaveOK, QuietStep
  <1>6. CASE RecoverPublishing(c) /\ ~(Leave(c) /\ UNCHANGED disk)
    <2>1. /\ disk' = Recovered /\ Recovered.private = {db}
          /\ Goto(c, "reseal") /\ UNCHANGED flock
      BY <1>4, <1>6 DEF RecoverPublishing
    <2>2. /\ disk'.legacy = disk.legacy /\ disk'.private = {db}
          /\ disk'.candidate \in {disk.candidate, {}}
          /\ disk'.receipt = Receipt("publishing", db) /\ disk'.points = disk.points
          /\ disk'.engine = disk.engine /\ disk'.intent = disk.intent
          /\ disk'.private \in {disk.private, disk.candidate, disk.legacy}
      <3>1. CASE disk.private # {}
        <4>1. Recovered = disk  BY <3>1 DEF Recovered
        <4> QED  BY <1>4, <2>1, <4>1
      <3>2. CASE disk.private = {} /\ disk.candidate = {db}
        <4>1. Recovered = [disk EXCEPT !.private = {db}, !.candidate = {}]
          BY <1>4, <3>2 DEF Recovered
        <4> QED  BY <1>4, <1>a, <2>1, <3>2, <4>1 DEF DiskShape
      <3>3. CASE disk.private = {} /\ disk.candidate # {db}
        <4>1. Recovered = [disk EXCEPT !.private = disk.legacy]
          BY <1>4, <3>3 DEF Recovered
        <4> QED  BY <1>4, <1>a, <2>1, <3>3, <4>1 DEF DiskShape
      <3> QED  BY <3>1, <3>2, <3>3
    <2>3. Status(disk') = "publishing"  BY <2>2, Sealed
    <2>4. Placed'  BY <2>3 DEF Placed
    <2>5. \A k : k.at = "reseal" => Moving(k)'
      BY <2>2, <2>3, Received DEF Moving
    <2>6. OldEnough'  BY <2>2, StillOldEnough
    <2>7. OldEngineFinds'  BY <1>3, <2>2 DEF OldEngineFinds
    <2> QED  BY <1>0, <1>1, <1>2, <1>3, <1>6, <2>1, <2>2, <2>4, <2>5, <2>6, <2>7, LeaseStep
             DEF RecoverPublishing, InLease
  <1>7. CASE Reseal(c)
    <2>1. disk.private = {db}  BY <1>2, <1>4, <1>7 DEF Reseal, Moving
    <2>2. /\ disk'.receipt = Receipt("private", db)
          /\ disk'.legacy = disk.legacy /\ disk'.private = disk.private
          /\ disk'.candidate = disk.candidate /\ disk'.points = disk.points
          /\ disk'.engine = disk.engine /\ disk'.intent = disk.intent
      BY <1>4, <1>7, <1>a DEF Reseal, DiskShape
    <2>3. Status(disk') = "private"  BY <2>2, Sealed
    <2>4. Placed'  BY <2>1, <2>2, <2>3 DEF Placed
    <2>5. \A k : k.at = "relocate" => Moving(k)'  BY DEF Moving
    <2>6. OldEnough'  BY <2>2, StillOldEnough
    <2>7. OldEngineFinds'  BY <1>3, <2>2 DEF OldEngineFinds
    <2> QED  BY <1>0, <1>1, <1>2, <1>3, <1>7, <2>2, <2>3, <2>4, <2>5, <2>6, <2>7, LeaseStep
             DEF Reseal, InLease
  <1> QED  BY <1>5, <1>6, <1>7

LEMMA BackKeeps ==
    ASSUME FilesInv, Overtaking, NEW c \in Commanders, Mirror(c) \/ SignOff(c) \/ DropPrivate(c)
    PROVE  FilesInv'
  <1>0. FilesTyped'  BY RelocationTypes, FilesFit DEF FilesInv, Relocation
  <1>a. disk \in DiskShape  BY DEF FilesInv, FilesTyped
  <1>1. c \in Busy /\ cmds[c].at \in {"mirror", "signoff", "drop"}
    BY DEF Mirror, SignOff, DropPrivate, Busy
  <1>2. /\ Underway(cmds[c]) /\ Moving(cmds[c]) /\ cmds[c].at \in InLease
    BY <1>1, OnlyOne DEF InLease
  <1>3. disk.engine > 0 /\ disk.prev # {}
    BY <1>1, <1>2 DEF Underway, AfterLease, Moving
  <1>4. /\ UNCHANGED <<served, flock, outing>>
        /\ disk'.engine = disk.engine /\ disk'.intent = disk.intent
        /\ disk'.prev = disk.prev /\ disk'.points = disk.points
        /\ disk'.candidate = disk.candidate
    BY <1>a DEF Mirror, SignOff, DropPrivate, DiskShape
  <1>5. OldEngineFinds'  BY <1>3, <1>4 DEF OldEngineFinds
  <1>6. ASSUME NEW place \in {"signoff", "drop", "relay"},
               Goto(c, place), Placed', OldEnough', \A k : k.at = place => Moving(k)',
               Status(disk') # "publishing"
        PROVE  FilesInv'
    BY <1>0, <1>1, <1>2, <1>3, <1>4, <1>5, <1>6, LeaseStep DEF InLease, UpdateOnly
  <1>7. CASE Mirror(c)
    <2>1. disk.private # {} /\ Selectable(disk) /\ ActivePath(disk) = "private"
      BY <1>2, <1>7 DEF Mirror, Moving, Live
    <2>2. Status(disk) \in {"none", "private"}
      <3>1. Status(disk) \in {"none", "private", "publishing", "legacy"}
        BY <1>a, StatusOf
      <3> QED  BY <2>1, <3>1 DEF FilesInv, Placed, Selectable, ActivePath
    <2>3. /\ disk'.legacy = disk.private /\ disk'.private = disk.private
          /\ disk'.receipt = disk.receipt
      BY <1>7, <1>a DEF Mirror, DiskShape
    <2>4. Status(disk') = Status(disk)  BY <2>3 DEF Status
    <2>5. Placed'  BY <2>1, <2>2, <2>3, <2>4 DEF Placed
    <2>6. \A k : k.at = "signoff" => Moving(k)'
      BY <1>3, <1>4, <2>2, <2>3, <2>4 DEF Moving
    <2>7. OldEnough'  BY <1>4, <2>3, StillOldEnough
    <2> QED  BY <1>6, <1>7, <2>2, <2>4, <2>5, <2>6, <2>7 DEF Mirror
  <1>8. CASE SignOff(c)
    <2>1. disk.legacy = disk.private /\ Status(disk) \in {"none", "private"}
      BY <1>2, <1>8 DEF SignOff, Moving
    <2>2. disk.legacy # {}  BY <2>1 DEF FilesInv, Placed
    <2>3. PICK db : /\ disk'.receipt = Receipt("legacy", db)
                    /\ disk'.legacy = disk.legacy /\ disk'.private = disk.private
      BY <1>8, <1>a DEF SignOff, DiskShape
    <2>4. Status(disk') = "legacy"  BY <2>3, Sealed
    <2>5. Placed'  BY <2>1, <2>2, <2>3, <2>4 DEF Placed
    <2>6. \A k : k.at = "drop" => Moving(k)'  BY <1>3, <1>4, <2>4 DEF Moving
    <2>7. OldEnough'  BY <1>4, <2>3, StillOldEnough
    <2> QED  BY <1>6, <1>8, <2>4, <2>5, <2>6, <2>7 DEF SignOff
  <1>9. CASE DropPrivate(c)
    <2>1. Status(disk) = "legacy"  BY <1>2, <1>9 DEF DropPrivate, Moving
    <2>2. disk.legacy # {}  BY <2>1 DEF FilesInv, Placed
    <2>3. /\ disk'.legacy = disk.legacy /\ disk'.private = {}
          /\ disk'.receipt = disk.receipt
      BY <1>9, <1>a DEF DropPrivate, DiskShape
    <2>4. Status(disk') = "legacy"  BY <2>1, <2>3 DEF Status
    <2>5. Placed'  BY <2>2, <2>3, <2>4 DEF Placed
    <2>6. \A k : k.at = "relay" => Moving(k)'
      BY <1>3, <1>4, <2>2, <2>3, <2>4 DEF Moving
    <2>7. OldEnough'  BY <1>4, <2>3, StillOldEnough
    <2> QED  BY <1>6, <1>9, <2>4, <2>5, <2>6, <2>7 DEF DropPrivate
  <1> QED  BY <1>7, <1>8, <1>9

\* A rollback puts the restore point where the database is.
LEMMA RestoreKeeps ==
    ASSUME FilesInv, Overtaking, NEW c \in Commanders, RestoreDatabase(c) PROVE FilesInv'
  <1>0. FilesTyped'  BY RollingBackTypes, FilesFit DEF FilesInv, RollingBack
  <1>a. disk \in DiskShape  BY DEF FilesInv, FilesTyped
  <1>1. c \in Busy /\ cmds[c].at = "restore" /\ UNCHANGED <<served, outing>>
    BY DEF RestoreDatabase, Busy
  <1>2. /\ Underway(cmds[c]) /\ Moving(cmds[c]) /\ cmds[c].at \in InLease
    BY <1>1, OnlyOne DEF InLease
  <1>3. /\ disk.engine > 0 /\ \A r \in Runtimes : served[r].at # "serving"
        /\ Selectable(disk) /\ cmds[c].path = ActivePath(disk)
    BY <1>1, <1>2 DEF Underway, AfterLease, InLease, Moving, Live
  <1>4. CASE UNCHANGED disk /\ Leave(c)
    BY <1>0, <1>1, <1>4, LeaveOK, QuietStep
  <1>5. CASE ~(UNCHANGED disk /\ Leave(c))
    <2>1. /\ ActivePath(disk) = "private" /\ disk.points # {}
          /\ disk' = [disk EXCEPT !.private = disk.points]
          /\ IF disk.prev = {} THEN Leave(c)
                               ELSE Goto(c, EngineNext(c)) /\ UNCHANGED flock
      BY <1>3, <1>5 DEF RestoreDatabase, ActivePath
    <2>2. /\ disk'.legacy = disk.legacy /\ disk'.private = disk.points
          /\ disk'.receipt = disk.receipt /\ disk'.candidate = disk.candidate
          /\ disk'.points = disk.points /\ disk'.engine = disk.engine
          /\ disk'.intent = disk.intent /\ disk'.prev = disk.prev
      BY <1>a, <2>1 DEF DiskShape
    <2>3. Status(disk) = "private" \/ (Status(disk) = "none" /\ disk.legacy = {})
      <3>1. Status(disk) \in {"none", "private", "publishing", "legacy"}
        BY <1>a, StatusOf
      <3> QED  BY <1>3, <2>1, <3>1 DEF FilesInv, Placed, Selectable, ActivePath
    <2>4. Status(disk') = Status(disk)  BY <2>2 DEF Status
    <2>5. Placed'  BY <2>1, <2>2, <2>3, <2>4 DEF Placed
    <2>6. OldEngineFinds'  BY <1>3, <2>2 DEF OldEngineFinds
    <2>7. OldEnough'  BY <2>2, StillOldEnough
    <2>8. (\A r \in Runtimes : ServerOK(r))'  BY <1>0, <1>1, <1>3, <2>4, ServersStay
    <2>9. CASE disk.prev = {}
      BY <1>0, <1>1, <2>1, <2>5, <2>6, <2>7, <2>8, <2>9, LeaveOK DEF FilesInv
    <2>10. CASE disk.prev # {}
      <3>1. PICK place \in {"mirror", "relay"} : place = EngineNext(c)
        BY DEF EngineNext
      <3>2. place = "relay" => disk.prev # {0}
        BY <1>3, <2>1, <3>1 DEF EngineNext
      <3>3. Selectable(disk') /\ ActivePath(disk') = "private"
        BY <2>2, <2>3, <2>4 DEF Selectable, Unclear, ActivePath
      <3>4. \A k : k.at = place => Moving(k)'
        BY <2>1, <2>2, <2>10, <3>1, <3>2, <3>3 DEF Moving, Live
      <3>5. Goto(c, place) /\ UNCHANGED <<served, flock, outing>>
        BY <1>1, <2>1, <2>10, <3>1
      <3> QED
        BY <1>0, <1>1, <1>2, <1>3, <2>2, <2>4, <2>5, <2>6, <2>7, <3>4, <3>5, LeaseStep
           DEF InLease, UpdateOnly
    <2> QED  BY <2>9, <2>10
  <1> QED  BY <1>4, <1>5

\* A migration changes the live database in place.
LEMMA MigrateKeeps ==
    ASSUME FilesInv, Overtaking, NEW c \in Commanders, Migrate(c) PROVE FilesInv'
  <1> DEFINE Up(S) == {[db EXCEPT !.floor = @ + 1] : db \in S}
  <1>0. FilesTyped'  BY UpdatingTypes, FilesFit DEF FilesInv, Updating
  <1>a. disk \in DiskShape /\ cmds \in [Commanders -> CommandShape]
    BY DEF FilesInv, FilesTyped
  <1>1. c \in Busy /\ cmds[c].at = "migrate" /\ UNCHANGED <<served, outing>>
    BY DEF Migrate, Busy
  <1>2. /\ Underway(cmds[c]) /\ Moving(cmds[c]) /\ Noting(cmds[c])
        /\ cmds[c].at \in InLease
    BY <1>1, OnlyOne DEF InLease
  <1>3. /\ disk.engine > 0 /\ \A r \in Runtimes : served[r].at # "serving"
        /\ Selectable(disk) /\ cmds[c].path = ActivePath(disk)
    BY <1>1, <1>2 DEF Underway, AfterLease, InLease, Moving, Live
  <1>4. CASE UNCHANGED disk /\ Leave(c)
    BY <1>0, <1>1, <1>4, LeaveOK, QuietStep
  <1>5. CASE UNCHANGED <<disk, flock>> /\ Goto(c, "repin") /\ cmds[c].verb = "update"
    <2>1. Placed' /\ OldEngineFinds' /\ OldEnough'
      BY <1>5, FilesKept DEF FilesInv
    <2>2. \A k : k.at = "repin" => Moving(k)'  BY DEF Moving
    <2> QED  BY <1>0, <1>1, <1>2, <1>3, <1>5, <2>1, <2>2, LeaseStep DEF InLease
  <1>6. CASE disk' = [disk EXCEPT ![cmds[c].path] = Up(@)] /\ UNCHANGED <<cmds, flock>>
    <2>1. \/ /\ ActivePath(disk) = "legacy"
             /\ disk' = [disk EXCEPT !.legacy = Up(@)]
          \/ /\ ActivePath(disk) = "private"
             /\ disk' = [disk EXCEPT !.private = Up(@)]
      BY <1>3, <1>6 DEF ActivePath
    <2>2. /\ disk'.receipt = disk.receipt /\ disk'.engine = disk.engine
          /\ disk'.intent = disk.intent
          /\ disk'.candidate = disk.candidate /\ disk'.points = disk.points
          /\ \/ /\ ActivePath(disk) = "legacy"
                /\ disk'.legacy = Up(disk.legacy) /\ disk'.private = disk.private
             \/ /\ ActivePath(disk) = "private"
                /\ disk'.legacy = disk.legacy /\ disk'.private = Up(disk.private)
      BY <1>a, <2>1 DEF DiskShape
    <2>3. (disk'.legacy = {} <=> disk.legacy = {})
          /\ (disk'.private = {} <=> disk.private = {})
      BY <2>2
    <2>4. Status(disk') = Status(disk)  BY <2>2 DEF Status
    <2>5. Selectable(disk') /\ ActivePath(disk') = ActivePath(disk)
      BY <1>3, <2>3, <2>4 DEF Selectable, Unclear, ActivePath
    <2>6. Placed'  BY <2>3, <2>4 DEF Placed, FilesInv
    <2>7. OldEngineFinds'  BY <1>3, <2>2 DEF OldEngineFinds
    <2>8. OldEnough'
      <3>1. Ledger[0] \in Nat  BY InstanceAssumption
      <3>2. \A S \in {disk.legacy, disk.private} :
              (\A db \in S : db.floor >= Ledger[0])
                => \A db \in Up(S) : db.floor >= Ledger[0]
        BY <1>a, <3>1 DEF DiskShape, AtMostOne, Database
      <3> QED  BY <2>2, <3>2 DEF OldEnough, FilesInv
    <2>9. Goto(c, "migrate")  BY <1>1, <1>6, <1>a DEF Goto, CommandShape
    <2>10. \A k : k.at = "migrate" /\ k.path = cmds[c].path => Moving(k)'
      BY <1>3, <2>5 DEF Moving, Live
    <2> QED
      BY <1>0, <1>1, <1>2, <1>3, <1>6, <2>2, <2>4, <2>6, <2>7, <2>8, <2>9, <2>10, LeaseStep
         DEF InLease, UpdateOnly
  <1> QED  BY <1>4, <1>5, <1>6 DEF Migrate

\* The previous engine is laid where it finds the database.
LEMMA RelayKeeps ==
    ASSUME FilesInv, Overtaking, NEW c \in Commanders, RelayEngine(c) PROVE FilesInv'
  <1>0. FilesTyped'  BY RollingBackTypes, FilesFit DEF FilesInv, RollingBack
  <1>a. disk \in DiskShape  BY DEF FilesInv, FilesTyped
  <1>1. /\ c \in Busy /\ cmds[c].at = "relay" /\ UNCHANGED <<served, flock, outing>>
        /\ Goto(c, "unpin")
    BY DEF RelayEngine, Busy
  <1>2. Moving(cmds[c]) /\ cmds[c].at \in InLease
    BY <1>1, OnlyOne DEF InLease
  <1>3. /\ Elsewhere /\ disk'.engine = The(disk.prev)
        /\ disk'.intent = disk.intent /\ disk'.points = disk.points
    BY <1>a DEF RelayEngine, DiskShape, Elsewhere
  <1>4. disk.prev = {The(disk.prev)}
    BY <1>1, <1>2, <1>a, OneOf DEF Moving, DiskShape
  <1>5. Status(disk') = Status(disk)  BY <1>3 DEF Elsewhere, Status
  <1>6. Placed'  BY <1>3, <1>5 DEF FilesInv, Placed, Elsewhere
  <1>7. OldEngineFinds'
    <2>1. SUFFICES ASSUME disk'.engine = 0
                   PROVE  /\ Status(disk) \in {"none", "legacy"}
                          /\ disk.private = {} /\ disk.legacy # {}
      BY <1>3, <1>5 DEF OldEngineFinds, Elsewhere
    <2>2. disk.prev = {0}  BY <1>3, <1>4, <2>1
    <2> QED  BY <1>1, <1>2, <2>2 DEF Moving
  <1>8. OldEnough'  BY <1>3 DEF FilesInv, OldEnough, Elsewhere
  <1>9. \A k : k.at = "unpin" => Moving(k)'  BY DEF Moving
  <1> QED
    BY <1>0, <1>1, <1>2, <1>3, <1>5, <1>6, <1>7, <1>8, <1>9, LeaseStep
       DEF InLease, UpdateOnly

-----------------------------------------------------------------------------
(* The invariant. *)

LEMMA CommandKeeps ==
    ASSUME FilesInv, Overtaking, NEW c \in Commanders, Command(c) PROVE FilesInv'
  <1>1. CASE Begin(c)  BY <1>1, BeginKeeps
  <1>2. CASE Dies(c)  BY <1>2, DiesKeeps
  <1>3. CASE Updating(c)
    BY <1>3, StoppingKeeps, StartingKeeps, BeforeLeaseKeeps, RecordingKeeps,
       EndingKeeps, MigrateKeeps DEF Updating
  <1>4. CASE Relocation(c)
    BY <1>4, DecidingKeeps, RecoveryKeeps, RecordingKeeps, MoveKeeps, BackKeeps
       DEF Relocation
  <1>5. CASE RollingBack(c)
    BY <1>5, DecidingKeeps, RestoreKeeps, RelayKeeps, RecordingKeeps, EndingKeeps
       DEF RollingBack
  <1> QED  BY <1>1, <1>2, <1>3, <1>4, <1>5 DEF Command

LEMMA NothingKeeps ==
    ASSUME FilesInv, UNCHANGED fvars PROVE FilesInv'
  <1>1. UNCHANGED <<disk, served, flock, cmds, outing, overtaken>>
    BY DEF fvars, ivars
  <1>2. FilesTyped' /\ OneBusy'
    BY <1>1 DEF FilesInv, FilesTyped, OneBusy, OnePerson, Busy
  <1>3. (\A r \in Runtimes : ServerOK(r))'
    BY <1>1 DEF FilesInv, ServerOK, Starting
  <1>4. (\A c \in Commanders : CommandOK(c))'
    BY <1>1 DEF FilesInv, CommandOK, Busy, Underway, Moving, Noting, Live, Unasking
  <1> QED  BY <1>1, <1>2, <1>3, <1>4, FilesKept DEF FilesInv

\* The files before any command has run.
Pristine ==
    /\ disk.receipt = {} /\ disk.candidate = {} /\ disk.points = {}
    /\ disk.intent = {} /\ disk.rows = 0
    /\ disk.engine \in {1, 2} /\ disk.pin \in {{0}, {1}, {2}}
    /\ disk.prev \in {{}, {0}, {1}}
    /\ \/ /\ disk.legacy = {[floor |-> Ledger[0], rows |-> 0]}
          /\ disk.private = {}
       \/ /\ disk.private = {[floor |-> Ledger[1], rows |-> 0]}
          /\ disk.legacy = {}
    /\ disk = [legacy |-> disk.legacy, private |-> disk.private,
               candidate |-> disk.candidate, receipt |-> disk.receipt,
               points |-> disk.points, intent |-> disk.intent,
               engine |-> disk.engine, pin |-> disk.pin, prev |-> disk.prev,
               rows |-> disk.rows]

LEMMA FirstFiles == ASSUME InstanceInit PROVE Pristine
  <1> USE DEF Pristine
  <1>a. outing \in OutingShape /\ disk = FirstDisk(outing.start)
    BY OutingRows DEF InstanceInit
  <1>1. outing.start \in {"adopting", "pinned", "fresh", "newer"}
    BY <1>a DEF OutingShape
  <1>2. CASE outing.start = "adopting"  BY <1>a, <1>2 DEF FirstDisk
  <1>3. CASE outing.start = "pinned"  BY <1>a, <1>3 DEF FirstDisk
  <1>4. CASE outing.start = "fresh"  BY <1>a, <1>4 DEF FirstDisk
  <1>5. CASE outing.start = "newer"  BY <1>a, <1>5 DEF FirstDisk
  <1> QED  BY <1>1, <1>2, <1>3, <1>4, <1>5

LEMMA FirstTypes ==
    ASSUME InstanceInit PROVE FilesTyped /\ disk.pin # {}
  <1>a. /\ outing \in OutingShape /\ outing \in Outings
        /\ disk = FirstDisk(outing.start)
    BY OutingRows DEF InstanceInit
  <1>b. /\ 0 \in Floors /\ 1 \in Floors /\ 2 \in Floors
        /\ \A f \in Floors : Ledger[f] \in Nat
        /\ Ledger[0] <= Ledger[1] /\ Ledger[1] <= Ledger[2]
    BY InstanceAssumption DEF Floors
  <1> USE DEF Pristine
  <1>1. Pristine  BY FirstFiles
  <1>2. Status(disk) = "none"  BY <1>1 DEF Status
  <1>3. /\ Selectable(disk)
        /\ ActivePath(disk) = IF disk.legacy = {} THEN "private" ELSE "legacy"
    BY <1>1, <1>2 DEF Selectable, Unclear, ActivePath
  <1>4. \A r \in Runtimes :
           served[r] = IF r \in outing.up
                       THEN [at |-> "serving", path |-> ActivePath(disk),
                             code |-> IF disk.legacy = {} THEN 1 ELSE 0]
                       ELSE Down
    BY DEF InstanceInit
  <1>5. FilesTyped
    <2>1. disk \in DiskShape
      <3>1. /\ [floor |-> Ledger[0], rows |-> 0] \in Database
            /\ [floor |-> Ledger[1], rows |-> 0] \in Database
        BY <1>b DEF Database
      <3>a. /\ {[floor |-> Ledger[0], rows |-> 0]} \in AtMostOne(Database)
            /\ {[floor |-> Ledger[1], rows |-> 0]} \in AtMostOne(Database)
            /\ {} \in AtMostOne(Database)
        BY <3>1, Single, NoneOf
      <3>b. {{}, {0}, {1}, {2}} \subseteq AtMostOne(Floors)
        BY <1>b, Single, NoneOf
      <3>2. /\ disk.legacy \in AtMostOne(Database)
            /\ disk.private \in AtMostOne(Database)
        BY <1>1, <3>a
      <3>3. disk.pin \in AtMostOne(Floors) /\ disk.prev \in AtMostOne(Floors)
        BY <1>1, <3>b
      <3>4. /\ disk.candidate \in AtMostOne(Database)
            /\ disk.points \in AtMostOne(Database)
            /\ disk.receipt \in AtMostOne([status : {"publishing", "private", "legacy"},
                                           db : Database])
        BY <1>1, NoneOf
      <3>5. disk.engine \in Floors /\ disk.intent \in SUBSET Runtimes /\ disk.rows \in Nat
        BY <1>1, <1>b
      <3> QED  BY <1>1, <3>2, <3>3, <3>4, <3>5 DEF DiskShape
    <2>2. served \in [Runtimes -> ServerShape]
      <3>1. ActivePath(disk) \in Places  BY DEF ActivePath, Places
      <3>2. ASSUME NEW r \in Runtimes PROVE served[r] \in ServerShape
        <4>1. CASE r \in outing.up
          <5>1. PICK code \in {0, 1} :
                  served[r] = [at |-> "serving", path |-> ActivePath(disk), code |-> code]
            BY <1>4, <4>1
          <5>2. code \in Floors  BY <1>b
          <5> QED  BY <3>1, <5>1, <5>2 DEF ServerShape
        <4>2. CASE r \notin outing.up  BY <1>4, <4>2, DownTypes
        <4> QED  BY <4>1, <4>2
      <3>3. served = [r \in Runtimes |-> served[r]]  BY DEF InstanceInit
      <3> QED  BY <3>2, <3>3
    <2>3. flock \in AtMostOne(Commanders)  BY NoneOf DEF InstanceInit
    <2>4. cmds \in [Commanders -> CommandShape]
      BY IdleIsNoCommand DEF InstanceInit
    <2> QED  BY <1>a, <2>1, <2>2, <2>3, <2>4 DEF FilesTyped
  <1> QED  BY <1>1, <1>5

LEMMA FilesStart ==
    ASSUME OnePerson, InstanceInit PROVE FilesInv
  <1>a. /\ outing \in OutingShape /\ outing \in Outings
        /\ disk = FirstDisk(outing.start)
    BY OutingRows DEF InstanceInit
  <1>b. /\ 0 \in Floors /\ 1 \in Floors /\ 2 \in Floors
        /\ \A f \in Floors : Ledger[f] \in Nat
        /\ Ledger[0] <= Ledger[1] /\ Ledger[1] <= Ledger[2]
    BY InstanceAssumption DEF Floors
  <1> USE DEF Pristine
  <1>1. Pristine  BY FirstFiles
  <1>2. Status(disk) = "none"  BY <1>1 DEF Status
  <1>3. /\ Selectable(disk)
        /\ ActivePath(disk) = IF disk.legacy = {} THEN "private" ELSE "legacy"
    BY <1>1, <1>2 DEF Selectable, Unclear, ActivePath
  <1>4. \A r \in Runtimes :
           served[r] = IF r \in outing.up
                       THEN [at |-> "serving", path |-> ActivePath(disk),
                             code |-> IF disk.legacy = {} THEN 1 ELSE 0]
                       ELSE Down
    BY DEF InstanceInit
  <1>5. FilesTyped  BY FirstTypes
  <1>6. Placed  BY <1>1, <1>2 DEF Placed
  <1>7. OldEngineFinds  BY <1>1 DEF OldEngineFinds
  <1>8. OldEnough  BY <1>1, <1>b DEF OldEnough
  <1>9. ASSUME NEW r \in Runtimes PROVE ServerOK(r)
    <2>1. CASE served[r] = Down
      BY <2>1 DEF ServerOK, Starting, Down, InstanceInit
    <2>2. CASE served[r] # Down
      <3>1. /\ served[r].at = "serving" /\ served[r].path = ActivePath(disk)
            /\ served[r].code = IF disk.legacy = {} THEN 1 ELSE 0
        <4>1. r \in outing.up  BY <1>4, <2>2
        <4>2. served[r] = [at |-> "serving", path |-> ActivePath(disk),
                           code |-> IF disk.legacy = {} THEN 1 ELSE 0]
          BY <1>4, <4>1
        <4> QED  BY <4>2
      <3>2. \A db \in disk[served[r].path] : db.floor >= Ledger[served[r].code]
        BY <1>1, <1>3, <1>b, <3>1
      <3>3. r \notin overtaken  BY DEF InstanceInit
      <3> QED  BY <1>2, <3>1, <3>2, <3>3 DEF ServerOK, Starting
    <2> QED  BY <2>1, <2>2
  <1>10. \A c \in Commanders : cmds[c] = NoCommand /\ c \notin Busy
    BY IdleIsNoCommand DEF InstanceInit, Busy
  <1>11. \A c \in Commanders : CommandOK(c)  BY <1>10 DEF CommandOK
  <1>12. OneBusy
    <2>1. Busy = {} /\ flock = {}  BY <1>10 DEF Busy, InstanceInit
    <2> QED  BY <1>a, <2>1 DEF OneBusy, OnePerson
  <1> QED  BY <1>5, <1>6, <1>7, <1>8, <1>9, <1>11, <1>12 DEF FilesInv

LEMMA TypesStart ==
    ASSUME InstanceInit PROVE TypesInv
  <1>1. FilesTyped /\ disk.pin # {}  BY FirstTypes
  <1>2. \A c \in Commanders : cmds[c] = NoCommand  BY DEF InstanceInit
  <1>3. \A c \in Commanders : Fitted(c)
    BY <1>2, IdleIsNoCommand DEF Fitted, Fits, InLease
  <1> QED  BY <1>1, <1>3 DEF TypesInv

LEMMA TypesInvariant == RuntimeSpec => []TypesInv
  <1>1. RuntimeInit => TypesInv  BY TypesStart DEF RuntimeInit
  <1>2. TypesInv /\ [RuntimeNext]_<<svars, wvars, fvars, part>> => TypesInv'
    <2>1. ASSUME TypesInv, UNCHANGED fvars PROVE TypesInv'
      BY <2>1 DEF fvars, ivars, TypesInv, FilesTyped, Fitted, Fits
    <2>2. ASSUME TypesInv, InstanceNext PROVE TypesInv'
      BY <2>2, UpdatingFitted, RelocationFitted, RollingBackFitted, OtherFitted
         DEF InstanceNext, Command
    <2> QED  BY <2>1, <2>2 DEF RuntimeNext
  <1> QED  BY <1>1, <1>2, PTL DEF RuntimeSpec

OvertakenFits == overtaken \subseteq Runtimes

\* Every file, server and command is well formed, for any number of persons,
\* servers launched at any moment, and deaths: no step reads a database, a
\* receipt or an engine version that is not there.
THEOREM InstanceTypes == RuntimeSpec => []InstanceTypeOK
  <1>1. RuntimeInit => OvertakenFits
    BY DEF RuntimeInit, InstanceInit, OvertakenFits
  <1>2. OvertakenFits /\ [RuntimeNext]_<<svars, wvars, fvars, part>> => OvertakenFits'
    BY DEF RuntimeNext, InstanceNext, Overtaking, fvars, OvertakenFits
  <1>3. TypesInv /\ OvertakenFits => InstanceTypeOK
    BY DEF TypesInv, FilesTyped, InstanceTypeOK, OvertakenFits
  <1> QED  BY <1>1, <1>2, <1>3, TypesInvariant, PTL DEF RuntimeSpec

\* Every row of the services and every file below them is well formed.
THEOREM RuntimeTypes == RuntimeSpec => []RuntimeTypeOK
  <1>1. SprintTypeOK /\ WakesTypeOK /\ InstanceTypeOK => RuntimeTypeOK
    BY DEF RuntimeTypeOK
  <1> QED  BY <1>1, SprintTypes, WakeTypes, InstanceTypes, PTL

LEMMA FilesStep ==
    ASSUME FilesInv, [RuntimeNext]_<<svars, wvars, fvars, part>> PROVE FilesInv'
  <1>1. CASE UNCHANGED fvars  BY <1>1, NothingKeeps
  <1>2. CASE InstanceNext
    BY <1>2, ServeKeeps, OldUpdateKeeps, CommandKeeps DEF InstanceNext
  <1> QED  BY <1>1, <1>2 DEF RuntimeNext

LEMMA FilesInvariant == RuntimeSpec /\ OnePerson => []FilesInv
  <1>1. RuntimeInit /\ OnePerson => FilesInv  BY FilesStart DEF RuntimeInit
  <1>2. FilesInv /\ [RuntimeNext]_<<svars, wvars, fvars, part>> => FilesInv'
    BY FilesStep
  <1> QED  BY <1>1, <1>2, PTL DEF RuntimeSpec

-----------------------------------------------------------------------------
(* Where the one database is. *)

LEMMA AuthorityIs ==
    ASSUME FilesInv
    PROVE  /\ Status(disk) \in {"none", "legacy"} /\ disk.legacy # {} =>
                disk.legacy = {Authority}
           /\ Status(disk) = "publishing" => Authority = The(disk.receipt).db
           /\ Status(disk) = "private" \/ (Status(disk) = "none" /\ disk.legacy = {}) =>
                disk.private = {Authority}
  <1>a. disk.legacy \in AtMostOne(Database) /\ disk.private \in AtMostOne(Database)
    BY DEF FilesInv, FilesTyped, DiskShape
  <1>1. CASE Status(disk) \in {"none", "legacy"}
    <2>1. Authority = The(IF disk.legacy # {} THEN disk.legacy ELSE disk.private)
      BY <1>1 DEF Authority
    <2>2. disk.legacy # {} => disk.legacy = {The(disk.legacy)}  BY <1>a, OneOf
    <2>3. disk.private # {} => disk.private = {The(disk.private)}  BY <1>a, OneOf
    <2>4. Status(disk) = "none" => disk.legacy # {} \/ disk.private # {}
      BY DEF FilesInv, Placed
    <2> QED  BY <1>1, <2>1, <2>2, <2>3, <2>4
  <1>2. CASE Status(disk) = "publishing"  BY <1>2 DEF Authority
  <1>3. CASE Status(disk) = "private"
    <2>1. Authority = The(disk.private)  BY <1>3 DEF Authority
    <2>2. disk.private # {}  BY <1>3 DEF FilesInv, Placed
    <2>3. disk.private = {The(disk.private)}  BY <1>a, <2>2, OneOf
    <2> QED  BY <1>3, <2>1, <2>3
  <1>4. CASE Status(disk) \notin {"none", "legacy", "publishing", "private"}
    BY <1>4
  <1> QED  BY <1>1, <1>2, <1>3, <1>4

LEMMA LiveAuthority ==
    ASSUME FilesInv, Status(disk) # "publishing"
    PROVE  disk[ActivePath(disk)] = {Authority}
  <1>1. Status(disk) \in {"none", "legacy", "private"}
    BY StatusOf DEF FilesInv, FilesTyped
  <1>2. CASE Status(disk) = "private"
    BY <1>2, AuthorityIs DEF ActivePath
  <1>3. CASE Status(disk) \in {"none", "legacy"} /\ disk.legacy # {}
    <2>1. ActivePath(disk) = "legacy"  BY <1>3 DEF ActivePath
    <2> QED  BY <1>3, <2>1, AuthorityIs
  <1>4. CASE Status(disk) \in {"none", "legacy"} /\ disk.legacy = {}
    <2>1. ActivePath(disk) = "private"  BY <1>4 DEF ActivePath
    <2>2. Status(disk) = "none"  BY <1>4 DEF FilesInv, Placed
    <2> QED  BY <1>4, <2>1, <2>2, AuthorityIs
  <1> QED  BY <1>1, <1>2, <1>3, <1>4

\* A server that nothing has overtaken while it started serves the one
\* database, with every migration of its code, whenever it was launched, and
\* whichever move, rollback or death it was launched in.
THEOREM ServersHold == RuntimeSpec /\ OnePerson => []ServesTheAuthority
  <1>1. ASSUME FilesInv PROVE ServesTheAuthority
    <2>1. SUFFICES ASSUME NEW r \in Runtimes \ overtaken, served[r].at = "serving"
                   PROVE  /\ disk[served[r].path] = {Authority}
                          /\ Authority.floor >= Ledger[served[r].code]
      BY DEF ServesTheAuthority
    <2>2. /\ Status(disk) # "publishing" /\ served[r].path = ActivePath(disk)
          /\ \A db \in disk[served[r].path] : db.floor >= Ledger[served[r].code]
      BY <1>1, <2>1 DEF FilesInv, ServerOK
    <2>3. disk[served[r].path] = {Authority}  BY <1>1, <2>2, LiveAuthority
    <2> QED  BY <2>2, <2>3
  <1>2. FilesInv => ServesTheAuthority  BY <1>1
  <1> QED  BY <1>2, FilesInvariant, PTL

-----------------------------------------------------------------------------
(* What an update stopped is not forgotten. *)

Forgets ==
    \A r \in Remembered : r \notin Remembered' =>
       \E c \in Commanders :
          \/ cmds[c].at = "forget" /\ r \in cmds[c].held
          \/ cmds[c].at = "note" /\ cmds'[c].at = "idle"

\* Nothing is forgotten while the notes and what commands know only grow.
LEMMA StillRemembered ==
    ASSUME disk.intent \subseteq disk'.intent,
           \A c \in Commanders : cmds[c].held \subseteq cmds'[c].held
    PROVE  Forgets
  BY DEF Forgets, Remembered

LEMMA LeavingForgets ==
    ASSUME FilesInv, NEW c \in Commanders, c \in Busy, Leave(c),
           disk'.intent = disk.intent
    PROVE  Forgets
  <1>1. cmds \in [Commanders -> CommandShape]  BY DEF FilesInv, FilesTyped
  <1>2. \A d \in Commanders : d # c => cmds'[d] = cmds[d]  BY <1>1 DEF Leave
  <1>3. cmds'[c].at = "idle"  BY <1>1, IdleIsNoCommand DEF Leave
  <1>4. cmds[c].at # "note" => cmds[c].held \subseteq disk.intent
    BY OnlyOne DEF Noting
  <1> QED  BY <1>2, <1>3, <1>4 DEF Forgets, Remembered

LEMMA GoingForgets ==
    ASSUME FilesInv, NEW c \in Commanders, NEW place, Goto(c, place),
           disk.intent \subseteq disk'.intent
    PROVE  Forgets
  <1>1. PICK k : k.held = cmds[c].held /\ cmds' = [cmds EXCEPT ![c] = k]
    BY GoesTo
  <1>2. cmds \in [Commanders -> CommandShape]  BY DEF FilesInv, FilesTyped
  <1>3. \A d \in Commanders : cmds[d].held \subseteq cmds'[d].held
    BY <1>1, <1>2
  <1> QED  BY <1>3, StillRemembered

LEMMA UpdatingForgets ==
    ASSUME FilesInv, NEW c \in Commanders, Updating(c) PROVE Forgets
  <1>a. /\ disk \in DiskShape /\ cmds \in [Commanders -> CommandShape]
        /\ cmds[c] \in CommandShape
    BY DEF FilesInv, FilesTyped
  <1>b. cmds[c].at # "idle" => c \in Busy /\ Noting(cmds[c])
    <2>1. cmds[c].at # "idle" => c \in Busy  BY DEF Busy
    <2> QED  BY <2>1, OnlyOne
  <1>1. ASSUME NEW k, cmds' = [cmds EXCEPT ![c] = k],
               cmds[c].held \subseteq k.held, disk.intent \subseteq disk'.intent
        PROVE  Forgets
    <2>1. \A d \in Commanders : cmds[d].held \subseteq cmds'[d].held
      BY <1>a, <1>1
    <2> QED  BY <1>1, <2>1, StillRemembered
  <1>2. CASE LoadIntent(c)
    <2>1. PICK k : k = [cmds[c] EXCEPT !.at = "stop", !.todo = Runtimes,
                                      !.held = disk.intent]  OBVIOUS
    <2>2. cmds[c].held = {}  BY <1>2, <1>b DEF LoadIntent, Noting
    <2> QED  BY <1>1, <1>2, <2>1, <2>2 DEF LoadIntent
  <1>3. CASE StopNext(c)
    <2> DEFINE r == First(StopOrder, cmds[c].todo)
    <2>1. CASE r \notin Running
      <3>1. PICK k : k = [cmds[c] EXCEPT !.todo = @ \ {r}]  OBVIOUS
      <3>2. cmds' = [cmds EXCEPT ![c] = k] /\ UNCHANGED disk
        BY <1>3, <2>1, <3>1 DEF StopNext
      <3>3. k.held = cmds[c].held  BY <1>a, <3>1 DEF CommandShape
      <3> QED  BY <1>1, <3>2, <3>3
    <2>2. CASE r \in Running
      <3>1. PICK k : k = [cmds[c] EXCEPT !.at = "note", !.held = @ \cup {r},
                                        !.todo = @ \ {r}]  OBVIOUS
      <3>2. cmds' = [cmds EXCEPT ![c] = k] /\ UNCHANGED disk
        BY <1>3, <2>2, <3>1 DEF StopNext
      <3>3. k.held = cmds[c].held \cup {r}  BY <1>a, <3>1 DEF CommandShape
      <3> QED  BY <1>1, <3>2, <3>3
    <2> QED  BY <2>1, <2>2
  <1>4. CASE WriteIntent(c)
    <2>1. disk'.intent = cmds[c].held  BY <1>4, <1>a DEF WriteIntent, Noted, DiskShape
    <2>2. disk.intent \subseteq cmds[c].held  BY <1>4, <1>b DEF WriteIntent, Noting
    <2> QED  BY <1>4, <2>1, <2>2, GoingForgets DEF WriteIntent
  <1>5. CASE Enter(c)
    <2>1. PICK k : k = [cmds[c] EXCEPT !.at = "relocate", !.adopted = disk.legacy # {}]
      OBVIOUS
    <2>2. k.held = cmds[c].held  BY <1>a, <2>1 DEF CommandShape
    <2>3. c \in Busy  BY <1>5 DEF Enter, Busy
    <2> QED  BY <1>1, <1>5, <2>1, <2>2, <2>3, LeavingForgets DEF Enter
  <1>6. CASE Release(c)
    <2>1. PICK k : k = [cmds[c] EXCEPT !.at = "start", !.todo = cmds[c].held]  OBVIOUS
    <2>2. k.held = cmds[c].held  BY <1>a, <2>1 DEF CommandShape
    <2> QED  BY <1>1, <1>6, <2>1, <2>2 DEF Release
  <1>7. CASE StartNext(c)
    <2> DEFINE r == First(StartOrder, cmds[c].todo)
    <2>1. PICK k : k = [cmds[c] EXCEPT !.todo = @ \ {r}, !.tried = @ \cup {r}]  OBVIOUS
    <2>2. k.held = cmds[c].held  BY <1>a, <2>1 DEF CommandShape
    <2>3. cmds' = [cmds EXCEPT ![c] = k] /\ UNCHANGED disk
      BY <1>7, <2>1 DEF StartNext
    <2> QED  BY <1>1, <2>2, <2>3
  <1>8. CASE StartFails(c)
    <2> DEFINE r == First(StartOrder, cmds[c].todo)
    <2>1. PICK k : k = [cmds[c] EXCEPT !.at = "undo", !.tried = @ \cup {r}]  OBVIOUS
    <2>2. k.held = cmds[c].held  BY <1>a, <2>1 DEF CommandShape
    <2>3. cmds' = [cmds EXCEPT ![c] = k] /\ UNCHANGED disk
      BY <1>8, <2>1 DEF StartFails
    <2> QED  BY <1>1, <2>2, <2>3
  <1>9. CASE ClearIntent(c)
    <2>1. cmds[c].at = "forget" /\ disk.intent \subseteq cmds[c].held
      <3>1. cmds[c].at = "forget"  BY <1>9 DEF ClearIntent
      <3>2. cmds[c].verb = "update"  BY <1>b, <3>1 DEF Noting, AfterLease
      <3> QED  BY <1>b, <3>1, <3>2 DEF Noting
    <2>2. \A d \in Commanders : d # c => cmds'[d] = cmds[d]
      BY <1>9, <1>a DEF ClearIntent, Leave
    <2> QED  BY <2>1, <2>2 DEF Forgets, Remembered
  <1>10. CASE Undo(c)
    <2>1. c \in Busy  BY <1>10 DEF Undo, Busy
    <2> QED  BY <1>10, <2>1, LeavingForgets DEF Undo
  <1>11. CASE Migrate(c)
    <2>1. c \in Busy  BY <1>11 DEF Migrate, Busy
    <2>2. disk'.intent = disk.intent
      <3>1. CASE cmds[c].path = "legacy"  BY <1>11, <1>a, <3>1 DEF Migrate, DiskShape
      <3>2. CASE cmds[c].path = "private"  BY <1>11, <1>a, <3>2 DEF Migrate, DiskShape
      <3> QED  BY <1>a, <3>1, <3>2 DEF CommandShape, Places
    <2>3. UNCHANGED cmds \/ Goto(c, "repin") \/ Leave(c)  BY <1>11 DEF Migrate
    <2> QED  BY <2>1, <2>2, <2>3, StillRemembered, GoingForgets, LeavingForgets
  <1>12. CASE RecordPrevious(c) \/ LayEngine(c) \/ BackUp(c) \/ PublishPin(c)
    <2>1. disk'.intent = disk.intent
      BY <1>12, <1>a DEF RecordPrevious, LayEngine, BackUp, PublishPin, DiskShape
    <2> QED
      BY <1>12, <2>1, GoingForgets DEF RecordPrevious, LayEngine, BackUp, PublishPin
  <1>13. CASE RequireHealth(c)
    BY <1>13, GoingForgets DEF RequireHealth
  <1> QED
    BY <1>2, <1>3, <1>4, <1>5, <1>6, <1>7, <1>8, <1>9, <1>10, <1>11, <1>12, <1>13
       DEF Updating

LEMMA OthersForget ==
    ASSUME FilesInv, NEW c \in Commanders, Relocation(c) \/ RollingBack(c)
    PROVE  Forgets
  <1>a. /\ disk \in DiskShape /\ cmds[c].path \in Places
    BY DEF FilesInv, FilesTyped, CommandShape
  <1>1. c \in Busy
    BY DEF Relocation, Relocate, RecoverPublishing, Reseal, BackUpLegacy,
           MakeCandidate, Announce, Publish, Seal, ClearLegacy, Mirror, SignOff,
           DropPrivate, RollingBack, ClaimFlock, RestoreDatabase, VerifyFloor,
           RelayEngine, RestorePin, ConsumePrevious, Busy
  <1>2. Leave(c) \/ \E place : Goto(c, place)
    BY DEF Relocation, Relocate, RecoverPublishing, Reseal, BackUpLegacy,
           MakeCandidate, Announce, Publish, Seal, ClearLegacy, Mirror, SignOff,
           DropPrivate, RollingBack, ClaimFlock, RestoreDatabase, VerifyFloor,
           RelayEngine, RestorePin, ConsumePrevious
  <1>3. disk'.intent = disk.intent
    <2>1. CASE RecoverPublishing(c)
      <3>1. Recovered.intent = disk.intent  BY <1>a DEF Recovered, DiskShape
      <3> QED  BY <2>1, <3>1 DEF RecoverPublishing
    <2>2. CASE RestoreDatabase(c)
      <3>1. CASE cmds[c].path = "legacy"
        BY <2>2, <1>a, <3>1 DEF RestoreDatabase, DiskShape
      <3>2. CASE cmds[c].path = "private"
        BY <2>2, <1>a, <3>2 DEF RestoreDatabase, DiskShape
      <3> QED  BY <1>a, <3>1, <3>2 DEF Places
    <2>3. CASE ~RecoverPublishing(c) /\ Relocation(c)
      BY <1>a, <2>3 DEF Relocation, Relocate, Reseal, BackUpLegacy,
           MakeCandidate, Announce, Publish, Seal, ClearLegacy, Mirror, SignOff,
           DropPrivate, DiskShape
    <2>4. CASE ~RestoreDatabase(c) /\ RollingBack(c)
      BY <1>a, <2>4 DEF RollingBack, ClaimFlock, VerifyFloor, RelayEngine,
           RestorePin, ConsumePrevious, DiskShape
    <2> QED  BY <2>1, <2>2, <2>3, <2>4
  <1> QED  BY <1>1, <1>2, <1>3, LeavingForgets, GoingForgets

LEMMA RememberedStep ==
    ASSUME FilesInv, InstanceNext PROVE Forgets
  <1>a. disk \in DiskShape /\ served \in [Runtimes -> ServerShape]
        /\ cmds \in [Commanders -> CommandShape]
    BY DEF FilesInv, FilesTyped
  <1>1. CASE Serve
    <2>1. UNCHANGED cmds
      BY <1>1 DEF Serve, LaunchServer, CheckServer, OwnServer, WriteRow, ServerEnds
    <2>2. disk'.intent = disk.intent
      <3>1. ASSUME NEW r \in Runtimes, WriteRow(r) PROVE disk'.intent = disk.intent
        <4>1. CASE served[r].path = "legacy"
          BY <1>a, <3>1, <4>1 DEF WriteRow, DiskShape
        <4>2. CASE served[r].path = "private"
          BY <1>a, <3>1, <4>2 DEF WriteRow, DiskShape
        <4> QED  BY <1>a, <4>1, <4>2 DEF ServerShape, Places
      <3> QED
        BY <1>1, <3>1 DEF Serve, LaunchServer, CheckServer, OwnServer, ServerEnds
    <2> QED  BY <2>1, <2>2, StillRemembered
  <1>2. CASE OldUpdate
    BY <1>2, <1>a, StillRemembered DEF OldUpdate, DiskShape
  <1>3. ASSUME NEW c \in Commanders, Begin(c) PROVE Forgets
    <2>1. cmds[c] = NoCommand
      BY <1>3 DEF FilesInv, CommandOK, Begin, Busy
    <2>2. cmds[c].held = {}  BY <2>1 DEF NoCommand
    <2>3. UNCHANGED disk /\ \A d \in Commanders : d # c => cmds'[d] = cmds[d]
      BY <1>3, <1>a DEF Begin
    <2> QED  BY <2>2, <2>3, StillRemembered
  <1>4. ASSUME NEW c \in Commanders, Dies(c) PROVE Forgets
    <2>1. c \in Busy /\ Leave(c) /\ UNCHANGED disk  BY <1>4 DEF Dies, Busy
    <2> QED  BY <2>1, LeavingForgets
  <1> QED
    BY <1>1, <1>2, <1>3, <1>4, UpdatingForgets, OthersForget
       DEF InstanceNext, Command

\* A runtime that an update stopped stays written down, or known to a command,
\* until an update has brought it back.
THEOREM RestartsHold == RuntimeSpec /\ OnePerson => RestartsAreRemembered
  <1>1. FilesInv /\ [RuntimeNext]_<<svars, wvars, fvars, part>> => [Forgets]_fvars
    BY RememberedStep DEF RuntimeNext
  <1> QED
    BY <1>1, FilesInvariant, PTL DEF RuntimeSpec, RestartsAreRemembered, Forgets

-----------------------------------------------------------------------------
(* There is one store. *)

StoreStep == [Store!Next]_<<Authority, disk.rows, disk.points>>

LEMMA Stays ==
    ASSUME Authority' = Authority, disk'.rows = disk.rows,
           disk'.points = disk.points
    PROVE  StoreStep
  BY DEF StoreStep

LEMMA StaysElsewhere ==
    ASSUME Elsewhere PROVE Authority' = Authority
  <1>1. Status(disk') = Status(disk)  BY DEF Elsewhere, Status
  <1> QED  BY <1>1 DEF Elsewhere, Authority

\* A row goes to the store, or to the copy an overtaken server has open.
LEMMA StoreWrite ==
    ASSUME FilesInv, NEW r \in Runtimes, WriteRow(r) PROVE StoreStep
  <1> DEFINE Row(S) == {[db EXCEPT !.rows = disk.rows + 1] : db \in S}
             Home == Status(disk) # "publishing" /\ served[r].path = ActivePath(disk)
  <1>a. disk \in DiskShape /\ served[r] \in ServerShape /\ served[r].at = "serving"
    BY DEF FilesInv, FilesTyped, WriteRow
  <1>1. /\ disk'.receipt = disk.receipt /\ disk'.points = disk.points
        /\ disk'.rows = disk.rows + 1
        /\ \/ /\ served[r].path = "legacy"
              /\ disk'.legacy = Row(disk.legacy) /\ disk'.private = disk.private
           \/ /\ served[r].path = "private"
              /\ disk'.legacy = disk.legacy /\ disk'.private = Row(disk.private)
        /\ disk'.legacy = {} <=> disk.legacy = {}
        /\ Status(disk') = Status(disk)
    BY <1>a, RowWritten
  <1>2. CASE Home
    <2>1. disk[ActivePath(disk)] = {Authority}  BY <1>2, LiveAuthority
    <2>2. PICK db : db = [Authority EXCEPT !.rows = disk.rows + 1]  OBVIOUS
    <2>3. Authority' = db
      <3>1. CASE ActivePath(disk) = "legacy"
        <4>1. disk'.legacy = {db}  BY <1>1, <1>2, <2>1, <2>2, <3>1
        <4>2. Status(disk) # "private"  BY <3>1 DEF ActivePath
        <4> QED  BY <1>1, <1>2, <4>1, <4>2, TheOne DEF Authority
      <3>2. CASE ActivePath(disk) = "private"
        <4>1. disk'.private = {db}  BY <1>1, <1>2, <2>1, <2>2, <3>2
        <4>2. Status(disk) = "private" \/ disk'.legacy = {}
          BY <1>1, <3>2 DEF ActivePath
        <4> QED  BY <1>1, <1>2, <4>1, <4>2, TheOne DEF Authority
      <3> QED  BY <3>1, <3>2 DEF ActivePath
    <2>4. Store!Write  BY <1>1, <2>2, <2>3 DEF Store!Write
    <2> QED  BY <2>4 DEF StoreStep, Store!Next
  <1>3. CASE ~Home
    <2>1. r \in overtaken  BY <1>a, <1>3 DEF FilesInv, ServerOK
    <2>2. Authority' = Authority
      <3>1. CASE Status(disk) = "publishing"
        BY <1>1, <3>1 DEF Authority
      <3>2. CASE Status(disk) # "publishing" /\ ActivePath(disk) = "legacy"
        <4>1. disk'.legacy = disk.legacy  BY <1>1, <1>3, <3>2
        <4>2. Status(disk) # "private" /\ disk.legacy # {}
          BY <3>2 DEF ActivePath, FilesInv, Placed
        <4> QED  BY <1>1, <3>2, <4>1, <4>2 DEF Authority
      <3>3. CASE Status(disk) # "publishing" /\ ActivePath(disk) = "private"
        <4>1. disk'.private = disk.private  BY <1>1, <1>3, <3>3
        <4>2. Status(disk) = "private" \/ disk.legacy = {}
          BY <3>3 DEF ActivePath
        <4> QED  BY <1>1, <3>3, <4>1, <4>2 DEF Authority
      <3> QED  BY <3>1, <3>2, <3>3 DEF ActivePath
    <2>3. Store!Miss  BY <1>1, <1>a, <2>1, <2>2 DEF Store!Miss
    <2> QED  BY <2>3 DEF StoreStep, Store!Next
  <1> QED  BY <1>2, <1>3

LEMMA StoreAdvance ==
    ASSUME FilesInv, NEW c \in Commanders, Migrate(c) PROVE StoreStep
  <1>a. disk \in DiskShape  BY DEF FilesInv, FilesTyped
  <1>1. c \in Busy /\ cmds[c].at = "migrate"  BY DEF Migrate, Busy
  <1>2. Selectable(disk) /\ Status(disk) # "publishing" /\ cmds[c].path = ActivePath(disk)
    BY <1>1, OnlyOne DEF Moving, Live, Selectable
  <1>3. disk[ActivePath(disk)] = {Authority}  BY <1>2, LiveAuthority
  <1>4. CASE UNCHANGED disk
    BY <1>4, Stays, StaysElsewhere DEF Elsewhere
  <1>5. CASE disk' = [disk EXCEPT ![cmds[c].path] = {[db EXCEPT !.floor = @ + 1] : db \in @}]
    <2>1. ActivePath(disk) \in {"legacy", "private"}  BY DEF ActivePath
    <2>2. /\ disk'.rows = disk.rows /\ disk'.points = disk.points
          /\ disk'.receipt = disk.receipt
          /\ \/ /\ ActivePath(disk) = "legacy" /\ disk'.private = disk.private
                /\ disk'.legacy = {[db EXCEPT !.floor = @ + 1] : db \in disk.legacy}
             \/ /\ ActivePath(disk) = "private" /\ disk'.legacy = disk.legacy
                /\ disk'.private = {[db EXCEPT !.floor = @ + 1] : db \in disk.private}
      <3>1. CASE ActivePath(disk) = "legacy"  BY <1>a, <1>2, <1>5, <3>1 DEF DiskShape
      <3>2. CASE ActivePath(disk) = "private"  BY <1>a, <1>2, <1>5, <3>2 DEF DiskShape
      <3> QED  BY <2>1, <3>1, <3>2
    <2>3. PICK db : db = [Authority EXCEPT !.floor = @ + 1]  OBVIOUS
    <2>4. Status(disk') = Status(disk) /\ Status(disk) # "publishing"
      BY <1>2, <2>2 DEF Status, Selectable
    <2>5. Authority' = db
      <3>1. CASE ActivePath(disk) = "legacy"
        <4>1. disk'.legacy = {db}  BY <1>3, <2>2, <2>3, <3>1
        <4>2. Status(disk) # "private"  BY <3>1 DEF ActivePath
        <4> QED  BY <2>4, <4>1, <4>2, TheOne DEF Authority
      <3>2. CASE ActivePath(disk) = "private"
        <4>1. disk'.private = {db}  BY <1>3, <2>2, <2>3, <3>2
        <4>2. Status(disk) = "private" \/ disk'.legacy = {}
          BY <2>2, <3>2 DEF ActivePath
        <4> QED  BY <2>4, <4>1, <4>2, TheOne DEF Authority
      <3> QED  BY <2>1, <3>1, <3>2
    <2>6. Store!Advance  BY <2>2, <2>3, <2>5 DEF Store!Advance
    <2> QED  BY <2>6 DEF StoreStep, Store!Next
  <1> QED  BY <1>4, <1>5 DEF Migrate

LEMMA StoreSave ==
    ASSUME FilesInv, NEW c \in Commanders, BackUp(c) \/ BackUpLegacy(c)
    PROVE  StoreStep
  <1>a. disk \in DiskShape  BY DEF FilesInv, FilesTyped
  <1>1. c \in Busy /\ Moving(cmds[c])
    <2>1. c \in Busy  BY DEF BackUp, BackUpLegacy, Busy
    <2> QED  BY <2>1, OnlyOne
  <1>2. disk'.points \subseteq disk.points \cup {Authority}
    <2>1. CASE BackUp(c)
      <3>1. Status(disk) # "publishing" /\ ActivePath(disk) = "private"
        BY <1>1, <2>1 DEF BackUp, Moving, Live, Selectable
      <3>2. disk.private = {Authority}  BY <3>1, LiveAuthority
      <3> QED  BY <1>a, <2>1, <3>2 DEF BackUp, DiskShape
    <2>2. CASE BackUpLegacy(c)
      <3>1. disk.legacy = {Authority}
        BY <1>1, <2>2, AuthorityIs DEF BackUpLegacy, Moving
      <3> QED  BY <1>a, <2>2, <3>1 DEF BackUpLegacy, DiskShape
    <2> QED  BY <2>1, <2>2
  <1>3. disk'.rows = disk.rows /\ Elsewhere
    BY <1>a DEF BackUp, BackUpLegacy, DiskShape, Elsewhere
  <1>4. Store!Save  BY <1>2, <1>3, StaysElsewhere DEF Store!Save
  <1> QED  BY <1>4 DEF StoreStep, Store!Next

LEMMA StoreRestore ==
    ASSUME FilesInv, NEW c \in Commanders, RestoreDatabase(c) PROVE StoreStep
  <1>a. disk \in DiskShape  BY DEF FilesInv, FilesTyped
  <1>1. c \in Busy /\ cmds[c].at = "restore"  BY DEF RestoreDatabase, Busy
  <1>2. Selectable(disk) /\ Status(disk) # "publishing" /\ cmds[c].path = ActivePath(disk)
    BY <1>1, OnlyOne DEF Moving, Live, Selectable
  <1>3. CASE UNCHANGED disk
    BY <1>3, Stays, StaysElsewhere DEF Elsewhere
  <1>4. CASE disk' # disk
    <2>1. /\ ActivePath(disk) = "private" /\ disk.points # {}
          /\ disk' = [disk EXCEPT !.private = disk.points]
      BY <1>2, <1>4 DEF RestoreDatabase, ActivePath
    <2>2. /\ disk'.legacy = disk.legacy /\ disk'.private = disk.points
          /\ disk'.receipt = disk.receipt /\ disk'.points = disk.points
          /\ disk'.rows = disk.rows
      BY <1>a, <2>1 DEF DiskShape
    <2>3. Status(disk') = Status(disk) /\ Status(disk) # "publishing"
      BY <1>2, <2>2 DEF Status, Selectable
    <2>4. Status(disk) = "private" \/ disk'.legacy = {}
      BY <2>1, <2>2 DEF ActivePath
    <2>5. Authority' = The(disk.points)  BY <2>2, <2>3, <2>4 DEF Authority
    <2>6. The(disk.points) \in disk.points
      BY <1>a, <2>1, OneOf DEF DiskShape
    <2>7. Store!Restore  BY <2>2, <2>5, <2>6 DEF Store!Restore
    <2> QED  BY <2>7 DEF StoreStep, Store!Next
  <1> QED  BY <1>3, <1>4

\* However far a move has come, the store stays what it was.
LEMMA StoreMoves ==
    ASSUME FilesInv, NEW c \in Commanders, Relocation(c), ~BackUpLegacy(c)
    PROVE  StoreStep
  <1>a. disk \in DiskShape  BY DEF FilesInv, FilesTyped
  <1>b. cmds[c].at # "idle" => Moving(cmds[c])
    <2>1. cmds[c].at # "idle" => c \in Busy  BY DEF Busy
    <2> QED  BY <2>1, OnlyOne
  <1>1. CASE Relocate(c)
    BY <1>1, Stays, StaysElsewhere DEF Relocate, Elsewhere
  <1>2. CASE RecoverPublishing(c)
    <2>1. Status(disk) = "publishing"  BY <1>2, <1>b DEF RecoverPublishing, Moving
    <2>2. UNCHANGED disk \/ disk' = Recovered  BY <1>2 DEF RecoverPublishing
    <2>3. /\ disk'.receipt = disk.receipt /\ disk'.rows = disk.rows
          /\ disk'.points = disk.points
      BY <1>a, <2>2 DEF Recovered, DiskShape
    <2>4. Status(disk') = "publishing"  BY <2>1, <2>3 DEF Status
    <2> QED  BY <2>1, <2>3, <2>4, Stays DEF Authority
  <1>3. CASE Reseal(c) \/ Seal(c)
    <2>1. Status(disk) = "publishing" /\ disk.private = {The(disk.receipt).db}
      BY <1>3, <1>b DEF Reseal, Seal, Moving
    <2>2. PICK db : disk.private = {db} /\ The(disk.receipt).db = db
      BY <2>1
    <2>3. /\ disk'.receipt = Receipt("private", db) /\ disk'.private = {db}
          /\ disk'.rows = disk.rows /\ disk'.points = disk.points
      BY <1>3, <1>a, <2>2 DEF Reseal, Seal, DiskShape
    <2>4. Status(disk') = "private"  BY <2>3, Sealed
    <2>5. Authority = db  BY <2>1, <2>2 DEF Authority
    <2>6. Authority' = db  BY <2>3, <2>4, TheOne DEF Authority
    <2> QED  BY <2>3, <2>5, <2>6, Stays
  <1>4. CASE MakeCandidate(c)
    <2>1. /\ disk'.receipt = disk.receipt /\ disk'.legacy = disk.legacy
          /\ disk'.private = disk.private /\ disk'.rows = disk.rows
          /\ disk'.points = disk.points
      BY <1>4, <1>a DEF MakeCandidate, DiskShape
    <2>2. Status(disk') = Status(disk)  BY <2>1 DEF Status
    <2> QED  BY <2>1, <2>2, Stays DEF Authority
  <1>5. CASE Announce(c)
    <2>1. disk.candidate = disk.legacy /\ disk.legacy = {Authority}
      BY <1>5, <1>b, AuthorityIs DEF Announce, Moving
    <2>2. The(disk.candidate) = Authority  BY <2>1, TheOne
    <2>3. PICK db : db = Authority  OBVIOUS
    <2>4. /\ disk'.receipt = Receipt("publishing", db)
          /\ disk'.rows = disk.rows /\ disk'.points = disk.points
      BY <1>5, <1>a, <2>2, <2>3 DEF Announce, DiskShape
    <2>5. Status(disk') = "publishing" /\ The(disk'.receipt).db = db
      BY <2>4, Sealed, Received
    <2>6. Authority' = db  BY <2>5 DEF Authority
    <2> QED  BY <2>3, <2>4, <2>6, Stays
  <1>6. CASE Publish(c)
    <2>1. Status(disk) = "publishing"  BY <1>6, <1>b DEF Publish, Moving
    <2>2. /\ disk'.receipt = disk.receipt /\ disk'.rows = disk.rows
          /\ disk'.points = disk.points
      BY <1>6, <1>a DEF Publish, DiskShape
    <2>3. Status(disk') = "publishing"  BY <2>1, <2>2 DEF Status
    <2> QED  BY <2>1, <2>2, <2>3, Stays DEF Authority
  <1>7. CASE ClearLegacy(c)
    <2>1. Status(disk) = "private"  BY <1>7, <1>b DEF ClearLegacy, Moving
    <2>2. /\ disk'.receipt = disk.receipt /\ disk'.private = disk.private
          /\ disk'.rows = disk.rows /\ disk'.points = disk.points
      BY <1>7, <1>a DEF ClearLegacy, DiskShape
    <2>3. Status(disk') = "private"  BY <2>1, <2>2 DEF Status
    <2> QED  BY <2>1, <2>2, <2>3, Stays DEF Authority
  <1>8. CASE Mirror(c)
    <2>1. Status(disk) # "publishing" /\ ActivePath(disk) = "private"
      BY <1>8, <1>b DEF Mirror, Moving, Live, Selectable
    <2>2. disk.private = {Authority}  BY <2>1, LiveAuthority
    <2>3. PICK db : db = Authority  OBVIOUS
    <2>4. /\ disk'.receipt = disk.receipt /\ disk'.legacy = {db} /\ disk'.private = {db}
          /\ disk'.rows = disk.rows /\ disk'.points = disk.points
      BY <1>8, <1>a, <2>2, <2>3 DEF Mirror, DiskShape
    <2>5. Status(disk') # "publishing"  BY <2>1, <2>4 DEF Status
    <2>6. Authority' = db  BY <2>4, <2>5, TheOne DEF Authority
    <2> QED  BY <2>3, <2>4, <2>6, Stays
  <1>9. CASE SignOff(c)
    <2>1. disk.legacy = disk.private /\ Status(disk) \in {"none", "private"}
      BY <1>9, <1>b DEF SignOff, Moving
    <2>2. disk.legacy = {Authority}
      BY <2>1, AuthorityIs DEF FilesInv, Placed
    <2>3. PICK db : db = Authority  OBVIOUS
    <2>4. /\ disk'.receipt = Receipt("legacy", The(disk.legacy))
          /\ disk'.legacy = {db}
          /\ disk'.rows = disk.rows /\ disk'.points = disk.points
      BY <1>9, <1>a, <2>2, <2>3 DEF SignOff, DiskShape
    <2>5. Status(disk') = "legacy"  BY <2>4, Sealed
    <2>6. Authority' = db  BY <2>4, <2>5, TheOne DEF Authority
    <2> QED  BY <2>3, <2>4, <2>6, Stays
  <1>10. CASE DropPrivate(c)
    <2>1. Status(disk) = "legacy"  BY <1>10, <1>b DEF DropPrivate, Moving
    <2>2. disk.legacy # {}  BY <2>1 DEF FilesInv, Placed
    <2>3. /\ disk'.receipt = disk.receipt /\ disk'.legacy = disk.legacy
          /\ disk'.rows = disk.rows /\ disk'.points = disk.points
      BY <1>10, <1>a DEF DropPrivate, DiskShape
    <2>4. Status(disk') = "legacy"  BY <2>1, <2>3 DEF Status
    <2> QED  BY <2>1, <2>2, <2>3, <2>4, Stays DEF Authority
  <1> QED
    BY <1>1, <1>2, <1>3, <1>4, <1>5, <1>6, <1>7, <1>8, <1>9, <1>10 DEF Relocation

LEMMA StoreSteps ==
    ASSUME FilesInv, InstanceNext PROVE StoreStep
  <1>a. disk \in DiskShape  BY DEF FilesInv, FilesTyped
  <1>1. ASSUME Elsewhere, disk'.rows = disk.rows, disk'.points = disk.points
        PROVE  StoreStep
    BY <1>1, Stays, StaysElsewhere
  <1>2. CASE Serve
    BY <1>1, <1>2, StoreWrite
       DEF Serve, LaunchServer, CheckServer, OwnServer, ServerEnds, Elsewhere
  <1>3. CASE OldUpdate
    BY <1>1, <1>3, <1>a DEF OldUpdate, DiskShape, Elsewhere
  <1>4. ASSUME NEW c \in Commanders, Updating(c) PROVE StoreStep
    <2>1. CASE Migrate(c) \/ BackUp(c)  BY <2>1, StoreAdvance, StoreSave
    <2>2. CASE ~(Migrate(c) \/ BackUp(c))
      BY <1>1, <1>4, <1>a, <2>2
         DEF Updating, RecordPrevious, LayEngine, LoadIntent, StopNext, WriteIntent,
             Enter, PublishPin, Release, StartNext, StartFails, RequireHealth, Undo,
             ClearIntent, DiskShape, Elsewhere
    <2> QED  BY <2>1, <2>2
  <1>5. ASSUME NEW c \in Commanders, RollingBack(c) PROVE StoreStep
    <2>1. CASE RestoreDatabase(c)  BY <2>1, StoreRestore
    <2>2. CASE ~RestoreDatabase(c)
      BY <1>1, <1>5, <1>a, <2>2
         DEF RollingBack, ClaimFlock, VerifyFloor, RelayEngine, RestorePin,
             ConsumePrevious, DiskShape, Elsewhere
    <2> QED  BY <2>1, <2>2
  <1>6. ASSUME NEW c \in Commanders, Begin(c) \/ Dies(c) PROVE StoreStep
    BY <1>1, <1>6 DEF Begin, Dies, Elsewhere
  <1> QED
    BY <1>2, <1>3, <1>4, <1>5, <1>6, StoreMoves, StoreSave
       DEF InstanceNext, Command

LEMMA StoreStarts ==
    ASSUME OnePerson, InstanceInit PROVE Store!Init
  <1>1. FilesInv  BY FilesStart
  <1>2. /\ disk.rows = 0 /\ disk.points = {} /\ disk.receipt = {}
        /\ \A db \in disk.legacy \cup disk.private : db.rows = 0
    <2>1. disk = FirstDisk(outing.start)
          /\ outing.start \in {"adopting", "pinned", "fresh", "newer"}
      BY OutingRows DEF InstanceInit, OutingShape
    <2>2. CASE outing.start = "adopting"  BY <2>1, <2>2 DEF FirstDisk
    <2>3. CASE outing.start = "pinned"  BY <2>1, <2>3 DEF FirstDisk
    <2>4. CASE outing.start = "fresh"  BY <2>1, <2>4 DEF FirstDisk
    <2>5. CASE outing.start = "newer"  BY <2>1, <2>5 DEF FirstDisk
    <2> QED  BY <2>1, <2>2, <2>3, <2>4, <2>5
  <1>3. Status(disk) = "none"  BY <1>2 DEF Status
  <1>4. Authority \in disk.legacy \cup disk.private
    BY <1>1, <1>3, AuthorityIs
  <1>5. Authority \in Database /\ Authority.rows = 0
    BY <1>1, <1>2, <1>4 DEF FilesInv, FilesTyped, DiskShape, AtMostOne
  <1>6. Authority \in [floor : Nat, rows : 0 .. disk.rows]
    BY <1>2, <1>5 DEF Database
  <1> QED  BY <1>2, <1>6 DEF Store!Init

\* The files implement one store: whatever is moved, and wherever a mover dies,
\* the database changes only by a row, by a migration, or back to a restore
\* point that was taken of it.  It misses a row only while an overtaken server
\* serves something else.
THEOREM OneStoreHolds == RuntimeSpec /\ OnePerson => KeepsOneStore
  <1>1. RuntimeInit /\ OnePerson => Store!Init  BY StoreStarts DEF RuntimeInit
  <1>2. FilesInv /\ [RuntimeNext]_<<svars, wvars, fvars, part>>
          => [Store!Next]_<<Authority, disk.rows, disk.points>>
    <2>1. ASSUME FilesInv, UNCHANGED fvars PROVE StoreStep
      BY <2>1, Stays, StaysElsewhere DEF fvars, ivars, Elsewhere
    <2> QED  BY <2>1, StoreSteps DEF RuntimeNext, StoreStep
  <1> QED
    BY <1>1, <1>2, FilesInvariant, PTL
       DEF RuntimeSpec, KeepsOneStore, Store!Spec

=============================================================================
