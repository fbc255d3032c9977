---------------------------- MODULE WakeDelivery ----------------------------
(***************************************************************************)
(* The delivery service: it claims a receiver's wake under a lease, finds  *)
(* or rotates the chat, queues one turn per message (run outcomes share    *)
(* one) and records the delivery, each in a transaction of its own.        *)
(***************************************************************************)
EXTENDS WakeTables

VARIABLE lease   \* what the service holds between its transactions

TurnSets == (SUBSET Letters) \ {{}}

LeaseRow == [pc : {"idle", "claimed", "rotate", "create", "turns", "receipt",
                   "record"},
             wake : 0..MaxWakes, letters : SUBSET Letters,
             todo : SUBSET TurnSets, seen : 0..MaxChats, chat : 0..MaxChats]

NoLease == [pc |-> "idle", wake |-> 0, letters |-> {}, todo |-> {},
            seen |-> 0, chat |-> 0]

deliveryRows == <<letters, wakes, desk, turns, receipts, jobs, notice>>

-----------------------------------------------------------------------------
(* Claiming. *)

Expired(w) == wakes[w].state = "delivering" /\ wakes[w].lapsed

Released(w) == [wakes[w] EXCEPT !.state = "pending", !.lapsed = FALSE]

\* A mistake to be caught: a newer pending wake is not looked for.
RequeuedAlways ==
    [w \in Wakes |-> IF Expired(w)
                     THEN [Released(w) EXCEPT !.due = TRUE] ELSE wakes[w]]

\* An expired claim is put back unless the receiver has a pending wake.  Two
\* of one receiver would both be put back, which the one-pending index
\* refuses, and the claim fails as a whole.
Requeued ==
    [w \in Wakes |-> IF Expired(w) /\ Pending = {}
                     THEN [Released(w) EXCEPT !.due = TRUE] ELSE wakes[w]]

RequeueRefused == Pending = {} /\ Cardinality({w \in Wakes : Expired(w)}) > 1

Claimables(ws) ==
    {w \in Wakes :
        /\ \/ ws[w].state = "delivering" /\ ws[w].lapsed
           \/ ws[w].state = "pending" /\ ws[w].due
        /\ \E m \in Undelivered :
              letters[m].wake = w /\ (Engine(m) \/ notice.armed)}

\* Outcomes wait for the receiver's other dev-kit runs.
AwaitsSiblings(ws, w) ==
    LET held == Joined(w) \cap Undelivered IN
    /\ ws[w].state = "pending"
    /\ held # {} /\ \A m \in held : letters[m].kind = "outcome"
    /\ ~ws[w].aged
    /\ \E j \in Jobs : /\ jobs[j].kind = "devkit"
                       /\ jobs[j].state \in {"registered", "running"}

ForceNewWaits ==
    \E m \in Undelivered : Declared(letters[m].kind) = "force-new"

\* The active chat was created by this wake.
OwnChat(w) == desk.active # 0 /\ desk.maker[desk.active] = w

QuietGated(ws, w) == ForceNewWaits /\ ~OwnChat(w)

\* A mistake to be caught: the quiet window has no end.
SkipsForLong(ws, w) ==
    \/ AwaitsSiblings(ws, w)
    \/ QuietGated(ws, w)

Skips(ws, w) ==
    \/ AwaitsSiblings(ws, w)
    \/ QuietGated(ws, w) /\ (desk.live \/ ws[w].quiet # "long")

\* A wake passed over starts its quiet window, or restarts it at a live turn.
PassedOver(ws, w) ==
    IF AwaitsSiblings(ws, w) THEN ws[w]
    ELSE [ws[w] EXCEPT !.quiet = IF desk.live THEN "none"
                                 ELSE IF @ = "none" THEN "set" ELSE @]

\* Outcomes with no other message between them share one turn.
TurnOf(m, ms) ==
    IF letters[m].kind # "outcome" THEN {m}
    ELSE {n \in ms : \A k \in ms : (k >= m /\ k <= n) \/ (k >= n /\ k <= m)
                                     => letters[k].kind = "outcome"}

TurnsOf(ms) == {TurnOf(m, ms) : m \in ms}

\* Claim one wake and with it every undelivered message of the receiver;
\* pending wakes left without a message are cancelled.
ClaimOf(ws, w) ==
    LET ms    == Undelivered
        after == [m \in Letters |-> IF m \in ms
                                    THEN [letters[m] EXCEPT !.wake = w]
                                    ELSE letters[m]]
    IN
    /\ letters' = after
    /\ wakes' = [v \in Wakes |->
         IF v = w
         THEN [ws[v] EXCEPT !.state = "delivering", !.lapsed = FALSE,
                 !.sprint = notice.armed /\ \E m \in ms : ~Engine(m)]
         ELSE IF /\ ws[v].state = "pending"
                 /\ \A m \in Letters : Sent(m) => after[m].wake # v
              THEN [ws[v] EXCEPT !.state = "cancelled", !.quiet = "none"]
              ELSE IF v < w /\ v \in Claimables(ws) THEN PassedOver(ws, v)
              ELSE ws[v]]
    /\ lease' = [NoLease EXCEPT !.pc = "claimed", !.wake = w, !.letters = ms,
                                !.todo = TurnsOf(ms)]

Claim ==
    LET ready == {w \in Claimables(Requeued) : ~Skips(Requeued, w)} IN
    /\ lease.pc = "idle" /\ ~RequeueRefused
    /\ ready # {}
    /\ ClaimOf(Requeued, Least(ready))
    /\ UNCHANGED <<desk, turns, receipts, jobs, notice>>

\* No candidate passes: what the scan wrote stands.
ClaimNone ==
    LET ws == Requeued IN
    /\ lease.pc = "idle" /\ ~RequeueRefused
    /\ \A w \in Claimables(ws) : Skips(ws, w)
    /\ wakes' = [w \in Wakes |-> IF w \in Claimables(ws)
                                 THEN PassedOver(ws, w) ELSE ws[w]]
    /\ wakes' # wakes
    /\ UNCHANGED <<letters, lease, desk, turns, receipts, jobs, notice>>

-----------------------------------------------------------------------------
(* The chat. *)

DeclaredNow(m) ==
    IF /\ Declared(letters[m].kind) = "re-enter"
       /\ notice.armed /\ notice.coordinate
    THEN "new" ELSE Declared(letters[m].kind)

WantsForceNew == \E m \in lease.letters : DeclaredNow(m) = "force-new"
WantsNew == WantsForceNew \/ \E m \in lease.letters : DeclaredNow(m) = "new"

Target(c) == lease' = [lease EXCEPT !.pc = "turns", !.chat = c]

\* A mistake to be caught: the later wakes it cancels keep their messages.
DeferForceNewAlone ==
    LET w == lease.wake IN
    /\ wakes' = [v \in Wakes |->
         IF v = w THEN [Released(v) EXCEPT !.quiet = "none"]
         ELSE IF v \in Pending
              THEN [wakes[v] EXCEPT !.state = "cancelled", !.quiet = "none"]
              ELSE wakes[v]]
    /\ lease' = NoLease
    /\ UNCHANGED <<letters, desk, turns, receipts, jobs, notice>>

\* A force-new wake steps back: it takes the receiver's later pending wakes
\* in and waits, without counting an attempt.
DeferForceNew ==
    LET w == lease.wake IN
    /\ letters' = [m \in Letters |-> IF Sent(m) /\ letters[m].wake \in Pending
                                     THEN [letters[m] EXCEPT !.wake = w]
                                     ELSE letters[m]]
    /\ wakes' = [v \in Wakes |->
         IF v = w THEN [Released(v) EXCEPT !.quiet = "none"]
         ELSE IF v \in Pending
              THEN [wakes[v] EXCEPT !.state = "cancelled", !.quiet = "none"]
              ELSE wakes[v]]
    /\ lease' = NoLease
    /\ UNCHANGED <<desk, turns, receipts, jobs, notice>>

\* The first reading of the active chat decides: use it, step back, or rotate.
Resolve ==
    /\ lease.pc = "claimed"
    /\ \/ /\ \/ OwnChat(lease.wake)
             \/ desk.live /\ ~WantsForceNew
             \/ desk.active # 0 /\ ~desk.live /\ ~WantsNew
          /\ Target(desk.active)
          /\ UNCHANGED deliveryRows
       \/ ~OwnChat(lease.wake) /\ desk.live /\ WantsForceNew /\ DeferForceNew
       \/ /\ ~OwnChat(lease.wake) /\ ~desk.live
          /\ desk.active = 0 \/ WantsNew
          /\ lease' = [lease EXCEPT !.pc = "rotate", !.seen = desk.active]
          /\ UNCHANGED deliveryRows

\* Close a chat and cancel what it has queued; a running turn goes on alone.
Displaced(c) ==
    [t \in DOMAIN turns |-> IF turns[t].chat = c /\ turns[t].state = "queued"
                            THEN [turns[t] EXCEPT !.state = "cancelled"]
                            ELSE turns[t]]

CloseDesk ==
    /\ turns' = Displaced(desk.active)
    /\ desk' = [desk EXCEPT !.active = 0, !.live = FALSE]

\* The transaction that closes the chat in the way.  Force-new insists on the
\* chat it saw; new takes a chat it did not expect and is absorbed by a live
\* one.  (Its own chat cannot appear here: the service has one thread.)
Rotate ==
    LET moved == desk.active # 0 /\ desk.active # lease.seen IN
    /\ lease.pc = "rotate"
    /\ \/ /\ WantsForceNew /\ ~OwnChat(lease.wake) /\ (desk.live \/ moved)
          /\ DeferForceNew
       \/ /\ ~WantsForceNew /\ desk.live /\ lease.seen # 0
          /\ Target(desk.active)
          /\ UNCHANGED deliveryRows
       \/ /\ desk.active # 0 /\ ~desk.live
          /\ \/ ~WantsForceNew /\ lease.seen # 0
             \/ WantsForceNew /\ ~OwnChat(lease.wake) /\ ~moved
          /\ CloseDesk
          /\ lease' = [lease EXCEPT !.pc = "create"]
          /\ UNCHANGED <<letters, wakes, receipts, jobs, notice>>
       \/ /\ desk.active = 0 \/ (lease.seen = 0 /\ ~WantsForceNew)
          /\ lease' = [lease EXCEPT !.pc = "create"]
          /\ UNCHANGED deliveryRows

\* A mistake to be caught: whatever chat appeared meanwhile will do.
CreateOrAdopt ==
    /\ lease.pc = "create"
    /\ \/ /\ desk.active # 0
          /\ Target(desk.active)
          /\ UNCHANGED deliveryRows
       \/ /\ desk.active = 0 /\ desk.opened < MaxChats
          /\ \A c \in 1..desk.opened : desk.maker[c] # lease.wake
          /\ desk' = [desk EXCEPT !.active = desk.opened + 1,
                                  !.opened = @ + 1,
                                  !.maker[desk.opened + 1] = lease.wake]
          /\ Target(desk.opened + 1)
          /\ UNCHANGED <<letters, wakes, turns, receipts, jobs, notice>>

\* The transaction that creates and registers the wake's own chat.
Create ==
    /\ lease.pc = "create"
    /\ \/ /\ desk.active # 0 /\ WantsForceNew
          /\ DeferForceNew
       \/ /\ desk.active # 0 /\ ~WantsForceNew
          /\ Target(desk.active)
          /\ UNCHANGED deliveryRows
       \/ /\ desk.active = 0 /\ desk.opened < MaxChats
          /\ \A c \in 1..desk.opened : desk.maker[c] # lease.wake
          /\ desk' = [desk EXCEPT !.active = desk.opened + 1,
                                  !.opened = @ + 1,
                                  !.maker[desk.opened + 1] = lease.wake]
          /\ Target(desk.opened + 1)
          /\ UNCHANGED <<letters, wakes, turns, receipts, jobs, notice>>

-----------------------------------------------------------------------------
(* Queueing turns. *)

NextTurn == CHOOSE g \in lease.todo : \A h \in lease.todo : Least(g) <= Least(h)

\* The last turn has the wake's own key.
TurnKey == IF Cardinality(lease.todo) = 1 THEN <<lease.wake, 0>>
           ELSE <<lease.wake, Least(NextTurn)>>

Keyed(c, key) ==
    {t \in DOMAIN turns : turns[t].chat = c /\ turns[t].key = key}

ChatClosed(c) == desk.active # c

\* A mistake to be caught: a repeated key queues the prompt again.
QueueTurnAgain(c, key, ms) ==
    turns' = Append(turns, [chat |-> c, key |-> key, letters |-> ms,
                           state |-> "queued", shown |-> FALSE])

\* Queue one turn under its key; the same key and prompt is the same turn.
QueueTurn(c, key, ms) ==
    turns' = IF Keyed(c, key) # {} THEN turns
             ELSE Append(turns, [chat |-> c, key |-> key, letters |-> ms,
                                 state |-> "queued", shown |-> FALSE])

TurnRefused(c, key, ms) ==
    \/ ChatClosed(c)
    \/ \E t \in Keyed(c, key) : turns[t].letters # ms

EnqueueTurn ==
    /\ lease.pc = "turns" /\ lease.todo # {}
    /\ ~TurnRefused(lease.chat, TurnKey, NextTurn)
    /\ Len(turns) < MaxTurns \/ Keyed(lease.chat, TurnKey) # {}
    /\ QueueTurn(lease.chat, TurnKey, NextTurn)
    /\ lease' = [lease EXCEPT !.pc = "receipt"]
    /\ UNCHANGED <<letters, wakes, desk, receipts, jobs, notice>>

\* record_enqueue: a receipt follows each engine re-enter message.
RecordEnqueue ==
    LET t  == CHOOSE u \in Keyed(lease.chat, TurnKey) : TRUE
        ms == {m \in NextTurn : Engine(m)}
    IN
    /\ lease.pc = "receipt"
    /\ receipts' = [m \in Letters |-> IF m \in ms
                                      THEN [receipts[m] EXCEPT !.turn = t]
                                      ELSE receipts[m]]
    /\ LET left == lease.todo \ {NextTurn} IN
       lease' = [lease EXCEPT !.todo = left,
                              !.pc = IF left = {} THEN "record" ELSE "turns"]
    /\ UNCHANGED <<letters, wakes, desk, turns, jobs, notice>>

RecordDelivered ==
    LET wake == wakes[lease.wake] IN
    /\ lease.pc = "record"
    /\ letters' = [m \in Letters |-> IF m \in lease.letters
                                     THEN [letters[m] EXCEPT !.delivered = TRUE]
                                     ELSE letters[m]]
    /\ wakes' = [wakes EXCEPT ![lease.wake] =
                   [wake EXCEPT !.state = "delivered", !.tries = wake.tries + 1,
                                !.lapsed = FALSE, !.quiet = "none"]]
    /\ lease' = NoLease
    /\ UNCHANGED <<desk, turns, receipts, jobs, notice>>

-----------------------------------------------------------------------------
(* Failure. *)

CarriesOutcome == \E j \in Jobs : jobs[j].letter \in Joined(lease.wake) \ {0}

\* A mistake to be caught: the runs behind a failed route are not told.
RecordTransportFailureQuietly(permanent) ==
    LET w == lease.wake IN
    IF permanent
    THEN /\ wakes' = [wakes EXCEPT ![w] = [@ EXCEPT !.state = "failed",
                                              !.lapsed = FALSE, !.quiet = "none"]]
         /\ UNCHANGED <<letters, jobs>>
    ELSE /\ letters' = [m \in Letters |->
                          IF Sent(m) /\ letters[m].wake \in Pending
                          THEN [letters[m] EXCEPT !.wake = w] ELSE letters[m]]
         /\ wakes' = [v \in Wakes |->
              IF v = w THEN [Released(v) EXCEPT !.due = FALSE, !.quiet = "none"]
              ELSE IF v \in Pending
                   THEN [wakes[v] EXCEPT !.state = "cancelled",
                                         !.quiet = "none"]
                   ELSE wakes[v]]
         /\ UNCHANGED jobs

\* An engine wake with run outcomes: transport faults retry for ever; an
\* invalid route, a closed chat or a reused key blocks the runs.
RecordTransportFailure(permanent) ==
    LET w == lease.wake IN
    IF permanent
    THEN /\ wakes' = [wakes EXCEPT ![w] = [@ EXCEPT !.state = "failed",
                                              !.lapsed = FALSE, !.quiet = "none"]]
         /\ jobs' = [j \in Jobs |-> IF jobs[j].letter \in Joined(w)
                                    THEN [jobs[j] EXCEPT !.wake = "blocked"]
                                    ELSE jobs[j]]
         /\ UNCHANGED letters
    ELSE /\ letters' = [m \in Letters |->
                          IF Sent(m) /\ letters[m].wake \in Pending
                          THEN [letters[m] EXCEPT !.wake = w] ELSE letters[m]]
         /\ wakes' = [v \in Wakes |->
              IF v = w THEN [Released(v) EXCEPT !.due = FALSE, !.quiet = "none"]
              ELSE IF v \in Pending
                   THEN [wakes[v] EXCEPT !.state = "cancelled",
                                         !.quiet = "none"]
                   ELSE wakes[v]]
         /\ UNCHANGED jobs

\* Any other wake has three attempts.  The third closes the chat it failed
\* on, raises a flag if it was itself a recovery, and pauses the sprint whose
\* messages it held.
RecordWakeFailure ==
    LET w == lease.wake
        last == wakes[w].tries = 2
    IN
    IF ~last
    THEN \* back to pending, which a later pending wake of the receiver refuses
         /\ wakes' = IF Pending # {} THEN wakes
                     ELSE [wakes EXCEPT ![w] = [Released(w) EXCEPT
                             !.tries = @ + 1, !.due = FALSE]]
         /\ UNCHANGED <<desk, turns, notice>>
    ELSE /\ wakes' = [wakes EXCEPT ![w] = [@ EXCEPT !.state = "failed",
                        !.tries = 3, !.lapsed = FALSE, !.quiet = "none"]]
         /\ IF desk.active # 0 /\ lease.chat \in {0, desk.active}
            THEN CloseDesk ELSE UNCHANGED <<desk, turns>>
         /\ notice' = [notice EXCEPT
              !.flagged = @ \/ (wakes[w].recovery /\ ~wakes[w].sprint),
              !.armed = @ /\ ~\E m \in Joined(w) \cap Undelivered : ~Engine(m)]

FailDelivery(permanent) ==
    /\ IF ~wakes[lease.wake].sprint /\ CarriesOutcome
       THEN /\ RecordTransportFailure(permanent)
            /\ UNCHANGED <<desk, turns, notice>>
       ELSE RecordWakeFailure /\ UNCHANGED <<letters, jobs>>
    /\ lease' = NoLease
    /\ UNCHANGED receipts

\* No route can be prepared for the receiver.
RouteFails == lease.pc = "rotate" /\ FailDelivery(TRUE)

\* The wake's own chat was closed meanwhile, or its route went bad.
CreateFails ==
    /\ lease.pc = "create" /\ desk.active = 0
    /\ \E c \in 1..desk.opened : desk.maker[c] = lease.wake
    /\ FailDelivery(TRUE)

\* The target closed under the delivery, or the key names another prompt: not
\* a fault that passes, for SprintInvariantError is a ValueError.
EnqueueFails ==
    /\ lease.pc = "turns" /\ lease.todo # {}
    /\ TurnRefused(lease.chat, TurnKey, NextTurn)
    /\ FailDelivery(TRUE)

-----------------------------------------------------------------------------
(* The recipient, the clock and the activity monitor. *)

\* A message may be read before its wake delivers it, unless it is force-new.
\* A pending wake with nothing unread is cancelled.
ReadLetter(m) ==
    LET w == letters[m].wake IN
    /\ Unread(m)
    /\ letters[m].delivered \/ Declared(letters[m].kind) # "force-new"
    /\ letters' = [letters EXCEPT ![m].read = TRUE]
    /\ wakes' = IF /\ wakes[w].state = "pending"
                   /\ \A n \in Joined(w) : n = m \/ letters[n].read
                THEN [wakes EXCEPT ![w] = [@ EXCEPT !.state = "cancelled",
                                                    !.quiet = "none"]]
                ELSE wakes
    /\ UNCHANGED <<desk, turns, receipts, jobs, notice, lease>>

\* An engine wake that failed for good is tried once more by another wake.
Recoverable(w) ==
    /\ wakes[w].state = "failed" /\ ~wakes[w].sprint /\ ~wakes[w].recovery
    /\ \A j \in Jobs : jobs[j].letter = 0 \/ jobs[j].letter \notin Joined(w)
    /\ \E m \in Joined(w) \cap Undelivered : Engine(m) /\ ~letters[m].read

RecoverEngineWake(w) ==
    LET v == Coalesced IN
    /\ lease.pc = "idle"
    /\ Recoverable(w)
    /\ Pending # {} \/ \E u \in Wakes : wakes[u].state = "none"
    /\ letters' = [m \in Letters |->
         IF m \in Joined(w) \cap Undelivered /\ Engine(m) /\ ~letters[m].read
         THEN [letters[m] EXCEPT !.wake = v] ELSE letters[m]]
    /\ wakes' = IF Pending # {} THEN wakes
                ELSE [wakes EXCEPT ![v] = NewWake(FALSE, TRUE, FALSE)]
    /\ UNCHANGED <<desk, turns, receipts, jobs, notice, lease>>

\* Lease, backoff, quiet window and batch hold are clocks.
LeaseLapses(w) ==
    /\ wakes[w].state = "delivering" /\ ~wakes[w].lapsed /\ lease.wake # w
    /\ wakes' = [wakes EXCEPT ![w].lapsed = TRUE]
    /\ UNCHANGED <<letters, desk, turns, receipts, jobs, notice, lease>>

BackoffEnds(w) ==
    /\ wakes[w].state = "pending" /\ ~wakes[w].due
    /\ wakes' = [wakes EXCEPT ![w].due = TRUE]
    /\ UNCHANGED <<letters, desk, turns, receipts, jobs, notice, lease>>

QuietPasses(w) ==
    /\ wakes[w].quiet = "set"
    /\ wakes' = [wakes EXCEPT ![w].quiet = "long"]
    /\ UNCHANGED <<letters, desk, turns, receipts, jobs, notice, lease>>

HoldEnds(w) ==
    /\ AwaitsSiblings(wakes, w)
    /\ wakes' = [wakes EXCEPT ![w].aged = TRUE]
    /\ UNCHANGED <<letters, desk, turns, receipts, jobs, notice, lease>>

Tick(w) == LeaseLapses(w) \/ BackoffEnds(w) \/ QuietPasses(w) \/ HoldEnds(w)

Deliver ==
    \/ Claim \/ ClaimNone \/ Resolve \/ Rotate \/ Create
    \/ EnqueueTurn \/ RecordEnqueue \/ RecordDelivered
    \/ CreateFails \/ EnqueueFails

=============================================================================
