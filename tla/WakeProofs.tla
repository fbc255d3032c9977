----------------------------- MODULE WakeProofs -----------------------------
(***************************************************************************)
(* Theorems about the delivery of wakes, for every number of messages,     *)
(* wakes, chats, turns and runs, every ladder and every workload.          *)
(***************************************************************************)
EXTENDS SprintRuntime, TLAPS, FiniteSetTheorems, WellFoundedInduction

-----------------------------------------------------------------------------
(* Least elements and rows.                                                *)

LEMMA LeastIs ==
    ASSUME NEW S \in SUBSET Nat, S # {}
    PROVE  Least(S) \in S /\ \A y \in S : Least(S) <= y
<1>1. \E x \in S : \A y \in S : ~(<<y, x>> \in OpToRel(<, Nat))
  BY WFMin, NatLessThanWellFounded
<1>2. PICK x \in S : \A y \in S : ~(<<y, x>> \in OpToRel(<, Nat))
  BY <1>1
<1>3. \A y \in S : x <= y
  <2> SUFFICES ASSUME NEW y \in S, ~(x <= y) PROVE FALSE
    OBVIOUS
  <2>1. y < x /\ <<y, x>> \in Nat \X Nat
    OBVIOUS
  <2>2. <<y, x>> \in {ss \in Nat \X Nat : ss[1] < ss[2]}
    BY <2>1
  <2> QED
    BY <1>2, <2>2 DEF OpToRel
<1> QED
  BY <1>2, <1>3 DEF Least

\* A wake row after one of its fields was written.
LEMMA WakeRowMoves ==
    ASSUME NEW r \in WakeRow
    PROVE  /\ \A s \in {"none", "pending", "delivering", "delivered", "failed",
                        "cancelled"} : [r EXCEPT !.state = s] \in WakeRow
           /\ \A b \in BOOLEAN : /\ [r EXCEPT !.sprint = b] \in WakeRow
                                 /\ [r EXCEPT !.recovery = b] \in WakeRow
                                 /\ [r EXCEPT !.due = b] \in WakeRow
                                 /\ [r EXCEPT !.lapsed = b] \in WakeRow
                                 /\ [r EXCEPT !.aged = b] \in WakeRow
           /\ \A q \in {"none", "set", "long"} :
                 [r EXCEPT !.quiet = q] \in WakeRow
           /\ \A n \in 0..3 : [r EXCEPT !.tries = n] \in WakeRow
  BY DEF WakeRow

LEMMA LetterRowMoves ==
    ASSUME NEW r \in LetterRow
    PROVE  /\ \A w \in 0..MaxWakes : [r EXCEPT !.wake = w] \in LetterRow
           /\ \A b \in BOOLEAN : /\ [r EXCEPT !.read = b] \in LetterRow
                                 /\ [r EXCEPT !.delivered = b] \in LetterRow
  BY DEF LetterRow

-----------------------------------------------------------------------------
(* The mail: messages, the wakes that carry them, and the held claim.      *)

LettersOK(ls) ==
    /\ ls \in [Letters -> LetterRow]
    /\ \A m \in Letters : ls[m].kind # "none" => ls[m].wake \in Wakes

\* A wake that is still to be delivered has an attempt left.
WakeOK(r) == r \in WakeRow /\ (r.state \in {"pending", "delivering"} => r.tries <= 2)

WakesOK(ws) ==
    /\ ws \in [Wakes -> WakeRow]
    /\ \A w \in Wakes : WakeOK(ws[w])

Alive == {"pending", "delivering", "failed"}

OnePending(ws) ==
    \A v, w \in Wakes :
        ws[v].state = "pending" /\ ws[w].state = "pending" => v = w

Carried(ls, ws) ==
    \A m \in Letters :
        ls[m].kind # "none" /\ ~ls[m].delivered /\ ~ls[m].read
        => ws[ls[m].wake].state \in Alive

\* The claimed wake is delivering, and what it carries is what was claimed.
HeldOK(l, ls, ws) ==
    l.pc # "idle" =>
        /\ l.wake \in Wakes /\ ws[l.wake].state = "delivering"
        /\ \A m \in l.letters : ls[m].kind # "none"
        /\ \A m \in Letters :
              ls[m].kind # "none" /\ ~ls[m].delivered /\ ls[m].wake = l.wake
              => m \in l.letters

MailOK(l, ls, ws) ==
    /\ l \in LeaseRow /\ LettersOK(ls) /\ WakesOK(ws)
    /\ OnePending(ws) /\ Carried(ls, ws) /\ HeldOK(l, ls, ws)

MailInv == MailOK(lease, letters, wakes)

LEMMA NoLeaseOK == NoLease \in LeaseRow /\ NoLease.pc = "idle"
  BY WakeBounds DEF NoLease, LeaseRow

\* A held claim may be dropped at any time.
LEMMA Dropped ==
    ASSUME NEW l, NEW ls, NEW ws, MailOK(l, ls, ws)
    PROVE  MailOK(NoLease, ls, ws)
  BY NoLeaseOK DEF MailOK, HeldOK

LEMMA CoalescedIs ==
    ASSUME WakesOK(wakes), Pending # {} \/ \E w \in Wakes : wakes[w].state = "none"
    PROVE  /\ Coalesced \in Wakes
           /\ Pending # {} => wakes[Coalesced].state = "pending"
           /\ Pending = {} => wakes[Coalesced].state = "none"
<1>1. Wakes \subseteq Nat
  BY WakeBounds DEF Wakes
<1>2. CASE Pending # {}
  <2>1. Least(Pending) \in Pending
    BY <1>1, <1>2, LeastIs DEF Pending
  <2> QED
    BY <1>2, <2>1 DEF Coalesced, Pending
<1>3. CASE Pending = {}
  <2> DEFINE free == {w \in Wakes : wakes[w].state = "none"}
  <2>1. Least(free) \in free
    BY <1>1, <1>3, LeastIs
  <2> QED
    BY <1>3, <2>1 DEF Coalesced, FreshWake
<1> QED
  BY <1>2, <1>3

LEMMA NewWakeOK ==
    ASSUME NEW b \in BOOLEAN, NEW c \in BOOLEAN, NEW d \in BOOLEAN
    PROVE  WakeOK(NewWake(b, c, d)) /\ NewWake(b, c, d).state = "pending"
<1>1. NewWake(b, c, d) \in WakeRow
  BY DEF NewWake, WakeRow
<1>2. NewWake(b, c, d).state = "pending" /\ NewWake(b, c, d).tries = 0
  BY DEF NewWake
<1> QED
  BY <1>1, <1>2 DEF WakeOK

\* Messages are joined to the receiver's pending wake, or to a new one.
LEMMA Joins ==
    ASSUME MailOK(lease, letters, wakes), NEW ls, LettersOK(ls),
           NEW row, WakeOK(row), row.state = "pending",
           Pending # {} \/ \E w \in Wakes : wakes[w].state = "none",
           \A m \in Letters :
              \/ ls[m] = letters[m]
              \/ /\ ls[m].wake = Coalesced /\ ls[m].kind # "none"
                 /\ letters[m].kind # "none" => ls[m].kind = letters[m].kind
    PROVE  MailOK(lease, ls, IF Pending # {} THEN wakes
                             ELSE [wakes EXCEPT ![Coalesced] = row])
<1> DEFINE ws == IF Pending # {} THEN wakes
                 ELSE [wakes EXCEPT ![Coalesced] = row]
<1>1. /\ Coalesced \in Wakes
      /\ Pending # {} => wakes[Coalesced].state = "pending"
      /\ Pending = {} => wakes[Coalesced].state = "none"
  BY CoalescedIs DEF MailOK
<1>2. /\ WakesOK(ws)
      /\ ws[Coalesced].state = "pending"
      /\ \A w \in Wakes \ {Coalesced} : ws[w] = wakes[w]
      /\ \A w \in Wakes : wakes[w].state # "none" =>
                            ws[w].state = wakes[w].state
  BY <1>1 DEF MailOK, WakesOK, WakeOK
<1>3. OnePending(ws)
  BY <1>1, <1>2 DEF MailOK, OnePending, Pending
<1>4. Carried(ls, ws)
  BY <1>1, <1>2 DEF MailOK, Carried, Alive, LettersOK
<1>5. HeldOK(lease, ls, ws)
  BY <1>1, <1>2 DEF MailOK, HeldOK, LettersOK, LeaseRow
<1> QED
  BY <1>2, <1>3, <1>4, <1>5 DEF MailOK

LEMMA Sends ==
    ASSUME MailInv, NEW kind \in Kinds, SendLetter(kind), UNCHANGED lease
    PROVE  MailInv'
<1> DEFINE new == [kind |-> kind, wake |-> Coalesced, read |-> FALSE,
                   delivered |-> FALSE]
           row == NewWake(kind \notin EngineKinds, FALSE, TRUE)
<1>1. NextLetter \in Letters /\ letters[NextLetter].kind = "none"
  <2> DEFINE free == {m \in Letters : ~Sent(m)}
  <2>1. free # {} /\ free \in SUBSET Nat
    BY WakeBounds DEF SendLetter, CanSend, Letters
  <2>2. Least(free) \in free
    BY <2>1, LeastIs
  <2> QED
    BY <2>2 DEF NextLetter, Sent
<1>2. Coalesced \in Wakes
  BY CoalescedIs DEF MailInv, MailOK, SendLetter, CanSend
<1>3. new \in LetterRow /\ new.kind = kind /\ new.wake = Coalesced
  BY <1>2 DEF LetterRow, Wakes
<1>4. kind # "none"
  BY DEF Kinds
<1>5. letters' = [letters EXCEPT ![NextLetter] = new]
  BY DEF SendLetter
<1> HIDE DEF new
<1>6. LettersOK(letters')
  BY <1>1, <1>2, <1>3, <1>4, <1>5 DEF MailInv, MailOK, LettersOK
<1>7. \A m \in Letters :
        \/ letters'[m] = letters[m]
        \/ /\ letters'[m].wake = Coalesced /\ letters'[m].kind # "none"
           /\ letters[m].kind # "none" => letters'[m].kind = letters[m].kind
  BY <1>1, <1>3, <1>4, <1>5 DEF MailInv, MailOK, LettersOK
<1>8. WakeOK(row) /\ row.state = "pending"
  BY NewWakeOK
<1>9. wakes' = IF Pending # {} THEN wakes
               ELSE [wakes EXCEPT ![Coalesced] = row]
  BY DEF SendLetter
<1>10. Pending # {} \/ \E w \in Wakes : wakes[w].state = "none"
  BY DEF SendLetter, CanSend
<1> HIDE DEF row
<1>11. MailOK(lease, letters', wakes')
  BY <1>6, <1>7, <1>8, <1>9, <1>10, Joins DEF MailInv
<1> QED
  BY <1>11 DEF MailInv

-----------------------------------------------------------------------------
(* Claims.                                                                 *)

LEMMA OneAtMost ==
    ASSUME NEW S \in SUBSET Wakes, ~(Cardinality(S) > 1)
    PROVE  \A v, w \in S : v = w
<1> SUFFICES ASSUME NEW v \in S, NEW w \in S, v # w PROVE FALSE
  OBVIOUS
<1>1. IsFiniteSet(S) /\ Cardinality(S) \in Nat
  <2>1. IsFiniteSet(Wakes)
    BY WakeBounds, FS_Interval DEF Wakes
  <2> QED
    BY <2>1, FS_Subset, FS_CardinalityType
<1>2. IsFiniteSet({v}) /\ Cardinality({v}) = 1
  BY FS_Singleton
<1>3. Cardinality({v} \cup {w}) = Cardinality({v}) + 1
  BY <1>2, w \notin {v}, FS_AddElement
<1>4. Cardinality({v} \cup {w}) <= Cardinality(S)
  BY <1>1, FS_Subset
<1> QED
  BY <1>1, <1>2, <1>3, <1>4

LEMMA RequeuedOK ==
    ASSUME MailInv, ~RequeueRefused
    PROVE  /\ WakesOK(Requeued) /\ OnePending(Requeued)
           /\ Carried(letters, Requeued)
<1>1. ASSUME NEW w \in Wakes, Expired(w), Pending = {}
      PROVE  /\ WakeOK([Released(w) EXCEPT !.due = TRUE])
             /\ [Released(w) EXCEPT !.due = TRUE].state = "pending"
  BY <1>1 DEF MailInv, MailOK, WakesOK, WakeOK, WakeRow, Expired, Released
<1>2. /\ Requeued \in [Wakes -> WakeRow]
      /\ \A w \in Wakes : WakeOK(Requeued[w])
      /\ \A w \in Wakes : IF Expired(w) /\ Pending = {}
                          THEN Requeued[w].state = "pending"
                          ELSE Requeued[w] = wakes[w]
  <2>1. \A w \in Wakes :
           Requeued[w] = IF Expired(w) /\ Pending = {}
                         THEN [Released(w) EXCEPT !.due = TRUE] ELSE wakes[w]
    BY DEF Requeued
  <2>2. \A w \in Wakes : WakeOK(wakes[w])
    BY DEF MailInv, MailOK, WakesOK
  <2>3. \A w \in Wakes : WakeOK(Requeued[w])
    BY <1>1, <2>1, <2>2
  <2>4. Requeued \in [Wakes -> WakeRow]
    BY <2>3 DEF Requeued, WakeOK
  <2> QED
    BY <1>1, <2>1, <2>3, <2>4
<1>3. OnePending(Requeued)
  <2>1. CASE Pending = {}
    <3>1. \A v, w \in {u \in Wakes : Expired(u)} : v = w
      BY <2>1, OneAtMost DEF RequeueRefused
    <3> QED
      BY <1>2, <2>1, <3>1 DEF OnePending, Pending
  <2>2. CASE Pending # {}
    BY <1>2, <2>2 DEF OnePending, MailInv, MailOK
  <2> QED
    BY <2>1, <2>2
<1>4. Carried(letters, Requeued)
  BY <1>2 DEF Carried, MailInv, MailOK, LettersOK, Alive, Expired
<1> QED
  BY <1>2, <1>3, <1>4 DEF WakesOK

LEMMA PassedOverOK ==
    ASSUME NEW ws, NEW w \in Wakes, WakeOK(ws[w])
    PROVE  WakeOK(PassedOver(ws, w)) /\ PassedOver(ws, w).state = ws[w].state
<1> DEFINE q == IF desk.live THEN "none"
                ELSE IF ws[w].quiet = "none" THEN "set" ELSE ws[w].quiet
<1>1. q \in {"none", "set", "long"}
  BY DEF WakeOK, WakeRow
<1>2. PassedOver(ws, w) = ws[w] \/ PassedOver(ws, w) = [ws[w] EXCEPT !.quiet = q]
  BY DEF PassedOver
<1> HIDE DEF q
<1>3. WakeOK([ws[w] EXCEPT !.quiet = q]) /\ [ws[w] EXCEPT !.quiet = q].state = ws[w].state
  BY <1>1 DEF WakeOK, WakeRow
<1> QED
  BY <1>2, <1>3

LEMMA TurnsOfOK ==
    ASSUME NEW ms \in SUBSET Letters
    PROVE  /\ TurnsOf(ms) \subseteq TurnSets
           /\ \A g \in TurnsOf(ms) : g \subseteq ms
           /\ \A m \in ms : m \in TurnOf(m, ms)
<1>1. Letters \subseteq Nat
  BY WakeBounds DEF Letters
<1>2. \A m \in ms : TurnOf(m, ms) \subseteq ms
  BY DEF TurnOf
<1>3. \A m \in ms : m \in TurnOf(m, ms)
  <2> SUFFICES ASSUME NEW m \in ms, letters[m].kind = "outcome"
               PROVE  m \in TurnOf(m, ms)
    BY DEF TurnOf
  <2>1. \A k \in ms : (k >= m /\ k <= m) \/ (k >= m /\ k <= m) => k = m
    BY <1>1
  <2> QED
    BY <2>1 DEF TurnOf
<1>4. \A m \in ms : TurnOf(m, ms) \in TurnSets
  BY <1>2, <1>3 DEF TurnSets
<1> QED
  BY <1>2, <1>3, <1>4 DEF TurnsOf

LEMMA StatesStay ==
    ASSUME NEW l, NEW ls, NEW ws, NEW vs, MailOK(l, ls, ws), WakesOK(vs),
           \A w \in Wakes : vs[w].state = ws[w].state
    PROVE  MailOK(l, ls, vs)
  BY DEF MailOK, OnePending, Carried, HeldOK, LettersOK

\* A wake that is over.
LEMMA EndedOK ==
    ASSUME NEW r, WakeOK(r), NEW s \in {"delivered", "failed", "cancelled"}
    PROVE  /\ WakeOK([r EXCEPT !.state = s, !.quiet = "none"])
           /\ [r EXCEPT !.state = s, !.quiet = "none"].state = s
  BY DEF WakeOK, WakeRow

LEMMA Claims ==
    ASSUME MailInv, Claim
    PROVE  MailInv'
<1> DEFINE ws == Requeued
           ms == Undelivered
           w  == Least({u \in Claimables(Requeued) : ~Skips(Requeued, u)})
<1>1. ClaimOf(ws, w) /\ ~RequeueRefused /\ lease.pc = "idle"
  BY DEF Claim
<1>2. w \in Wakes /\ ws[w].state \in {"pending", "delivering"}
  <2> DEFINE ready == {u \in Claimables(Requeued) : ~Skips(Requeued, u)}
  <2>1. ready # {} /\ ready \in SUBSET Nat
    BY WakeBounds DEF Claim, Claimables, Wakes
  <2>2. w \in ready
    BY <2>1, LeastIs
  <2> QED
    BY <2>2 DEF Claimables
<1>3. WakesOK(ws) /\ OnePending(ws) /\ Carried(letters, ws)
  BY <1>1, RequeuedOK
<1>4. ms \subseteq Letters
  BY DEF Undelivered
<1>5. letters' = [m \in Letters |-> IF m \in ms
                                    THEN [letters[m] EXCEPT !.wake = w]
                                    ELSE letters[m]]
  BY Zenon, <1>1 DEF ClaimOf
<1>6. lease' = [NoLease EXCEPT !.pc = "claimed", !.wake = w, !.letters = ms,
                               !.todo = TurnsOf(ms)]
  BY Zenon, <1>1 DEF ClaimOf
<1>7. PICK row, on :
        /\ row = [ws[w] EXCEPT !.state = "delivering", !.lapsed = FALSE,
                               !.sprint = on]
        /\ on \in BOOLEAN
        /\ wakes' = [v \in Wakes |->
             IF v = w THEN row
             ELSE IF /\ ws[v].state = "pending"
                     /\ \A m \in Letters : Sent(m) => letters'[m].wake # v
                  THEN [ws[v] EXCEPT !.state = "cancelled", !.quiet = "none"]
                  ELSE IF v < w /\ v \in Claimables(ws) THEN PassedOver(ws, v)
                  ELSE ws[v]]
  <2> DEFINE on == notice.armed /\ \E m \in ms : ~Engine(m)
             row == [ws[w] EXCEPT !.state = "delivering", !.lapsed = FALSE,
                                  !.sprint = on]
  <2>1. wakes' = [v \in Wakes |->
             IF v = w THEN row
             ELSE IF /\ ws[v].state = "pending"
                     /\ \A m \in Letters : Sent(m) => letters'[m].wake # v
                  THEN [ws[v] EXCEPT !.state = "cancelled", !.quiet = "none"]
                  ELSE IF v < w /\ v \in Claimables(ws) THEN PassedOver(ws, v)
                  ELSE ws[v]]
    BY Zenon, <1>1, <1>5 DEF ClaimOf
  <2> QED
    BY <2>1, Zenon
<1> HIDE DEF w, ws
<1>8. WakeOK(row) /\ row.state = "delivering"
  BY <1>2, <1>3, <1>7 DEF WakesOK, WakeOK, WakeRow
<1>9. \A v \in Wakes : WakeOK(ws[v])
  BY <1>3 DEF WakesOK
<1>10. \A v \in Wakes : WakeOK(wakes'[v])
  BY <1>7, <1>8, <1>9, EndedOK, PassedOverOK
<1>11. WakesOK(wakes')
  BY <1>7, <1>10 DEF WakesOK, WakeOK
<1>12. /\ wakes'[w].state = "delivering"
       /\ \A v \in Wakes \ {w} :
             \/ wakes'[v].state = ws[v].state
             \/ ws[v].state = "pending" /\ wakes'[v].state = "cancelled"
  <2>1. ASSUME NEW v \in Wakes \ {w}
        PROVE  \/ wakes'[v].state = ws[v].state
               \/ ws[v].state = "pending" /\ wakes'[v].state = "cancelled"
    <3>1. \/ /\ wakes'[v] = [ws[v] EXCEPT !.state = "cancelled", !.quiet = "none"]
             /\ ws[v].state = "pending"
          \/ wakes'[v] = PassedOver(ws, v)
          \/ wakes'[v] = ws[v]
      BY <1>7, <2>1
    <3>2. WakeOK(ws[v]) /\ v \in Wakes
      BY <1>9, <2>1
    <3>3. [ws[v] EXCEPT !.state = "cancelled", !.quiet = "none"].state = "cancelled"
      BY Zenon, <3>2, EndedOK
    <3>4. PassedOver(ws, v).state = ws[v].state
      BY <3>2, PassedOverOK
    <3> QED
      BY <3>1, <3>3, <3>4
  <2> QED
    BY <1>2, <1>7, <1>8, <2>1
<1>13. /\ LettersOK(letters')
       /\ \A m \in Letters : letters'[m].kind = letters[m].kind
                          /\ letters'[m].delivered = letters[m].delivered
       /\ \A m \in ms : letters'[m].wake = w
  BY <1>2, <1>4, <1>5 DEF MailInv, MailOK, LettersOK, LetterRow, Wakes
<1>14. Carried(letters', wakes')
  <2> SUFFICES ASSUME NEW m \in Letters, letters'[m].kind # "none",
                      ~letters'[m].delivered
               PROVE  wakes'[letters'[m].wake].state \in Alive
    BY DEF Carried
  <2>1. m \in ms
    BY <1>13 DEF Undelivered, Sent
  <2> QED
    BY <1>12, <1>13, <2>1 DEF Alive
<1>15. OnePending(wakes')
  BY <1>3, <1>12 DEF OnePending
<1>16. lease' \in LeaseRow /\ lease'.wake = w /\ lease'.letters = ms
  <2>1. TurnsOf(ms) \in SUBSET TurnSets
    BY <1>4, TurnsOfOK
  <2>2. lease' = [pc |-> "claimed", wake |-> w, letters |-> ms,
                  todo |-> TurnsOf(ms), seen |-> 0, chat |-> 0]
    BY <1>6 DEF NoLease
  <2> HIDE DEF ms
  <2> QED
    BY <1>2, <1>4, <2>1, <2>2, WakeBounds DEF LeaseRow, Wakes
<1>17. HeldOK(lease', letters', wakes')
  BY <1>2, <1>4, <1>12, <1>13, <1>16 DEF HeldOK, Undelivered, Sent
<1> QED
  BY <1>11, <1>13, <1>14, <1>15, <1>16, <1>17 DEF MailInv, MailOK

LEMMA ClaimsNone ==
    ASSUME MailInv, ClaimNone
    PROVE  MailInv'
<1>1. WakesOK(Requeued) /\ OnePending(Requeued) /\ Carried(letters, Requeued)
  BY RequeuedOK DEF ClaimNone
<1>2. MailOK(lease, letters, Requeued)
  BY <1>1 DEF MailInv, MailOK, HeldOK, ClaimNone
<1>3. wakes' = [w \in Wakes |-> IF w \in Claimables(Requeued)
                                THEN PassedOver(Requeued, w) ELSE Requeued[w]]
  BY DEF ClaimNone
<1>4. \A w \in Wakes : WakeOK(wakes'[w]) /\ wakes'[w].state = Requeued[w].state
  BY <1>1, <1>3, PassedOverOK DEF WakesOK
<1>5. WakesOK(wakes')
  BY <1>3, <1>4 DEF WakesOK, WakeOK
<1> QED
  BY <1>2, <1>4, <1>5, StatesStay DEF MailInv, ClaimNone

-----------------------------------------------------------------------------
(* Hand-overs, endings, readings and clocks.                               *)

Absorbed(w) ==
    [m \in Letters |-> IF Sent(m) /\ letters[m].wake \in Pending
                       THEN [letters[m] EXCEPT !.wake = w] ELSE letters[m]]

Absorbing(w, row) ==
    [v \in Wakes |-> IF v = w THEN row
       ELSE IF v \in Pending
            THEN [wakes[v] EXCEPT !.state = "cancelled", !.quiet = "none"]
            ELSE wakes[v]]

\* The claimed wake takes the receiver's pending wake in and is put back.
LEMMA Absorbs ==
    ASSUME MailInv, lease.pc # "idle", NEW row, WakeOK(row),
           row.state = "pending"
    PROVE  MailOK(NoLease, Absorbed(lease.wake), Absorbing(lease.wake, row))
<1> DEFINE w  == lease.wake
           ls == Absorbed(w)
           ws == Absorbing(w, row)
<1>1. w \in Wakes /\ wakes[w].state = "delivering"
  BY DEF MailInv, MailOK, HeldOK
<1>2. /\ LettersOK(ls)
      /\ \A m \in Letters :
            /\ ls[m].kind = letters[m].kind /\ ls[m].read = letters[m].read
            /\ ls[m].delivered = letters[m].delivered
            /\ ls[m].wake = w \/ (/\ ls[m].wake = letters[m].wake
                                  /\ Sent(m) => letters[m].wake \notin Pending)
  BY <1>1 DEF Absorbed, MailInv, MailOK, LettersOK, LetterRow, Wakes, Sent
<1>3. ASSUME NEW v \in Wakes \ {w}
      PROVE  /\ WakeOK(ws[v])
             /\ IF v \in Pending THEN ws[v].state = "cancelled"
                                 ELSE ws[v] = wakes[v]
  <2>1. ws[v] = IF v \in Pending
                THEN [wakes[v] EXCEPT !.state = "cancelled", !.quiet = "none"]
                ELSE wakes[v]
    BY <1>3 DEF Absorbing
  <2>2. WakeOK(wakes[v])
    BY <1>3 DEF MailInv, MailOK, WakesOK
  <2>3. /\ WakeOK([wakes[v] EXCEPT !.state = "cancelled", !.quiet = "none"])
        /\ [wakes[v] EXCEPT !.state = "cancelled", !.quiet = "none"].state
             = "cancelled"
    BY Zenon, <2>2, EndedOK
  <2> QED
    BY <2>1, <2>2, <2>3
<1>4. ws[w] = row
  BY <1>1 DEF Absorbing
<1>5. WakesOK(ws)
  <2>1. \A v \in Wakes : WakeOK(ws[v])
    BY <1>3, <1>4
  <2> QED
    BY Zenon, <2>1 DEF Absorbing, WakesOK, WakeOK
<1> HIDE DEF w, ls, ws
<1>6. OnePending(ws)
  BY <1>3, <1>4 DEF OnePending, Pending
<1>7. Carried(ls, ws)
  <2> SUFFICES ASSUME NEW m \in Letters, ls[m].kind # "none",
                      ~ls[m].delivered, ~ls[m].read
               PROVE  ws[ls[m].wake].state \in Alive
    BY DEF Carried
  <2>1. CASE ls[m].wake = w
    BY <1>4, <2>1 DEF Alive
  <2>2. CASE ls[m].wake # w
    <3>1. /\ Sent(m) /\ letters[m].wake \in Wakes
          /\ wakes[letters[m].wake].state \in Alive
      BY <1>2 DEF MailInv, MailOK, LettersOK, Carried, Sent
    <3>2. ls[m].wake = letters[m].wake /\ letters[m].wake \notin Pending
      BY <1>2, <2>2, <3>1
    <3>3. letters[m].wake \in Wakes \ {w}
      BY <2>2, <3>1, <3>2
    <3> QED
      BY <1>3, <3>1, <3>2, <3>3
  <2> QED
    BY <2>1, <2>2
<1>8. HeldOK(NoLease, ls, ws)
  BY NoLeaseOK DEF HeldOK
<1>9. MailOK(NoLease, ls, ws)
  BY <1>2, <1>5, <1>6, <1>7, <1>8, NoLeaseOK DEF MailOK
<1> QED
  BY <1>9 DEF ls, ws, w

LEMMA ReleasedOK ==
    ASSUME NEW w \in Wakes, WakeOK(wakes[w])
    PROVE  /\ Released(w) \in WakeRow /\ Released(w).state = "pending"
           /\ Released(w).tries = wakes[w].tries
  BY DEF Released, WakeOK, WakeRow

LEMMA BackOK ==
    ASSUME NEW r \in WakeRow, r.state = "pending", NEW d \in BOOLEAN
    PROVE  /\ [r EXCEPT !.quiet = "none"] \in WakeRow
           /\ [r EXCEPT !.quiet = "none"].state = "pending"
           /\ [r EXCEPT !.quiet = "none"].tries = r.tries
           /\ [r EXCEPT !.due = d, !.quiet = "none"] \in WakeRow
           /\ [r EXCEPT !.due = d, !.quiet = "none"].state = "pending"
           /\ [r EXCEPT !.due = d, !.quiet = "none"].tries = r.tries
  BY DEF WakeRow

LEMMA RetriedOK ==
    ASSUME NEW r \in WakeRow, r.state = "pending", NEW d \in BOOLEAN,
           r.tries + 1 <= 2
    PROVE  /\ [r EXCEPT !.tries = r.tries + 1, !.due = d] \in WakeRow
           /\ [r EXCEPT !.tries = r.tries + 1, !.due = d].state = "pending"
           /\ [r EXCEPT !.tries = r.tries + 1, !.due = d].tries <= 2
<1>1. r.tries + 1 \in 0..3
  BY DEF WakeRow
<1> QED
  BY <1>1 DEF WakeRow

LEMMA Defers ==
    ASSUME MailInv, lease.pc # "idle", DeferForceNew
    PROVE  MailInv'
<1> DEFINE w   == lease.wake
           row == [Released(w) EXCEPT !.quiet = "none"]
<1>1. w \in Wakes /\ wakes[w].state = "delivering" /\ WakeOK(wakes[w])
  BY DEF MailInv, MailOK, HeldOK, WakesOK
<1>2. WakeOK(row) /\ row.state = "pending"
  <2>1. /\ Released(w) \in WakeRow /\ Released(w).state = "pending"
        /\ Released(w).tries <= 2
    BY <1>1, ReleasedOK DEF WakeOK
  <2> QED
    BY <2>1, BackOK DEF WakeOK
<1>3. letters' = Absorbed(w) /\ wakes' = Absorbing(w, row) /\ lease' = NoLease
  BY DEF DeferForceNew, Absorbed, Absorbing
<1> HIDE DEF row
<1> QED
  BY <1>2, <1>3, Absorbs DEF MailInv

\* One wake is written while no claim is held any more.
LEMMA OneWakeMoves ==
    ASSUME MailInv, NEW w \in Wakes, NEW row, WakeOK(row),
           row.state = "pending" => Pending \subseteq {w},
           row.state \in Alive \/ \A m \in Letters :
              Sent(m) /\ letters[m].wake = w
                => letters[m].delivered \/ letters[m].read
    PROVE  MailOK(NoLease, letters, [wakes EXCEPT ![w] = row])
<1> DEFINE ws == [wakes EXCEPT ![w] = row]
<1>1. ws[w] = row /\ \A v \in Wakes \ {w} : ws[v] = wakes[v]
  BY DEF MailInv, MailOK, WakesOK
<1>2. WakesOK(ws)
  BY <1>1 DEF MailInv, MailOK, WakesOK, WakeOK
<1> HIDE DEF ws
<1>3. OnePending(ws)
  BY <1>1 DEF OnePending, Pending, MailInv, MailOK
<1>4. Carried(letters, ws)
  BY <1>1 DEF Carried, MailInv, MailOK, LettersOK, Sent
<1>5. HeldOK(NoLease, letters, ws)
  BY NoLeaseOK DEF HeldOK
<1>6. MailOK(NoLease, letters, ws)
  BY <1>2, <1>3, <1>4, <1>5, NoLeaseOK DEF MailInv, MailOK
<1> QED
  BY <1>6 DEF ws

LEMMA FailedOK ==
    ASSUME NEW r, WakeOK(r)
    PROVE  /\ WakeOK([r EXCEPT !.state = "failed", !.lapsed = FALSE,
                               !.quiet = "none"])
           /\ [r EXCEPT !.state = "failed", !.lapsed = FALSE,
                        !.quiet = "none"].state = "failed"
           /\ WakeOK([r EXCEPT !.state = "failed", !.tries = 3,
                               !.lapsed = FALSE, !.quiet = "none"])
           /\ [r EXCEPT !.state = "failed", !.tries = 3, !.lapsed = FALSE,
                        !.quiet = "none"].state = "failed"
<1>1. WakeOK([r EXCEPT !.state = "failed", !.lapsed = FALSE, !.quiet = "none"])
  BY DEF WakeOK, WakeRow
<1>2. [r EXCEPT !.state = "failed", !.lapsed = FALSE,
                !.quiet = "none"].state = "failed"
  BY DEF WakeOK, WakeRow
<1>3. WakeOK([r EXCEPT !.state = "failed", !.tries = 3,
                       !.lapsed = FALSE, !.quiet = "none"])
  <2>1. r \in WakeRow /\ 3 \in 0..3
    BY DEF WakeOK
  <2>2. [r EXCEPT !.state = "failed", !.tries = 3, !.lapsed = FALSE,
                  !.quiet = "none"] \in WakeRow
    BY <2>1 DEF WakeRow
  <2>3. [r EXCEPT !.state = "failed", !.tries = 3, !.lapsed = FALSE,
                  !.quiet = "none"].state = "failed"
    BY <2>1 DEF WakeRow
  <2> QED
    BY <2>2, <2>3 DEF WakeOK
<1>4. [r EXCEPT !.state = "failed", !.tries = 3, !.lapsed = FALSE,
                !.quiet = "none"].state = "failed"
  BY DEF WakeOK, WakeRow
<1> QED
  BY <1>1, <1>2, <1>3, <1>4

LEMMA Fails ==
    ASSUME MailInv, lease.pc # "idle", NEW permanent \in BOOLEAN,
           FailDelivery(permanent)
    PROVE  MailInv'
<1> DEFINE w == lease.wake
<1>1. w \in Wakes /\ wakes[w].state = "delivering" /\ WakeOK(wakes[w])
  BY DEF MailInv, MailOK, HeldOK, WakesOK
<1>2. lease' = NoLease
  BY DEF FailDelivery
<1>3. Released(w) \in WakeRow /\ Released(w).state = "pending"
      /\ Released(w).tries = wakes[w].tries /\ wakes[w].tries <= 2
  BY <1>1, ReleasedOK DEF WakeOK
<1>4. CASE RecordTransportFailure(permanent)
  <2>1. CASE permanent
    <3> DEFINE row == [wakes[w] EXCEPT !.state = "failed",
                         !.lapsed = FALSE, !.quiet = "none"]
    <3>1. WakeOK(row) /\ row.state = "failed"
      BY Zenon, <1>1, FailedOK
    <3>2. wakes' = [wakes EXCEPT ![w] = row] /\ letters' = letters
      BY <1>4, <2>1 DEF RecordTransportFailure
    <3> HIDE DEF row
    <3>3. MailOK(NoLease, letters', wakes')
      BY <1>1, <3>1, <3>2, OneWakeMoves DEF Alive
    <3> QED
      BY <1>2, <3>3 DEF MailInv
  <2>2. CASE ~permanent
    <3> DEFINE row == [Released(w) EXCEPT !.due = FALSE, !.quiet = "none"]
    <3>1. WakeOK(row) /\ row.state = "pending"
      BY <1>3, BackOK DEF WakeOK
    <3>2. wakes' = Absorbing(w, row) /\ letters' = Absorbed(w)
      BY <1>4, <2>2 DEF RecordTransportFailure, Absorbing, Absorbed
    <3> HIDE DEF row
    <3>3. MailOK(NoLease, letters', wakes')
      BY <3>1, <3>2, Absorbs
    <3> QED
      BY <1>2, <3>3 DEF MailInv
  <2> QED
    BY <2>1, <2>2
<1>5. CASE RecordWakeFailure /\ UNCHANGED letters
  <2>1. CASE wakes[w].tries = 2
    <3> DEFINE row == [wakes[w] EXCEPT !.state = "failed", !.tries = 3,
                         !.lapsed = FALSE, !.quiet = "none"]
    <3>1. WakeOK(row) /\ row.state = "failed"
      BY Zenon, <1>1, FailedOK
    <3>2. wakes' = [wakes EXCEPT ![w] = row]
      BY <1>5, <2>1 DEF RecordWakeFailure
    <3> HIDE DEF row
    <3>3. MailOK(NoLease, letters', wakes')
      BY <1>1, <1>5, <3>1, <3>2, OneWakeMoves DEF Alive
    <3> QED
      BY <1>2, <3>3 DEF MailInv
  <2>2. CASE wakes[w].tries # 2 /\ Pending # {}
    <3>1. wakes' = wakes
      BY <1>5, <2>2 DEF RecordWakeFailure
    <3> QED
      BY <1>2, <1>5, <3>1, Dropped DEF MailInv
  <2>3. CASE wakes[w].tries # 2 /\ Pending = {}
    <3> DEFINE r   == Released(w)
               row == [r EXCEPT !.tries = r.tries + 1, !.due = FALSE]
    <3>1. r.tries + 1 <= 2
      BY <1>1, <1>3, <2>3 DEF WakeOK, WakeRow
    <3>2. WakeOK(row) /\ row.state = "pending"
      BY <1>3, <3>1, RetriedOK DEF WakeOK
    <3>3. wakes' = [wakes EXCEPT ![w] = row]
      BY <1>5, <2>3 DEF RecordWakeFailure
    <3> HIDE DEF row
    <3>4. MailOK(NoLease, letters', wakes')
      BY <1>1, <1>5, <2>3, <3>2, <3>3, OneWakeMoves DEF Alive
    <3> QED
      BY <1>2, <3>4 DEF MailInv
  <2> QED
    BY <2>1, <2>2, <2>3
<1> QED
  BY <1>4, <1>5 DEF FailDelivery

LEMMA Delivers ==
    ASSUME MailInv, RecordDelivered
    PROVE  MailInv'
<1> DEFINE w   == lease.wake
           row == [wakes[w] EXCEPT !.state = "delivered",
                     !.tries = wakes[w].tries + 1, !.lapsed = FALSE,
                     !.quiet = "none"]
<1>1. /\ w \in Wakes /\ wakes[w].state = "delivering" /\ WakeOK(wakes[w])
      /\ lease.letters \subseteq Letters
  BY DEF MailInv, MailOK, HeldOK, WakesOK, RecordDelivered, LeaseRow
<1>2. WakeOK(row) /\ row.state = "delivered"
  <2>1. wakes[w] \in WakeRow /\ wakes[w].tries + 1 \in 0..3
    BY <1>1 DEF WakeOK, WakeRow
  <2>2. row \in WakeRow
    BY <2>1 DEF WakeRow
  <2>3. row.state = "delivered"
    BY <2>1 DEF WakeRow
  <2> QED
    BY <2>2, <2>3 DEF WakeOK
<1>3. wakes' = [wakes EXCEPT ![w] = row]
  BY DEF RecordDelivered
<1>4. letters' = [m \in Letters |-> IF m \in lease.letters
                    THEN [letters[m] EXCEPT !.delivered = TRUE] ELSE letters[m]]
  BY DEF RecordDelivered
<1> HIDE DEF row
<1>5. /\ wakes'[w] = row
      /\ \A v \in Wakes \ {w} : wakes'[v] = wakes[v]
      /\ WakesOK(wakes')
  BY <1>1, <1>2, <1>3 DEF MailInv, MailOK, WakesOK, WakeOK
<1>6. /\ LettersOK(letters')
      /\ \A m \in Letters : /\ letters'[m].kind = letters[m].kind
                            /\ letters'[m].wake = letters[m].wake
                            /\ letters'[m].read = letters[m].read
                            /\ letters[m].delivered => letters'[m].delivered
      /\ \A m \in lease.letters : letters'[m].delivered
  BY <1>1, <1>4 DEF MailInv, MailOK, LettersOK, LetterRow
<1>7. Carried(letters', wakes')
  <2> SUFFICES ASSUME NEW m \in Letters, letters'[m].kind # "none",
                      ~letters'[m].delivered, ~letters'[m].read
               PROVE  wakes'[letters'[m].wake].state \in Alive
    BY DEF Carried
  <2>1. letters[m].wake # w
    BY <1>6 DEF MailInv, MailOK, HeldOK, RecordDelivered
  <2> QED
    BY <1>5, <1>6, <2>1 DEF MailInv, MailOK, Carried, LettersOK
<1>8. OnePending(wakes')
  BY <1>2, <1>5 DEF MailInv, MailOK, OnePending
<1>9. lease' = NoLease
  BY DEF RecordDelivered
<1> QED
  BY <1>5, <1>6, <1>7, <1>8, <1>9, NoLeaseOK DEF MailInv, MailOK, HeldOK

LEMMA Reads ==
    ASSUME MailInv, NEW m \in Letters, ReadLetter(m)
    PROVE  MailInv'
<1> DEFINE w   == letters[m].wake
           row == [wakes[w] EXCEPT !.state = "cancelled", !.quiet = "none"]
<1>1. Sent(m) /\ w \in Wakes
  BY DEF ReadLetter, Unread, Sent, MailInv, MailOK, LettersOK
<1>2. letters' = [letters EXCEPT ![m].read = TRUE]
  BY DEF ReadLetter
<1>3. /\ LettersOK(letters')
      /\ \A n \in Letters : /\ letters'[n].kind = letters[n].kind
                            /\ letters'[n].wake = letters[n].wake
                            /\ letters'[n].delivered = letters[n].delivered
                            /\ letters[n].read => letters'[n].read
      /\ letters'[m].read
  BY <1>2 DEF MailInv, MailOK, LettersOK, LetterRow
<1>4. MailOK(lease, letters', wakes)
  BY <1>3 DEF MailInv, MailOK, Carried, HeldOK, LeaseRow
<1>5. CASE wakes' = wakes
  BY <1>4, <1>5 DEF MailInv, ReadLetter
<1>6. CASE /\ wakes[w].state = "pending"
           /\ \A n \in Joined(w) : n = m \/ letters[n].read
           /\ wakes' = [wakes EXCEPT ![w] = row]
  <2>1. WakeOK(row) /\ row.state = "cancelled"
    BY Zenon, <1>1, EndedOK DEF MailInv, MailOK, WakesOK
  <2> HIDE DEF row
  <2>2. /\ wakes'[w].state = "cancelled" /\ WakesOK(wakes')
        /\ \A v \in Wakes \ {w} : wakes'[v] = wakes[v]
    BY <1>1, <1>6, <2>1 DEF MailInv, MailOK, WakesOK, WakeOK
  <2>3. \A n \in Letters : letters'[n].kind # "none" /\ letters'[n].wake = w
                             => letters'[n].read
    BY <1>3, <1>6 DEF Joined, Sent
  <2>4. Carried(letters', wakes')
    BY <1>4, <2>2, <2>3, <1>3 DEF MailOK, Carried, LettersOK
  <2>5. OnePending(wakes')
    BY <1>4, <2>2 DEF MailOK, OnePending
  <2>6. HeldOK(lease, letters', wakes')
    BY <1>4, <1>6, <2>2 DEF MailOK, HeldOK
  <2> QED
    BY <1>4, <2>2, <2>4, <2>5, <2>6 DEF MailOK, MailInv, ReadLetter
<1>7. wakes' = wakes \/ (/\ wakes[w].state = "pending"
                         /\ \A n \in Joined(w) : n = m \/ letters[n].read
                         /\ wakes' = [wakes EXCEPT ![w] = row])
  BY DEF ReadLetter
<1> QED
  BY <1>5, <1>6, <1>7

LEMMA Recovers ==
    ASSUME MailInv, NEW w \in Wakes, RecoverEngineWake(w)
    PROVE  MailInv'
<1> DEFINE row == NewWake(FALSE, TRUE, FALSE)
<1>1. WakeOK(row) /\ row.state = "pending"
  BY NewWakeOK
<1>2. /\ Pending # {} \/ \E u \in Wakes : wakes[u].state = "none"
      /\ lease' = lease
      /\ wakes' = IF Pending # {} THEN wakes
                  ELSE [wakes EXCEPT ![Coalesced] = row]
      /\ letters' = [m \in Letters |->
           IF m \in Joined(w) \cap Undelivered /\ Engine(m) /\ ~letters[m].read
           THEN [letters[m] EXCEPT !.wake = Coalesced] ELSE letters[m]]
  BY DEF RecoverEngineWake
<1>3. Coalesced \in Wakes
  BY <1>2, CoalescedIs DEF MailInv, MailOK
<1>4. /\ LettersOK(letters')
      /\ \A m \in Letters :
           \/ letters'[m] = letters[m]
           \/ /\ letters'[m].wake = Coalesced /\ letters'[m].kind # "none"
              /\ letters[m].kind # "none" => letters'[m].kind = letters[m].kind
  BY <1>2, <1>3 DEF MailInv, MailOK, LettersOK, LetterRow, Joined, Sent, Wakes
<1> HIDE DEF row
<1>5. MailOK(lease, letters', wakes')
  BY <1>1, <1>2, <1>4, Joins DEF MailInv
<1> QED
  BY <1>2, <1>5 DEF MailInv

LEMMA Ticks ==
    ASSUME MailInv, NEW w \in Wakes, Tick(w)
    PROVE  MailInv'
<1> DEFINE r == wakes[w]
<1>1. WakeOK(r)
  BY DEF MailInv, MailOK, WakesOK
<1>2. PICK row :
        /\ wakes' = [wakes EXCEPT ![w] = row]
        /\ \/ row = [r EXCEPT !.lapsed = TRUE]
           \/ row = [r EXCEPT !.due = TRUE]
           \/ row = [r EXCEPT !.quiet = "long"]
           \/ row = [r EXCEPT !.aged = TRUE]
  BY DEF Tick, LeaseLapses, BackoffEnds, QuietPasses, HoldEnds
<1>3. UNCHANGED <<letters, lease>>
  BY DEF Tick, LeaseLapses, BackoffEnds, QuietPasses, HoldEnds
<1>4. WakeOK(row) /\ row.state = r.state
  BY <1>1, <1>2 DEF WakeOK, WakeRow
<1>5. WakesOK(wakes') /\ \A v \in Wakes : wakes'[v].state = wakes[v].state
  BY <1>2, <1>4 DEF MailInv, MailOK, WakesOK, WakeOK
<1> QED
  BY <1>3, <1>5, StatesStay DEF MailInv

\* A claim goes on with the same wake and messages.
LEMMA ClaimGoesOn ==
    ASSUME MailInv, UNCHANGED <<letters, wakes>>, lease.pc # "idle",
           lease' \in LeaseRow, lease'.wake = lease.wake,
           lease'.letters = lease.letters
    PROVE  MailInv'
  BY DEF MailInv, MailOK, HeldOK

LEMMA LeaseMoves ==
    ASSUME NEW l \in LeaseRow, NEW c \in 0..MaxChats,
           NEW pc \in {"claimed", "rotate", "create", "turns", "receipt", "record"}
    PROVE  /\ [l EXCEPT !.pc = pc] \in LeaseRow
           /\ [l EXCEPT !.pc = pc].wake = l.wake
           /\ [l EXCEPT !.pc = pc].letters = l.letters
           /\ [l EXCEPT !.pc = pc, !.chat = c] \in LeaseRow
           /\ [l EXCEPT !.pc = pc, !.chat = c].wake = l.wake
           /\ [l EXCEPT !.pc = pc, !.chat = c].letters = l.letters
           /\ [l EXCEPT !.pc = pc, !.seen = c] \in LeaseRow
           /\ [l EXCEPT !.pc = pc, !.seen = c].wake = l.wake
           /\ [l EXCEPT !.pc = pc, !.seen = c].letters = l.letters
  BY DEF LeaseRow

LEMMA LeaseTurnsOn ==
    ASSUME NEW l \in LeaseRow, NEW todo \in SUBSET TurnSets,
           NEW pc \in {"turns", "record"}
    PROVE  /\ [l EXCEPT !.todo = todo, !.pc = pc] \in LeaseRow
           /\ [l EXCEPT !.todo = todo, !.pc = pc].wake = l.wake
           /\ [l EXCEPT !.todo = todo, !.pc = pc].letters = l.letters
  BY DEF LeaseRow

LEMMA DeliveryKeepsMail ==
    ASSUME MailInv, desk \in DeskRow, Deliver
    PROVE  MailInv'
<1>1. lease \in LeaseRow /\ desk.active \in 0..MaxChats
      /\ desk.opened \in 0..MaxChats
  BY DEF MailInv, MailOK, DeskRow
<1>2. ASSUME NEW c \in 0..MaxChats, Target(c), UNCHANGED <<letters, wakes>>,
             lease.pc # "idle"
      PROVE  MailInv'
  BY Zenon, <1>1, <1>2, LeaseMoves, ClaimGoesOn DEF Target
<1>3. CASE Claim \/ ClaimNone
  BY <1>3, Claims, ClaimsNone
<1>4. CASE Resolve
  <2>1. ASSUME lease' = [lease EXCEPT !.pc = "rotate", !.seen = desk.active],
               UNCHANGED deliveryRows
        PROVE  MailInv'
    BY Zenon, <1>1, <1>4, <2>1, LeaseMoves, ClaimGoesOn DEF Resolve,
       deliveryRows
  <2> QED
    BY <1>1, <1>2, <1>4, <2>1, Defers DEF Resolve, deliveryRows
<1>5. CASE Rotate
  <2>1. ASSUME lease' = [lease EXCEPT !.pc = "create"],
               UNCHANGED <<letters, wakes>>
        PROVE  MailInv'
    BY Zenon, <1>1, <1>5, <2>1, LeaseMoves, ClaimGoesOn DEF Rotate
  <2> QED
    BY <1>1, <1>2, <1>5, <2>1, Defers DEF Rotate, deliveryRows
<1>6. CASE Create
  <2>1. ASSUME desk.opened < MaxChats, Target(desk.opened + 1),
               UNCHANGED <<letters, wakes>>
        PROVE  MailInv'
    <3>1. desk.opened + 1 \in 0..MaxChats
      BY <1>1, <2>1, WakeBounds
    <3> QED
      BY <1>2, <1>6, <2>1, <3>1 DEF Create
  <2> QED
    BY <1>1, <1>2, <1>6, <2>1, Defers DEF Create, deliveryRows
<1>7. CASE EnqueueTurn
  BY Zenon, <1>1, <1>7, LeaseMoves, ClaimGoesOn DEF EnqueueTurn
<1>8. CASE RecordEnqueue
  <2>1. lease.todo \ {NextTurn} \in SUBSET TurnSets
    BY <1>1 DEF LeaseRow
  <2>2. lease' = [lease EXCEPT !.todo = lease.todo \ {NextTurn},
           !.pc = IF lease.todo \ {NextTurn} = {} THEN "record" ELSE "turns"]
        /\ lease.pc = "receipt" /\ UNCHANGED <<letters, wakes>>
    BY <1>8 DEF RecordEnqueue
  <2> QED
    BY Zenon, <1>1, <2>1, <2>2, LeaseTurnsOn, ClaimGoesOn
<1>9. CASE RecordDelivered
  BY <1>9, Delivers
<1>10. CASE CreateFails \/ EnqueueFails
  BY <1>10, Fails DEF CreateFails, EnqueueFails
<1> QED
  BY <1>3, <1>4, <1>5, <1>6, <1>7, <1>8, <1>9, <1>10 DEF Deliver

LEMMA ConcludeMail ==
    ASSUME MailInv, NEW j, NEW outcome, Conclude(j, outcome), UNCHANGED lease
    PROVE  MailInv'
<1>1. CASE UNCHANGED <<letters, wakes>>
  BY <1>1 DEF MailInv
<1>2. CASE SendLetter("outcome")
  BY <1>2, Sends DEF Kinds
<1> QED
  BY <1>1, <1>2 DEF Conclude

\* Every step of the system keeps the mail in order.
LEMMA MailStep ==
    ASSUME MailInv, desk \in DeskRow, supply \in WorkloadRow,
           [WakesNext]_wvars
    PROVE  MailInv'
<1>1. CASE UNCHANGED <<letters, wakes, lease>>
  BY <1>1 DEF MailInv
<1>2. CASE Post
  <2>1. Head(supply.mail) \in Kinds
    BY <1>2 DEF Post, WorkloadRow
  <2> QED
    BY <1>2, <2>1, Sends DEF Post
<1>3. CASE DeliverStep
  BY <1>3, DeliveryKeepsMail DEF DeliverStep
<1>4. CASE RecoverFailed
  BY <1>4, Recovers DEF RecoverFailed
<1>5. CASE ReconcileRuns
  <2>1. ASSUME NEW j \in Jobs, ReadEvidence(j)
        PROVE  MailInv'
    BY <1>1, <2>1, ConcludeMail DEF ReadEvidence, runRows
  <2>2. CASE ProbeSupervisor
    BY <1>1, <2>2 DEF ProbeSupervisor, runRows
  <2>3. CASE RereadEvidence
    BY <1>1, <2>3, ConcludeMail DEF RereadEvidence, runRows
  <2> QED
    BY <1>5, <2>1, <2>2, <2>3 DEF ReconcileRuns
<1>6. CASE Follow
  BY Zenon, <1>1, <1>6 DEF Follow, ReadReceipts, JudgeReceipt, ReplayTurn,
     RecordReplay, receiptRows
<1>7. CASE Clock
  BY <1>1, <1>7, Ticks DEF Clock, RetryTimeComes, receiptRows
<1>8. CASE Read
  BY <1>8, Reads DEF Read
<1>9. CASE TurnMoves
  BY Zenon, <1>1, <1>9 DEF TurnMoves, TurnStarts, TurnRefusedBusy, TurnShows,
     TurnEnds, CodexObserves, receiptRows
<1>10. CASE ChatOpens \/ ChatCloses
  BY <1>1, <1>10 DEF ChatOpens, ChatCloses
<1>11. ASSUME NEW j \in Jobs, StartRun(j)
       PROVE  MailInv'
  BY <1>1, <1>11 DEF StartRun, Register, runRows
<1>12. ASSUME NEW j \in Jobs, SupervisorStep(j)
       PROVE  MailInv'
  <2>1. CASE Submit(j)
    BY <1>1, <2>1, ConcludeMail DEF Submit, runRows
  <2>2. CASE ~Submit(j)
    BY <1>1, <1>12, <2>2 DEF SupervisorStep, Supervise, SupervisorStarts,
       CheckIn, Launch, CommandEnds, runRows
  <2> QED
    BY <2>1, <2>2
<1>13. ASSUME NEW j \in Jobs, SupervisorDies(j) \/ Kill(j)
       PROVE  MailInv'
  BY <1>1, <1>13 DEF SupervisorDies, Kill, runRows
<1>14. CASE Outage
  <2>1. CASE RouteFails \/ ServerFaults
    BY <2>1, Fails DEF RouteFails, ServerFaults
  <2>2. ASSUME NEW j \in Jobs, EvidenceUnreadable(j) \/ LaunchFails(j)
        PROVE  MailInv'
    BY <1>1, <2>2 DEF EvidenceUnreadable, LaunchFails, runRows
  <2> QED
    BY <1>14, <2>1, <2>2 DEF Outage
<1>15. CASE PulseDies
  BY <1>15, Dropped DEF PulseDies, MailInv
<1>16. CASE UNCHANGED wvars
  BY <1>1, <1>16 DEF wvars
<1> QED
  BY <1>2, <1>3, <1>4, <1>5, <1>6, <1>7, <1>8, <1>9, <1>10, <1>11, <1>12,
     <1>13, <1>14, <1>15, <1>16 DEF WakesNext

-----------------------------------------------------------------------------
(* What a step may do to messages and chats.                               *)

\* A message keeps its kind, and is delivered only by the record of a claim.
LettersKeep ==
    \A m \in Letters :
        /\ Sent(m) => letters'[m].kind = letters[m].kind
        /\ letters'[m].kind # "none" /\ letters'[m].delivered =>
             \/ Sent(m) /\ letters[m].delivered
             \/ lease.pc = "record" /\ m \in lease.letters

LEMMA SendKeeps ==
    ASSUME MailInv, NEW kind \in Kinds, SendLetter(kind)
    PROVE  LettersKeep
<1> DEFINE new == [kind |-> kind, wake |-> Coalesced, read |-> FALSE,
                   delivered |-> FALSE]
<1>1. NextLetter \in Letters /\ ~Sent(NextLetter)
  <2> DEFINE free == {m \in Letters : ~Sent(m)}
  <2>1. free # {} /\ free \in SUBSET Nat
    BY WakeBounds DEF SendLetter, CanSend, Letters
  <2>2. Least(free) \in free
    BY <2>1, LeastIs
  <2> QED
    BY <2>2 DEF NextLetter
<1>2. letters' = [letters EXCEPT ![NextLetter] = new] /\ ~new.delivered
  BY DEF SendLetter
<1> HIDE DEF new
<1> QED
  BY <1>1, <1>2 DEF LettersKeep, Sent, MailInv, MailOK, LettersOK

LEMMA MovesKeep ==
    ASSUME MailInv, NEW ls, LettersOK(ls), letters' = ls,
           \A m \in Letters : /\ ls[m].kind = letters[m].kind
                              /\ ls[m].delivered = letters[m].delivered
    PROVE  LettersKeep
  BY DEF LettersKeep, Sent

LEMMA DeferKeeps ==
    ASSUME MailInv, letters' = Absorbed(lease.wake), lease.pc # "idle"
    PROVE  LettersKeep
<1>1. lease.wake \in Wakes
  BY DEF MailInv, MailOK, HeldOK
<1> QED
  BY <1>1 DEF Absorbed, MailInv, MailOK, LettersOK, LetterRow, LettersKeep,
     Sent, Wakes

LEMMA UntouchedKeep ==
    ASSUME UNCHANGED letters
    PROVE  LettersKeep
  BY DEF LettersKeep, Sent

LEMMA FailKeeps ==
    ASSUME MailInv, lease.pc # "idle", NEW permanent \in BOOLEAN,
           FailDelivery(permanent)
    PROVE  LettersKeep
<1>1. letters' = letters \/ letters' = Absorbed(lease.wake)
  BY Zenon DEF FailDelivery, RecordTransportFailure, Absorbed
<1> QED
  BY <1>1, DeferKeeps, UntouchedKeep

LEMMA DeliveryKeepsLetters ==
    ASSUME MailInv, Deliver
    PROVE  LettersKeep
<1>1. ASSUME lease.pc # "idle", DeferForceNew
      PROVE  LettersKeep
  <2>1. letters' = Absorbed(lease.wake)
    BY <1>1 DEF DeferForceNew, Absorbed
  <2> QED
    BY <1>1, <2>1, DeferKeeps
<1>2. CASE Claim
  <2>1. letters' = [m \in Letters |->
          IF m \in Undelivered
          THEN [letters[m] EXCEPT !.wake = Least({u \in Claimables(Requeued) :
                                                   ~Skips(Requeued, u)})]
          ELSE letters[m]]
    BY Zenon, <1>2 DEF Claim, ClaimOf
  <2> QED
    BY <2>1 DEF LettersKeep, Sent, MailInv, MailOK, LettersOK, LetterRow
<1>3. CASE ClaimNone
  BY <1>3, UntouchedKeep DEF ClaimNone
<1>4. CASE Resolve \/ Rotate \/ Create
  BY <1>1, <1>4, UntouchedKeep DEF Resolve, Rotate, Create, deliveryRows
<1>5. CASE EnqueueTurn \/ RecordEnqueue
  BY <1>5, UntouchedKeep DEF EnqueueTurn, RecordEnqueue
<1>6. CASE RecordDelivered
  BY <1>6 DEF RecordDelivered, LettersKeep, Sent, MailInv, MailOK, LettersOK,
     LetterRow
<1>7. CASE CreateFails \/ EnqueueFails
  BY <1>7, FailKeeps DEF CreateFails, EnqueueFails
<1> QED
  BY <1>2, <1>3, <1>4, <1>5, <1>6, <1>7 DEF Deliver

LEMMA ConcludeKeeps ==
    ASSUME MailInv, NEW j, NEW outcome, Conclude(j, outcome)
    PROVE  LettersKeep
  BY SendKeeps, UntouchedKeep DEF Conclude, Kinds

LEMMA LettersStep ==
    ASSUME MailInv, supply \in WorkloadRow, [WakesNext]_wvars
    PROVE  LettersKeep
<1>1. CASE UNCHANGED letters
  BY <1>1, UntouchedKeep
<1>2. CASE Post
  <2>1. Head(supply.mail) \in Kinds
    BY <1>2 DEF Post, WorkloadRow
  <2> QED
    BY <1>2, <2>1, SendKeeps DEF Post
<1>3. CASE DeliverStep
  BY <1>3, DeliveryKeepsLetters DEF DeliverStep
<1>4. ASSUME NEW w \in Wakes, RecoverEngineWake(w)
      PROVE  LettersKeep
  BY <1>4 DEF RecoverEngineWake, LettersKeep, Sent, MailInv, MailOK, LettersOK,
     LetterRow
<1>5. CASE ReconcileRuns
  BY Zenon, <1>1, <1>5, ConcludeKeeps DEF ReconcileRuns, ReadEvidence,
     ProbeSupervisor, RereadEvidence
<1>6. ASSUME NEW m \in Letters, ReadLetter(m)
      PROVE  LettersKeep
  BY <1>6 DEF ReadLetter, LettersKeep, Sent, MailInv, MailOK, LettersOK,
     LetterRow
<1>7. ASSUME NEW j \in Jobs, SupervisorStep(j)
      PROVE  LettersKeep
  <2>1. CASE Submit(j)
    BY <1>1, <2>1, ConcludeKeeps DEF Submit
  <2>2. CASE ~Submit(j)
    BY <1>1, <1>7, <2>2 DEF SupervisorStep, Supervise, SupervisorStarts,
       CheckIn, Launch, CommandEnds
  <2> QED
    BY <2>1, <2>2
<1>8. CASE Outage
  <2>1. CASE RouteFails \/ ServerFaults
    BY <2>1, FailKeeps DEF RouteFails, ServerFaults
  <2>2. ASSUME NEW j \in Jobs, EvidenceUnreadable(j) \/ LaunchFails(j)
        PROVE  LettersKeep
    BY <1>1, <2>2 DEF EvidenceUnreadable, LaunchFails
  <2> QED
    BY <1>8, <2>1, <2>2 DEF Outage
<1>9. CASE Follow \/ Clock
  BY Zenon, <1>1, <1>9 DEF Follow, ReadReceipts, JudgeReceipt, ReplayTurn,
     RecordReplay, receiptRows, Clock, Tick, LeaseLapses, BackoffEnds,
     QuietPasses, HoldEnds, RetryTimeComes
<1>10. CASE TurnMoves \/ ChatOpens \/ ChatCloses \/ PulseDies
  BY Zenon, <1>1, <1>10 DEF TurnMoves, TurnStarts, TurnRefusedBusy, TurnShows,
     TurnEnds, CodexObserves, receiptRows, ChatOpens, ChatCloses, PulseDies
<1>11. ASSUME NEW j \in Jobs, StartRun(j) \/ SupervisorDies(j) \/ Kill(j)
       PROVE  LettersKeep
  BY <1>1, <1>11 DEF StartRun, Register, SupervisorDies, Kill
<1>12. CASE UNCHANGED wvars
  BY <1>1, <1>12 DEF wvars
<1> QED
  BY <1>2, <1>3, <1>4, <1>5, <1>6, <1>7, <1>8, <1>9, <1>10, <1>11, <1>12
     DEF WakesNext, RecoverFailed, Read

\* A chat once opened keeps its maker; a live turn is in an active chat.
DeskOK(dk) ==
    /\ dk \in DeskRow /\ dk.active <= dk.opened
    /\ dk.live => dk.active # 0

DeskGrows ==
    /\ DeskOK(desk') /\ desk.opened <= desk'.opened
    /\ \A c \in 1..desk.opened : desk'.maker[c] = desk.maker[c]

LEMMA DeskClears ==
    ASSUME DeskOK(desk), desk' = [desk EXCEPT !.active = 0, !.live = FALSE]
    PROVE  DeskGrows
<1>1. /\ desk.active \in Nat /\ desk.opened \in Nat
      /\ 0 \in 0..MaxChats /\ desk.active <= desk.opened /\ desk \in DeskRow
  BY WakeBounds DEF DeskOK, DeskRow
<1>2. desk' \in DeskRow
  BY <1>1 DEF DeskRow
<1>3. /\ desk'.active = 0 /\ desk'.opened = desk.opened
      /\ desk'.maker = desk.maker /\ ~desk'.live
  BY <1>1 DEF DeskRow
<1> QED
  BY <1>1, <1>2, <1>3 DEF DeskGrows, DeskOK

LEMMA DeskLives ==
    ASSUME DeskOK(desk), desk' \in DeskRow, desk'.active = desk.active,
           desk'.opened = desk.opened, desk'.maker = desk.maker,
           desk'.live => desk.active # 0
    PROVE  DeskGrows
  BY DEF DeskGrows, DeskOK, DeskRow

LEMMA DeskOpens ==
    ASSUME DeskOK(desk), desk.opened < MaxChats
    PROVE  /\ desk' = [desk EXCEPT !.active = desk.opened + 1, !.opened = @ + 1]
                => DeskGrows
           /\ \A w \in 0..MaxWakes :
                desk' = [desk EXCEPT !.active = desk.opened + 1,
                           !.opened = @ + 1, !.maker[desk.opened + 1] = w]
                => /\ DeskGrows /\ desk'.maker[desk.opened + 1] = w
                   /\ desk'.opened = desk.opened + 1
<1> DEFINE c == desk.opened + 1
<1>1. c \in Chats /\ c \in 0..MaxChats /\ desk.opened \in Nat
  BY WakeBounds DEF DeskOK, DeskRow, Chats
<1>2. desk \in DeskRow /\ desk.maker \in [Chats -> 0..MaxWakes]
  BY DEF DeskOK, DeskRow
<1>3. ASSUME desk' = [desk EXCEPT !.active = c, !.opened = c]
      PROVE  DeskGrows
  <2>1. desk' \in DeskRow /\ desk'.active = c /\ desk'.opened = c
        /\ desk'.maker = desk.maker
    BY <1>1, <1>2, <1>3 DEF DeskRow
  <2> QED
    BY <1>1, <2>1 DEF DeskGrows, DeskOK
<1>4. ASSUME NEW w \in 0..MaxWakes,
             desk' = [desk EXCEPT !.active = c, !.opened = c, !.maker[c] = w]
      PROVE  DeskGrows /\ desk'.maker[c] = w /\ desk'.opened = c
  <2>1. desk' = [desk EXCEPT !.active = c, !.opened = c,
                             !.maker = [desk.maker EXCEPT ![c] = w]]
    BY <1>2, <1>4 DEF DeskRow
  <2>2. [desk.maker EXCEPT ![c] = w] \in [Chats -> 0..MaxWakes]
    BY <1>1, <1>2
  <2>3. /\ desk' \in DeskRow /\ desk'.active = c /\ desk'.opened = c
        /\ desk'.maker = [desk.maker EXCEPT ![c] = w]
    BY <1>1, <1>2, <2>1, <2>2 DEF DeskRow
  <2>4. \A d \in 1..desk.opened : d \in Chats /\ d # c
    <3>1. MaxChats \in Nat /\ desk.opened < MaxChats
      BY WakeBounds
    <3> QED
      BY <1>1, <3>1 DEF Chats
  <2>5. desk'.maker[c] = w
    BY <1>1, <1>2, <2>3
  <2>6. \A d \in 1..desk.opened : desk'.maker[d] = desk.maker[d]
    BY <1>1, <1>2, <2>3, <2>4
  <2> QED
    BY <1>1, <2>3, <2>5, <2>6 DEF DeskGrows, DeskOK
<1> QED
  BY Zenon, <1>3, <1>4

LEMMA DeskStep ==
    ASSUME MailInv, DeskOK(desk), \A t \in DOMAIN turns : turns[t].chat # 0,
           [WakesNext]_wvars
    PROVE  DeskGrows
<1>1. ASSUME UNCHANGED desk PROVE DeskGrows
  BY <1>1 DEF DeskGrows, DeskOK, DeskRow
<1>2. ASSUME CloseDesk PROVE DeskGrows
  BY <1>2, DeskClears DEF CloseDesk
<1>3. ASSUME NEW b \in BOOLEAN, lease.pc # "idle", FailDelivery(b)
      PROVE  DeskGrows
  BY <1>1, <1>2, <1>3 DEF FailDelivery, RecordWakeFailure
<1>4. ASSUME DeferForceNew PROVE DeskGrows
  BY <1>1, <1>4 DEF DeferForceNew
<1>5. CASE DeliverStep
  <2>1. CASE Rotate
    BY <1>1, <1>2, <1>4, <2>1 DEF Rotate, deliveryRows
  <2>2. CASE Create
    <3>1. lease.wake \in 0..MaxWakes
      BY DEF MailInv, MailOK, LeaseRow
    <3> QED
      BY <1>1, <1>4, <2>2, <3>1, DeskOpens DEF Create, deliveryRows
  <2>3. CASE Claim \/ ClaimNone \/ Resolve
    BY <1>1, <1>4, <2>3 DEF Claim, ClaimNone, Resolve, deliveryRows
  <2>4. CASE EnqueueTurn \/ RecordEnqueue \/ RecordDelivered
    BY <1>1, <2>4 DEF EnqueueTurn, RecordEnqueue, RecordDelivered
  <2>5. CASE CreateFails \/ EnqueueFails
    BY <1>3, <2>5 DEF CreateFails, EnqueueFails
  <2> QED
    BY <1>5, <2>1, <2>2, <2>3, <2>4, <2>5 DEF DeliverStep, Deliver
<1>6. CASE ChatOpens
  BY <1>6, DeskOpens DEF ChatOpens
<1>7. CASE ChatCloses
  BY <1>2, <1>7 DEF ChatCloses
<1>8. CASE TurnMoves
  <2>1. ASSUME NEW t \in DOMAIN turns, TurnStarts(t) PROVE DeskGrows
    <3>1. desk.active # 0 /\ desk' = [desk EXCEPT !.live = TRUE]
      BY <2>1 DEF TurnStarts, FirstQueued
    <3>2. desk' \in DeskRow /\ desk'.active = desk.active
          /\ desk'.opened = desk.opened /\ desk'.maker = desk.maker
      BY <3>1 DEF DeskOK, DeskRow
    <3> QED
      BY <3>1, <3>2, DeskLives
  <2>2. ASSUME NEW t, TurnEnds(t) PROVE DeskGrows
    <3>1. desk' = [desk EXCEPT !.live = desk.live /\ turns[t].chat # desk.active]
      BY <2>2 DEF TurnEnds
    <3>2. desk.live \in BOOLEAN /\ (desk.live => desk.active # 0)
      BY DEF DeskOK, DeskRow
    <3>3. desk' \in DeskRow /\ desk'.active = desk.active
          /\ desk'.opened = desk.opened /\ desk'.maker = desk.maker
          /\ (desk'.live => desk.live)
      BY <3>1, <3>2 DEF DeskOK, DeskRow
    <3> QED
      BY <3>2, <3>3, DeskLives
  <2>3. ASSUME NEW t, TurnRefusedBusy(t) \/ TurnShows(t) \/ CodexObserves(t)
        PROVE  DeskGrows
    BY <1>1, <2>3 DEF TurnRefusedBusy, TurnShows, CodexObserves, receiptRows
  <2> QED
    BY <1>8, <2>1, <2>2, <2>3 DEF TurnMoves
<1>9. CASE Outage
  <2>1. CASE RouteFails \/ ServerFaults
    BY <1>3, <2>1 DEF RouteFails, ServerFaults
  <2>2. ASSUME NEW j \in Jobs, EvidenceUnreadable(j) \/ LaunchFails(j)
        PROVE  DeskGrows
    BY <1>1, <2>2 DEF EvidenceUnreadable, LaunchFails, runRows
  <2> QED
    BY <1>9, <2>1, <2>2 DEF Outage
<1>10. CASE Post \/ RecoverFailed \/ Read \/ PulseDies
  BY Zenon, <1>1, <1>10 DEF Post, RecoverFailed, RecoverEngineWake, Read,
     ReadLetter, PulseDies
<1>11. CASE ReconcileRuns \/ Follow \/ Clock
  BY Zenon, <1>1, <1>11 DEF ReconcileRuns, ReadEvidence, ProbeSupervisor,
     RereadEvidence, runRows, Follow, ReadReceipts, JudgeReceipt, ReplayTurn,
     RecordReplay, receiptRows, Clock, Tick, LeaseLapses, BackoffEnds,
     QuietPasses, HoldEnds, RetryTimeComes
<1>12. ASSUME NEW j \in Jobs,
              StartRun(j) \/ SupervisorStep(j) \/ SupervisorDies(j) \/ Kill(j)
       PROVE  DeskGrows
  BY <1>1, <1>12 DEF StartRun, Register, SupervisorStep, Supervise,
     SupervisorStarts, CheckIn, Launch, CommandEnds, Submit, SupervisorDies,
     Kill, runRows
<1>13. CASE UNCHANGED wvars
  BY <1>1, <1>13 DEF wvars
<1> QED
  BY <1>5, <1>6, <1>7, <1>8, <1>9, <1>10, <1>11, <1>12, <1>13 DEF WakesNext

-----------------------------------------------------------------------------
(* Turns.                                                                  *)

Uniform(g, ls) ==
    \A m, n \in g : ls[m].kind \in EngineKinds => ls[n].kind \in EngineKinds

\* A turn carries messages of one sort, a force-new one only in its own
\* wake's chat, and a replay only engine messages.
TurnOK(r, ls, dk) ==
    /\ r \in TurnRow /\ r.letters # {} /\ r.chat \in 1..dk.opened
    /\ \A m \in r.letters : ls[m].kind # "none"
    /\ Uniform(r.letters, ls)
    /\ (\E m \in r.letters : ls[m].kind = "assignment")
         => dk.maker[r.chat] = r.key[1]
    /\ r.key[1] = 0 => \A m \in r.letters : ls[m].kind \in EngineKinds

TurnsOK(ts, ls, dk) ==
    /\ ts \in Seq(TurnRow) /\ Len(ts) <= MaxTurns
    /\ \A t \in 1..Len(ts) : TurnOK(ts[t], ls, dk)

SameTurn(old, new) ==
    /\ new.chat = old.chat /\ new.key = old.key /\ new.letters = old.letters
    /\ old.shown => new.shown
    /\ old.state = "busy" => new.state = "busy"

\* Turns change their state and are shown, nothing else; a refused one stays so.
TurnsSame ==
    /\ turns' \in Seq(TurnRow) /\ Len(turns') = Len(turns)
    /\ \A t \in 1..Len(turns) : SameTurn(turns[t], turns'[t])

LEMMA TurnOKStays ==
    ASSUME LettersKeep, DeskGrows, NEW r, TurnOK(r, letters, desk),
           NEW q \in TurnRow, SameTurn(r, q), DeskOK(desk)
    PROVE  TurnOK(q, letters', desk')
<1>1. r.letters \subseteq Letters /\ \A m \in r.letters : Sent(m)
  BY DEF TurnOK, TurnRow, Sent
<1>2. \A m \in r.letters : letters'[m].kind = letters[m].kind
  BY <1>1 DEF LettersKeep
<1>3. /\ r.chat \in 1..desk.opened /\ desk'.maker[r.chat] = desk.maker[r.chat]
      /\ r.chat \in 1..desk'.opened
  BY DEF DeskGrows, TurnOK, DeskOK, DeskRow
<1>4. q.letters = r.letters /\ q.chat = r.chat /\ q.key = r.key
  BY DEF SameTurn
<1>5. Uniform(q.letters, letters')
  BY <1>2, <1>4 DEF TurnOK, Uniform
<1> QED
  BY <1>2, <1>3, <1>4, <1>5 DEF TurnOK

LEMMA TurnsStay ==
    ASSUME LettersKeep, DeskGrows, DeskOK(desk), TurnsSame,
           TurnsOK(turns, letters, desk)
    PROVE  TurnsOK(turns', letters', desk')
<1>1. \A t \in 1..Len(turns') : turns'[t] \in TurnRow
  BY DEF TurnsSame
<1> QED
  BY <1>1, TurnOKStays DEF TurnsSame, TurnsOK

LEMMA TurnsGrow ==
    ASSUME LettersKeep, DeskGrows, DeskOK(desk), NEW row,
           TurnOK(row, letters', desk'), turns' = Append(turns, row),
           Len(turns) < MaxTurns, TurnsOK(turns, letters, desk)
    PROVE  TurnsOK(turns', letters', desk')
<1>1. turns \in Seq(TurnRow) /\ row \in TurnRow /\ Len(turns) \in Nat
  BY DEF TurnsOK, TurnOK
<1>2. /\ turns' \in Seq(TurnRow) /\ Len(turns') = Len(turns) + 1
      /\ \A t \in 1..Len(turns) : turns'[t] = turns[t]
      /\ turns'[Len(turns) + 1] = row
  BY <1>1
<1>3. ASSUME NEW t \in 1..Len(turns)
      PROVE  TurnOK(turns'[t], letters', desk')
  <2>1. SameTurn(turns[t], turns'[t]) /\ turns'[t] \in TurnRow
    BY <1>1, <1>2 DEF SameTurn
  <2> QED
    BY <2>1, TurnOKStays DEF TurnsOK
<1>4. \A t \in 1..Len(turns') : t \in 1..Len(turns) \/ t = Len(turns) + 1
  BY <1>1, <1>2
<1> QED
  BY <1>1, <1>2, <1>3, <1>4, WakeBounds DEF TurnsOK

LEMMA TurnsMap ==
    ASSUME turns \in Seq(TurnRow), DOMAIN turns' = 1..Len(turns),
           turns' = [t \in 1..Len(turns) |-> turns'[t]],
           \A t \in 1..Len(turns) : turns'[t] \in TurnRow
                                    /\ SameTurn(turns[t], turns'[t])
    PROVE  TurnsSame
<1>1. Len(turns) \in Nat
  OBVIOUS
<1>2. turns' \in [1..Len(turns) -> TurnRow]
  OBVIOUS
<1>3. turns' \in Seq(TurnRow)
  BY <1>1, <1>2
<1>4. Len(turns') = Len(turns)
  BY <1>1, <1>3
<1> QED
  BY <1>3, <1>4 DEF TurnsSame

LEMMA TurnRowMoves ==
    ASSUME NEW r \in TurnRow
    PROVE  /\ \A s \in {"queued", "running", "done", "busy", "cancelled"} :
                /\ [r EXCEPT !.state = s] \in TurnRow
                /\ r.state # "busy" => SameTurn(r, [r EXCEPT !.state = s])
           /\ [r EXCEPT !.shown = TRUE] \in TurnRow
           /\ SameTurn(r, [r EXCEPT !.shown = TRUE])
           /\ SameTurn(r, r)
  BY DEF TurnRow, SameTurn

LEMMA TurnsUntouched ==
    ASSUME turns \in Seq(TurnRow), UNCHANGED turns
    PROVE  TurnsSame
  BY DEF TurnsSame, SameTurn

LEMMA DeskCloseSame ==
    ASSUME turns \in Seq(TurnRow), CloseDesk
    PROVE  TurnsSame
<1>1. turns' = [t \in 1..Len(turns) |->
                  IF turns[t].chat = desk.active /\ turns[t].state = "queued"
                  THEN [turns[t] EXCEPT !.state = "cancelled"] ELSE turns[t]]
  BY DEF CloseDesk, Displaced
<1>2. \A t \in 1..Len(turns) : turns[t] \in TurnRow
  OBVIOUS
<1>3. \A t \in 1..Len(turns) : turns'[t] \in TurnRow
                                    /\ SameTurn(turns[t], turns'[t])
  BY <1>1, <1>2, TurnRowMoves
<1>4. DOMAIN turns' = 1..Len(turns)
      /\ turns' = [t \in 1..Len(turns) |-> turns'[t]]
  BY <1>1
<1> QED
  BY <1>3, <1>4, TurnsMap

LEMMA OneTurnMoves ==
    ASSUME turns \in Seq(TurnRow), NEW t \in 1..Len(turns), NEW row \in TurnRow,
           SameTurn(turns[t], row), turns' = [turns EXCEPT ![t] = row]
    PROVE  TurnsSame
<1>1. \A u \in 1..Len(turns) : turns[u] \in TurnRow
  OBVIOUS
<1>2. DOMAIN turns = 1..Len(turns)
  OBVIOUS
<1>3. \A u \in 1..Len(turns) : turns'[u] = IF u = t THEN row ELSE turns[u]
  BY <1>2
<1>4. DOMAIN turns' = 1..Len(turns)
      /\ turns' = [u \in 1..Len(turns) |-> turns'[u]]
  BY <1>2
<1>5. \A u \in 1..Len(turns) : turns'[u] \in TurnRow
                               /\ SameTurn(turns[u], turns'[u])
  BY <1>1, <1>3 DEF SameTurn
<1> QED
  BY <1>4, <1>5, TurnsMap

\* Only the delivery service and the replay of a receipt queue turns.
LEMMA TurnsStep ==
    ASSUME turns \in Seq(TurnRow), [WakesNext]_wvars
    PROVE  TurnsSame \/ EnqueueTurn \/ ReplayTurn
<1>1. ASSUME UNCHANGED turns PROVE TurnsSame
  BY <1>1, TurnsUntouched
<1>2. ASSUME NEW b, FailDelivery(b)
      PROVE  TurnsSame
  BY <1>1, <1>2, DeskCloseSame DEF FailDelivery, RecordWakeFailure
<1>3. ASSUME DeferForceNew PROVE TurnsSame
  BY <1>1, <1>3 DEF DeferForceNew
<1>4. CASE DeliverStep
  <2>1. CASE Rotate
    BY <1>1, <1>3, <2>1, DeskCloseSame DEF Rotate, deliveryRows
  <2>2. CASE Claim \/ ClaimNone \/ Resolve \/ Create
    BY <1>1, <1>3, <2>2 DEF Claim, ClaimNone, Resolve, Create, deliveryRows
  <2>3. CASE RecordEnqueue \/ RecordDelivered
    BY <1>1, <2>3 DEF RecordEnqueue, RecordDelivered
  <2>4. CASE CreateFails \/ EnqueueFails
    BY <1>2, <2>4 DEF CreateFails, EnqueueFails
  <2> QED
    BY <1>4, <2>1, <2>2, <2>3, <2>4 DEF DeliverStep, Deliver
<1>5. CASE ChatOpens \/ ChatCloses
  BY <1>1, <1>5, DeskCloseSame DEF ChatOpens, ChatCloses
<1>6. CASE TurnMoves
  <2> SUFFICES ASSUME NEW t \in 1..Len(turns),
                      \/ TurnStarts(t) \/ TurnRefusedBusy(t) \/ TurnShows(t)
                      \/ TurnEnds(t) \/ CodexObserves(t)
               PROVE  TurnsSame
    BY <1>6 DEF TurnMoves
  <2>1. turns[t] \in TurnRow
    OBVIOUS
  <2>2. CASE UNCHANGED turns
    BY <1>1, <2>2
  <2>3. ASSUME NEW row \in TurnRow, SameTurn(turns[t], row),
               turns' = [turns EXCEPT ![t] = row]
        PROVE  TurnsSame
    BY <2>3, OneTurnMoves
  <2>4. \/ UNCHANGED turns
        \/ turns' = [turns EXCEPT ![t] = [turns[t] EXCEPT !.shown = TRUE]]
        \/ /\ turns[t].state # "busy"
           /\ \E s \in {"running", "busy", "done"} :
                turns' = [turns EXCEPT ![t] = [turns[t] EXCEPT !.state = s]]
    BY Zenon DEF TurnStarts, FirstQueued, TurnRefusedBusy, TurnShows, TurnEnds,
       CodexObserves
  <2> QED
    BY <2>1, <2>2, <2>3, <2>4, TurnRowMoves
<1>7. CASE Outage
  <2>1. CASE RouteFails \/ ServerFaults
    BY <1>2, <2>1 DEF RouteFails, ServerFaults
  <2>2. ASSUME NEW j \in Jobs, EvidenceUnreadable(j) \/ LaunchFails(j)
        PROVE  TurnsSame
    BY <1>1, <2>2 DEF EvidenceUnreadable, LaunchFails, runRows
  <2> QED
    BY <1>7, <2>1, <2>2 DEF Outage
<1>8. CASE Post \/ RecoverFailed \/ Read \/ PulseDies
  BY Zenon, <1>1, <1>8 DEF Post, RecoverFailed, RecoverEngineWake, Read,
     ReadLetter, PulseDies
<1>9. CASE ReconcileRuns \/ Follow \/ Clock
  <2>1. CASE ReconcileRuns
    BY <1>1, <2>1 DEF ReconcileRuns, ReadEvidence, ProbeSupervisor,
       RereadEvidence, runRows
  <2>2. CASE Follow
    BY Zenon, <1>1, <2>2 DEF Follow, ReadReceipts, JudgeReceipt, RecordReplay
  <2>3. CASE Clock
    BY <1>1, <2>3 DEF Clock, Tick, LeaseLapses, BackoffEnds, QuietPasses,
       HoldEnds, RetryTimeComes
  <2> QED
    BY <1>9, <2>1, <2>2, <2>3
<1>10. ASSUME NEW j \in Jobs,
              StartRun(j) \/ SupervisorStep(j) \/ SupervisorDies(j) \/ Kill(j)
       PROVE  TurnsSame
  BY <1>1, <1>10 DEF StartRun, Register, SupervisorStep, Supervise,
     SupervisorStarts, CheckIn, Launch, CommandEnds, Submit, SupervisorDies,
     Kill, runRows
<1>11. CASE UNCHANGED wvars
  BY <1>1, <1>11 DEF wvars
<1> QED
  BY <1>4, <1>5, <1>6, <1>7, <1>8, <1>9, <1>10, <1>11 DEF WakesNext

-----------------------------------------------------------------------------
(* What the service holds while it queues turns, and what the pulse holds. *)

\* Every claimed message is in a turn that is queued or still to be queued,
\* and the chat the turns go to is the wake's own if one is force-new.
LeaseOK(l, ts, ls, dk) ==
    l.pc # "idle" =>
        /\ \A g \in l.todo : g \subseteq l.letters /\ Uniform(g, ls)
        /\ \A m \in l.letters :
              \/ \E g \in l.todo : m \in g
              \/ \E t \in 1..Len(ts) : m \in ts[t].letters
        /\ l.pc = "record" => l.todo = {}
        /\ l.pc \in {"turns", "receipt"} =>
              /\ l.chat \in 1..dk.opened
              /\ (\E m \in l.letters : ls[m].kind = "assignment")
                   => dk.maker[l.chat] = l.wake

\* Between the queued turn and its receipt the turn is there to be found.
QueuedOK ==
    lease.pc = "receipt" =>
        /\ lease.todo # {}
        /\ Keyed(lease.chat, TurnKey) # {}
        /\ \A t \in Keyed(lease.chat, TurnKey) : turns[t].letters = NextTurn

Alone == lease.pc = "idle" \/ pulse.pc = "idle"

ToldOK(ls, ts) ==
    \A m \in Letters : ls[m].kind # "none" /\ ls[m].delivered =>
        \E t \in 1..Len(ts) : m \in ts[t].letters

LEMMA NextTurnIs ==
    ASSUME lease.todo \in SUBSET TurnSets, lease.todo # {}
    PROVE  NextTurn \in lease.todo /\ NextTurn # {} /\ NextTurn \subseteq Letters
           /\ Least(NextTurn) \in NextTurn
<1>1. Letters \subseteq Nat
  BY WakeBounds DEF Letters
<1>2. \A g \in lease.todo : g \subseteq Letters /\ g # {}
  BY DEF TurnSets
<1>3. \A g \in lease.todo : Least(g) \in g
  BY <1>1, <1>2, LeastIs
<1> DEFINE firsts == {Least(g) : g \in lease.todo}
<1>4. firsts # {} /\ firsts \in SUBSET Nat
  BY <1>1, <1>2, <1>3
<1>5. Least(firsts) \in firsts /\ \A y \in firsts : Least(firsts) <= y
  BY <1>4, LeastIs
<1>6. \E g \in lease.todo : \A h \in lease.todo : Least(g) <= Least(h)
  BY <1>5
<1>7. NextTurn \in lease.todo
  BY <1>6 DEF NextTurn
<1> QED
  BY <1>2, <1>3, <1>7

KeyedIn(ts, c, key) ==
    {t \in DOMAIN ts : ts[t].chat = c /\ ts[t].key = key}

TurnsKept ==
    /\ Len(turns) \in Nat /\ Len(turns') \in Nat
    /\ \A t \in 1..Len(turns) :
         t \in 1..Len(turns') /\ SameTurn(turns[t], turns'[t])

LEMMA SameKept ==
    ASSUME TurnsSame, turns \in Seq(TurnRow)
    PROVE  TurnsKept
  BY DEF TurnsSame, TurnsKept

\* A turn is queued under a key that names no other prompt.
LEMMA Queues ==
    ASSUME TurnsOK(turns, letters, desk), LettersKeep, DeskGrows, DeskOK(desk),
           NEW c, NEW key, NEW ms,
           TurnOK([chat |-> c, key |-> key, letters |-> ms,
                   state |-> "queued", shown |-> FALSE], letters', desk'),
           QueueTurn(c, key, ms), ~TurnRefused(c, key, ms),
           Len(turns) < MaxTurns \/ Keyed(c, key) # {}
    PROVE  /\ TurnsOK(turns', letters', desk') /\ TurnsKept
           /\ KeyedIn(turns', c, key) # {}
           /\ \A t \in KeyedIn(turns', c, key) : turns'[t].letters = ms
           /\ \A t \in 1..Len(turns') :
                t \notin 1..Len(turns) => turns'[t].letters = ms
<1> DEFINE row == [chat |-> c, key |-> key, letters |-> ms,
                   state |-> "queued", shown |-> FALSE]
<1>1. turns \in Seq(TurnRow) /\ Len(turns) \in Nat
  BY DEF TurnsOK
<1>2. \A t \in Keyed(c, key) : turns[t].letters = ms
  BY DEF TurnRefused
<1>3. CASE Keyed(c, key) # {}
  <2>1. turns' = turns
    BY <1>3 DEF QueueTurn
  <2>2. TurnsSame
    BY <1>1, <2>1, TurnsUntouched
  <2> QED
    BY <1>1, <1>2, <1>3, <2>1, <2>2, TurnsStay, SameKept DEF Keyed, KeyedIn
<1>4. CASE Keyed(c, key) = {}
  <2>1. turns' = Append(turns, row) /\ Len(turns) < MaxTurns
    BY <1>4 DEF QueueTurn
  <2>2. row.chat = c /\ row.key = key /\ row.letters = ms /\ row \in TurnRow
    BY DEF TurnOK
  <2>3. TurnOK(row, letters', desk')
    OBVIOUS
  <2> HIDE DEF row
  <2>4. TurnsOK(turns', letters', desk')
    BY <2>1, <2>3, TurnsGrow
  <2>5. /\ Len(turns') = Len(turns) + 1
        /\ \A t \in 1..Len(turns) : turns'[t] = turns[t]
        /\ turns'[Len(turns) + 1] = row
        /\ DOMAIN turns' = 1..(Len(turns) + 1)
    BY <1>1, <2>1, <2>2
  <2>6. TurnsKept
    BY <1>1, <2>5 DEF TurnsKept, SameTurn
  <2>7. KeyedIn(turns', c, key) = {Len(turns) + 1}
    <3>1. \A t \in 1..Len(turns) : t \notin Keyed(c, key)
      BY <1>4
    <3>2. \A t \in 1..Len(turns) : t \in DOMAIN turns
      BY <1>1
    <3>3. \A t \in 1..Len(turns) : t \notin KeyedIn(turns', c, key)
      BY <2>5, <3>1, <3>2 DEF Keyed, KeyedIn
    <3>4. Len(turns) + 1 \in KeyedIn(turns', c, key)
      BY <1>1, <2>2, <2>5 DEF KeyedIn
    <3> QED
      BY <1>1, <2>5, <3>3, <3>4 DEF KeyedIn
  <2>8. \A t \in 1..Len(turns') : t \notin 1..Len(turns) => t = Len(turns) + 1
    BY <1>1, <2>5
  <2> QED
    BY <2>2, <2>4, <2>5, <2>6, <2>7, <2>8
<1> QED
  BY <1>3, <1>4

LEMMA EnqueueQueues ==
    ASSUME MailInv, DeskOK(desk), TurnsOK(turns, letters, desk),
           LeaseOK(lease, turns, letters, desk), EnqueueTurn
    PROVE  /\ TurnsOK(turns', letters', desk') /\ TurnsKept
           /\ QueuedOK'
<1> DEFINE row == [chat |-> lease.chat, key |-> TurnKey, letters |-> NextTurn,
                   state |-> "queued", shown |-> FALSE]
<1>1. /\ lease \in LeaseRow /\ lease.pc = "turns" /\ lease.todo # {}
      /\ lease.todo \in SUBSET TurnSets /\ lease.wake \in Wakes
  BY DEF EnqueueTurn, MailInv, MailOK, HeldOK, LeaseRow
<1>2. NextTurn \in lease.todo /\ NextTurn # {} /\ NextTurn \subseteq Letters
      /\ Least(NextTurn) \in NextTurn
  BY <1>1, NextTurnIs
<1>3. TurnKey \in TurnKeys /\ TurnKey[1] = lease.wake /\ lease.wake # 0
  <2>1. Least(NextTurn) \in 0..MaxLetters /\ 0 \in 0..MaxLetters
    <3>1. Least(NextTurn) \in Letters
      BY <1>2
    <3>2. MaxLetters \in Nat
      BY WakeBounds
    <3>3. \A m \in Letters : m \in 0..MaxLetters
      BY <3>2 DEF Letters
    <3> QED
      BY <3>1, <3>2, <3>3
  <2>2. lease.wake # 0
    BY <1>1 DEF Wakes
  <2>3. \A k \in 0..MaxLetters : /\ <<lease.wake, k>> \in TurnKeys
                                 /\ <<lease.wake, k>>[1] = lease.wake
    BY <1>1 DEF TurnKeys
  <2> QED
    BY <2>1, <2>2, <2>3 DEF TurnKey
<1>4. NextTurn \subseteq lease.letters /\ Uniform(NextTurn, letters)
      /\ lease.chat \in 1..desk.opened
  BY <1>1, <1>2 DEF LeaseOK
<1>5. lease.chat \in Chats
  BY <1>4, WakeBounds DEF Chats, DeskOK, DeskRow
<1> HIDE DEF TurnKey, NextTurn
<1>6. row \in TurnRow
  BY <1>2, <1>3, <1>5 DEF TurnRow
<1>7. \A m \in NextTurn : letters[m].kind # "none"
  BY <1>1, <1>4 DEF MailInv, MailOK, HeldOK
<1>8. (\E m \in NextTurn : letters[m].kind = "assignment")
        => desk.maker[lease.chat] = lease.wake
  BY <1>1, <1>4 DEF LeaseOK
<1>9. TurnOK(row, letters, desk)
  BY <1>2, <1>3, <1>4, <1>6, <1>7, <1>8 DEF TurnOK
<1>10. UNCHANGED <<letters, desk>> /\ lease' = [lease EXCEPT !.pc = "receipt"]
  BY DEF EnqueueTurn
<1>11. LettersKeep /\ DeskGrows
  BY <1>10, UntouchedKeep DEF DeskGrows, DeskOK, DeskRow
<1> HIDE DEF row
<1>12. TurnOK(row, letters', desk')
  BY <1>9, <1>10
<1>13. /\ TurnsOK(turns', letters', desk') /\ TurnsKept
       /\ KeyedIn(turns', lease.chat, TurnKey) # {}
       /\ \A t \in KeyedIn(turns', lease.chat, TurnKey) :
             turns'[t].letters = NextTurn
  BY <1>11, <1>12, Queues DEF EnqueueTurn, row
<1>14. /\ lease'.todo = lease.todo /\ lease'.wake = lease.wake
       /\ lease'.chat = lease.chat
  BY <1>1, <1>10 DEF LeaseRow
<1>15. TurnKey' = TurnKey /\ NextTurn' = NextTurn
  BY <1>14 DEF TurnKey, NextTurn
<1>16. QueuedOK'
  BY <1>1, <1>13, <1>14, <1>15 DEF QueuedOK, Keyed, KeyedIn
<1> QED
  BY <1>13, <1>16

LEMMA LeaseStays ==
    ASSUME NEW l, LeaseOK(l, turns, letters, desk), LettersKeep, DeskGrows,
           DeskOK(desk), TurnsKept, l.pc # "idle" => l.letters \subseteq Letters,
           l.pc # "idle" => \A m \in l.letters : Sent(m)
    PROVE  LeaseOK(l, turns', letters', desk')
<1> SUFFICES ASSUME l.pc # "idle" PROVE LeaseOK(l, turns', letters', desk')
  BY DEF LeaseOK
<1>1. \A m \in l.letters : letters'[m].kind = letters[m].kind
  BY DEF LettersKeep
<1>2. \A g \in l.todo : g \subseteq l.letters /\ Uniform(g, letters')
  BY <1>1 DEF LeaseOK, Uniform
<1>3. ASSUME NEW m \in l.letters
      PROVE  \/ \E g \in l.todo : m \in g
             \/ \E t \in 1..Len(turns') : m \in turns'[t].letters
  BY DEF LeaseOK, TurnsKept, SameTurn
<1>4. ASSUME l.pc \in {"turns", "receipt"}
      PROVE  /\ l.chat \in 1..desk'.opened
             /\ desk'.maker[l.chat] = desk.maker[l.chat]
  BY <1>4 DEF LeaseOK, DeskGrows, DeskOK, DeskRow
<1> QED
  BY <1>1, <1>2, <1>3, <1>4 DEF LeaseOK

\* A claim that goes on to another step with what it has left to queue.
LEMMA LeaseSteps ==
    ASSUME NEW l, NEW q, NEW ts, NEW ls, NEW dk, LeaseOK(l, ts, ls, dk),
           l.pc # "idle", q.letters = l.letters, q.todo = l.todo,
           q.wake = l.wake, q.pc \notin {"idle", "record"},
           q.pc \in {"turns", "receipt"} =>
              /\ q.chat \in 1..dk.opened
              /\ (\E m \in q.letters : ls[m].kind = "assignment")
                   => dk.maker[q.chat] = q.wake
    PROVE  LeaseOK(q, ts, ls, dk)
  BY DEF LeaseOK

LEMMA ClaimLeases ==
    ASSUME MailInv, LettersKeep, Claim
    PROVE  LeaseOK(lease', turns', letters', desk') /\ lease'.pc = "claimed"
<1> DEFINE ms == Undelivered
<1>1. /\ lease'.pc = "claimed" /\ lease'.letters = ms
      /\ lease'.todo = TurnsOf(ms)
  BY Zenon DEF Claim, ClaimOf, NoLease
<1>2. ms \in SUBSET Letters
  BY DEF Undelivered
<1>3. \A m \in ms : letters'[m].kind = letters[m].kind
  BY DEF Undelivered, LettersKeep
<1>4. ASSUME NEW m \in ms
      PROVE  Uniform(TurnOf(m, ms), letters)
  <2>1. \A n \in ms : n \in Nat /\ (n >= m \/ n <= m) /\ n >= n /\ n <= n
    BY <1>2, <1>4, WakeBounds DEF Letters
  <2>2. CASE letters[m].kind # "outcome"
    BY <2>2 DEF TurnOf, Uniform
  <2>3. CASE letters[m].kind = "outcome"
    <3>1. \A n \in TurnOf(m, ms) : letters[n].kind = "outcome"
      BY <2>1, <2>3 DEF TurnOf
    <3> QED
      BY <3>1 DEF Uniform, EngineKinds
  <2> QED
    BY <2>2, <2>3
<1>5. \A g \in TurnsOf(ms) : Uniform(g, letters) /\ g \subseteq ms
  BY <1>2, <1>4, TurnsOfOK DEF TurnsOf
<1>6. \A m \in ms : \E g \in TurnsOf(ms) : m \in g
  BY <1>2, TurnsOfOK DEF TurnsOf
<1> HIDE DEF ms
<1>7. \A g \in TurnsOf(ms) : Uniform(g, letters')
  BY <1>3, <1>5 DEF Uniform
<1> QED
  BY <1>1, <1>5, <1>6, <1>7 DEF LeaseOK

LEMMA ForceNewIs ==
    ASSUME NEW m \in lease.letters, letters[m].kind = "assignment"
    PROVE  WantsForceNew /\ WantsNew
  BY DEF WantsForceNew, WantsNew, DeclaredNow, Declared

LEMMA TargetLeases ==
    ASSUME MailInv, LeaseOK(lease, turns, letters, desk), lease.pc # "idle",
           NEW c, Target(c), c \in 1..desk'.opened,
           LeaseOK(lease, turns', letters', desk'),
           WantsForceNew => desk'.maker[c] = lease.wake, UNCHANGED letters
    PROVE  LeaseOK(lease', turns', letters', desk') /\ lease'.pc = "turns"
<1>1. lease \in LeaseRow
  BY DEF MailInv, MailOK
<1>2. /\ lease'.pc = "turns" /\ lease'.chat = c /\ lease'.wake = lease.wake
      /\ lease'.todo = lease.todo /\ lease'.letters = lease.letters
  BY <1>1 DEF Target, LeaseRow
<1>3. (\E m \in lease.letters : letters'[m].kind = "assignment")
        => desk'.maker[c] = lease.wake
  BY ForceNewIs
<1> QED
  BY <1>2, <1>3, LeaseSteps

LEMMA RecordLeases ==
    ASSUME MailInv, turns \in Seq(TurnRow), LeaseOK(lease, turns, letters, desk),
           QueuedOK, RecordEnqueue
    PROVE  LeaseOK(lease', turns', letters', desk') /\ lease'.pc # "receipt"
<1> DEFINE left == lease.todo \ {NextTurn}
<1>1. lease.pc = "receipt" /\ UNCHANGED <<turns, letters, desk>>
  BY DEF RecordEnqueue
<1>2. lease \in LeaseRow
  BY DEF MailInv, MailOK
<1>3. /\ lease'.pc = IF left = {} THEN "record" ELSE "turns"
      /\ lease'.todo = left /\ lease'.chat = lease.chat
      /\ lease'.wake = lease.wake /\ lease'.letters = lease.letters
  BY <1>2 DEF RecordEnqueue, LeaseRow
<1>4. PICK t \in Keyed(lease.chat, TurnKey) : turns[t].letters = NextTurn
  BY <1>1 DEF QueuedOK
<1>5. t \in 1..Len(turns)
  BY <1>4 DEF Keyed
<1> HIDE DEF NextTurn
<1>6. ASSUME NEW m \in lease.letters
      PROVE  \/ \E g \in left : m \in g
             \/ \E u \in 1..Len(turns) : m \in turns[u].letters
  <2>1. CASE \E g \in lease.todo : m \in g
    BY <1>4, <1>5, <2>1
  <2>2. CASE \E u \in 1..Len(turns) : m \in turns[u].letters
    BY <2>2
  <2> QED
    BY <1>1, <1>6, <2>1, <2>2 DEF LeaseOK
<1>7. \A g \in left : g \subseteq lease.letters /\ Uniform(g, letters)
  BY <1>1 DEF LeaseOK
<1> QED
  BY <1>1, <1>3, <1>6, <1>7 DEF LeaseOK

LEMMA DeliveryLeases ==
    ASSUME MailInv, DeskOK(desk), TurnsOK(turns, letters, desk), QueuedOK,
           LeaseOK(lease, turns, letters, desk), LettersKeep, DeskGrows,
           TurnsKept, Deliver
    PROVE  LeaseOK(lease', turns', letters', desk') /\ QueuedOK'
<1>1. lease \in LeaseRow /\ desk.active <= desk.opened /\ desk \in DeskRow
      /\ (desk.live => desk.active # 0)
  BY DEF MailInv, MailOK, DeskOK
<1>2. LeaseOK(lease, turns', letters', desk')
  <2>1. lease.pc # "idle" => /\ lease.letters \subseteq Letters
                             /\ \A m \in lease.letters : Sent(m)
    BY <1>1 DEF LeaseRow, MailInv, MailOK, HeldOK, Sent
  <2> QED
    BY <2>1, LeaseStays
<1>3. ASSUME lease' = NoLease
      PROVE  LeaseOK(lease', turns', letters', desk') /\ QueuedOK'
  BY <1>3 DEF LeaseOK, QueuedOK, NoLease
<1>4. ASSUME NEW c \in 0..MaxChats, Target(c), c # 0, c <= desk'.opened,
             lease.pc # "idle", UNCHANGED letters,
             WantsForceNew => desk'.maker[c] = lease.wake
      PROVE  LeaseOK(lease', turns', letters', desk') /\ QueuedOK'
  <2>1. c \in 1..desk'.opened
    <3>1. desk'.opened \in Nat /\ MaxChats \in Nat
      BY WakeBounds DEF DeskGrows, DeskOK, DeskRow
    <3> QED
      BY <1>4, <3>1
  <2>2. LeaseOK(lease', turns', letters', desk') /\ lease'.pc = "turns"
    BY <1>2, <1>4, <2>1, TargetLeases
  <2> QED
    BY <2>2 DEF QueuedOK
<1>5. ASSUME lease.pc # "idle", lease'.letters = lease.letters,
             lease'.todo = lease.todo, lease'.wake = lease.wake,
             lease'.pc \in {"rotate", "create"}
      PROVE  LeaseOK(lease', turns', letters', desk') /\ QueuedOK'
  BY <1>2, <1>5, LeaseSteps DEF QueuedOK
<1>6. ASSUME DeferForceNew
      PROVE  LeaseOK(lease', turns', letters', desk') /\ QueuedOK'
  BY <1>3, <1>6 DEF DeferForceNew
<1>7. CASE Claim
  BY <1>7, ClaimLeases DEF QueuedOK
<1>8. CASE ClaimNone
  BY <1>2, <1>8 DEF ClaimNone, QueuedOK
<1>9. /\ desk.active \in 0..MaxChats
      /\ desk.active # 0 /\ UNCHANGED desk
           => desk'.opened = desk.opened /\ desk.active <= desk'.opened
  BY <1>1 DEF DeskRow
<1>10. CASE Resolve
  <2>1. CASE /\ \/ OwnChat(lease.wake)
                \/ desk.live /\ ~WantsForceNew
                \/ desk.active # 0 /\ ~desk.live /\ ~WantsNew
             /\ Target(desk.active) /\ UNCHANGED deliveryRows
    <3>1. desk.active # 0 /\ (WantsForceNew => desk.maker[desk.active] = lease.wake)
      BY <1>1, <2>1 DEF OwnChat, WantsNew
    <3> QED
      BY <1>4, <1>9, <1>10, <2>1, <3>1 DEF Resolve, deliveryRows
  <2>2. CASE lease' = [lease EXCEPT !.pc = "rotate", !.seen = desk.active]
    BY <1>1, <1>5, <1>10, <2>2 DEF Resolve, LeaseRow
  <2> QED
    BY <1>6, <1>10, <2>1, <2>2 DEF Resolve
<1>11. CASE Rotate
  <2>1. CASE ~WantsForceNew /\ desk.live /\ Target(desk.active)
             /\ UNCHANGED deliveryRows
    BY <1>1, <1>4, <1>9, <1>11, <2>1 DEF Rotate, deliveryRows
  <2>2. CASE lease' = [lease EXCEPT !.pc = "create"]
    BY <1>1, <1>5, <1>11, <2>2 DEF Rotate, LeaseRow
  <2> QED
    BY <1>6, <1>11, <2>1, <2>2 DEF Rotate
<1>12. CASE Create
  <2>1. CASE desk.active # 0 /\ ~WantsForceNew /\ Target(desk.active)
             /\ UNCHANGED deliveryRows
    BY <1>4, <1>9, <1>12, <2>1 DEF Create, deliveryRows
  <2>2. ASSUME desk.opened < MaxChats,
               desk' = [desk EXCEPT !.active = desk.opened + 1,
                          !.opened = @ + 1, !.maker[desk.opened + 1] = lease.wake],
               Target(desk.opened + 1), UNCHANGED letters
        PROVE  LeaseOK(lease', turns', letters', desk') /\ QueuedOK'
    <3>1. lease.wake \in 0..MaxWakes
      BY <1>1 DEF LeaseRow
    <3>2. /\ desk'.maker[desk.opened + 1] = lease.wake
          /\ desk'.opened = desk.opened + 1
      BY <2>2, <3>1, DeskOpens
    <3>3. desk.opened + 1 \in 0..MaxChats /\ desk.opened + 1 # 0
          /\ desk.opened + 1 <= desk.opened + 1
      BY <1>1, <2>2, WakeBounds DEF DeskRow
    <3> QED
      BY <1>4, <1>12, <2>2, <3>2, <3>3 DEF Create
  <2> QED
    BY <1>6, <1>12, <2>1, <2>2 DEF Create
<1>13. CASE EnqueueTurn
  <2>1. QueuedOK'
    BY <1>13, EnqueueQueues
  <2>2. /\ lease'.pc = "receipt" /\ lease'.todo = lease.todo
        /\ lease'.letters = lease.letters /\ lease'.wake = lease.wake
        /\ lease'.chat = lease.chat /\ lease.pc = "turns"
    BY <1>1, <1>13 DEF EnqueueTurn, LeaseRow
  <2> QED
    BY <1>2, <2>1, <2>2 DEF LeaseOK
<1>14. CASE RecordEnqueue
  BY <1>14, RecordLeases DEF QueuedOK, TurnsOK
<1>15. CASE RecordDelivered
  BY <1>3, <1>15 DEF RecordDelivered
<1>16. CASE CreateFails \/ EnqueueFails
  BY <1>3, <1>16 DEF CreateFails, EnqueueFails, FailDelivery
<1> QED
  BY <1>7, <1>8, <1>10, <1>11, <1>12, <1>13, <1>14, <1>15, <1>16 DEF Deliver

\* Only the delivery service takes up a claim, and only while nothing else of
\* the pulse is under way.
LEMMA LeaseElse ==
    ASSUME Alone, [WakesNext]_wvars
    PROVE  /\ Alone'
           /\ \/ DeliverStep
              \/ lease' = lease
              \/ lease' = NoLease
<1>1. ASSUME UNCHANGED <<lease, pulse>>
      PROVE  Alone' /\ lease' = lease
  BY <1>1 DEF Alone
<1>2. NoLease.pc = "idle" /\ IdlePulse.pc = "idle"
  BY DEF NoLease, IdlePulse
<1>3. CASE DeliverStep
  BY <1>3 DEF DeliverStep, Alone
<1>4. ASSUME lease.pc = "idle", UNCHANGED lease
      PROVE  Alone' /\ lease' = lease
  BY <1>4 DEF Alone
<1>5. CASE ReconcileRuns
  <2>1. UNCHANGED lease
    BY Zenon, <1>5 DEF ReconcileRuns, ReadEvidence, ProbeSupervisor,
       RereadEvidence, runRows
  <2>2. lease.pc = "idle"
    BY Zenon, <1>5 DEF ReconcileRuns, ReadEvidence, ProbeSupervisor,
       RereadEvidence, Alone
  <2> QED
    BY <1>4, <2>1, <2>2
<1>6. CASE Follow
  <2>1. UNCHANGED lease
    BY Zenon, <1>6 DEF Follow, ReadReceipts, JudgeReceipt, ReplayTurn,
       RecordReplay, receiptRows
  <2>2. lease.pc = "idle"
    BY Zenon, <1>6 DEF Follow, ReadReceipts, JudgeReceipt, ReplayTurn,
       RecordReplay, Alone
  <2> QED
    BY <1>4, <2>1, <2>2
<1>7. CASE Outage
  <2>1. CASE (RouteFails \/ ServerFaults) /\ UNCHANGED <<sups, pulse>>
    BY <1>2, <2>1 DEF RouteFails, ServerFaults, FailDelivery, Alone
  <2>2. ASSUME NEW j \in Jobs, EvidenceUnreadable(j) \/ LaunchFails(j)
        PROVE  Alone' /\ lease' = lease
    BY <1>1, <2>2 DEF EvidenceUnreadable, LaunchFails, runRows
  <2> QED
    BY <1>7, <2>1, <2>2 DEF Outage
<1>8. CASE PulseDies
  BY <1>2, <1>8 DEF PulseDies, Alone
<1>9. CASE Post \/ RecoverFailed \/ Read \/ ChatOpens \/ ChatCloses
  BY Zenon, <1>1, <1>9 DEF Post, RecoverFailed, RecoverEngineWake, Read,
     ReadLetter, ChatOpens, ChatCloses
<1>10. CASE Clock
  BY <1>1, <1>10 DEF Clock, Tick, LeaseLapses, BackoffEnds, QuietPasses,
     HoldEnds, RetryTimeComes, receiptRows
<1>11. CASE TurnMoves
  BY Zenon, <1>1, <1>11 DEF TurnMoves, TurnStarts, TurnRefusedBusy, TurnShows,
     TurnEnds, CodexObserves, receiptRows
<1>12. ASSUME NEW j \in Jobs,
              StartRun(j) \/ SupervisorStep(j) \/ SupervisorDies(j) \/ Kill(j)
       PROVE  Alone' /\ lease' = lease
  BY <1>1, <1>12 DEF StartRun, Register, SupervisorStep, Supervise,
     SupervisorStarts, CheckIn, Launch, CommandEnds, Submit, SupervisorDies,
     Kill, runRows
<1>13. CASE UNCHANGED wvars
  BY <1>1, <1>13 DEF wvars
<1> QED
  BY <1>3, <1>5, <1>6, <1>7, <1>8, <1>9, <1>10, <1>11, <1>12, <1>13
     DEF WakesNext

Core ==
    /\ MailInv /\ DeskOK(desk) /\ TurnsOK(turns, letters, desk)
    /\ LeaseOK(lease, turns, letters, desk) /\ QueuedOK /\ Alone
    /\ ToldOK(letters, turns) /\ supply \in WorkloadRow

\* A replay of a turn keeps the turns in order.
ReplaysWell ==
    ReplayTurn => TurnsOK(turns', letters', desk') /\ TurnsKept

LEMMA SupplyStep ==
    ASSUME supply \in WorkloadRow, [WakesNext]_wvars
    PROVE  supply' \in WorkloadRow
<1>1. CASE UNCHANGED supply
  BY <1>1
<1>2. \A k \in {"crashes", "deaths", "faults", "visits", "refusals"} :
        supply[k] > 0 => [supply EXCEPT ![k] = @ - 1] \in WorkloadRow
  BY DEF WorkloadRow
<1>3. ASSUME NEW k \in {"crashes", "deaths", "faults", "visits", "refusals"},
             supply[k] > 0, supply' = [supply EXCEPT ![k] = @ - 1]
      PROVE  supply' \in WorkloadRow
  BY <1>2, <1>3
<1>4. CASE Post
  <2>1. supply.mail \in Seq(Kinds) /\ supply.mail # <<>>
    BY <1>4 DEF Post, WorkloadRow
  <2>2. Tail(supply.mail) \in Seq(Kinds)
    BY <2>1
  <2>3. supply' = [supply EXCEPT !.mail = Tail(supply.mail)]
    BY <1>4 DEF Post
  <2> QED
    BY <2>2, <2>3 DEF WorkloadRow
<1>5. ASSUME NEW j \in Jobs, StartRun(j)
      PROVE  supply' \in WorkloadRow
  <2>1. supply.runs \in Seq(RunKinds) /\ supply.runs # <<>>
    BY <1>5 DEF StartRun, WorkloadRow
  <2>2. Tail(supply.runs) \in Seq(RunKinds)
    BY <2>1
  <2>3. supply' = [supply EXCEPT !.runs = Tail(supply.runs)]
    BY <1>5 DEF StartRun
  <2> QED
    BY <2>2, <2>3 DEF WorkloadRow
<1>6. CASE DeliverStep \/ RecoverFailed \/ ReconcileRuns \/ Clock \/ Read
           \/ (Follow /\ UNCHANGED supply)
  BY <1>1, <1>6 DEF DeliverStep, RecoverFailed, ReconcileRuns, Clock, Read
<1>7. CASE TurnMoves
  BY <1>1, <1>3, <1>7 DEF TurnMoves, TurnStarts, TurnRefusedBusy, TurnShows,
     TurnEnds
<1>8. CASE ChatOpens \/ ChatCloses \/ Outage \/ PulseDies
  BY <1>3, <1>8 DEF ChatOpens, ChatCloses, Outage, PulseDies
<1>9. ASSUME NEW j \in Jobs,
             \/ SupervisorStep(j)
             \/ /\ supply.deaths > 0
                /\ supply' = [supply EXCEPT !.deaths = @ - 1]
      PROVE  supply' \in WorkloadRow
  BY <1>1, <1>3, <1>9 DEF SupervisorStep
<1>10. CASE UNCHANGED wvars
  BY <1>1, <1>10 DEF wvars
<1> QED
  BY <1>4, <1>5, <1>6, <1>7, <1>8, <1>9, <1>10 DEF WakesNext

LEMMA CoreStep ==
    ASSUME Core, ReplaysWell, [WakesNext]_wvars
    PROVE  Core' /\ TurnsKept /\ LettersKeep /\ DeskGrows
<1>1. /\ MailInv /\ DeskOK(desk) /\ TurnsOK(turns, letters, desk)
      /\ LeaseOK(lease, turns, letters, desk) /\ QueuedOK /\ Alone
      /\ ToldOK(letters, turns) /\ supply \in WorkloadRow
      /\ turns \in Seq(TurnRow) /\ desk \in DeskRow
  BY DEF Core, TurnsOK, DeskOK
<1>2. MailInv' /\ LettersKeep /\ supply' \in WorkloadRow
  BY <1>1, MailStep, LettersStep, SupplyStep
<1>3. DeskGrows
  <2>1. \A t \in DOMAIN turns : turns[t].chat # 0
    <3>1. \A t \in 1..Len(turns) : turns[t].chat \in 1..desk.opened
      BY <1>1 DEF TurnsOK, TurnOK
    <3>2. desk.opened \in Nat
      BY <1>1 DEF DeskRow
    <3> QED
      BY <1>1, <3>1, <3>2
  <2> QED
    BY <1>1, <2>1, DeskStep
<1>4. TurnsSame \/ EnqueueTurn \/ ReplayTurn
  BY <1>1, TurnsStep
<1>5. TurnsOK(turns', letters', desk') /\ TurnsKept
  BY <1>1, <1>2, <1>3, <1>4, TurnsStay, SameKept, EnqueueQueues DEF ReplaysWell
<1>6. Alone' /\ (DeliverStep \/ lease' = lease \/ lease' = NoLease)
  BY <1>1, LeaseElse
<1>7. LeaseOK(lease', turns', letters', desk') /\ QueuedOK'
  <2>1. CASE DeliverStep
    BY <1>1, <1>2, <1>3, <1>5, <2>1, DeliveryLeases DEF DeliverStep
  <2>2. CASE lease' = NoLease
    BY <2>2 DEF LeaseOK, QueuedOK, NoLease
  <2>3. CASE lease' = lease
    <3>1. lease.pc # "idle" => /\ lease.letters \subseteq Letters
                               /\ \A m \in lease.letters : Sent(m)
      BY <1>1 DEF LeaseRow, MailInv, MailOK, HeldOK, Sent
    <3>2. LeaseOK(lease', turns', letters', desk')
      BY <1>1, <1>2, <1>3, <1>5, <2>3, <3>1, LeaseStays
    <3>3. TurnsSame \/ lease.pc # "receipt"
      BY <1>1, <1>4, <2>3 DEF EnqueueTurn, ReplayTurn, Alone
    <3>4. ASSUME TurnsSame, lease.pc = "receipt" PROVE QueuedOK'
      <4>1. TurnKey' = TurnKey /\ NextTurn' = NextTurn
        BY <2>3 DEF TurnKey, NextTurn
      <4>2. DOMAIN turns = 1..Len(turns) /\ DOMAIN turns' = 1..Len(turns)
        BY <1>1, <3>4 DEF TurnsSame
      <4>3. \A t \in 1..Len(turns) : /\ turns'[t].chat = turns[t].chat
                                     /\ turns'[t].key = turns[t].key
                                     /\ turns'[t].letters = turns[t].letters
        BY <3>4 DEF TurnsSame, SameTurn
      <4>4. Keyed(lease.chat, TurnKey)' = Keyed(lease.chat, TurnKey)
        BY <2>3, <4>1, <4>2, <4>3 DEF Keyed
      <4>5. \A t \in Keyed(lease.chat, TurnKey) : t \in 1..Len(turns)
        BY <4>2 DEF Keyed
      <4> QED
        BY <1>1, <2>3, <3>4, <4>1, <4>3, <4>4, <4>5 DEF QueuedOK
    <3> QED
      BY <2>3, <3>2, <3>3, <3>4 DEF QueuedOK
  <2> QED
    BY <1>6, <2>1, <2>2, <2>3
<1>8. ToldOK(letters', turns')
  <2> SUFFICES ASSUME NEW m \in Letters, letters'[m].kind # "none",
                      letters'[m].delivered
               PROVE  \E t \in 1..Len(turns') : m \in turns'[t].letters
    BY DEF ToldOK
  <2>1. \E t \in 1..Len(turns) : m \in turns[t].letters
    <3>1. CASE Sent(m) /\ letters[m].delivered
      BY <1>1, <3>1 DEF ToldOK, Sent
    <3>2. CASE lease.pc = "record" /\ m \in lease.letters
      BY <1>1, <3>2 DEF LeaseOK
    <3> QED
      BY <1>2, <3>1, <3>2 DEF LettersKeep
  <2> QED
    BY <1>5, <2>1 DEF TurnsKept, SameTurn
<1> QED
  BY <1>2, <1>3, <1>5, <1>6, <1>7, <1>8 DEF Core, DeskGrows

-----------------------------------------------------------------------------
(* Receipts, and what the pulse holds of them.                             *)

\* A receipt follows a turn that told its message; only a settled one is past
\* the ladder.
ReceiptOK(r, m, ls, ts) ==
    /\ r \in ReceiptRow
    /\ r.turn # 0 => /\ r.turn \in 1..Len(ts) /\ m \in ts[r.turn].letters
                     /\ ls[m].kind \in EngineKinds
    /\ r.settled = "no" => r.busy <= Ladder
    /\ r.retry # "none" => r.busy \in 1..Ladder

ReceiptsOK(rs, ls, ts) ==
    /\ rs \in [Letters -> ReceiptRow]
    /\ \A m \in Letters : ReceiptOK(rs[m], m, ls, ts)

PulseOK(p, ls, ts) ==
    /\ p \in PulseRow
    /\ p.pc \in {"probe", "reread"} => p.job \in Jobs
    /\ p.pc \in {"judge", "retry", "replayed"} =>
          /\ p.letter \in Letters
          /\ ReceiptOK(p.view.receipt, p.letter, ls, ts)
          /\ p.view.receipt.turn # 0 /\ p.view.receipt.settled = "no"
    /\ p.pc \in {"retry", "replayed"} => p.view.receipt.retry = "due"

\* Between the queued replay and its record the replay is there to be found.
ReplayedOK ==
    pulse.pc = "replayed" =>
        LET seen == pulse.view.receipt
            c    == turns[seen.turn].chat
        IN
        /\ Keyed(c, RetryKey) # {}
        /\ \A t \in Keyed(c, RetryKey) :
              turns[t].letters = turns[seen.turn].letters

LEMMA ReceiptStays ==
    ASSUME LettersKeep, TurnsKept, NEW r, NEW m \in Letters,
           ReceiptOK(r, m, letters, turns)
    PROVE  ReceiptOK(r, m, letters', turns')
<1>1. r.turn # 0 => letters'[m].kind = letters[m].kind
  BY DEF ReceiptOK, LettersKeep, Sent, EngineKinds
<1>2. r.turn # 0 => /\ r.turn \in 1..Len(turns')
                    /\ m \in turns'[r.turn].letters
  BY DEF ReceiptOK, TurnsKept, SameTurn
<1> QED
  BY <1>1, <1>2 DEF ReceiptOK

LEMMA ReceiptsStay ==
    ASSUME LettersKeep, TurnsKept, ReceiptsOK(receipts, letters, turns)
    PROVE  ReceiptsOK(receipts, letters', turns')
  BY ReceiptStays DEF ReceiptsOK

LEMMA ReceiptSettles ==
    ASSUME NEW r, NEW m, NEW ls, NEW ts, ReceiptOK(r, m, ls, ts)
    PROVE  /\ \A s \in {"consumed", "blocked"} :
                ReceiptOK([r EXCEPT !.settled = s, !.retry = "none"], m, ls, ts)
           /\ r.retry = "waiting" => ReceiptOK([r EXCEPT !.retry = "due"], m, ls, ts)
  BY DEF ReceiptOK, ReceiptRow

LEMMA ReceiptTurns ==
    ASSUME NEW r, NEW m, NEW ls, NEW ts, ReceiptOK(r, m, ls, ts),
           NEW t \in 1..Len(ts), t \in 0..MaxTurns, m \in ts[t].letters,
           ls[m].kind \in EngineKinds
    PROVE  /\ ReceiptOK([r EXCEPT !.turn = t], m, ls, ts)
           /\ ReceiptOK([r EXCEPT !.turn = t, !.retry = "none"], m, ls, ts)
           /\ ReceiptOK([r EXCEPT !.settled = "consumed", !.retry = "none",
                           !.turn = IF r.turn = 0 THEN t ELSE r.turn], m, ls, ts)
<1>1. r \in ReceiptRow
  BY DEF ReceiptOK
<1>2. ReceiptOK([r EXCEPT !.turn = t], m, ls, ts)
  BY <1>1 DEF ReceiptOK, ReceiptRow
<1>3. ReceiptOK([r EXCEPT !.turn = t, !.retry = "none"], m, ls, ts)
  BY <1>1 DEF ReceiptOK, ReceiptRow
<1>4. \A u \in {t, r.turn} : u # 0 =>
        ReceiptOK([r EXCEPT !.settled = "consumed", !.retry = "none",
                     !.turn = u], m, ls, ts)
  BY <1>1 DEF ReceiptOK, ReceiptRow
<1>5. t # 0
  OBVIOUS
<1> QED
  BY <1>2, <1>3, <1>4, <1>5

LEMMA ReceiptCounts ==
    ASSUME NEW r, NEW m, NEW ls, NEW ts, ReceiptOK(r, m, ls, ts),
           NEW seen, ReceiptOK(seen, m, ls, ts), seen.settled = "no"
    PROVE  ReceiptOK([r EXCEPT !.busy = seen.busy + 1, !.seen = seen.turn,
                !.retry = IF seen.busy + 1 > Ladder THEN "none" ELSE "waiting",
                !.settled = IF seen.busy + 1 > Ladder THEN "blocked"
                            ELSE "no"], m, ls, ts)
<1>1. /\ r \in ReceiptRow /\ seen \in ReceiptRow /\ Ladder \in Nat \ {0}
      /\ seen.busy <= Ladder
  BY WakeBounds DEF ReceiptOK
<1>2. seen.busy + 1 \in 0..(Ladder + 1) /\ seen.turn \in 0..MaxTurns
  BY <1>1 DEF ReceiptRow
<1>3. ASSUME seen.busy + 1 > Ladder
      PROVE  ReceiptOK([r EXCEPT !.busy = seen.busy + 1, !.seen = seen.turn,
                          !.retry = "none", !.settled = "blocked"], m, ls, ts)
  BY <1>1, <1>2 DEF ReceiptOK, ReceiptRow
<1>4. ASSUME seen.busy + 1 <= Ladder
      PROVE  ReceiptOK([r EXCEPT !.busy = seen.busy + 1, !.seen = seen.turn,
                          !.retry = "waiting", !.settled = "no"], m, ls, ts)
  <2> DEFINE q == [r EXCEPT !.busy = seen.busy + 1, !.seen = seen.turn,
                            !.retry = "waiting", !.settled = "no"]
  <2>1. /\ q \in ReceiptRow /\ q.turn = r.turn /\ q.busy = seen.busy + 1
        /\ q.settled = "no"
    BY <1>1, <1>2 DEF ReceiptRow
  <2>2. q.busy \in 1..Ladder
    <3>1. seen.busy \in Nat
      BY <1>1 DEF ReceiptRow
    <3> QED
      BY <1>1, <1>4, <2>1, <3>1
  <2> HIDE DEF q
  <2>3. ReceiptOK(q, m, ls, ts)
    BY <1>1, <2>1, <2>2 DEF ReceiptOK
  <2> QED
    BY <2>3 DEF q
<1>5. seen.busy + 1 > Ladder \/ seen.busy + 1 <= Ladder
  BY <1>1, <1>2
<1>6. CASE seen.busy + 1 > Ladder
  BY <1>3, <1>6
<1>7. CASE ~(seen.busy + 1 > Ladder)
  BY <1>4, <1>5, <1>7
<1> QED
  BY <1>6, <1>7

LEMMA ReplayQueues ==
    ASSUME Core, PulseOK(pulse, letters, turns), ReplayTurn
    PROVE  TurnsOK(turns', letters', desk') /\ TurnsKept /\ ReplayedOK'
<1> DEFINE seen == pulse.view.receipt
           m    == pulse.letter
           t    == seen.turn
           c    == turns[t].chat
           row  == [chat |-> c, key |-> RetryKey, letters |-> turns[t].letters,
                    state |-> "queued", shown |-> FALSE]
<1>1. /\ TurnsOK(turns, letters, desk) /\ turns \in Seq(TurnRow)
      /\ DeskOK(desk) /\ pulse.pc = "retry" /\ pulse \in PulseRow
  BY DEF Core, TurnsOK, ReplayTurn, PulseOK
<1>2. /\ m \in Letters /\ ReceiptOK(seen, m, letters, turns) /\ t # 0
      /\ seen.retry = "due"
  BY <1>1 DEF PulseOK
<1>3. /\ t \in 1..Len(turns) /\ m \in turns[t].letters
      /\ letters[m].kind \in EngineKinds /\ seen.busy \in 1..Ladder
  BY <1>2 DEF ReceiptOK
<1>4. TurnOK(turns[t], letters, desk)
  BY <1>1, <1>3 DEF TurnsOK
<1>5. UNCHANGED <<letters, desk>> /\ LettersKeep /\ DeskGrows
  BY <1>1, UntouchedKeep DEF ReplayTurn, receiptRows, DeskGrows, DeskOK, DeskRow
<1>6. RetryKey = <<0, m, seen.busy>>
  BY DEF RetryKey
<1>7. RetryKey \in TurnKeys /\ RetryKey[1] = 0
  BY <1>2, <1>3, <1>6 DEF TurnKeys
<1> HIDE DEF RetryKey, seen, m, t
<1>8. TurnOK(row, letters, desk)
  <2>1. row \in TurnRow
    BY <1>4, <1>7 DEF TurnOK, TurnRow
  <2>2. \A n \in turns[t].letters : letters[n].kind \in EngineKinds
    BY <1>3, <1>4 DEF TurnOK, Uniform
  <2> QED
    BY <1>4, <2>1, <2>2 DEF TurnOK, EngineKinds
<1>9. CASE TurnRefused(c, RetryKey, turns[t].letters)
  <2>1. UNCHANGED turns /\ pulse' = IdlePulse
    BY <1>9 DEF ReplayTurn, t, seen
  <2>2. TurnsSame
    BY <1>1, <2>1, TurnsUntouched
  <2> QED
    BY <1>1, <1>5, <2>1, <2>2, TurnsStay, SameKept DEF ReplayedOK, IdlePulse
<1>10. CASE ~TurnRefused(c, RetryKey, turns[t].letters)
  <2>1. /\ Len(turns) < MaxTurns \/ Keyed(c, RetryKey) # {}
        /\ QueueTurn(c, RetryKey, turns[t].letters)
        /\ pulse' = [pulse EXCEPT !.pc = "replayed"]
    BY <1>10 DEF ReplayTurn, t, seen
  <2>2. TurnOK(row, letters', desk')
    BY <1>5, <1>8
  <2>3. /\ TurnsOK(turns', letters', desk') /\ TurnsKept
        /\ KeyedIn(turns', c, RetryKey) # {}
        /\ \A u \in KeyedIn(turns', c, RetryKey) :
              turns'[u].letters = turns[t].letters
    BY <1>1, <1>5, <1>10, <2>1, <2>2, Queues
  <2>4. /\ pulse'.view = pulse.view /\ pulse'.letter = pulse.letter
    BY <1>1, <2>1 DEF PulseRow
  <2>5. RetryKey' = RetryKey /\ pulse'.view.receipt.turn = t
    BY <2>4 DEF RetryKey, t, seen
  <2>6. turns'[t].chat = c /\ turns'[t].letters = turns[t].letters
    BY <1>3, <2>3 DEF TurnsKept, SameTurn
  <2>7. ReplayedOK'
    BY <2>3, <2>5, <2>6 DEF ReplayedOK, Keyed, KeyedIn
  <2> QED
    BY <2>3, <2>7
<1> QED
  BY <1>9, <1>10

\* Everything else leaves a queued replay to be found.
LEMMA ReplayedStays ==
    ASSUME ReplayedOK, TurnsSame, UNCHANGED pulse, turns \in Seq(TurnRow),
           PulseOK(pulse, letters, turns)
    PROVE  ReplayedOK'
<1> SUFFICES ASSUME pulse.pc = "replayed" PROVE ReplayedOK'
  BY DEF ReplayedOK
<1> DEFINE t == pulse.view.receipt.turn
           c == turns[t].chat
<1>1. t \in 1..Len(turns)
  BY DEF PulseOK, ReceiptOK
<1>2. DOMAIN turns = 1..Len(turns) /\ DOMAIN turns' = 1..Len(turns)
  BY DEF TurnsSame
<1>3. \A u \in 1..Len(turns) : /\ turns'[u].chat = turns[u].chat
                               /\ turns'[u].key = turns[u].key
                               /\ turns'[u].letters = turns[u].letters
  BY DEF TurnsSame, SameTurn
<1>4. RetryKey' = RetryKey /\ t' = t
  BY DEF RetryKey
<1> HIDE DEF t
<1>5. KeyedIn(turns', c, RetryKey) = Keyed(c, RetryKey)
  BY <1>2, <1>3 DEF Keyed, KeyedIn
<1>6. /\ KeyedIn(turns', c, RetryKey) # {}
      /\ \A u \in KeyedIn(turns', c, RetryKey) :
            turns'[u].letters = turns'[t].letters
  BY <1>1, <1>2, <1>3, <1>5 DEF ReplayedOK, Keyed, t
<1>7. turns'[t].chat = c
  BY <1>1, <1>3
<1> QED
  BY <1>4, <1>6, <1>7 DEF ReplayedOK, Keyed, KeyedIn, t

\* The receipt that the pulse holds goes on following a turn.
TrackedOK ==
    pulse.pc \in {"judge", "retry", "replayed"} => receipts[pulse.letter].turn # 0

Followed ==
    /\ ReceiptsOK(receipts, letters, turns) /\ PulseOK(pulse, letters, turns)
    /\ ReplayedOK /\ TrackedOK

LEMMA BlockKeeps ==
    ASSUME NEW ls, NEW ts, ReceiptsOK(receipts, ls, ts), NEW ms, Block(ms)
    PROVE  ReceiptsOK(receipts', ls, ts)
<1>1. receipts' = [m \in Letters |-> IF m \in ms
                     THEN [receipts[m] EXCEPT !.settled = "blocked",
                                              !.retry = "none"]
                     ELSE receipts[m]]
  BY DEF Block
<1>2. \A m \in Letters : ReceiptOK(receipts'[m], m, ls, ts)
  BY Zenon, <1>1, ReceiptSettles DEF ReceiptsOK
<1> QED
  BY Zenon, <1>1, <1>2 DEF ReceiptsOK, ReceiptOK

LEMMA OneReceiptMoves ==
    ASSUME NEW ls, NEW ts, ReceiptsOK(receipts, ls, ts), NEW m \in Letters,
           NEW r, ReceiptOK(r, m, ls, ts), receipts' = [receipts EXCEPT ![m] = r]
    PROVE  ReceiptsOK(receipts', ls, ts)
  BY DEF ReceiptsOK, ReceiptOK

LEMMA JudgeKeeps ==
    ASSUME NEW ls, NEW ts, ReceiptsOK(receipts, ls, ts), JudgeReceipt,
           pulse.letter \in Letters,
           ReceiptOK(pulse.view.receipt, pulse.letter, ls, ts),
           pulse.view.receipt.settled = "no"
    PROVE  ReceiptsOK(receipts', ls, ts)
<1> DEFINE m    == pulse.letter
           seen == pulse.view.receipt
           done == [receipts[m] EXCEPT !.settled = "consumed", !.retry = "none"]
           counted == [receipts[m] EXCEPT
                !.busy = seen.busy + 1, !.seen = seen.turn,
                !.retry = IF seen.busy + 1 > Ladder THEN "none" ELSE "waiting",
                !.settled = IF seen.busy + 1 > Ladder THEN "blocked"
                            ELSE "no"]
<1>1. \/ UNCHANGED receipts
      \/ Block({m})
      \/ receipts' = [receipts EXCEPT ![m] = done]
      \/ receipts' = [receipts EXCEPT ![m] = counted]
  BY DEF JudgeReceipt, CountRefusal
<1>2. ReceiptOK(receipts[m], m, ls, ts)
  BY DEF ReceiptsOK
<1>3. ReceiptOK(done, m, ls, ts)
  BY Zenon, <1>2, ReceiptSettles
<1>4. ReceiptOK(counted, m, ls, ts)
  BY <1>2, ReceiptCounts
<1> HIDE DEF done, counted
<1> QED
  BY <1>1, <1>3, <1>4, BlockKeeps, OneReceiptMoves

\* Receipts that take up a turn which told their messages.
LEMMA ReceiptsTurn ==
    ASSUME NEW ls, NEW ts, ReceiptsOK(receipts, ls, ts),
           NEW t \in 1..Len(ts), t \in 0..MaxTurns, NEW ms \in SUBSET Letters,
           \A m \in ms : m \in ts[t].letters /\ ls[m].kind \in EngineKinds,
           \/ receipts' = [m \in Letters |-> IF m \in ms
                THEN [receipts[m] EXCEPT !.turn = t] ELSE receipts[m]]
           \/ receipts' = [m \in Letters |-> IF m \in ms
                THEN [receipts[m] EXCEPT !.turn = t, !.retry = "none"]
                ELSE receipts[m]]
           \/ receipts' = [m \in Letters |-> IF m \in ms
                THEN [receipts[m] EXCEPT !.settled = "consumed", !.retry = "none",
                        !.turn = IF receipts[m].turn = 0 THEN t
                                 ELSE receipts[m].turn]
                ELSE receipts[m]]
    PROVE  ReceiptsOK(receipts', ls, ts)
<1>1. ASSUME NEW m \in Letters
      PROVE  ReceiptOK(receipts'[m], m, ls, ts)
  <2>1. ReceiptOK(receipts[m], m, ls, ts)
    BY DEF ReceiptsOK
  <2>2. CASE m \in ms
    <3>1. /\ ReceiptOK([receipts[m] EXCEPT !.turn = t], m, ls, ts)
          /\ ReceiptOK([receipts[m] EXCEPT !.turn = t, !.retry = "none"], m, ls, ts)
          /\ ReceiptOK([receipts[m] EXCEPT !.settled = "consumed",
                 !.retry = "none", !.turn = IF receipts[m].turn = 0 THEN t
                                            ELSE receipts[m].turn], m, ls, ts)
      BY Zenon, <2>1, <2>2, ReceiptTurns
    <3> QED
      BY Zenon, <2>2, <3>1
  <2>3. CASE m \notin ms
    BY <2>1, <2>3
  <2> QED
    BY Zenon, <2>2, <2>3
<1>2. DOMAIN receipts' = Letters /\ receipts' = [m \in Letters |-> receipts'[m]]
  BY Zenon
<1> QED
  BY Zenon, <1>1, <1>2 DEF ReceiptsOK, ReceiptOK

LEMMA ReceiptsStep ==
    ASSUME Core, Followed, LettersKeep, TurnsKept, [WakesNext]_wvars
    PROVE  ReceiptsOK(receipts', letters', turns')
<1>1. /\ ReceiptsOK(receipts, letters, turns)
      /\ ReceiptsOK(receipts, letters', turns')
      /\ PulseOK(pulse, letters, turns) /\ ReplayedOK
  BY ReceiptsStay DEF Followed
<1>2. /\ turns \in Seq(TurnRow) /\ Len(turns) <= MaxTurns /\ Len(turns) \in Nat
      /\ \A t \in 1..Len(turns) : t \in 0..MaxTurns
      /\ DOMAIN turns = 1..Len(turns)
  BY WakeBounds DEF Core, TurnsOK
<1>3. CASE UNCHANGED receipts
  BY <1>1, <1>3
<1>4. CASE RecordEnqueue
  <2> DEFINE t  == CHOOSE u \in Keyed(lease.chat, TurnKey) : TRUE
             ms == {m \in NextTurn : Engine(m)} \cap Letters
  <2>1. UNCHANGED <<turns, letters>>
        /\ receipts' = [m \in Letters |-> IF m \in ms
             THEN [receipts[m] EXCEPT !.turn = t] ELSE receipts[m]]
    BY <1>4 DEF RecordEnqueue
  <2>2. t \in Keyed(lease.chat, TurnKey) /\ turns[t].letters = NextTurn
    BY <1>4 DEF RecordEnqueue, Core, QueuedOK
  <2>3. t \in 1..Len(turns)
    BY <1>2, <2>2 DEF Keyed
  <2>4. \A m \in ms : m \in turns[t].letters /\ letters[m].kind \in EngineKinds
    BY <2>2 DEF Engine
  <2> HIDE DEF t, ms
  <2>5. ms \in SUBSET Letters
    BY DEF ms
  <2> QED
    BY Zenon, <1>1, <1>2, <2>1, <2>3, <2>4, <2>5, ReceiptsTurn
<1>5. CASE JudgeReceipt
  <2>1. UNCHANGED <<turns, letters>>
    BY <1>5 DEF JudgeReceipt, receiptRows
  <2>2. /\ pulse.letter \in Letters /\ pulse.view.receipt.settled = "no"
        /\ ReceiptOK(pulse.view.receipt, pulse.letter, letters, turns)
    BY <1>1, <1>5 DEF JudgeReceipt, PulseOK
  <2> QED
    BY <1>1, <1>5, <2>1, <2>2, JudgeKeeps
<1>6. ASSUME NEW m \in Letters, RetryTimeComes(m)
      PROVE  ReceiptsOK(receipts', letters', turns')
  <2>1. ReceiptOK(receipts[m], m, letters', turns')
    BY <1>1 DEF ReceiptsOK
  <2>2. ReceiptOK([receipts[m] EXCEPT !.retry = "due"], m, letters', turns')
    BY Zenon, <1>6, <2>1, ReceiptSettles DEF RetryTimeComes
  <2>3. receipts' = [receipts EXCEPT ![m] = [receipts[m] EXCEPT !.retry = "due"]]
    BY <1>6 DEF RetryTimeComes
  <2> QED
    BY <1>1, <2>2, <2>3, OneReceiptMoves
<1>7. CASE ReplayTurn
  BY <1>1, <1>3, <1>7, BlockKeeps DEF ReplayTurn
<1>8. CASE RecordReplay
  <2> DEFINE t  == pulse.view.receipt.turn
             u  == CHOOSE v \in Keyed(turns[t].chat, RetryKey) : TRUE
             ms == Sharing(t)
  <2>1. UNCHANGED <<turns, letters>>
        /\ receipts' = [m \in Letters |-> IF m \in ms
             THEN [receipts[m] EXCEPT !.turn = u, !.retry = "none"]
             ELSE receipts[m]]
    BY Zenon, <1>8 DEF RecordReplay, receiptRows
  <2>2. /\ u \in Keyed(turns[t].chat, RetryKey)
        /\ turns[u].letters = turns[t].letters /\ t # 0
    BY Zenon, <1>1, <1>8 DEF RecordReplay, ReplayedOK, PulseOK
  <2>3. u \in 1..Len(turns)
    BY Zenon, <1>2, <2>2 DEF Keyed
  <2>4. \A m \in ms : m \in turns[t].letters /\ letters[m].kind \in EngineKinds
    BY Zenon, <1>1, <2>2 DEF Sharing, ReceiptsOK, ReceiptOK
  <2>5. ms \in SUBSET Letters
    BY DEF Sharing
  <2> HIDE DEF t, u, ms
  <2> QED
    BY Zenon, <1>1, <1>2, <2>1, <2>2, <2>3, <2>4, <2>5, ReceiptsTurn
<1>9. ASSUME NEW t \in DOMAIN turns, CodexObserves(t)
      PROVE  ReceiptsOK(receipts', letters', turns')
  <2> DEFINE ms == {m \in turns[t].letters : Engine(m)}
  <2>1. UNCHANGED <<turns, letters>>
        /\ receipts' = [m \in Letters |-> IF m \in ms
             THEN [receipts[m] EXCEPT !.settled = "consumed", !.retry = "none",
                     !.turn = IF receipts[m].turn = 0 THEN t
                              ELSE receipts[m].turn]
             ELSE receipts[m]]
    BY Zenon, <1>9 DEF CodexObserves, receiptRows
  <2>2. t \in 1..Len(turns) /\ turns[t] \in TurnRow
    BY <1>2
  <2>3. ms \in SUBSET Letters
    BY <2>2 DEF TurnRow
  <2>4. \A m \in ms : m \in turns[t].letters /\ letters[m].kind \in EngineKinds
    BY DEF Engine
  <2> HIDE DEF ms
  <2> QED
    BY Zenon, <1>1, <1>2, <2>1, <2>2, <2>3, <2>4, ReceiptsTurn
<1>10. CASE DeliverStep
  <2>1. RecordEnqueue \/ UNCHANGED receipts
    BY Zenon, <1>10 DEF DeliverStep, Deliver, Claim, ClaimNone, Resolve, Rotate,
       Create, DeferForceNew, deliveryRows, EnqueueTurn, RecordDelivered,
       CreateFails, EnqueueFails, FailDelivery
  <2> QED
    BY <1>3, <1>4, <2>1
<1>11. CASE Follow
  BY Zenon, <1>3, <1>5, <1>7, <1>8, <1>11 DEF Follow, ReadReceipts
<1>12. CASE Clock
  BY <1>3, <1>6, <1>12 DEF Clock, Tick, LeaseLapses, BackoffEnds, QuietPasses,
     HoldEnds
<1>13. CASE TurnMoves
  BY <1>3, <1>9, <1>13 DEF TurnMoves, TurnStarts, TurnRefusedBusy, TurnShows,
     TurnEnds
<1>14. CASE Post \/ RecoverFailed \/ ReconcileRuns \/ Read \/ ChatOpens
            \/ ChatCloses \/ PulseDies
  BY Zenon, <1>3, <1>14 DEF Post, RecoverFailed, RecoverEngineWake,
     ReconcileRuns, ReadEvidence, ProbeSupervisor, RereadEvidence, runRows,
     Read, ReadLetter, ChatOpens, ChatCloses, PulseDies
<1>15. CASE Outage
  BY <1>3, <1>15 DEF Outage, RouteFails, ServerFaults, FailDelivery,
     EvidenceUnreadable, LaunchFails, runRows
<1>16. ASSUME NEW j \in Jobs,
              StartRun(j) \/ SupervisorStep(j) \/ SupervisorDies(j) \/ Kill(j)
       PROVE  ReceiptsOK(receipts', letters', turns')
  BY <1>3, <1>16 DEF StartRun, Register, SupervisorStep, Supervise,
     SupervisorStarts, CheckIn, Launch, CommandEnds, Submit, SupervisorDies,
     Kill, runRows
<1>17. CASE UNCHANGED wvars
  BY <1>3, <1>17 DEF wvars
<1> QED
  BY <1>10, <1>11, <1>12, <1>13, <1>14, <1>15, <1>16, <1>17 DEF WakesNext

\* A supervisor that submits has a result to submit.
SupsOK(ss) ==
    /\ ss \in [Jobs -> SupRow]
    /\ \A j \in Jobs : ss[j].pc = "submitting" => ss[j].result \in Outcomes

LEMMA SupMoves ==
    ASSUME NEW r \in SupRow
    PROVE  /\ \A pc \in {"starting", "ready", "running", "gone"} :
                /\ [r EXCEPT !.pc = pc] \in SupRow
                /\ [r EXCEPT !.pc = pc].pc = pc
           /\ [r EXCEPT !.pc = "up", !.known = TRUE] \in SupRow
           /\ [r EXCEPT !.pc = "up", !.known = TRUE].pc = "up"
           /\ [r EXCEPT !.killing = TRUE] \in SupRow
           /\ [r EXCEPT !.killing = TRUE].pc = r.pc
           /\ \A how \in Outcomes :
                /\ [r EXCEPT !.pc = "submitting", !.result = how] \in SupRow
                /\ [r EXCEPT !.pc = "submitting", !.result = how].result = how
  BY DEF SupRow, Outcomes

LEMMA OneSupMoves ==
    ASSUME SupsOK(sups), NEW j \in Jobs, NEW r \in SupRow,
           r.pc = "submitting" => r.result \in Outcomes,
           sups' = [sups EXCEPT ![j] = r]
    PROVE  SupsOK(sups')
  BY DEF SupsOK

LEMMA SupsStep ==
    ASSUME SupsOK(sups), [WakesNext]_wvars
    PROVE  SupsOK(sups')
<1>1. CASE UNCHANGED sups
  BY <1>1
<1>2. ASSUME NEW j \in Jobs, \/ StartRun(j) \/ SupervisorStep(j)
                             \/ SupervisorDies(j) \/ Kill(j) \/ LaunchFails(j)
      PROVE  SupsOK(sups')
  <2>1. sups[j] \in SupRow
    BY DEF SupsOK
  <2>2. ASSUME NEW pc \in {"starting", "ready", "running", "gone"},
               sups' = [sups EXCEPT ![j] = [sups[j] EXCEPT !.pc = pc]]
        PROVE  SupsOK(sups')
    <3>1. /\ [sups[j] EXCEPT !.pc = pc] \in SupRow
          /\ [sups[j] EXCEPT !.pc = pc].pc # "submitting"
      BY Zenon, <2>1, SupMoves
    <3> QED
      BY <2>2, <3>1, OneSupMoves
  <2>3. CASE StartRun(j) \/ CheckIn(j) \/ Launch(j) \/ Submit(j)
             \/ SupervisorDies(j)
    <3>1. \E pc \in {"starting", "ready", "running", "gone"} :
             sups' = [sups EXCEPT ![j] = [sups[j] EXCEPT !.pc = pc]]
      BY <2>3 DEF StartRun, Register, CheckIn, Launch, Submit, SupervisorDies
    <3> QED
      BY <2>2, <3>1
  <2>4. CASE SupervisorStarts(j)
    <3> DEFINE r == [sups[j] EXCEPT !.pc = "up", !.known = TRUE]
    <3>1. sups' = [sups EXCEPT ![j] = r]
      BY <2>4 DEF SupervisorStarts
    <3>2. r \in SupRow /\ r.pc # "submitting"
      BY Zenon, <2>1, SupMoves
    <3> HIDE DEF r
    <3> QED
      BY <3>1, <3>2, OneSupMoves
  <2>5. CASE Kill(j)
    <3> DEFINE r == [sups[j] EXCEPT !.killing = TRUE]
    <3>1. sups' = [sups EXCEPT ![j] = r] /\ sups[j].pc = "running"
      BY <2>5 DEF Kill
    <3>2. r \in SupRow /\ r.pc # "submitting"
      BY Zenon, <2>1, <3>1, SupMoves
    <3> HIDE DEF r
    <3> QED
      BY <3>1, <3>2, OneSupMoves
  <2>6. CASE LaunchFails(j) \/ CommandEnds(j)
    <3>1. PICK how \in Outcomes : sups' = [sups EXCEPT ![j] =
             [sups[j] EXCEPT !.pc = "submitting", !.result = how]]
      BY <2>6 DEF LaunchFails, CommandEnds, Outcomes
    <3> DEFINE r == [sups[j] EXCEPT !.pc = "submitting", !.result = how]
    <3>2. r \in SupRow /\ r.result \in Outcomes
      BY <2>1 DEF SupRow, Outcomes
    <3>3. sups' = [sups EXCEPT ![j] = r]
      BY <3>1
    <3> HIDE DEF r
    <3> QED
      BY <3>2, <3>3, OneSupMoves
  <2> QED
    BY <1>2, <2>3, <2>4, <2>5, <2>6 DEF SupervisorStep, Supervise
<1>3. CASE DeliverStep \/ RecoverFailed \/ Read
  BY <1>1, <1>3 DEF DeliverStep, RecoverFailed, Read
<1>4. CASE ReconcileRuns \/ Follow \/ Clock
  BY Zenon, <1>1, <1>4 DEF ReconcileRuns, ReadEvidence, ProbeSupervisor,
     RereadEvidence, Follow, ReadReceipts, JudgeReceipt, ReplayTurn,
     RecordReplay, receiptRows, Clock, RetryTimeComes
<1>5. CASE TurnMoves
  BY <1>1, <1>5 DEF TurnMoves, TurnStarts, TurnRefusedBusy, TurnShows, TurnEnds,
     CodexObserves, receiptRows
<1>6. CASE Post \/ ChatOpens \/ ChatCloses \/ PulseDies
  BY <1>1, <1>6 DEF Post, ChatOpens, ChatCloses, PulseDies
<1>7. CASE Outage
  BY <1>1, <1>2, <1>7 DEF Outage, EvidenceUnreadable
<1>8. CASE UNCHANGED wvars
  BY <1>1, <1>8 DEF wvars
<1> QED
  BY <1>2, <1>3, <1>4, <1>5, <1>6, <1>7, <1>8 DEF WakesNext

LEMMA IdleOK ==
    ASSUME NEW ls, NEW ts
    PROVE  PulseOK(IdlePulse, ls, ts) /\ IdlePulse \in PulseRow
<1>1. IdlePulse \in PulseRow
  BY WakeBounds DEF IdlePulse, PulseRow, NoView, ViewRow, NoReceipt, ReceiptRow
<1> QED
  BY <1>1 DEF PulseOK, IdlePulse

LEMMA PulseStays ==
    ASSUME LettersKeep, TurnsKept, NEW p, PulseOK(p, letters, turns)
    PROVE  PulseOK(p, letters', turns')
  BY ReceiptStays DEF PulseOK

LEMMA PulseGoesOn ==
    ASSUME NEW ls, NEW ts, NEW p, PulseOK(p, ls, ts),
           NEW pc \in {"retry", "replayed"}, p.pc \in {"judge", "retry"},
           p.view.receipt.retry = "due"
    PROVE  PulseOK([p EXCEPT !.pc = pc], ls, ts)
<1>1. p \in PulseRow
  BY DEF PulseOK
<1>2. /\ [p EXCEPT !.pc = pc] \in PulseRow /\ [p EXCEPT !.pc = pc].pc = pc
      /\ [p EXCEPT !.pc = pc].letter = p.letter
      /\ [p EXCEPT !.pc = pc].view = p.view
  BY <1>1 DEF PulseRow
<1> HIDE DEF PulseRow
<1> QED
  BY <1>2 DEF PulseOK

LEMMA PulseReads ==
    ASSUME ReceiptsOK(receipts, letters, turns), SupsOK(sups),
           NEW m \in Letters, ReadReceipts(m)
    PROVE  PulseOK(pulse', letters, turns)
<1> DEFINE t == TheTurn(m)
           view == [receipt |-> receipts[m],
                    ended |-> t.state \in {"done", "cancelled"},
                    busy |-> t.state = "busy",
                    closed |-> ChatClosed(t.chat)]
<1>1. pulse' = [IdlePulse EXCEPT !.pc = "judge", !.letter = m, !.view = view]
  BY DEF ReadReceipts
<1>2. ReceiptOK(receipts[m], m, letters, turns)
      /\ receipts[m].turn # 0 /\ receipts[m].settled = "no"
  BY DEF ReceiptsOK, ReadReceipts, Following
<1>3. view.receipt = receipts[m]
  OBVIOUS
<1>4. view \in ViewRow
  <2>1. /\ (t.state \in {"done", "cancelled"}) \in BOOLEAN
        /\ (t.state = "busy") \in BOOLEAN /\ ChatClosed(t.chat) \in BOOLEAN
    BY DEF ChatClosed
  <2>2. \A a, b, c \in BOOLEAN :
          [receipt |-> receipts[m], ended |-> a, busy |-> b, closed |-> c]
             \in ViewRow
    BY <1>2 DEF ViewRow, ReceiptOK
  <2> QED
    BY <2>1, <2>2, Zenon
<1>5. IdlePulse \in PulseRow /\ m \in 0..MaxLetters
  BY IdleOK, WakeBounds DEF Letters
<1> HIDE DEF view
<1>6. /\ pulse' \in PulseRow /\ pulse'.pc = "judge" /\ pulse'.letter = m
      /\ pulse'.view = view
  BY <1>1, <1>4, <1>5 DEF PulseRow
<1> QED
  BY <1>2, <1>3, <1>6 DEF PulseOK

LEMMA EvidencePulse ==
    ASSUME SupsOK(sups), NEW j \in Jobs,
           pulse' = [IdlePulse EXCEPT !.pc = "probe", !.job = j,
                                      !.known = sups[j].known]
    PROVE  PulseOK(pulse', letters, turns)
<1>1. sups[j].known \in BOOLEAN /\ j \in 0..MaxJobs
  BY WakeBounds DEF SupsOK, SupRow, Jobs
<1>2. IdlePulse \in PulseRow
  BY IdleOK
<1>3. pulse' \in PulseRow /\ pulse'.pc = "probe" /\ pulse'.job = j
  BY <1>1, <1>2 DEF PulseRow
<1> QED
  BY <1>3 DEF PulseOK

LEMMA PulseStep ==
    ASSUME Core, Followed, SupsOK(sups), LettersKeep, TurnsKept,
           [WakesNext]_wvars
    PROVE  PulseOK(pulse', letters', turns')
<1>1. ReceiptsOK(receipts, letters, turns) /\ PulseOK(pulse, letters, turns)
      /\ PulseOK(pulse, letters', turns')
  BY PulseStays DEF Followed
<1>2. CASE UNCHANGED pulse
  BY <1>1, <1>2
<1>3. CASE pulse' = IdlePulse
  BY <1>3, IdleOK
<1>4. ASSUME PulseOK(pulse', letters, turns)
      PROVE  PulseOK(pulse', letters', turns')
  BY <1>4, PulseStays
<1>5. CASE ReconcileRuns
  <2>1. ASSUME NEW j \in Jobs, ReadEvidence(j)
        PROVE  PulseOK(pulse', letters', turns')
    BY <1>2, <1>4, <2>1, EvidencePulse DEF ReadEvidence
  <2>2. CASE ProbeSupervisor
    <3>1. pulse \in PulseRow /\ pulse.job \in Jobs
      BY <1>1, <2>2 DEF PulseOK, ProbeSupervisor
    <3>2. ASSUME pulse' = [pulse EXCEPT !.pc = "reread"]
          PROVE  PulseOK(pulse', letters', turns')
      <4>1. pulse' \in PulseRow /\ pulse'.pc = "reread" /\ pulse'.job = pulse.job
        BY <3>1, <3>2 DEF PulseRow
      <4> QED
        BY <3>1, <4>1 DEF PulseOK
    <3> QED
      BY <1>3, <2>2, <3>2 DEF ProbeSupervisor
  <2>3. CASE RereadEvidence
    BY <1>3, <2>3 DEF RereadEvidence
  <2> QED
    BY <1>5, <2>1, <2>2, <2>3 DEF ReconcileRuns
<1>6. CASE Follow
  <2>1. ASSUME NEW m \in Letters, ReadReceipts(m)
        PROVE  PulseOK(pulse', letters', turns')
    BY <1>1, <1>4, <2>1, PulseReads
  <2>2. CASE JudgeReceipt
    <3>1. ASSUME pulse.view.receipt.retry = "due",
                 pulse' = [pulse EXCEPT !.pc = "retry"]
          PROVE  PulseOK(pulse', letters', turns')
      BY <1>1, <2>2, <3>1, PulseGoesOn DEF JudgeReceipt
    <3> QED
      BY <1>3, <2>2, <3>1 DEF JudgeReceipt
  <2>3. CASE ReplayTurn
    <3>1. ASSUME pulse' = [pulse EXCEPT !.pc = "replayed"]
          PROVE  PulseOK(pulse', letters', turns')
      BY Zenon, <1>1, <2>3, <3>1, PulseGoesOn DEF ReplayTurn, PulseOK
    <3> QED
      BY <1>3, <2>3, <3>1 DEF ReplayTurn
  <2>4. CASE RecordReplay
    BY Zenon, <1>3, <2>4 DEF RecordReplay
  <2> QED
    BY <1>6, <2>1, <2>2, <2>3, <2>4 DEF Follow
<1>7. CASE PulseDies
  BY <1>3, <1>7 DEF PulseDies
<1>8. CASE DeliverStep \/ RecoverFailed \/ Read \/ Post \/ ChatOpens \/ ChatCloses
  BY <1>2, <1>8 DEF DeliverStep, RecoverFailed, Read, Post, ChatOpens, ChatCloses
<1>9. CASE Clock
  BY <1>2, <1>9 DEF Clock, RetryTimeComes
<1>10. CASE TurnMoves
  BY Zenon, <1>2, <1>10 DEF TurnMoves, TurnStarts, TurnRefusedBusy, TurnShows,
     TurnEnds, CodexObserves
<1>11. CASE Outage
  BY <1>2, <1>11 DEF Outage, EvidenceUnreadable, LaunchFails
<1>12. ASSUME NEW j \in Jobs,
              StartRun(j) \/ SupervisorStep(j) \/ SupervisorDies(j) \/ Kill(j)
       PROVE  PulseOK(pulse', letters', turns')
  BY <1>2, <1>12 DEF StartRun, Register, SupervisorStep, Supervise,
     SupervisorStarts, CheckIn, Launch, CommandEnds, Submit, SupervisorDies, Kill
<1>13. CASE UNCHANGED wvars
  BY <1>2, <1>13 DEF wvars
<1> QED
  BY <1>5, <1>6, <1>7, <1>8, <1>9, <1>10, <1>11, <1>12, <1>13 DEF WakesNext

LEMMA PulseElse ==
    ASSUME pulse \in PulseRow, [WakesNext]_wvars
    PROVE  UNCHANGED pulse \/ pulse'.pc # "replayed" \/ ReplayTurn
<1>0. /\ \A pc \in {"reread", "retry"} : [pulse EXCEPT !.pc = pc].pc = pc
      /\ IdlePulse.pc = "idle"
  BY DEF PulseRow, IdlePulse
<1>1. CASE ReconcileRuns
  <2>1. ASSUME NEW j \in Jobs, ReadEvidence(j), ~UNCHANGED pulse
        PROVE  pulse'.pc = "probe"
    BY <2>1 DEF ReadEvidence, IdlePulse
  <2>2. CASE ProbeSupervisor
    BY <1>0, <2>2 DEF ProbeSupervisor
  <2>3. CASE RereadEvidence
    BY <1>0, <2>3 DEF RereadEvidence
  <2> QED
    BY <1>1, <2>1, <2>2, <2>3 DEF ReconcileRuns
<1>2. CASE Follow
  <2>1. CASE JudgeReceipt
    BY <1>0, <2>1 DEF JudgeReceipt
  <2>2. ASSUME NEW m \in Letters, ReadReceipts(m) PROVE pulse'.pc = "judge"
    BY <2>2 DEF ReadReceipts, IdlePulse
  <2> QED
    BY Zenon, <1>0, <1>2, <2>1, <2>2 DEF Follow, RecordReplay
<1>3. CASE PulseDies
  BY <1>3 DEF PulseDies, IdlePulse
<1>4. CASE DeliverStep \/ RecoverFailed \/ Read \/ Post \/ ChatOpens \/ ChatCloses
  BY <1>4 DEF DeliverStep, RecoverFailed, Read, Post, ChatOpens, ChatCloses
<1>5. CASE Clock \/ TurnMoves \/ Outage
  BY Zenon, <1>5 DEF Clock, RetryTimeComes, TurnMoves, TurnStarts,
     TurnRefusedBusy, TurnShows, TurnEnds, CodexObserves, Outage,
     EvidenceUnreadable, LaunchFails
<1>6. ASSUME NEW j \in Jobs,
             StartRun(j) \/ SupervisorStep(j) \/ SupervisorDies(j) \/ Kill(j)
      PROVE  UNCHANGED pulse
  BY <1>6 DEF StartRun, Register, SupervisorStep, Supervise, SupervisorStarts,
     CheckIn, Launch, CommandEnds, Submit, SupervisorDies, Kill
<1> QED
  BY <1>1, <1>2, <1>3, <1>4, <1>5, <1>6 DEF WakesNext, wvars

\* A queued replay is recorded before anything else of the pulse.
LEMMA ReplayedStep ==
    ASSUME Core, Followed, [WakesNext]_wvars
    PROVE  ReplayedOK'
<1>1. PulseOK(pulse, letters, turns) /\ ReplayedOK /\ turns \in Seq(TurnRow)
      /\ Alone /\ pulse \in PulseRow
  BY DEF Followed, Core, TurnsOK, PulseOK
<1>2. CASE ReplayTurn
  BY <1>1, <1>2, ReplayQueues
<1>3. ASSUME pulse'.pc # "replayed" PROVE ReplayedOK'
  BY <1>3 DEF ReplayedOK
<1>4. ASSUME UNCHANGED pulse PROVE ReplayedOK'
  <2>1. CASE TurnsSame
    BY <1>1, <1>4, <2>1, ReplayedStays
  <2>2. CASE EnqueueTurn
    BY <1>1, <1>3, <1>4, <2>2 DEF EnqueueTurn, Alone
  <2> QED
    BY <1>1, <1>2, <2>1, <2>2, TurnsStep
<1> QED
  BY <1>1, <1>2, <1>3, <1>4, PulseElse

\* A refusal is counted only by the pulse, on the message it holds, and a
\* receipt that follows a turn goes on following one.
Counted(m) ==
    /\ pulse.pc = "judge" /\ pulse.view.busy /\ m = pulse.letter
    /\ pulse' = IdlePulse
    /\ receipts'[m].busy = pulse.view.receipt.busy + 1

CountsMove ==
    \A m \in Letters :
        /\ receipts'[m].busy = receipts[m].busy \/ Counted(m)
        /\ receipts[m].turn # 0 => receipts'[m].turn # 0

LEMMA SameCount ==
    ASSUME NEW r \in ReceiptRow
    PROVE  /\ \A s : [r EXCEPT !.settled = s, !.retry = "none"].busy = r.busy
           /\ \A s : [r EXCEPT !.settled = s, !.retry = "none"].turn = r.turn
           /\ \A s : /\ [r EXCEPT !.retry = s].busy = r.busy
                     /\ [r EXCEPT !.retry = s].turn = r.turn
           /\ \A t : /\ [r EXCEPT !.turn = t].busy = r.busy
                     /\ [r EXCEPT !.turn = t, !.retry = "none"].busy = r.busy
                     /\ [r EXCEPT !.turn = t].turn = t
                     /\ [r EXCEPT !.turn = t, !.retry = "none"].turn = t
                     /\ [r EXCEPT !.settled = "consumed", !.retry = "none",
                                  !.turn = t].busy = r.busy
                     /\ [r EXCEPT !.settled = "consumed", !.retry = "none",
                                  !.turn = t].turn = t
  BY DEF ReceiptRow

LEMMA CountsStep ==
    ASSUME Core, Followed, [WakesNext]_wvars
    PROVE  CountsMove
<1>0. /\ receipts \in [Letters -> ReceiptRow] /\ QueuedOK /\ ReplayedOK
      /\ DOMAIN turns = 1..Len(turns) /\ 0 \notin DOMAIN turns
  BY DEF Core, TurnsOK, Followed, ReceiptsOK
<1>1. CASE UNCHANGED receipts
  BY <1>1 DEF CountsMove
<1>2. \A m \in Letters : receipts[m] \in ReceiptRow
  BY <1>0
<1>3. CASE RecordEnqueue
  <2> DEFINE ms == {m \in NextTurn : Engine(m)}
             t  == CHOOSE u \in Keyed(lease.chat, TurnKey) : TRUE
  <2>1. receipts' = [m \in Letters |-> IF m \in ms
             THEN [receipts[m] EXCEPT !.turn = t] ELSE receipts[m]]
    BY <1>3 DEF RecordEnqueue
  <2>2. t # 0
    <3>1. t \in Keyed(lease.chat, TurnKey)
      BY <1>0, <1>3 DEF RecordEnqueue, QueuedOK
    <3> QED
      BY <1>0, <3>1 DEF Keyed
  <2> HIDE DEF ms, t
  <2> QED
    BY <1>2, <2>1, <2>2, SameCount DEF CountsMove
<1>4. ASSUME NEW ms, Block(ms) PROVE CountsMove
  BY Zenon, <1>2, <1>4, SameCount DEF Block, CountsMove
<1>5. CASE JudgeReceipt
  <2> DEFINE m    == pulse.letter
             seen == pulse.view.receipt
  <2>1. CASE Block({m})
    BY <1>4, <2>1
  <2>2. CASE receipts' = [receipts EXCEPT ![m] =
               [receipts[m] EXCEPT !.settled = "consumed", !.retry = "none"]]
    BY <1>0, <1>2, <2>2, SameCount DEF CountsMove
  <2>3. ASSUME CountRefusal(m, seen), pulse' = IdlePulse, pulse.view.busy
        PROVE  CountsMove
    <3>1. PICK q, s : receipts' = [receipts EXCEPT ![m] =
            [receipts[m] EXCEPT !.busy = seen.busy + 1, !.seen = seen.turn,
                                !.retry = q, !.settled = s]]
      BY <2>3 DEF CountRefusal
    <3>2. \A n \in Letters \ {m} : receipts'[n] = receipts[n]
      BY <1>0, <3>1
    <3>3. ASSUME m \in Letters
          PROVE  receipts'[m].busy = seen.busy + 1
                 /\ receipts'[m].turn = receipts[m].turn
      BY <1>0, <1>2, <3>1, <3>3 DEF ReceiptRow
    <3> QED
      BY <1>5, <2>3, <3>2, <3>3 DEF CountsMove, Counted, JudgeReceipt
  <2> QED
    BY <1>1, <1>5, <2>1, <2>2, <2>3 DEF JudgeReceipt
<1>6. CASE ReplayTurn
  BY <1>1, <1>4, <1>6 DEF ReplayTurn
<1>7. CASE RecordReplay
  <2> DEFINE ms == Sharing(pulse.view.receipt.turn)
             u  == CHOOSE v \in Keyed(turns[pulse.view.receipt.turn].chat,
                                      RetryKey) : TRUE
  <2>1. receipts' = [m \in Letters |-> IF m \in ms
             THEN [receipts[m] EXCEPT !.turn = u, !.retry = "none"]
             ELSE receipts[m]]
    BY Zenon, <1>7 DEF RecordReplay
  <2>2. u # 0
    <3>1. u \in Keyed(turns[pulse.view.receipt.turn].chat, RetryKey)
      BY Zenon, <1>0, <1>7 DEF RecordReplay, ReplayedOK
    <3> QED
      BY Zenon, <1>0, <3>1 DEF Keyed
  <2> HIDE DEF ms, u
  <2> QED
    BY <1>2, <2>1, <2>2, SameCount DEF CountsMove
<1>8. ASSUME NEW t \in DOMAIN turns, CodexObserves(t) PROVE CountsMove
  <2>1. receipts' = [m \in Letters |-> IF m \in {n \in turns[t].letters : Engine(n)}
             THEN [receipts[m] EXCEPT !.settled = "consumed", !.retry = "none",
                     !.turn = IF receipts[m].turn = 0 THEN t ELSE receipts[m].turn]
             ELSE receipts[m]]
    BY <1>8 DEF CodexObserves
  <2>2. ASSUME NEW m \in Letters
        PROVE  /\ receipts'[m].busy = receipts[m].busy
               /\ receipts[m].turn # 0 => receipts'[m].turn # 0
    <3> DEFINE u == IF receipts[m].turn = 0 THEN t ELSE receipts[m].turn
    <3>1. u # 0
      BY <1>0
    <3> HIDE DEF u
    <3>2. \/ receipts'[m] = receipts[m]
          \/ receipts'[m] = [receipts[m] EXCEPT !.settled = "consumed",
                                !.retry = "none", !.turn = u]
      BY <2>1 DEF u
    <3>3. receipts[m] \in ReceiptRow
      BY <1>2
    <3>4. /\ [receipts[m] EXCEPT !.settled = "consumed", !.retry = "none",
                                  !.turn = u].busy = receipts[m].busy
          /\ [receipts[m] EXCEPT !.settled = "consumed", !.retry = "none",
                                  !.turn = u].turn = u
      BY <3>3, SameCount
    <3> QED
      BY <3>1, <3>2, <3>4
  <2> QED
    BY <2>2 DEF CountsMove
<1>9. ASSUME NEW m \in Letters, RetryTimeComes(m) PROVE CountsMove
  <2>1. receipts' = [receipts EXCEPT ![m] = [receipts[m] EXCEPT !.retry = "due"]]
    BY <1>9 DEF RetryTimeComes
  <2> QED
    BY <1>0, <1>2, <2>1, SameCount DEF CountsMove
<1>10. CASE DeliverStep
  <2>1. RecordEnqueue \/ UNCHANGED receipts
    BY Zenon, <1>10 DEF DeliverStep, Deliver, Claim, ClaimNone, Resolve, Rotate,
       Create, DeferForceNew, deliveryRows, EnqueueTurn, RecordDelivered,
       CreateFails, EnqueueFails, FailDelivery
  <2> QED
    BY <1>1, <1>3, <2>1
<1>11. CASE Follow
  BY Zenon, <1>1, <1>5, <1>6, <1>7, <1>11 DEF Follow, ReadReceipts
<1>12. CASE Clock
  BY <1>1, <1>9, <1>12 DEF Clock, Tick, LeaseLapses, BackoffEnds, QuietPasses,
     HoldEnds
<1>13. CASE TurnMoves
  BY <1>1, <1>8, <1>13 DEF TurnMoves, TurnStarts, TurnRefusedBusy, TurnShows,
     TurnEnds
<1>14. CASE Post \/ RecoverFailed \/ ReconcileRuns \/ Read \/ ChatOpens
            \/ ChatCloses \/ PulseDies
  BY Zenon, <1>1, <1>14 DEF Post, RecoverFailed, RecoverEngineWake,
     ReconcileRuns, ReadEvidence, ProbeSupervisor, RereadEvidence, runRows,
     Read, ReadLetter, ChatOpens, ChatCloses, PulseDies
<1>15. CASE Outage
  BY <1>1, <1>15 DEF Outage, RouteFails, ServerFaults, FailDelivery,
     EvidenceUnreadable, LaunchFails, runRows
<1>16. ASSUME NEW j \in Jobs,
              StartRun(j) \/ SupervisorStep(j) \/ SupervisorDies(j) \/ Kill(j)
       PROVE  CountsMove
  BY <1>1, <1>16 DEF StartRun, Register, SupervisorStep, Supervise,
     SupervisorStarts, CheckIn, Launch, CommandEnds, Submit, SupervisorDies,
     Kill, runRows
<1>17. CASE UNCHANGED wvars
  BY <1>1, <1>17 DEF wvars
<1> QED
  BY <1>10, <1>11, <1>12, <1>13, <1>14, <1>15, <1>16, <1>17 DEF WakesNext

\* The pulse reads a receipt, and goes on with what it read.
GoesOn ==
    /\ pulse.pc \in {"judge", "retry"} /\ pulse'.letter = pulse.letter
    /\ pulse'.view = pulse.view /\ UNCHANGED receipts

LEMMA ViewsStep ==
    ASSUME pulse \in PulseRow, [WakesNext]_wvars
    PROVE  \/ UNCHANGED pulse
           \/ pulse'.pc \in {"idle", "probe", "reread"}
           \/ \E m \in Letters : ReadReceipts(m)
           \/ GoesOn
<1>0. /\ [pulse EXCEPT !.pc = "reread"].pc = "reread" /\ IdlePulse.pc = "idle"
      /\ \A pc : /\ [pulse EXCEPT !.pc = pc].letter = pulse.letter
                 /\ [pulse EXCEPT !.pc = pc].view = pulse.view
  BY DEF PulseRow, IdlePulse
<1>1. CASE ReconcileRuns
  <2>1. ASSUME NEW j \in Jobs, ReadEvidence(j), ~UNCHANGED pulse
        PROVE  pulse'.pc = "probe"
    BY <2>1 DEF ReadEvidence, IdlePulse
  <2>2. CASE ProbeSupervisor
    BY <1>0, <2>2 DEF ProbeSupervisor
  <2>3. CASE RereadEvidence
    BY <1>0, <2>3 DEF RereadEvidence
  <2> QED
    BY <1>1, <2>1, <2>2, <2>3 DEF ReconcileRuns
<1>2. CASE Follow
  <2>1. CASE JudgeReceipt
    <3>1. \/ pulse' = IdlePulse
          \/ /\ pulse' = [pulse EXCEPT !.pc = "retry"] /\ pulse.pc = "judge"
             /\ UNCHANGED receipts
      BY <2>1 DEF JudgeReceipt
    <3> QED
      BY <1>0, <3>1 DEF GoesOn
  <2>2. CASE ReplayTurn
    BY <1>0, <2>2 DEF ReplayTurn, GoesOn
  <2> QED
    BY Zenon, <1>0, <1>2, <2>1, <2>2 DEF Follow, RecordReplay
<1>3. CASE PulseDies
  BY <1>0, <1>3 DEF PulseDies
<1>4. CASE DeliverStep \/ RecoverFailed \/ Read \/ Post \/ ChatOpens \/ ChatCloses
  BY <1>4 DEF DeliverStep, RecoverFailed, Read, Post, ChatOpens, ChatCloses
<1>5. CASE Clock \/ TurnMoves \/ Outage
  BY Zenon, <1>5 DEF Clock, RetryTimeComes, TurnMoves, TurnStarts,
     TurnRefusedBusy, TurnShows, TurnEnds, CodexObserves, Outage,
     EvidenceUnreadable, LaunchFails
<1>6. ASSUME NEW j \in Jobs,
             StartRun(j) \/ SupervisorStep(j) \/ SupervisorDies(j) \/ Kill(j)
      PROVE  UNCHANGED pulse
  BY <1>6 DEF StartRun, Register, SupervisorStep, Supervise, SupervisorStarts,
     CheckIn, Launch, CommandEnds, Submit, SupervisorDies, Kill
<1> QED
  BY <1>1, <1>2, <1>3, <1>4, <1>5, <1>6 DEF WakesNext, wvars

LEMMA TrackedStep ==
    ASSUME Core, Followed, [WakesNext]_wvars
    PROVE  TrackedOK'
<1>1. PulseOK(pulse, letters, turns) /\ pulse \in PulseRow /\ TrackedOK /\ CountsMove
  BY CountsStep DEF Followed, PulseOK
<1>2. ASSUME UNCHANGED pulse PROVE TrackedOK'
  BY <1>1, <1>2 DEF TrackedOK, CountsMove, PulseOK
<1>3. CASE GoesOn
  BY <1>1, <1>3 DEF GoesOn, TrackedOK
<1>4. ASSUME NEW m \in Letters, ReadReceipts(m) PROVE TrackedOK'
  <2>1. pulse'.letter = m /\ UNCHANGED receipts /\ receipts[m].turn # 0
    BY <1>4 DEF ReadReceipts, IdlePulse, Following
  <2> QED
    BY <2>1 DEF TrackedOK
<1>5. CASE pulse'.pc \in {"idle", "probe", "reread"}
  BY <1>5 DEF TrackedOK
<1> QED
  BY <1>1, <1>2, <1>3, <1>4, <1>5, ViewsStep

-----------------------------------------------------------------------------
(* Background runs.                                                        *)

Shown(m, ts) == \E t \in 1..Len(ts) : m \in ts[t].letters /\ ts[t].shown

ConsumedOK(js, ts) ==
    \A j \in Jobs : js[j].wake = "consumed" => Shown(js[j].letter, ts)

Over(r) == r.state \in {"done", "failed", "killed", "lost"}

Tracked(m) == receipts'[m].turn # 0

\* What a step may make of a run: its outcome is consumed only once shown, and
\* it is lost only without a finish record; a blocked one is unblocked only
\* while a receipt follows it, and one that is over is told once.
JobMoves(old, new, j) ==
    /\ new \in JobRow
    /\ new.wake = "consumed" =>
         \/ old.wake = "consumed" /\ new.letter = old.letter
         \/ Shown(new.letter, turns)
    /\ new.state = "lost" /\ old.state # "lost" => sups[j].result = "none"
    /\ \/ /\ new.letter = old.letter /\ (Over(old) => Over(new))
          /\ old.wake = "blocked" => new.wake = "blocked" \/ Tracked(old.letter)
       \/ ~Over(old) /\ new.letter = 0
       \/ /\ ~Over(old) /\ Over(new)
          /\ new.letter \in Letters /\ ~Sent(new.letter)
          /\ letters'[new.letter].kind = "outcome"
          /\ wakes'[letters'[new.letter].wake].state = "pending"

JobsMove ==
    /\ jobs' \in [Jobs -> JobRow]
    /\ \A j \in Jobs : JobMoves(jobs[j], jobs'[j], j)

JobsOK(js) == js \in [Jobs -> JobRow]

LEMMA JobRowMoves ==
    ASSUME NEW r \in JobRow, NEW j
    PROVE  /\ JobMoves(r, r, j)
           /\ ~Over(r) => JobMoves(r, [r EXCEPT !.state = "running"], j)
           /\ JobMoves(r, [r EXCEPT !.wake = "blocked"], j)
           /\ \A h \in {"pending", "enqueued"} :
                Tracked(r.letter) => JobMoves(r, [r EXCEPT !.wake = h], j)
           /\ Shown(r.letter, turns) /\ Tracked(r.letter)
                => JobMoves(r, [r EXCEPT !.wake = "consumed"], j)
  BY DEF JobRow, JobMoves, Over

LEMMA OneJobMoves ==
    ASSUME JobsOK(jobs), NEW j \in Jobs, NEW r, JobMoves(jobs[j], r, j),
           jobs' = [jobs EXCEPT ![j] = r]
    PROVE  JobsMove
<1>1. \A k \in Jobs : jobs[k] \in JobRow /\ JobMoves(jobs[k], jobs[k], k)
  BY JobRowMoves DEF JobsOK
<1>2. \A k \in Jobs : JobMoves(jobs[k], jobs'[k], k)
  BY <1>1 DEF JobsOK
<1>3. r \in JobRow
  BY DEF JobMoves
<1> QED
  BY <1>2, <1>3 DEF JobsOK, JobsMove

LEMMA JobsUntouched ==
    ASSUME JobsOK(jobs), UNCHANGED jobs
    PROVE  JobsMove
  BY JobRowMoves DEF JobsOK, JobsMove

LEMMA JobsTold ==
    ASSUME JobsOK(jobs), NEW ms, NEW how \in {"enqueued", "blocked", "consumed"},
           how = "consumed" => \A m \in ms : Shown(m, turns),
           how # "blocked" => \A m \in ms : Tracked(m),
           jobs' = TellJobs(ms, how)
    PROVE  JobsMove
<1>1. ASSUME NEW j \in Jobs
      PROVE  JobMoves(jobs[j], jobs'[j], j)
  <2>1. jobs[j] \in JobRow
    BY DEF JobsOK
  <2>2. JobMoves(jobs[j], jobs[j], j)
    BY <2>1, JobRowMoves
  <2>3. jobs[j].letter \in ms => JobMoves(jobs[j], [jobs[j] EXCEPT !.wake = how], j)
    BY <2>1, JobRowMoves
  <2> QED
    BY <2>2, <2>3 DEF TellJobs
<1>2. jobs' = [j \in Jobs |-> jobs'[j]]
  BY DEF TellJobs
<1> QED
  BY <1>1, <1>2 DEF JobsMove, JobMoves

\* The message that tells an outcome is new, and joined to a pending wake.
LEMMA SendIsNew ==
    ASSUME MailInv, NEW kind, SendLetter(kind)
    PROVE  /\ NextLetter \in Letters /\ ~Sent(NextLetter)
           /\ letters'[NextLetter].kind = kind
           /\ letters'[NextLetter].wake = Coalesced
           /\ Coalesced \in Wakes /\ wakes'[Coalesced].state = "pending"
           /\ Pending = {} => wakes[Coalesced].state = "none"
           /\ \A w \in Wakes \ {Coalesced} : wakes'[w] = wakes[w]
           /\ Pending # {} => wakes' = wakes
           /\ \A m \in Letters \ {NextLetter} : letters'[m] = letters[m]
<1> DEFINE new == [kind |-> kind, wake |-> Coalesced, read |-> FALSE,
                   delivered |-> FALSE]
<1>1. NextLetter \in Letters /\ ~Sent(NextLetter)
  <2> DEFINE free == {m \in Letters : ~Sent(m)}
  <2>1. free # {} /\ free \in SUBSET Nat
    BY WakeBounds DEF SendLetter, CanSend, Letters
  <2>2. Least(free) \in free
    BY <2>1, LeastIs
  <2> QED
    BY <2>2 DEF NextLetter
<1>2. letters' = [letters EXCEPT ![NextLetter] = new]
  BY DEF SendLetter
<1>3. new.kind = kind /\ new.wake = Coalesced
  OBVIOUS
<1> HIDE DEF new
<1>4. /\ Coalesced \in Wakes
      /\ Pending # {} => wakes[Coalesced].state = "pending"
      /\ Pending = {} => wakes[Coalesced].state = "none"
  BY CoalescedIs DEF MailInv, MailOK, SendLetter, CanSend
<1>5. /\ letters'[NextLetter] = new
      /\ \A m \in Letters \ {NextLetter} : letters'[m] = letters[m]
  BY <1>1, <1>2 DEF MailInv, MailOK, LettersOK
<1>6. wakes' = IF Pending # {} THEN wakes
               ELSE [wakes EXCEPT ![Coalesced] =
                       NewWake(kind \notin EngineKinds, FALSE, TRUE)]
  BY DEF SendLetter
<1>7. NewWake(kind \notin EngineKinds, FALSE, TRUE).state = "pending"
  BY DEF NewWake
<1>8. wakes'[Coalesced].state = "pending"
      /\ \A w \in Wakes \ {Coalesced} : wakes'[w] = wakes[w]
  BY <1>4, <1>6, <1>7 DEF MailInv, MailOK, WakesOK
<1> QED
  BY <1>1, <1>3, <1>4, <1>5, <1>6, <1>8

LEMMA ConcludeMoves ==
    ASSUME JobsOK(jobs), MailInv, NEW j \in Jobs, ~Terminal(j),
           NEW how \in Outcomes \cup {"lost"},
           how = "lost" => sups[j].result = "none", Conclude(j, how)
    PROVE  JobsMove
<1>1. jobs[j] \in JobRow /\ ~Over(jobs[j])
  BY DEF JobsOK, Terminal, Over
<1>2. CASE jobs[j].kind = "foreground"
  <2>1. jobs' = [jobs EXCEPT ![j] = [jobs[j] EXCEPT !.state = how]]
    BY <1>2 DEF Conclude
  <2>2. JobMoves(jobs[j], [jobs[j] EXCEPT !.state = how], j)
    BY <1>1 DEF JobRow, JobMoves, Outcomes, Over
  <2> QED
    BY <2>1, <2>2, OneJobMoves
<1>3. CASE jobs[j].kind # "foreground"
  <2> DEFINE r == [jobs[j] EXCEPT !.state = how, !.wake = "pending",
                                  !.letter = NextLetter]
  <2>1. jobs' = [jobs EXCEPT ![j] = r] /\ SendLetter("outcome")
    BY <1>3 DEF Conclude
  <2>2. /\ NextLetter \in Letters /\ ~Sent(NextLetter)
        /\ letters'[NextLetter].kind = "outcome"
        /\ wakes'[letters'[NextLetter].wake].state = "pending"
    BY <2>1, SendIsNew
  <2>3. /\ r \in JobRow /\ r.letter = NextLetter /\ r.state = how
        /\ r.wake = "pending"
    <3>1. NextLetter \in 0..MaxLetters
      BY <2>2, WakeBounds DEF Letters
    <3> QED
      BY <1>1, <3>1 DEF JobRow, Outcomes
  <2> HIDE DEF r
  <2>4. JobMoves(jobs[j], r, j)
    BY <1>1, <2>2, <2>3 DEF JobMoves, Outcomes, Over
  <2> QED
    BY <2>1, <2>4, OneJobMoves
<1> QED
  BY <1>2, <1>3

LEMMA RunningMoves ==
    ASSUME JobsOK(jobs), NEW j \in Jobs, MarkRunning(j)
    PROVE  JobsMove
<1>1. ~Terminal(j) => JobMoves(jobs[j], [jobs[j] EXCEPT !.state = "running"], j)
  BY JobRowMoves DEF JobsOK, Terminal, Over
<1>2. \/ UNCHANGED jobs
      \/ /\ jobs' = [jobs EXCEPT ![j] = [jobs[j] EXCEPT !.state = "running"]]
         /\ ~Terminal(j)
  BY DEF MarkRunning
<1> QED
  BY <1>1, <1>2, OneJobMoves, JobsUntouched

LEMMA RegisterMoves ==
    ASSUME JobsOK(jobs), supply \in WorkloadRow, NEW j \in Jobs, StartRun(j)
    PROVE  JobsMove
<1> DEFINE kind == Head(supply.runs)
           r == [kind |-> kind, state |-> "registered", wake |-> "none",
                 letter |-> 0]
<1>1. kind \in RunKinds
  BY DEF StartRun, WorkloadRow
<1>2. jobs' = [jobs EXCEPT ![j] = r] /\ ~Over(jobs[j])
  BY DEF StartRun, Register, Over
<1> HIDE DEF kind
<1>3. JobMoves(jobs[j], r, j)
  <2>1. 0 \in 0..MaxLetters
    BY WakeBounds
  <2> QED
    BY <1>1, <1>2, <2>1 DEF JobRow, RunKinds, JobMoves
<1> HIDE DEF r
<1> QED
  BY <1>2, <1>3, OneJobMoves

LEMMA JudgeMoves ==
    ASSUME JobsOK(jobs), PulseOK(pulse, letters, turns), JudgeReceipt,
           TrackedOK, CountsMove
    PROVE  JobsMove
<1> DEFINE m == pulse.letter
           t == pulse.view.receipt.turn
           n == pulse.view.receipt.busy + 1
<1>0. Tracked(m)
  BY DEF JudgeReceipt, PulseOK, TrackedOK, CountsMove, Tracked
<1>1. CASE UNCHANGED jobs
  BY <1>1, JobsUntouched
<1>2. CASE jobs' = TellJobs({m}, "blocked") \/ jobs' = TellJobs({m}, "enqueued")
  BY <1>0, <1>2, JobsTold
<1>3. CASE Consumed(t, m) /\ jobs' = TellJobs({m}, "consumed")
  <2>1. t \in 1..Len(turns)
    BY DEF JudgeReceipt, PulseOK, ReceiptOK
  <2>2. Shown(m, turns)
    BY <1>3, <2>1 DEF Consumed, Shown
  <2> QED
    BY <1>0, <1>3, <2>2, JobsTold
<1>4. CASE jobs' = [j \in Jobs |-> IF jobs[j].letter = m
                      THEN [jobs[j] EXCEPT
                              !.wake = IF n > Ladder THEN "blocked" ELSE "pending"]
                      ELSE jobs[j]]
  <2>1. \A j \in Jobs :
          /\ jobs[j] \in JobRow /\ JobMoves(jobs[j], jobs[j], j)
          /\ JobMoves(jobs[j], [jobs[j] EXCEPT !.wake = "blocked"], j)
          /\ jobs[j].letter = m =>
               JobMoves(jobs[j], [jobs[j] EXCEPT !.wake = "pending"], j)
    BY <1>0, JobRowMoves DEF JobsOK
  <2>2. \A j \in Jobs : JobMoves(jobs[j], jobs'[j], j)
    BY <1>4, <2>1
  <2>3. jobs' = [j \in Jobs |-> jobs'[j]]
    BY <1>4
  <2> QED
    BY <2>2, <2>3 DEF JobsMove, JobMoves
<1> QED
  BY Zenon, <1>1, <1>2, <1>3, <1>4 DEF JudgeReceipt, CountRefusal, Block

LEMMA JobsStep ==
    ASSUME Core, Followed, JobsOK(jobs), SupsOK(sups), [WakesNext]_wvars
    PROVE  JobsMove
<1>1. PulseOK(pulse, letters, turns) /\ supply \in WorkloadRow
      /\ turns \in Seq(TurnRow) /\ MailInv /\ TrackedOK /\ CountsMove
  BY CountsStep DEF Core, Followed, TurnsOK
<1>2. CASE UNCHANGED jobs
  BY <1>2, JobsUntouched
<1>3. ASSUME NEW b \in BOOLEAN, FailDelivery(b) PROVE JobsMove
  <2> DEFINE now(j) == IF jobs[j].letter \in Joined(lease.wake)
                       THEN [jobs[j] EXCEPT !.wake = "blocked"] ELSE jobs[j]
  <2>1. UNCHANGED jobs \/ jobs' = [j \in Jobs |-> now(j)]
    BY Zenon, <1>3 DEF FailDelivery, RecordTransportFailure
  <2>2. \A j \in Jobs : JobMoves(jobs[j], now(j), j)
    BY JobRowMoves DEF JobsOK
  <2> HIDE DEF now
  <2>3. jobs' = [j \in Jobs |-> now(j)] => JobsMove
    BY <2>2 DEF JobsMove, JobMoves
  <2> QED
    BY <1>2, <2>1, <2>3
<1>4. CASE DeliverStep
  <2>1. CASE CreateFails \/ EnqueueFails
    BY <1>3, <2>1 DEF CreateFails, EnqueueFails
  <2>2. CASE ~(CreateFails \/ EnqueueFails)
    BY Zenon, <1>2, <1>4, <2>2 DEF DeliverStep, Deliver, Claim, ClaimNone,
       Resolve, Rotate, Create, DeferForceNew, deliveryRows, EnqueueTurn,
       RecordEnqueue, RecordDelivered
  <2> QED
    BY <2>1, <2>2
<1>5. CASE ReconcileRuns
  <2>1. ASSUME NEW j \in Jobs, ReadEvidence(j) PROVE JobsMove
    <3>1. CASE sups[j].result # "none"
      <4>1. sups[j].result \in Outcomes
        BY <3>1 DEF SupsOK, SupRow
      <4>2. sups[j].result # "lost"
        BY <4>1 DEF Outcomes
      <4> QED
        BY <1>1, <2>1, <3>1, <4>1, <4>2, ConcludeMoves DEF ReadEvidence, Terminal
    <3>2. CASE sups[j].result = "none"
      BY <1>2, <2>1, <3>2, RunningMoves DEF ReadEvidence
    <3> QED
      BY <3>1, <3>2
  <2>2. CASE ProbeSupervisor
    BY <1>2, <2>2 DEF ProbeSupervisor
  <2>3. CASE RereadEvidence
    <3> DEFINE j == pulse.job
               how == IF sups[j].result = "none" THEN "lost" ELSE sups[j].result
    <3>1. j \in Jobs
      BY <1>1, <2>3 DEF RereadEvidence, PulseOK
    <3>2. how \in Outcomes \cup {"lost"} /\ (how = "lost" => sups[j].result = "none")
      BY <3>1 DEF SupsOK, SupRow, Outcomes
    <3>3. UNCHANGED jobs \/ (Conclude(j, how) /\ ~Terminal(j))
      BY <2>3 DEF RereadEvidence
    <3> HIDE DEF how, j
    <3> QED
      BY <1>1, <1>2, <3>1, <3>2, <3>3, ConcludeMoves
  <2> QED
    BY <1>5, <2>1, <2>2, <2>3 DEF ReconcileRuns
<1>6. CASE Follow
  <2>1. CASE JudgeReceipt
    BY <1>1, <2>1, JudgeMoves
  <2>2. CASE ReplayTurn
    BY Zenon, <1>2, <2>2, JobsTold DEF ReplayTurn, Block
  <2>3. CASE RecordReplay
    BY Zenon, <1>2, <2>3 DEF RecordReplay
  <2>4. ASSUME NEW m \in Letters, ReadReceipts(m) PROVE JobsMove
    BY <1>2, <2>4 DEF ReadReceipts
  <2> QED
    BY <1>6, <2>1, <2>2, <2>3, <2>4 DEF Follow
<1>7. CASE TurnMoves
  <2>1. ASSUME NEW t \in DOMAIN turns, CodexObserves(t) PROVE JobsMove
    <3> DEFINE ms == {m \in turns[t].letters : Engine(m)}
    <3>1. jobs' = TellJobs(ms, "consumed") /\ turns[t].shown
      BY Zenon, <2>1 DEF CodexObserves
    <3>2. \A m \in ms : Shown(m, turns) /\ Tracked(m)
      <4>1. DOMAIN turns = 1..Len(turns) /\ t # 0 /\ turns[t] \in TurnRow
        BY <1>1
      <4>2. ms \subseteq Letters
        BY <4>1 DEF TurnRow
      <4>3. receipts' = [m \in Letters |-> IF m \in ms
              THEN [receipts[m] EXCEPT !.settled = "consumed", !.retry = "none",
                      !.turn = IF receipts[m].turn = 0 THEN t ELSE receipts[m].turn]
              ELSE receipts[m]]
        BY <2>1 DEF CodexObserves
      <4>4. \A m \in Letters : receipts[m] \in ReceiptRow
        BY DEF Followed, ReceiptsOK
      <4>5. ASSUME NEW m \in ms PROVE Tracked(m)
        <5> DEFINE u == IF receipts[m].turn = 0 THEN t ELSE receipts[m].turn
        <5>1. u # 0
          BY <4>1
        <5> HIDE DEF u
        <5>2. receipts'[m] = [receipts[m] EXCEPT !.settled = "consumed",
                                !.retry = "none", !.turn = u]
          BY <4>2, <4>3, <4>5 DEF u
        <5> QED
          BY <4>2, <4>4, <5>1, <5>2, SameCount DEF Tracked
      <4> QED
        BY <3>1, <4>1, <4>5 DEF Shown
    <3> QED
      BY <3>1, <3>2, JobsTold
  <2> QED
    BY <1>2, <1>7, <2>1 DEF TurnMoves, TurnStarts, TurnRefusedBusy, TurnShows,
       TurnEnds
<1>8. ASSUME NEW j \in Jobs, SupervisorStep(j) PROVE JobsMove
  <2>1. CASE Submit(j)
    <3>1. sups[j].result \in Outcomes /\ sups[j].result # "lost"
      BY <2>1 DEF Submit, SupsOK, Outcomes
    <3> QED
      BY <1>1, <1>2, <2>1, <3>1, ConcludeMoves DEF Submit
  <2>2. CASE CheckIn(j)
    BY <2>2, RunningMoves DEF CheckIn
  <2>3. CASE SupervisorStarts(j) \/ Launch(j) \/ CommandEnds(j)
    BY <1>2, <2>3 DEF SupervisorStarts, Launch, CommandEnds
  <2> QED
    BY <1>8, <2>1, <2>2, <2>3 DEF SupervisorStep, Supervise
<1>9. ASSUME NEW j \in Jobs, StartRun(j) \/ SupervisorDies(j) \/ Kill(j)
      PROVE  JobsMove
  BY <1>1, <1>2, <1>9, RegisterMoves DEF SupervisorDies, Kill
<1>10. CASE Outage
  <2>1. CASE RouteFails \/ ServerFaults
    BY <1>3, <2>1 DEF RouteFails, ServerFaults
  <2>2. ASSUME NEW j \in Jobs, EvidenceUnreadable(j) PROVE JobsMove
    <3>1. jobs' = [jobs EXCEPT ![j] = [jobs[j] EXCEPT !.wake = "blocked"]]
      BY <2>2 DEF EvidenceUnreadable
    <3>2. JobMoves(jobs[j], [jobs[j] EXCEPT !.wake = "blocked"], j)
      BY JobRowMoves DEF JobsOK
    <3> QED
      BY <3>1, <3>2, OneJobMoves
  <2>3. ASSUME NEW j \in Jobs, LaunchFails(j) PROVE JobsMove
    BY <1>2, <2>3 DEF LaunchFails
  <2> QED
    BY <1>10, <2>1, <2>2, <2>3 DEF Outage
<1>11. CASE RecoverFailed \/ Clock \/ Read
  BY Zenon, <1>2, <1>11 DEF RecoverFailed, RecoverEngineWake, Clock, Tick,
     LeaseLapses, BackoffEnds, QuietPasses, HoldEnds, RetryTimeComes,
     receiptRows, Read, ReadLetter
<1>12. CASE Post \/ ChatOpens \/ ChatCloses \/ PulseDies
  BY <1>2, <1>12 DEF Post, ChatOpens, ChatCloses, PulseDies
<1>13. CASE UNCHANGED wvars
  BY <1>2, <1>13 DEF wvars
<1> QED
  BY <1>4, <1>5, <1>6, <1>7, <1>8, <1>9, <1>10, <1>11, <1>12, <1>13 DEF WakesNext

-----------------------------------------------------------------------------
(* The invariant, and what follows from it.                                *)

NoticeOK == notice \in NoticeRow

\* Only a failed delivery changes what is on notice.
LEMMA NoticeMoves ==
    ASSUME [WakesNext]_wvars
    PROVE  UNCHANGED notice \/ \E b : FailDelivery(b)
<1> DEFINE fails == \E b : FailDelivery(b)
<1> HIDE DEF fails
<1>1. ASSUME DeliverStep \/ Outage
      PROVE  UNCHANGED notice \/ fails
  <2>1. CASE Claim \/ ClaimNone \/ Resolve \/ Rotate \/ Create
    BY Zenon, <2>1 DEF Claim, ClaimNone, Resolve, Rotate, Create, DeferForceNew,
       deliveryRows
  <2>2. CASE EnqueueTurn \/ RecordEnqueue \/ RecordDelivered
    BY <2>2 DEF EnqueueTurn, RecordEnqueue, RecordDelivered
  <2>3. ASSUME NEW j \in Jobs, EvidenceUnreadable(j) \/ LaunchFails(j)
        PROVE  UNCHANGED notice
    BY <2>3 DEF EvidenceUnreadable, LaunchFails, runRows
  <2>4. CASE CreateFails \/ EnqueueFails \/ RouteFails \/ ServerFaults
    BY <2>4 DEF CreateFails, EnqueueFails, RouteFails, ServerFaults, fails
  <2> QED
    BY <1>1, <2>1, <2>2, <2>3, <2>4 DEF DeliverStep, Deliver, Outage
<1>2. ASSUME ReconcileRuns
      PROVE  UNCHANGED notice
  BY Zenon, <1>2 DEF ReconcileRuns, ReadEvidence, ProbeSupervisor,
     RereadEvidence, runRows
<1>3. ASSUME Follow
      PROVE  UNCHANGED notice
  BY Zenon, <1>3 DEF Follow, ReadReceipts, JudgeReceipt, ReplayTurn,
     RecordReplay, receiptRows
<1>4. ASSUME Clock \/ TurnMoves
      PROVE  UNCHANGED notice
  BY Zenon, <1>4 DEF Clock, Tick, LeaseLapses, BackoffEnds, QuietPasses,
     HoldEnds, RetryTimeComes, receiptRows, TurnMoves, TurnStarts,
     TurnRefusedBusy, TurnShows, TurnEnds, CodexObserves
<1>5. ASSUME Post \/ RecoverFailed \/ Read \/ ChatOpens \/ ChatCloses \/ PulseDies
      PROVE  UNCHANGED notice
  BY Zenon, <1>5 DEF Post, RecoverFailed, RecoverEngineWake, Read, ReadLetter,
     ChatOpens, ChatCloses, PulseDies
<1>6. ASSUME NEW j \in Jobs,
             StartRun(j) \/ SupervisorStep(j) \/ SupervisorDies(j) \/ Kill(j)
      PROVE  UNCHANGED notice
  BY <1>6 DEF StartRun, Register, SupervisorStep, Supervise, SupervisorStarts,
     CheckIn, Launch, CommandEnds, Submit, SupervisorDies, Kill, runRows
<1>7. ASSUME UNCHANGED wvars
      PROVE  UNCHANGED notice
  BY <1>7 DEF wvars
<1>8. UNCHANGED notice \/ fails
  BY <1>1, <1>2, <1>3, <1>4, <1>5, <1>6, <1>7 DEF WakesNext
<1> QED
  BY <1>8 DEF fails

\* A paused sprint stays paused and a flag stays raised.
NoticeKeeps ==
    /\ notice'.armed => notice.armed
    /\ notice.flagged => notice'.flagged

LEMMA NoticeStep ==
    ASSUME NoticeOK, [WakesNext]_wvars
    PROVE  NoticeOK' /\ NoticeKeeps
<1>1. CASE UNCHANGED notice
  BY <1>1 DEF NoticeOK, NoticeKeeps
<1>2. ASSUME NEW b, FailDelivery(b) PROVE NoticeOK' /\ NoticeKeeps
  <2> DEFINE w == lease.wake
             f == notice.flagged \/ (wakes[w].recovery /\ ~wakes[w].sprint)
             a == notice.armed
                    /\ ~\E m \in Joined(w) \cap Undelivered : ~Engine(m)
  <2>1. f \in BOOLEAN /\ a \in BOOLEAN /\ (a => notice.armed)
        /\ (notice.flagged => f)
    OBVIOUS
  <2>2. UNCHANGED notice
        \/ notice' = [notice EXCEPT !.flagged = f, !.armed = a]
    BY <1>2 DEF FailDelivery, RecordWakeFailure
  <2> HIDE DEF a, f
  <2>3. notice' = [notice EXCEPT !.flagged = f, !.armed = a]
          => NoticeOK' /\ notice'.flagged = f /\ notice'.armed = a
    BY <2>1 DEF NoticeOK, NoticeRow
  <2> QED
    BY <1>1, <2>1, <2>2, <2>3, Zenon DEF NoticeKeeps
<1> QED
  BY <1>1, <1>2, NoticeMoves

WakesInv ==
    /\ Core /\ Followed /\ JobsOK(jobs) /\ ConsumedOK(jobs, turns)
    /\ SupsOK(sups) /\ NoticeOK

LEMMA WakesStep ==
    ASSUME WakesInv, [WakesNext]_wvars
    PROVE  WakesInv' /\ JobsMove
<1>1. Core /\ Followed /\ JobsOK(jobs) /\ ConsumedOK(jobs, turns) /\ SupsOK(sups)
      /\ PulseOK(pulse, letters, turns)
  BY DEF WakesInv, Followed
<1>2. ReplaysWell
  BY <1>1, ReplayQueues DEF ReplaysWell
<1>3. Core' /\ TurnsKept /\ LettersKeep
  BY <1>1, <1>2, CoreStep
<1>4. ReceiptsOK(receipts', letters', turns') /\ PulseOK(pulse', letters', turns')
      /\ ReplayedOK' /\ TrackedOK'
  BY <1>1, <1>3, ReceiptsStep, PulseStep, ReplayedStep, TrackedStep
<1>5. JobsMove /\ SupsOK(sups')
  BY <1>1, JobsStep, SupsStep
<1>6. ConsumedOK(jobs', turns')
  <2> SUFFICES ASSUME NEW j \in Jobs, jobs'[j].wake = "consumed"
               PROVE  Shown(jobs'[j].letter, turns')
    BY DEF ConsumedOK
  <2>1. Shown(jobs'[j].letter, turns)
    BY <1>1, <1>5 DEF JobsMove, JobMoves, ConsumedOK
  <2> QED
    BY <1>3, <2>1 DEF Shown, TurnsKept, SameTurn
<1>7. NoticeOK'
  BY NoticeStep DEF WakesInv
<1> QED
  BY <1>3, <1>4, <1>5, <1>6, <1>7 DEF WakesInv, Followed, JobsOK, JobsMove

LEMMA WakesStart == WakesInit => WakesInv
<1> SUFFICES ASSUME WakesInit PROVE WakesInv
  OBVIOUS
<1>1. /\ NoLetter \in LetterRow /\ NoLetter.kind = "none"
      /\ NoWake \in WakeRow /\ NoWake.state = "none"
      /\ NoLease \in LeaseRow /\ NoLease.pc = "idle"
  BY WakeBounds, NoLeaseOK DEF NoLetter, LetterRow, NoWake, WakeRow
<1>2. /\ letters = [m \in Letters |-> NoLetter]
      /\ wakes = [w \in Wakes |-> NoWake] /\ lease = NoLease
      /\ turns = <<>> /\ receipts = [m \in Letters |-> NoReceipt]
      /\ jobs = [j \in Jobs |-> NoJob] /\ sups = [j \in Jobs |-> NoSup]
      /\ pulse = IdlePulse
  BY DEF WakesInit
<1>3. MailInv
  BY <1>1, <1>2 DEF MailInv, MailOK, LettersOK, WakesOK, WakeOK, OnePending,
     Carried, HeldOK
<1>4. DeskOK(desk)
  <2>1. desk = [active |-> 0, live |-> FALSE, opened |-> 0,
                maker |-> [c \in Chats |-> 0]]
    BY DEF WakesInit
  <2>2. 0 \in 0..MaxChats /\ [c \in Chats |-> 0] \in [Chats -> 0..MaxWakes]
    BY WakeBounds
  <2> QED
    BY <2>1, <2>2 DEF DeskOK, DeskRow
<1>5. TurnsOK(turns, letters, desk)
  BY <1>2, WakeBounds DEF TurnsOK
<1>6. LeaseOK(lease, turns, letters, desk) /\ QueuedOK /\ Alone
      /\ ToldOK(letters, turns)
  BY <1>1, <1>2 DEF LeaseOK, QueuedOK, Alone, ToldOK
<1>7. PICK load \in Workloads :
        /\ supply = load
        /\ notice = [armed |-> TRUE, coordinate |-> load.coordinate,
                     flagged |-> FALSE]
  BY DEF WakesInit
<1>8. supply \in WorkloadRow /\ load.coordinate \in BOOLEAN
  BY <1>7, WorkloadRows DEF WorkloadRow
<1>9. NoticeOK
  BY <1>7, <1>8 DEF NoticeOK, NoticeRow
<1>10. /\ NoReceipt \in ReceiptRow /\ NoReceipt.turn = 0
       /\ NoReceipt.busy = 0 /\ NoReceipt.retry = "none"
  BY WakeBounds DEF NoReceipt, ReceiptRow
<1>11. ReceiptsOK(receipts, letters, turns)
  BY <1>2, <1>10, WakeBounds DEF ReceiptsOK, ReceiptOK
<1>12. PulseOK(pulse, letters, turns) /\ ReplayedOK /\ TrackedOK
  BY <1>2, IdleOK DEF ReplayedOK, TrackedOK, IdlePulse
<1>13. /\ NoJob \in JobRow /\ NoJob.wake = "none"
       /\ NoSup \in SupRow /\ NoSup.pc = "none"
  BY WakeBounds DEF NoJob, JobRow, NoSup, SupRow
<1>14. JobsOK(jobs) /\ ConsumedOK(jobs, turns) /\ SupsOK(sups)
  BY <1>2, <1>13 DEF JobsOK, ConsumedOK, SupsOK
<1> QED
  BY <1>3, <1>4, <1>5, <1>6, <1>8, <1>9, <1>11, <1>12, <1>14
     DEF WakesInv, Core, Followed

\* The part of a behaviour that is about a sprint leaves the wakes alone.
LEMMA RuntimeServes ==
    [RuntimeNext]_<<svars, wvars, fvars, part>> => [WakesNext]_wvars
  BY DEF RuntimeNext

\* What every step of the delivery keeps: rows, the mail with its one pending
\* wake, the held claim, turns, receipts with the reading in hand, and runs.
THEOREM WakeInvariant == RuntimeSpec => []WakesInv
<1>1. RuntimeInit => WakesInv
  BY WakesStart DEF RuntimeInit
<1>2. WakesInv /\ [RuntimeNext]_<<svars, wvars, fvars, part>> => WakesInv'
  BY WakesStep, RuntimeServes
<1> QED
  BY <1>1, <1>2, PTL DEF RuntimeSpec

\* Every row behind a wake is well formed in every reachable state.
THEOREM WakeTypes == RuntimeSpec => []WakesTypeOK
<1>1. WakesInv => WakesTypeOK
  <2> SUFFICES ASSUME WakesInv PROVE WakesTypeOK
    OBVIOUS
  <2>1. /\ letters \in [Letters -> LetterRow] /\ wakes \in [Wakes -> WakeRow]
        /\ lease \in LeaseRow /\ desk \in DeskRow
    BY DEF WakesInv, Core, MailInv, MailOK, LettersOK, WakesOK, DeskOK
  <2>2. Len(turns) <= MaxTurns /\ \A t \in DOMAIN turns : turns[t] \in TurnRow
    BY DEF WakesInv, Core, TurnsOK
  <2>3. receipts \in [Letters -> ReceiptRow] /\ pulse \in PulseRow
    BY DEF WakesInv, Followed, ReceiptsOK, PulseOK
  <2>4. jobs \in [Jobs -> JobRow] /\ sups \in [Jobs -> SupRow]
        /\ notice \in NoticeRow
    BY DEF WakesInv, JobsOK, SupsOK, NoticeOK
  <2> QED
    BY <2>1, <2>2, <2>3, <2>4 DEF WakesTypeOK
<1> QED
  BY <1>1, WakeInvariant, PTL

\* A receiver never has two pending wakes: the one-pending index is never hit
\* by a send, retry, deferral, requeue or recovery.
THEOREM OnePendingHolds == RuntimeSpec => []OnePendingWake
<1>1. WakesInv => OnePendingWake
  <2> SUFFICES ASSUME WakesInv PROVE Cardinality(Pending) <= 1
    BY DEF OnePendingWake
  <2>1. \A v, w \in Pending : v = w
    BY DEF WakesInv, Core, MailInv, MailOK, OnePending, Pending
  <2>2. CASE Pending = {}
    BY <2>2, FS_EmptySet
  <2>3. CASE Pending # {}
    <3>1. PICK w : Pending = {w}
      BY <2>1, <2>3
    <3> QED
      BY <3>1, FS_Singleton
  <2> QED
    BY <2>2, <2>3
<1> QED
  BY <1>1, WakeInvariant, PTL

\* No hand-over between wakes strands a message, and a delivered message is in
\* a turn that was queued.
THEOREM LettersCarriedHolds == RuntimeSpec => []LetterIsCarried
<1>1. WakesInv => LetterIsCarried
  <2> SUFFICES ASSUME WakesInv, NEW m \in Letters, Sent(m)
               PROVE  IF letters[m].delivered
                      THEN \E t \in DOMAIN turns : m \in turns[t].letters
                      ELSE letters[m].read
                           \/ wakes[letters[m].wake].state
                                \in {"pending", "delivering", "failed"}
    BY DEF LetterIsCarried
  <2>1. turns \in Seq(TurnRow) /\ ToldOK(letters, turns) /\ Carried(letters, wakes)
    BY DEF WakesInv, Core, TurnsOK, MailInv, MailOK
  <2>2. CASE letters[m].delivered
    BY <2>1, <2>2 DEF ToldOK, Sent
  <2>3. CASE ~letters[m].delivered
    BY <2>1, <2>3 DEF Carried, Sent, Alive
  <2> QED
    BY <2>2, <2>3
<1> QED
  BY <1>1, WakeInvariant, PTL

\* A force-new message is queued only in a chat its own wake opened, whatever
\* a person does to the chats between the transactions of a delivery.
THEOREM ForceNewHolds == RuntimeSpec => []ForceNewStartsFresh
<1>1. WakesInv => ForceNewStartsFresh
  <2> SUFFICES ASSUME WakesInv, NEW t \in DOMAIN turns,
                      NEW m \in turns[t].letters,
                      Declared(letters[m].kind) = "force-new"
               PROVE  desk.maker[turns[t].chat] = turns[t].key[1]
    BY DEF ForceNewStartsFresh
  <2>1. letters[m].kind = "assignment"
    BY DEF Declared
  <2>2. TurnOK(turns[t], letters, desk)
    BY DEF WakesInv, Core, TurnsOK
  <2> QED
    BY <2>1, <2>2 DEF TurnOK
<1> QED
  BY <1>1, WakeInvariant, PTL

\* A run's outcome counts as consumed only if a turn that told it was shown.
THEOREM ConsumedHolds == RuntimeSpec => []ConsumedWasShown
<1>1. WakesInv => ConsumedWasShown
  <2> SUFFICES ASSUME WakesInv PROVE ConsumedWasShown
    OBVIOUS
  <2>1. turns \in Seq(TurnRow) /\ ConsumedOK(jobs, turns)
    BY DEF WakesInv, Core, TurnsOK
  <2> QED
    BY <2>1 DEF ConsumedOK, Shown, ConsumedWasShown
<1> QED
  BY <1>1, WakeInvariant, PTL

\* A run is declared lost only while no finish record exists.
THEOREM LostHolds == RuntimeSpec => LostHasNoEvidence
<1> DEFINE fair == \A j \in Jobs : jobs'[j].state = "lost"
                      /\ jobs[j].state # "lost" => sups[j].result = "none"
<1>1. WakesInv /\ [RuntimeNext]_<<svars, wvars, fvars, part>> => [fair]_wvars
  BY WakesStep, RuntimeServes DEF JobsMove, JobMoves
<1> QED
  BY <1>1, WakeInvariant, PTL DEF RuntimeSpec, LostHasNoEvidence

-----------------------------------------------------------------------------
(* Replays.                                                                *)

RefusedBefore(ts, n, m) ==
    \E u \in 1..n : ts[u].state = "busy" /\ m \in ts[u].letters

\* What a replay may say of itself: the property, for one turn.
ReplayOK(t, ts, rs) ==
    ts[t].key[1] = 0 =>
        LET m == ts[t].key[2] IN
        /\ m \in ts[t].letters
        /\ RefusedBefore(ts, t - 1, m)
        /\ ts[t].key[3] \in 1..rs[m].busy
        /\ \A u \in 1..(t - 1) : ts[u].chat = ts[t].chat => ts[u].key # ts[t].key

\* A counted message was refused, and the pulse holds the count of its
\* receipt until it is done with it.
ReplaysInv ==
    /\ \A m \in Letters : receipts[m].busy > 0
                            => RefusedBefore(turns, Len(turns), m)
    /\ \A t \in 1..Len(turns) : ReplayOK(t, turns, receipts)
    /\ pulse.pc \in {"judge", "retry", "replayed"} =>
          /\ pulse.view.receipt.busy = receipts[pulse.letter].busy
          /\ pulse.view.busy => turns[pulse.view.receipt.turn].state = "busy"

\* A turn that is new is one the delivery service keyed by its wake, or a
\* replay that no turn of the chat has the key of.
NewTurn(t) ==
    /\ t = Len(turns) + 1
    /\ \/ turns'[t].key[1] # 0
       \/ LET seen == pulse.view.receipt IN
          /\ pulse.pc = "retry" /\ UNCHANGED receipts
          /\ turns'[t].key = RetryKey
          /\ turns'[t].letters = turns[seen.turn].letters
          /\ Keyed(turns'[t].chat, RetryKey) = {}

LEMMA Appends ==
    ASSUME turns \in Seq(TurnRow), NEW c, NEW key, NEW ms, QueueTurn(c, key, ms),
           NEW t \in 1..Len(turns'), t \notin 1..Len(turns)
    PROVE  /\ t = Len(turns) + 1 /\ Keyed(c, key) = {}
           /\ turns'[t].key = key /\ turns'[t].letters = ms /\ turns'[t].chat = c
<1> DEFINE row == [chat |-> c, key |-> key, letters |-> ms,
                   state |-> "queued", shown |-> FALSE]
<1>1. Len(turns) \in Nat
  OBVIOUS
<1>2. Keyed(c, key) = {} /\ turns' = Append(turns, row)
  BY DEF QueueTurn
<1>3. row.key = key /\ row.letters = ms /\ row.chat = c
  OBVIOUS
<1> HIDE DEF row
<1>4. Len(turns') = Len(turns) + 1 /\ turns'[Len(turns) + 1] = row
  BY <1>1, <1>2
<1>5. t = Len(turns) + 1
  BY <1>1, <1>4
<1> QED
  BY <1>2, <1>3, <1>4, <1>5

LEMMA NewTurns ==
    ASSUME Core, PulseOK(pulse, letters, turns), [WakesNext]_wvars,
           NEW t \in 1..Len(turns'), t \notin 1..Len(turns)
    PROVE  NewTurn(t)
<1>1. turns \in Seq(TurnRow) /\ lease \in LeaseRow
      /\ (lease.pc # "idle" => lease.wake \in Wakes)
  BY DEF Core, TurnsOK, MailInv, MailOK, HeldOK
<1>2. CASE TurnsSame
  BY <1>2 DEF TurnsSame
<1>3. CASE EnqueueTurn
  <2>1. QueueTurn(lease.chat, TurnKey, NextTurn) /\ lease.wake \in Wakes
    BY <1>1, <1>3 DEF EnqueueTurn
  <2>2. TurnKey[1] = lease.wake /\ lease.wake # 0
    BY <2>1, WakeBounds DEF TurnKey, Wakes
  <2>3. t = Len(turns) + 1 /\ turns'[t].key = TurnKey
    BY <1>1, <2>1, Appends
  <2> QED
    BY <2>2, <2>3 DEF NewTurn
<1>4. CASE ReplayTurn
  <2> DEFINE s == pulse.view.receipt.turn
  <2>1. turns' # turns
    OBVIOUS
  <2>2. QueueTurn(turns[s].chat, RetryKey, turns[s].letters)
        /\ pulse.pc = "retry" /\ UNCHANGED receipts
    BY <1>4, <2>1 DEF ReplayTurn
  <2>3. /\ t = Len(turns) + 1 /\ Keyed(turns[s].chat, RetryKey) = {}
        /\ turns'[t].key = RetryKey /\ turns'[t].letters = turns[s].letters
        /\ turns'[t].chat = turns[s].chat
    BY <1>1, <2>2, Appends
  <2> QED
    BY <2>2, <2>3 DEF NewTurn
<1> QED
  BY <1>1, <1>2, <1>3, <1>4, TurnsStep

\* A turn that told a message and was refused goes on to be found.
LEMMA RefusedStays ==
    ASSUME TurnsKept, NEW n \in 0..Len(turns), NEW m, RefusedBefore(turns, n, m)
    PROVE  RefusedBefore(turns', n, m)
<1>1. PICK u \in 1..n : turns[u].state = "busy" /\ m \in turns[u].letters
  BY DEF RefusedBefore
<1>2. u \in 1..Len(turns)
  BY DEF TurnsKept
<1>3. turns'[u].state = "busy" /\ m \in turns'[u].letters
  BY <1>1, <1>2 DEF TurnsKept, SameTurn
<1> QED
  BY <1>3 DEF RefusedBefore

LEMMA ReplaysStep ==
    ASSUME WakesInv, ReplaysInv, [WakesNext]_wvars
    PROVE  ReplaysInv'
<1>1. /\ Core /\ Followed /\ PulseOK(pulse, letters, turns) /\ pulse \in PulseRow
      /\ receipts \in [Letters -> ReceiptRow] /\ turns \in Seq(TurnRow)
      /\ Len(turns) \in Nat
  BY DEF WakesInv, Followed, PulseOK, ReceiptsOK, Core, TurnsOK
<1>2. TurnsKept
  <2>1. ReplaysWell
    BY <1>1, ReplayQueues DEF ReplaysWell
  <2> QED
    BY <1>1, <2>1, CoreStep
<1>3. CountsMove /\ receipts' \in [Letters -> ReceiptRow]
  BY <1>1, CountsStep, WakesStep DEF WakesInv, Followed, ReceiptsOK
<1>4. \A m \in Letters : /\ receipts[m].busy \in Nat /\ receipts'[m].busy \in Nat
                         /\ receipts[m].busy <= receipts'[m].busy
  <2> SUFFICES ASSUME NEW m \in Letters
               PROVE  /\ receipts[m].busy \in Nat /\ receipts'[m].busy \in Nat
                      /\ receipts[m].busy <= receipts'[m].busy
    OBVIOUS
  <2>1. receipts[m].busy \in Nat /\ receipts'[m].busy \in Nat
    <3>1. receipts[m] \in ReceiptRow /\ receipts'[m] \in ReceiptRow
      BY <1>1, <1>3
    <3> QED
      BY <3>1, WakeBounds DEF ReceiptRow
  <2>2. receipts'[m].busy \in {receipts[m].busy, receipts[m].busy + 1}
    BY <1>3 DEF CountsMove, Counted, ReplaysInv
  <2> QED
    BY <2>1, <2>2
<1>5. ASSUME NEW m \in Letters, receipts'[m].busy > 0
      PROVE  RefusedBefore(turns', Len(turns'), m)
  <2>1. RefusedBefore(turns, Len(turns), m)
    <3>1. CASE receipts'[m].busy = receipts[m].busy
      BY <1>5, <3>1 DEF ReplaysInv
    <3>2. CASE Counted(m)
      <4> DEFINE u == pulse.view.receipt.turn
      <4>1. u \in 1..Len(turns) /\ m \in turns[u].letters
        BY <1>1, <3>2 DEF Counted, PulseOK, ReceiptOK
      <4>2. turns[u].state = "busy"
        BY <3>2 DEF Counted, ReplaysInv
      <4> QED
        BY <4>1, <4>2 DEF RefusedBefore
    <3> QED
      BY <1>3, <3>1, <3>2 DEF CountsMove
  <2>2. RefusedBefore(turns', Len(turns), m)
    BY <1>1, <1>2, <2>1, RefusedStays
  <2>3. \A u \in 1..Len(turns) : u \in 1..Len(turns')
    BY <1>2 DEF TurnsKept
  <2> QED
    BY <2>2, <2>3 DEF RefusedBefore
<1>6. ASSUME NEW t \in 1..Len(turns), turns'[t].key[1] = 0
      PROVE  ReplayOK(t, turns', receipts')
  <2> DEFINE m == turns[t].key[2]
  <2>1. /\ turns'[t].key = turns[t].key /\ turns'[t].chat = turns[t].chat
        /\ turns'[t].letters = turns[t].letters
    BY <1>2 DEF TurnsKept, SameTurn
  <2>2. /\ m \in turns[t].letters /\ RefusedBefore(turns, t - 1, m)
        /\ turns[t].key[3] \in 1..receipts[m].busy
        /\ \A u \in 1..(t - 1) : turns[u].chat = turns[t].chat
                                   => turns[u].key # turns[t].key
    BY <1>6, <2>1 DEF ReplaysInv, ReplayOK
  <2>3. m \in Letters
    <3>0. turns[t] \in TurnRow
      BY <1>1
    <3>1. turns[t].letters \subseteq Letters
      BY <3>0 DEF TurnRow
    <3> QED
      BY <2>2, <3>1
  <2>4. RefusedBefore(turns', t - 1, m)
    BY <1>1, <1>2, <2>2, RefusedStays
  <2>5. turns[t].key[3] \in 1..receipts'[m].busy
    BY <1>4, <2>2, <2>3
  <2>6. \A u \in 1..(t - 1) : /\ turns'[u].chat = turns[u].chat
                              /\ turns'[u].key = turns[u].key
    <3>1. \A u \in 1..(t - 1) : u \in 1..Len(turns)
      BY <1>1
    <3> QED
      BY <1>2, <3>1 DEF TurnsKept, SameTurn
  <2> QED
    BY <2>1, <2>2, <2>4, <2>5, <2>6 DEF ReplayOK
<1>7. ASSUME NEW t \in 1..Len(turns'), t \notin 1..Len(turns),
             turns'[t].key[1] = 0
      PROVE  ReplayOK(t, turns', receipts')
  <2> DEFINE seen == pulse.view.receipt
             m    == pulse.letter
             n    == seen.busy
  <2>1. /\ t = Len(turns) + 1 /\ pulse.pc = "retry" /\ UNCHANGED receipts
        /\ turns'[t].key = <<0, m, n>>
        /\ turns'[t].letters = turns[seen.turn].letters
        /\ Keyed(turns'[t].chat, <<0, m, n>>) = {}
    BY <1>1, <1>7, NewTurns DEF NewTurn, RetryKey
  <2>2. /\ m \in Letters /\ m \in turns[seen.turn].letters
        /\ n \in 1..Ladder /\ n = receipts[m].busy
    BY <1>1, <2>1 DEF PulseOK, ReceiptOK, ReplaysInv
  <2>3. turns'[t].key[2] = m /\ turns'[t].key[3] = n
    BY <2>1
  <2>4. n \in 1..receipts'[m].busy /\ receipts[m].busy > 0
    BY <2>1, <2>2, WakeBounds
  <2>5. t - 1 = Len(turns)
    BY <1>1, <2>1
  <2>6. RefusedBefore(turns', t - 1, m)
    BY <1>1, <1>2, <2>2, <2>4, <2>5, RefusedStays DEF ReplaysInv
  <2>7. \A u \in 1..(t - 1) : turns'[u].chat = turns'[t].chat
                                => turns'[u].key # turns'[t].key
    <3> SUFFICES ASSUME NEW u \in 1..Len(turns), turns'[u].chat = turns'[t].chat,
                        turns'[u].key = <<0, m, n>>
                 PROVE  FALSE
      BY <2>1, <2>5
    <3>1. turns[u].chat = turns'[t].chat /\ turns[u].key = <<0, m, n>>
      BY <1>2 DEF TurnsKept, SameTurn
    <3>2. u \in DOMAIN turns
      BY <1>1
    <3> QED
      BY <2>1, <3>1, <3>2 DEF Keyed
  <2> QED
    BY <2>1, <2>2, <2>3, <2>4, <2>6, <2>7 DEF ReplayOK
<1>8. ASSUME pulse'.pc \in {"judge", "retry", "replayed"}
      PROVE  /\ pulse'.view.receipt.busy = receipts'[pulse'.letter].busy
             /\ pulse'.view.busy =>
                   turns'[pulse'.view.receipt.turn].state = "busy"
  <2>1. ASSUME pulse.pc \in {"judge", "retry", "replayed"},
               pulse'.view = pulse.view, pulse'.letter = pulse.letter,
               receipts'[pulse.letter].busy = receipts[pulse.letter].busy
        PROVE  /\ pulse'.view.receipt.busy = receipts'[pulse'.letter].busy
               /\ pulse'.view.busy =>
                     turns'[pulse'.view.receipt.turn].state = "busy"
    <3>1. pulse.view.receipt.turn \in 1..Len(turns)
      BY <1>1, <2>1 DEF PulseOK, ReceiptOK
    <3> QED
      BY <1>2, <2>1, <3>1 DEF ReplaysInv, TurnsKept, SameTurn
  <2>2. CASE UNCHANGED pulse
    <3>1. pulse.letter \in Letters
      BY <1>1, <1>8, <2>2 DEF PulseOK
    <3>2. ~Counted(pulse.letter)
      BY <1>8, <2>2 DEF Counted, IdlePulse
    <3> QED
      BY <1>3, <1>8, <2>1, <2>2, <3>1, <3>2 DEF CountsMove
  <2>3. CASE GoesOn
    BY <2>1, <2>3 DEF GoesOn
  <2>4. ASSUME NEW m \in Letters, ReadReceipts(m)
        PROVE  /\ pulse'.view.receipt.busy = receipts'[pulse'.letter].busy
               /\ pulse'.view.busy =>
                     turns'[pulse'.view.receipt.turn].state = "busy"
    <3>1. /\ pulse'.letter = m /\ pulse'.view.receipt = receipts[m]
          /\ pulse'.view.busy = (turns[receipts[m].turn].state = "busy")
          /\ UNCHANGED <<receipts, turns>>
      BY <2>4 DEF ReadReceipts, IdlePulse, TheTurn
    <3> QED
      BY <3>1
  <2> QED
    BY <1>1, <1>8, <2>2, <2>3, <2>4, ViewsStep
<1>9. \A t \in 1..Len(turns') : ReplayOK(t, turns', receipts')
  BY <1>6, <1>7 DEF ReplayOK
<1> QED
  BY <1>5, <1>8, <1>9 DEF ReplaysInv

\* What a replay may say of itself holds of every turn in every reachable state.
THEOREM ReplaysHold == RuntimeSpec => []ReplaysFollowRefusals
<1>1. RuntimeInit => ReplaysInv
  <2> SUFFICES ASSUME WakesInit PROVE ReplaysInv
    BY DEF RuntimeInit
  <2>1. /\ turns = <<>> /\ receipts = [m \in Letters |-> NoReceipt]
        /\ pulse = IdlePulse /\ NoReceipt.busy = 0
    BY DEF WakesInit, NoReceipt
  <2> QED
    BY <2>1 DEF ReplaysInv, IdlePulse
<1>2. WakesInv /\ ReplaysInv /\ [RuntimeNext]_<<svars, wvars, fvars, part>>
        => ReplaysInv'
  BY ReplaysStep, RuntimeServes
<1>3. WakesInv /\ ReplaysInv => ReplaysFollowRefusals
  <2> SUFFICES ASSUME WakesInv, ReplaysInv PROVE ReplaysFollowRefusals
    OBVIOUS
  <2>1. DOMAIN turns = 1..Len(turns)
    BY DEF WakesInv, Core, TurnsOK
  <2> QED
    BY <2>1 DEF ReplaysInv, ReplayOK, RefusedBefore, ReplaysFollowRefusals
<1> QED
  BY <1>1, <1>2, <1>3, WakeInvariant, PTL DEF RuntimeSpec

-----------------------------------------------------------------------------
(* Failures.                                                               *)

\* What a step may do to messages and wakes.
MailActs ==
    \/ UNCHANGED <<letters, wakes>>
    \/ \E kind \in Kinds : SendLetter(kind)
    \/ Claim \/ ClaimNone \/ RecordDelivered
    \/ lease.pc # "idle" /\ DeferForceNew
    \/ lease.pc # "idle" /\ \E b \in BOOLEAN : FailDelivery(b)
    \/ \E w \in Wakes : RecoverEngineWake(w) \/ Tick(w)
    \/ \E m \in Letters : ReadLetter(m)

LEMMA ActsStep ==
    ASSUME supply \in WorkloadRow, [WakesNext]_wvars
    PROVE  MailActs
<1>1. CASE UNCHANGED <<letters, wakes>>
  BY <1>1 DEF MailActs
<1>2. CASE Post
  <2>1. Head(supply.mail) \in Kinds
    BY <1>2 DEF Post, WorkloadRow
  <2> QED
    BY <1>2, <2>1 DEF Post, MailActs
<1>3. ASSUME NEW j, NEW how, Conclude(j, how)
      PROVE  MailActs
  BY <1>1, <1>3 DEF Conclude, MailActs, Kinds
<1>4. CASE DeliverStep
  <2>1. CASE Resolve \/ Rotate \/ Create \/ EnqueueTurn \/ RecordEnqueue
    BY <1>1, <2>1 DEF Resolve, Rotate, Create, EnqueueTurn, RecordEnqueue,
       deliveryRows, MailActs
  <2>2. CASE CreateFails \/ EnqueueFails
    BY <2>2 DEF CreateFails, EnqueueFails, MailActs
  <2> QED
    BY <1>4, <2>1, <2>2 DEF DeliverStep, Deliver, MailActs
<1>5. CASE ReconcileRuns
  BY Zenon, <1>1, <1>3, <1>5 DEF ReconcileRuns, ReadEvidence, ProbeSupervisor,
     RereadEvidence
<1>6. ASSUME NEW j \in Jobs, SupervisorStep(j)
      PROVE  MailActs
  BY <1>1, <1>3, <1>6 DEF SupervisorStep, Supervise, SupervisorStarts, CheckIn,
     Launch, CommandEnds, Submit
<1>7. CASE RecoverFailed \/ Read
  BY <1>7 DEF RecoverFailed, Read, MailActs
<1>8. CASE Clock
  BY <1>1, <1>8 DEF Clock, RetryTimeComes, receiptRows, MailActs
<1>9. CASE Follow \/ TurnMoves \/ ChatOpens \/ ChatCloses \/ PulseDies
  BY Zenon, <1>1, <1>9 DEF Follow, ReadReceipts, JudgeReceipt, ReplayTurn,
     RecordReplay, receiptRows, TurnMoves, TurnStarts, TurnRefusedBusy,
     TurnShows, TurnEnds, CodexObserves, ChatOpens, ChatCloses, PulseDies
<1>10. CASE Outage
  <2>1. CASE RouteFails \/ ServerFaults
    BY <2>1 DEF RouteFails, ServerFaults, MailActs
  <2>2. ASSUME NEW j \in Jobs, EvidenceUnreadable(j) \/ LaunchFails(j)
        PROVE  MailActs
    BY <1>1, <2>2 DEF EvidenceUnreadable, LaunchFails
  <2> QED
    BY <1>10, <2>1, <2>2 DEF Outage
<1>11. ASSUME NEW j \in Jobs, StartRun(j) \/ SupervisorDies(j) \/ Kill(j)
       PROVE  MailActs
  BY <1>1, <1>11 DEF StartRun, Register, SupervisorDies, Kill
<1>12. CASE UNCHANGED wvars
  BY <1>1, <1>12 DEF wvars
<1> QED
  BY <1>2, <1>4, <1>5, <1>6, <1>7, <1>8, <1>9, <1>10, <1>11, <1>12 DEF WakesNext

\* A wake that failed stays so, and only a failed delivery adds one.
Unmoved(w) ==
    \/ /\ wakes'[w].state = wakes[w].state /\ wakes'[w].sprint = wakes[w].sprint
       /\ wakes'[w].recovery = wakes[w].recovery
    \/ wakes[w].state # "failed" /\ wakes'[w].state # "failed"

Failing(w) ==
    /\ lease.pc # "idle" /\ w = lease.wake
    /\ \E b \in BOOLEAN : FailDelivery(b)

StaysJoined(m) ==
    /\ Sent(m) /\ letters'[m].wake = letters[m].wake
    /\ letters[m].read => letters'[m].read
    /\ letters[m].delivered => letters'[m].delivered

\* No message joins a failed wake, and its messages leave it all together or
\* for its recovery.
Fates ==
    /\ \A w \in Wakes : Unmoved(w) \/ (Failing(w) /\ wakes[w].state # "failed")
    /\ \A m \in Letters : letters'[m].kind # "none" =>
          \/ StaysJoined(m)
          \/ wakes'[letters'[m].wake].state \in {"pending", "delivering"}
    /\ \A w \in Wakes : wakes[w].state = "failed" =>
          \/ \A m \in Joined(w) : letters'[m].wake = w
          \/ \A m \in Undelivered : letters'[m].wake # w
          \/ RecoverEngineWake(w)

\* A message is joined to the pending wake, or to a new one.
LEMMA JoinFates ==
    ASSUME MailInv, Pending # {} \/ \E w \in Wakes : wakes[w].state = "none",
           wakes'[Coalesced].state = "pending",
           \A w \in Wakes \ {Coalesced} : wakes'[w] = wakes[w],
           \A m \in Letters : letters'[m] = letters[m]
                              \/ letters'[m].wake = Coalesced,
           \A w \in Wakes : wakes[w].state = "failed" =>
             \/ \A m \in Joined(w) : letters'[m] = letters[m]
             \/ RecoverEngineWake(w)
    PROVE  Fates
<1>1. /\ Coalesced \in Wakes
      /\ Pending # {} => wakes[Coalesced].state = "pending"
      /\ Pending = {} => wakes[Coalesced].state = "none"
  BY CoalescedIs DEF MailInv, MailOK
<1>2. \A w \in Wakes : Unmoved(w)
  BY <1>1 DEF Unmoved
<1>3. \A m \in Letters : letters'[m].kind # "none" =>
          \/ StaysJoined(m)
          \/ wakes'[letters'[m].wake].state \in {"pending", "delivering"}
  BY DEF StaysJoined, Sent
<1>4. \A w \in Wakes : wakes[w].state = "failed" =>
          (\A m \in Joined(w) : letters'[m].wake = w) \/ RecoverEngineWake(w)
  BY DEF Joined
<1> QED
  BY <1>2, <1>3, <1>4 DEF Fates

LEMMA SendFates ==
    ASSUME MailInv, NEW kind, SendLetter(kind)
    PROVE  Fates
<1>1. Pending # {} \/ \E w \in Wakes : wakes[w].state = "none"
  BY DEF SendLetter, CanSend
<1>2. \A m \in Letters : letters'[m] = letters[m]
                         \/ (~Sent(m) /\ letters'[m].wake = Coalesced)
  BY SendIsNew
<1>3. \A w \in Wakes : \A m \in Joined(w) : letters'[m] = letters[m]
  BY <1>2 DEF Joined
<1> QED
  BY <1>1, <1>2, <1>3, SendIsNew, JoinFates

LEMMA RecoverFates ==
    ASSUME MailInv, NEW w \in Wakes, RecoverEngineWake(w)
    PROVE  Fates
<1> DEFINE row == NewWake(FALSE, TRUE, FALSE)
<1>1. /\ Pending # {} \/ \E u \in Wakes : wakes[u].state = "none"
      /\ wakes' = IF Pending # {} THEN wakes
                  ELSE [wakes EXCEPT ![Coalesced] = row]
      /\ letters' = [m \in Letters |->
           IF m \in Joined(w) \cap Undelivered /\ Engine(m) /\ ~letters[m].read
           THEN [letters[m] EXCEPT !.wake = Coalesced] ELSE letters[m]]
  BY DEF RecoverEngineWake
<1>2. row.state = "pending"
  BY NewWakeOK
<1> HIDE DEF row
<1>3. /\ Coalesced \in Wakes
      /\ Pending # {} => wakes[Coalesced].state = "pending"
  BY <1>1, CoalescedIs DEF MailInv, MailOK
<1>4. /\ wakes'[Coalesced].state = "pending"
      /\ \A v \in Wakes \ {Coalesced} : wakes'[v] = wakes[v]
  BY <1>1, <1>2, <1>3 DEF MailInv, MailOK, WakesOK
<1>5. \A m \in Letters :
        \/ letters'[m] = letters[m]
        \/ letters'[m].wake = Coalesced /\ m \in Joined(w)
  BY <1>1 DEF MailInv, MailOK, LettersOK, LetterRow
<1>6. \A v \in Wakes : \/ \A m \in Joined(v) : letters'[m] = letters[m]
                       \/ RecoverEngineWake(v)
  BY <1>5 DEF Joined
<1> QED
  BY <1>1, <1>4, <1>5, <1>6, JoinFates

\* What the scan of a claim makes of a wake.
LEMMA RequeuedIs ==
    ASSUME NEW w \in Wakes
    PROVE  \/ Requeued[w] = wakes[w]
           \/ wakes[w].state = "delivering"
              /\ Requeued[w] = [Released(w) EXCEPT !.due = TRUE]
  BY DEF Requeued, Expired

LEMMA RequeuedCalm ==
    ASSUME MailInv, NEW w \in Wakes
    PROVE  /\ WakeOK(Requeued[w])
           /\ wakes[w].state = "failed" => Requeued[w] = wakes[w]
           /\ wakes[w].state # "failed" => Requeued[w].state # "failed"
<1>1. WakeOK(wakes[w])
  BY DEF MailInv, MailOK, WakesOK
<1>2. wakes[w].state = "delivering" =>
        /\ WakeOK([Released(w) EXCEPT !.due = TRUE])
        /\ [Released(w) EXCEPT !.due = TRUE].state = "pending"
  BY <1>1 DEF WakeOK, WakeRow, Released
<1> QED
  BY <1>1, <1>2, RequeuedIs

LEMMA ClaimFates ==
    ASSUME MailInv, Claim
    PROVE  /\ Fates
           /\ wakes'[lease'.wake].sprint =>
                \E m \in Undelivered : ~Engine(m) /\ letters'[m].wake = lease'.wake
           /\ ~wakes'[lease'.wake].sprint =>
                ~notice.armed \/ \A m \in Undelivered : Engine(m)
           /\ \A m \in Undelivered : letters'[m].kind = letters[m].kind
                                     /\ ~letters'[m].delivered
           /\ \A m \in Letters : letters'[m].kind # "none" /\ ~letters'[m].delivered
                                   => m \in Undelivered
<1> DEFINE ws == Requeued
           ms == Undelivered
           w  == Least({u \in Claimables(Requeued) : ~Skips(Requeued, u)})
           on == notice.armed /\ \E m \in ms : ~Engine(m)
<1>1. ClaimOf(ws, w)
  BY DEF Claim
<1>2. w \in Wakes /\ ws[w].state \in {"pending", "delivering"}
  <2> DEFINE ready == {u \in Claimables(Requeued) : ~Skips(Requeued, u)}
  <2>1. ready # {} /\ ready \in SUBSET Nat
    BY WakeBounds DEF Claim, Claimables, Wakes
  <2>2. w \in ready
    BY <2>1, LeastIs
  <2> QED
    BY <2>2 DEF Claimables
<1>3. letters' = [m \in Letters |-> IF m \in ms
                                    THEN [letters[m] EXCEPT !.wake = w]
                                    ELSE letters[m]]
  BY Zenon, <1>1 DEF ClaimOf
<1>4. lease'.wake = w
  <2>1. lease' = [NoLease EXCEPT !.pc = "claimed", !.wake = w, !.letters = ms,
                                 !.todo = TurnsOf(ms)]
    BY Zenon, <1>1 DEF ClaimOf
  <2> QED
    BY <2>1 DEF NoLease
<1> DEFINE row == [ws[w] EXCEPT !.state = "delivering", !.lapsed = FALSE,
                                !.sprint = on]
<1>5. wakes' = [v \in Wakes |->
             IF v = w THEN row
             ELSE IF /\ ws[v].state = "pending"
                     /\ \A m \in Letters : Sent(m) => letters'[m].wake # v
                  THEN [ws[v] EXCEPT !.state = "cancelled", !.quiet = "none"]
                  ELSE IF v < w /\ v \in Claimables(ws) THEN PassedOver(ws, v)
                  ELSE ws[v]]
  BY Zenon, <1>1, <1>3 DEF ClaimOf
<1>6. row.state = "delivering" /\ row.sprint = on
  <2>1. ws[w] \in WakeRow
    BY <1>2, RequeuedCalm DEF WakeOK
  <2> HIDE DEF on, ws, w
  <2> QED
    BY <2>1 DEF WakeRow
<1>7. wakes'[w] = row
  BY Zenon, <1>2, <1>5
<1> HIDE DEF row, w, ws
<1>8. \A v \in Wakes : Unmoved(v)
  <2> SUFFICES ASSUME NEW v \in Wakes PROVE Unmoved(v)
    OBVIOUS
  <2>1. /\ WakeOK(ws[v])
        /\ wakes[v].state = "failed" => ws[v] = wakes[v]
        /\ wakes[v].state # "failed" => ws[v].state # "failed"
    BY RequeuedCalm DEF ws
  <2>2. CASE v = w
    BY <1>2, <1>6, <1>7, <2>1, <2>2 DEF Unmoved
  <2>3. CASE v # w /\ wakes[v].state = "failed"
    <3>1. v \notin Claimables(ws) /\ ws[v].state # "pending"
      BY <2>1, <2>3 DEF Claimables
    <3>2. wakes'[v] = ws[v]
      BY <1>5, <2>3, <3>1
    <3> QED
      BY <2>1, <2>3, <3>2 DEF Unmoved
  <2>4. CASE v # w /\ wakes[v].state # "failed"
    <3>1. \/ wakes'[v] = [ws[v] EXCEPT !.state = "cancelled", !.quiet = "none"]
          \/ wakes'[v] = PassedOver(ws, v)
          \/ wakes'[v] = ws[v]
      BY <1>5, <2>4
    <3>2. [ws[v] EXCEPT !.state = "cancelled", !.quiet = "none"].state = "cancelled"
      BY Zenon, <2>1, EndedOK
    <3>3. PassedOver(ws, v).state = ws[v].state
      BY <2>1, PassedOverOK
    <3> QED
      BY <2>1, <2>4, <3>1, <3>2, <3>3 DEF Unmoved
  <2> QED
    BY <2>2, <2>3, <2>4
<1>9. /\ \A m \in ms : /\ letters'[m].wake = w
                       /\ letters'[m].kind = letters[m].kind
                       /\ ~letters'[m].delivered
      /\ \A m \in Letters \ ms : letters'[m] = letters[m]
  BY <1>3 DEF MailInv, MailOK, LettersOK, LetterRow, Undelivered
<1>10. \A m \in Letters : letters'[m].kind # "none" =>
          \/ StaysJoined(m)
          \/ wakes'[letters'[m].wake].state \in {"pending", "delivering"}
  BY <1>6, <1>7, <1>9 DEF StaysJoined, Sent
<1>11. \A v \in Wakes : wakes[v].state = "failed" =>
          \A m \in ms : letters'[m].wake # v
  <2>1. wakes[w].state # "failed"
    <3>1. wakes[w].state = "failed" => ws[w] = wakes[w]
      BY <1>2, RequeuedCalm DEF ws
    <3> QED
      BY <1>2, <3>1
  <2> QED
    BY <1>9, <2>1
<1>12. \A m \in Letters : letters'[m].kind # "none" /\ ~letters'[m].delivered
                          => m \in ms
  BY <1>9 DEF Undelivered, Sent
<1> QED
  BY <1>4, <1>6, <1>7, <1>8, <1>9, <1>10, <1>11, <1>12 DEF Fates

LEMMA ClaimNoneFates ==
    ASSUME MailInv, ClaimNone
    PROVE  Fates
<1> DEFINE ws == Requeued
<1>1. wakes' = [w \in Wakes |-> IF w \in Claimables(ws)
                                THEN PassedOver(ws, w) ELSE ws[w]]
      /\ UNCHANGED letters
  BY DEF ClaimNone
<1>2. ASSUME NEW v \in Wakes PROVE Unmoved(v)
  <2>1. /\ WakeOK(ws[v])
        /\ wakes[v].state = "failed" => ws[v] = wakes[v]
        /\ wakes[v].state # "failed" => ws[v].state # "failed"
    BY RequeuedCalm
  <2>2. PassedOver(ws, v).state = ws[v].state
    BY <2>1, PassedOverOK
  <2>3. v \in Claimables(ws) => wakes[v].state # "failed"
    BY <2>1 DEF Claimables
  <2> HIDE DEF ws
  <2> QED
    BY <1>1, <2>1, <2>2, <2>3 DEF Unmoved
<1> QED
  BY <1>1, <1>2 DEF Fates, StaysJoined, Sent, Joined

\* Messages stay where they are.
LEMMA StayFates ==
    ASSUME \A w \in Wakes : Unmoved(w) \/ (Failing(w) /\ wakes[w].state # "failed"),
           \A m \in Letters : /\ letters'[m].kind = letters[m].kind
                              /\ letters'[m].wake = letters[m].wake
                              /\ letters[m].read => letters'[m].read
                              /\ letters[m].delivered => letters'[m].delivered
    PROVE  Fates
  BY DEF Fates, StaysJoined, Sent, Joined

\* The claimed wake, put back, takes the pending wake in.
LEMMA AbsorbFates ==
    ASSUME MailInv, lease.pc # "idle", NEW row, row.state = "pending",
           letters' = Absorbed(lease.wake),
           wakes' = Absorbing(lease.wake, row)
    PROVE  Fates
<1> DEFINE w == lease.wake
<1>1. w \in Wakes /\ wakes[w].state = "delivering"
  BY DEF MailInv, MailOK, HeldOK
<1>2. wakes'[w] = row
  BY <1>1 DEF Absorbing
<1>3. ASSUME NEW v \in Wakes PROVE Unmoved(v)
  <2>1. CASE v = w
    BY <1>1, <1>2, <2>1 DEF Unmoved
  <2>2. CASE v # w /\ v \in Pending
    <3>1. wakes'[v] = [wakes[v] EXCEPT !.state = "cancelled", !.quiet = "none"]
      BY <2>2 DEF Absorbing
    <3>2. [wakes[v] EXCEPT !.state = "cancelled", !.quiet = "none"].state
            = "cancelled"
      BY Zenon, EndedOK DEF MailInv, MailOK, WakesOK
    <3> QED
      BY <2>2, <3>1, <3>2 DEF Unmoved, Pending
  <2>3. CASE v # w /\ v \notin Pending
    BY <2>3 DEF Absorbing, Unmoved
  <2> QED
    BY <2>1, <2>2, <2>3
<1>4. \A m \in Letters :
        \/ letters'[m] = letters[m] /\ ~(Sent(m) /\ letters[m].wake \in Pending)
        \/ letters'[m].wake = w /\ letters[m].wake \in Pending
  BY DEF Absorbed, MailInv, MailOK, LettersOK, LetterRow
<1> HIDE DEF w
<1>5. \A m \in Letters : letters'[m].kind # "none" =>
          \/ StaysJoined(m)
          \/ wakes'[letters'[m].wake].state \in {"pending", "delivering"}
  BY <1>2, <1>4 DEF StaysJoined, Sent
<1>6. \A v \in Wakes : wakes[v].state = "failed" =>
          \A m \in Joined(v) : letters'[m].wake = v
  BY <1>4 DEF Joined, Pending
<1> QED
  BY <1>3, <1>5, <1>6 DEF Fates

LEMMA DeferFates ==
    ASSUME MailInv, lease.pc # "idle", DeferForceNew
    PROVE  Fates
<1> DEFINE w   == lease.wake
           row == [Released(w) EXCEPT !.quiet = "none"]
<1>1. row.state = "pending"
  <2>1. w \in Wakes /\ WakeOK(wakes[w])
    BY DEF MailInv, MailOK, HeldOK, WakesOK
  <2> QED
    BY Zenon, <2>1, ReleasedOK, BackOK
<1>2. letters' = Absorbed(w) /\ wakes' = Absorbing(w, row)
  BY DEF DeferForceNew, Absorbed, Absorbing
<1> HIDE DEF row
<1> QED
  BY <1>1, <1>2, AbsorbFates

LEMMA DeliveredFates ==
    ASSUME MailInv, RecordDelivered
    PROVE  Fates
<1> DEFINE w   == lease.wake
           row == [wakes[w] EXCEPT !.state = "delivered",
                     !.tries = wakes[w].tries + 1, !.lapsed = FALSE,
                     !.quiet = "none"]
<1>1. w \in Wakes /\ wakes[w].state = "delivering" /\ wakes[w] \in WakeRow
  BY DEF MailInv, MailOK, HeldOK, WakesOK, RecordDelivered
<1>2. row.state = "delivered" /\ wakes' = [wakes EXCEPT ![w] = row]
  BY <1>1 DEF RecordDelivered, WakeRow
<1> HIDE DEF row
<1>3. \A v \in Wakes : Unmoved(v)
  BY <1>1, <1>2 DEF Unmoved, MailInv, MailOK, WakesOK
<1>4. \A m \in Letters : /\ letters'[m].kind = letters[m].kind
                         /\ letters'[m].wake = letters[m].wake
                         /\ letters'[m].read = letters[m].read
                         /\ letters[m].delivered => letters'[m].delivered
  BY DEF RecordDelivered, MailInv, MailOK, LettersOK, LetterRow
<1> QED
  BY <1>3, <1>4, StayFates

LEMMA FailFates ==
    ASSUME MailInv, lease.pc # "idle", NEW permanent \in BOOLEAN,
           FailDelivery(permanent)
    PROVE  Fates
<1> DEFINE w == lease.wake
<1>1. w \in Wakes /\ wakes[w].state = "delivering" /\ WakeOK(wakes[w])
  BY DEF MailInv, MailOK, HeldOK, WakesOK
<1>2. Failing(w)
  BY DEF Failing
<1>3. CASE RecordTransportFailure(permanent) /\ ~permanent
  <2> DEFINE row == [Released(w) EXCEPT !.due = FALSE, !.quiet = "none"]
  <2>1. row.state = "pending"
    BY <1>1, ReleasedOK, BackOK
  <2>2. wakes' = Absorbing(w, row) /\ letters' = Absorbed(w)
    BY <1>3 DEF RecordTransportFailure, Absorbing, Absorbed
  <2> HIDE DEF row
  <2> QED
    BY <2>1, <2>2, AbsorbFates
<1>4. CASE ~(RecordTransportFailure(permanent) /\ ~permanent)
  <2>1. UNCHANGED letters /\ \A v \in Wakes \ {w} : wakes'[v] = wakes[v]
    <3>1. CASE RecordTransportFailure(permanent) /\ permanent
      BY <1>1, <3>1 DEF RecordTransportFailure, MailInv, MailOK, WakesOK
    <3>2. CASE RecordWakeFailure /\ UNCHANGED <<letters, jobs>>
      BY <1>1, <3>2 DEF RecordWakeFailure, MailInv, MailOK, WakesOK
    <3> QED
      BY <1>4, <3>1, <3>2 DEF FailDelivery
  <2>2. \A v \in Wakes : Unmoved(v) \/ (Failing(v) /\ wakes[v].state # "failed")
    BY <1>1, <1>2, <2>1 DEF Unmoved
  <2> QED
    BY <2>1, <2>2, StayFates
<1> QED
  BY <1>3, <1>4

LEMMA TickFates ==
    ASSUME MailInv, NEW w \in Wakes, Tick(w)
    PROVE  /\ Fates /\ UNCHANGED letters
           /\ \A v \in Wakes : /\ wakes'[v].state = wakes[v].state
                               /\ wakes'[v].sprint = wakes[v].sprint
<1> DEFINE r == wakes[w]
<1>1. WakeOK(r)
  BY DEF MailInv, MailOK, WakesOK
<1>2. PICK row :
        /\ wakes' = [wakes EXCEPT ![w] = row]
        /\ \/ row = [r EXCEPT !.lapsed = TRUE]
           \/ row = [r EXCEPT !.due = TRUE]
           \/ row = [r EXCEPT !.quiet = "long"]
           \/ row = [r EXCEPT !.aged = TRUE]
  BY DEF Tick, LeaseLapses, BackoffEnds, QuietPasses, HoldEnds
<1>3. UNCHANGED letters
  BY DEF Tick, LeaseLapses, BackoffEnds, QuietPasses, HoldEnds
<1>4. row.state = r.state /\ row.sprint = r.sprint /\ row.recovery = r.recovery
  BY <1>1, <1>2 DEF WakeOK, WakeRow
<1>5. \A v \in Wakes : /\ wakes'[v].state = wakes[v].state
                       /\ wakes'[v].sprint = wakes[v].sprint
                       /\ wakes'[v].recovery = wakes[v].recovery
  BY <1>2, <1>4 DEF MailInv, MailOK, WakesOK
<1> QED
  BY <1>3, <1>5, StayFates DEF Unmoved

LEMMA ReadFates ==
    ASSUME MailInv, NEW m \in Letters, ReadLetter(m)
    PROVE  /\ Fates
           /\ \A v \in Wakes : wakes[v].state = "delivering"
                                 => wakes'[v] = wakes[v]
           /\ \A n \in Letters : /\ letters'[n].kind = letters[n].kind
                                 /\ letters'[n].wake = letters[n].wake
                                 /\ letters'[n].delivered = letters[n].delivered
<1> DEFINE w   == letters[m].wake
           row == [wakes[w] EXCEPT !.state = "cancelled", !.quiet = "none"]
<1>1. w \in Wakes
  BY DEF ReadLetter, Unread, Sent, MailInv, MailOK, LettersOK
<1>2. row.state = "cancelled"
  BY Zenon, <1>1, EndedOK DEF MailInv, MailOK, WakesOK
<1>3. \/ wakes' = wakes
      \/ wakes[w].state = "pending" /\ wakes' = [wakes EXCEPT ![w] = row]
  BY DEF ReadLetter
<1>4. letters' = [letters EXCEPT ![m].read = TRUE]
  BY DEF ReadLetter
<1>5. \A n \in Letters : /\ letters'[n].kind = letters[n].kind
                         /\ letters'[n].wake = letters[n].wake
                         /\ letters'[n].delivered = letters[n].delivered
                         /\ letters[n].read => letters'[n].read
  BY <1>4 DEF MailInv, MailOK, LettersOK, LetterRow
<1> HIDE DEF row, w
<1>6. /\ \A v \in Wakes : Unmoved(v)
      /\ \A v \in Wakes : wakes[v].state = "delivering" => wakes'[v] = wakes[v]
  BY <1>1, <1>2, <1>3 DEF Unmoved, MailInv, MailOK, WakesOK
<1> QED
  BY <1>5, <1>6, StayFates

LEMMA FatesStep ==
    ASSUME MailInv, MailActs
    PROVE  Fates
<1>1. CASE UNCHANGED <<letters, wakes>>
  BY <1>1, StayFates DEF Unmoved
<1> QED
  BY <1>1, SendFates, ClaimFates, ClaimNoneFates, DeliveredFates, DeferFates,
     FailFates, RecoverFates, TickFates, ReadFates DEF MailActs

\* While a wake is held, its messages wait with it.
HeldKeeps ==
    /\ wakes'[lease.wake].sprint = wakes[lease.wake].sprint
    /\ \A m \in Joined(lease.wake) :
          /\ letters'[m].kind = letters[m].kind
          /\ letters'[m].wake = letters[m].wake
          /\ letters'[m].delivered = letters[m].delivered
    /\ \A m \in Letters : letters'[m].kind # "none" /\ letters'[m].wake = lease.wake
                           => m \in Joined(lease.wake)

LEMMA HeldStep ==
    ASSUME MailInv, MailActs, lease.pc # "idle", lease'.pc # "idle"
    PROVE  HeldKeeps
<1>1. lease.wake \in Wakes /\ wakes[lease.wake].state = "delivering"
  BY DEF MailInv, MailOK, HeldOK
<1>2. CASE UNCHANGED <<letters, wakes>>
  BY <1>2 DEF HeldKeeps, Joined, Sent
<1>3. ASSUME NEW kind \in Kinds, SendLetter(kind)
      PROVE  HeldKeeps
  <2>1. Pending # {} \/ \E w \in Wakes : wakes[w].state = "none"
    BY <1>3 DEF SendLetter, CanSend
  <2>2. Coalesced # lease.wake
    BY <1>1, <2>1, CoalescedIs DEF MailInv, MailOK
  <2>3. \A w \in Wakes \ {Coalesced} : wakes'[w] = wakes[w]
    BY <1>3, SendIsNew
  <2>4. \A m \in Letters : \/ letters'[m] = letters[m]
                           \/ ~Sent(m) /\ letters'[m].wake = Coalesced
    BY <1>3, SendIsNew
  <2> QED
    BY <1>1, <2>2, <2>3, <2>4 DEF HeldKeeps, Joined, Sent
<1>4. ~Claim /\ ~ClaimNone /\ \A w \in Wakes : ~RecoverEngineWake(w)
  BY DEF Claim, ClaimNone, RecoverEngineWake
<1>5. ~RecordDelivered /\ ~DeferForceNew /\ \A b \in BOOLEAN : ~FailDelivery(b)
  BY Zenon, NoLeaseOK DEF RecordDelivered, DeferForceNew, FailDelivery
<1>6. ASSUME NEW w \in Wakes, Tick(w)
      PROVE  HeldKeeps
  BY <1>1, <1>6, TickFates DEF HeldKeeps, Joined, Sent
<1>7. ASSUME NEW m \in Letters, ReadLetter(m)
      PROVE  HeldKeeps
  BY <1>1, <1>7, ReadFates DEF HeldKeeps, Joined, Sent
<1> QED
  BY <1>2, <1>3, <1>4, <1>5, <1>6, <1>7 DEF MailActs

\* A claim is taken, kept with its wake, or dropped.
LEMMA LeasesOn ==
    ASSUME lease \in LeaseRow, Alone, [WakesNext]_wvars, lease'.pc # "idle"
    PROVE  Claim \/ (lease.pc # "idle" /\ lease'.wake = lease.wake)
<1>1. lease' # NoLease
  BY NoLeaseOK
<1>2. CASE DeliverStep
  <2>1. CASE ClaimNone
    BY <2>1 DEF ClaimNone
  <2>2. CASE Resolve \/ Rotate \/ Create \/ EnqueueTurn \/ RecordEnqueue
    <3>1. PICK p, c, s, t : lease' \in {[lease EXCEPT !.pc = p],
                                       [lease EXCEPT !.pc = p, !.chat = c],
                                       [lease EXCEPT !.pc = p, !.seen = s],
                                       [lease EXCEPT !.todo = t, !.pc = p]}
      BY Zenon, <1>1, <2>2 DEF Resolve, Rotate, Create, EnqueueTurn,
         RecordEnqueue, Target, DeferForceNew
    <3>2. lease'.wake = lease.wake
      BY <3>1 DEF LeaseRow
    <3>3. lease.pc # "idle"
      BY <2>2 DEF Resolve, Rotate, Create, EnqueueTurn, RecordEnqueue
    <3> QED
      BY <3>2, <3>3
  <2>3. CASE RecordDelivered \/ CreateFails \/ EnqueueFails
    BY <1>1, <2>3 DEF RecordDelivered, CreateFails, EnqueueFails, FailDelivery
  <2> QED
    BY <1>2, <2>1, <2>2, <2>3 DEF DeliverStep, Deliver
<1> QED
  BY <1>1, <1>2, LeaseElse

Tells(j, w) == jobs[j].letter \in Joined(w)

Stranded(m) ==
    /\ Unread(m) /\ ~letters[m].delivered
    /\ wakes[letters[m].wake].state = "failed"

\* What the failure has left for one message: the sprint is paused, the run
\* behind an outcome is blocked or followed, and a recovery is not tried again.
Seen(m) ==
    LET w == letters[m].wake IN
    /\ wakes[w].sprint \/ ~Engine(m) => ~notice.armed
    /\ Engine(m) /\ ~wakes[w].sprint =>
          /\ \A j \in Jobs : jobs[j].letter = m =>
                jobs[j].wake = "blocked" \/ receipts[m].turn # 0
          /\ \/ ~wakes[w].recovery \/ notice.flagged
             \/ \E j \in Jobs : Tells(j, w)

\* A held wake of the sprint carries a message of the sprint, no other does
\* while the sprint goes on, and a run that has told its outcome is over.
FailInv ==
    /\ \A m \in Letters : Stranded(m) => Seen(m)
    /\ lease.pc # "idle" /\ wakes[lease.wake].sprint =>
          \E m \in Joined(lease.wake) \cap Undelivered : ~Engine(m)
    /\ lease.pc # "idle" /\ ~wakes[lease.wake].sprint /\ notice.armed =>
          \A m \in Joined(lease.wake) \cap Undelivered : Engine(m)
    /\ \A j \in Jobs : jobs[j].letter # 0 =>
          /\ jobs[j].letter \in Letters /\ Sent(jobs[j].letter)
          /\ Over(jobs[j])

\* The delivery that strands a message makes its failure seen.
LEMMA StrandedIsSeen ==
    ASSUME WakesInv, FailInv, lease.pc # "idle", NEW b \in BOOLEAN,
           FailDelivery(b), NEW m \in Letters, Stranded(m)',
           letters'[m].wake = lease.wake
    PROVE  Seen(m)'
<1>1. PICK w \in Wakes :
        /\ w = lease.wake /\ wakes[w].state = "delivering" /\ WakeOK(wakes[w])
  BY DEF WakesInv, Core, MailInv, MailOK, HeldOK, WakesOK
<1>2. wakes'[w].state = "failed"
  BY <1>1 DEF Stranded
<1>3. /\ wakes \in [Wakes -> WakeRow] /\ receipts' = receipts
      /\ jobs \in [Jobs -> JobRow]
  BY DEF WakesInv, Core, MailInv, MailOK, WakesOK, JobsOK, FailDelivery
<1>4. CASE ~wakes[w].sprint /\ CarriesOutcome /\ b
  <2>1. UNCHANGED <<letters, notice>>
        /\ jobs' = [j \in Jobs |-> IF jobs[j].letter \in Joined(w)
                                   THEN [jobs[j] EXCEPT !.wake = "blocked"]
                                   ELSE jobs[j]]
        /\ wakes' = [wakes EXCEPT ![w] = [wakes[w] EXCEPT !.state = "failed",
                                            !.lapsed = FALSE, !.quiet = "none"]]
    BY <1>1, <1>4 DEF FailDelivery, RecordTransportFailure
  <2>2. wakes'[w].sprint = wakes[w].sprint
    BY <1>3, <2>1 DEF WakeRow
  <2>3. /\ m \in Joined(w) \cap Undelivered /\ letters'[m].wake = w
        /\ Engine(m)' = Engine(m)
    BY <1>1, <2>1 DEF Stranded, Unread, Sent, Engine, Joined, Undelivered
  <2>4. \A j \in Jobs : jobs[j].letter \in Joined(w) =>
          jobs'[j].wake = "blocked" /\ jobs'[j].letter = jobs[j].letter
    BY <1>3, <2>1 DEF JobRow
  <2>5. \A j \in Jobs : jobs'[j].letter = jobs[j].letter
    BY <1>3, <2>1 DEF JobRow
  <2>6. ~Engine(m) => ~notice.armed
    BY <1>1, <1>4, <2>3 DEF FailInv
  <2>7. \A j \in Jobs : jobs'[j].letter = m => jobs'[j].wake = "blocked"
    BY <2>3, <2>4, <2>5
  <2>8. \E j \in Jobs : Tells(j, w)'
    <3>1. PICK j \in Jobs : jobs[j].letter \in Joined(w)
      BY <1>1, <1>4 DEF CarriesOutcome
    <3>2. jobs'[j].letter \in Joined(w)'
      BY <2>1, <2>5, <3>1 DEF Joined, Sent
    <3> QED
      BY <3>2 DEF Tells
  <2> QED
    BY <1>4, <2>1, <2>2, <2>3, <2>6, <2>7, <2>8 DEF Seen
<1>5. CASE ~wakes[w].sprint /\ CarriesOutcome /\ ~b
  <2> DEFINE row == [Released(w) EXCEPT !.due = FALSE, !.quiet = "none"]
  <2>1. row.state = "pending"
    BY <1>1, ReleasedOK, BackOK
  <2>2. wakes' = Absorbing(w, row)
    BY <1>1, <1>5 DEF FailDelivery, RecordTransportFailure, Absorbing
  <2> HIDE DEF row
  <2> QED
    BY <1>1, <1>2, <2>1, <2>2 DEF Absorbing
<1>6. CASE ~(~wakes[w].sprint /\ CarriesOutcome)
  <2>1. RecordWakeFailure /\ UNCHANGED <<letters, jobs>>
    BY <1>1, <1>6 DEF FailDelivery
  <2>2. wakes[w].tries = 2
    <3> SUFFICES ASSUME wakes[w].tries # 2 PROVE FALSE
      OBVIOUS
    <3> DEFINE r   == Released(w)
               row == [r EXCEPT !.tries = r.tries + 1, !.due = FALSE]
    <3>1. r.tries + 1 <= 2 /\ r \in WakeRow /\ r.state = "pending"
      BY <1>1, ReleasedOK DEF WakeOK, WakeRow
    <3>2. row.state = "pending"
      BY <3>1, RetriedOK
    <3>3. wakes' = wakes \/ wakes' = [wakes EXCEPT ![w] = row]
      BY <1>1, <2>1 DEF RecordWakeFailure
    <3> HIDE DEF row
    <3> QED
      BY <1>1, <1>2, <1>3, <3>2, <3>3
  <2> DEFINE sent == \E n \in Joined(w) \cap Undelivered : ~Engine(n)
             f == notice.flagged \/ (wakes[w].recovery /\ ~wakes[w].sprint)
             a == notice.armed /\ ~sent
             row == [wakes[w] EXCEPT !.state = "failed", !.tries = 3,
                       !.lapsed = FALSE, !.quiet = "none"]
  <2>3. notice' = [notice EXCEPT !.flagged = f, !.armed = a]
        /\ wakes' = [wakes EXCEPT ![w] = row]
    BY <1>1, <2>1, <2>2 DEF RecordWakeFailure
  <2>4. row.sprint = wakes[w].sprint /\ row.recovery = wakes[w].recovery
    BY <1>1 DEF WakeOK, WakeRow
  <2>5. (sent => ~a) /\ (wakes[w].recovery /\ ~wakes[w].sprint => f)
    OBVIOUS
  <2>6. /\ Unread(m) /\ ~letters[m].delivered /\ letters[m].wake = w
        /\ Engine(m)' = Engine(m)
    BY <1>1, <2>1 DEF Stranded, Unread, Sent, Engine
  <2>7. ~Engine(m) => sent
    BY <2>6 DEF Joined, Undelivered, Unread
  <2>8. wakes[w].sprint => sent
    BY <1>1 DEF FailInv
  <2>9. ~wakes[w].sprint => \A j \in Jobs : ~Tells(j, w)
    BY <1>1, <1>6 DEF CarriesOutcome, Tells, Joined, Letters
  <2> HIDE DEF a, f, sent, row
  <2>10. notice'.flagged = f /\ notice'.armed = a
    BY <2>3 DEF WakesInv, NoticeOK, NoticeRow
  <2>11. /\ wakes'[w].sprint = wakes[w].sprint
         /\ wakes'[w].recovery = wakes[w].recovery
    BY <1>1, <1>3, <2>3, <2>4
  <2>12. wakes[w].sprint \/ ~Engine(m) => ~notice'.armed
    BY <2>5, <2>7, <2>8, <2>10
  <2>13. ~wakes[w].sprint => \A j \in Jobs : jobs'[j].letter # m
    BY <2>1, <2>6, <2>9 DEF Tells, Joined, Unread
  <2>14. ~wakes[w].sprint /\ wakes[w].recovery => notice'.flagged
    BY <2>5, <2>10
  <2> QED
    BY <1>1, <2>6, <2>11, <2>12, <2>13, <2>14 DEF Seen
<1> QED
  BY <1>4, <1>5, <1>6

\* A run that told its outcome goes on telling it.
LEMMA TellingStays ==
    ASSUME WakesInv, FailInv, JobsMove, LettersKeep, NEW j \in Jobs,
           jobs[j].letter # 0
    PROVE  /\ jobs'[j].letter = jobs[j].letter /\ Over(jobs'[j])
           /\ letters'[jobs[j].letter].kind # "none"
           /\ jobs[j].wake = "blocked" =>
                jobs'[j].wake = "blocked" \/ Tracked(jobs[j].letter)
<1>1. Over(jobs[j]) /\ jobs[j].letter \in Letters /\ Sent(jobs[j].letter)
  BY DEF FailInv
<1>2. JobMoves(jobs[j], jobs'[j], j)
  BY DEF JobsMove
<1> QED
  BY <1>1, <1>2 DEF JobMoves, LettersKeep, Sent

LEMMA ToldOf ==
    ASSUME WakesInv, FailInv, JobsMove, LettersKeep
    PROVE  \A j \in Jobs : jobs'[j].letter # 0 =>
              /\ jobs'[j].letter \in Letters
              /\ letters'[jobs'[j].letter].kind # "none" /\ Over(jobs'[j])
<1> SUFFICES ASSUME NEW j \in Jobs, jobs'[j].letter # 0
             PROVE  /\ jobs'[j].letter \in Letters
                    /\ letters'[jobs'[j].letter].kind # "none"
                    /\ Over(jobs'[j])
  OBVIOUS
<1>1. CASE jobs[j].letter # 0
  BY <1>1, TellingStays DEF FailInv
<1>2. CASE jobs[j].letter = 0
  BY <1>2 DEF JobsMove, JobMoves
<1> QED
  BY <1>1, <1>2

\* What was seen of a failed wake before stays seen.
LEMMA SeenStays ==
    ASSUME WakesInv, FailInv, JobsMove, LettersKeep, NoticeKeeps, CountsMove,
           Fates, NEW m \in Letters, Stranded(m), Stranded(m)',
           StaysJoined(m), Unmoved(letters[m].wake)
    PROVE  Seen(m)'
<1>1. PICK w \in Wakes : w = letters[m].wake
  BY DEF Stranded, Unread, Sent, WakesInv, Core, MailInv, MailOK, LettersOK
<1>2. /\ letters'[m].wake = w /\ letters'[m].kind = letters[m].kind
      /\ Sent(m) /\ ~letters[m].delivered /\ ~letters'[m].delivered
      /\ wakes[w].state = "failed"
      /\ wakes'[w].state = "failed" /\ wakes'[w].sprint = wakes[w].sprint
      /\ wakes'[w].recovery = wakes[w].recovery
  BY <1>1 DEF StaysJoined, LettersKeep, Stranded, Unread, Unmoved
<1>3. Engine(m)' = Engine(m) /\ Seen(m)
  BY <1>2 DEF Engine, FailInv
<1>4. wakes[w].sprint \/ ~Engine(m) => ~notice'.armed
  BY <1>1, <1>3 DEF NoticeKeeps, Seen
<1>5. ASSUME Engine(m), ~wakes[w].sprint, NEW j \in Jobs, jobs'[j].letter = m
      PROVE  jobs'[j].wake = "blocked" \/ receipts'[m].turn # 0
  <2>1. CASE jobs[j].letter = 0
    <3>1. wakes'[letters'[m].wake].state = "pending"
      BY <1>5, <2>1, WakeBounds DEF JobsMove, JobMoves, Letters
    <3> QED
      BY <1>2, <3>1
  <2>2. CASE jobs[j].letter # 0
    <3>1. jobs[j].letter = m
      BY <1>5, <2>2, TellingStays
    <3>2. jobs[j].wake = "blocked" \/ receipts[m].turn # 0
      BY <1>1, <1>3, <1>5, <3>1 DEF Seen
    <3> QED
      BY <2>2, <3>1, <3>2, TellingStays DEF Tracked, CountsMove
  <2> QED
    BY <2>1, <2>2
<1>6. ASSUME NEW j \in Jobs, Tells(j, w)
      PROVE  Tells(j, w)'
  <2>1. jobs[j].letter \in Joined(w) /\ jobs[j].letter # 0
    BY <1>6, WakeBounds DEF Tells, Joined, Letters
  <2>2. ~RecoverEngineWake(w)
    BY <2>1 DEF RecoverEngineWake, Recoverable
  <2>3. \A n \in Joined(w) : letters'[n].wake = w
    <3>1. m \in Undelivered
      BY <1>2 DEF Undelivered
    <3> QED
      BY <1>2, <2>2, <3>1 DEF Fates
  <2> QED
    BY <2>1, <2>3, TellingStays DEF Tells, Joined, Sent
<1>7. Engine(m) /\ ~wakes[w].sprint =>
        \/ ~wakes[w].recovery \/ notice'.flagged
        \/ \E j \in Jobs : Tells(j, w)'
  BY <1>1, <1>3, <1>6 DEF Seen, NoticeKeeps
<1> QED
  BY <1>2, <1>3, <1>4, <1>5, <1>7 DEF Seen

LEMMA FailStep ==
    ASSUME WakesInv, FailInv, [WakesNext]_wvars
    PROVE  FailInv'
<1>1. /\ MailInv /\ Alone /\ lease \in LeaseRow /\ supply \in WorkloadRow
      /\ NoticeOK /\ MailInv'
  BY WakesStep DEF WakesInv, Core, MailInv, MailOK
<1>2. JobsMove /\ LettersKeep /\ NoticeKeeps /\ CountsMove /\ MailActs /\ Fates
  <2>1. MailActs
    BY <1>1, ActsStep
  <2>2. pulse \in PulseRow /\ Core /\ Followed
    BY DEF WakesInv, Followed, PulseOK
  <2> QED
    BY <1>1, <2>1, <2>2, WakesStep, LettersStep, NoticeStep, CountsStep, FatesStep
<1>3. ASSUME NEW m \in Letters, Stranded(m)'
      PROVE  Seen(m)'
  <2>1. /\ letters'[m].kind # "none" /\ ~letters'[m].read
        /\ ~letters'[m].delivered
        /\ wakes'[letters'[m].wake].state = "failed"
    BY <1>3 DEF Stranded, Unread, Sent
  <2>2. StaysJoined(m)
    BY <1>2, <2>1 DEF Fates
  <2>3. /\ letters'[m].wake = letters[m].wake /\ letters[m].wake \in Wakes
        /\ Sent(m) /\ ~letters[m].read /\ ~letters[m].delivered
    BY <1>1, <2>1, <2>2 DEF StaysJoined, Sent, MailInv, MailOK, LettersOK
  <2>4. CASE Unmoved(letters[m].wake)
    <3>1. Stranded(m)
      BY <2>1, <2>3, <2>4 DEF Unmoved, Stranded, Unread
    <3> QED
      BY <1>2, <1>3, <2>2, <2>4, <3>1, SeenStays
  <2>5. CASE ~Unmoved(letters[m].wake)
    <3>1. Failing(letters[m].wake)
      BY <1>2, <2>3, <2>5 DEF Fates
    <3>2. PICK b \in BOOLEAN : FailDelivery(b)
      BY <3>1 DEF Failing
    <3> QED
      BY <1>3, <2>3, <3>1, <3>2, StrandedIsSeen DEF Failing
  <2> QED
    BY <2>4, <2>5
<1>4. ASSUME lease'.pc # "idle", wakes'[lease'.wake].sprint
      PROVE  \E m \in Letters : /\ letters'[m].kind # "none"
                                /\ letters'[m].wake = lease'.wake
                                /\ ~letters'[m].delivered
                                /\ letters'[m].kind \notin EngineKinds
  <2>1. CASE Claim
    BY <1>1, <1>4, <2>1, ClaimFates DEF Undelivered, Sent, Engine
  <2>2. CASE lease.pc # "idle" /\ lease'.wake = lease.wake
    <3>1. HeldKeeps
      BY <1>1, <1>2, <1>4, <2>2, HeldStep
    <3>2. PICK m \in Joined(lease.wake) \cap Undelivered : ~Engine(m)
      BY <1>4, <2>2, <3>1 DEF FailInv, HeldKeeps
    <3> QED
      BY <2>2, <3>1, <3>2 DEF HeldKeeps, Joined, Undelivered, Sent, Engine
  <2> QED
    BY <1>1, <1>4, <2>1, <2>2, LeasesOn
<1>5. lease'.pc # "idle" /\ wakes'[lease'.wake].sprint =>
        (\E m \in Joined(lease.wake) \cap Undelivered : ~Engine(m))'
  BY <1>4 DEF Joined, Undelivered, Sent, Engine
<1>6. ASSUME lease'.pc # "idle", ~wakes'[lease'.wake].sprint, notice'.armed,
             NEW m \in Letters, letters'[m].kind # "none",
             letters'[m].wake = lease'.wake, ~letters'[m].delivered
      PROVE  letters'[m].kind \in EngineKinds
  <2>1. notice.armed
    BY <1>2, <1>6 DEF NoticeKeeps
  <2>2. CASE Claim
    BY <1>1, <1>6, <2>1, <2>2, ClaimFates DEF Engine
  <2>3. CASE lease.pc # "idle" /\ lease'.wake = lease.wake
    <3>1. HeldKeeps
      BY <1>1, <1>2, <1>6, <2>3, HeldStep
    <3>2. m \in Joined(lease.wake) \cap Undelivered
      BY <1>6, <2>3, <3>1 DEF HeldKeeps, Joined, Undelivered
    <3>3. Engine(m)
      BY <1>6, <2>1, <2>3, <3>1, <3>2 DEF FailInv, HeldKeeps
    <3> QED
      BY <3>1, <3>2, <3>3 DEF HeldKeeps, Engine
  <2> QED
    BY <1>1, <1>6, <2>2, <2>3, LeasesOn
<1>7. lease'.pc # "idle" /\ ~wakes'[lease'.wake].sprint /\ notice'.armed =>
        (\A m \in Joined(lease.wake) \cap Undelivered : Engine(m))'
  BY <1>6 DEF Joined, Undelivered, Sent, Engine
<1>8. \A j \in Jobs : jobs'[j].letter # 0 =>
        jobs'[j].letter \in Letters /\ Sent(jobs[j].letter)' /\ Over(jobs'[j])
  BY <1>2, ToldOf DEF Sent
<1> QED
  BY <1>3, <1>5, <1>7, <1>8 DEF FailInv

\* An unread message left behind on a failed wake is, by itself, recovered,
\* flagged, blocked, followed or waiting for a paused sprint in every reachable
\* state, whatever was claimed, deferred, retried, recovered or read in
\* between, but for a note that shares the wake with a run's outcome.
THEOREM FailureHolds == RuntimeSpec => []FailureIsSeen
<1>1. RuntimeInit => FailInv
  <2> SUFFICES ASSUME WakesInit PROVE FailInv
    BY DEF RuntimeInit
  <2>1. /\ letters = [m \in Letters |-> NoLetter] /\ NoLetter.kind = "none"
        /\ jobs = [j \in Jobs |-> NoJob] /\ NoJob.letter = 0
        /\ lease = NoLease
    BY DEF WakesInit, NoLetter, NoJob
  <2> QED
    BY <2>1, NoLeaseOK DEF FailInv, Stranded, Unread, Sent
<1>2. WakesInv /\ FailInv /\ [RuntimeNext]_<<svars, wvars, fvars, part>>
        => FailInv'
  BY FailStep, RuntimeServes
<1>3. WakesInv /\ FailInv => FailureIsSeen
  <2> SUFFICES ASSUME WakesInv, FailInv, NEW m \in Undelivered,
                      ~letters[m].read, wakes[letters[m].wake].state = "failed"
               PROVE  LET w       == letters[m].wake
                          telling == {j \in Jobs : jobs[j].letter = m}
                          beside  == \E j \in Jobs :
                                       jobs[j].letter \in Joined(w) \ {m}
                      IN  IF wakes[w].sprint \/ ~Engine(m) THEN ~notice.armed
                          ELSE IF telling # {}
                          THEN \/ \A j \in telling : jobs[j].wake = "blocked"
                               \/ receipts[m].turn # 0
                          ELSE \/ Recoverable(w)
                               \/ wakes[w].recovery /\ notice.flagged
                               \/ beside
    BY DEF FailureIsSeen
  <2> DEFINE w == letters[m].wake
  <2>1. m \in Letters /\ m \in Joined(w) /\ Seen(m)
    BY DEF Stranded, Unread, Undelivered, Joined, FailInv
  <2>2. CASE wakes[w].sprint \/ ~Engine(m)
    BY <2>1, <2>2 DEF Seen
  <2>3. CASE ~wakes[w].sprint /\ Engine(m) /\ \E j \in Jobs : jobs[j].letter = m
    BY <2>1, <2>3 DEF Seen
  <2>4. CASE ~wakes[w].sprint /\ Engine(m) /\ \A j \in Jobs : jobs[j].letter # m
    <3>1. CASE \E j \in Jobs : Tells(j, w)
      BY <2>4, <3>1 DEF Tells
    <3>2. CASE \A j \in Jobs : ~Tells(j, w)
      <4>1. wakes[w].recovery => notice.flagged
        BY <2>1, <2>4, <3>2 DEF Seen
      <4>2. ~wakes[w].recovery => Recoverable(w)
        BY <2>1, <2>4, <3>2 DEF Tells, Recoverable
      <4> QED
        BY <2>4, <4>1, <4>2
    <3> QED
      BY <3>1, <3>2
  <2> QED
    BY <2>2, <2>3, <2>4
<1> QED
  BY <1>1, <1>2, <1>3, WakeInvariant, PTL DEF RuntimeSpec

=============================================================================
