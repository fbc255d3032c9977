---------------------------- MODULE SprintProofs ----------------------------
(***************************************************************************)
(* Theorems about a sprint, for every number of units, pull requests,      *)
(* heads, review rounds, closeout terms, developers, owners, executors and *)
(* retries, and every agenda.                                              *)
(***************************************************************************)
EXTENDS SprintRuntime, TLAPS, FiniteSetTheorems

-----------------------------------------------------------------------------
(* The units: what every step keeps, row by row and across rows.           *)

Assigned(row) ==
    /\ row.status = "ready" => row.task \in Waiting
    /\ row.status \in {"none", "planned"} => row.task \notin Waiting

Approved(row) ==
    /\ row.via = "merge" => row.status = "completed"
    /\ row.status = "merge_ready" \/ row.via = "merge"
         => row.ask = "accepted" /\ row.rounds > 0

RowOK(row) == row \in UnitRow /\ Assigned(row) /\ Approved(row)

Laned(us) ==
    \A u, v \in Units :
        /\ us[u].status \in Occupying /\ us[v].status \in Occupying
        /\ us[u].dev = us[v].dev
        => u = v

Founded(us) ==
    \A u \in Units : us[u].status \in Occupying =>
        \A n \in us[u].needs : us[n].status = "completed"

UnitsOK(us) ==
    /\ us \in [Units -> UnitRow]
    /\ \A u \in Units : RowOK(us[u])
    /\ Laned(us)
    /\ Founded(us)

\* A change of a row that occupies no lane anew and reopens nothing.
Modest(old, new) ==
    /\ RowOK(new)
    /\ new.status \in Occupying =>
         old.status \in Occupying /\ new.dev = old.dev /\ new.needs = old.needs
    /\ old.status = "completed" => new.status = "completed"

LEMMA ModestSteps ==
    ASSUME NEW us, UnitsOK(us), NEW vs \in [Units -> UnitRow],
           \A u \in Units : Modest(us[u], vs[u])
    PROVE  UnitsOK(vs)
<1>1. \A u \in Units : RowOK(vs[u])
  BY DEF Modest
<1>2. Laned(vs)
  BY DEF Modest, UnitsOK, Laned
<1>3. Founded(vs)
  <2> SUFFICES ASSUME NEW u \in Units, vs[u].status \in Occupying,
                      NEW n \in vs[u].needs
               PROVE  vs[n].status = "completed"
    BY DEF Founded
  <2>1. us[u].status \in Occupying /\ vs[u].needs = us[u].needs
    BY DEF Modest
  <2>2. us[n].status = "completed"
    BY <2>1 DEF UnitsOK, Founded
  <2>3. n \in Units
    BY <2>1 DEF UnitsOK, UnitRow
  <2> QED
    BY <2>2, <2>3 DEF Modest
<1> QED
  BY <1>1, <1>2, <1>3 DEF UnitsOK

LEMMA SameRow ==
    ASSUME NEW us, UnitsOK(us), NEW u \in Units
    PROVE  Modest(us[u], us[u])
  BY DEF UnitsOK, Modest

\* One row changes.
LEMMA OneModestStep ==
    ASSUME NEW us, UnitsOK(us), NEW u \in Units, NEW row,
           Modest(us[u], row)
    PROVE  UnitsOK([us EXCEPT ![u] = row])
<1> DEFINE vs == [us EXCEPT ![u] = row]
<1>1. row \in UnitRow /\ us \in [Units -> UnitRow]
  BY DEF Modest, RowOK, UnitsOK
<1>2. vs \in [Units -> UnitRow]
  BY <1>1
<1>3. ASSUME NEW v \in Units
      PROVE  Modest(us[v], vs[v])
  BY <1>1, <1>3, SameRow
<1> HIDE DEF vs
<1>4. UnitsOK(vs)
  BY <1>2, <1>3, ModestSteps
<1> QED
  BY <1>4 DEF vs

-----------------------------------------------------------------------------
(* The book: its other fields, and the steps transactions are made of.     *)

BookOK(b) ==
    /\ b \in Book
    /\ UnitsOK(b.units)
    /\ b.phase = "prepared" => b.gen = 0

Told(b) == b.phase = "armed" /\ AllClosed(b) => Notice(b) \in b.notices

\* The same lifecycle-independent contents: units, owner and term.
SameWork(b, c) == c.units = b.units /\ c.owner = b.owner /\ c.gen = b.gen

LEMMA BookFields ==
    ASSUME NEW b \in Book
    PROVE  /\ b.phase \in Phases /\ b.owner \in Owners \cup {"none"}
           /\ b.gen \in 0..MaxTerms /\ b.fit \subseteq Owners
           /\ b.notices \subseteq (0..MaxUnits) \X Owners \X (0..MaxTerms)
           /\ b.bypassed \subseteq Prs
           /\ b.units \in [Units -> UnitRow] /\ b.prs \in [Prs -> PrRow]
  BY DEF Book

LEMMA UnitsUpdate ==
    ASSUME NEW b \in Book, NEW us \in [Units -> UnitRow]
    PROVE  LET c == [b EXCEPT !.units = us] IN
           /\ c \in Book /\ c.units = us /\ c.phase = b.phase
           /\ c.owner = b.owner /\ c.gen = b.gen /\ c.fit = b.fit
           /\ c.notices = b.notices /\ c.bypassed = b.bypassed /\ c.prs = b.prs
  BY DEF Book

LEMMA PhaseUpdate ==
    ASSUME NEW b \in Book, NEW ph \in Phases
    PROVE  LET c == [b EXCEPT !.phase = ph] IN
           /\ c \in Book /\ c.units = b.units /\ c.phase = ph
           /\ c.owner = b.owner /\ c.gen = b.gen /\ c.fit = b.fit
           /\ c.notices = b.notices /\ c.bypassed = b.bypassed /\ c.prs = b.prs
  BY DEF Book

LEMMA SameClosed ==
    ASSUME NEW b, NEW c, \A u \in Units : c.units[u].status = b.units[u].status
    PROVE  /\ Exists(c) = Exists(b)
           /\ AllClosed(c) <=> AllClosed(b)
<1>1. Exists(c) = Exists(b)
  BY DEF Exists
<1>2. \A u \in Exists(b) : u \in Units
  BY DEF Exists
<1> QED
  BY <1>1, <1>2 DEF AllClosed

LEMMA ExistsBounded ==
    ASSUME NEW b PROVE Cardinality(Exists(b)) \in 0..MaxUnits
<1>1. MaxUnits \in Nat
  BY SprintBounds
<1>2. IsFiniteSet(Units) /\ Cardinality(Units) = MaxUnits
  BY <1>1, FS_Interval DEF Units
<1>3. Exists(b) \subseteq Units
  BY DEF Exists
<1>4. Cardinality(Exists(b)) \in Nat /\ Cardinality(Exists(b)) <= MaxUnits
  BY <1>2, <1>3, FS_Subset, FS_CardinalityType
<1> QED
  BY <1>1, <1>4

LEMMA PausedOK ==
    ASSUME NEW b, BookOK(b)
    PROVE  /\ BookOK(Paused(b)) /\ Paused(b).phase = "paused"
           /\ SameWork(b, Paused(b))
<1>1. b \in Book /\ "paused" \in Phases
  BY DEF BookOK, Phases
<1> QED
  BY <1>1, PhaseUpdate DEF BookOK, Paused, SameWork

LEMMA AnnouncedOK ==
    ASSUME NEW b, BookOK(b)
    PROVE  /\ BookOK(Announced(b)) /\ SameWork(b, Announced(b))
           /\ Told(Announced(b))
           /\ \/ Announced(b).phase = b.phase
              \/ b.phase = "armed" /\ Announced(b).phase = "paused"
<1> DEFINE c == Announced(b)
<1>1. CASE b.phase # "armed" \/ ~AllClosed(b)
  <2>1. c = b
    BY <1>1 DEF Announced
  <2> QED
    BY <1>1, <2>1 DEF SameWork, Told
<1>2. CASE b.phase = "armed" /\ AllClosed(b) /\ b.owner \notin b.fit
  <2>1. c = Paused(b)
    BY <1>2 DEF Announced
  <2> QED
    BY <1>2, <2>1, PausedOK DEF Told
<1>3. CASE b.phase = "armed" /\ AllClosed(b) /\ b.owner \in b.fit
  <2> DEFINE ns == b.notices \cup {Notice(b)}
  <2>1. c = [b EXCEPT !.notices = ns]
    BY <1>3 DEF Announced
  <2>2. b \in Book
    BY DEF BookOK
  <2>3. Notice(b) \in (0..MaxUnits) \X Owners \X (0..MaxTerms)
    BY <1>3, <2>2, BookFields, ExistsBounded DEF Notice
  <2>4. ns \in SUBSET ((0..MaxUnits) \X Owners \X (0..MaxTerms))
    BY <2>2, <2>3, BookFields
  <2> HIDE DEF ns
  <2>5. /\ [b EXCEPT !.notices = ns] \in Book
        /\ [b EXCEPT !.notices = ns].units = b.units
        /\ [b EXCEPT !.notices = ns].owner = b.owner
        /\ [b EXCEPT !.notices = ns].gen = b.gen
        /\ [b EXCEPT !.notices = ns].phase = b.phase
        /\ [b EXCEPT !.notices = ns].notices = ns
    BY <2>2, <2>4 DEF Book
  <2>6. /\ c \in Book /\ c.units = b.units /\ c.owner = b.owner
        /\ c.gen = b.gen /\ c.phase = b.phase /\ c.notices = ns
    BY <2>1, <2>5
  <2> HIDE DEF c
  <2>7. Notice(c) = Notice(b)
    BY <2>6 DEF Notice, Exists
  <2>8. Told(c)
    BY <2>6, <2>7 DEF Told, ns
  <2>9. BookOK(c) /\ SameWork(b, c)
    BY <2>6 DEF BookOK, SameWork
  <2> QED
    BY <2>6, <2>8, <2>9 DEF c
<1> QED
  BY <1>1, <1>2, <1>3

LEMMA ReleasedRow ==
    ASSUME NEW row \in UnitRow, row.via # "merge"
    PROVE  RowOK([row EXCEPT !.status = "ready", !.task = "sent"])
  BY DEF RowOK, UnitRow, Assigned, Approved, Statuses, Occupying, Mails, Waiting

\* A unit is taken for a developer who holds nothing, once and on completed
\* work, so lanes and foundations stand.
LEMMA DispatchedUnits ==
    ASSUME NEW b, BookOK(b)
    PROVE  /\ UnitsOK(Dispatched(b).units)
           /\ Dispatched(b) = [b EXCEPT !.units = Dispatched(b).units]
           /\ \A u \in Units : Dispatched(b).units[u].status # b.units[u].status
                => b.units[u].status = "planned"
                     /\ Dispatched(b).units[u].status = "ready"
<1> DEFINE us == b.units
           vs == [u \in Units |->
                    IF u \in Taken(b) THEN [us[u] EXCEPT !.status = "ready",
                                                         !.task = "sent"]
                    ELSE us[u]]
<1>1. b \in Book /\ us \in [Units -> UnitRow]
      /\ \A u \in Units : us[u] \in UnitRow /\ RowOK(us[u])
  BY DEF BookOK, UnitsOK
<1>2. \A u \in Taken(b) : /\ u \in Units
                          /\ us[u].status = "planned"
                          /\ \A n \in us[u].needs : us[n].status = "completed"
                          /\ \A v \in Units : us[v].status \in Occupying
                               => us[v].dev # us[u].dev
  BY DEF Taken, Releasable, Occupied, Lanes
<1>3. \A u, v \in Taken(b) : us[u].dev = us[v].dev => u = v
  <2> SUFFICES ASSUME NEW u \in Taken(b), NEW v \in Taken(b),
                      us[u].dev = us[v].dev, u < v
               PROVE  FALSE
    BY <1>2, SprintBounds DEF Units
  <2>1. u \in 1..(v - 1)
    BY <1>2, SprintBounds DEF Units
  <2> QED
    BY <2>1 DEF Taken
<1>4. \A u \in Units : us[u].via # "merge" =>
        RowOK([us[u] EXCEPT !.status = "ready", !.task = "sent"])
  BY <1>1, ReleasedRow
<1>5. \A u \in Taken(b) : us[u].via # "merge"
  BY <1>1, <1>2 DEF RowOK, Approved
<1>6. ASSUME NEW u \in Units
      PROVE  /\ RowOK(vs[u]) /\ vs[u].dev = us[u].dev /\ vs[u].needs = us[u].needs
             /\ vs[u].status = IF u \in Taken(b) THEN "ready" ELSE us[u].status
  <2>1. CASE u \in Taken(b)
    <3>1. vs[u] = [us[u] EXCEPT !.status = "ready", !.task = "sent"]
      BY <2>1
    <3>2. us[u] \in UnitRow
      BY <1>1
    <3> QED
      BY <3>1, <3>2, <1>4, <1>5, <2>1 DEF UnitRow
  <2>2. CASE u \notin Taken(b)
    BY <2>2, <1>1
  <2> QED
    BY <2>1, <2>2
<1>7. DOMAIN vs = Units /\ vs \in [Units -> UnitRow]
  <2>1. \A u \in Units : vs[u] \in UnitRow
    BY <1>6 DEF RowOK
  <2> QED
    BY <2>1
<1>8. Dispatched(b) = [b EXCEPT !.units = vs]
  BY DEF Dispatched
<1> HIDE DEF vs
<1>9. Dispatched(b).units = vs
  BY <1>1, <1>7, <1>8, UnitsUpdate
<1>10. Laned(vs)
  <2> SUFFICES ASSUME NEW u \in Units, NEW v \in Units,
                      vs[u].status \in Occupying, vs[v].status \in Occupying,
                      vs[u].dev = vs[v].dev
               PROVE  u = v
    BY DEF Laned
  <2>1. us[u].dev = us[v].dev
    BY <1>6
  <2>2. CASE u \in Taken(b) /\ v \in Taken(b)
    BY <2>1, <2>2, <1>3
  <2>3. CASE u \notin Taken(b) /\ v \notin Taken(b)
    BY <2>1, <2>3, <1>6 DEF BookOK, UnitsOK, Laned
  <2>4. CASE u \in Taken(b) /\ v \notin Taken(b)
    BY <2>1, <2>4, <1>2, <1>6
  <2>5. CASE u \notin Taken(b) /\ v \in Taken(b)
    BY <2>1, <2>5, <1>2, <1>6
  <2> QED
    BY <2>2, <2>3, <2>4, <2>5
<1>11. Founded(vs)
  <2> SUFFICES ASSUME NEW u \in Units, vs[u].status \in Occupying,
                      NEW n \in vs[u].needs
               PROVE  vs[n].status = "completed"
    BY DEF Founded
  <2>1. us[n].status = "completed"
    <3>1. CASE u \in Taken(b)
      BY <3>1, <1>2, <1>6
    <3>2. CASE u \notin Taken(b)
      BY <3>2, <1>6 DEF BookOK, UnitsOK, Founded
    <3> QED
      BY <3>1, <3>2
  <2>2. n \in Units
    BY <1>1, <1>6 DEF UnitRow
  <2>3. n \notin Taken(b)
    BY <2>1, <1>2
  <2> QED
    BY <2>1, <2>2, <2>3, <1>6
<1>12. UnitsOK(vs)
  BY <1>6, <1>7, <1>10, <1>11 DEF UnitsOK
<1> QED
  BY <1>2, <1>6, <1>8, <1>9, <1>12

\* Nothing is released, sent to review or approved between two books.
Calm(b, c) ==
    \A u \in Units : c.units[u].status \in {"ready", "in_review", "merge_ready"}
                       => c.units[u].status = b.units[u].status

LEMMA DispatchedOK ==
    ASSUME NEW b, BookOK(b)
    PROVE  /\ BookOK(Dispatched(b))
           /\ Dispatched(b).phase = b.phase
           /\ Told(b) => Told(Dispatched(b))
<1> DEFINE c == Dispatched(b)
           us == c.units
<1>1. /\ UnitsOK(us) /\ c = [b EXCEPT !.units = us]
      /\ \A u \in Units : us[u].status # b.units[u].status
           => b.units[u].status = "planned" /\ us[u].status = "ready"
  BY DispatchedUnits
<1>2. b \in Book /\ us \in [Units -> UnitRow]
  BY <1>1 DEF BookOK, UnitsOK
<1> HIDE DEF c, us
<1>3. /\ c \in Book /\ c.units = us /\ c.phase = b.phase
      /\ c.owner = b.owner /\ c.gen = b.gen /\ c.notices = b.notices
  BY <1>1, <1>2, UnitsUpdate
<1>4. BookOK(c)
  BY <1>1, <1>3 DEF BookOK
<1>5. ASSUME Told(b) PROVE Told(c)
  <2>1. CASE \A u \in Units : us[u].status = b.units[u].status
    <3>1. Exists(c) = Exists(b) /\ (AllClosed(c) <=> AllClosed(b))
      BY <1>3, <2>1, SameClosed
    <3> QED
      BY <1>3, <1>5, <3>1 DEF Told, Notice
  <2>2. CASE \E u \in Units : us[u].status # b.units[u].status
    <3>1. PICK u \in Units : us[u].status = "ready"
      BY <1>1, <2>2
    <3>2. ~AllClosed(c)
      BY <1>3, <3>1 DEF AllClosed, Exists, Closed
    <3> QED
      BY <3>2 DEF Told
  <2> QED
    BY <2>1, <2>2
<1> QED
  BY <1>3, <1>4, <1>5 DEF c

LEMMA DispatchedIfArmedOK ==
    ASSUME NEW b, BookOK(b)
    PROVE  LET c == DispatchedIfArmed(b) IN
           /\ BookOK(c) /\ c.phase = b.phase
           /\ Told(b) => Told(c)
           /\ c.phase # "armed" => c = b
  BY DispatchedOK DEF DispatchedIfArmed

-----------------------------------------------------------------------------
(* What the watcher, a resume and a restart do with merges.                *)

LEMMA MergedRow ==
    ASSUME NEW row, RowOK(row), row.status = "merge_ready"
    PROVE  Modest(row, [row EXCEPT !.status = "completed", !.via = "merge"])
  BY DEF Modest, RowOK, UnitRow, Assigned, Approved, Statuses, Occupying,
         Closed, Waiting

LEMMA MergesSeenOK ==
    ASSUME NEW b, BookOK(b), NEW ps \in SUBSET Prs, NEW d \in BOOLEAN
    PROVE  LET c == MergesSeen(b, ps, d) IN
           /\ BookOK(c)
           /\ c.phase = b.phase \/ (b.phase = "armed" /\ c.phase = "paused")
           /\ Told(b) => Told(c)
           /\ ~InPlay(b) => c = b
           /\ d = FALSE \/ c.phase # "armed" => Calm(b, c)
<1> DEFINE c    == MergesSeen(b, ps, d)
           live == {p \in ps : b.prs[p].linked}
           won  == {u \in Units : b.units[u].status = "merge_ready"
                                   /\ \E p \in live : b.prs[p].unit = u}
           lost == {p \in live : b.units[b.prs[p].unit].status
                                   \notin {"merge_ready", "completed"}}
           us   == [u \in Units |-> IF u \in won
                      THEN [b.units[u] EXCEPT !.status = "completed",
                                              !.via = "merge"]
                      ELSE b.units[u]]
           by   == b.bypassed \cup lost
           noted == [b EXCEPT !.bypassed = by, !.units = us]
<1>1. c = IF ~InPlay(b) THEN b
          ELSE IF won = {} THEN noted
          ELSE IF d THEN DispatchedIfArmed(Announced(noted))
          ELSE Announced(noted)
  BY DEF MergesSeen
<1>2. b \in Book /\ UnitsOK(b.units)
  BY DEF BookOK
<1>3. \A u \in Units : Modest(b.units[u], us[u])
  <2> SUFFICES ASSUME NEW u \in Units PROVE Modest(b.units[u], us[u])
    OBVIOUS
  <2>1. RowOK(b.units[u]) /\ Modest(b.units[u], b.units[u])
    BY <1>2, SameRow DEF UnitsOK
  <2>2. CASE u \in won
    <3>1. us[u] = [b.units[u] EXCEPT !.status = "completed", !.via = "merge"]
      BY <2>2
    <3> QED
      BY <2>1, <2>2, <3>1, MergedRow
  <2>3. CASE u \notin won
    <3>1. us[u] = b.units[u]
      BY <2>3
    <3> QED
      BY <2>1, <3>1
  <2> QED
    BY <2>2, <2>3
<1>4. us \in [Units -> UnitRow]
  <2>1. \A u \in Units : us[u] \in UnitRow
    BY <1>3 DEF Modest, RowOK
  <2> QED
    BY <2>1
<1>5. UnitsOK(us)
  <2> HIDE DEF us
  <2> QED
    BY <1>2, <1>3, <1>4, ModestSteps
<1>6. by \in SUBSET Prs
  BY <1>2, BookFields
<1>7. \A u \in Units : u \notin won => us[u] = b.units[u]
  OBVIOUS
<1>8. \A u \in Units : u \in won => us[u].status = "completed"
  BY <1>2 DEF UnitsOK, UnitRow
<1> HIDE DEF us, by, won
<1>9. /\ noted \in Book /\ noted.units = us /\ noted.phase = b.phase
      /\ noted.owner = b.owner /\ noted.gen = b.gen
      /\ noted.notices = b.notices
  BY <1>2, <1>4, <1>6 DEF Book
<1> HIDE DEF noted
<1>10. BookOK(noted)
  BY <1>5, <1>9 DEF BookOK
<1>11. Calm(b, noted)
  BY <1>7, <1>8, <1>9 DEF Calm
<1>12. won = {} /\ Told(b) => Told(noted)
  <2> SUFFICES ASSUME won = {}, Told(b) PROVE Told(noted)
    OBVIOUS
  <2>1. \A u \in Units : noted.units[u].status = b.units[u].status
    BY <1>7, <1>9
  <2>2. Exists(noted) = Exists(b) /\ (AllClosed(noted) <=> AllClosed(b))
    BY <2>1, SameClosed
  <2> QED
    BY <1>9, <2>2 DEF Told, Notice
<1> DEFINE told == Announced(noted)
<1>13. /\ BookOK(told) /\ SameWork(noted, told) /\ Told(told)
       /\ \/ told.phase = noted.phase
          \/ noted.phase = "armed" /\ told.phase = "paused"
  BY <1>10, AnnouncedOK
<1>14. Calm(b, told)
  BY <1>11, <1>13 DEF Calm, SameWork
<1> HIDE DEF told
<1> DEFINE sent == DispatchedIfArmed(told)
<1>15. /\ BookOK(sent) /\ sent.phase = told.phase /\ Told(sent)
       /\ sent.phase # "armed" => sent = told
  BY <1>13, DispatchedIfArmedOK
<1> HIDE DEF sent
<1>16. Calm(b, b)
  BY DEF Calm
<1>17. c = IF ~InPlay(b) THEN b
           ELSE IF won = {} THEN noted
           ELSE IF d THEN sent ELSE told
  BY <1>1 DEF sent, told
<1> HIDE DEF c
<1>18. CASE ~InPlay(b)
  BY <1>16, <1>17, <1>18 DEF c
<1>19. CASE InPlay(b) /\ won = {}
  BY <1>9, <1>10, <1>11, <1>12, <1>17, <1>19 DEF c
<1>20. CASE InPlay(b) /\ won # {} /\ d
  BY <1>9, <1>13, <1>14, <1>15, <1>17, <1>20 DEF c
<1>21. CASE InPlay(b) /\ won # {} /\ ~d
  BY <1>9, <1>13, <1>14, <1>17, <1>21 DEF c
<1> QED
  BY <1>18, <1>19, <1>20, <1>21 DEF c

LEMMA MovedOK ==
    ASSUME NEW b, BookOK(b), NEW S \in SUBSET Prs, NEW seen \in [S -> HubRow]
    PROVE  LET c == Moved(b, seen) IN
           /\ BookOK(c) /\ c.phase = b.phase /\ c.units = b.units
           /\ Told(b) => Told(c)
<1> DEFINE own(p) == IF Registered(b, p) THEN seen[p].state ELSE b.prs[p].own
           row(p) == [b.prs[p] EXCEPT !.state = seen[p].state,
                                      !.head = seen[p].head, !.own = own(p)]
           ps == [p \in Prs |-> IF p \in News(b, seen) THEN row(p)
                                ELSE b.prs[p]]
<1>1. Moved(b, seen) = [b EXCEPT !.prs = ps]
  BY DEF Moved
<1>2. b \in Book /\ b.prs \in [Prs -> PrRow]
  BY DEF BookOK, Book
<1>3. ASSUME NEW p \in Prs PROVE ps[p] \in PrRow
  <2>1. CASE p \in News(b, seen)
    <3>1. seen[p] \in HubRow
      BY <2>1 DEF News
    <3>2. seen[p].state \in PrStates /\ seen[p].head \in 0..MaxHeads
      BY <3>1 DEF HubRow
    <3>3. b.prs[p] \in PrRow
      BY <1>2
    <3>4. own(p) \in PrStates
      BY <3>2, <3>3 DEF PrRow
    <3> HIDE DEF own
    <3>5. row(p) \in PrRow
      BY <3>2, <3>3, <3>4 DEF PrRow
    <3> QED
      BY <2>1, <3>5
  <2>2. CASE p \notin News(b, seen)
    BY <1>2, <2>2
  <2> QED
    BY <2>1, <2>2
<1>4. ps \in [Prs -> PrRow]
  BY <1>3
<1> HIDE DEF ps
<1> DEFINE c == Moved(b, seen)
<1>5. /\ c \in Book /\ c.units = b.units /\ c.phase = b.phase
      /\ c.owner = b.owner /\ c.gen = b.gen /\ c.notices = b.notices
  BY <1>1, <1>2, <1>4 DEF Book
<1> HIDE DEF c
<1>6. BookOK(c)
  BY <1>5 DEF BookOK
<1>7. Told(b) => Told(c)
  BY <1>5 DEF Told, AllClosed, Exists, Notice
<1> QED
  BY <1>5, <1>6, <1>7 DEF c

LEMMA ObservedOK ==
    ASSUME NEW b, BookOK(b), NEW S \in SUBSET Prs, NEW seen \in [S -> HubRow],
           NEW d \in BOOLEAN
    PROVE  LET c == Observed(b, seen, d) IN
           /\ BookOK(c)
           /\ c.phase = b.phase \/ (b.phase = "armed" /\ c.phase = "paused")
           /\ Told(b) => Told(c)
           /\ ~InPlay(b) => c.units = b.units
           /\ d = FALSE \/ c.phase # "armed" => Calm(b, c)
<1> DEFINE m == Moved(b, seen)
           ps == {p \in News(b, seen) : seen[p].state = "merged"}
           c == Observed(b, seen, d)
<1>1. /\ BookOK(m) /\ m.phase = b.phase /\ m.units = b.units
      /\ Told(b) => Told(m)
  BY MovedOK
<1>2. ps \in SUBSET Prs
  BY DEF News
<1>3. c = MergesSeen(m, ps, d)
  BY DEF Observed
<1> HIDE DEF m, ps, c
<1>4. /\ BookOK(c)
      /\ c.phase = m.phase \/ (m.phase = "armed" /\ c.phase = "paused")
      /\ Told(m) => Told(c)
      /\ ~InPlay(m) => c = m
      /\ d = FALSE \/ c.phase # "armed" => Calm(m, c)
  BY <1>1, <1>2, <1>3, MergesSeenOK
<1> QED
  BY <1>1, <1>4 DEF c, Calm, InPlay

LEMMA ReprojectedOK ==
    ASSUME NEW b, BookOK(b)
    PROVE  LET c == Reprojected(b) IN
           /\ BookOK(c)
           /\ c.phase = b.phase \/ (b.phase = "armed" /\ c.phase = "paused")
           /\ Told(b) => Told(c)
           /\ Calm(b, c)
<1> DEFINE ps == {p \in Prs : b.prs[p].own = "merged"}
<1>1. ps \in SUBSET Prs
  OBVIOUS
<1>2. Reprojected(b) = MergesSeen(b, ps, FALSE)
  BY DEF Reprojected
<1> HIDE DEF ps
<1> DEFINE c == MergesSeen(b, ps, FALSE)
<1>3. /\ BookOK(c)
      /\ c.phase = b.phase \/ (b.phase = "armed" /\ c.phase = "paused")
      /\ Told(b) => Told(c)
      /\ Calm(b, c)
  BY <1>1, MergesSeenOK
<1> HIDE DEF c
<1> QED
  BY <1>2, <1>3 DEF c

-----------------------------------------------------------------------------
(* The plan: one lemma per verb.                                           *)

Done(b) == b.phase = "completed" => AllClosed(b)

PlanOK(b) == BookOK(b) /\ Told(b) /\ Done(b)

Holds(b, c) == b.phase = "paused" /\ c.phase = "paused" => Calm(b, c)

\* A change of one row of the plan.
LEMMA UnitChanged ==
    ASSUME NEW b, BookOK(b), NEW u \in Units, NEW row,
           Modest(b.units[u], row)
    PROVE  LET c == [b EXCEPT !.units[u] = row] IN
           /\ BookOK(c) /\ c.units = [b.units EXCEPT ![u] = row]
           /\ c.phase = b.phase /\ c.owner = b.owner /\ c.gen = b.gen
           /\ c.notices = b.notices
<1> DEFINE us == [b.units EXCEPT ![u] = row]
           c  == [b EXCEPT !.units[u] = row]
<1>1. b \in Book /\ UnitsOK(b.units)
  BY DEF BookOK
<1>2. UnitsOK(us)
  BY <1>1, OneModestStep
<1>3. c = [b EXCEPT !.units = us]
  OBVIOUS
<1>4. us \in [Units -> UnitRow]
  BY <1>2 DEF UnitsOK
<1> HIDE DEF us, c
<1>5. /\ c \in Book /\ c.units = us /\ c.phase = b.phase
      /\ c.owner = b.owner /\ c.gen = b.gen /\ c.notices = b.notices
  BY <1>1, <1>3, <1>4, UnitsUpdate
<1>6. BookOK(c)
  BY <1>2, <1>5 DEF BookOK
<1> QED
  BY <1>5, <1>6 DEF c, us

\* One that closes no unit.
LEMMA UnitMoves ==
    ASSUME NEW b, PlanOK(b), NEW u \in Units, NEW row,
           Modest(b.units[u], row),
           \/ row.status = b.units[u].status
           \/ /\ row.status \notin Closed \cup {"none"}
              /\ b.phase # "completed"
              /\ b.phase = "paused" =>
                   row.status \notin {"ready", "in_review", "merge_ready"}
    PROVE  LET c == [b EXCEPT !.units[u] = row] IN
           PlanOK(c) /\ Holds(b, c)
<1> DEFINE c == [b EXCEPT !.units[u] = row]
<1>1. BookOK(b)
  BY DEF PlanOK
<1>2. /\ BookOK(c) /\ c.units = [b.units EXCEPT ![u] = row]
      /\ c.phase = b.phase /\ c.owner = b.owner /\ c.gen = b.gen
      /\ c.notices = b.notices
  BY <1>1, UnitChanged
<1> HIDE DEF c
<1>3. b.units \in [Units -> UnitRow]
  BY <1>1 DEF BookOK, UnitsOK
<1>4. \A v \in Units : c.units[v] = IF v = u THEN row ELSE b.units[v]
  BY <1>2, <1>3
<1>5. CASE row.status = b.units[u].status
  <2>1. \A v \in Units : c.units[v].status = b.units[v].status
    BY <1>4, <1>5
  <2>2. Exists(c) = Exists(b) /\ (AllClosed(c) <=> AllClosed(b))
    BY <2>1, SameClosed
  <2>3. Told(c) /\ Done(c)
    BY <1>2, <2>2 DEF PlanOK, Told, Done, Notice
  <2> QED
    BY <1>2, <2>1, <2>3 DEF PlanOK, Holds, Calm, c
<1>6. CASE /\ row.status \notin Closed \cup {"none"}
           /\ b.phase # "completed"
           /\ b.phase = "paused" =>
                   row.status \notin {"ready", "in_review", "merge_ready"}
  <2>1. c.units[u].status = row.status
    BY <1>4
  <2>2. ~AllClosed(c)
    BY <1>6, <2>1 DEF AllClosed, Exists
  <2>3. Holds(b, c)
    BY <1>2, <1>4, <1>6 DEF Holds, Calm
  <2> QED
    BY <1>2, <1>6, <2>2, <2>3 DEF PlanOK, Told, Done, c
<1> QED
  BY <1>5, <1>6

LEMMA UnitRows ==
    ASSUME NEW b, BookOK(b), NEW u \in Units
    PROVE  RowOK(b.units[u]) /\ b.units[u] \in UnitRow
  BY DEF BookOK, UnitsOK, RowOK

LEMMA AddUnitOK ==
    ASSUME PlanOK(book), NEW u \in Units, NEW dev \in Devs,
           NEW code \in BOOLEAN, NEW needs \in SUBSET Units,
           AddUnit(u, dev, code, needs)
    PROVE  PlanOK(book') /\ Holds(book, book')
<1> DEFINE old == book.units[u]
           row == [old EXCEPT !.status = "planned", !.dev = dev,
                              !.code = code, !.needs = needs]
<1>1. RowOK(old) /\ old \in UnitRow
  BY UnitRows DEF PlanOK
<1>2. /\ book.phase \notin {"completed", "aborted"}
      /\ old.status = "none"
      /\ book' = [book EXCEPT !.units[u] = row]
  BY DEF AddUnit
<1>3. row \in UnitRow /\ row.status = "planned" /\ row.task = old.task
      /\ row.via = old.via
  BY <1>1 DEF UnitRow, Statuses
<1> HIDE DEF row
<1>4. RowOK(row)
  BY <1>1, <1>2, <1>3 DEF RowOK, Assigned, Approved
<1>5. Modest(old, row)
  BY <1>2, <1>3, <1>4 DEF Modest, Occupying
<1>6. row.status \notin Closed \cup {"none"}
  BY <1>3 DEF Closed
<1> HIDE DEF old
<1> QED
  BY <1>2, <1>3, <1>5, <1>6, UnitMoves DEF old

LEMMA ReplanOK ==
    ASSUME PlanOK(book), NEW u \in Units, NEW dev \in Devs,
           NEW needs \in SUBSET Units, Replan(u, dev, needs)
    PROVE  PlanOK(book') /\ Holds(book, book')
<1> DEFINE old == book.units[u]
           row == [old EXCEPT !.dev = dev, !.needs = needs]
<1>1. RowOK(old) /\ old \in UnitRow
  BY UnitRows DEF PlanOK
<1>2. old.status = "planned" /\ book' = [book EXCEPT !.units[u] = row]
  BY DEF Replan
<1>3. row \in UnitRow /\ row.status = "planned" /\ row.task = old.task
      /\ row.via = old.via
  BY <1>1, <1>2 DEF UnitRow
<1> HIDE DEF row
<1>4. Modest(old, row)
  BY <1>1, <1>2, <1>3 DEF Modest, RowOK, Assigned, Approved, Occupying
<1> QED
  BY <1>2, <1>3, <1>4, UnitMoves

\* A row that is closed by cancellation or by work, and the notice of the last.
LEMMA ClosingOK ==
    ASSUME NEW b, PlanOK(b), b.phase # "completed", NEW u \in Units, NEW row,
           Modest(b.units[u], row), row.status \in Closed
    PROVE  LET c == Announced([b EXCEPT !.units[u] = row]) IN
           PlanOK(c) /\ Holds(b, c)
<1> DEFINE d == [b EXCEPT !.units[u] = row]
           c == Announced(d)
<1>1. BookOK(b)
  BY DEF PlanOK
<1>2. /\ BookOK(d) /\ d.units = [b.units EXCEPT ![u] = row]
      /\ d.phase = b.phase
  BY <1>1, UnitChanged
<1> HIDE DEF d
<1>3. /\ BookOK(c) /\ c.units = d.units /\ Told(c)
      /\ \/ c.phase = d.phase
         \/ d.phase = "armed" /\ c.phase = "paused"
  BY <1>2, AnnouncedOK DEF SameWork
<1> HIDE DEF c
<1>4. b.units \in [Units -> UnitRow]
  BY <1>1 DEF BookOK, UnitsOK
<1>5. \A v \in Units : c.units[v] = IF v = u THEN row ELSE b.units[v]
  BY <1>2, <1>3, <1>4
<1>6. Done(c)
  BY <1>2, <1>3 DEF Done
<1>7. Calm(b, c)
  BY <1>5 DEF Calm, Closed
<1> QED
  BY <1>3, <1>6, <1>7 DEF PlanOK, Holds, c, d

LEMMA CancelUnitOK ==
    ASSUME PlanOK(book), NEW u \in Units, CancelUnit(u)
    PROVE  PlanOK(book') /\ Holds(book, book')
<1> DEFINE old == book.units[u]
           row == [old EXCEPT !.status = "cancelled"]
<1>1. RowOK(old) /\ old \in UnitRow
  BY UnitRows DEF PlanOK
<1>2. /\ old.status = "planned"
      /\ book' = Announced([book EXCEPT !.units[u] = row])
  BY DEF CancelUnit
<1>3. row \in UnitRow /\ row.status = "cancelled" /\ row.via = old.via
  BY <1>1 DEF UnitRow, Statuses, Closed
<1> HIDE DEF row
<1>4. Modest(old, row) /\ row.status \in Closed
  BY <1>1, <1>2, <1>3 DEF Modest, RowOK, Assigned, Approved, Occupying, Closed
<1>5. book.phase # "completed"
  BY <1>2 DEF PlanOK, Done, AllClosed, Exists, Closed
<1> QED
  BY <1>2, <1>4, <1>5, ClosingOK

LEMMA RetiredMail ==
    ASSUME NEW mail \in Mails
    PROVE  /\ Retired(mail) \in Mails /\ Retired(mail) \notin Waiting
           /\ mail = "accepted" => Retired(mail) = "accepted"
  BY DEF Retired, Mails, Waiting

LEMMA RecallUnitOK ==
    ASSUME PlanOK(book), NEW u \in Units, RecallUnit(u)
    PROVE  PlanOK(book') /\ Holds(book, book')
<1> DEFINE old == book.units[u]
           row == [old EXCEPT !.status = "planned", !.task = Retired(old.task)]
<1>1. RowOK(old) /\ old \in UnitRow
  BY UnitRows DEF PlanOK
<1>2. /\ book.phase = "paused" /\ old.status \in Occupying
      /\ book' = [book EXCEPT !.units[u] = row]
  BY <1>1 DEF RecallUnit, UnitRow
<1>3. Retired(old.task) \in Mails /\ Retired(old.task) \notin Waiting
  BY <1>1, RetiredMail DEF UnitRow
<1>4. row \in UnitRow /\ row.status = "planned" /\ row.via = old.via
      /\ row.task = Retired(old.task)
  BY <1>1, <1>3 DEF UnitRow, Statuses
<1> HIDE DEF row
<1>5. Modest(old, row) /\ row.status \notin Closed \cup {"none"}
  BY <1>1, <1>2, <1>3, <1>4
     DEF Modest, RowOK, Assigned, Approved, Occupying, Closed
<1> QED
  BY <1>2, <1>4, <1>5, UnitMoves

LEMMA ResolveUnitOK ==
    ASSUME PlanOK(book), NEW u \in Units, NEW ending \in Closed,
           ResolveUnit(u, ending)
    PROVE  PlanOK(book') /\ Holds(book, book')
<1> DEFINE old == book.units[u]
           row == [old EXCEPT !.status = ending, !.via = "override",
                              !.task = Retired(old.task),
                              !.ask = Retired(old.ask)]
           us  == [book.units EXCEPT ![u] = row]
           ps  == [p \in Prs |-> IF book.prs[p].unit = u
                     THEN [book.prs[p] EXCEPT !.linked = FALSE]
                     ELSE book.prs[p]]
<1>1. RowOK(old) /\ old \in UnitRow
  BY UnitRows DEF PlanOK
<1>2. /\ book.phase = "paused" /\ old.status \in Occupying \cup {"planned"}
      /\ book' = [book EXCEPT !.units = us, !.prs = ps]
  BY <1>1 DEF ResolveUnit, UnitRow
<1>3. Retired(old.task) \in Mails /\ Retired(old.ask) \in Mails
  BY <1>1, RetiredMail DEF UnitRow
<1>4. row \in UnitRow /\ row.status = ending /\ row.via = "override"
  BY <1>1, <1>3 DEF UnitRow, Statuses
<1> HIDE DEF row
<1>5. Modest(old, row)
  BY <1>1, <1>2, <1>4
     DEF Modest, RowOK, Assigned, Approved, Occupying, Closed
<1>6. book \in Book /\ UnitsOK(book.units) /\ book.prs \in [Prs -> PrRow]
  BY DEF PlanOK, BookOK, Book
<1>7. UnitsOK(us)
  BY <1>5, <1>6, OneModestStep
<1>8. \A v \in Units : us[v] = IF v = u THEN row ELSE book.units[v]
  BY <1>6 DEF UnitsOK
<1>9. ps \in [Prs -> PrRow]
  <2>1. \A p \in Prs : [book.prs[p] EXCEPT !.linked = FALSE] \in PrRow
    <3>1. \A pr \in PrRow : [pr EXCEPT !.linked = FALSE] \in PrRow
      BY DEF PrRow
    <3> QED
      BY <1>6, <3>1
  <2> QED
    BY <1>6, <2>1
<1>10. us \in [Units -> UnitRow]
  BY <1>7 DEF UnitsOK
<1> HIDE DEF us, ps
<1>11. book' \in Book /\ book'.units = us /\ book'.phase = "paused"
  BY <1>2, <1>6, <1>9, <1>10 DEF Book
<1>12. BookOK(book')
  BY <1>7, <1>11 DEF BookOK
<1>13. Calm(book, book')
  BY <1>4, <1>8, <1>11 DEF Calm, Closed
<1> QED
  BY <1>11, <1>12, <1>13 DEF PlanOK, Told, Done, Holds

\* Rows change in a paused sprint, no status does.
LEMMA ReroutedOK ==
    ASSUME PlanOK(book), book.phase = "paused",
           NEW us \in [Units -> UnitRow],
           \A u \in Units : /\ Modest(book.units[u], us[u])
                            /\ us[u].status = book.units[u].status,
           book' = [book EXCEPT !.units = us]
    PROVE  PlanOK(book') /\ Holds(book, book')
<1>1. book \in Book /\ UnitsOK(book.units)
  BY DEF PlanOK, BookOK
<1>2. UnitsOK(us)
  BY <1>1, ModestSteps
<1>3. book' \in Book /\ book'.units = us /\ book'.phase = "paused"
  BY <1>1, UnitsUpdate
<1> QED
  BY <1>2, <1>3 DEF PlanOK, BookOK, Told, Done, Holds, Calm

LEMMA RerouteDeveloperOK ==
    ASSUME PlanOK(book), NEW d \in Devs, RerouteDeveloper(d)
    PROVE  PlanOK(book') /\ Holds(book, book')
<1> DEFINE us == [u \in Units |->
              IF u \in Lanes(book, d) /\ book.units[u].status # "merge_ready"
              THEN [book.units[u] EXCEPT !.task = "sent"] ELSE book.units[u]]
<1>1. book.phase = "paused" /\ book' = [book EXCEPT !.units = us]
  BY DEF RerouteDeveloper
<1>2. ASSUME NEW u \in Units
      PROVE  /\ Modest(book.units[u], us[u])
             /\ us[u].status = book.units[u].status
  <2>1. RowOK(book.units[u]) /\ book.units[u] \in UnitRow
    BY UnitRows DEF PlanOK
  <2>2. Modest(book.units[u], book.units[u])
    BY SameRow DEF PlanOK, BookOK
  <2>3. CASE u \in Lanes(book, d) /\ book.units[u].status # "merge_ready"
    <3> DEFINE old == book.units[u]
               row == [old EXCEPT !.task = "sent"]
    <3>1. us[u] = row
      BY <2>3
    <3>2. old.status \in Occupying /\ old.status # "ready"
      BY <2>3 DEF Lanes, RerouteDeveloper
    <3>3. /\ row \in UnitRow /\ row.status = old.status /\ row.dev = old.dev
          /\ row.needs = old.needs /\ row.via = old.via /\ row.ask = old.ask
          /\ row.rounds = old.rounds
      BY <2>1 DEF UnitRow, Mails
    <3> HIDE DEF row
    <3>4. Modest(old, row)
      BY <2>1, <3>2, <3>3 DEF Modest, RowOK, Assigned, Approved, Occupying
    <3> QED
      BY <3>1, <3>3, <3>4
  <2>4. CASE ~(u \in Lanes(book, d) /\ book.units[u].status # "merge_ready")
    BY <2>2, <2>4
  <2> QED
    BY <2>3, <2>4
<1>3. us \in [Units -> UnitRow]
  <2>1. \A u \in Units : us[u] \in UnitRow
    BY <1>2 DEF Modest, RowOK
  <2> QED
    BY <2>1
<1> HIDE DEF us
<1> QED
  BY <1>1, <1>2, <1>3, ReroutedOK

LEMMA RerouteReviewerOK ==
    ASSUME PlanOK(book), RerouteReviewer
    PROVE  PlanOK(book') /\ Holds(book, book')
<1> DEFINE us == [u \in Units |-> IF book.units[u].status = "in_review"
              THEN [book.units[u] EXCEPT !.ask = "sent"] ELSE book.units[u]]
<1>1. book.phase = "paused"
  BY DEF RerouteReviewer
<1>2. book' = [book EXCEPT !.units = us]
  <2>1. \A u \in Units : u \in {v \in Units : book.units[v].status = "in_review"}
                           <=> book.units[u].status = "in_review"
    OBVIOUS
  <2> QED
    BY <2>1 DEF RerouteReviewer
<1>3. ASSUME NEW u \in Units
      PROVE  /\ Modest(book.units[u], us[u])
             /\ us[u].status = book.units[u].status
  <2>1. RowOK(book.units[u]) /\ book.units[u] \in UnitRow
    BY UnitRows DEF PlanOK
  <2>2. Modest(book.units[u], book.units[u])
    BY SameRow DEF PlanOK, BookOK
  <2>3. CASE book.units[u].status = "in_review"
    <3> DEFINE old == book.units[u]
               row == [old EXCEPT !.ask = "sent"]
    <3>1. us[u] = row
      BY <2>3
    <3>2. /\ row \in UnitRow /\ row.status = old.status /\ row.dev = old.dev
          /\ row.needs = old.needs /\ row.via = old.via /\ row.task = old.task
      BY <2>1 DEF UnitRow, Mails
    <3> HIDE DEF row
    <3>3. Modest(old, row)
      BY <2>1, <2>3, <3>2 DEF Modest, RowOK, Assigned, Approved, Occupying
    <3> QED
      BY <3>1, <3>2, <3>3
  <2>4. CASE book.units[u].status # "in_review"
    BY <2>2, <2>4
  <2> QED
    BY <2>3, <2>4
<1>4. us \in [Units -> UnitRow]
  <2>1. \A u \in Units : us[u] \in UnitRow
    BY <1>3 DEF Modest, RowOK
  <2> QED
    BY <2>1
<1> HIDE DEF us
<1> QED
  BY <1>1, <1>2, <1>3, <1>4, ReroutedOK

LEMMA PausedNow ==
    ASSUME PlanOK(book), book.phase = "armed", book' = Paused(book)
    PROVE  PlanOK(book') /\ Holds(book, book')
  BY PausedOK DEF PlanOK, Told, Done, Holds

LEMMA AbortOK ==
    ASSUME PlanOK(book), Abort
    PROVE  PlanOK(book') /\ Holds(book, book')
<1>1. book \in Book /\ "aborted" \in Phases
  BY DEF PlanOK, BookOK, Phases
<1>2. book' \in Book /\ book'.units = book.units /\ book'.phase = "aborted"
  BY <1>1, PhaseUpdate DEF Abort
<1> QED
  BY <1>2 DEF PlanOK, BookOK, Told, Done, Holds

LEMMA ArmOK ==
    ASSUME PlanOK(book), NEW owner \in Owners, Arm(owner)
    PROVE  PlanOK(book') /\ Holds(book, book')
<1> DEFINE g == book.gen + 1
           a == [book EXCEPT !.phase = "armed", !.owner = owner, !.gen = g]
           d == Dispatched(a)
<1>1. /\ book.phase = "prepared" /\ MaxTerms > 0
      /\ book' = Announced(d)
  BY DEF Arm
<1>2. book \in Book /\ UnitsOK(book.units) /\ book.gen = 0
  BY <1>1 DEF PlanOK, BookOK
<1>3. g \in 0..MaxTerms
  BY <1>1, <1>2, SprintBounds
<1> HIDE DEF g
<1>4. a \in Book /\ a.units = book.units /\ a.phase = "armed"
  BY <1>2, <1>3 DEF Book, Phases
<1> HIDE DEF a
<1>5. BookOK(a)
  BY <1>2, <1>4 DEF BookOK
<1>6. BookOK(d) /\ d.phase = "armed"
  BY <1>4, <1>5, DispatchedOK
<1> HIDE DEF d
<1>7. BookOK(book') /\ Told(book') /\ book'.phase \in {"armed", "paused"}
  BY <1>1, <1>6, AnnouncedOK
<1> QED
  BY <1>1, <1>7 DEF PlanOK, Done, Holds

LEMMA DispatchReadyOK ==
    ASSUME PlanOK(book), DispatchReady
    PROVE  PlanOK(book') /\ Holds(book, book')
<1>1. book.phase = "armed" /\ book' = DispatchedIfArmed(Announced(book))
  BY DEF DispatchReady
<1>2. /\ BookOK(Announced(book)) /\ Told(Announced(book))
      /\ Announced(book).phase \in {"armed", "paused"}
  BY <1>1, AnnouncedOK DEF PlanOK
<1>3. BookOK(book') /\ Told(book') /\ book'.phase \in {"armed", "paused"}
  BY <1>1, <1>2, DispatchedIfArmedOK
<1> QED
  BY <1>1, <1>3 DEF PlanOK, Done, Holds

LEMMA CompleteSprintOK ==
    ASSUME PlanOK(book), CompleteSprint
    PROVE  PlanOK(book') /\ Holds(book, book')
<1>1. book \in Book /\ "completed" \in Phases
  BY DEF PlanOK, BookOK, Phases
<1>2. book.phase = "armed" /\ AllClosed(book)
  BY DEF CompleteSprint
<1>3. book' \in Book /\ book'.units = book.units /\ book'.phase = "completed"
  BY <1>1, PhaseUpdate DEF CompleteSprint
<1>4. AllClosed(book')
  BY <1>2, <1>3 DEF AllClosed, Exists
<1> QED
  BY <1>2, <1>3, <1>4 DEF PlanOK, BookOK, Told, Done, Holds

\* Fields that no property of the plan looks at.
LEMMA PlanUntouched ==
    ASSUME PlanOK(book), book' \in Book, SameWork(book, book'),
           book'.phase = book.phase, book'.notices = book.notices
    PROVE  PlanOK(book') /\ Holds(book, book')
<1>1. AllClosed(book') <=> AllClosed(book)
  BY DEF AllClosed, Exists, SameWork
<1>2. Notice(book') = Notice(book)
  BY DEF Notice, Exists, SameWork
<1> QED
  BY <1>1, <1>2 DEF PlanOK, BookOK, Told, Done, Holds, Calm, SameWork

LEMMA OwnerLeavesOK ==
    ASSUME PlanOK(book), NEW r \in Owners, OwnerLeaves(r)
    PROVE  PlanOK(book') /\ Holds(book, book')
<1> DEFINE fit == book.fit \ {r}
<1>1. book \in Book /\ fit \in SUBSET Owners
  BY BookFields DEF PlanOK, BookOK
<1>2. book' = [book EXCEPT !.fit = fit]
  BY DEF OwnerLeaves
<1> HIDE DEF fit
<1>3. /\ book' \in Book /\ book'.units = book.units
      /\ book'.owner = book.owner /\ book'.gen = book.gen
      /\ book'.phase = book.phase /\ book'.notices = book.notices
  BY <1>1, <1>2 DEF Book
<1> QED
  BY <1>3, PlanUntouched DEF SameWork

LEMMA DeliverMailOK ==
    ASSUME PlanOK(book), NEW u \in Units, DeliverMail(u)
    PROVE  PlanOK(book') /\ Holds(book, book')
<1> DEFINE old == book.units[u]
<1>1. RowOK(old) /\ old \in UnitRow
  BY UnitRows DEF PlanOK
<1>2. CASE old.task = "sent" /\ book' = [book EXCEPT !.units[u].task = "open"]
  <2> DEFINE row == [old EXCEPT !.task = "open"]
  <2>1. /\ row \in UnitRow /\ row.status = old.status /\ row.dev = old.dev
        /\ row.needs = old.needs /\ row.via = old.via /\ row.ask = old.ask
        /\ row.rounds = old.rounds /\ row.task = "open"
    BY <1>1 DEF UnitRow, Mails
  <2>2. book' = [book EXCEPT !.units[u] = row]
    BY <1>2
  <2> HIDE DEF row
  <2>3. Modest(old, row)
    BY <1>1, <1>2, <2>1 DEF Modest, RowOK, Assigned, Approved, Waiting
  <2> QED
    BY <2>1, <2>2, <2>3, UnitMoves
<1>3. CASE old.ask = "sent" /\ book' = [book EXCEPT !.units[u].ask = "open"]
  <2> DEFINE row == [old EXCEPT !.ask = "open"]
  <2>1. /\ row \in UnitRow /\ row.status = old.status /\ row.dev = old.dev
        /\ row.needs = old.needs /\ row.via = old.via /\ row.task = old.task
    BY <1>1 DEF UnitRow, Mails
  <2>2. book' = [book EXCEPT !.units[u] = row]
    BY <1>3
  <2> HIDE DEF row
  <2>3. Modest(old, row)
    BY <1>1, <1>3, <2>1 DEF Modest, RowOK, Assigned, Approved
  <2> QED
    BY <2>1, <2>2, <2>3, UnitMoves
<1> QED
  BY <1>2, <1>3 DEF DeliverMail

LEMMA OpenWorkIsUnfinished ==
    ASSUME PlanOK(book), NEW u \in Units,
           book.units[u].status \notin Closed \cup {"none"}
    PROVE  book.phase # "completed"
  BY DEF PlanOK, Done, AllClosed, Exists

LEMMA AcceptTaskOK ==
    ASSUME PlanOK(book), NEW u \in Units, AcceptTask(u)
    PROVE  PlanOK(book') /\ Holds(book, book')
<1> DEFINE old == book.units[u]
           st  == IF old.status = "ready" THEN "active" ELSE old.status
           row == [old EXCEPT !.task = "accepted", !.status = st]
<1>1. RowOK(old) /\ old \in UnitRow
  BY UnitRows DEF PlanOK
<1>2. /\ old.task = "open" /\ old.status \in {"ready", "active", "fixing"}
      /\ book' = [book EXCEPT !.units[u] = row]
  BY DEF AcceptTask
<1>3. st \in {"active", "fixing"}
  BY <1>2
<1> HIDE DEF st
<1>4. /\ row \in UnitRow /\ row.status = st /\ row.dev = old.dev
      /\ row.needs = old.needs /\ row.via = old.via
  BY <1>1, <1>3 DEF UnitRow, Mails, Statuses, Occupying
<1> HIDE DEF row
<1>5. Modest(old, row)
  BY <1>1, <1>2, <1>3, <1>4 DEF Modest, RowOK, Assigned, Approved, Occupying
<1>6. book.phase # "completed"
  BY <1>2, OpenWorkIsUnfinished DEF Closed
<1>7. row.status \notin Closed \cup {"none", "ready", "in_review", "merge_ready"}
  BY <1>3, <1>4 DEF Closed
<1> QED
  BY <1>2, <1>5, <1>6, <1>7, UnitMoves

LEMMA DeclineTaskOK ==
    ASSUME PlanOK(book), NEW u \in Units, DeclineTask(u)
    PROVE  PlanOK(book') /\ Holds(book, book')
<1> DEFINE old == book.units[u]
           st  == IF old.status = "ready" THEN "planned" ELSE old.status
           row == [old EXCEPT !.task = "declined", !.status = st]
<1>1. RowOK(old) /\ old \in UnitRow
  BY UnitRows DEF PlanOK
<1>2. old.task = "open" /\ book' = [book EXCEPT !.units[u] = row]
  BY DEF DeclineTask
<1>3. /\ st \in Statuses /\ st # "ready"
      /\ st = old.status \/ (st = "planned" /\ old.status = "ready")
  BY <1>1 DEF Statuses, UnitRow
<1> HIDE DEF st
<1>4. /\ row \in UnitRow /\ row.status = st /\ row.dev = old.dev
      /\ row.needs = old.needs /\ row.via = old.via /\ row.ask = old.ask
      /\ row.rounds = old.rounds /\ row.task = "declined"
  BY <1>1, <1>3 DEF UnitRow, Mails
<1> HIDE DEF row
<1>5. Modest(old, row)
  BY <1>1, <1>2, <1>3, <1>4
     DEF Modest, RowOK, Assigned, Approved, Occupying, Waiting
<1>6. old.status = "ready" => book.phase # "completed"
  BY OpenWorkIsUnfinished DEF Closed
<1>7. \/ row.status = old.status
      \/ row.status = "planned" /\ old.status = "ready"
  BY <1>3, <1>4
<1> QED
  BY <1>2, <1>5, <1>6, <1>7, UnitMoves DEF Closed

LEMMA FinishUnitOK ==
    ASSUME PlanOK(book), NEW u \in Units, FinishUnit(u)
    PROVE  PlanOK(book') /\ Holds(book, book')
<1> DEFINE old == book.units[u]
           row == [old EXCEPT !.status = "completed", !.via = "work"]
           c   == Announced([book EXCEPT !.units[u] = row])
<1>1. RowOK(old) /\ old \in UnitRow
  BY UnitRows DEF PlanOK
<1>2. old.status = "active" /\ book' = DispatchedIfArmed(c)
  BY DEF FinishUnit
<1>3. row \in UnitRow /\ row.status = "completed" /\ row.via = "work"
  BY <1>1 DEF UnitRow, Statuses, Closed
<1> HIDE DEF row
<1>4. Modest(old, row) /\ row.status \in Closed
  BY <1>1, <1>2, <1>3 DEF Modest, RowOK, Assigned, Approved, Occupying, Closed
<1>5. book.phase # "completed"
  BY <1>2, OpenWorkIsUnfinished DEF Closed
<1>6. PlanOK(c) /\ Holds(book, c)
  BY <1>4, <1>5, ClosingOK
<1> HIDE DEF c
<1>7. /\ BookOK(book') /\ book'.phase = c.phase /\ Told(book')
      /\ book'.phase # "armed" => book' = c
  BY <1>2, <1>6, DispatchedIfArmedOK DEF PlanOK
<1> QED
  BY <1>6, <1>7 DEF PlanOK, Done, Holds

-----------------------------------------------------------------------------
(* The plan and the pull requests.                                         *)

LaneTypes == hub \in [Prs -> HubRow] /\ held \in HeldRow

\* A change of a pull request's row leaves the plan as it is.
LEMMA PrChanged ==
    ASSUME PlanOK(book), NEW p \in Prs, NEW row \in PrRow,
           book' = [book EXCEPT !.prs[p] = row]
    PROVE  PlanOK(book') /\ Holds(book, book')
<1> DEFINE ps == [book.prs EXCEPT ![p] = row]
<1>1. book \in Book /\ book.prs \in [Prs -> PrRow]
  BY DEF PlanOK, BookOK, Book
<1>2. book' = [book EXCEPT !.prs = ps]
  OBVIOUS
<1>3. ps \in [Prs -> PrRow]
  BY <1>1
<1> HIDE DEF ps
<1>4. /\ book' \in Book /\ book'.units = book.units
      /\ book'.owner = book.owner /\ book'.gen = book.gen
      /\ book'.phase = book.phase /\ book'.notices = book.notices
  BY <1>1, <1>2, <1>3 DEF Book
<1> QED
  BY <1>4, PlanUntouched DEF SameWork

LEMMA DiscoverOK ==
    ASSUME PlanOK(book), LaneTypes, NEW p \in Prs, NEW d \in Devs,
           Discover(p, d)
    PROVE  PlanOK(book') /\ Holds(book, book') /\ LaneTypes'
<1> DEFINE row == [book.prs[p] EXCEPT !.watched = TRUE, !.owner = d]
<1>1. book.prs[p] \in PrRow
  BY DEF PlanOK, BookOK, Book
<1>2. row \in PrRow
  BY <1>1 DEF PrRow
<1>3. book' = [book EXCEPT !.prs[p] = row]
  BY DEF Discover
<1> HIDE DEF row
<1> QED
  BY <1>2, <1>3, PrChanged DEF Discover, LaneTypes

LEMMA RegisterPrOK ==
    ASSUME PlanOK(book), LaneTypes, NEW p \in Prs, NEW u \in Units,
           RegisterPr(p, u)
    PROVE  PlanOK(book') /\ Holds(book, book') /\ LaneTypes'
<1> DEFINE row == [book.prs[p] EXCEPT !.unit = u, !.owner = book.units[u].dev,
                                      !.linked = TRUE, !.watched = TRUE]
<1>1. book.prs[p] \in PrRow /\ book.units[u] \in UnitRow
  BY UnitRows DEF PlanOK, BookOK, Book
<1>2. u \in 0..MaxUnits /\ book.units[u].dev \in Devs
  BY <1>1, SprintBounds DEF Units, UnitRow
<1>3. row \in PrRow
  BY <1>1, <1>2 DEF PrRow
<1>4. book' = [book EXCEPT !.prs[p] = row]
  BY DEF RegisterPr
<1> HIDE DEF row
<1> QED
  BY <1>3, <1>4, PrChanged DEF RegisterPr, LaneTypes

LEMMA RequestReviewOK ==
    ASSUME PlanOK(book), NEW p \in Prs, NEW u \in Units, RequestReview(p, u)
    PROVE  PlanOK(book') /\ Holds(book, book')
<1> DEFINE old == book.units[u]
           row == [old EXCEPT !.status = "in_review", !.ask = "sent"]
<1>1. RowOK(old) /\ old \in UnitRow
  BY UnitRows DEF PlanOK
<1>2. /\ book.phase = "armed" /\ old.status \in {"active", "fixing", "in_review"}
      /\ book' = [book EXCEPT !.units[u] = row]
  BY DEF RequestReview
<1>3. /\ row \in UnitRow /\ row.status = "in_review" /\ row.dev = old.dev
      /\ row.needs = old.needs /\ row.via = old.via
  BY <1>1 DEF UnitRow, Mails, Statuses, Occupying
<1> HIDE DEF row
<1>4. Modest(old, row)
  BY <1>1, <1>2, <1>3 DEF Modest, RowOK, Assigned, Approved, Occupying
<1> QED
  BY <1>2, <1>3, <1>4, UnitMoves DEF Closed

LEMMA AnswerAskOK ==
    ASSUME PlanOK(book), NEW u \in Units, NEW answer \in {"accepted", "declined"},
           AnswerAsk(u, answer)
    PROVE  PlanOK(book') /\ Holds(book, book')
<1> DEFINE old == book.units[u]
           row == [old EXCEPT !.ask = answer]
<1>1. RowOK(old) /\ old \in UnitRow
  BY UnitRows DEF PlanOK
<1>2. old.ask = "open" /\ book' = [book EXCEPT !.units[u] = row]
  BY DEF AnswerAsk
<1>3. /\ row \in UnitRow /\ row.status = old.status /\ row.dev = old.dev
      /\ row.needs = old.needs /\ row.via = old.via /\ row.task = old.task
  BY <1>1 DEF UnitRow, Mails
<1> HIDE DEF row
<1>4. Modest(old, row)
  BY <1>1, <1>2, <1>3 DEF Modest, RowOK, Assigned, Approved
<1> QED
  BY <1>2, <1>3, <1>4, UnitMoves

LEMMA VerdictOK ==
    ASSUME PlanOK(book), NEW p \in Prs, NEW u \in Units,
           NEW approved \in BOOLEAN, Verdict(p, u, approved)
    PROVE  PlanOK(book') /\ Holds(book, book')
<1> DEFINE old == book.units[u]
           n   == old.rounds + 1
           st  == IF approved THEN "merge_ready" ELSE "fixing"
           row == [old EXCEPT !.rounds = n, !.status = st]
           judged == [book EXCEPT !.units[u] = row]
<1>1. RowOK(old) /\ old \in UnitRow
  BY UnitRows DEF PlanOK
<1>2. /\ book.phase = "armed" /\ n <= MaxRounds
      /\ old.ask = "accepted" /\ old.status = "in_review"
      /\ book' = Paused(judged) \/ book' = judged
  BY DEF Verdict
<1>3. n \in 0..MaxRounds /\ n > 0
  BY <1>1, <1>2, SprintBounds DEF UnitRow
<1> HIDE DEF n
<1>4. st \in {"merge_ready", "fixing"}
  OBVIOUS
<1> HIDE DEF st
<1>5. /\ row \in UnitRow /\ row.status = st /\ row.dev = old.dev
      /\ row.needs = old.needs /\ row.via = old.via /\ row.ask = old.ask
      /\ row.rounds = n
  BY <1>1, <1>3, <1>4 DEF UnitRow, Statuses, Occupying
<1> HIDE DEF row
<1>6. Modest(old, row)
  BY <1>1, <1>2, <1>3, <1>4, <1>5
     DEF Modest, RowOK, Assigned, Approved, Occupying
<1>7. PlanOK(judged)
  BY <1>2, <1>4, <1>5, <1>6, UnitMoves DEF Closed
<1> HIDE DEF judged
<1>8. PlanOK(Paused(judged))
  BY <1>7, PausedOK DEF PlanOK, Told, Done
<1> QED
  BY <1>2, <1>7, <1>8 DEF Holds

LEMMA PollRecordOK ==
    ASSUME PlanOK(book), LaneTypes, PollRecord
    PROVE  PlanOK(book') /\ Holds(book, book') /\ LaneTypes'
<1> DEFINE S == {held.poll}
           seen == [p \in S |-> held.seen]
<1>1. held.poll \in Prs /\ held.seen \in HubRow
  BY SprintBounds DEF PollRecord, LaneTypes, HeldRow, Prs
<1>2. S \in SUBSET Prs /\ seen \in [S -> HubRow]
  BY <1>1
<1>3. book' = Observed(book, seen, TRUE)
  BY DEF PollRecord
<1> HIDE DEF S, seen
<1>4. /\ BookOK(book') /\ Told(book')
      /\ \/ book'.phase = book.phase
         \/ book.phase = "armed" /\ book'.phase = "paused"
      /\ ~InPlay(book) => book'.units = book.units
      /\ book'.phase # "armed" => Calm(book, book')
  BY <1>2, <1>3, ObservedOK DEF PlanOK
<1>5. Done(book')
  BY <1>4 DEF PlanOK, Done, InPlay, AllClosed, Exists
<1>6. NoHub \in HubRow /\ 0 \in 0..MaxPrs
  BY SprintBounds DEF NoHub, HubRow, PrStates
<1>7. LaneTypes'
  BY <1>6 DEF PollRecord, LaneTypes, HeldRow
<1> QED
  BY <1>4, <1>5, <1>7 DEF PlanOK, Holds

LEMMA AllObservedOK ==
    ASSUME NEW b, BookOK(b), LaneTypes
    PROVE  LET c == AllObserved(b) IN
           /\ BookOK(c)
           /\ c.phase = b.phase \/ (b.phase = "armed" /\ c.phase = "paused")
           /\ Calm(b, c)
<1> DEFINE S == {q \in Prs : held.all[q].state # "none"}
           seen == [p \in S |-> held.all[p]]
<1>1. S \in SUBSET Prs /\ seen \in [S -> HubRow] /\ FALSE \in BOOLEAN
  BY DEF LaneTypes, HeldRow
<1>2. AllObserved(b) = Observed(b, seen, FALSE)
  BY DEF AllObserved
<1> HIDE DEF S, seen
<1> DEFINE c == Observed(b, seen, FALSE)
<1>3. /\ BookOK(c)
      /\ c.phase = b.phase \/ (b.phase = "armed" /\ c.phase = "paused")
      /\ FALSE = FALSE \/ c.phase # "armed" => Calm(b, c)
  BY <1>1, ObservedOK
<1> QED
  BY <1>2, <1>3

LEMMA ResumeCommitOK ==
    ASSUME PlanOK(book), LaneTypes, NEW owner \in Owners, NEW stuck \in BOOLEAN,
           ResumeCommit(owner, stuck)
    PROVE  PlanOK(book') /\ Holds(book, book') /\ LaneTypes'
<1> DEFINE g == IF owner = book.owner THEN book.gen ELSE book.gen + 1
           a == [book EXCEPT !.phase = "armed", !.owner = owner, !.gen = g]
           o == AllObserved(a)
           r == Reprojected(o)
           t == Announced(r)
<1>1. /\ book.phase = "paused"
      /\ owner = book.owner \/ book.gen < MaxTerms
      /\ book' = IF stuck THEN Paused(o) ELSE DispatchedIfArmed(t)
  BY DEF ResumeCommit
<1>2. book \in Book /\ UnitsOK(book.units) /\ book.gen \in 0..MaxTerms
  BY BookFields DEF PlanOK, BookOK
<1>3. g \in 0..MaxTerms
  BY <1>1, <1>2, SprintBounds
<1> HIDE DEF g
<1>4. a \in Book /\ a.units = book.units /\ a.phase = "armed"
  BY <1>2, <1>3 DEF Book, Phases
<1> HIDE DEF a
<1>5. BookOK(a) /\ Calm(book, a)
  BY <1>2, <1>4 DEF BookOK, Calm
<1>6. BookOK(o) /\ o.phase \in {"armed", "paused"} /\ Calm(a, o)
  BY <1>4, <1>5, AllObservedOK
<1> HIDE DEF o
<1>7. BookOK(r) /\ r.phase \in {"armed", "paused"} /\ Calm(o, r)
  BY <1>6, ReprojectedOK
<1> HIDE DEF r
<1>8. /\ BookOK(t) /\ t.phase \in {"armed", "paused"} /\ t.units = r.units
      /\ Told(t)
  BY <1>7, AnnouncedOK DEF SameWork
<1> HIDE DEF t
<1>9. Calm(book, o) /\ Calm(book, t)
  BY <1>5, <1>6, <1>7, <1>8 DEF Calm
<1>10. ASSUME stuck PROVE PlanOK(book') /\ Holds(book, book')
  <2>1. /\ BookOK(book') /\ book'.phase = "paused" /\ book'.units = o.units
    BY <1>1, <1>6, <1>10, PausedOK DEF SameWork
  <2> QED
    BY <1>9, <2>1 DEF PlanOK, Told, Done, Holds, Calm
<1>11. ASSUME ~stuck PROVE PlanOK(book') /\ Holds(book, book')
  <2>1. /\ BookOK(book') /\ book'.phase = t.phase /\ Told(book')
        /\ book'.phase # "armed" => book' = t
    BY <1>1, <1>8, <1>11, DispatchedIfArmedOK
  <2> QED
    BY <1>8, <1>9, <2>1 DEF PlanOK, Done, Holds
<1>12. LaneTypes'
  <2>1. NoHeld.all \in [Prs -> HubRow]
    BY SprintBounds DEF NoHeld, NoHub, HubRow, PrStates
  <2> QED
    BY <2>1 DEF ResumeCommit, LaneTypes, HeldRow
<1> QED
  BY <1>10, <1>11, <1>12

LEMMA NoHeldOK == NoHeld \in HeldRow /\ NoHub \in HubRow
  BY SprintBounds DEF NoHeld, NoHub, HubRow, HeldRow, PrStates

LEMMA RestartOK ==
    ASSUME PlanOK(book), LaneTypes, Restart
    PROVE  PlanOK(book') /\ Holds(book, book') /\ LaneTypes'
<1> DEFINE r == Reprojected(book)
<1>1. book' = IF book.phase = "armed" THEN Announced(r) ELSE book
  BY DEF Restart
<1>2. LaneTypes'
  BY NoHeldOK DEF Restart, LaneTypes
<1>3. CASE book.phase = "armed"
  <2>1. BookOK(r) /\ r.phase \in {"armed", "paused"}
    BY <1>3, ReprojectedOK DEF PlanOK
  <2> HIDE DEF r
  <2>2. BookOK(book') /\ Told(book') /\ book'.phase \in {"armed", "paused"}
    BY <1>1, <1>3, <2>1, AnnouncedOK
  <2> QED
    BY <1>2, <1>3, <2>2 DEF PlanOK, Done, Holds
<1>4. CASE book.phase # "armed"
  BY <1>1, <1>2, <1>4 DEF Holds, Calm
<1> QED
  BY <1>3, <1>4

-----------------------------------------------------------------------------
(* Every step of a sprint keeps the plan.                                  *)

PlanInv == PlanOK(book) /\ LaneTypes /\ agenda \in AgendaRow

LEMMA SpendOK ==
    ASSUME agenda \in AgendaRow,
           NEW item \in {"finds", "verbs", "refusals", "pushes", "losses",
                         "faults"},
           Spend(item)
    PROVE  agenda' \in AgendaRow
<1>1. agenda[item] \in Nat /\ agenda[item] - 1 \in Nat
  BY DEF AgendaRow, Spend
<1>2. agenda' = [agenda EXCEPT ![item] = agenda[item] - 1]
  BY DEF Spend
<1> QED
  BY <1>1, <1>2 DEF AgendaRow

LEMMA SamePlan ==
    ASSUME PlanOK(book), UNCHANGED book
    PROVE  PlanOK(book') /\ Holds(book, book')
  BY DEF Holds, Calm

LEMMA HubMoves ==
    ASSUME LaneTypes, NEW p \in Prs, NEW state \in PrStates,
           OpenPr(p) \/ Push(p) \/ Checks(p, state) \/ CloseOnHub(p, state)
    PROVE  LaneTypes' /\ UNCHANGED book
<1>1. hub \in [Prs -> HubRow] /\ hub[p] \in HubRow
  BY DEF LaneTypes
<1>2. CASE Push(p)
  <2>1. hub[p].head + 1 \in 0..MaxHeads
    BY <1>1, <1>2, SprintBounds DEF Push, HubRow
  <2>2. [state |-> "created", head |-> hub[p].head + 1] \in HubRow
    BY <2>1 DEF HubRow, PrStates
  <2>3. hub' = [hub EXCEPT ![p] = [state |-> "created", head |-> hub[p].head + 1]]
    BY <1>2 DEF Push
  <2> QED
    BY <1>1, <1>2, <2>2, <2>3 DEF Push, LaneTypes
<1>3. ASSUME hub' = [hub EXCEPT ![p].state = state]
      PROVE  hub' \in [Prs -> HubRow]
  <2>1. [hub[p] EXCEPT !.state = state] \in HubRow
    BY <1>1 DEF HubRow
  <2>2. hub' = [hub EXCEPT ![p] = [hub[p] EXCEPT !.state = state]]
    BY <1>3
  <2> QED
    BY <1>1, <2>1, <2>2
<1>4. CASE Checks(p, state)
  BY <1>3, <1>4 DEF Checks, LaneTypes
<1>5. CASE CloseOnHub(p, state)
  BY <1>3, <1>5 DEF CloseOnHub, LaneTypes
<1>6. CASE OpenPr(p)
  <2>1. [state |-> "created", head |-> 1] \in HubRow
    BY SprintBounds DEF HubRow, PrStates
  <2> QED
    BY <1>1, <1>6, <2>1 DEF OpenPr, LaneTypes
<1> QED
  BY <1>2, <1>4, <1>5, <1>6

LEMMA HeldReads ==
    ASSUME PlanOK(book), LaneTypes,
           (\E p \in Prs : PollRead(p)) \/ ResumeRead \/ ResumeRefused
    PROVE  LaneTypes' /\ UNCHANGED book
<1>1. ASSUME NEW p \in Prs, PollRead(p) PROVE LaneTypes'
  <2>1. p \in 0..MaxPrs /\ hub[p] \in HubRow
    BY SprintBounds DEF LaneTypes, Prs
  <2> QED
    BY <1>1, <2>1 DEF PollRead, LaneTypes, HeldRow
<1>2. ASSUME ResumeRead PROVE LaneTypes'
  <2>1. [p \in Prs |-> IF Registered(book, p) THEN hub[p] ELSE NoHub]
          \in [Prs -> HubRow]
    BY NoHeldOK DEF LaneTypes
  <2> QED
    BY <1>2, <2>1 DEF ResumeRead, LaneTypes, HeldRow
<1>3. ASSUME ResumeRefused PROVE LaneTypes'
  <2>1. NoHeld.all \in [Prs -> HubRow]
    BY NoHeldOK DEF NoHeld
  <2> QED
    BY <1>3, <2>1 DEF ResumeRefused, LaneTypes, HeldRow
<1>4. UNCHANGED book
  BY DEF PollRead, ResumeRead, ResumeRefused
<1> QED
  BY <1>1, <1>2, <1>3, <1>4

LEMMA PlanStep ==
    ASSUME PlanInv, Plan
    PROVE  PlanInv' /\ Holds(book, book')
<1> DEFINE next == Head(agenda.plan)
<1>1. agenda.plan \in Seq(Devs \X BOOLEAN \X SUBSET Units) /\ agenda.plan # <<>>
  BY DEF PlanInv, AgendaRow, Plan
<1>2. next \in Devs \X BOOLEAN \X SUBSET Units
      /\ Tail(agenda.plan) \in Seq(Devs \X BOOLEAN \X SUBSET Units)
  BY <1>1
<1>3. next[1] \in Devs /\ next[2] \in BOOLEAN /\ next[3] \in SUBSET Units
  BY <1>2
<1>4. PICK u \in Units : AddUnit(u, next[1], next[2], next[3])
  BY DEF Plan
<1> HIDE DEF next
<1>5. PlanOK(book') /\ Holds(book, book')
  BY <1>3, <1>4, AddUnitOK DEF PlanInv
<1>6. agenda' \in AgendaRow
  BY <1>2 DEF Plan, PlanInv, AgendaRow
<1> QED
  BY <1>5, <1>6 DEF PlanInv, LaneTypes, Plan

LEMMA VerbStep ==
    ASSUME PlanInv, PlannerVerb
    PROVE  PlanInv' /\ Holds(book, book')
<1>1. agenda' \in AgendaRow
  BY SpendOK DEF PlannerVerb, PlanInv
<1>2. LaneTypes'
  BY DEF PlannerVerb, PlanInv, LaneTypes
<1>3. PlanOK(book)
  BY DEF PlanInv
<1>4. ASSUME NEW u \in Units, NEW d \in Devs, NEW needs \in SUBSET Units,
             Replan(u, d, needs)
      PROVE  PlanOK(book') /\ Holds(book, book')
  BY <1>3, <1>4, ReplanOK
<1>5. ASSUME NEW u \in Units, CancelUnit(u)
      PROVE  PlanOK(book') /\ Holds(book, book')
  BY <1>3, <1>5, CancelUnitOK
<1>6. ASSUME NEW u \in Units, RecallUnit(u)
      PROVE  PlanOK(book') /\ Holds(book, book')
  BY <1>3, <1>6, RecallUnitOK
<1>7. ASSUME NEW u \in Units, NEW ending \in Closed, ResolveUnit(u, ending)
      PROVE  PlanOK(book') /\ Holds(book, book')
  BY <1>3, <1>7, ResolveUnitOK
<1>8. ASSUME NEW d \in Devs, RerouteDeveloper(d)
      PROVE  PlanOK(book') /\ Holds(book, book')
  BY <1>3, <1>8, RerouteDeveloperOK
<1>9. ASSUME RerouteReviewer PROVE PlanOK(book') /\ Holds(book, book')
  BY <1>3, <1>9, RerouteReviewerOK
<1>10. ASSUME Pause PROVE PlanOK(book') /\ Holds(book, book')
  BY <1>3, <1>10, PausedNow DEF Pause
<1>11. ASSUME Abort PROVE PlanOK(book') /\ Holds(book, book')
  BY <1>3, <1>11, AbortOK
<1>12. PlanOK(book') /\ Holds(book, book')
  BY <1>4, <1>5, <1>6, <1>7, <1>8, <1>9, <1>10, <1>11 DEF PlannerVerb
<1> QED
  BY <1>1, <1>2, <1>12 DEF PlanInv

LEMMA ReviewStep ==
    ASSUME PlanInv, Review
    PROVE  PlanInv' /\ Holds(book, book')
<1>1. agenda' \in AgendaRow /\ PlanOK(book) /\ LaneTypes
  BY DEF Review, PlanInv
<1>2. 1..agenda.prs \subseteq Prs
  BY SprintBounds DEF PlanInv, AgendaRow, Prs
<1>3. ASSUME NEW p \in 1..agenda.prs, NEW u \in Units, RegisterPr(p, u)
      PROVE  PlanOK(book') /\ Holds(book, book') /\ LaneTypes'
  <2>1. p \in Prs
    BY <1>2
  <2> QED
    BY <1>1, <1>3, <2>1, RegisterPrOK
<1>8. ASSUME NEW p \in 1..agenda.prs, OpenPr(p)
      PROVE  PlanOK(book') /\ Holds(book, book') /\ LaneTypes'
  <2>1. p \in Prs
    BY <1>2
  <2>2. LaneTypes' /\ UNCHANGED book
    BY <1>1, <1>8, <2>1, HubMoves DEF PrStates
  <2> QED
    BY <1>1, <2>2, SamePlan
<1>4. ASSUME NEW p \in Prs, NEW u \in Units, RequestReview(p, u)
      PROVE  PlanOK(book') /\ Holds(book, book') /\ LaneTypes'
  <2>1. LaneTypes'
    BY <1>1, <1>4 DEF RequestReview, LaneTypes
  <2> QED
    BY <1>1, <1>4, <2>1, RequestReviewOK
<1>5. ASSUME NEW p \in Prs, NEW u \in Units, Verdict(p, u, TRUE)
      PROVE  PlanOK(book') /\ Holds(book, book') /\ LaneTypes'
  <2>1. LaneTypes'
    BY <1>1, <1>5 DEF Verdict, LaneTypes
  <2> QED
    BY <1>1, <1>5, <2>1, VerdictOK
<1>6. ASSUME NEW u \in Units, AnswerAsk(u, "accepted")
      PROVE  PlanOK(book') /\ Holds(book, book') /\ LaneTypes'
  <2>1. LaneTypes'
    BY <1>1, <1>6 DEF AnswerAsk, LaneTypes
  <2> QED
    BY <1>1, <1>6, <2>1, AnswerAskOK
<1>7. ASSUME NEW p \in Prs, Checks(p, "green") \/ CloseOnHub(p, "merged")
      PROVE  PlanOK(book') /\ Holds(book, book') /\ LaneTypes'
  <2>1. LaneTypes' /\ UNCHANGED book
    BY <1>1, <1>7, HubMoves DEF PrStates
  <2> QED
    BY <1>1, <2>1, SamePlan
<1>9. PlanOK(book') /\ Holds(book, book') /\ LaneTypes'
  BY <1>3, <1>4, <1>5, <1>6, <1>7, <1>8 DEF Review
<1> QED
  BY <1>1, <1>9 DEF PlanInv

LEMMA RefusalStep ==
    ASSUME PlanInv, Refusal
    PROVE  PlanInv' /\ Holds(book, book')
<1>1. agenda' \in AgendaRow
  BY SpendOK DEF Refusal, PlanInv
<1>2. PlanOK(book) /\ LaneTypes
  BY DEF PlanInv
<1>3. LaneTypes'
  BY <1>2 DEF Refusal, AnswerAsk, Verdict, LaneTypes
<1>4. ASSUME SystemPauses PROVE PlanOK(book') /\ Holds(book, book')
  BY <1>2, <1>4, PausedNow DEF SystemPauses
<1>5. ASSUME NEW u \in Units, DeclineTask(u)
      PROVE  PlanOK(book') /\ Holds(book, book')
  BY <1>2, <1>5, DeclineTaskOK
<1>6. ASSUME NEW u \in Units, AnswerAsk(u, "declined")
      PROVE  PlanOK(book') /\ Holds(book, book')
  BY <1>2, <1>6, AnswerAskOK
<1>7. ASSUME NEW p \in Prs, NEW u \in Units, Verdict(p, u, FALSE)
      PROVE  PlanOK(book') /\ Holds(book, book')
  BY <1>2, <1>7, VerdictOK
<1>8. PlanOK(book') /\ Holds(book, book')
  BY <1>4, <1>5, <1>6, <1>7 DEF Refusal
<1> QED
  BY <1>1, <1>3, <1>8 DEF PlanInv

LEMMA FindingStep ==
    ASSUME PlanInv, Finding
    PROVE  PlanInv' /\ Holds(book, book')
<1>1. PlanOK(book) /\ LaneTypes
  BY DEF PlanInv
<1>2. PICK p \in Prs, d \in Devs : Discover(p, d)
  BY DEF Finding
<1>3. PlanOK(book') /\ Holds(book, book') /\ LaneTypes'
  BY <1>1, <1>2, DiscoverOK
<1>4. agenda' \in AgendaRow
  BY SpendOK DEF Finding, PlanInv
<1> QED
  BY <1>3, <1>4 DEF PlanInv

LEMMA SprintPlanStep ==
    ASSUME PlanInv, [SprintNext]_svars
    PROVE  PlanInv' /\ Holds(book, book')
<1>1. PlanOK(book) /\ LaneTypes /\ agenda \in AgendaRow
  BY DEF PlanInv
<1>2. ASSUME UNCHANGED <<book, hub, held>>, agenda' \in AgendaRow
      PROVE  PlanInv' /\ Holds(book, book')
  BY <1>1, <1>2, SamePlan DEF PlanInv, LaneTypes
<1>3. CASE Lifecycle
  <2>1. ASSUME NEW r \in Owners, Arm(r)
        PROVE  PlanOK(book') /\ Holds(book, book')
    BY <1>1, <2>1, ArmOK
  <2>2. ASSUME DispatchReady PROVE PlanOK(book') /\ Holds(book, book')
    BY <1>1, <2>2, DispatchReadyOK
  <2> QED
    BY <1>1, <1>3, <2>1, <2>2 DEF Lifecycle, PlanInv, LaneTypes
<1>4. CASE Developer
  <2>1. PICK u \in Units : DeliverMail(u) \/ AcceptTask(u) \/ FinishUnit(u)
    BY <1>4 DEF Developer
  <2>2. PlanOK(book') /\ Holds(book, book')
    BY <1>1, <2>1, DeliverMailOK, AcceptTaskOK, FinishUnitOK
  <2> QED
    BY <1>1, <1>4, <2>2 DEF Developer, PlanInv, LaneTypes
<1>5. CASE Rework
  <2>1. LaneTypes' /\ UNCHANGED book
    BY <1>1, <1>5, HubMoves DEF Rework, PrStates
  <2>2. agenda' \in AgendaRow
    BY <1>1, <1>5, SpendOK DEF Rework
  <2> QED
    BY <1>1, <2>1, <2>2, SamePlan DEF PlanInv
<1>6. CASE Loss
  <2>1. agenda' \in AgendaRow
    BY <1>1, <1>6, SpendOK DEF Loss
  <2>2. ASSUME NEW r \in Owners, OwnerLeaves(r), UNCHANGED <<hub, held>>
        PROVE  PlanOK(book') /\ Holds(book, book') /\ LaneTypes'
    BY <1>1, <2>2, OwnerLeavesOK DEF LaneTypes
  <2>3. ASSUME Restart
        PROVE  PlanOK(book') /\ Holds(book, book') /\ LaneTypes'
    BY <1>1, <2>3, RestartOK
  <2> QED
    BY <1>6, <2>1, <2>2, <2>3 DEF Loss, PlanInv
<1>7. CASE (Watch \/ Resume) /\ UNCHANGED agenda
  <2>1. ASSUME (\E p \in Prs : PollRead(p)) \/ ResumeRead \/ ResumeRefused
        PROVE  PlanOK(book') /\ Holds(book, book') /\ LaneTypes'
    BY <1>1, <2>1, HeldReads, SamePlan
  <2>2. ASSUME PollRecord
        PROVE  PlanOK(book') /\ Holds(book, book') /\ LaneTypes'
    BY <1>1, <2>2, PollRecordOK
  <2>3. ASSUME NEW r \in Owners, NEW stuck \in BOOLEAN, ResumeCommit(r, stuck)
        PROVE  PlanOK(book') /\ Holds(book, book') /\ LaneTypes'
    BY <1>1, <2>3, ResumeCommitOK
  <2> QED
    BY <1>1, <1>7, <2>1, <2>2, <2>3 DEF Watch, Resume, PlanInv
<1>8. CASE Completion
  BY <1>1, <1>8, CompleteSprintOK DEF Completion, PlanInv, LaneTypes
<1>9. CASE Sweep /\ UNCHANGED agenda /\ Quiet
  BY <1>1, <1>2, <1>9 DEF Quiet
<1>10. CASE Mishap /\ Quiet
  <2>1. agenda' \in AgendaRow
    BY <1>1, <1>10, SpendOK DEF Mishap
  <2> QED
    BY <1>2, <1>10, <2>1 DEF Quiet
<1>11. CASE UNCHANGED svars
  BY <1>1, <1>2, <1>11 DEF svars
<1> QED
  BY <1>3, <1>4, <1>5, <1>6, <1>7, <1>8, <1>9, <1>10, <1>11,
     PlanStep, VerbStep, ReviewStep, FindingStep, RefusalStep DEF SprintNext

-----------------------------------------------------------------------------
(* The cleanup: the lock is held by whoever is inside it.                  *)

Inside == {"locked", "recorded", "deleting", "removed"}

CleanupInv ==
    /\ target \in TargetRow
    /\ hands \in [Executors -> Hand]
    /\ \A e \in Executors : hands[e].at \in Inside => lock = e
    /\ \A e \in Executors : hands[e].at = "removed" => tree = "gone"
    /\ SuccessMeansGone

Superseded ==
    \A e \in Executors :
        hands[e].at # "idle" /\ ~hands[e].mine /\ hands'[e] # hands[e]
          => target' = target

LEMMA HandsMove ==
    ASSUME CleanupInv, NEW e \in Executors, NEW at \in Steps
    PROVE  /\ Goes(e, at) => /\ hands' \in [Executors -> Hand]
                             /\ hands'[e].at = at
                             /\ \A f \in Executors \ {e} : hands'[f] = hands[f]
           /\ Leaves(e) => /\ hands' \in [Executors -> Hand]
                           /\ hands'[e].at = "idle"
                           /\ \A f \in Executors \ {e} : hands'[f] = hands[f]
<1>1. hands \in [Executors -> Hand] /\ hands[e] \in Hand
  BY DEF CleanupInv
<1>2. NoHand \in Hand /\ NoHand.at = "idle"
  BY DEF NoHand, Hand, Steps
<1>3. ASSUME Goes(e, at)
      PROVE  /\ hands' \in [Executors -> Hand] /\ hands'[e].at = at
             /\ \A f \in Executors \ {e} : hands'[f] = hands[f]
  <2> DEFINE h == [hands[e] EXCEPT !.at = at]
  <2>1. h \in Hand /\ h.at = at
    BY <1>1 DEF Hand
  <2>2. hands' = [hands EXCEPT ![e] = h]
    BY <1>3 DEF Goes
  <2> HIDE DEF h
  <2> QED
    BY <1>1, <2>1, <2>2
<1>4. ASSUME Leaves(e)
      PROVE  /\ hands' \in [Executors -> Hand] /\ hands'[e].at = "idle"
             /\ \A f \in Executors \ {e} : hands'[f] = hands[f]
  BY <1>1, <1>2, <1>4 DEF Leaves
<1> QED
  BY <1>3, <1>4

LEMMA RowsWritten ==
    ASSUME target \in TargetRow
    PROVE  /\ \A st \in {"pending", "running", "succeeded", "failed"} :
                LET row == [target EXCEPT !.state = st] IN
                row \in TargetRow /\ row.state = st
           /\ LET row == [target EXCEPT !.state = "pending", !.waits = TRUE] IN
              row \in TargetRow /\ row.state = "pending"
           /\ LET row == [target EXCEPT !.state = "running", !.lapsed = FALSE,
                                        !.waits = FALSE] IN
              row \in TargetRow /\ row.state = "running"
           /\ LET row == [target EXCEPT !.state = "pending", !.lapsed = FALSE] IN
              row \in TargetRow /\ row.state = "pending"
           /\ \A row \in {[target EXCEPT !.waits = FALSE],
                          [target EXCEPT !.lapsed = TRUE],
                          [target EXCEPT !.tries =
                             IF @ = MaxTries THEN @ ELSE @ + 1]} :
                row \in TargetRow /\ row.state = target.state
<1>1. MaxTries \in Nat
  BY CleanupBounds
<1>2. target.tries \in 0..MaxTries
  BY DEF TargetRow
<1> DEFINE n == IF target.tries = MaxTries THEN target.tries ELSE target.tries + 1
<1>3. n \in 0..MaxTries
  BY <1>1, <1>2
<1> HIDE DEF n
<1>4. /\ [target EXCEPT !.tries = n] \in TargetRow
      /\ [target EXCEPT !.tries = n].state = target.state
  BY <1>3 DEF TargetRow
<1>5. [target EXCEPT !.tries = IF @ = MaxTries THEN @ ELSE @ + 1]
        = [target EXCEPT !.tries = n]
  BY DEF n
<1>6. \A st \in {"pending", "running", "succeeded", "failed"} :
        /\ [target EXCEPT !.state = st] \in TargetRow
        /\ [target EXCEPT !.state = st].state = st
  BY DEF TargetRow
<1>7. /\ [target EXCEPT !.state = "pending", !.waits = TRUE] \in TargetRow
      /\ [target EXCEPT !.state = "pending", !.waits = TRUE].state = "pending"
  BY DEF TargetRow
<1>8. /\ [target EXCEPT !.state = "running", !.lapsed = FALSE, !.waits = FALSE]
           \in TargetRow
      /\ [target EXCEPT !.state = "running", !.lapsed = FALSE,
                        !.waits = FALSE].state = "running"
  BY DEF TargetRow
<1>9. /\ [target EXCEPT !.state = "pending", !.lapsed = FALSE] \in TargetRow
      /\ [target EXCEPT !.state = "pending", !.lapsed = FALSE].state = "pending"
  BY DEF TargetRow
<1>10. /\ [target EXCEPT !.waits = FALSE] \in TargetRow
       /\ [target EXCEPT !.waits = FALSE].state = target.state
       /\ [target EXCEPT !.lapsed = TRUE] \in TargetRow
       /\ [target EXCEPT !.lapsed = TRUE].state = target.state
  BY DEF TargetRow
<1> QED
  BY <1>4, <1>5, <1>6, <1>7, <1>8, <1>9, <1>10

\* Steps outside the removal: a row that is not newly succeeded, and hands
\* that enter the lock only when it is free.
LEMMA CleanupKept ==
    ASSUME CleanupInv,
           target' \in TargetRow, hands' \in [Executors -> Hand],
           \A e \in Executors : hands'[e].at \in Inside => lock' = e,
           tree' = tree,
           \A e \in Executors : hands'[e].at = "removed"
                                  => hands[e].at = "removed",
           target'.state = "succeeded" =>
             target.state = "succeeded" \/ tree = "gone"
    PROVE  CleanupInv'
  BY DEF CleanupInv, SuccessMeansGone

LEMMA ExecutorStepOK ==
    ASSUME CleanupInv, NEW e \in Executors, ExecutorStep(e)
    PROVE  CleanupInv' /\ Superseded
<1> DEFINE Others == \A f \in Executors \ {e} : hands'[f] = hands[f]
<1>1. target \in TargetRow /\ hands \in [Executors -> Hand] /\ hands[e] \in Hand
  BY DEF CleanupInv
<1>2. /\ \A f \in Executors : hands[f].at \in Inside => lock = f
      /\ \A f \in Executors : hands[f].at = "removed" => tree = "gone"
      /\ SuccessMeansGone /\ "free" \notin Executors
  BY CleanupBounds DEF CleanupInv
\* What the hands of e may do, whatever the rest of the step is.
<1>3. ASSUME NEW at \in Steps, Goes(e, at)
      PROVE  hands' \in [Executors -> Hand] /\ hands'[e].at = at /\ Others
  BY <1>3, HandsMove
<1>4. ASSUME Leaves(e)
      PROVE  hands' \in [Executors -> Hand] /\ hands'[e].at = "idle" /\ Others
  BY <1>4, HandsMove DEF Steps
\* The others stay outside the lock while e is inside it.
<1>5. ASSUME Others, hands[e].at \in Inside \/ lock' = lock,
             hands'[e].at \in Inside => lock' = e
      PROVE  \A f \in Executors : hands'[f].at \in Inside => lock' = f
  BY <1>2, <1>5
<1>6. ASSUME Others,
             Current(e) \/ target' = target \/ hands[e].at = "idle"
      PROVE  Superseded
  BY <1>6 DEF Superseded, Current
<1>7. CASE ClaimTarget(e)
  <2>1. target' \in TargetRow /\ target'.state = "running"
    BY <1>1, <1>7, RowsWritten DEF ClaimTarget
  <2>2. \A f \in Executors : hands'[f] = IF f = e
           THEN [at |-> "claimed", mine |-> TRUE]
           ELSE [hands[f] EXCEPT !.mine = FALSE]
    BY <1>7 DEF ClaimTarget
  <2>3. \A f \in Executors \ {e} :
           /\ hands'[f] \in Hand /\ hands'[f].at = hands[f].at
           /\ ~hands[f].mine => hands'[f] = hands[f]
    <3>1. \A h \in Hand : LET h2 == [h EXCEPT !.mine = FALSE] IN
             h2 \in Hand /\ h2.at = h.at /\ (~h.mine => h2 = h)
      BY DEF Hand
    <3>2. ASSUME NEW f \in Executors \ {e}
          PROVE  hands[f] \in Hand /\ hands'[f] = [hands[f] EXCEPT !.mine = FALSE]
      BY <1>1, <2>2
    <3> QED
      BY <3>1, <3>2
  <2>4. hands'[e] \in Hand /\ hands'[e].at = "claimed"
    <3>1. hands'[e] = [at |-> "claimed", mine |-> TRUE]
      BY <2>2
    <3> QED
      BY <3>1 DEF Hand, Steps
  <2>5. hands' \in [Executors -> Hand]
    BY <1>7, <2>3, <2>4 DEF ClaimTarget
  <2>6. hands[e].at = "idle" /\ UNCHANGED <<tree, lock>>
    BY <1>7 DEF ClaimTarget
  <2>7. \A f \in Executors : hands'[f].at \in Inside => lock' = f
    BY <1>2, <2>3, <2>4, <2>6 DEF Inside
  <2>8. CleanupInv'
    BY <2>1, <2>3, <2>4, <2>5, <2>6, <2>7, CleanupKept
  <2> QED
    BY <2>3, <2>6, <2>8 DEF Superseded
<1>8. CASE TakeLock(e)
  <2>1. hands' \in [Executors -> Hand] /\ hands'[e].at = "locked" /\ Others
    BY <1>3, <1>8 DEF TakeLock, Steps
  <2>2. \A f \in Executors : hands'[f].at \in Inside => lock' = f
    BY <1>2, <1>8, <2>1 DEF TakeLock
  <2>3. CleanupInv'
    BY <1>1, <1>2, <1>8, <2>1, <2>2, CleanupKept DEF TakeLock
  <2> QED
    BY <1>6, <1>8, <2>1, <2>3 DEF TakeLock
<1>9. CASE LockBusy(e)
  <2>1. hands' \in [Executors -> Hand] /\ hands'[e].at = "idle" /\ Others
    BY <1>4, <1>9 DEF LockBusy
  <2>2. UNCHANGED <<tree, lock>> /\ (Current(e) \/ target' = target)
    BY <1>9 DEF LockBusy, Fenced
  <2>3. \A f \in Executors : hands'[f].at \in Inside => lock' = f
    BY <1>5, <2>1, <2>2 DEF Inside
  <2>4. /\ target' \in TargetRow
        /\ target'.state = "succeeded" => target.state = "succeeded"
    BY <1>1, <1>9, RowsWritten DEF LockBusy, Fenced
  <2>5. CleanupInv'
    BY <2>1, <2>2, <2>3, <2>4, CleanupKept
  <2> QED
    BY <1>6, <2>1, <2>2, <2>5
<1>10. CASE Inspect(e)
  <2>1. hands[e].at = "locked" /\ UNCHANGED <<target, tree>>
    BY <1>10 DEF Inspect
  <2>2. /\ hands' \in [Executors -> Hand] /\ Others
        /\ \/ hands'[e].at \in {"idle", "unsafe"}
           \/ hands'[e].at = "recorded" /\ lock' = lock
    BY <1>3, <1>4, <1>10 DEF Inspect, Steps
  <2>3. \A f \in Executors : hands'[f].at \in Inside => lock' = f
    BY <1>2, <1>5, <2>1, <2>2 DEF Inside
  <2>4. CleanupInv'
    BY <1>1, <1>2, <2>1, <2>2, <2>3, CleanupKept
  <2> QED
    BY <1>6, <2>1, <2>2, <2>4
<1>11. CASE BeginAttempt(e)
  <2>1. hands[e].at = "recorded" /\ UNCHANGED tree
        /\ (Current(e) \/ target' = target)
    BY <1>11 DEF BeginAttempt
  <2>2. /\ hands' \in [Executors -> Hand] /\ Others
        /\ \/ hands'[e].at \in {"idle", "unsafe"}
           \/ hands'[e].at = "deleting" /\ lock' = lock
    BY <1>3, <1>4, <1>11 DEF BeginAttempt, Steps
  <2>3. target' \in TargetRow /\ target'.state = target.state
    BY <1>1, <1>11, RowsWritten DEF BeginAttempt
  <2>4. \A f \in Executors : hands'[f].at \in Inside => lock' = f
    BY <1>2, <1>5, <2>1, <2>2 DEF Inside
  <2>5. CleanupInv'
    BY <1>1, <1>2, <2>1, <2>2, <2>3, <2>4, CleanupKept
  <2> QED
    BY <1>6, <2>1, <2>2, <2>5
<1>12. CASE RemoveTree(e)
  <2>1. hands[e].at = "deleting" /\ UNCHANGED target /\ lock = e
    BY <1>2, <1>12 DEF RemoveTree, Inside
  <2>2. /\ hands' \in [Executors -> Hand] /\ Others
        /\ \/ hands'[e].at = "removed" /\ tree' = "gone" /\ lock' = lock
           \/ hands'[e].at = "broken" /\ tree # "gone"
    BY <1>3, <1>12 DEF RemoveTree, Steps
  <2>3. \A f \in Executors : hands'[f].at \in Inside => lock' = f
    BY <1>5, <2>1, <2>2 DEF Inside
  <2>4. \A f \in Executors : hands'[f].at = "removed" => tree' = "gone"
    BY <1>2, <2>1, <2>2 DEF Inside
  <2>5. SuccessMeansGone'
    BY <1>2, <2>1, <2>2 DEF SuccessMeansGone
  <2>6. CleanupInv'
    BY <1>1, <2>1, <2>2, <2>3, <2>4, <2>5 DEF CleanupInv
  <2> QED
    BY <1>6, <2>1, <2>2, <2>6
<1>13. CASE MarkSucceeded(e)
  <2>1. hands[e].at = "removed" /\ UNCHANGED tree /\ tree = "gone"
        /\ (Current(e) \/ target' = target)
    BY <1>2, <1>13 DEF MarkSucceeded, Fenced
  <2>2. hands' \in [Executors -> Hand] /\ hands'[e].at = "idle" /\ Others
    BY <1>4, <1>13 DEF MarkSucceeded
  <2>3. target' \in TargetRow
    BY <1>1, <1>13, RowsWritten DEF MarkSucceeded, Fenced
  <2>4. \A f \in Executors : hands'[f].at \in Inside => lock' = f
    BY <1>5, <2>1, <2>2 DEF Inside
  <2>5. CleanupInv'
    BY <1>2, <2>1, <2>2, <2>3, <2>4, CleanupKept
  <2> QED
    BY <1>6, <2>1, <2>2, <2>5
<1>14. CASE FailSafety(e) \/ FailMutation(e)
  <2>1. UNCHANGED <<tree, lock>> /\ (Current(e) \/ target' = target)
    BY <1>14 DEF FailSafety, FailMutation, Fenced
  <2>2. hands' \in [Executors -> Hand] /\ hands'[e].at = "idle" /\ Others
    BY <1>4, <1>14 DEF FailSafety, FailMutation
  <2>3. /\ target' \in TargetRow
        /\ target'.state = "succeeded" => target.state = "succeeded"
    BY <1>1, <1>14, RowsWritten DEF FailSafety, FailMutation, Fenced
  <2>4. \A f \in Executors : hands'[f].at \in Inside => lock' = f
    BY <1>5, <2>1, <2>2 DEF Inside
  <2>5. CleanupInv'
    BY <1>2, <2>1, <2>2, <2>3, <2>4, CleanupKept
  <2> QED
    BY <1>6, <2>1, <2>2, <2>5
<1> QED
  BY <1>7, <1>8, <1>9, <1>10, <1>11, <1>12, <1>13, <1>14 DEF ExecutorStep

LEMMA CleanupStep ==
    ASSUME CleanupInv, agenda \in AgendaRow, [SprintNext]_svars
    PROVE  CleanupInv' /\ Superseded
<1>1. target \in TargetRow /\ hands \in [Executors -> Hand]
  BY DEF CleanupInv
<1>2. /\ \A f \in Executors : hands[f].at \in Inside => lock = f
      /\ \A f \in Executors : hands[f].at = "removed" => tree = "gone"
      /\ SuccessMeansGone
  BY DEF CleanupInv
\* A step that leaves hands, lock and directory alone and reports no success.
<1>3. ASSUME UNCHANGED <<tree, lock, hands>>, target' \in TargetRow,
             target'.state = "succeeded" => target.state = "succeeded"
      PROVE  CleanupInv' /\ Superseded
  BY <1>1, <1>2, <1>3, CleanupKept DEF Superseded
<1>4. CASE UNCHANGED cvars
  BY <1>1, <1>3, <1>4 DEF cvars
<1>5. CASE Completion
  <2>1. target' \in TargetRow /\ target'.state = "pending"
    BY <1>1, <1>5, RowsWritten DEF Completion, Schedule
  <2> QED
    BY <1>3, <1>5, <2>1 DEF Completion, Schedule
<1>6. CASE Sweep
  <2>1. ASSUME NEW e \in agenda.crew, ExecutorStep(e)
        PROVE  CleanupInv' /\ Superseded
    <3>1. e \in Executors
      BY DEF AgendaRow
    <3> QED
      BY <2>1, <3>1, ExecutorStepOK
  <2>2. CASE RetryDue \/ Lapse
    BY <1>1, <1>3, <2>2, RowsWritten DEF RetryDue, Lapse
  <2>3. ASSUME NEW key \in Keys, RetryByHand(key)
        PROVE  CleanupInv' /\ Superseded
    <3>1. target' \in TargetRow /\ target'.state = "pending"
      BY <1>1, <2>3, RowsWritten DEF RetryByHand
    <3> QED
      BY <1>3, <2>3, <3>1 DEF RetryByHand
  <2> QED
    BY <1>6, <2>1, <2>2, <2>3 DEF Sweep
<1>7. CASE Mishap
  <2>1. ASSUME NEW e \in Executors, ExecutorDies(e)
        PROVE  CleanupInv' /\ Superseded
    <3>1. /\ hands' \in [Executors -> Hand] /\ hands'[e].at = "idle"
          /\ \A f \in Executors \ {e} : hands'[f] = hands[f]
      BY <2>1, HandsMove DEF ExecutorDies, Steps
    <3>2. UNCHANGED <<target, tree>> /\ lock' = IF lock = e THEN "free" ELSE lock
      BY <2>1 DEF ExecutorDies
    <3>3. \A f \in Executors : hands'[f].at \in Inside => lock' = f
      BY <1>2, <3>1, <3>2 DEF Inside
    <3>4. CleanupInv'
      BY <1>1, <1>2, <3>1, <3>2, <3>3, CleanupKept
    <3> QED
      BY <3>2, <3>4 DEF Superseded
  <2>2. CASE Lapse
    BY <1>1, <1>3, <2>2, RowsWritten DEF Lapse
  <2>3. CASE Meddle
    BY <1>1, <1>3, <2>3 DEF Meddle
  <2>4. agenda.crew \subseteq Executors
    BY DEF AgendaRow
  <2> QED
    BY <1>7, <2>1, <2>2, <2>3, <2>4 DEF Mishap
<1> QED
  BY <1>4, <1>5, <1>6, <1>7 DEF SprintNext, KeepsTree, svars

-----------------------------------------------------------------------------
(* The initial state, and the theorems.                                    *)

LEMMA PlanStarts == SprintInit => PlanInv
<1> SUFFICES ASSUME SprintInit PROVE PlanInv
  OBVIOUS
<1> DEFINE d  == CHOOSE x \in Devs : TRUE
           u0 == [status |-> "none", dev |-> d, code |-> FALSE, needs |-> {},
                  task |-> "none", ask |-> "none", rounds |-> 0,
                  via |-> "none"]
           p0 == [watched |-> FALSE, owner |-> d, state |-> "none",
                  head |-> 0, unit |-> 0, linked |-> FALSE, own |-> "none"]
           us == [u \in Units |-> u0]
           ps == [p \in Prs |-> p0]
<1>1. d \in Devs
  BY SprintBounds
<1>2. book = [phase |-> "prepared", owner |-> "none", gen |-> 0,
              fit |-> Owners, notices |-> {}, bypassed |-> {},
              units |-> us, prs |-> ps]
  BY DEF SprintInit
<1> HIDE DEF d
<1>3. u0 \in UnitRow /\ p0 \in PrRow
  BY <1>1, SprintBounds DEF UnitRow, PrRow, Statuses, Mails, PrStates
<1>4. u0.status = "none" /\ u0.task = "none" /\ u0.via = "none"
  OBVIOUS
<1> HIDE DEF u0, p0
<1>5. us \in [Units -> UnitRow] /\ ps \in [Prs -> PrRow]
  BY <1>3
<1>6. UnitsOK(us)
  BY <1>3, <1>4, <1>5 DEF UnitsOK, RowOK, Assigned, Approved, Laned, Founded,
                           Occupying, Waiting
<1> HIDE DEF us, ps
<1>7. /\ book \in Book /\ book.units = us
      /\ book.phase = "prepared" /\ book.gen = 0
  BY <1>2, <1>5, SprintBounds DEF Book, Phases
<1>8. PlanOK(book)
  BY <1>6, <1>7 DEF PlanOK, BookOK, Told, Done
<1>9. LaneTypes
  BY NoHeldOK DEF SprintInit, LaneTypes
<1>10. agenda \in AgendaRow
  BY AgendaRows DEF SprintInit
<1> QED
  BY <1>8, <1>9, <1>10 DEF PlanInv

LEMMA CleanupStarts == SprintInit => CleanupInv
  BY CleanupBounds DEF SprintInit, CleanupInit, CleanupInv, TargetRow, Hand,
     NoHand, Steps, Inside, SuccessMeansGone

\* The part of a behaviour that is about wakes leaves the sprint alone.
LEMMA RuntimeSteps ==
    [RuntimeNext]_<<svars, wvars, fvars, part>> => [SprintNext]_svars
  BY DEF RuntimeNext

SprintInv == PlanInv /\ CleanupInv

\* What every step of a sprint keeps: rows, lanes, foundations, assignments,
\* approvals, the closeout notice and the cleanup's lock.
THEOREM SprintInvariant == RuntimeSpec => []SprintInv
<1>1. RuntimeInit => SprintInv
  BY PlanStarts, CleanupStarts DEF RuntimeInit, SprintInv
<1>2. SprintInv /\ [RuntimeNext]_<<svars, wvars, fvars, part>> => SprintInv'
  <2>1. SprintInv /\ [SprintNext]_svars => SprintInv'
    BY SprintPlanStep, CleanupStep DEF SprintInv, PlanInv
  <2> QED
    BY <2>1, RuntimeSteps
<1> QED
  BY <1>1, <1>2, PTL DEF RuntimeSpec

\* Every row of a sprint is well formed in every reachable state.
THEOREM SprintTypes == RuntimeSpec => []SprintTypeOK
<1>1. SprintInv => SprintTypeOK
  BY DEF SprintInv, PlanInv, PlanOK, BookOK, LaneTypes, CleanupInv, SprintTypeOK
<1> QED
  BY <1>1, SprintInvariant, PTL

\* A developer holds one released unit at a time, for any plan and any
\* sequence of releases, recalls, declines, replans and reroutes.
THEOREM OneLaneHolds == RuntimeSpec => []OneLanePerDeveloper
<1>1. SprintInv => OneLanePerDeveloper
  BY DEF SprintInv, PlanInv, PlanOK, BookOK, UnitsOK, Laned, Lanes,
         OneLanePerDeveloper
<1> QED
  BY <1>1, SprintInvariant, PTL

\* A released unit stands on completed work, however the plan is edited.
THEOREM FoundationsHold == RuntimeSpec => []ReleasedAfterUpstream
<1>1. SprintInv => ReleasedAfterUpstream
  BY DEF SprintInv, PlanInv, PlanOK, BookOK, UnitsOK, Founded,
         ReleasedAfterUpstream
<1> QED
  BY <1>1, SprintInvariant, PTL

\* An armed sprint without an open unit has told its current closeout owner.
THEOREM NoticesHold == RuntimeSpec => []ClosedIsAnnounced
<1>1. SprintInv => ClosedIsAnnounced
  BY DEF SprintInv, PlanInv, PlanOK, Told, ClosedIsAnnounced
<1> QED
  BY <1>1, SprintInvariant, PTL

\* Ready units have an assignment that can be answered, planned ones none.
THEOREM AssignmentsHold == RuntimeSpec => []AssignmentMatchesLane
<1>1. SprintInv => AssignmentMatchesLane
  BY DEF SprintInv, PlanInv, PlanOK, BookOK, UnitsOK, RowOK, Assigned,
         AssignmentMatchesLane
<1> QED
  BY <1>1, SprintInvariant, PTL

\* No unit becomes ready to merge, or merged, without a verdict that answers
\* the latest request.
THEOREM VerdictsHold == RuntimeSpec => []MergeNeedsVerdict
<1>1. SprintInv => MergeNeedsVerdict
  BY DEF SprintInv, PlanInv, PlanOK, BookOK, UnitsOK, RowOK, Approved,
         MergeNeedsVerdict
<1> QED
  BY <1>1, SprintInvariant, PTL

\* Nothing reopens a completed sprint.
THEOREM CompletionHolds == RuntimeSpec => []CompletedSprintIsDone
<1>1. SprintInv => CompletedSprintIsDone
  BY DEF SprintInv, PlanInv, PlanOK, Done, CompletedSprintIsDone
<1> QED
  BY <1>1, SprintInvariant, PTL

\* No step of a paused sprint that stays paused releases, sends to review or
\* approves a unit.
THEOREM PauseHolds == RuntimeSpec => PausedHoldsStill
<1> DEFINE still == book.phase = "paused" /\ book'.phase = "paused" =>
             \A u \in Units :
                book'.units[u].status \in {"ready", "in_review", "merge_ready"}
                  => book'.units[u].status = book.units[u].status
<1>1. SprintInv /\ [RuntimeNext]_<<svars, wvars, fvars, part>> => [still]_svars
  BY SprintPlanStep, RuntimeSteps DEF SprintInv, Holds, Calm
<1> QED
  BY <1>1, SprintInvariant, PTL DEF RuntimeSpec, PausedHoldsStill

\* Two workers are never inside the directory at once.
THEOREM OneRemoverHolds == RuntimeSpec => []OneRemover
<1>1. SprintInv => OneRemover
  BY DEF SprintInv, CleanupInv, Inside, OneRemover
<1> QED
  BY <1>1, SprintInvariant, PTL

\* A cleanup that reads succeeded left nothing behind.
THEOREM SuccessHolds == RuntimeSpec => []SuccessMeansGone
<1>1. SprintInv => SuccessMeansGone
  BY DEF SprintInv, CleanupInv
<1> QED
  BY <1>1, SprintInvariant, PTL

\* A worker whose claim was superseded writes nothing to the row.
THEOREM FenceHolds == RuntimeSpec => SupersededWritesNothing
<1>1. SprintInv /\ [RuntimeNext]_<<svars, wvars, fvars, part>> => [Superseded]_svars
  BY CleanupStep, RuntimeSteps DEF SprintInv, PlanInv
<1> QED
  BY <1>1, SprintInvariant, PTL
     DEF RuntimeSpec, SupersededWritesNothing, Superseded

=============================================================================
