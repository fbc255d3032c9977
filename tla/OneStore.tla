------------------------------- MODULE OneStore -------------------------------
(***************************************************************************)
(* What the users of an installation believe: there is one database.  Rows *)
(* are written to it and migrations applied to it, and it goes back to a    *)
(* restore point when somebody asks for that; it never moves.  Only a      *)
(* writer that went astray writes rows elsewhere.                          *)
(***************************************************************************)
EXTENDS Naturals

VARIABLES
    store,    \* the database
    stamp,    \* the newest row anybody was told is written
    points,   \* the restore points at hand
    astray    \* whether a writer has something else open

Init == stamp \in Nat /\ points = {} /\ store \in [floor : Nat, rows : 0 .. stamp]

Write ==
    /\ stamp' = stamp + 1
    /\ store' = [store EXCEPT !.rows = stamp']
    /\ UNCHANGED points

Advance ==
    /\ store' = [store EXCEPT !.floor = @ + 1]
    /\ UNCHANGED <<stamp, points>>

\* A restore point is taken of the database as it is.
Save ==
    /\ points' \subseteq points \cup {store}
    /\ UNCHANGED <<store, stamp>>

Restore ==
    /\ store' \in points
    /\ UNCHANGED <<stamp, points>>

\* A row goes to what the stray writer has open.
Miss ==
    /\ astray
    /\ stamp' = stamp + 1
    /\ UNCHANGED <<store, points>>

Next == Write \/ Advance \/ Save \/ Restore \/ Miss

Spec == Init /\ [][Next]_<<store, stamp, points>>

=============================================================================
