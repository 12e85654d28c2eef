------------------------------ MODULE Snapshots ------------------------------
(***************************************************************************)
(* The rolling directories under `$OMM/snapshots` (omm-host/src/fsx.rs):   *)
(* how one is named, in which order they stand, and which of them pruning  *)
(* removes. A name is the second it was made in and a number within that   *)
(* second. Used by every backup omm takes before it overwrites a file, by  *)
(* the snapshot of an update and by the archives of memory roots.          *)
(***************************************************************************)
EXTENDS Naturals, FiniteSets, FiniteSetsExt

CONSTANTS
    Keep \* SNAPSHOTS_KEEP

ASSUME KeepIsPositive == Keep \in Nat \ {0}

\* Directories are records with a second and a number.
Later(d, e) == d.at > e.at \/ (d.at = e.at /\ d.n > e.n)

\* One past the highest number of the second: a slot that pruning freed is
\* not taken again.
FirstNumber(dirs, at) ==
    LET taken == {d.n + 1 : d \in {e \in dirs : e.at = at}}
    IN IF taken = {} THEN 0 ELSE Max(taken)

\* From the number chosen on, the first whose directory can be created.
Created(dirs, at, n) ==
    CHOOSE k \in n .. n + Cardinality(dirs) :
        /\ \A d \in dirs : <<d.at, d.n>> # <<at, k>>
        /\ \A j \in n .. k - 1 : \E d \in dirs : <<d.at, d.n>> = <<at, j>>

\* All but the newest.
RolledOff(dirs) == {d \in dirs : Cardinality({e \in dirs : Later(e, d)}) >= Keep}
=============================================================================
