---------------------------- MODULE BundlePromise ----------------------------
(***************************************************************************)
(* What omm promises of its plugin, apart from how it keeps it: the ledger *)
(* never learns of a bundle that is not on the host, and never forgets one *)
(* that is.  It may lag behind the host -- every verb is a child process   *)
(* and may be the last thing a command does -- but when it moves it moves  *)
(* to what is there.  While someone else changes the host under a running  *)
(* command nothing is promised of that command.                            *)
(***************************************************************************)
CONSTANTS Digests, None

VARIABLES
    have,    \* the bundle on the host
    know,    \* the bundle the ledger records
    quiet    \* nobody else has changed the host under the running command

vars == <<have, know, quiet>>

Bundles == Digests \cup {None}

Init ==
    /\ have = None
    /\ know = None
    /\ quiet = TRUE

Remove ==
    /\ have' = None
    /\ know' = know

\* A bundle is put where there is none: one never replaces another in place.
Put ==
    /\ have = None
    /\ have' \in Digests
    /\ know' = know

\* The ledger catches up with the host.
Learn ==
    /\ know' \in Bundles
    /\ quiet => know' = have
    /\ have' = have

\* A command begins, or someone changes the host while one runs.
Turn == know' = know /\ have' \in {have, None}

Next ==
    /\ quiet' \in BOOLEAN
    /\ Remove \/ Put \/ Learn \/ Turn

Spec == Init /\ [][Next]_vars
=============================================================================
