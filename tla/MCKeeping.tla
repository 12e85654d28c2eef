------------------------------ MODULE MCKeeping ------------------------------
(***************************************************************************)
(* What omm keeps for the user: memory roots and their archives, the       *)
(* words around omm's block in AGENTS.md, what he wrote into a skill, his  *)
(* own files in place of omm's; what doctor tells him to run; and what an  *)
(* author's build leaves behind. They share no state here, so each is a    *)
(* scene of its own.                                                       *)
(***************************************************************************)
EXTENDS Memory, Rules, Skills, Repair, Build, Overlay, TLC

CONSTANTS w1, w2, words, p1, p2, main, ref, notes

\* Neither the workspaces nor the commands that run are told apart.
MCSymmetry == Permutations(Workspaces) \cup Permutations(Procs)

VARIABLE scene

allVars == <<scene, kVars, rVars, sVars, dVars, bVars, oVars>>

\* One of them has a pair of omm's markers.
MCOriginals == {<<>>, <<Former>>, <<Newline, Former, Newline>>,
                <<UserStart, Former, UserEnd>>}

\* A skill of two files; then one is changed, then the other is dropped.
MCShipped == {(Main :> "a") @@ (ref :> "a"), (Main :> "b") @@ (ref :> "a"),
              (Main :> "b") @@ (ref :> NoContent)}

\* Catalogs of three rows, most with forwards, among them broken and cyclic
\* ones that do not validate. A profile's file is named otherwise than its id.
Rows(id, kind, life, to, core) ==
    [id : {id}, kind : {kind}, stem : {IF kind = "profile" THEN "fast" ELSE id},
     life : life, to : to, core : core]
MCCatalogs ==
    {{x, y, z} :
        x \in Rows("a", "theme", {"active", "deprecated"}, {"none", "c"}, BOOLEAN),
        y \in Rows("b", "theme", {"alias"}, {"none", "a", "c"}, {FALSE})
              \cup Rows("b", "theme", {"internal"}, {"none"}, {FALSE}),
        z \in Rows("c", "theme", {"active", "alias"}, {"none", "a", "b"}, {FALSE})
              \cup Rows("c", "skill", {"active", "merged"}, {"none", "b"}, {FALSE})
              \cup Rows("c", "profile", {"active"}, {"none"}, {FALSE})}

\* What a scene is not about has one initial state.
MCInit ==
    /\ scene \in {"memory", "rules", "skills", "doctor", "build", "overlay"}
    /\ BInit
    /\ OInit
    /\ scene # "overlay" =>
        \A r \in catalog : r.kind = "theme" /\ ~r.core /\ r.life \in {"active", "internal"}
    /\ DInit
    /\ scene # "doctor" => book = NoBook("absent")
    /\ SInit
    /\ scene # "skills" => hasLedger /\ source = (Main :> "a") @@ (ref :> "a")
    /\ RInit
    /\ scene # "rules" => text = Absent
    /\ KInit
    /\ scene # "memory" => \A w \in Workspaces : roots[w] = None /\ place[w] = "there"

MCNext ==
    /\ UNCHANGED scene
    /\ \/ scene = "memory" /\ KNext /\ UNCHANGED <<rVars, sVars, dVars, bVars, oVars>>
       \/ scene = "rules" /\ RNext /\ UNCHANGED <<kVars, sVars, dVars, bVars, oVars>>
       \/ scene = "skills" /\ SNext /\ UNCHANGED <<kVars, rVars, dVars, bVars, oVars>>
       \/ scene = "doctor" /\ DNext /\ UNCHANGED <<kVars, rVars, sVars, bVars, oVars>>
       \/ scene = "build" /\ BNext /\ UNCHANGED <<kVars, rVars, sVars, dVars, oVars>>
       \/ scene = "overlay" /\ ONext /\ UNCHANGED <<kVars, rVars, sVars, dVars, bVars>>

Spec == MCInit /\ [][MCNext]_allVars
=============================================================================
