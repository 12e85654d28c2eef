------------------------------- MODULE MCOwned -------------------------------
(***************************************************************************)
(* The files omm owns: how their contents merge (module Assets, with the   *)
(* instance of MCAssets), and where their paths lead (Containment). The    *)
(* two share no state here, so each is a scene of its own.                 *)
(***************************************************************************)
EXTENDS MCAssets, Containment

VARIABLE scene

\* In the home directory: the config root `muse', omm's own root, and a
\* directory `x' of the user's. He keeps files equal to omm's, in `x' and in
\* the directory `t' of the config root.
MCHome == <<"h">>
MCConfigRoot == <<"h", "muse">>
MCOmmRoot == <<"h", "omm">>
Outside == <<"h", "x">>
Inside == <<"h", "muse", "t">>

MCPlaces ==
    {<<>>, MCOmmRoot}
    \cup {d \o e : d \in {MCHome, MCConfigRoot, Outside, Inside},
                   e \in {<<>>, <<"f">>, <<"s">>, <<"s", "f">>}}

MCWanted == {<<"f">>, <<"s", "f">>}
MCAsked == MCWanted \cup {<<"s">>, <<"t", "f">>, <<"s", "..", "f">>}

MCMovable == {MCConfigRoot \o rel : rel \in {<<>>, <<"s">>, <<"s", "f">>}}
MCTargets == {Outside, Inside, MCConfigRoot \o <<"s">>, <<"gone">>}

\* With a config root, or before the host has made one.
MCFound ==
    {[p \in MCPlaces |->
        IF \/ p \in {<<>>, MCHome, Outside, MCOmmRoot}
           \/ (root /\ p \in {MCConfigRoot, Inside, Inside \o <<"s">>})
        THEN Directory
        ELSE IF p = Outside \o <<"f">> \/ (root /\ p = Inside \o <<"f">>)
        THEN FileOf("omm")
        ELSE Vacant] : root \in BOOLEAN}
ASSUME MCFound \subseteq Disks

\* What a scene is not about has one initial state.
MCInit ==
    /\ scene \in {"contents", "paths"}
    /\ CInit(IF scene = "paths" THEN MCFound ELSE {[p \in {<<>>} |-> Vacant]})
    /\ Init
    /\ scene = "paths" => \A f \in Files : disk[f] = Missing

MCNext ==
    /\ UNCHANGED scene
    /\ \/ scene = "contents" /\ Next /\ UNCHANGED cVars
       \/ scene = "paths" /\ CNext /\ UNCHANGED vars
       \* Where every path is refused and the user is done.
       \/ scene = "paths" /\ moves = MaxMoves /\ UNCHANGED <<vars, cVars>>

MCSpec == MCInit /\ [][MCNext]_<<scene, vars, cVars>>
=============================================================================
