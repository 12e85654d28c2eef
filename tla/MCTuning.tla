------------------------------ MODULE MCTuning -------------------------------
(***************************************************************************)
(* Two parts of the tuning commands, one at a time: the other is idle.     *)
(* Routing over two releases of the library: the second has a new version  *)
(* of the first skill and no second one. Descriptions are two words, of    *)
(* which one is dear once it is escaped.                                   *)
(* Profiles over two profiles, which share a key, and a required key with  *)
(* a sibling that no profile sets.                                         *)
(***************************************************************************)
EXTENDS Routing, Profiles, TLC

VARIABLE scene  \* the part that is looked at

W(b, w) == [bytes |-> b, weight |-> w]
MCLibrary == <<<<1, 1>>, <<2, 0>>>>
MCDesc == <<<<W(2, 1), W(2, 5)>>, <<W(3, 1), W(2, 1)>>>>
MCPrompts == {<<2, 1>>, <<1, 2>>}
MCSizes == {8, 14, 30}

MCSlices == "lean" :> ("theme" :> 1 @@ "mode" :> 1 @@ "rules" :> 1) @@ "full" :> ("theme" :> 2)
MCKeys == {"theme", "mode", "rules"}
MCStarts ==
    LET Doc(look, rules, servers, old, flag) ==
            "theme" :> look @@ "mode" :> Absent @@ "rules" :> rules @@
            "mcpServers" :> servers @@ "mcp_servers" :> old @@
            "plugins" :> "off" @@ "runtime_capabilities" :> flag
        m(a, b) == "s1" :> a @@ "s2" :> b
    IN  {Doc(2, Absent, Absent, Absent, Absent), Doc(Absent, 2, Absent, Absent, Absent),
         Doc(1, Absent, Absent, m(1, Absent), "on"), Doc(Absent, Absent, m(1, 1), m(1, Absent), "yes"),
         Doc(Absent, Absent, m(1, 2), m(2, Absent), "junk")}

MCInit ==
    /\ RInit /\ ~config.exists /\ world.size = 8
    /\ PInit
    /\ \/ scene = "routing" /\ settings = CHOOSE d \in MCStarts : TRUE
       \/ scene = "profiles" /\ hooks = None
MCNext ==
    /\ UNCHANGED scene
    /\ \/ scene = "routing" /\ RNext /\ UNCHANGED pVars
       \/ scene = "profiles" /\ PNext /\ UNCHANGED rVars
Spec == MCInit /\ [][MCNext]_<<rVars, pVars, scene>>

=============================================================================
