------------------------------ MODULE MCSession ------------------------------
(***************************************************************************)
(* What runs in or around a session of the host: the hook handlers, the    *)
(* MCP server, and a run of the host by omm. They share no state; `scene`  *)
(* says which of the three a behaviour is about.                           *)
(***************************************************************************)
EXTENDS Hooks, Mcp, Invoke, TLC
CONSTANTS skill \* a model value

\* Hooks: one skill, and lines whose verdict depends on the directory that the
\* commands before lead to.
MCSkills == {skill}
Seg(d, t, n) == [does |-> d, to |-> t, shells |-> n]
MCLines == {<<Seg("cd", "/", 0), Seg("rm -r", ".", 0)>>,
            <<Seg("cd", "x", 0), Seg("write", "..", 0)>>,
            <<Seg("write", "/tmp", 0), Seg("reset --hard", ".", 5)>>}

\* The server: a request, a notification, a bad id, a call with wrong
\* arguments, an invalid document.
Msg(id, method) ==
    [json |-> TRUE, object |-> TRUE, id |-> id, version |-> TRUE, method |-> method,
     params |-> "missing", name |-> TRUE, arguments |-> "missing", tool |-> "doctor",
     argsOk |-> TRUE]
MCPayloads ==
    {Msg("own", "list"), Msg("missing", "note"), Msg("bad", "list"),
     [Msg("own", "call") EXCEPT !.params = "object", !.arguments = "object", !.argsOk = FALSE],
     [Msg("own", "unknown") EXCEPT !.version = FALSE]}

\* Every command line of up to four tokens.
MCArgvs == UNION {[1 .. n -> Tokens] : n \in 0 .. 4}

VARIABLE scene
allVars == <<scene, hVars, mVars, iVars>>

MCInit ==
    /\ HInit /\ MInit /\ IInit
    /\ scene \in {"hooks", "server", "run"}
    /\ dir # None => /\ dir.verify \in {None, "pending"}
                     /\ dir.gate \in {None, {skill}} /\ dir.read \in {None, {skill}}
    /\ scene # "hooks" => dir = None

MCNext ==
    \/ scene = "hooks" /\ HNext /\ UNCHANGED <<scene, mVars, iVars>>
    \/ scene = "server" /\ MNext /\ UNCHANGED <<scene, hVars, iVars>>
    \/ scene = "run" /\ INext /\ UNCHANGED <<scene, hVars, mVars>>

Spec == MCInit /\ [][MCNext]_allVars /\ WF_hVars(HStep) /\ IFairness

=============================================================================
