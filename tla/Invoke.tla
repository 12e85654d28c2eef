------------------------------- MODULE Invoke --------------------------------
(***************************************************************************)
(* How omm runs the host (omm-host/src/invoke.rs, allowlist.rs, locate.rs  *)
(* and residue.rs): the binary is searched for, the command line is held   *)
(* against the host's commands, the process is started with its output     *)
(* captured by a thread, and is killed, with everything under it, when its *)
(* time is up.                                                             *)
(*                                                                         *)
(* The host starts further processes, which may outlive it, leave it, or   *)
(* belong to another user; `ps`, by which omm sees them, may fail. The two *)
(* pipes are alike and one is modelled; the environment is left out, and   *)
(* a process number is not used twice.                                     *)
(***************************************************************************)
EXTENDS Integers, Sequences, SequencesExt, FiniteSets, FiniteSetsExt

CONSTANTS
    Argvs,      \* command lines, sequences of tokens
    Children,   \* numbers for the processes the host may start, above Host
    Foreign,    \* those of them omm may not signal
    CaptureCap, \* bytes of the output that are kept
    Room,       \* bytes the pipe holds
    MaxPrints   \* bound: bytes written

Host == 1
InitPid == 0
Pids == {Host} \cup Children
ASSUME InvokeAssumption ==
    /\ Children \subseteq Nat \ {InitPid, Host} /\ IsFiniteSet(Children) /\ Foreign \subseteq Children
    /\ CaptureCap \in Nat /\ Room \in Nat /\ MaxPrints \in Nat

VARIABLES
    proc,  \* the processes: their life, their parent, and whether they hold the pipe
    pipe,  \* bytes written, in the pipe, kept and dropped; given up; at its end
    registry, \* the processes with an entry among the host's sessions
    status, \* how the host ended, once it has: code 0, or another code or a signal
    run,   \* omm's step, and what it knows
    \* History.
    under  \* what was under the host when its time was up, but for what left by itself

iVars == <<proc, pipe, registry, status, run, under>>

Alive == {p \in Pids : proc[p].life \in {"live", "dying"}}

-----------------------------------------------------------------------------
\* The search for the binary, in the places of the environment, in order.

\* What may be found at a place, and what active_binary makes of a directory
\* with the launcher: the binary its version file names, if that can run.
Found == {"nothing", "binary", "script", "data", "directory"}
Machines == [override : Found \cup {"unset"}, launched : BOOLEAN,
             path : [dir : Found, launched : BOOLEAN]]

Located(machine) ==
    IF machine.override # "unset" THEN machine.override = "binary"
    ELSE \/ machine.launched
         \/ machine.path.dir = "script" /\ machine.path.launched
         \/ machine.path.dir = "binary"

-----------------------------------------------------------------------------
\* The command line.

Policies == [flags : BOOLEAN, prompt : BOOLEAN]

\* Classes of tokens: a command; `resume`; flags with no value, with one, and
\* with one that is optional; such a value; a flag with its value attached;
\* `--` or `-`; any other word.
Flags  == {"flag", "valued", "optional", "attached"}
Tokens == {"command", "resume", "value", "word", "marker"} \cup Flags
ASSUME ArgvsAreTokens == Argvs \subseteq Seq(Tokens)

\* The token after position i is the value of the flag there.
TakesNext(argv, i) ==
    \/ argv[i] = "valued"
    \/ argv[i] = "optional" /\ i < Len(argv) /\ argv[i + 1] = "value"

\* Flags, with what each takes along, up to the first token that is not one:
\* what the walk says from a position on.
Verdicts(argv) ==
    LET verdict[i \in 1 .. Len(argv) + 2] ==
            IF i > Len(argv) \/ argv[i] = "resume" THEN "allowed"
            ELSE IF argv[i] \in Flags THEN verdict[IF TakesNext(argv, i) THEN i + 2 ELSE i + 1]
            ELSE IF argv[i] \in {"marker", "command"} THEN "refused" ELSE "prompt"
    IN  verdict
Walk(argv) == Verdicts(argv)[1]

\* Mutant of Validate: an optional value is taken whatever it says.
ValidateGreedy(argv, policy) ==
    /\ argv # <<>>
    /\ \/ argv[1] \in {"command", "resume"}
       \/ /\ argv[1] \in Flags /\ policy.flags
          /\ LET verdict == Walk([i \in 1 .. Len(argv) |->
                     IF i > 1 /\ argv[i - 1] = "optional" /\ argv[i] = "word"
                     THEN "value" ELSE argv[i]])
             IN  verdict = "allowed" \/ (verdict = "prompt" /\ policy.prompt)

Validate(argv, policy) ==
    /\ argv # <<>>
    /\ \/ argv[1] \in {"command", "resume"}
       \/ /\ argv[1] \in Flags /\ policy.flags
          /\ Walk(argv) = "allowed" \/ (Walk(argv) = "prompt" /\ policy.prompt)

\* The host: the first word that no flag takes is the prompt, unless it is a
\* command; so is all that follows a marker. A value is no flag, whatever it
\* looks like.
Taken(argv) ==
    LET taken[i \in 1 .. Len(argv)] == i > 1 /\ ~taken[i - 1] /\ TakesNext(argv, i - 1)
    IN  taken
Loose(argv) == {i \in 1 .. Len(argv) : argv[i] \notin Flags /\ ~Taken(argv)[i]}
Prompted(argv) == Loose(argv) # {} /\ argv[Min(Loose(argv))] \in {"word", "value", "marker"}

-----------------------------------------------------------------------------
\* A run.

Start(argv, policy, machine) ==
    /\ IF Located(machine) /\ Validate(argv, policy)
       THEN /\ run' = [run EXCEPT !.at = "run", !.prompt = Prompted(argv), !.policy = policy]
            /\ proc' = [proc EXCEPT ![Host] = [life |-> "live", parent |-> InitPid, pipe |-> TRUE]]
       ELSE run' = [run EXCEPT !.at = "over", !.result = "refused"] /\ UNCHANGED proc
    /\ UNCHANGED <<pipe, registry, status, under>>

\* A process is gone: its children have init for a parent.
Gone(p) ==
    proc' = [q \in Pids |->
        IF q = p THEN [proc[q] EXCEPT !.life = "dead", !.pipe = FALSE]
        ELSE IF proc[q].parent = p THEN [proc[q] EXCEPT !.parent = InitPid] ELSE proc[q]]

Polls ==
    /\ run.at = "run" /\ proc[Host].life = "dead"
    /\ run' = [run EXCEPT !.at = "eof", !.result = status]
    /\ UNCHANGED <<proc, pipe, registry, status, under>>

\* The processes under the host, by generation.
Generations(ps) ==
    LET generation[n \in 0 .. Cardinality(Children)] ==
            IF n = 0 THEN {Host}
            ELSE {p \in Pids : ps[p].life \in {"live", "dying"} /\ ps[p].parent \in generation[n - 1]}
    IN  generation

Descendants == UNION {Generations(proc)[n] : n \in 1 .. Cardinality(Children)}

\* Leaves first.
LeavesFirst ==
    LET generation == Generations(proc)
        depth(p) == Max({n \in 1 .. Cardinality(Children) : p \in generation[n]})
    IN  SetToSortSeq(Descendants, LAMBDA p, q :
            depth(p) > depth(q) \/ (depth(p) = depth(q) /\ p < q))

Expires ==
    /\ run.at = "run" /\ proc[Host].life # "dead"
    /\ run' = [run EXCEPT !.at = "snapshot", !.result = "timeout"]
    /\ under' = Descendants
    /\ UNCHANGED <<proc, pipe, registry, status>>

Signal(p) ==
    IF p \in Foreign \/ proc[p].life # "live" THEN UNCHANGED proc
    ELSE proc' = [proc EXCEPT ![p].life = "dying"]

\* Mutant of Snapshot: the host goes first.
SnapshotLate(seen) ==
    /\ run.at = "snapshot"
    /\ IF proc[Host].life = "live"
       THEN Signal(Host) /\ UNCHANGED run
       ELSE /\ proc[Host].life = "dead"
            /\ run' = [run EXCEPT !.at = "kill", !.todo = LeavesFirst, !.victims = Descendants]
            /\ UNCHANGED proc
    /\ UNCHANGED <<pipe, registry, status, under>>

\* The tree as `ps` shows it, while the host lives, or none.
Snapshot(seen) ==
    /\ run.at = "snapshot"
    /\ run' = IF seen THEN [run EXCEPT !.at = "kill", !.todo = LeavesFirst, !.victims = Descendants]
              ELSE [run EXCEPT !.at = "kill", !.blind = TRUE]
    /\ UNCHANGED <<proc, pipe, registry, status, under>>

KillsNext ==
    /\ run.at = "kill" /\ run.todo # <<>>
    /\ Signal(Head(run.todo))
    /\ run' = [run EXCEPT !.todo = Tail(@)]
    /\ UNCHANGED <<pipe, registry, status, under>>

KillsHost ==
    /\ run.at = "kill" /\ run.todo = <<>> /\ proc[Host].life = "live"
    /\ Signal(Host)
    /\ UNCHANGED <<run, pipe, registry, status, under>>

\* The host is waited for, however long it takes.
Reaps ==
    /\ run.at = "kill" /\ run.todo = <<>> /\ proc[Host].life = "dead"
    /\ run' = [run EXCEPT !.at = IF run.blind THEN "sweep" ELSE "walk"]
    /\ UNCHANGED <<proc, pipe, registry, status, under>>

\* Once more over the tree: what appeared under the victims is killed, and
\* what still lives when the time is up is named.
Rewalk(seen, last) ==
    /\ run.at = "walk"
    /\ LET newly == {p \in Alive \ run.victims : proc[p].parent \in run.victims \cup {Host}}
           alive == (run.victims \cup newly) \cap Alive
       IN  IF ~seen THEN run' = [run EXCEPT !.at = "sweep", !.blind = TRUE] /\ UNCHANGED proc
           ELSE /\ run' = [run EXCEPT !.victims = @ \cup newly,
                              !.at = IF alive = {} \/ last THEN "sweep" ELSE "walk",
                              !.survivors = IF alive = {} \/ last THEN alive ELSE {}]
                /\ proc' = [p \in Pids |-> IF p \in newly \ Foreign /\ proc[p].life = "live"
                                           THEN [proc[p] EXCEPT !.life = "dying"] ELSE proc[p]]
    /\ UNCHANGED <<pipe, registry, status, under>>

\* What the host would have removed of its session by ending in order. A sweep
\* that fails is not told of.
Sweeps(works) ==
    /\ run.at = "sweep"
    /\ registry' = IF works THEN registry \ {Host} ELSE registry
    /\ run' = [run EXCEPT !.at = "eof", !.swept = works]
    /\ UNCHANGED <<proc, pipe, status, under>>

\* Mutant of Takes: the pipe's end is waited for.
TakesAtEof ==
    /\ run.at = "eof" /\ pipe.eof
    /\ run' = [run EXCEPT !.at = "over", !.whole = TRUE, !.kept = pipe.kept, !.dropped = pipe.dropped]
    /\ pipe' = [pipe EXCEPT !.detached = TRUE, !.kept = 0]
    /\ UNCHANGED <<proc, registry, status, under>>

\* The output, at the pipe's end or when the grace is over, whichever is first.
Takes ==
    /\ run.at = "eof"
    /\ run' = [run EXCEPT !.at = "over", !.whole = pipe.eof, !.kept = pipe.kept, !.dropped = pipe.dropped]
    /\ pipe' = [pipe EXCEPT !.detached = TRUE, !.kept = 0]
    /\ UNCHANGED <<proc, registry, status, under>>

\* The capturing thread reads on whatever happens, and keeps the head.
Drains ==
    /\ ~pipe.eof /\ pipe.inside > 0
    /\ LET keeps == ~pipe.detached /\ pipe.kept < CaptureCap
       IN  pipe' = [pipe EXCEPT !.inside = @ - 1,
                       !.kept = IF keeps THEN @ + 1 ELSE @,
                       !.dropped = IF keeps \/ pipe.detached THEN @ ELSE @ + 1]
    /\ UNCHANGED <<proc, registry, status, run, under>>

PipeEnds ==
    /\ ~pipe.eof /\ pipe.inside = 0 /\ run.at # "idle"
    /\ \A p \in Pids : ~proc[p].pipe
    /\ pipe' = [pipe EXCEPT !.eof = TRUE]
    /\ UNCHANGED <<proc, registry, status, run, under>>

-----------------------------------------------------------------------------
\* The host and its processes.

Forks(p, c) ==
    /\ proc[p].life = "live" /\ proc[c].life = "unborn"
    /\ proc' = [proc EXCEPT ![c] = [life |-> "live", parent |-> p, pipe |-> proc[p].pipe]]
    /\ UNCHANGED <<pipe, registry, status, run, under>>

Prints(p) ==
    /\ proc[p].life = "live" /\ proc[p].pipe
    /\ pipe.written < MaxPrints /\ pipe.inside < Room
    /\ pipe' = [pipe EXCEPT !.inside = @ + 1, !.written = @ + 1]
    /\ UNCHANGED <<proc, registry, status, run, under>>

\* The host announces its session.
Registers ==
    /\ proc[Host].life = "live" /\ Host \notin registry
    /\ registry' = registry \cup {Host}
    /\ UNCHANGED <<proc, pipe, status, run, under>>

Closes(p) ==
    /\ p # Host /\ proc[p].life = "live" /\ proc[p].pipe
    /\ proc' = [proc EXCEPT ![p].pipe = FALSE]
    /\ UNCHANGED <<pipe, registry, status, run, under>>

\* A process, its parent, and so on.
Ancestry(ps, q) ==
    LET ancestor[n \in 0 .. Cardinality(Children)] ==
            IF n = 0 THEN q
            ELSE IF ancestor[n - 1] = InitPid THEN InitPid ELSE ps[ancestor[n - 1]].parent
    IN  ancestor

\* What a process leaves behind by ending before the tree is looked at, omm
\* cannot find any more.
Outlive(p) ==
    under' = IF run.at # "snapshot" THEN under
             ELSE IF p = Host THEN {}
             ELSE {q \in under : \A n \in 0 .. Cardinality(Children) : Ancestry(proc, q)[n] # p}

\* The host ends in order, taking its session along, or another process ends.
Ends(p) ==
    /\ proc[p].life = "live"
    /\ Gone(p) /\ Outlive(p)
    /\ registry' = registry \ {p}
    /\ status' = IF p = Host THEN "ok" ELSE status
    /\ UNCHANGED <<pipe, run>>

\* The host fails of itself, by a signal or with another code than 0: it may not
\* come to removing its session.
Crashes ==
    /\ proc[Host].life = "live"
    /\ Gone(Host) /\ Outlive(Host)
    /\ registry' \in {registry, registry \ {Host}}
    /\ status' = "failed"
    /\ UNCHANGED <<pipe, run>>

\* A signal of omm's takes effect, and nothing is tidied up.
Dies(p) ==
    /\ proc[p].life = "dying"
    /\ Gone(p)
    /\ status' = IF p = Host THEN "failed" ELSE status
    /\ UNCHANGED <<pipe, registry, run, under>>

IInit ==
    /\ proc = [p \in Pids |-> [life |-> "unborn", parent |-> InitPid, pipe |-> FALSE]]
    /\ pipe = [written |-> 0, inside |-> 0, kept |-> 0, dropped |-> 0, detached |-> FALSE, eof |-> FALSE]
    /\ registry = {} /\ status = "none"
    /\ run = [at |-> "idle", result |-> "none", prompt |-> FALSE,
              policy |-> [flags |-> FALSE, prompt |-> FALSE], todo |-> <<>>, victims |-> {},
              survivors |-> {}, blind |-> FALSE, swept |-> FALSE, whole |-> FALSE, kept |-> 0, dropped |-> 0]
    /\ under = {}

\* omm's steps. Its time runs out, its graces end, and a signal takes effect.
IStep ==
    \/ Polls \/ Expires \/ KillsNext \/ KillsHost \/ Reaps \/ Takes
    \/ \E works \in BOOLEAN : Sweeps(works)
    \/ \E seen \in BOOLEAN : Snapshot(seen)
    \/ \E seen \in BOOLEAN : Rewalk(seen, TRUE)
    \/ Drains \/ PipeEnds
    \/ \E p \in Pids : Dies(p)

INext ==
    \/ IStep
    \/ run.at = "idle" /\ \E argv \in Argvs, policy \in Policies, machine \in Machines : Start(argv, policy, machine)
    \/ \E seen \in BOOLEAN : Rewalk(seen, FALSE)
    \/ \E p \in Pids, c \in Children : Forks(p, c)
    \/ Registers \/ Crashes
    \/ \E p \in Pids : Prints(p) \/ Closes(p) \/ Ends(p)

InvokeSpec == IInit /\ [][INext]_iVars

IFairness ==
    /\ WF_iVars(Polls \/ Expires \/ KillsNext \/ KillsHost \/ Reaps \/ Takes)
    /\ WF_iVars(\E works \in BOOLEAN : Sweeps(works))
    /\ WF_iVars(\E seen \in BOOLEAN : Snapshot(seen))
    /\ WF_iVars(\E seen \in BOOLEAN : Rewalk(seen, TRUE))
    /\ \A p \in Pids : WF_iVars(Dies(p))

-----------------------------------------------------------------------------
\* Properties.

\* A session with a prompt is started only for a caller that asked for one,
\* however the prompt hides behind the flags.
NeverPrompts == run.at = "run" /\ run.prompt => run.policy.flags /\ run.policy.prompt

\* What a run reports is so: of a host that ended and whose pipe has ended the
\* first bytes of the output, and how many more there were; of a timeout, seen by
\* `ps`, every process there was under the host that is not dead. A session is
\* left for others to see only by a run that says the host failed, or by one out
\* of time that could not sweep.
ReportsTrue ==
    run.at = "over" =>
        /\ run.result \in {"ok", "failed"} /\ run.whole =>
            /\ run.kept = Min({CaptureCap, pipe.written})
            /\ run.kept + run.dropped = pipe.written
        /\ run.result = "timeout" /\ ~run.blind =>
            \A p \in under : proc[p].life = "dead" \/ p \in run.survivors
        /\ Host \in registry =>
            run.result = "failed" \/ (run.result = "timeout" /\ ~run.swept)

\* A run comes back, although a process may hold the pipe for ever.
RunReturns == run.at = "run" ~> run.at = "over"
=============================================================================
