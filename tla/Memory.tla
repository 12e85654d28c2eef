------------------------------- MODULE Memory -------------------------------
(***************************************************************************)
(* `omm memory` (omm/src/cmd/c_tune/memory.rs, memory_tar.rs): the         *)
(* directory the host keeps for a workspace's memory. `seed` puts a first  *)
(* MEMORY.md there, and a sidecar that names the workspace; `backup`       *)
(* archives a root; `gc` archives and removes the roots whose workspace is *)
(* gone. Several commands may run at once, each may be killed, and the     *)
(* user and the agents write in the roots and move workspaces meanwhile.   *)
(*                                                                         *)
(* A root is named after its workspace, one to one: the 64-bit hash in the *)
(* name is taken not to collide. What is left out: the counts of `list`,   *)
(* dry runs, and the audit log.                                            *)
(***************************************************************************)
EXTENDS Snapshots

CONSTANTS
    Workspaces,  \* also the names of their roots
    Procs,       \* omm commands that may run at once
    Written,     \* what the user or an agent writes
    Seed,        \* SEED_TEMPLATE
    None,
    Seconds,     \* bound: the clock
    MaxEdits,    \* bound: steps of the user and the agents
    MaxCommands  \* bound: commands started

\* None is apart from what it stands in for, and the user's words from omm's.
ASSUME MemoryAssumption ==
    /\ Seed \notin Written /\ None \notin Written
    /\ None \notin [link : BOOLEAN, memory : {None, Seed} \cup Written,
                  sidecar : {None, "own", "edited", "other", "bad"}]
    /\ None \notin [at : Nat, n : Nat, born : Nat]

VARIABLES
    now,      \* the clock, in seconds
    place,    \* per workspace: what stat says of its directory
    roots,    \* per root: what is there
    noted,    \* per root: the files the ledger has entries for
    archives, \* the directories of snapshots/memory, each with its tars
    outside,  \* tars written with --to
    command,  \* per process: what it is at
    tally,    \* edits and commands so far
    \* History.
    made,     \* directories ever created in snapshots/memory
    dropped   \* what gc removed

kVars == <<now, place, roots, noted, archives, outside, command, tally, made, dropped>>

Idle == [at |-> "idle"]

\* A root: a directory or a link to one, MEMORY.md, and the sidecar. A sidecar
\* may name the root's workspace in omm's bytes or in other bytes, name
\* something else, or be unreadable. Other files are as MEMORY.md is; links
\* within a root are never archived.
Root == [link : BOOLEAN, memory : {None, Seed} \cup Written,
         sidecar : {None, "own", "edited", "other", "bad"}]
EmptyRoot == [link |-> FALSE, memory |-> None, sidecar |-> None]
SeededRoot == {[link |-> FALSE, memory |-> x, sidecar |-> "own"] : x \in Written}

\* Mutant of Archived: only what omm seeded is archived.
ArchivedOfSeed(r) == {r.memory, r.sidecar} \cap {Seed, "own"}

\* The contents of a root's files.
Archived(r) == {r.memory, r.sidecar} \ {None}

KInit ==
    /\ now = 0
    /\ place \in [Workspaces -> {"there", "gone"}]
    /\ roots \in [Workspaces -> {None} \cup SeededRoot]
    /\ noted = [w \in Workspaces |-> IF roots[w] = None THEN {} ELSE {"memory", "sidecar"}]
    /\ archives = {} /\ outside = {} /\ made = 0 /\ dropped = {}
    /\ command = [p \in Procs |-> Idle]
    /\ tally = [edits |-> 0, commands |-> 0]

-----------------------------------------------------------------------------
\* The user, the agents, the clock.

Edit == /\ tally.edits < MaxEdits
        /\ tally' = [tally EXCEPT !.edits = @ + 1]

\* What commands would notice if they looked again.
Stale(w) == [p \in Procs |-> IF "work" \in DOMAIN command[p] /\ command[p].work = w
                             THEN [command[p] EXCEPT !.late = TRUE] ELSE command[p]]

WriteRoot(w) ==
    /\ Edit
    /\ \E r \in {[EmptyRoot EXCEPT !.memory = x] : x \in Written} \cup
                (IF roots[w] = None THEN {}
                 ELSE {[roots[w] EXCEPT !.memory = x] : x \in {None} \cup Written} \cup
                      {[roots[w] EXCEPT !.sidecar = s] : s \in {None, "edited", "other", "bad"}} \cup
                      {[roots[w] EXCEPT !.link = TRUE]}) :
        /\ roots[w] = None \/ r # roots[w]
        /\ roots' = [roots EXCEPT ![w] = r]
    /\ command' = Stale(w)
    /\ UNCHANGED <<now, place, noted, archives, outside, made, dropped>>

\* A workspace is removed or moved away, comes back, or cannot be read.
MoveWorkspace(w) ==
    /\ Edit
    /\ \E s \in {"there", "gone", "unreadable"} \ {place[w]} :
        /\ place' = [place EXCEPT ![w] = s]
        /\ command' = [p \in Procs |->
               IF s # "there" /\ command[p].at # "idle"
               THEN [command[p] EXCEPT !.stayed = @ \ {w}] ELSE command[p]]
    /\ UNCHANGED <<now, roots, noted, archives, outside, made, dropped>>

Tick == /\ now < Seconds /\ now' = now + 1
        /\ UNCHANGED <<place, roots, noted, archives, outside, command, tally, made, dropped>>

-----------------------------------------------------------------------------
\* A command: the step it is at, the root it works on, and what it read.

Goto(p, c) == command' = [command EXCEPT ![p] = c]
Start(p) ==
    /\ command[p].at = "idle" /\ tally.commands < MaxCommands
    /\ tally' = [tally EXCEPT !.commands = @ + 1]
There == {w \in Workspaces : place[w] = "there"}

\* The command ends, with an error, or because it is killed.
Stop(p) == Goto(p, Idle)
KillCommand(p) ==
    /\ command[p].at # "idle" /\ Stop(p)
    /\ UNCHANGED <<now, place, roots, noted, archives, outside, tally, made, dropped>>

-----------------------------------------------------------------------------
\* seed: what to do with each file is decided on one look.

\* MEMORY.md is written only when it is missing.
MemoryVerdict(w) ==
    CASE roots[w] = None \/ roots[w].memory = None -> "write"
      [] roots[w] # None /\ roots[w].memory = Seed -> IF "memory" \in noted[w] THEN "same" ELSE "adopt"
      [] OTHER -> "skip"

\* The sidecar is omm's own: written when missing, adopted when identical.
SidecarVerdict(w) ==
    CASE roots[w] = None \/ roots[w].sidecar = None -> "write"
      [] roots[w] # None /\ roots[w].sidecar = "own" -> IF "sidecar" \in noted[w] THEN "same" ELSE "adopt"
      [] OTHER -> "skip"

SeedLook(p, w) ==
    /\ Start(p) /\ place[w] = "there"
    /\ roots' = [roots EXCEPT ![w] = IF @ = None THEN EmptyRoot ELSE @]
    /\ Goto(p, [at |-> "seed memory", work |-> w, late |-> FALSE, stayed |-> There,
                memory |-> MemoryVerdict(w), sidecar |-> SidecarVerdict(w)])
    /\ UNCHANGED <<now, place, noted, archives, outside, made, dropped>>

\* A write goes neither through a linked root nor into one that is gone.
Writable(w) == roots[w] # None /\ ~roots[w].link

SeedMemory(p) ==
    /\ command[p].at = "seed memory"
    /\ LET c == command[p] IN
       IF c.memory # "write"
       THEN Goto(p, [c EXCEPT !.at = "seed sidecar"]) /\ UNCHANGED roots
       ELSE IF Writable(c.work)
            THEN /\ roots' = [roots EXCEPT ![c.work].memory = Seed]
                 /\ Goto(p, [c EXCEPT !.at = "seed sidecar"])
            ELSE Stop(p) /\ UNCHANGED roots
    /\ UNCHANGED <<now, place, noted, archives, outside, tally, made, dropped>>

SeedSidecar(p) ==
    /\ command[p].at = "seed sidecar"
    /\ LET c == command[p] IN
       IF c.sidecar # "write"
       THEN Goto(p, [c EXCEPT !.at = "note"]) /\ UNCHANGED roots
       ELSE IF Writable(c.work)
            THEN /\ roots' = [roots EXCEPT ![c.work].sidecar = "own"]
                 /\ Goto(p, [c EXCEPT !.at = "note"])
            ELSE Stop(p) /\ UNCHANGED roots
    /\ UNCHANGED <<now, place, noted, archives, outside, tally, made, dropped>>

\* The ledger learns of both files at once.
SeedNote(p) ==
    /\ command[p].at = "note"
    /\ LET c == command[p] IN
       noted' = [noted EXCEPT ![c.work] = @ \cup
           {f \in {"memory", "sidecar"} : c[f] \in {"write", "adopt"}}]
    /\ Stop(p)
    /\ UNCHANGED <<now, place, roots, archives, outside, tally, made, dropped>>

-----------------------------------------------------------------------------
\* The directory of the command in snapshots/memory.

Pick(p) ==
    /\ command[p].at = "pick"
    /\ Goto(p, [command[p] EXCEPT !.at = "make", !.dir =
           [at |-> now, n |-> FirstNumber(archives, now), born |-> made]])
    /\ UNCHANGED <<now, place, roots, noted, archives, outside, tally, made, dropped>>

Make(p) ==
    /\ command[p].at = "make"
    /\ LET d == command[p].dir
           made1 == [d EXCEPT !.n = Created(archives, d.at, d.n)]
       IN /\ archives' = archives \cup
                 {[at |-> made1.at, n |-> made1.n, born |-> made1.born, tars |-> <<>>]}
          /\ Goto(p, [command[p] EXCEPT !.at = "archive", !.dir = made1])
    /\ made' = made + 1
    /\ UNCHANGED <<now, place, roots, noted, outside, tally, dropped>>

Dir(p) == {d \in archives : d.at = command[p].dir.at /\ d.n = command[p].dir.n}

\* A tar of the same name is written over.
WithTar(tars, w, held) == [v \in DOMAIN tars \cup {w} |-> IF v = w THEN held ELSE tars[v]]

\* The archive of the root, in the directory or, with --to, outside it. A root
\* that is gone, or a link, is an error, and so is a directory rolled off.
Archive(p) ==
    /\ command[p].at = "archive"
    /\ LET c == command[p] IN
       IF roots[c.work] = None \/ roots[c.work].link \/ (~c.to /\ Dir(p) = {})
       THEN Stop(p) /\ UNCHANGED <<archives, outside>>
       ELSE /\ IF c.to
               THEN /\ outside' = outside \cup {Archived(roots[c.work])}
                    /\ UNCHANGED archives
               ELSE /\ archives' = {IF d \in Dir(p)
                                    THEN [d EXCEPT !.tars = WithTar(@, c.work, Archived(roots[c.work]))]
                                    ELSE d : d \in archives}
                    /\ UNCHANGED outside
            /\ Goto(p, IF c.gc THEN [c EXCEPT !.at = "remove", !.late = FALSE]
                       ELSE IF c.to THEN Idle ELSE [c EXCEPT !.at = "prune"])
    /\ UNCHANGED <<now, place, roots, noted, tally, made, dropped>>

\* The newest stay. The directories are listed and removed in one step: those
\* listed as too old only get older.
Prune(p) ==
    /\ command[p].at = "prune"
    /\ archives' = archives \ RolledOff(archives)
    /\ Stop(p)
    /\ UNCHANGED <<now, place, roots, noted, outside, tally, made, dropped>>

BeginBackup(p, w) ==
    /\ Start(p) /\ roots[w] # None
    /\ \E to \in BOOLEAN :
        Goto(p, [at |-> IF to THEN "archive" ELSE "pick", gc |-> FALSE, to |-> to, work |-> w,
                 late |-> FALSE, stayed |-> There, dir |-> None])
    /\ UNCHANGED <<now, place, roots, noted, archives, outside, made, dropped>>

-----------------------------------------------------------------------------
\* gc: one scan, then the roots one after the other.

\* The sidecar counts when the formula gives the root's name from what it
\* says. A mapping from trust.json or from the current directory is not
\* acted on, so it is left out here.
NamedBySidecar(w) == roots[w] # None /\ ~roots[w].link /\ roots[w].sidecar \in {"own", "edited"}

BeginGc(p) ==
    /\ Start(p)
    /\ Goto(p, [at |-> "gc", gc |-> TRUE, to |-> FALSE, work |-> None, late |-> FALSE,
                todo |-> {w \in Workspaces : roots[w] # None},
                named |-> {w \in Workspaces : NamedBySidecar(w)},
                stayed |-> There, dir |-> None])
    /\ UNCHANGED <<now, place, roots, noted, archives, outside, made, dropped>>

\* The workspace is looked for when its root's turn comes.
Removable(p, w) == w \in command[p].named /\ place[w] = "gone"

\* The next root, in any order (the code goes by name). What is removed is a
\* real directory under memory/projects.
GcNext(p) ==
    /\ command[p].at = "gc" /\ command[p].todo # {}
    /\ \E w \in command[p].todo :
        LET c == [command[p] EXCEPT !.todo = @ \ {w}] IN
        Goto(p, CASE ~Removable(p, w) -> c
                  [] Removable(p, w) /\ roots[w] = None -> Idle
                  [] Removable(p, w) /\ roots[w] # None ->
                       IF roots[w].link THEN c
                       ELSE [c EXCEPT !.work = w,
                                      !.at = IF c.dir = None THEN "pick" ELSE "archive"])
    /\ UNCHANGED <<now, place, roots, noted, archives, outside, tally, made, dropped>>

\* The root goes with everything in it, also what came after the archive.
GcRemove(p) ==
    /\ command[p].at = "remove"
    /\ LET c == command[p] w == c.work IN
       IF roots[w] = None
       THEN Stop(p) /\ UNCHANGED <<roots, dropped>>
       ELSE /\ roots' = [roots EXCEPT ![w] = None]
            /\ dropped' = dropped \cup
                   {[root |-> w, held |-> IF c.late THEN {} ELSE {roots[w].memory} \cap Written,
                     born |-> c.dir.born, stayed |-> w \in c.stayed]}
            /\ Goto(p, [c EXCEPT !.at = "forget"])
    /\ UNCHANGED <<now, place, noted, archives, outside, tally, made>>

GcForget(p) ==
    /\ command[p].at = "forget"
    /\ noted' = [noted EXCEPT ![command[p].work] = {}]
    /\ Goto(p, [command[p] EXCEPT !.at = "gc", !.work = None])
    /\ UNCHANGED <<now, place, roots, archives, outside, tally, made, dropped>>

GcEnd(p) ==
    /\ command[p].at = "gc" /\ command[p].todo = {}
    /\ Goto(p, IF command[p].dir = None THEN Idle ELSE [command[p] EXCEPT !.at = "prune"])
    /\ UNCHANGED <<now, place, roots, noted, archives, outside, tally, made, dropped>>

KNext ==
    \/ \E w \in Workspaces : WriteRoot(w) \/ MoveWorkspace(w)
    \/ Tick
    \/ \E p \in Procs :
         \/ KillCommand(p) \/ SeedMemory(p) \/ SeedSidecar(p) \/ SeedNote(p)
         \/ Pick(p) \/ Make(p) \/ Archive(p) \/ Prune(p)
         \/ BeginGc(p) \/ GcNext(p) \/ GcRemove(p) \/ GcForget(p) \/ GcEnd(p)
         \/ \E w \in Workspaces : SeedLook(p, w) \/ BeginBackup(p, w)

-----------------------------------------------------------------------------
\* Properties.

\* `omm memory gc` removes a root only if its workspace was gone at some time
\* since the command began, however workspaces come and go between its scan and
\* the removal; and what the user wrote in it is in an archive until as many
\* newer archives were made as are kept. What was written between the archive
\* and the removal is lost. The directories of concurrent commands are named
\* and pruned without a lock.
MemoriesKept ==
    \A e \in dropped :
        /\ ~e.stayed
        /\ \/ e.held = {}
           \/ made - e.born > Keep
           \/ \E d \in archives : e.root \in DOMAIN d.tars /\ e.held \subseteq d.tars[e.root]

=============================================================================
