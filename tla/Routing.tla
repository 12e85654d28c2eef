------------------------------- MODULE Routing -------------------------------
(***************************************************************************)
(* Skill routing (omm/src/cmd/c_tune/routing_enable.rs, routing.rs and     *)
(* routing_doctor.rs): `omm enable skill-routing` copies a library into    *)
(* the workspace, merges a handler into .muse/hooks.json and records both; *)
(* `omm disable` takes them back; the handler, `omm hook route`, answers   *)
(* each prompt with the skills that match it, within a budget of bytes;    *)
(* doctor's D16 says whether that works.                                   *)
(*                                                                         *)
(* One command runs at a time, and may be killed between any two steps.    *)
(* The user edits the files, and prompts, at any moment. Directories,      *)
(* snapshots and file modes are left out.                                  *)
(***************************************************************************)
EXTENDS Integers, Sequences, SequencesExt, FiniteSets, FiniteSetsExt

CONSTANTS
    Library,    \* by release and skill: its version, 0 where it is not carried
    Desc,       \* by skill: its description, a sequence of words
    Prompts,    \* prompts, each the scores of the skills
    Sizes,      \* sizes the host's own catalog may have (order 200)
    UserHooks,  \* hooks of the user's in hooks.json
    Programs,   \* ways in which omm may be named on this machine
    Cap,        \* bytes of the catalog and the routed block together
    Margin,     \* bytes the router keeps free
    Frame,      \* bytes of a block around its entries
    EntryBase,  \* bytes of an entry besides its description
    DescMin,    \* a description is never trimmed below these bytes
    Builtins,   \* size assumed where none was measured
    MaxSelected,\* skills routed per prompt
    None, Edited, Garbled, Odd, \* no file; edited; does not parse; no regular file
    MaxRuns, MaxEdits, MaxKills, MaxPrompts \* bounds

Releases == DOMAIN Library
Skills   == DOMAIN Desc
\* .omm/routing.json, among the files of the workspace: 0, and the skills.
StateFile == 0
Paths == {StateFile} \cup Skills

Words == [bytes : Nat, weight : Nat]

\* The bytes of hooks.json: the hooks of the user's, the command of omm's
\* handler, and whether omm or the user laid them out.
HookDocs == [user : SUBSET UserHooks, omm : Programs \cup {None}, pretty : BOOLEAN]

\* What omm writes to its state file, to its ledger and to config.json.
StateDocs == [size : Nat, command : Programs, skills : SUBSET Skills]
Merges    == [sha : HookDocs, mech : {"copy", "merge"}, original : HookDocs \cup {None}]
Records   == [size : Nat, skills : SUBSET Skills, command : Programs, created : BOOLEAN]

ASSUME RoutingAssumption ==
    /\ 1 \in Releases /\ Skills \subseteq Nat \ {StateFile}
    /\ \A r \in Releases : Library[r] \in [Skills -> Nat]
    /\ Sizes \subseteq Nat /\ Builtins \in Nat
    /\ Programs # {} /\ None \notin Programs
    /\ \A d \in {None, Garbled, Odd} : d \notin HookDocs
    /\ None \notin StateDocs \cup Nat /\ None \notin Merges /\ None \notin Records
    /\ None \notin {Edited, Garbled, Odd}

ASSUME BudgetAssumption ==
    /\ IsFiniteSet(Skills) /\ \A s \in Skills : Desc[s] \in Seq(Words)
    /\ Prompts \subseteq [Skills -> Nat]
    /\ {Cap, Margin, EntryBase} \subseteq Nat
    /\ {Frame, DescMin, MaxSelected} \subseteq Nat \ {0}

VARIABLES
    file,     \* the files of the workspace
    hooks,    \* .muse/hooks.json
    entry,    \* the ledger: for each path the digest omm recorded, or None
    merged,   \* the ledger's entry of hooks.json, or None
    config,   \* $OMM/config.json: it exists, has other keys, the routing record
    world,    \* the release, the program, the size of the catalog, the trust
    job,      \* the command that runs
    router,   \* the handler that runs
    count,    \* commands, edits, kills, prompts
    \* History.
    before,   \* hooks.json and config.json before omm came; the files the user
              \* touched, or a kill tore
    absorbed  \* a file omm created was recorded again with the user's hooks

rVars == <<file, hooks, entry, merged, config, world, job, router, count,
           before, absorbed>>

Idle == [at |-> "idle"]
Goto(step) == job' = [job EXCEPT !.at = step]

-----------------------------------------------------------------------------
\* The budget of the routed block.

\* The sums of the first numbers, up to n of them.
Sums(ns, n) == LET sums[k \in 0 .. n] == IF k = 0 THEN 0 ELSE sums[k - 1] + ns[k] IN sums
Total(ns, n) == Sums(ns, n)[n]

Blanks(d) == IF d = <<>> THEN 0 ELSE Len(d) - 1
RawBytes(d) == Total([i \in DOMAIN d |-> d[i].bytes], Len(d)) + Blanks(d)
\* The host escapes a description: a word of weight 5 is all ampersands.
Cost(d) == Total([i \in DOMAIN d |-> d[i].bytes * d[i].weight], Len(d)) + Blanks(d)

EntryBytes(d) == EntryBase + Cost(d)
Block(sel) ==
    IF sel = <<>> THEN 0
    ELSE Frame + Total([i \in DOMAIN sel |-> EntryBytes(sel[i].desc)], Len(sel))

Monus(a, b) == IF a < b THEN 0 ELSE a - b
Available(size) == Monus(Monus(Cap, size), Margin)

\* d cut to max bytes, at the last blank if that leaves enough, else in a word.
Trimmed(d, max) ==
    LET whole  == {j \in 0 .. Len(d) - 1 : RawBytes(SubSeq(d, 1, j)) < max}
        j      == Max(whole)
        prefix == SubSeq(d, 1, j)
        rest   == max - RawBytes(prefix) - (IF j = 0 THEN 0 ELSE 1)
        cut    == IF RawBytes(prefix) >= DescMin \/ rest = 0 THEN prefix
                  ELSE Append(prefix, [d[j + 1] EXCEPT !.bytes = rest])
    IN  IF RawBytes(d) <= max THEN d
        ELSE IF max < DescMin \/ RawBytes(cut) < DescMin THEN None
        ELSE cut

\* Mutant of Fits: the last entry stays, whatever its size.
FitsOne(sel, room) == Len(sel) <= 1 \/ Block(sel) <= room
Fits(sel, room) == sel = <<>> \/ Block(sel) <= room

\* One turn of the loop that makes a selection fit: the last description that
\* can be trimmed is, else the last entry is dropped.
Squeezed(sel, room) ==
    LET over   == Block(sel) - room
        cut(i) == Trimmed(sel[i].desc, Monus(Cost(sel[i].desc), over))
        able   == {i \in DOMAIN sel :
                      cut(i) # None /\ RawBytes(cut(i)) < RawBytes(sel[i].desc)}
    IN  IF able = {} THEN Front(sel) ELSE [sel EXCEPT ![Max(able)].desc = cut(Max(able))]

\* The skills of the workspace that parse.
Loaded == {s \in Skills : file[s] \notin {None, Garbled, Odd}}

\* Of some skills the one with the largest key, of several the least; and those
\* that are left when the first ones are taken.
Foremost(set, key) ==
    CHOOSE s \in set : \A t \in set \ {s} : key[s] > key[t] \/ (key[s] = key[t] /\ s < t)
Left(set, key) ==
    LET left[k \in 0 .. Cardinality(set)] ==
            IF k = 0 THEN set ELSE left[k - 1] \ {Foremost(left[k - 1], key)}
    IN  left
\* The entries of the first ones, as many as are routed.
Best(set, key) ==
    [i \in 1 .. Min({Cardinality(set), MaxSelected}) |->
        [id |-> Foremost(Left(set, key)[i - 1], key),
         desc |-> Desc[Foremost(Left(set, key)[i - 1], key)]]]

\* The best matches, by score and then by id.
Select(prompt, lib) == Best({s \in lib : prompt[s] > 0}, prompt)

\* The dearest entries: no prompt can bring about a larger block.
WorstCase(lib) == Block(Best(lib, [s \in lib |-> EntryBytes(Desc[s])]))

\* The size to budget against: the larger of the two records.
Order200 ==
    LET recorded == {config.routing.size : r \in {config.routing} \ {None}}
        inState  == IF file[StateFile] \in {None, Edited, Garbled, Odd} THEN {}
                    ELSE {file[StateFile].size}
    IN  IF recorded \cup inState = {} THEN Builtins ELSE Max(recorded \cup inState)

-----------------------------------------------------------------------------
\* Enable.

\* The three-way decision for one file.
Outcome(ancestor, theirs, mine) ==
    CASE mine = Odd -> "stage"
      [] ancestor = theirs -> "noop"
      [] ancestor = None /\ mine = None -> "overwrite"
      [] ancestor # None /\ mine = ancestor -> "overwrite"
      [] mine = theirs -> "adopt"
      [] OTHER -> "stage"

\* The word by which this omm runs: `omm` where PATH leads to it, else its path.
Command == world.program

\* A hooks document with exactly one handler of omm's, laid out by omm.
MergedDoc(doc, command) == [doc EXCEPT !.omm = command, !.pretty = TRUE]

\* What enable wants of hooks.json: the bytes to write, or None, and the entry.
HooksPlan(command) ==
    LET doc == MergedDoc(IF hooks = None THEN [user |-> {}, omm |-> None, pretty |-> TRUE]
                         ELSE hooks, command)
        new == IF hooks = None THEN [sha |-> doc, mech |-> "copy", original |-> None]
               ELSE IF merged # None THEN [merged EXCEPT !.sha = doc]
               ELSE [sha |-> doc, mech |-> "merge", original |-> hooks]
    IN  IF hooks # None /\ hooks.omm = command
        THEN [bytes |-> None, entry |-> merged]
        ELSE [bytes |-> doc, entry |-> new]

\* The record of the measurement, the handler and the skills.
StateDoc(size) ==
    [size |-> size, command |-> Command,
     skills |-> {s \in Skills : Library[world.release][s] # 0}]

Carried == {s \in Skills : Library[world.release][s] # 0}
Wanted(size) == [p \in {StateFile} \cup Carried |->
                    IF p = StateFile THEN StateDoc(size) ELSE Library[world.release][p]]

\* Files recorded earlier which the library has no more, still as omm wrote them.
Stale == {s \in Skills \ Carried : entry[s] # None /\ file[s] = entry[s]}

\* Everything is read, and decided, before anything is written. A workspace
\* that is not trusted, and a hooks file that cannot be merged, are refused.
BeginEnable(measured) ==
    /\ job = Idle /\ count.runs < MaxRuns
    /\ world.trusted
    /\ hooks \notin {Garbled, Odd}
    /\ LET want == Wanted(IF measured THEN world.size ELSE Order200)
       IN  job' = [at |-> "record", want |-> want,
                   todo |-> [p \in DOMAIN want |-> Outcome(entry[p], want[p], file[p])],
                   stale |-> Stale, hooks |-> HooksPlan(Command), seen |-> hooks]
    /\ absorbed' = (absorbed \/ (HooksPlan(Command).bytes # None /\ hooks # None
                        /\ merged # None /\ merged.mech = "copy" /\ hooks.user # {}))
    /\ count' = [count EXCEPT !.runs = @ + 1]
    /\ UNCHANGED <<file, hooks, entry, merged, config, world, router, before>>

Writes == {p \in DOMAIN job.todo : job.todo[p] = "overwrite"}

\* Mutant of EnableRecords: the entry of the hooks file is left for later.
EnableRecordsFiles ==
    /\ job.at = "record"
    /\ entry' = [p \in Paths |->
          IF p \in DOMAIN job.todo /\ job.todo[p] \in {"overwrite", "adopt"} THEN job.want[p]
          ELSE IF p \in job.stale THEN None ELSE entry[p]]
    /\ Goto("files")
    /\ UNCHANGED <<file, hooks, merged, config, world, router, count, before, absorbed>>

\* The ledger first, once, under its lock.
EnableRecords ==
    /\ job.at = "record"
    /\ entry' = [p \in Paths |->
          IF p \in DOMAIN job.todo /\ job.todo[p] \in {"overwrite", "adopt"} THEN job.want[p]
          ELSE IF p \in job.stale THEN None ELSE entry[p]]
    /\ merged' = IF job.hooks.entry # None THEN job.hooks.entry ELSE merged
    /\ Goto("files")
    /\ UNCHANGED <<file, hooks, config, world, router, count, before, absorbed>>

\* The skills in their order, the state file last.
NextOf(set) == IF set \cap Skills # {} THEN Min(set \cap Skills) ELSE StateFile

EnableWrites ==
    /\ job.at = "files" /\ Writes # {}
    /\ LET p == NextOf(Writes)
       IN  /\ file' = [file EXCEPT ![p] = job.want[p]]
           /\ job' = [job EXCEPT !.todo[p] = "noop"]
    /\ UNCHANGED <<hooks, entry, merged, config, world, router, count, before, absorbed>>

\* A stale file is removed without another look.
EnableDrops ==
    /\ job.at = "files" /\ Writes = {} /\ job.stale # {}
    /\ LET p == Min(job.stale)
       IN  /\ file[p] # None
           /\ file' = [file EXCEPT ![p] = None]
           /\ job' = [job EXCEPT !.stale = @ \ {p}]
    /\ UNCHANGED <<hooks, entry, merged, config, world, router, count, before, absorbed>>

\* The bytes of the plan, whatever the file holds by now.
EnableHooks ==
    /\ job.at = "files" /\ Writes = {} /\ job.stale = {}
    /\ hooks' = IF job.hooks.bytes = None THEN hooks ELSE job.hooks.bytes
    /\ Goto("config")
    /\ UNCHANGED <<file, entry, merged, config, world, router, count, before, absorbed>>

EnableConfig ==
    /\ job.at = "config"
    /\ config' = [config EXCEPT !.exists = TRUE,
          !.routing = [size |-> job.want[StateFile].size, skills |-> job.want[StateFile].skills,
                       command |-> job.want[StateFile].command,
                       created |-> IF @ # None THEN @.created ELSE ~config.exists]]
    /\ job' = Idle
    /\ UNCHANGED <<file, hooks, entry, merged, world, router, count, before, absorbed>>

-----------------------------------------------------------------------------
\* Disable.

BeginDisable ==
    /\ job = Idle /\ count.runs < MaxRuns
    /\ job' = [at |-> "remove", todo |-> {p \in Paths : entry[p] # None}, drop |-> {},
               undone |-> FALSE, seen |-> hooks]
    /\ count' = [count EXCEPT !.runs = @ + 1]
    /\ UNCHANGED <<file, hooks, entry, merged, config, world, router, before, absorbed>>

\* omm's bytes go, edits stay and stay recorded.
DisableFile ==
    /\ job.at = "remove" /\ job.todo # {}
    /\ LET p == NextOf(job.todo)
       IN  /\ file' = IF file[p] = entry[p] THEN [file EXCEPT ![p] = None] ELSE file
           /\ job' = [job EXCEPT !.todo = @ \ {p},
                          !.drop = IF file[p] \in {entry[p], None} THEN @ \cup {p} ELSE @]
    /\ UNCHANGED <<hooks, entry, merged, config, world, router, count, before, absorbed>>

SameDoc(a, b) == a.user = b.user /\ a.omm = b.omm

\* Mutant of Undone: a file omm has written is a file omm has made.
UndoneAnyMech(e) ==
    IF hooks \in {None, Odd, Garbled} THEN [file |-> hooks, drop |-> hooks = None]
    ELSE IF hooks = e.sha THEN [file |-> None, drop |-> TRUE]
    ELSE [file |-> [hooks EXCEPT !.omm = None, !.pretty = TRUE], drop |-> TRUE]

\* What becomes of hooks.json, and whether its entry goes: a file omm made and
\* nobody touched is removed; else the handler is taken out, and the bytes from
\* before omm come back if that leaves their document.
Undone(e) ==
    LET doc == [hooks EXCEPT !.omm = None, !.pretty = TRUE]
    IN  CASE hooks = None -> [file |-> None, drop |-> TRUE]
          [] hooks \in {Odd, Garbled} -> [file |-> hooks, drop |-> FALSE]
          [] hooks \notin {None, Odd, Garbled} ->
               IF e.mech = "copy" /\ hooks = e.sha THEN [file |-> None, drop |-> TRUE]
               ELSE IF e.original # None /\ SameDoc(e.original, doc)
               THEN [file |-> e.original, drop |-> TRUE]
               ELSE IF hooks.omm # None THEN [file |-> doc, drop |-> TRUE]
               ELSE [file |-> hooks, drop |-> TRUE]

DisableHooks ==
    /\ job.at = "remove" /\ job.todo = {}
    /\ IF merged = None THEN UNCHANGED hooks /\ Goto("drop")
       ELSE /\ hooks' = Undone(merged).file
            /\ job' = [job EXCEPT !.at = "drop", !.undone = Undone(merged).drop]
    /\ UNCHANGED <<file, entry, merged, config, world, router, count, before, absorbed>>

\* Only now does the ledger forget what went.
DisableRecords ==
    /\ job.at = "drop"
    /\ entry' = [p \in Paths |-> IF p \in job.drop THEN None ELSE entry[p]]
    /\ merged' = IF job.undone THEN None ELSE merged
    /\ Goto("unset")
    /\ UNCHANGED <<file, hooks, config, world, router, count, before, absorbed>>

\* A config.json that enable created, and that holds nothing else, goes.
DisableConfig ==
    /\ job.at = "unset"
    /\ config' = IF config.routing # None /\ config.routing.created /\ ~config.other
                 THEN [config EXCEPT !.exists = FALSE, !.routing = None]
                 ELSE [config EXCEPT !.routing = None]
    /\ job' = Idle
    /\ UNCHANGED <<file, hooks, entry, merged, world, router, count, before, absorbed>>

\* A kill after the record leaves what is not written yet torn: old bytes of
\* omm's under a new digest, or under none.
Kill ==
    /\ job # Idle /\ count.kills < MaxKills
    /\ job' = Idle
    /\ count' = [count EXCEPT !.kills = @ + 1]
    /\ before' = IF job.at # "files" THEN before
                 ELSE [before EXCEPT !.touched = @ \cup {p \in Writes : file[p] # None} \cup job.stale,
                          !.hooksTouched = @ \/ (job.hooks.bytes # None /\ hooks # None /\ hooks # before.hooks)]
    /\ UNCHANGED <<file, hooks, entry, merged, config, world, router, absorbed>>

-----------------------------------------------------------------------------
\* The handler. The host starts it for a prompt where it is loaded.

Prompt(p) ==
    /\ router.at \in {"idle", "answered"} /\ count.prompts < MaxPrompts
    /\ world.trusted
    /\ hooks \notin {None, Garbled, Odd} /\ hooks.omm = world.program
    /\ router' = IF Select(p, Loaded) = <<>> THEN router
                 ELSE [at |-> "selected", sel |-> Select(p, Loaded), size |-> 0]
    /\ count' = [count EXCEPT !.prompts = @ + 1]
    /\ UNCHANGED <<file, hooks, entry, merged, config, world, job, before, absorbed>>

Routes(r) ==
    /\ router' = r
    /\ UNCHANGED <<file, hooks, entry, merged, config, world, job, count, before, absorbed>>

\* The recorded size of the catalog is read once, for all of the fitting.
Budget == router.at = "selected" /\ Routes([router EXCEPT !.at = "fitting", !.size = Order200])

Squeeze ==
    /\ router.at = "fitting" /\ ~Fits(router.sel, Available(router.size))
    /\ Routes([router EXCEPT !.sel = Squeezed(@, Available(router.size))])

\* The entries of files that the host would take.
Taken(sel) ==
    LET taken[k \in 0 .. Len(sel)] ==
            IF k = 0 THEN <<>>
            ELSE IF file[sel[k].id] \in {None, Odd} THEN taken[k - 1]
            ELSE Append(taken[k - 1], sel[k])
    IN  taken[Len(sel)]

\* What fits is printed, without what the host would refuse.
Answer ==
    /\ router.at = "fitting" /\ Fits(router.sel, Available(router.size))
    /\ Routes([router EXCEPT !.at = "answered", !.sel = Taken(@)])

-----------------------------------------------------------------------------
\* Doctor's D16, of a live session or of the record (live = None).

Basis(live) ==
    IF live # None /\ live > config.routing.size THEN live ELSE config.routing.size

Problems(live) ==
    {p \in {"untrusted", "hooks", "files", "budget", "outgrown"} :
        CASE p = "untrusted" -> ~world.trusted
          [] p = "hooks" -> \/ hooks \in {None, Garbled, Odd}
                            \/ hooks.omm # config.routing.command
                            \/ hooks.omm # world.program
          [] p = "files" -> \E s \in config.routing.skills : file[s] \in {None, Odd}
          [] p = "budget" -> Cap - Basis(live) - WorstCase(Loaded) < Margin
          [] p = "outgrown" -> live # None /\ live > config.routing.size + Margin}

-----------------------------------------------------------------------------
\* The user, and the world.

Change ==
    /\ count.edits < MaxEdits
    /\ count' = [count EXCEPT !.edits = @ + 1]
    /\ UNCHANGED <<entry, merged, job, router, absorbed>>

EditFile(p, c) ==
    /\ file[p] # c
    /\ file' = [file EXCEPT ![p] = c]
    /\ before' = [before EXCEPT !.touched = @ \cup {p}]
    /\ Change
    /\ UNCHANGED <<hooks, config, world>>

EditHooks(doc) ==
    /\ hooks # doc
    /\ hooks' = doc
    /\ before' = [before EXCEPT !.hooksTouched = TRUE]
    /\ Change
    /\ UNCHANGED <<file, config, world>>

AddKey ==
    /\ ~config.other
    /\ config' = [config EXCEPT !.exists = TRUE, !.other = TRUE]
    /\ before' = [before EXCEPT !.config = TRUE]
    /\ Change
    /\ UNCHANGED <<file, hooks, world>>

TheWorld(w) == world' = w /\ Change /\ UNCHANGED <<file, hooks, config, before>>

Upgrade == world.release + 1 \in Releases /\ TheWorld([world EXCEPT !.release = @ + 1])
Move(p) == p # world.program /\ TheWorld([world EXCEPT !.program = p])
Resize(n) == n # world.size /\ TheWorld([world EXCEPT !.size = n])
Retrust == TheWorld([world EXCEPT !.trusted = ~@])

UserDocs == {[user |-> u, omm |-> o, pretty |-> FALSE] :
                u \in SUBSET UserHooks, o \in {None, world.program}}

\* omm has never been there; hooks.json may be there already, and config.json.
RInit ==
    /\ file = [p \in Paths |-> None] /\ entry = [p \in Paths |-> None] /\ merged = None
    /\ hooks \in {None} \cup {[user |-> u, omm |-> None, pretty |-> FALSE] : u \in SUBSET UserHooks}
    /\ config \in [exists : {TRUE}, other : {TRUE}, routing : {None}]
                  \cup [exists : {FALSE}, other : {FALSE}, routing : {None}]
    /\ world \in [release : {1}, program : {CHOOSE p \in Programs : TRUE}, size : Sizes, trusted : {TRUE}]
    /\ job = Idle /\ router = [at |-> "idle", sel |-> <<>>, size |-> 0]
    /\ count = [runs |-> 0, edits |-> 0, kills |-> 0, prompts |-> 0]
    /\ before = [hooks |-> hooks, config |-> config.exists, touched |-> {}, hooksTouched |-> FALSE]
    /\ absorbed = FALSE

RStep ==
    \/ EnableRecords \/ EnableWrites \/ EnableDrops \/ EnableHooks \/ EnableConfig
    \/ DisableFile \/ DisableHooks \/ DisableRecords \/ DisableConfig

RNext ==
    \/ RStep
    \/ \E measured \in BOOLEAN : BeginEnable(measured)
    \/ BeginDisable \/ Kill
    \/ (\E p \in Prompts : Prompt(p)) \/ Budget \/ Squeeze \/ Answer
    \/ \E p \in Skills, c \in {None, Edited, Garbled, Odd} : EditFile(p, c)
    \/ \E d \in UserDocs \cup {None, Garbled, Odd} : EditHooks(d)
    \/ AddKey \/ Upgrade \/ Retrust
    \/ \E p \in Programs : Move(p)
    \/ \E n \in Sizes : Resize(n)

RoutingSpec == RInit /\ [][RNext]_rVars

-----------------------------------------------------------------------------
\* Properties.

\* The user's hooks in a hooks file.
HooksOf(doc) == IF doc \in {None, Garbled, Odd} THEN {} ELSE doc.user

\* No command takes a hook of the user's out of hooks.json that was there when
\* the command began, short of a file omm made and recorded again as its own
\* with the user's hooks in it.
HooksSurvive ==
    [][job # Idle /\ ~absorbed /\ hooks' # hooks /\ count.edits = count'.edits
        => HooksOf(job.seen) \cap HooksOf(hooks) \subseteq HooksOf(hooks')]_rVars

\* The same, without the exception.
HooksNeverLost ==
    [][job # Idle /\ hooks' # hooks /\ count.edits = count'.edits
        => HooksOf(job.seen) \cap HooksOf(hooks) \subseteq HooksOf(hooks')]_rVars

\* A disable that ends leaves hooks.json and config.json as they were before
\* omm came, and none of its files, whatever releases and kills came between,
\* except for what the user touched and what a kill tore.
DisableRestores ==
    [][job.at = "unset" /\ job' = Idle /\ count.kills = count'.kills =>
        /\ ~before.hooksTouched => hooks = before.hooks
        /\ config'.exists = before.config
        /\ \A p \in Paths \ before.touched : file[p] = None]_rVars

\* What the router prints fits beside the catalog it budgets against; and where
\* D16 finds nothing wrong, no prompt loses a word of a description, as long as
\* the workspace's state file and config.json agree.
RoutesWhole ==
    /\ router.at = "answered" /\ router.sel # <<>> =>
           Block(router.sel) + router.size + Margin <= Cap
    /\ config.routing # None /\ Problems(world.size) = {}
           /\ Order200 = config.routing.size =>
           \A p \in Prompts : Block(Select(p, Loaded)) <= Available(Order200)
=============================================================================
