------------------------------- MODULE Assets -------------------------------
(***************************************************************************)
(* The files omm owns outright: the themes it copies into the host's       *)
(* configuration, one ledger entry each, from the first install to the     *)
(* uninstall.                                                              *)
(*                                                                         *)
(*   - `omm install` decides file by file, saves the ledger and then       *)
(*     writes (a_lifecycle/files.rs, install_themes);                      *)
(*   - `omm update` plans every file with the three-way merge of R3, then  *)
(*     applies the plan and saves the ledger once (omm-ledger/reconcile.rs *)
(*     and update_themes);                                                 *)
(*   - `omm uninstall` loads the ledger and plans without a lock, unlinks  *)
(*     under the lock, then removes $OMM, the lock file with it, and the   *)
(*     ledger last (omm-ledger/uninstall.rs).                              *)
(*                                                                         *)
(* All three serialize on flock(2) of $OMM/locks/ledger.lock.  The lock is *)
(* on an inode, not on a path: a process keeps the lock of a file that has *)
(* been unlinked.  The user edits the files at any time, a process may die *)
(* between any two steps, and omm's own content moves on by releases.      *)
(*                                                                         *)
(* Content is a digest.  The staged copies under $OMM/updates, snapshots,  *)
(* the audit log, `--force` and `--dry-run` are left out, and so are the   *)
(* other steps of the three commands.                                      *)
(***************************************************************************)
EXTENDS Naturals, FiniteSets

CONSTANTS
    Procs,          \* omm processes
    Files,          \* paths omm ships a theme to
    Digests,        \* what omm has shipped
    LastRelease,    \* releases of omm's content: 1 .. LastRelease
    Ships,          \* Ships[r][f]: what release r has for f, None for nothing
    Mine,           \* content of the user's own
    Odd,            \* a directory
    Missing,        \* nothing at the path
    None,           \* no digest
    NoLedger,       \* there is no omm.lock.json
    Inodes,         \* what ledger.lock may be
    NoInode,        \* there is no ledger.lock; the process has it not open
    Commands,       \* the commands processes run
    FoundContents,  \* what may be at a path before omm's first run
    UserContents,   \* what the user may leave there later
    MaxEdits,       \* bound: edits of the user
    MaxKills        \* bound: processes killed

Releases == 1 .. LastRelease
Regular  == Digests \cup {Mine}
Content  == Regular \cup {Odd, Missing}

\* The digest each file was last ledgered with.
Ledger == [Files -> Digests \cup {None}]
NoEntries == [f \in Files |-> None]

ASSUME AssetsAssumption ==
    /\ LastRelease \in Nat \ {0}
    /\ Ships \in [Releases -> Ledger]
    /\ Mine \notin Digests /\ Odd \notin Regular
    /\ Missing \notin Regular \cup {Odd}
    /\ None \notin Content
    /\ NoLedger \notin Ledger
    /\ NoInode \notin Inodes
    /\ Commands \subseteq {"install", "update", "uninstall"}
    /\ FoundContents \subseteq Content
    /\ UserContents \subseteq Content
    /\ MaxEdits \in Nat /\ MaxKills \in Nat

VARIABLES
    disk,       \* what is at each path
    saved,      \* omm.lock.json
    release,    \* the newest release of omm's content
    lockFile,   \* the inode $OMM/locks/ledger.lock names
    pc,         \* where each process is
    cmd,        \* the command each process runs
    handle,     \* the lock file each process has open
    ledger,     \* the ledger each process has loaded
    source,     \* the release each process works from
    plan,       \* what each process has yet to do with each file
    edits, kills,  \* the counters the bounds cap
    \* History: what the properties compare the state with.
    stale,      \* per process, files changed by others since it looked
    ours,       \* files whose content omm put there
    torn,       \* files a process died over, between ledger and file
    overlap     \* an uninstall ran while another command did

files == <<disk, ours>>
local == <<cmd, ledger, source, plan>>
vars  == <<disk, saved, release, lockFile, pc, cmd, handle, ledger, source,
           plan, edits, kills, stale, ours, torn, overlap>>

Init ==
    /\ disk \in [Files -> FoundContents]
    /\ saved = NoLedger
    /\ release = 1
    /\ lockFile = NoInode
    /\ pc = [p \in Procs |-> "idle"]
    /\ cmd = [p \in Procs |-> "none"]
    /\ handle = [p \in Procs |-> NoInode]
    /\ ledger = [p \in Procs |-> NoLedger]
    /\ source = [p \in Procs |-> 1]
    /\ plan = [p \in Procs |-> [f \in Files |-> "done"]]
    /\ edits = 0
    /\ kills = 0
    /\ stale = [p \in Procs |-> {}]
    /\ ours = {}
    /\ torn = {}
    /\ overlap = FALSE

-----------------------------------------------------------------------------
(* The three-way merge (reconcile.rs, decide).                             *)

Outcomes == {"noop", "overwrite", "adopt", "stage"}

\* Mutant of Decide: an edited file is overwritten like an untouched one.
DecideOverEdits(ancestor, theirs, mine) ==
    IF ancestor = theirs THEN "noop"
    ELSE IF mine = theirs THEN "adopt"
    ELSE IF mine \in Regular \cup {Missing} THEN "overwrite"
    ELSE "stage"

\* Mutant of Decide: an untouched file is staged like an edited one.
DecideNeverOverwrites(ancestor, theirs, mine) ==
    IF ancestor = theirs THEN "noop"
    ELSE IF mine = theirs THEN "adopt"
    ELSE IF ancestor = None /\ mine = Missing THEN "overwrite"
    ELSE "stage"

\* ancestor: what omm wrote, None if nothing; theirs: what omm ships now;
\* mine: what is on disk.
Decide(ancestor, theirs, mine) ==
    IF ancestor = theirs THEN "noop"
    ELSE IF mine = (IF ancestor = None THEN Missing ELSE ancestor)
    THEN "overwrite"
    ELSE IF mine = theirs THEN "adopt"
    ELSE "stage"

\* Install rewrites a ledgered file that has gone.
InstallDecide(ancestor, theirs, mine) ==
    IF ancestor # None /\ mine = Missing THEN "overwrite"
    ELSE Decide(ancestor, theirs, mine)

\* The digest the ledger l has for f.
Ancestor(l, f) == IF l = NoLedger THEN None ELSE l[f]

\* l with f's digest set, in a new ledger if there was none.
Upsert(l, f, digest) ==
    [IF l = NoLedger THEN NoEntries ELSE l EXCEPT ![f] = digest]

Theirs(p, f) == Ships[source[p]][f]
Shipped(p) == {f \in Files : Theirs(p, f) # None}

-----------------------------------------------------------------------------
(* Steps shared by the actions.                                            *)

\* Control states of a process that holds the lock of its handle.
InSession == {"install", "update", "apply", "undo"}

Goto(p, step) == pc' = [pc EXCEPT ![p] = step]

Planned(p, f, step) == plan' = [plan EXCEPT ![p][f] = step]

\* The command ends: its lock file is closed.
Exit(p) ==
    /\ Goto(p, "idle")
    /\ cmd' = [cmd EXCEPT ![p] = "none"]
    /\ handle' = [handle EXCEPT ![p] = NoInode]
    /\ ledger' = [ledger EXCEPT ![p] = NoLedger]
    /\ source' = [source EXCEPT ![p] = 1]
    /\ plan' = [plan EXCEPT ![p] = [f \in Files |-> "done"]]
    /\ stale' = [stale EXCEPT ![p] = {}]

\* omm.lock.json becomes l; what it describes truly is no longer torn.
Save(l) ==
    /\ saved' = l
    /\ torn' = {f \in torn : Ancestor(l, f) # disk[f]}

\* p looks at f.
Looks(p, f) == stale' = [stale EXCEPT ![p] = @ \ {f}]

\* p puts content at f, behind the back of the other processes.
Puts(p, f, content) ==
    /\ disk' = [disk EXCEPT ![f] = content]
    /\ ours' = IF content = Missing THEN ours \ {f} ELSE ours \cup {f}
    /\ stale' = [q \in Procs |->
                    IF q = p THEN stale[q] ELSE stale[q] \cup {f}]

-----------------------------------------------------------------------------
(* The lock.                                                               *)

\* `omm install` or `omm update` from the newest content.
Begin(p, c) ==
    /\ pc[p] = "idle" /\ c \in Commands \ {"uninstall"}
    /\ cmd' = [cmd EXCEPT ![p] = c]
    /\ source' = [source EXCEPT ![p] = release]
    /\ Goto(p, "open")
    /\ UNCHANGED <<files, saved, release, lockFile, handle, ledger, plan,
                   edits, kills, stale, torn>>

\* The lock file is created unless it is there.
OpenLock(p) ==
    /\ pc[p] = "open"
    /\ \E i \in Inodes :
          /\ IF lockFile # NoInode THEN i = lockFile
             ELSE \A q \in Procs : handle[q] # i
          /\ lockFile' = i
          /\ handle' = [handle EXCEPT ![p] = i]
    /\ Goto(p, "flock")
    /\ UNCHANGED <<files, saved, release, local, edits, kills, stale, torn>>

\* Another process has the lock of the same inode.
Blocked(p) == \E q \in Procs \ {p} : pc[q] \in InSession /\ handle[q] = handle[p]

\* What a command does once it has the lock: a session loads the ledger,
\* the uninstall goes on with the one it has planned from.
Enter(p) ==
    /\ \/ /\ cmd[p] = "install"
          /\ ledger' = [ledger EXCEPT ![p] = saved]
          /\ plan' = [plan EXCEPT ![p] =
                [f \in Files |-> IF f \in Shipped(p) THEN "todo" ELSE "done"]]
          /\ Goto(p, "install")
       \/ /\ cmd[p] = "update" /\ saved # NoLedger
          /\ ledger' = [ledger EXCEPT ![p] = saved]
          /\ Goto(p, "update")
          /\ UNCHANGED plan
       \/ /\ cmd[p] = "uninstall"
          /\ Goto(p, "undo")
          /\ UNCHANGED <<ledger, plan>>
    /\ UNCHANGED <<files, saved, release, lockFile, cmd, handle, source,
                   edits, kills, stale, torn>>

\* Mutant of Flock: the lock is not taken, as on a target without flock.
FlockOpenOnly(p) == pc[p] = "flock" /\ Enter(p)

Flock(p) == pc[p] = "flock" /\ ~Blocked(p) /\ Enter(p)

\* There is nothing to update.
NothingToUpdate(p) ==
    /\ pc[p] = "flock" /\ ~Blocked(p)
    /\ cmd[p] = "update" /\ saved = NoLedger
    /\ Exit(p)
    /\ UNCHANGED <<files, saved, release, lockFile, edits, kills, torn>>

\* The lock was not to be had for fifteen seconds.
Timeout(p) ==
    /\ pc[p] = "flock" /\ Blocked(p)
    /\ Exit(p)
    /\ UNCHANGED <<files, saved, release, lockFile, edits, kills, torn>>

-----------------------------------------------------------------------------
(* `omm install`.                                                          *)

\* Mutant of InstallLooks: the ledger is saved at the end, not before the
\* write.
InstallLooksSaveLater(p, f) ==
    /\ pc[p] = "install" /\ plan[p][f] = "todo"
    /\ \A g \in Files : plan[p][g] # "write"
    /\ LET outcome == InstallDecide(Ancestor(ledger[p], f), Theirs(p, f), disk[f])
       IN  IF outcome \in {"noop", "stage"}
           THEN /\ Planned(p, f, "done")
                /\ UNCHANGED ledger
           ELSE /\ ledger' = [ledger EXCEPT ![p] = Upsert(@, f, Theirs(p, f))]
                /\ Planned(p, f, IF outcome = "adopt" THEN "done" ELSE "write")
    /\ Looks(p, f)
    /\ UNCHANGED <<files, saved, torn, release, lockFile, pc, cmd, handle,
                   source, edits, kills>>

\* One theme: a conflict is left alone; what is to be written is ledgered,
\* and the ledger saved, first.
InstallLooks(p, f) ==
    /\ pc[p] = "install" /\ plan[p][f] = "todo"
    /\ \A g \in Files : plan[p][g] # "write"
    /\ LET outcome == InstallDecide(Ancestor(ledger[p], f), Theirs(p, f), disk[f])
       IN  IF outcome \in {"noop", "stage"}
           THEN /\ Planned(p, f, "done")
                /\ UNCHANGED <<ledger, saved, torn>>
           ELSE /\ ledger' = [ledger EXCEPT ![p] = Upsert(@, f, Theirs(p, f))]
                /\ Save(ledger'[p])
                /\ Planned(p, f, IF outcome = "adopt" THEN "done" ELSE "write")
    /\ Looks(p, f)
    /\ UNCHANGED <<files, release, lockFile, pc, cmd, handle, source, edits,
                   kills>>

InstallWrites(p, f) ==
    /\ pc[p] = "install" /\ plan[p][f] = "write" /\ disk[f] # Odd
    /\ Puts(p, f, Theirs(p, f))
    /\ Planned(p, f, "done")
    /\ UNCHANGED <<saved, release, lockFile, pc, cmd, handle, ledger, source,
                   edits, kills, torn>>

\* A directory is not renamed over.
InstallFails(p, f) ==
    /\ pc[p] = "install" /\ plan[p][f] = "write" /\ disk[f] = Odd
    /\ Exit(p)
    /\ UNCHANGED <<files, saved, release, lockFile, edits, kills, torn>>

\* The session saves a last time.  Its other steps have made a ledger, if the
\* themes have not.
EndInstall(p) ==
    /\ pc[p] = "install" /\ \A f \in Files : plan[p][f] = "done"
    /\ Save(IF ledger[p] = NoLedger THEN NoEntries ELSE ledger[p])
    /\ Exit(p)
    /\ UNCHANGED <<files, release, lockFile, edits, kills>>

-----------------------------------------------------------------------------
(* `omm update`.                                                           *)

\* Every shipped file is decided against the ledger and the disk.
PlanUpdate(p) ==
    /\ pc[p] = "update"
    /\ plan' = [plan EXCEPT ![p] = [f \in Files |->
            LET outcome == Decide(Ancestor(ledger[p], f), Theirs(p, f), disk[f])
            IN  IF f \in Shipped(p) /\ outcome # "noop" THEN outcome ELSE "done"]]
    /\ stale' = [stale EXCEPT ![p] = {}]
    /\ Goto(p, "apply")
    /\ UNCHANGED <<files, saved, release, lockFile, cmd, handle, ledger,
                   source, edits, kills, torn>>

ApplyOverwrite(p, f) ==
    /\ pc[p] = "apply" /\ plan[p][f] = "overwrite" /\ disk[f] # Odd
    /\ Puts(p, f, Theirs(p, f))
    /\ ledger' = [ledger EXCEPT ![p] = Upsert(@, f, Theirs(p, f))]
    /\ Planned(p, f, "done")
    /\ UNCHANGED <<saved, release, lockFile, pc, cmd, handle, source,
                   edits, kills, torn>>

\* Files p has written whose entries are in its memory alone.
Unsaved(p) ==
    IF pc[p] # "apply" THEN {}
    ELSE {f \in Files : Ancestor(ledger[p], f) # Ancestor(saved, f)}

\* The path is checked once more: a directory, and the whole update
\* ends there, its ledger unsaved.
ApplyRefused(p, f) ==
    /\ pc[p] = "apply" /\ plan[p][f] = "overwrite" /\ disk[f] = Odd
    /\ torn' = torn \cup Unsaved(p)
    /\ Exit(p)
    /\ UNCHANGED <<files, saved, release, lockFile, edits, kills>>

ApplyAdopt(p, f) ==
    /\ pc[p] = "apply" /\ plan[p][f] = "adopt"
    /\ ledger' = [ledger EXCEPT ![p] = Upsert(@, f, Theirs(p, f))]
    /\ Planned(p, f, "done")
    /\ UNCHANGED <<files, saved, release, lockFile, pc, cmd, handle, source,
                   edits, kills, stale, torn>>

\* The new content goes under $OMM/updates; the file is left as it is.
ApplyStage(p, f) ==
    /\ pc[p] = "apply" /\ plan[p][f] = "stage"
    /\ Planned(p, f, "done")
    /\ UNCHANGED <<files, saved, release, lockFile, pc, cmd, handle, ledger,
                   source, edits, kills, stale, torn>>

EndUpdate(p) ==
    /\ pc[p] = "apply" /\ \A f \in Files : plan[p][f] = "done"
    /\ Save(ledger[p])
    /\ Exit(p)
    /\ UNCHANGED <<files, release, lockFile, edits, kills>>

-----------------------------------------------------------------------------
(* `omm uninstall`.                                                        *)

\* The ledger is loaded, and the plan made, before the lock is asked for.
BeginUninstall(p) ==
    /\ pc[p] = "idle" /\ "uninstall" \in Commands
    /\ cmd' = [cmd EXCEPT ![p] = "uninstall"]
    /\ ledger' = [ledger EXCEPT ![p] = saved]
    /\ Goto(p, IF saved = NoLedger THEN "bare" ELSE "plan")
    /\ UNCHANGED <<files, saved, release, lockFile, handle, source, plan,
                   edits, kills, stale, torn>>

\* With no ledger only omm's own state goes, the lock file with it, unless
\* something else is in $OMM; no lock is taken.
Bare(p) ==
    /\ pc[p] = "bare"
    /\ lockFile' \in {lockFile} \cup (IF saved = NoLedger THEN {NoInode} ELSE {})
    /\ Exit(p)
    /\ UNCHANGED <<files, saved, release, edits, kills, torn>>

\* Ledgered files go if they are as omm wrote them.
PlanUninstall(p) ==
    /\ pc[p] = "plan"
    /\ plan' = [plan EXCEPT ![p] = [f \in Files |->
            IF Ancestor(ledger[p], f) = None THEN "done"
            ELSE IF disk[f] = Missing THEN "missing"
            ELSE IF disk[f] = Ancestor(ledger[p], f) THEN "remove"
            ELSE "preserve"]]
    /\ stale' = [stale EXCEPT ![p] = {}]
    /\ Goto(p, "open")
    /\ UNCHANGED <<files, saved, release, lockFile, cmd, handle, ledger,
                   source, edits, kills, torn>>

\* The plan may be stale: the file is hashed again right before the unlink.
UndoLooks(p, f) ==
    /\ pc[p] = "undo" /\ plan[p][f] = "remove"
    /\ \A g \in Files : plan[p][g] # "unlink"
    /\ IF disk[f] = Missing
       THEN /\ Planned(p, f, "done")
            /\ ledger' = [ledger EXCEPT ![p] = Upsert(@, f, None)]
       ELSE /\ Planned(p, f, IF disk[f] = Ancestor(ledger[p], f) THEN "unlink"
                                                                 ELSE "failed")
            /\ UNCHANGED ledger
    /\ Looks(p, f)
    /\ UNCHANGED <<files, saved, release, lockFile, pc, cmd, handle, source,
                   edits, kills, torn>>

UndoUnlinks(p, f) ==
    /\ pc[p] = "undo" /\ plan[p][f] = "unlink"
    /\ IF disk[f] \in {Missing, Odd}
       THEN /\ Planned(p, f, "failed")
            /\ UNCHANGED <<disk, ours, stale, ledger>>
       ELSE /\ Puts(p, f, Missing)
            /\ ledger' = [ledger EXCEPT ![p] = Upsert(@, f, None)]
            /\ Planned(p, f, "done")
    /\ UNCHANGED <<saved, release, lockFile, pc, cmd, handle, source,
                   edits, kills, torn>>

\* Every file has been seen to.
Undone(p) ==
    /\ pc[p] = "undo"
    /\ \A f \in Files : plan[p][f] \in {"done", "failed", "missing", "preserve"}

\* The ledger without the files that were gone before.
Remaining(p) ==
    [f \in Files |-> IF plan[p][f] = "missing" THEN None
                                               ELSE Ancestor(ledger[p], f)]

\* A file, or a step on the host, failed: the ledger keeps what is left.
Incomplete(p) ==
    /\ Undone(p)
    /\ Save(Remaining(p))
    /\ Exit(p)
    /\ UNCHANGED <<files, release, lockFile, edits, kills>>

\* Nothing failed: the lock is dropped ...
Complete(p) ==
    /\ Undone(p)
    /\ \A f \in Files : plan[p][f] # "failed"
    /\ handle' = [handle EXCEPT ![p] = NoInode]
    /\ Goto(p, "wipe")
    /\ UNCHANGED <<files, saved, release, lockFile, local, edits, kills, stale,
                   torn>>

\* ... what is omm's under $OMM removed, the lock file with it ...
Wipe(p) ==
    /\ pc[p] = "wipe"
    /\ lockFile' = NoInode
    /\ Goto(p, "unledger")
    /\ UNCHANGED <<files, saved, release, handle, local, edits, kills, stale,
                   torn>>

\* ... and the ledger last; saved instead, if something would not go.
Unledger(p) ==
    /\ pc[p] = "unledger"
    /\ \/ saved' = NoLedger /\ UNCHANGED torn
       \/ Save(Remaining(p))
    /\ Exit(p)
    /\ UNCHANGED <<files, release, lockFile, edits, kills>>

-----------------------------------------------------------------------------
(* The environment.                                                        *)

\* The process is killed; its lock goes with its descriptors.
Kill(p) ==
    /\ pc[p] # "idle"
    /\ kills < MaxKills
    /\ kills' = kills + 1
    /\ torn' = torn \cup Unsaved(p) \cup {f \in Files : plan[p][f] = "write"}
    /\ Exit(p)
    /\ UNCHANGED <<files, saved, release, lockFile, edits>>

UserEdits(f) ==
    /\ edits < MaxEdits
    /\ edits' = edits + 1
    /\ \E content \in UserContents \ {disk[f]} :
            disk' = [disk EXCEPT ![f] = content]
    /\ ours' = ours \ {f}
    /\ stale' = [p \in Procs |-> stale[p] \cup {f}]
    /\ UNCHANGED <<saved, release, lockFile, pc, handle, local, kills, torn>>

\* omm itself is upgraded.
NewRelease ==
    /\ release < LastRelease
    /\ release' = release + 1
    /\ UNCHANGED <<files, saved, lockFile, pc, handle, local, edits, kills,
                   stale, torn>>

\* The history variable overlap: an uninstall and another command at once.
Overlaps ==
    \E p, q \in Procs : p # q /\ cmd[p] = "uninstall" /\ cmd[q] # "none"

Watched == overlap' = (overlap \/ Overlaps')

\* A step a process takes by itself on f ...
FileStep(p, f) ==
    \/ InstallLooks(p, f) \/ InstallWrites(p, f) \/ InstallFails(p, f)
    \/ ApplyOverwrite(p, f) \/ ApplyRefused(p, f) \/ ApplyAdopt(p, f)
    \/ ApplyStage(p, f)
    \/ UndoLooks(p, f) \/ UndoUnlinks(p, f)

\* ... or once it is through with the files or not yet at them.
Step(p) ==
    \/ OpenLock(p) \/ Flock(p) \/ NothingToUpdate(p)
    \/ EndInstall(p)
    \/ PlanUpdate(p) \/ EndUpdate(p)
    \/ Bare(p) \/ PlanUninstall(p) \/ Incomplete(p) \/ Complete(p)
    \/ Wipe(p) \/ Unledger(p)
    \/ \E f \in Files : FileStep(p, f)

Next ==
    /\ \/ \E p \in Procs : \/ \E c \in Commands : Begin(p, c)
                           \/ BeginUninstall(p)
                           \/ Step(p) \/ Timeout(p) \/ Kill(p)
       \/ \E f \in Files : UserEdits(f)
       \/ NewRelease
    /\ Watched

\* A process that runs keeps running, and the user runs `omm update` again
\* and again.
Fairness ==
    \A p \in Procs : /\ WF_vars(Step(p) /\ Watched)
                     /\ SF_vars(Begin(p, "update") /\ Watched)

Spec == Init /\ [][Next]_vars /\ Fairness

-----------------------------------------------------------------------------
(* Properties.                                                             *)

PlanSteps == (Outcomes \ {"noop"}) \cup
    {"done", "todo", "write", "remove", "unlink", "failed", "missing",
     "preserve"}

PcSteps == InSession \cup
    {"idle", "open", "flock", "bare", "plan", "wipe", "unledger"}

\* Every variable keeps to its set, a process at work on a lock has its file
\* open, and an idle one has forgotten its command.
TypeOK ==
    /\ disk \in [Files -> Content]
    /\ saved \in Ledger \cup {NoLedger}
    /\ release \in Releases
    /\ lockFile \in Inodes \cup {NoInode}
    /\ pc \in [Procs -> PcSteps]
    /\ cmd \in [Procs -> Commands \cup {"none"}]
    /\ handle \in [Procs -> Inodes \cup {NoInode}]
    /\ ledger \in [Procs -> Ledger \cup {NoLedger}]
    /\ source \in [Procs -> Releases]
    /\ plan \in [Procs -> [Files -> PlanSteps]]
    /\ edits \in Nat /\ kills \in Nat
    /\ stale \in [Procs -> SUBSET Files]
    /\ ours \subseteq Files /\ torn \subseteq Files
    /\ overlap \in BOOLEAN
    /\ \A p \in Procs :
          /\ pc[p] \in InSession \cup {"flock"} <=> handle[p] # NoInode
          /\ pc[p] = "idle" <=> cmd[p] = "none"

\* The ledger lock admits one session at a time ("held from load to the last
\* save so two omm processes never interleave", session.rs).
SessionsExclude ==
    \A p, q \in Procs :
        pc[p] \in InSession /\ pc[q] \in InSession => p = q

\* The same, as long as no uninstall has removed the lock file under another
\* command.
OneSession == overlap \/ SessionsExclude

\* Install, update and uninstall replace or remove only what omm shipped,
\* even after edits, kills, upgrades and overlapping commands: content of the
\* user's own goes only if it arrived after the command had last looked at
\* the file.
NeverOverwritesUserEdit ==
    [][\A p \in Procs, f \in Files :
          (pc[p] \in InSession /\ plan[p][f] # "done" /\ plan'[p][f] = "done"
              /\ disk'[f] # disk[f] /\ disk[f] \in {Mine, Odd}) =>
            f \in stale[p]]_vars

\* Whenever no session is open, the ledger describes every file omm has
\* written and nobody has touched since -- so that an uninstall removes it
\* and an update replaces it.  Kills that come between a file and its ledger
\* entry are excepted until a later run heals them, and so is an uninstall
\* beside another command, which works from a ledger it read before the lock.
LedgerDescribesDisk ==
    (~overlap /\ \A p \in Procs : pc[p] \notin InSession) =>
        \A f \in ours \ torn : Ancestor(saved, f) = disk[f]

\* Applying a plan and planning again yields no-ops for what was written or
\* adopted, and the same stage for every conflict (reconcile.rs).
Idempotent ==
    [][\A p \in Procs, f \in Files :
          (pc[p] = "apply" /\ plan[p][f] # "done" /\ f \notin stale[p]
              /\ pc'[p] = "apply" /\ plan'[p][f] = "done") =>
            Decide(Ancestor(ledger'[p], f), Theirs(p, f), disk'[f]) =
                IF plan[p][f] = "stage" THEN "stage" ELSE "noop"]_vars

\* f is up to date, if it is a file omm put there and still ships.
UpToDate(f) ==
    f \in ours /\ Ships[release][f] # None => disk[f] = Ships[release][f]

\* A user who keeps running `omm update` ends up with the current content in
\* every file omm wrote and the user left alone, but for torn files.
Converges == \A f \in Files : <>[](f \in torn \/ UpToDate(f))
=============================================================================
