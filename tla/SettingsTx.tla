----------------------------- MODULE SettingsTx -----------------------------
(***************************************************************************)
(* The settings.json transaction of omm.                                   *)
(*                                                                         *)
(* Every omm command that writes the host's settings.json runs the same    *)
(* steps: load the document, patch typed keys, and commit -- under         *)
(* muse-config.lock: re-hash, back up, rename -- and then record in the    *)
(* ledger what was written and what was there before.  Two kinds of        *)
(* process do so:                                                          *)
(*   - a tuner (`omm settings set`, `omm theme`, `omm profile use`, ...)   *)
(*     takes ledger.lock only for the record, after the commit             *)
(*     (c_tune/settings_tx.rs);                                            *)
(*   - an installer (`omm install`) holds ledger.lock from Session::open   *)
(*     to its exit, lets the host rewrite the file, merges the keys the    *)
(*     host dropped back in, then commits its profile (a_lifecycle).       *)
(* The user and the host write the file without any lock, and a process    *)
(* may die between any two steps.                                          *)
(*                                                                         *)
(* A document is a function from keys to values; the JSON text, the modes, *)
(* the audit log and the validation probes are left out (a probe that      *)
(* refuses the candidate is the action Refuse).                            *)
(***************************************************************************)
EXTENDS Naturals, FiniteSets

CONSTANTS
    Tuners,         \* processes running a tuning command
    Installers,     \* processes running `omm install`
    TypedKeys,      \* keys the host types: the only ones omm patches
    UntypedKeys,    \* keys the host does not know and drops when it rewrites
    Values,         \* what a key may hold
    Absent,         \* the key is not in the document
    NoFile,         \* there is no settings.json
    NoReg,          \* the ledger has no settings-key registration
    NoProc,         \* nobody holds the lock
    TunerPatches,   \* the patches a tuning command may ask for
    ProfilePatch,   \* the profile `omm install` applies
    InitialFiles,   \* what settings.json may be before omm's first run
    UserFiles,      \* what the user may leave in its place
    MaxRuns,        \* bound: commands each process runs
    MaxEdits,       \* bound: writes of the user
    MaxFaults       \* bound: processes killed

Procs   == Tuners \cup Installers
Keys    == TypedKeys \cup UntypedKeys
Setting == Values \cup {Absent}
Doc     == [Keys -> Setting]
File    == Doc \cup {NoFile}

\* A patch sets some typed keys; Absent removes the key.
Patch == UNION {[K -> Setting] : K \in SUBSET TypedKeys}
NoPatch == [k \in {} |-> Absent]

\* A transaction: its patch, and the keys of it that go back to their prior.
Tx   == [sets : Patch, restores : SUBSET TypedKeys]
NoTx == [sets |-> NoPatch, restores |-> {}]

\* What a settings-key registration keeps.
Reg == [prior : Setting, value : Setting]

\* The ledger's entry of settings.json: its class, and the document the user
\* had before omm (NoFile when none is recorded).
Classes == {"none", "seeded", "shared-key"}
LedgerEntry == [class : Classes, original : File]
NoEntry == [class |-> "none", original |-> NoFile]

\* Stands for the ledger entry in the two sets of exceptions below.
TheEntry == "entry"

ASSUME ConstantsAssumption ==
    /\ Tuners \cap Installers = {}
    /\ TypedKeys \cap UntypedKeys = {}
    /\ NoProc \notin Procs
    /\ NoFile \notin Doc
    /\ NoReg \notin Reg
    /\ Absent \notin Values
    /\ TunerPatches \subseteq Patch
    /\ ProfilePatch \in Patch
    /\ InitialFiles \subseteq File
    /\ UserFiles \subseteq File
    /\ MaxRuns \in Nat /\ MaxEdits \in Nat /\ MaxFaults \in Nat

VARIABLES
    settings,       \* settings.json as it is on disk
    registrations,  \* the ledger's settings-key registrations
    entry,          \* the ledger's entry of settings.json
    configLock,     \* who holds $OMM/locks/muse-config.lock
    ledgerLock,     \* who holds $OMM/locks/ledger.lock
    bundle,         \* the host has omm's bundle installed
    pc,             \* where each process is
    tx,             \* the transaction each process runs
    before,         \* an installer's settings.json when its plan was built
    loaded,         \* the document each process read
    backup,         \* the newest snapshot each process took
    runs, edits, faults,  \* the counters the bounds cap
    \* History: what the properties compare the state with.
    drifted,        \* which of a process's reads foreign writes have outdated
    written,        \* per key, the first prior and last value omm committed
    unrecorded,     \* keys whose record was lost to a kill or a lock timeout
    contested,      \* keys committed while another's record was outstanding
    preOmm          \* settings.json before anything ran

disk    == <<settings, bundle>>
ledger  == <<registrations, entry>>
locks   == <<configLock, ledgerLock>>
local   == <<tx, before, loaded, backup>>
bounds  == <<runs, edits, faults>>
history == <<drifted, written, unrecorded, contested, preOmm>>
vars    == <<disk, ledger, locks, pc, local, bounds, history>>

-----------------------------------------------------------------------------
(* Control states.                                                         *)

TunerSteps     == {"load", "lock", "check", "backup", "rename", "record"}
InstallerSteps == TunerSteps \cup
    {"session", "originals", "host", "seed", "approve",
     "merge", "mergelock", "mergewrite", "close"}

\* The states in which a process holds muse-config.lock, and an installer
\* holds ledger.lock.
HoldsConfig == {"check", "backup", "rename", "mergewrite"}
HoldsLedger == InstallerSteps \ {"session"}

Drift == {"loaded", "backup"}

Init ==
    /\ settings \in InitialFiles
    /\ registrations = [k \in TypedKeys |-> NoReg]
    /\ entry = NoEntry
    /\ configLock = NoProc
    /\ ledgerLock = NoProc
    /\ bundle = FALSE
    /\ pc = [p \in Procs |-> "idle"]
    /\ tx = [p \in Procs |-> NoTx]
    /\ before = [p \in Procs |-> NoFile]
    /\ loaded = [p \in Procs |-> NoFile]
    /\ backup = [p \in Procs |-> NoFile]
    /\ runs = [p \in Procs |-> 0]
    /\ edits = 0
    /\ faults = 0
    /\ drifted = [p \in Procs |-> {}]
    /\ written = [k \in TypedKeys |-> NoReg]
    /\ unrecorded = {}
    /\ contested = {}
    /\ preOmm = settings

-----------------------------------------------------------------------------
(* Documents and transactions.                                             *)

EmptyDoc == [k \in Keys |-> Absent]

\* A missing file loads as the base document, `{"schema_version": 1}`.
Content(file) == IF file = NoFile THEN EmptyDoc ELSE file

Patched(doc, sets) ==
    [k \in Keys |-> IF k \in DOMAIN sets THEN sets[k] ELSE doc[k]]

\* The keys whose value the transaction changes.
Changed(t, file) == {k \in DOMAIN t.sets : Content(file)[k] # t.sets[k]}

ChangedBy(p) == Changed(tx[p], loaded[p])

\* What the host leaves of a document it rewrites from its typed struct.
TypedPart(doc) == [k \in Keys |-> IF k \in TypedKeys THEN doc[k] ELSE Absent]

\* The untyped keys of doc that now lacks.
Dropped(doc, now) ==
    {k \in UntypedKeys : doc[k] # Absent /\ now[k] = Absent}

\* now, with the untyped keys it lost put back from doc.
MergedBack(doc, now) ==
    [k \in Keys |-> IF k \in Dropped(doc, now) THEN doc[k] ELSE now[k]]

\* Mutant of Recorded: the last prior wins.
RecordedLastPrior(regs, p) ==
    [k \in TypedKeys |->
        IF k \notin ChangedBy(p) THEN regs[k]
        ELSE IF k \in tx[p].restores THEN NoReg
        ELSE [prior |-> Content(loaded[p])[k], value |-> tx[p].sets[k]]]

\* The registrations once p's keys are recorded: the first prior and the
\* last value, and no registration for a key put back.
Recorded(regs, p) ==
    [k \in TypedKeys |->
        IF k \notin ChangedBy(p) THEN regs[k]
        ELSE IF k \in tx[p].restores THEN NoReg
        ELSE [prior |-> IF regs[k] = NoReg THEN Content(loaded[p])[k]
                                           ELSE regs[k].prior,
              value |-> tx[p].sets[k]]]

\* Mutant of Attached: the last original wins.
AttachedLast(original, class, found) ==
    IF class = "shared-key" THEN found ELSE original

\* The first original a shared file's entry gets is the one it keeps.
Attached(original, class, found) ==
    IF original = NoFile /\ class = "shared-key" THEN found ELSE original

TunerClass(p) ==
    IF entry.class = "seeded" \/ loaded[p] = NoFile THEN "seeded"
                                                    ELSE "shared-key"

InstallerClass(p) ==
    IF entry.class # "none" THEN entry.class
    ELSE IF NoFile \in {loaded[p], before[p]} THEN "seeded" ELSE "shared-key"

\* The processes that have committed and not yet recorded.
Pending == {q \in Procs : pc[q] = "record"}

-----------------------------------------------------------------------------
(* Steps shared by the actions.                                            *)

Goto(p, step) == pc' = [pc EXCEPT ![p] = step]

\* The command ends: it forgets what it read and its locks are closed.
Exit(p) ==
    /\ Goto(p, "idle")
    /\ tx' = [tx EXCEPT ![p] = NoTx]
    /\ before' = [before EXCEPT ![p] = NoFile]
    /\ loaded' = [loaded EXCEPT ![p] = NoFile]
    /\ backup' = [backup EXCEPT ![p] = NoFile]
    /\ drifted' = [drifted EXCEPT ![p] = {}]
    /\ configLock' = IF configLock = p THEN NoProc ELSE configLock
    /\ ledgerLock' = IF ledgerLock = p THEN NoProc ELSE ledgerLock

\* What a write that takes no lock does to the reads of every process.
Drifts == drifted' = [q \in Procs |-> Drift]

-----------------------------------------------------------------------------
(* A tuning command, and the commit it shares with the installer.          *)

\* A command that sets keys.
BeginSet(p) ==
    /\ p \in Tuners /\ pc[p] = "idle" /\ runs[p] < MaxRuns
    /\ runs' = [runs EXCEPT ![p] = @ + 1]
    /\ \E sets \in TunerPatches :
            tx' = [tx EXCEPT ![p] = [sets |-> sets, restores |-> {}]]
    /\ Goto(p, "load")
    /\ UNCHANGED <<disk, ledger, locks, before, loaded, backup,
                   edits, faults, history>>

\* A profile switch that puts one key back to its ledgered prior, while the
\* key holds the value omm wrote, and sets the others its slice names.
BeginRestore(p) ==
    /\ p \in Tuners /\ pc[p] = "idle" /\ runs[p] < MaxRuns
    /\ runs' = [runs EXCEPT ![p] = @ + 1]
    /\ \E k \in TypedKeys, sets \in TunerPatches \cup {NoPatch} :
          /\ k \notin DOMAIN sets
          /\ registrations[k] # NoReg
          /\ \/ registrations[k].value = Absent
             \/ registrations[k].value = Content(settings)[k]
          /\ registrations[k].prior # Content(settings)[k]
          /\ tx' = [tx EXCEPT ![p] =
                [sets |-> [j \in DOMAIN sets \cup {k} |->
                            IF j = k THEN registrations[k].prior
                                     ELSE sets[j]],
                 restores |-> {k}]]
    /\ Goto(p, "load")
    /\ UNCHANGED <<disk, ledger, locks, before, loaded, backup,
                   edits, faults, history>>

\* Load the document; a transaction that changes nothing ends here.
Load(p) ==
    /\ pc[p] = "load"
    /\ IF Changed(tx[p], settings) # {}
       THEN /\ loaded' = [loaded EXCEPT ![p] = settings]
            /\ drifted' = [drifted EXCEPT ![p] = {}]
            /\ Goto(p, "lock")
            /\ UNCHANGED <<locks, tx, before, backup>>
       ELSE IF p \in Tuners
       THEN Exit(p)
       ELSE /\ Goto(p, "close")
            /\ UNCHANGED <<locks, local, drifted>>
    /\ UNCHANGED <<disk, ledger, bounds, written, unrecorded, contested,
                   preOmm>>

\* The document has the mcpServers collision, the full-ids guard trips, or
\* the host refuses the candidate.
Refuse(p) ==
    /\ pc[p] = "load"
    /\ Exit(p)
    /\ UNCHANGED <<disk, ledger, bounds, written, unrecorded, contested,
                   preOmm>>

LockConfig(p) ==
    /\ pc[p] = "lock"
    /\ configLock = NoProc
    /\ configLock' = p
    /\ Goto(p, "check")
    /\ UNCHANGED <<disk, ledger, ledgerLock, local, bounds, history>>

\* Another process kept the lock for the whole wait.
TimeoutConfig(p) ==
    /\ pc[p] \in {"lock", "mergelock"}
    /\ configLock # NoProc
    /\ Exit(p)
    /\ UNCHANGED <<disk, ledger, bounds, written, unrecorded, contested,
                   preOmm>>

\* Mutant of Check: the file is not re-hashed.
CheckNothing(p) ==
    /\ pc[p] = "check"
    /\ drifted' = [drifted EXCEPT ![p] = {}]
    /\ Goto(p, IF settings = NoFile THEN "rename" ELSE "backup")
    /\ UNCHANGED <<disk, ledger, locks, local, bounds, written, unrecorded,
                   contested, preOmm>>

\* The stale check, under the lock: only a file that exists is compared.
Check(p) ==
    /\ pc[p] = "check"
    /\ IF settings = NoFile
       THEN /\ Goto(p, "rename")
            /\ UNCHANGED <<locks, local, drifted>>
       ELSE IF settings = loaded[p]
       THEN /\ drifted' = [drifted EXCEPT ![p] = {}]
            /\ Goto(p, "backup")
            /\ UNCHANGED <<locks, local>>
       ELSE Exit(p)
    /\ UNCHANGED <<disk, ledger, bounds, written, unrecorded, contested,
                   preOmm>>

\* Copy the file aside; a file that has gone meanwhile is an error.
Backup(p) ==
    /\ pc[p] = "backup"
    /\ IF settings = NoFile
       THEN Exit(p)
       ELSE /\ backup' = [backup EXCEPT ![p] = settings]
            /\ drifted' = [drifted EXCEPT ![p] = @ \ {"backup"}]
            /\ Goto(p, "rename")
            /\ UNCHANGED <<locks, tx, before, loaded>>
    /\ UNCHANGED <<disk, ledger, bounds, written, unrecorded, contested,
                   preOmm>>

\* Mutant of Rename: muse-config.lock is kept until the command ends.
RenameKeepLock(p) ==
    /\ pc[p] = "rename"
    /\ settings' = Patched(Content(loaded[p]), tx[p].sets)
    /\ Goto(p, "record")
    /\ UNCHANGED <<bundle, ledger, locks, local, bounds, history>>

\* Rename the candidate into place and release muse-config.lock.
Rename(p) ==
    /\ pc[p] = "rename"
    /\ settings' = Patched(Content(loaded[p]), tx[p].sets)
    /\ configLock' = NoProc
    /\ Goto(p, "record")
    /\ written' = [k \in TypedKeys |->
            IF k \notin ChangedBy(p) THEN written[k]
            ELSE IF k \in tx[p].restores THEN NoReg
            ELSE IF written[k] = NoReg
            THEN [prior |-> Content(loaded[p])[k], value |-> tx[p].sets[k]]
            ELSE [written[k] EXCEPT !.value = tx[p].sets[k]]]
    /\ contested' = contested \cup
            (IF Pending = {} THEN {}
             ELSE {TheEntry} \cup
                  (ChangedBy(p) \cap UNION {ChangedBy(q) : q \in Pending}))
    /\ UNCHANGED <<bundle, ledger, ledgerLock, local, bounds, drifted,
                   unrecorded, preOmm>>

\* A tuner's record: load, modify and save under ledger.lock, then exit.
RecordTuner(p) ==
    /\ p \in Tuners /\ pc[p] = "record"
    /\ ledgerLock = NoProc
    /\ registrations' = Recorded(registrations, p)
    /\ entry' = [class |-> TunerClass(p),
                 original |-> Attached(entry.original, TunerClass(p), loaded[p])]
    /\ Exit(p)
    /\ UNCHANGED <<disk, bounds, written, unrecorded, contested, preOmm>>

\* An installer that held ledger.lock for the whole wait keeps the tuner
\* from recording what it has already committed.
TimeoutRecord(p) ==
    /\ p \in Tuners /\ pc[p] = "record"
    /\ ledgerLock # NoProc
    /\ unrecorded' = unrecorded \cup ChangedBy(p) \cup {TheEntry}
    /\ Exit(p)
    /\ UNCHANGED <<disk, ledger, bounds, written, contested, preOmm>>

-----------------------------------------------------------------------------
(* `omm install`.                                                          *)

\* The plan reads settings.json before the session is opened.
BeginInstall(p) ==
    /\ p \in Installers /\ pc[p] = "idle" /\ runs[p] < MaxRuns
    /\ runs' = [runs EXCEPT ![p] = @ + 1]
    /\ tx' = [tx EXCEPT ![p] = [sets |-> ProfilePatch, restores |-> {}]]
    /\ before' = [before EXCEPT ![p] = settings]
    /\ Goto(p, "session")
    /\ UNCHANGED <<disk, ledger, locks, loaded, backup, edits, faults, history>>

OpenSession(p) ==
    /\ pc[p] = "session"
    /\ ledgerLock = NoProc
    /\ ledgerLock' = p
    /\ Goto(p, "originals")
    /\ UNCHANGED <<disk, ledger, configLock, local, bounds, history>>

TimeoutSession(p) ==
    /\ pc[p] = "session"
    /\ ledgerLock # NoProc
    /\ Exit(p)
    /\ UNCHANGED <<disk, ledger, bounds, written, unrecorded, contested,
                   preOmm>>

\* The file as found goes into the ledger before any host verb can change it.
RecordOriginals(p) ==
    /\ pc[p] = "originals"
    /\ entry' =
        IF entry.class = "seeded" \/ entry.original # NoFile
            \/ settings = NoFile
        THEN entry
        ELSE [class |-> "shared-key", original |-> settings]
    /\ contested' = contested \cup (IF Pending = {} THEN {} ELSE {TheEntry})
    /\ Goto(p, "host")
    /\ UNCHANGED <<disk, registrations, locks, local, bounds, drifted, written,
                   unrecorded, preOmm>>

\* The host installs the bundle, unless it is there and current.
HostInstall(p) ==
    /\ pc[p] = "host"
    /\ bundle' = TRUE
    /\ Goto(p, "seed")
    /\ UNCHANGED <<settings, ledger, locks, local, bounds, history>>

HostCurrent(p) ==
    /\ pc[p] = "host"
    /\ bundle
    /\ Goto(p, "approve")
    /\ UNCHANGED <<disk, ledger, locks, local, bounds, history>>

\* A settings.json the host is about to create is omm's.
SeedEntry(p) ==
    /\ pc[p] = "seed"
    /\ entry' = IF before[p] = NoFile /\ entry.class = "none"
                THEN [entry EXCEPT !.class = "seeded"]
                ELSE entry
    /\ Goto(p, "approve")
    /\ UNCHANGED <<disk, registrations, locks, local, bounds, history>>

\* An approval: the host rewrites the file from its typed struct, creating
\* it when there is none.  It takes none of omm's locks.
HostApprove(p) ==
    /\ pc[p] = "approve"
    /\ settings' = TypedPart(Content(settings))
    /\ Drifts
    /\ Goto(p, "merge")
    /\ UNCHANGED <<bundle, ledger, locks, local, bounds, written, unrecorded,
                   contested, preOmm>>

\* Every capability is approved already.
HostApproved(p) ==
    /\ pc[p] = "approve"
    /\ bundle
    /\ Goto(p, "merge")
    /\ UNCHANGED <<disk, ledger, locks, local, bounds, history>>

\* merge_untyped_back reads the file before it takes the lock ...
MergeRead(p) ==
    /\ pc[p] = "merge"
    /\ IF NoFile \in {before[p], settings}
       THEN /\ Goto(p, "load")
            /\ UNCHANGED <<loaded, drifted>>
       ELSE /\ loaded' = [loaded EXCEPT ![p] = settings]
            /\ drifted' = [drifted EXCEPT ![p] = {}]
            /\ Goto(p, "mergelock")
    /\ UNCHANGED <<disk, ledger, locks, tx, before, backup, bounds, written,
                   unrecorded, contested, preOmm>>

MergeLock(p) ==
    /\ pc[p] = "mergelock"
    /\ configLock = NoProc
    /\ configLock' = p
    /\ Goto(p, "mergewrite")
    /\ UNCHANGED <<disk, ledger, ledgerLock, local, bounds, history>>

\* ... and writes the merged document over whatever is there by then.
MergeWrite(p) ==
    /\ pc[p] = "mergewrite"
    /\ settings' =
        LET doc == Content(before[p])
            now == Content(loaded[p])
        IN  IF Dropped(doc, now) = {} THEN settings ELSE MergedBack(doc, now)
    /\ configLock' = NoProc
    /\ Goto(p, "load")
    /\ UNCHANGED <<bundle, ledger, ledgerLock, local, bounds, history>>

\* The profile's keys go into the session's ledger, saved at once.
RecordInstall(p) ==
    /\ p \in Installers /\ pc[p] = "record"
    /\ registrations' = Recorded(registrations, p)
    /\ entry' = [class |-> InstallerClass(p),
                 original |-> Attached(entry.original, InstallerClass(p), loaded[p])]
    /\ Goto(p, "close")
    /\ UNCHANGED <<disk, locks, local, bounds, history>>

CloseSession(p) ==
    /\ pc[p] = "close"
    /\ Exit(p)
    /\ UNCHANGED <<disk, ledger, bounds, written, unrecorded, contested,
                   preOmm>>

-----------------------------------------------------------------------------
(* The environment.                                                        *)

\* The process is killed, or a step of it fails: its locks are released.
Kill(p) ==
    /\ pc[p] # "idle"
    /\ faults < MaxFaults
    /\ faults' = faults + 1
    /\ unrecorded' = unrecorded \cup
            (IF pc[p] = "record" THEN ChangedBy(p) \cup {TheEntry}
             ELSE IF pc[p] = "seed" THEN {TheEntry}
             ELSE {})
    /\ Exit(p)
    /\ UNCHANGED <<disk, ledger, runs, edits, written, contested, preOmm>>

\* The user, or a program of the user's, replaces or deletes the file.
UserWrites ==
    /\ edits < MaxEdits
    /\ edits' = edits + 1
    /\ \E file \in UserFiles :
          /\ file # settings
          /\ settings' = file
    /\ Drifts
    /\ UNCHANGED <<bundle, ledger, locks, pc, local, runs, faults, written,
                   unrecorded, contested, preOmm>>

\* A step a process takes by itself, and that the system keeps taking.
Step(p) ==
    \/ Load(p) \/ LockConfig(p) \/ Check(p) \/ Backup(p) \/ Rename(p)
    \/ RecordTuner(p)
    \/ OpenSession(p) \/ RecordOriginals(p) \/ HostInstall(p)
    \/ HostCurrent(p) \/ SeedEntry(p) \/ HostApprove(p) \/ HostApproved(p)
    \/ MergeRead(p) \/ MergeLock(p) \/ MergeWrite(p)
    \/ RecordInstall(p) \/ CloseSession(p)

Begin(p) == BeginSet(p) \/ BeginRestore(p) \/ BeginInstall(p)

GiveUp(p) == Refuse(p) \/ TimeoutConfig(p) \/ TimeoutRecord(p)
                       \/ TimeoutSession(p) \/ Kill(p)

Next == UserWrites \/ \E p \in Procs : Begin(p) \/ Step(p) \/ GiveUp(p)

\* A process that runs keeps running: the scheduler and the 20 ms poll of the
\* lock see to it.  Nothing obliges the user, a kill or a timeout.
Fairness == \A p \in Procs : WF_vars(Step(p))

Spec == Init /\ [][Next]_vars /\ Fairness

-----------------------------------------------------------------------------
(* Properties.                                                             *)

\* Every variable keeps to its set, and what a process reads or stages while
\* idle is forgotten.
TypeOK ==
    /\ settings \in File
    /\ registrations \in [TypedKeys -> Reg \cup {NoReg}]
    /\ entry \in LedgerEntry
    /\ configLock \in Procs \cup {NoProc}
    /\ ledgerLock \in Procs \cup {NoProc}
    /\ bundle \in BOOLEAN
    /\ pc \in [Procs -> {"idle"} \cup InstallerSteps]
    /\ \A p \in Tuners : pc[p] \in {"idle"} \cup TunerSteps
    /\ tx \in [Procs -> Tx]
    /\ before \in [Procs -> File]
    /\ loaded \in [Procs -> File]
    /\ backup \in [Procs -> File]
    /\ runs \in [Procs -> Nat] /\ edits \in Nat /\ faults \in Nat
    /\ drifted \in [Procs -> SUBSET Drift]
    /\ written \in [TypedKeys -> Reg \cup {NoReg}]
    /\ unrecorded \in SUBSET (TypedKeys \cup {TheEntry})
    /\ contested \in SUBSET (TypedKeys \cup {TheEntry})
    /\ preOmm \in File

\* Each lock is held by exactly the process whose steps run under it.
LocksMatchSteps ==
    /\ \A p \in Procs : configLock = p <=> pc[p] \in HoldsConfig
    /\ \A p \in Installers : ledgerLock = p <=> pc[p] \in HoldsLedger
    /\ ledgerLock \in Installers \cup {NoProc}

\* A rename of p's transaction: the step that publishes its candidate.
Publishes(p) == pc[p] = "rename" /\ pc'[p] = "record"

\* The commit of replace_locked never overwrites a document other than the
\* one its patch was computed from: another omm command that commits in
\* between makes it refuse.  Only a program that takes no lock can slip in
\* between the hash and the rename.
NoLostUpdate ==
    [][\A p \in Procs :
          Publishes(p) =>
              \/ settings \in {loaded[p], NoFile}
              \/ "loaded" \in drifted[p]]_vars

\* What a commit replaces is in the newest snapshot, but for a foreign write
\* that lands between the copy and the rename.
BackedUp ==
    [][\A p \in Procs :
          Publishes(p) =>
              \/ settings \in {backup[p], NoFile}
              \/ "backup" \in drifted[p]]_vars

\* The registrations of the keys in ks are those of a ledger updated at the
\* very commits, in their order, once no record of the key is outstanding.
LedgerFollowsCommits(ks) ==
    \A k \in ks :
        (\A q \in Pending : k \notin ChangedBy(q)) =>
            registrations[k] = written[k]

\* The ledger names exactly the keys omm holds changed, each with the first
\* prior and the last value, as long as no record was lost and no two
\* commands committed the key before either had recorded it.
LedgerExact == LedgerFollowsCommits(TypedKeys \ (unrecorded \cup contested))

\* The original the ledger keeps of settings.json is the user's, never a
\* document omm or the host has already changed.
OriginalIsPreOmm ==
    (edits = 0 /\ TheEntry \notin unrecorded \cup contested) =>
        entry.original \in {preOmm, NoFile}

\* Every command ends: no order of the two locks leaves processes waiting
\* for each other, even without the fifteen-second timeout.
CommandsEnd == \A p \in Procs : pc[p] # "idle" ~> pc[p] = "idle"
=============================================================================
