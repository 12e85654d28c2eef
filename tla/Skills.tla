------------------------------- MODULE Skills -------------------------------
(***************************************************************************)
(* A skill that omm has the host install into its managed store            *)
(* (`omm install --no-plugin`): what install, update, reconcile            *)
(* (a_lifecycle/skills.rs) and uninstall (lifecycle.rs, uninstall.rs) do   *)
(* with it. The host writes the files and remembers that it did; omm       *)
(* records them after each verb. A command may be killed anywhere, also    *)
(* within the verb of the host, and the user edits the store, moves it     *)
(* behind a link, and runs the host's verbs by hand.                       *)
(*                                                                         *)
(* One skill: they are handled one by one, and the ledger may exist for    *)
(* the sake of another. The source may change between commands and while   *)
(* one runs. Links lead to a directory inside the config root; one that    *)
(* leads out of it is refused before anything is done. What update stages  *)
(* under updates/ is left out, and so is the audit log.                    *)
(***************************************************************************)
EXTENDS Naturals, Sequences

CONSTANTS
    SkillFiles,  \* the files the skill may have
    Main,        \* SKILL.md: without it the host does not list the skill
    Extra,       \* a file of the user's in the directory
    Shipped,     \* the contents of the skill in the versions of the source
    UserText,    \* what the user writes
    NoContent,   \* no file, no entry
    MaxStoreEdits, \* bound: steps of the user and the source
    MaxJobs        \* bound: commands

ASSUME SkillAssumption ==
    /\ Main \in SkillFiles /\ Extra \notin SkillFiles
    /\ \A s \in Shipped : s = [f \in SkillFiles |-> s[f]] /\ s[Main] # NoContent
    /\ UserText # NoContent /\ \A s \in Shipped, f \in SkillFiles : s[f] # UserText

VARIABLES
    source,     \* the skill as the source ships it now
    store,      \* skills/<id>: a directory, a link to one, or nothing; its files
    provenance, \* the host's lockfile lists the skill
    ledgered,   \* per file: the digest in its ledger entry
    hasLedger,  \* there is a ledger
    job,        \* the command under way
    sTally,     \* edits and commands so far
    \* History.
    complete    \* the last uninstall said that it was

sVars == <<source, store, provenance, ledgered, hasLedger, job, sTally, complete>>

AllFiles == SkillFiles \cup {Extra}
Bare == [f \in AllFiles |-> NoContent]
Nothing == [kind |-> "none", files |-> Bare]
DirOf(files) == [kind |-> "dir", files |-> [f \in AllFiles |->
                    IF f \in DOMAIN files THEN files[f] ELSE NoContent]]
NoEntries == [f \in SkillFiles |-> NoContent]
ShippedBy(s) == {f \in SkillFiles : s[f] # NoContent}

NoJob == [at |-> "none"]
SInit ==
    /\ source \in Shipped /\ hasLedger \in BOOLEAN
    /\ store = Nothing /\ provenance = FALSE /\ ledgered = NoEntries
    /\ job = NoJob /\ sTally = [edits |-> 0, jobs |-> 0] /\ complete = FALSE

HasEntries == ledgered # NoEntries
Listed == store.files[Main] # NoContent

\* Every file of the source is there, and as it is there.
IdenticalToSource == \A f \in ShippedBy(source) : store.files[f] = source[f]

\* What an install leaves that was killed within the host's verb: nothing but
\* files of the source, and no provenance.
Orphaned ==
    /\ ~provenance /\ store.kind = "dir"
    /\ \A f \in ShippedBy(source) : store.files[f] \in {NoContent, source[f]}
    /\ \A f \in AllFiles \ ShippedBy(source) : store.files[f] = NoContent

-----------------------------------------------------------------------------
\* Commands. A job has its steps still to do, its flags, and what it read when
\* it began.

Begin(cmd, steps, flags, blind, plan) ==
    /\ job = NoJob /\ sTally.jobs < MaxJobs
    /\ job' = IF steps = <<>> THEN NoJob
              ELSE [cmd |-> cmd, at |-> Head(steps), todo |-> Tail(steps),
                    flags |-> flags, blind |-> blind, plan |-> plan, book |-> ledgered,
                    want |-> source, got |-> source, late |-> FALSE, failed |-> FALSE]
    /\ sTally' = [sTally EXCEPT !.jobs = @ + 1]
    /\ complete' = FALSE

\* Some file is gone, and what is left of those the source ships is omm's.
Vanished ==
    LET known == {f \in ShippedBy(source) : ledgered[f] # NoContent} IN
    /\ \E f \in known : store.files[f] = NoContent
    /\ \A f \in known : store.files[f] \in {NoContent, ledgered[f]}

\* The host replaces the skill, or installs it where none is.
Reinstall(replace) == IF replace THEN <<"host uninstall", "host install", "record">>
                    ELSE <<"host install", "record">>

\* The host's verbs to run, none when the skill is left alone or an error ends
\* the command. An edited skill and a changed source are update's work.
InstallSteps ==
    CASE HasEntries /\ Vanished -> Reinstall(provenance)
      [] HasEntries /\ ~Vanished -> <<>>
      [] ~HasEntries /\ store.kind = "none" -> Reinstall(FALSE)
      [] ~HasEntries /\ store.kind = "dir" /\ IdenticalToSource /\ provenance -> <<"record">>
      [] ~HasEntries /\ Orphaned -> <<"clear", "host install", "record">>
      [] OTHER -> <<>>

InstallSkill ==
    /\ Begin("install", InstallSteps, {}, FALSE, Bare)
    /\ UNCHANGED <<source, store, provenance, ledgered, hasLedger>>

\* The three-way merge of one file.
Merge(f) ==
    CASE ledgered[f] = source[f] -> "noop"
      [] ledgered[f] = NoContent /\ store.files[f] = NoContent -> "overwrite"
      [] ledgered[f] \notin {NoContent, source[f]} /\ store.files[f] = ledgered[f] -> "overwrite"
      [] ledgered[f] # source[f] /\ store.files[f] = source[f] -> "adopt"
      [] OTHER -> "stage"

\* Mutant of UpdateSteps: a skill is refreshed if any file of it may be.
UpdateStepsIfAny ==
    LET outcomes == {Merge(f) : f \in ShippedBy(source)} IN
    IF "overwrite" \notin outcomes THEN <<>>
    ELSE Reinstall(\E f \in ShippedBy(source) : ledgered[f] # NoContent)

\* One file to stage keeps the whole skill as it is.
UpdateSteps ==
    LET outcomes == {Merge(f) : f \in ShippedBy(source)} IN
    IF outcomes = {"noop"} \/ "stage" \in outcomes THEN <<>>
    ELSE Reinstall(\E f \in ShippedBy(source) : ledgered[f] # NoContent)

UpdateSkill ==
    /\ hasLedger
    /\ Begin("update", UpdateSteps, {}, FALSE, Bare)
    /\ UNCHANGED <<source, store, provenance, ledgered, hasLedger>>

\* reconcile: entries whose files vanished are dropped; a skill the ledger then
\* does not know is taken over if it is the source's to the byte.
ReconcileSkill ==
    LET kept == [f \in SkillFiles |-> IF store.kind # "link" /\ store.files[f] = NoContent
                                      THEN NoContent ELSE ledgered[f]]
        adopt == /\ kept = NoEntries /\ Listed /\ store.kind = "dir"
                 /\ provenance /\ IdenticalToSource
    IN /\ hasLedger \/ Listed
       /\ ledgered' = kept /\ hasLedger' = TRUE
       /\ Begin("reconcile", IF adopt THEN <<"record">> ELSE <<>>, {}, FALSE, Bare)
       /\ UNCHANGED <<source, store, provenance>>

-----------------------------------------------------------------------------
\* uninstall.

\* One file edited since, or a link above them, keeps the skill whole.
KeptWhole(flags) ==
    \/ store.kind = "link"
    \/ "force" \notin flags /\ \E f \in SkillFiles : ledgered[f] # NoContent
                    /\ store.files[f] \notin {NoContent, ledgered[f]}

\* What the host holds and the ledger does not name: the host's to uninstall,
\* omm's to clear, or to be left.
Unknown ==
    CASE HasEntries \/ ~Listed \/ store.kind # "dir" -> "none"
      [] ~HasEntries /\ Listed /\ store.kind = "dir" /\ provenance -> "host's"
      [] ~HasEntries /\ Listed /\ Orphaned -> "orphan"
      [] OTHER -> "none"

\* Mutant of UndoSteps: an orphan is not counted among what the ledger lacks.
UndoStepsNoOrphans(flags, blind) ==
    CASE HasEntries /\ KeptWhole(flags) -> <<"files">>
      [] HasEntries /\ ~KeptWhole(flags) ->
           IF blind \/ Listed THEN <<"host uninstall", "files">> ELSE <<"files">>
      [] ~HasEntries /\ ~blind /\ Unknown = "host's" ->
           IF "reconcile" \in flags THEN <<"host uninstall", "files">> ELSE <<>>
      [] OTHER -> <<"files">>

\* Nothing is done when the host holds more and the user did not ask for it to
\* go too. Blind: the host does not answer what it holds.
UndoSteps(flags, blind) ==
    CASE HasEntries /\ KeptWhole(flags) -> <<"files">>
      [] HasEntries /\ ~KeptWhole(flags) ->
           IF blind \/ Listed THEN <<"host uninstall", "files">> ELSE <<"files">>
      [] ~HasEntries /\ ~blind /\ Unknown = "host's" ->
           IF "reconcile" \in flags THEN <<"host uninstall", "files">> ELSE <<>>
      [] ~HasEntries /\ ~blind /\ Unknown = "orphan" ->
           IF "reconcile" \in flags THEN <<"files", "clear">> ELSE <<>>
      [] OTHER -> <<"files">>

\* The files to go, as the plan finds them.
Planned(flags) ==
    [f \in AllFiles |-> IF ~KeptWhole(flags) /\ f \in SkillFiles /\ ledgered[f] # NoContent
                        THEN store.files[f] ELSE NoContent]

UninstallSkill ==
    /\ \E flags \in SUBSET {"force", "reconcile"}, blind \in BOOLEAN :
        /\ blind => hasLedger
        /\ Begin("uninstall", UndoSteps(flags, blind), flags, blind, Planned(flags))
    /\ UNCHANGED <<source, store, provenance, ledgered, hasLedger>>

-----------------------------------------------------------------------------
\* The steps of a job.

Proceed(j) == job' = IF j.todo = <<>> THEN NoJob
                     ELSE [j EXCEPT !.at = Head(j.todo), !.todo = Tail(j.todo)]
Fail == job' = NoJob

\* The host takes the directory with all its files, or leaves those it did not
\* write. A directory it has no provenance for it refuses; uninstall goes on.
HostUninstall ==
    /\ job.at = "host uninstall"
    /\ IF provenance \/ store.kind = "none"
       THEN /\ Proceed(job) /\ provenance' = FALSE
            /\ store' \in {Nothing} \cup
                   (IF store.files[Extra] = NoContent THEN {}
                    ELSE {DirOf([f \in {Extra} |-> store.files[Extra]])})
       ELSE /\ IF job.cmd = "uninstall" THEN Proceed([job EXCEPT !.failed = TRUE]) ELSE Fail
            /\ UNCHANGED <<store, provenance>>
    /\ UNCHANGED <<source, ledgered, hasLedger, sTally, complete>>

\* The host copies the source of now, and only to where nothing is.
HostInstall ==
    /\ job.at = "host install"
    /\ IF store.kind = "none"
       THEN /\ store' = DirOf(source) /\ provenance' = TRUE
            /\ Proceed([job EXCEPT !.got = source])
       ELSE Fail /\ UNCHANGED <<store, provenance>>
    /\ UNCHANGED <<source, ledgered, hasLedger, sTally, complete>>

\* What the host reports must be what the command read of the source; then the
\* ledger is saved.
Record ==
    /\ job.at = "record"
    /\ IF \E f \in ShippedBy(job.want) : job.got[f] # job.want[f]
       THEN Fail /\ UNCHANGED <<ledgered, hasLedger>>
       ELSE /\ Proceed(job) /\ hasLedger' = TRUE
            /\ ledgered' = [f \in SkillFiles |-> IF f \in ShippedBy(job.want) THEN job.want[f]
                                                 ELSE ledgered[f]]
    /\ UNCHANGED <<source, store, provenance, sTally, complete>>

\* omm itself removes the directory the host would refuse. After an uninstall
\* that met an error it stays.
Clear ==
    /\ job.at = "clear"
    /\ store' = Nothing /\ Proceed(job)
    /\ complete' = (job.cmd = "uninstall")
    /\ UNCHANGED <<source, provenance, ledgered, hasLedger, sTally>>

\* Each file as the plan found it goes, or went with the host's verb; one that
\* changed since stays, with its entry, and the ledger with it.
UndoFiles ==
    /\ job.at = "files"
    /\ LET planned == {f \in SkillFiles : job.plan[f] # NoContent}
           changed == {f \in planned : /\ store.files[f] \notin {NoContent, job.plan[f]}
                                       /\ ~("force" \in job.flags /\ job.plan[f] # ledgered[f])}
           left == [f \in AllFiles |-> IF f \in planned \ changed THEN NoContent ELSE store.files[f]]
           failed == job.failed \/ changed # {}
       IN /\ store' = IF planned # {} /\ left = Bare THEN Nothing ELSE [store EXCEPT !.files = left]
          /\ IF failed
             THEN /\ ledgered' = [f \in SkillFiles |-> IF f \in changed THEN ledgered[f] ELSE NoContent]
                  /\ Fail /\ UNCHANGED hasLedger
             ELSE ledgered' = NoEntries /\ hasLedger' = FALSE /\ Proceed(job)
          /\ complete' = (~failed /\ job.todo = <<>>)
    /\ UNCHANGED <<source, provenance, sTally>>

\* Killed between two steps, or within the host's install: some files are
\* there, and the host does not know of them.
KillJob ==
    /\ job # NoJob /\ job' = NoJob
    /\ \/ UNCHANGED store
       \/ /\ job.at = "host install" /\ store.kind = "none"
          /\ \E copied \in SUBSET ShippedBy(source) :
                store' = DirOf([f \in copied |-> source[f]])
    /\ UNCHANGED <<source, provenance, ledgered, hasLedger, sTally, complete>>

-----------------------------------------------------------------------------
\* The user and the source.

StoreEdit ==
    /\ sTally.edits < MaxStoreEdits
    /\ sTally' = [sTally EXCEPT !.edits = @ + 1]
    /\ job' = IF job = NoJob THEN job ELSE [job EXCEPT !.late = TRUE]
    /\ UNCHANGED complete

Pull ==
    /\ StoreEdit /\ source' \in Shipped \ {source}
    /\ UNCHANGED <<store, provenance, ledgered, hasLedger>>

EditStore ==
    /\ StoreEdit
    /\ \/ \E f \in AllFiles :
            /\ store' = [kind |-> IF store.kind = "none" THEN "dir" ELSE store.kind,
                         files |-> [store.files EXCEPT ![f] = UserText]]
       \/ \E f \in SkillFiles : store.files[f] # NoContent /\ store' = [store EXCEPT !.files[f] = NoContent]
       \/ store.kind = "dir" /\ store' \in {Nothing, [store EXCEPT !.kind = "link"]}
    /\ UNCHANGED <<source, provenance, ledgered, hasLedger>>

\* `muse skills install` and `muse skills uninstall` by hand.
HostByHand ==
    /\ StoreEdit
    /\ \/ store.kind = "none" /\ store' = DirOf(source) /\ provenance' = TRUE
       \/ provenance /\ store' = Nothing /\ provenance' = FALSE
    /\ UNCHANGED <<source, ledgered, hasLedger>>

SNext ==
    \/ InstallSkill \/ UpdateSkill \/ ReconcileSkill \/ UninstallSkill
    \/ HostUninstall \/ HostInstall \/ Record \/ Clear \/ UndoFiles \/ KillJob
    \/ Pull \/ EditStore \/ HostByHand

SkillsSpec == SInit /\ [][SNext]_sVars

-----------------------------------------------------------------------------
\* Properties.

\* The files of the user's that a step takes away.
Taken == {f \in AllFiles : store.files[f] = UserText /\ store'.files[f] # UserText}

\* The files a command compares before it has the host take the directory: an
\* update does not look at a file that the source did not change.
Compared(j) == {f \in SkillFiles : /\ j.cmd # "update" => ledgered[f] # NoContent
                                   /\ j.cmd = "update" => ledgered[f] # j.want[f]
                                   /\ j.cmd # "uninstall" => j.want[f] # NoContent}

\* No command takes what the user wrote into the store, however the files came
\* there, the source changed and commands were killed before. What it may take:
\* what was written after it looked; with --force; with --reconcile-host, a
\* skill the host knows and the ledger does not; and, through the host's verb,
\* files the command did not compare, those of an older version among them.
SkillKept ==
    [][sTally' = sTally /\ Taken # {}
        => \/ job.late \/ "force" \in job.flags
           \/ job.at = "host uninstall" /\ "reconcile" \in job.flags
           \/ job.at = "host uninstall" /\ Taken \cap Compared(job) = {}]_sVars

\* "A skill is all-or-nothing: one edited file stages the whole skill's new
\* content and leaves the store untouched" (skills.rs:12). Not so when the
\* source changed another file of the skill and not the one the user edited:
\* that one counts as unchanged, and the host takes it with the rest.
EditedSkillKept ==
    [][sTally' = sTally /\ job # NoJob /\ job' # job /\ job.cmd = "update" /\ ~job.late
        => \A f \in Taken \cap SkillFiles : ledgered[f] = NoContent \/ job.want[f] = NoContent]_sVars

\* An uninstall that says it is complete leaves no skill that the host lists
\* and that is to the byte what the ledger says or, when the ledger does not
\* name it, what the source ships: whether the ledger was lost, never got to
\* know it, or the host's install was killed. Not so when the host could not be
\* asked, or something changed meanwhile; and a skill whose update was killed
\* passes for one the user edited.
UninstallTakesAll ==
    [][complete' /\ ~complete /\ ~job.late /\ ~job.blind
        => LET ours == IF job.book # NoEntries THEN job.book ELSE source
           IN ~ /\ store'.kind = "dir" /\ store'.files[Main] # NoContent
                /\ \A f \in AllFiles : \/ store'.files[f] = NoContent
                                       \/ f \in SkillFiles /\ store'.files[f] = ours[f]]_sVars
=============================================================================
