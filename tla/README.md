# omm in TLA+

omm ("oh-my-musecode") installs, tunes, updates and uninstalls a distribution of skills,
rules, themes and settings for the coding agent `muse` (the *host*). It writes into files
the user and the host also write, it keeps a ledger of what it wrote so that it can take it
back, and nothing but `flock` and the order of its own steps protects it from a second omm,
from the user's editor, from the host, and from Ctrl-C. It also runs inside the host's
sessions, as hook handlers and as an MCP server. These modules model what of it decides,
waits, or can be interrupted.

## The system

| component | state | operations | interacts with | hard because |
|---|---|---|---|---|
| settings transaction (`omm-host/settings.rs`, `c_tune/settings_tx.rs`, `settings.rs`) | the host's `settings.json` | load, patch typed keys, validate, commit (lock, stale check, backup, rename), record; repairs | ledger, locks, snapshots, host validation | two locks taken one after the other, writers without locks, kills between commit and record |
| ledger (`omm-ledger/schema.rs`, `store.rs`) | `omm.lock.json`: file entries, shared-file entries, registrations with priors | load or quarantine, save, modify under `ledger.lock`, remove | every command | the only memory of what was there before |
| locks and atomic files (`omm-host/fsx.rs`) | `$OMM/locks/*.lock`, snapshot directories | `lock_exclusive` (20 ms poll, 15 s limit), `write_atomic`, `snapshot_backup`, pruning | all writers | a lock is on an inode, not on a path; names are seconds |
| shared originals (`omm-ledger/shared.rs`) | the user's document inside a ledger entry | record once, merge dropped members back, restore | install, uninstall | must be read before anyone changed the file |
| install session (`a_lifecycle/session.rs`, `files.rs`, `cmd/lifecycle.rs`) | an in-memory ledger under `ledger.lock` | open, originals, host verbs, merge back, themes, profile, save | everything | a dozen steps, each of which may be the last |
| owned files (`omm-ledger/reconcile.rs`, `files.rs`) | ancestor, theirs, mine per file | `decide`, `plan`, `apply` | ledger, disk | decides in one step and writes in another |
| paths (`omm-ledger/containment.rs`, `hash.rs`) | the disk, with the user's links on it | resolve, probe, contain | every writer and remover | the directories above a file belong to the user |
| uninstall (`omm-ledger/uninstall.rs`, `uninstall_keys.rs`) | a plan made from the ledger | preview, host steps, restore, unlink, remove `$OMM`, remove the ledger | ledger, host, locks | destructive; plans before it locks; removes its own lock file; is rerun |
| plugin lifecycle (`a_lifecycle/plugin.rs`) | the host's marketplace, bundle and approvals | install, approve and verify, update as a transaction with rollback, reconcile | host, ledger | every step is a child process that may fail |
| managed skills (`a_lifecycle/skills.rs`) | skills in the host's store | install, update, reconcile, uninstall | host, ledger | as the plugin, file by file |
| rules block (`omm-ledger/rules.rs`, `files.rs`) | `AGENTS.md` with omm's block in it | create, refresh, stage, strip | ledger, disk | the user edits around, and inside, the block |
| profiles (`c_tune/profile.rs`, `theme.rs`) | the active profile, tags on registrations | put back the outgoing keys, set the incoming ones | settings transaction, ledger | decides on one read and writes after another |
| memory (`c_tune/memory.rs`) | a directory per workspace, archives | seed, backup, gc | snapshots, agents | archives, then removes, what others write in |
| routing (`c_tune/routing*.rs`) | a library in the workspace, `.muse/hooks.json`, `config.json` | enable, disable, answer a prompt | ledger, host catalog | shares a file with the user's hooks; a budget measured earlier |
| hooks and gates (`c_tune/hook.rs`, `hook_gates.rs`) | `.omm/` of the workspace | guard, gates, stop nudge, logs | sessions | one process per event, files changing meanwhile |
| MCP server (`cmd/mcp.rs`, `mcp_wire.rs`) | a pipe | read a frame, answer | client | two framings, frames ahead of the answers |
| invoker (`omm-host/invoke.rs`, `allowlist.rs`, `residue.rs`) | a process tree | check, start, capture, time out, kill, name what is left | host, `ps` | processes fork, leave and hold pipes |
| build (`omm-manifest/generate`, `lint.rs`, `drift.rs`) | three packages, three catalogs | lint, load, render, write, check | the author's editor | seven files written one after the other |
| catalog and overlay (`omm-manifest/catalog.rs`, `overlay.rs`) | rows that forward, `$OMM/custom`, disabled ids | resolve | list, theme, profile | three resolvers of one question |
| doctor (`omm-doctor`) | nothing of its own | D1, D13 and the fix they print | all of the above | its fix is a program the user runs |
| trust (`omm-host/trust.rs`, `omm trust`) | `trust.json`, shared with the host and the user | merge an entry, commit, record; restore one | ledger, locks, uninstall | committed first, recorded after |
| audit, host facts, command line | mostly pure or read-only | | | |

`PROJECT.json` lists every component with its sources and what of it is modelled, and under
`hazards` what in this code is hard to test, at its line, with the properties that would
notice.

What makes omm correct: a commit never erases what someone else wrote; the ledger says what
omm changed and what was there before, whoever is killed; a file or word of the user's is
never replaced or removed; what the user has left alone does not stay behind; what is on the
host is in the ledger; what a check approves can be installed, and what it prints as a fix
heals; what a session asks is answered; and everything ends.

## The modules

    SettingsTx   <- SettingsTxProofs                MCSettingsTx   settings_tx, settings_live
    Assets, Containment <- AssetsProofs             MCOwned        assets  (both)
                                                    MCAssets       assets_live  (Assets)
    Bundle       <- BundleProofs                    MCBundle       bundle
      refines BundlePromise
    Uninstall    <- UninstallProofs                 MCUninstall    uninstall, uninstall_rerun
    Routing, Profiles  <- TuningProofs              MCTuning       tuning, routing_hooks
    Hooks, Mcp, Invoke <- SessionProofs             MCSession      session  (all three)
    Memory (EXTENDS Snapshots), Rules  <- MemoryProofs
    Skills, Build, Repair, Overlay  <- KeepingProofs
                                                    MCKeeping      keeping, skills_edited (all six)

A module right of `<-` holds the proofs about what is left of it, a module `MC...` the
instances of what stands in its lines; the last column names the runs.

Parts that share no state within one run are checked side by side as *scenes*: the MC module
has a variable `scene`, chosen at the start, and only that part moves. This is the disjoint
union of the state spaces, not their product, and says nothing about interference between
scenes: where parts do interfere, one module has both.

How they meet: all commands that open a session exclude each other by `ledger.lock`, which
`Assets` models down to the inode, with the way in which an uninstall breaks it. Relying on
it, `Bundle`, `Skills`, `Rules`, `Routing`, `Profiles`, `Repair` and `Containment` run one
omm command at a time, beside the user, the host and kills. `Profiles` uses the transaction
of `SettingsTx` as one step, since that one loses no write. `Memory`, whose commands take no
lock, runs several.

### SettingsTx

`settings.json` and all that happens to it in a tuning command (`omm settings set`, `omm
theme`, `omm profile use`: *tuners*) and in `omm install` (*installers*), with any number of
both, the host, and the user.

- A document is a function from keys to values. Keys are *typed* (the host knows them; omm
  writes no others) or *untyped* (the host drops them when it rewrites the file). JSON text,
  file modes and the audit log are left out.
- `Load`, `LockConfig`, `Check`, `Backup`, `Rename` are the transaction of
  `settings_tx::apply` and `settings::replace_locked`, one action for every point at which
  another process can be seen. `Check` follows the code in comparing only a file that
  exists. `Refuse` is every refusal between load and lock: the `mcpServers` collision, the
  full-ids guard, a probe of the host. The read of the whole document and `Original::read`,
  two reads of one file a few lines apart, are one step.
- `RecordTuner` is `modify_ledger`: load, `record_settings_key` or `forget_settings_key` for
  each changed key, the entry of the file, save. `Recorded` is the first-prior-last-value
  rule, `Attached` the rule that the first original is kept.
- `BeginInstall` .. `CloseSession` are the steps of `execute_plan` that touch the file, in
  their order: the plan's read, `Session::open`, `record_shared_originals`, the host's
  install and approval (`HostApprove` rewrites the file from its typed part, with no lock of
  omm's), `merge_untyped_back` (`MergeRead` before, `MergeWrite` after the lock),
  `apply_profile` through the shared commit, `RecordInstall`.
- `Kill` may come at any step; `TimeoutConfig`, `TimeoutRecord` and `TimeoutSession` are the
  fifteen-second limit, possible whenever someone else holds the lock.
- `drifted`, `written`, `unrecorded`, `contested` and `preOmm` are history: the code does
  not have them, no guard reads them, and they say what the properties are relative to.

### Assets

The files omm owns outright -- themes -- through `omm install`, `omm update` and `omm
uninstall`, with releases of omm's content between them.

- Content is a digest: of omm's (`Digests`), of the user's (`Mine`), a directory (`Odd`),
  nothing (`Missing`). `Decide` is `reconcile::decide`, `InstallDecide` the exception
  install makes for a ledgered file that has gone.
- A session (`OpenLock`, `Flock`, `Enter`) locks an *inode*: `lockFile` is what the path
  names, `handle[p]` what the process has open. `NothingToUpdate` and `Timeout` are its
  other ways out.
- Install looks at a file, saves the ledger, and writes (`InstallLooks`, `InstallWrites`);
  update plans all files, writes them, and saves once (`PlanUpdate`, `ApplyOverwrite`,
  `ApplyAdopt`, `ApplyStage`, `ApplyRefused`, `EndUpdate`); uninstall loads and plans
  without the lock, looks again at each file before it unlinks it, then drops the lock,
  removes the lock file and at last the ledger (`BeginUninstall`, `PlanUninstall`,
  `UndoLooks`, `UndoUnlinks`, `Complete`, `Wipe`, `Unledger`; `Incomplete` when something
  failed; `Bare` when there was no ledger).
- `Kill`, `UserEdits` and `NewRelease` are the environment. `stale`, `ours`, `torn` and
  `overlap` are history.
- `--force`, `--dry-run`, staged copies and the other steps of the three commands are left
  out. A failure of one of those other steps is `Incomplete` for an uninstall and a `Kill`
  for the others.

### Containment

Where a path leads. A disk is a function from places (sequences of names) to nodes: nothing,
a directory, a file with its bytes, a link to a path. `Resolve` is `Bases::resolve`,
component by component, with the deepest ancestor that exists for a path that does not;
`Probe` is the session's answer before the root exists. `Contained` is the manifest's own
reader of the question, `ContainedPath` doctor's. One tick of `NewVersion` is a release with
new bytes for every file; the ledger has each file's `hash`.

- `InstallFile` refuses a path with a link above it, saves the ledger, and writes.
- Update decides about all files at once (`PlanMerge`: `Verdict` is `reconcile::decide`),
  resolves each again as it writes it (`MergeFile`), and saves the ledger last (`EndMerge`).
  Neither the plan nor the write looks at `via_symlink`, so an update does follow a link that
  leads to another place inside the root, and overwrites, makes or adopts what is there. That
  contradicts `containment.rs` and is a finding. `MergeStops` is a kill, a path that is
  refused by then, or a write that fails.
- `PlanRemoval`, `Take` and `EndUninstall` are uninstall, whose plan keeps what is behind a
  link; `KillUninstall` ends one anywhere.
- `Replace` is the user, who puts a directory, a file, nothing or a link at a movable place
  under the config root, at any moment, also between the plan and the write of a command.
- `own`, `fresh` and `swapped` are history.

### Bundle, BundlePromise

The plugin on the host. `content` is what each checkout (or git remote) offers; `market`,
`gens`, `bundle`, `trusted` are the host's marketplace, the git generations it keeps, its
bundle and its approvals; `saved` is the ledger and `cmd` the running command's memory. Each
verb of `muse plugins` is an action, which may fail, take effect and still fail (cut off at
its deadline), or be the last thing before a kill (`Failure`, `Kill`). Update is a
transaction: preflight in a scratch home (`Preflight`), `RemoveBundle`, `InstallBundle`,
`Accepted` (what the host lists is what was offered), approvals, `Verify`, and `Rollback`
onto the recorded path if one of them failed. Uninstall goes through its host steps and
saves what is left (`PlanUndo`, `UndoStep`, `EndUndo`); `Reconcile` takes what it finds into
the ledger. The user edits checkouts and runs the host's verbs himself.

`BundlePromise` is the abstract specification: what the ledger knows of the bundle follows
what is on the host. `KeepsPromise` is `Promise!Spec` under the mapping `Have`, `Know`,
`quiet`.

### Uninstall

`settings.json` and `trust.json` through an uninstall, its failures and its reruns. The plan
(`Begin`) is made from one reading; `UndoKey` puts one registered key back, in the order in
which the required member of `permissions` comes last; `UndoPlugin` has the host rewrite the
file without its untyped keys; `FinalLooks` reads a shared file and `Restore` writes what
was made of that reading; `Unlink`, `FilesGo` and `Unledger` end it, `Incomplete` saves what
is `left`. A step may fail, the run may be killed, and the user edits, deletes or garbles
the files. `omm trust` (`BeginTrust`, `CommitTrust`, `RecordTrust`) may come between a failed
uninstall and its rerun, or before the first. Of the key files of `Assets`, the plugin of
`Bundle` and the rules file, this module has only what they do to the two shared files.

### Rules

`AGENTS.md` as a sequence of tokens: the markers of omm's block and of the user's part,
newlines, the template's lines, a word of the user's, one that was there before omm
(`Former`) or one he types (`Mine`). `Parts` and `Frame` cut a text as
`rules.rs` does, `Replaced`, `Inserted` and `WithoutBlock` put one together, `Decision` and
`Decide` are what install, update and uninstall make of the parts and the ledger. Install
and update record first and write second (`BeginRules`, `RecordRules`, `WriteRules`),
uninstall looks, decides and writes (`BeginUndoRules`, `UndoRules`). The user inserts and
deletes tokens anywhere, the markers too; a command may be killed between ledger and file;
the ledger may be lost. `Originals` are the texts there may be before omm, any texts in the
theorems and four in the runs, of which one has the user's pair of markers already.

### Skills

One skill of the host's managed store: the files on disk, the host's provenance, the
ledger's digests per file. Install, update, reconcile and uninstall look and decide in one
step (`InstallSkill`, `UpdateSkill`, `ReconcileSkill`, `UninstallSkill`), then go through
the host's verbs (`HostUninstall`, `HostInstall`), which may be cut off with part of the
files in place, and record what is there (`Record`). The source changes between and within
commands; the user edits files, adds one, moves the store behind a link, and runs the host's
verbs himself.

### Repair

`omm doctor` and its fix, over the whole installation at once: the ledger (absent, corrupt,
loaded), the files it names, the host's skill, bundle and marketplace. `Doctor` is D13 and
D1 with the sequence of commands they print; `Reconcile`, `InstallBundle`, `InstallManaged`
and the refusals are what those commands do to the state found. A command is one step here;
what a kill leaves is among what the faults can make.

### Memory, Snapshots

`Snapshots` has names of rolling directories -- a second and a number -- their order and
which of them pruning removes. `Memory` has the memory roots of the host: `omm memory seed`
(`SeedLook`, `SeedMemory`, `SeedSidecar`, `SeedNote`), `backup` (`BeginBackup`, `Pick`,
`Make`, `Archive`, `Prune`) and `gc`, which scans (`BeginGc`), then archives and removes one
root after the other (`GcNext`, `GcRemove`, `GcForget`). Two commands run at once, each may
be killed; agents write into the roots, and workspaces go, come back and become unreadable.

### Profiles

The tuning commands around the transaction: what `omm profile use` puts back of the outgoing
profile (`Outgoing`) and refuses to overwrite (`IncomingEdits`), what `omm theme` and `omm
keymap` set, what `settings lint --fix`, `reconcile-reminders` and `fix-mcp-collision` make
of a document. The transaction itself is `Apply`; `RecordKeys`, `RecordTheme` and
`SaveProfile` come after it, and a kill may come between.

### Routing

The library's files in the workspace, `.muse/hooks.json` with the user's hooks and omm's
handler, `config.json`, and their ledger entries. Enable goes through `EnableRecords`,
`EnableWrites`, `EnableDrops`, `EnableHooks`, `EnableConfig`; disable through `DisableFile`,
`DisableHooks`, `DisableRecords`, `DisableConfig`; a kill may come between any two. The router
is `Prompt`, which selects among the workspace's skills; `Budget`, which reads the recorded size
of the host's catalog; `Squeeze`, one turn of the loop that trims a description or drops an
entry; and `Answer`, which prints what fits without the files the host would refuse (`Taken`).
That the answer is also cut to the host's limits on its entries and on the bytes of a hook's
output, from the end, is left out: it makes what is printed smaller.

### Hooks

One process per event. A tool call starts three gates at a time (`CallTool`, `Dispatch`), of
which the skill gate and the intent gate read their file and then a second one
(`ReadSkills`, `LookForPlan`); the tool runs unless one denies. `Wants` is a stop, which the
handler may turn into a continuation; the logs are appended to (`AppendLine`) after a look
at `.omm/`. The guard's reading of a command line is modelled by what a line's segments do
and where `cd` has led. Meanwhile the agent writes the files.

### Mcp

The server's loop over its pipe: `ReadLine`, `ReadHeader`, `ReadBody` in both framings, with
the limits on headers and bytes, the discarding of what is too long, `RunTool`, `Send`. The
client writes ahead: honest frames, too-large ones, blocks whose header lies, half a frame;
and then closes or goes.

### Invoke

A run of the host by omm. `Validate` is the allowlist, token by token: which flags take a
value, what is a prompt. `Start`, `Polls`, `Expires`, `Snapshot`, `KillsNext`, `KillsHost`,
`Reaps`, `Rewalk`, `Sweeps`, `Drains`, `PipeEnds`, `Takes` are the parent, its deadline and
its reader; the host forks, its children fork, leave, hold the pipe, print, are another
user's, and `ps` may fail. The host ends in order (`Ends`), and then has removed its session,
or fails of itself (`Crashes`, a signal or another code than 0), and then may have left it, or
dies of the kill (`Dies`) and has left it; `status` is what `wait` says of that. Only a host
out of time is swept after, and the sweep may fail without a word (`Sweeps`), so `ReportsTrue`
promises no more than the code does: a session stays only behind a run that says the host
failed, or behind one out of time whose sweep did not work. That nothing collects these later
is a finding.

### Build

`omm build`: `Lint`, `Load`, three renders, `AskDigest`, `RefreshCatalog`, then seven writes
in order; `Check` renders again and compares. The author edits the content between any two
of them, bumps the version, damages what is committed; the build may fail or be killed.

### Overlay

The catalog's rows with their forwards, `$OMM/custom`, appended files and `config.json`'s
disabled ids, and the three resolvers: `overlay::resolve` for `omm list`, `omm theme`, `omm
profile`. `Ask` runs all of them on one state; `Rearrange` is the user under `$OMM`.

## The runs

| run | instance | shows |
|---|---|---|
| `settings_tx` | two tuners, one installer, one typed and one untyped key, two values; one command each, one write of the user, one kill | commits lose and leave out nothing (`NoLostUpdate`), the ledger has the first prior and the last value of each key (`LedgerExact`), and the original it keeps is the user's (`OriginalIsPreOmm`) |
| `settings_live` | one tuner, two installers | no order of the two locks leaves commands waiting for each other (`CommandsEnd`) |
| `assets` | contents: two processes, one theme, two releases, two edits, one kill, three inodes; paths: two files, one in a directory, three places the user replaces, links into the root, out of it and to nowhere, two moves, one release | one session at a time (`OneSession`), the ledger describes the disk (`LedgerDescribesDisk`), no edit is overwritten (`NeverOverwritesUserEdit`); install and uninstall touch files at omm's own places only, and an update none outside the root (`OwnPlacesOnly`), what was written is found again (`WrittenIsFound`), the three readers agree (`ReadersAgree`) |
| `assets_live` | one process, two themes (the second new in release 2), two edits, one kill | repeated updates bring every untouched file up to date (`Converges`) |
| `bundle` | two checkouts and a git remote, three packages (one of a foreign family), two capabilities; one failing verb, one kill, one edit | the ledger knows the bundle on the host (`LedgerKnowsBundle`), an update strands nobody (`NeverStranded`), an uninstall leaves nothing behind unrecorded (`UninstallLeavesNothing`), the refinement of `BundlePromise` (`KeepsPromise`), and repeated updates succeed in the end (`Converges`) |
| `uninstall` | one member of `permissions` and its required one, one untyped key, one project to trust; one failing step, one kill, one edit, with and without `--force` | the ledger on disk forgets no value of omm's (`NothingForgotten`), and a complete uninstall leaves the files as if omm had never been (`EndsAsBefore`) |
| `session` | hooks: one skill, three command lines that change directory, one call and one change at a time; server: a request, a notification, three broken messages, two frames ahead; run: every command line of up to four tokens, two processes besides the host, one of them another user's | the gates decide as the files say (`GatesDecide`), stops end (`StopsEnd`); each request is answered, once, in order, in its framing (`EachAnswered`); no command line hides a prompt (`NeverPrompts`), a run's report is true (`ReportsTrue`), and it returns (`RunReturns`) |
| `tuning` | routing: two skills of which the second release drops one, one hook of the user's, two names of omm, three catalog sizes, three commands, one edit, one kill, one prompt; profiles: two that share a key, a required key with a sibling, two servers, three commands, one change | what the router prints fits (`RoutesWhole`), no hook of the user's is lost (`HooksSurvive`), disable restores (`DisableRestores`); what the user put under a key can be got back (`Recoverable`), one profile is on (`OneProfile`), repairs keep servers and stores (`RepairsKeep`) |
| `keeping` | memory: two workspaces, two commands, two seconds, one archive kept, one edit; rules: two templates, four files of before, two edits, three commands; skills: two files and the user's own, three versions, two edits, four commands; doctor: three faults; build: two events; overlay: catalogs of three rows, four ids, two changes | what `gc` removes had lost its workspace and is in an archive until enough newer ones were made (`MemoriesKept`); the user's words around omm's block stay (`WordsKept`), and install, updates and uninstall give the file of before (`RoundTrip`); an edited skill is not replaced (`SkillKept`), and a complete uninstall leaves none that is omm's to the byte (`UninstallTakesAll`); a fix that doctor prints heals what it was printed for (`FixHeals`); what passes `omm build --check` can be installed, at one version for all three tools (`CleanInstalls`), and an undisturbed build leaves such a checkout (`BuildSettles`); `omm list` shows each usable id once (`ListedOnce`), and themes and profiles use the file it shows (`UsedAsListed`) |

and three runs that are meant to fail, each on one property that a line of the repository
states:

| run | what the trace shows |
|---|---|
| `uninstall_rerun` | A member of `permissions` fails to be restored; the undo of the required `schema_version` finds it still there, answers *kept*, and its registration goes. The rerun restores the member and leaves `schema_version` behind. "A rerun continues." |
| `routing_hooks` | Enable makes `.muse/hooks.json`; the user adds a hook to it; the next enable records the merged bytes as omm's own copy; disable finds it unedited and removes it, with the user's hook. |
| `skills_edited` | The user edits one file of a skill; an update changes another. The edited file counts as unchanged, since the source did not change it, nothing is staged, and the host replaces the directory. "One edited file stages the whole skill's new content and leaves the store untouched." |

Besides these, `PROJECT.json` lists under `findings`, without a run, where the code does
something else than a comment or a document of the repository says and a property has an
exception for it.

### Bounds

All counters are in guards, and all bounds are constants.

- *Processes.* Two tuners and an installer are the least that interleave a commit with a
  commit, a commit with a record, and a session with both; the theorems cover any number. In
  `assets`, one file and two processes are for the interleaving, in `assets_live` two files
  and one process for what update does to several files of one ledger. Three inodes suffice
  for two processes: one each, and one at the path. The other modules run one omm command at
  a time (see above), `Memory` two.
- *Environment.* One edit and one kill put one of each into every window; the properties say
  what one is able to break. Two edits let the user change something and change it back, or
  move a directory and then put a link in its place; two edits of `AGENTS.md` can take out
  one marker and put in another; three faults in `Repair` let the ledger, the host and a
  file go wrong at once.
- *Sequences of commands.* Three commands are install, update (or enable under another name,
  or a switch to another profile) and uninstall; skills get a fourth, for the rerun after a
  kill. Plugin commands are not bounded, only what goes wrong.
- *Data.* One typed key suffices because registrations of different keys do not meet, but
  for the required member of an object, which `Uninstall` and `Profiles` have. Two skills
  (routing) are the least that compete for a budget; catalogs of three rows give chains of
  two forwards, and cycles; command lines of four tokens a flag, its optional value, and
  what is then taken for a prompt (the theorem is of every length). `Keep` is one archive
  instead of five, so that the second already rolls one off. `CaptureCap` and `Room` are one
  byte, so that output overflows both.

`Symmetry` is over processes, workspaces and users' values that no definition tells apart,
in runs that check no liveness. Deadlock is checked in `assets`, `assets_live` and `bundle`;
the others stop when their commands and events are used up.

### Exceptions in the properties

An exception is named in a history variable and marks a window the code leaves open; each is
reported under `findings` where the repository says otherwise.

- `LedgerExact` leaves out keys whose record was lost in a kill or timeout (`unrecorded`)
  and keys committed while another's record was outstanding (`contested`). `NoLostUpdate`
  leaves out a write without the lock inside the window that is marked by `drifted`.
- `LedgerDescribesDisk` and `Converges` (Assets) leave out `torn` files, over which a
  process died between file and ledger, until a saved ledger describes them. `OneSession`
  and `LedgerDescribesDisk` leave out histories in which an uninstall ran beside another
  command (`overlap`).
- `OwnPlacesOnly` leaves out a link made between an uninstall's plan and its removals
  (`swapped`), and lets an update write where the path of one of omm's files leads inside the
  root. Both are findings.
- `LedgerKnowsBundle` leaves out the kill, and the cut-off verb, between a verb and the
  save.
- `EndsAsBefore` leaves out files edited while an uninstall runs (`late`), and a required
  member kept by a run in which something failed, which `RerunContinues` is about; both it and
  `NothingForgotten` leave out a project trusted by a command that was killed before it had
  the ledger saved (`untold`). With `--force` an edited key is due the prior of its
  registration, without it what the user has put there.
- `Recoverable` leaves out keys the user had a command force, edits between a switch's two
  reads, and keys omm had removed.
- `HooksSurvive` leaves out a file `absorbed` into omm's, which `HooksNeverLost` is about;
  `RoundTrip` and `WordsKept` name what `mishaps` a kill or a lost ledger leaves, and
  `RoundTrip` leaves out a file that had a pair of omm's markers before omm came
  (`Unmarked`): `without_managed` takes marker lines out whoever wrote them;
  `SkillKept` names what the host takes with files no command compared.

### Fairness

`SettingsTx` asks weak fairness of each process's own steps: a process that can go on does;
a lock that is free is found free by the 20 ms poll. No fairness of kills, timeouts,
refusals, the user or new commands. `CommandsEnd` needs nothing stronger, because a process
waits only for a lock whose holder does not wait for it: a tuner asks for `ledger.lock`
after it has released `muse-config.lock`. (Commands are bounded; an endless stream of others
could starve a waiter, which the code's polling does not rule out either: that is what its
timeout is for.)

`Assets` asks weak fairness of each process's own steps, and strong fairness of the start of
an update: `Converges` is about a user who keeps running `omm update`. Kills and edits are
bounded, so at some point they are over. The starts of other commands are not bounded: they
may come between the updates, but not keep them away for ever. `Bundle` asks the same for
steps, installs and updates. `Uninstall` states the same of its steps, its reruns and the
user's repair of a garbled file, though the properties checked of it are safety:
`EndsAsBefore` speaks of the step that ends it.

`Hooks` asks weak fairness of the handlers and of the session that waits for them, but not
of the agent: `StopsEnd` holds because a stop that was continued once is not continued
again. `Invoke` asks weak fairness of omm's own steps and threads, of `ps` coming back once
omm waits for it, and of a process that was sent SIGKILL dying; none of the host or its
children, which may hold the pipe for ever.

## What is proved

Eight modules of proofs are checked by the TLA+ proof system, for all values of the constants
that satisfy the assumptions of the modules they are about: `ConstantsAssumption`,
`AssetsAssumption`, `BundleAssumption`, `ProfilesAssumption`, `RoutingAssumption`,
`HooksAssumption`, `McpAssumption`, `InvokeAssumption` and `ArgvsAreTokens`,
`UninstallAssumption`, `KeepIsPositive` and `MemoryAssumption`, `SkillAssumption`,
`BuildAssumption`, `RepairAssumption`, `OverlayAssumption`, `BudgetAssumption`,
`RulesAssumption`, `ContainmentAssumption`. They say that model values are
apart, that patches are patches and catalogs are catalogs `validate` passes, that a header fits
into the limit of a frame, that a template's lines are not markers,
that the places of a disk have those above them among them and omm's files have names the
manifest's grammar accepts, that bounds are numbers and sets that are counted are finite; the
numbers of the instances play no part. One of them, in `Overlay`, says more and is explained
there. TLC evaluates each on every run of the module.

Every theorem about safety is of a specification without fairness and without a scene:
`HooksSpec`, `McpSpec`, `InvokeSpec`, `ProfilesSpec`, `RoutingSpec`, `MemorySpec`,
`RulesSpec`, `SkillsSpec`, `BuildSpec`, `RepairSpec`, `OverlaySpec`, `CSpec` of `Containment`,
and `Spec` of `SettingsTx`, `Assets`, `Bundle` and `Uninstall`, whose fairness no proof uses.

SettingsTx:

- `TypeCorrect`: `TypeOK` is inductive as it stands.
- `LocksCorrect`: `LocksMatchSteps` is inductive relative to `TypeOK`. The lemmas on the
  locks then say that no two processes are between lock and unlock.
- `CommitsCorrect`: the invariant `CommitOverLoaded`. A process past the stale check has the
  document it loaded before it, or no document, or a foreign write has marked it drifted;
  past the backup, the same of its copy. It needs `LocksMatchSteps`: another omm process
  that writes would be in the same critical section. `NoUpdateLost` and `ReplacedIsBackedUp`
  follow from it, as action properties, at the rename.
- `LedgerKept`: the invariant `LedgerKeepsUp`. For a key that is neither unrecorded nor
  contested, either no process has a record of it outstanding and the ledger agrees with the
  commits, or exactly one has and its record will make them agree. `LedgerIsExact` is the
  first half.
- `OriginalsKept`: the invariant `OriginalKept`. Until the saved ledger has an entry for the
  document, no key is recorded and whatever is on disk, read or planned is the user's, unless
  the very process that replaces it holds the entry in memory (`BeforeEntry`); from then on
  no step changes the entry (`EntryStays`). `OriginalIsTheUsers` follows.

Assets:

- `TypeCorrect` with the strengthening `Plans`: what is planned from a release is shipped in
  it, so what is written is a digest and never nothing.
- `OneSessionAtATime` from the invariant `LockIsThePath`: unless an uninstall overlapped
  another command, every open handle is the inode at the path; two sessions would hold one
  inode.
- `UserEditsKept` from the invariant `WillReplace`: a file planned to be written,
  overwritten or unlinked does not hold content of the user's, unless it has changed since
  the process looked.
- `UpdateIdempotent` from the invariant `StagedStands`: what an update has decided to stage
  it would stage again, through every other file it applies, as long as the file stays as it
  is.
- `AccountsKept`: the invariant `AllAccountedFor`, over what each process has in memory. An
  installer's ledger is the saved one, and each of its files is written or planned to be; an
  update's memory describes what it has written; an uninstall's ledger is the saved one
  until it ends. `LedgerIsTheDisk` needs it with `OneSessionAtATime`: with one session there
  is one process whose memory counts.

Containment (`AssetsProofs`):

- `OnlyOwnPlaces`, on any disk (`Disks`: what is there has a directory above it), with any
  links, also in circles, and any roots. `Follow` is a recursion over the links that may still
  be taken and the names that are left. The proof gives it as a step (`Strides`) and a walk,
  shows that the walk exists (`WalkIs`: two walks agree where both are defined, and one is
  defined from each spot), and then what a walk does by induction over both numbers
  (`SpotInduction`): a path without a link on it leads to itself (`PlainIsReal`), so does the
  real path of anything (`RealIsItself`), a path goes on from where its beginning leads
  (`WalkGoesOn`), and what led somewhere still does when more was created (`GrownOn`).
- Of the resolver: what it answers with no link above is the real root with the relative path
  after it (`ResolvedFile`, `ResolvedMissing`); of install: the file comes to be there, also
  when the root itself has to be made, by then under its real path (`MadeThere`, `MadeBelow`).
- The invariant `PlanIsOwn` (theorem `PlansOwnFiles`): what an uninstall still has to take is
  an entry's path below the root it planned with, and no link is above it unless the user made
  one since; of a path with no link above it lstat and unlink reach the path itself. What
  `EndUninstall` takes away are directories.
- The links of one walk are at most `MaxLinks` here as in the runs.

Bundle:

- `TypeCorrect`: `TypeOK` with what a command remembers, verb by verb.
- `KnowsTheBundle`: `LedgerKnowsBundle` is not inductive. An update goes on to save only if
  the host still lists what it installed (`SeenIsThere`), and an uninstall forgets the
  bundle only if it has removed it or had it in its plan (`PlanCovers`). Together they
  are, over every action and every action with its failure.
- `PromiseKept`: the refinement. A verb that puts or removes a bundle is `Promise!Put` or
  `Promise!Remove` (one package never replaces another in place); a save is `Promise!Learn`,
  which has to move the ledger to what is on the host, by `KnowsInv` before the step;
  everything else is a turn that leaves both alone, or a stutter.
- `UninstallIsComplete`: the invariant `UndoCovers`. While an uninstall works, what the host
  holds and the ledger registers is a step to take or one that has failed; as long as nothing
  has failed or changed, so is all the host holds.
- `NeverLeftWithout`: the invariant `SmoothKeeps`. As long as nothing has failed or been
  changed under an update, either the bundle from before is still there (`NotYet`), or the
  market lists a native package the preflight has seen, and what is installed in its place
  is that one; so the install cannot be refused, and the rollback is not reached.

Profiles (`TuningProofs`):

- `KeysStaySafe`: `Recoverable` speaks of a key as it stands; the inductive invariant
  `KeysSafe` has to say where the user's value is between the commit and its record as well:
  in the file and not what a record would take for omm's, or in the prior the record is about
  to write. For the commit it needs `DecisionStands`: what a switch has decided for a key it
  found untouched holds unless the key was edited since. `UsersValuesKept` follows, for any
  number of commands, edits and kills.
- `OneProfileOn` from `OthersGo`: the last writer of a key is in its registration's tag, and
  from the switch's commit on, every key tagged otherwise has gone back, or has what the new
  profile sets.
- `RepairsLoseNothing` from `LintsMalformed`: a lint takes away only what was malformed when
  it read it, or has been edited since.

Routing (`TuningProofs`):

- `RoutingIsKnown`: an invariant of four parts, which no single one of them keeps. A file
  nobody touched is as the ledger says, but for what the running enable has yet to write and
  a disable is through with (`FilesAreKnown`); the entry of `hooks.json` leads back to the
  file from before omm (`HooksAreKnown`); what an enable writes has the hooks it found
  (`HooksAreCarried`); `config.json` is there when it was there before, or says that omm made
  it (`ConfigIsKnown`). `HooksAreSpared` and `DisablePutsBack` are read off at the steps that
  write and at the last step of a disable.

Hooks (`SessionProofs`): `GatesAlwaysDecide` from `GatesRight`, which says of each handler on
its own that, while nobody changes the files, it has answered as they say, or has read what
its second look needs. The handlers answer in any order, since none of it speaks of another.

Mcp (`SessionProofs`): `ServerStaysRight`, for frames of any size, any number of headers and any
payloads. Its invariant `ServerKeepsUp` lays the frames that are not yet read over the pipe: each
has the place where it ends, all are whole and in order, behind them is at most half a frame of
a client that has gone, and before them the rest of the block the server is in, which has as
many headers left as `server.headers` says (`Within`). A frame that is misread, by a byte or a
line, breaks the layout of all that follow. What has been read is answered (`Served`): the
n-th answer suits the n-th of the frames that are due one. `RequestsAreAnswered` follows. Both
are about a client whose blocks tell their true length (`Honest`): after one that lies, the
server and the client do not agree where the next frame begins.

Invoke (`SessionProofs`):

- `InvokeTypeCorrect`: with the types, the accounts of the pipe (`Counted`: what was written
  is kept, dropped or inside), the life of the host at each step (`Followed`), and where each
  process that was under the host is: dead, or under it still, or among the victims, or among
  the survivors (`Traced`), and when the host's session is gone and what the run knows of
  it (`Tidied`). `RunReportsTrue` needs all four.
- `NoUnaskedPrompt`, of command lines of every length. What takes the next token, and what the
  walk has met up to a token, are functions defined by recursion on a number. That they obey
  their recursion is proved here without an induction scheme: of the positions at which a
  partial solution might fail to extend there is a least one. Trying to prove it for every
  length showed that the reference definition `Prompted`, which the runs of three tokens
  agreed with, was wrong from four on (a token is taken by the one before only if that one is
  not itself taken); it was put right.

Uninstall (`UninstallProofs`):

- `LedgerForgetsNothing` from `Accounted`: while an uninstall works, each value of omm's on
  disk is registered in what it is going to save, and is among its steps as long as nothing
  has failed; no registration's prior is a value of omm's.
- `KeysGoBack`: the half of `EndsAsBefore` that is about keys. `DueKept`: of a key that has
  omm's value, the registration's prior is what is due to it, and of any other the file has
  it; what is still to undo is there to be undone. What is due to a key, in the history, was
  at first not that prior when `--force` met a key edited after an uninstall had failed; random
  runs with larger bounds than those of the configurations found it on the way to the proof.
  The rest of `EndsAsBefore` (untyped keys, the required member, the file byte for byte) is
  model-checked.

Memory (`MemoryProofs`): `MemoriesAreKept`, for any number of commands at once. `Directories`
counts: the directories newer than a command's own were all made after it chose its name, so
one that pruning has taken is `Old`, at least as many were made since as are kept, and has a
newer one standing; a freed number is taken again only by commands that had chosen it long
before, so two commands share a directory only when both are old. Over this, `Filing` and
`Kept` say that what `gc` is about to remove, and has removed, is in an archive that no
command is going to overwrite.

Rules (`MemoryProofs`), of texts of any length and any number of commands and edits:

- The words of a text, `Said`, are a recursive function of a position. That it obeys its
  recursion, and that the words of a concatenation are the words of its parts in order, is
  proved by `Upward`: what holds at 0, and with a number at the next, holds up to any number,
  since there would be a least exception. From this: cutting a text into pieces and putting
  them together keeps its words, `normalise` keeps them, and taking off a prefix or suffix
  without words keeps them.
- `WordsAreKept` from `WordsInv`: a block the ledger describes, in the file it expects or in
  one a command is about to write, has no word of the user's in it (`Fit`), the recorded
  frame has none (`Silent`), and a command under way has a plan that keeps the words of the
  text it read (`GoodPlan`, `GoodUndo`). Without the first, replacing a block could take words
  with it; without the second, taking out the frame could.
- `RoundTripHolds` from `TripInv`: as long as the user left the file alone and no command was
  killed before its write, the file is the one from before, or `WithBlock` of it, with the
  frame and the original that go with that in the ledger. `WithBlockIs` is the algebra: a
  refresh of such a text is what install would have made of the file with the other
  template, and taking the block out gives the file back. That needs the file to have had no
  pair of omm's markers (`Unmarked`), which the property did not say at first: the runs had no
  file with a pair, and the proof could not be had without. The runs have one now.

Skills (`KeepingProofs`): `SkillsStayKept` has five parts, all for a command under which
nothing was changed: what it compared before the host's verb is not the user's, what it clears
is an orphan, what it plans to remove is not the user's without `--force`; and an uninstall
that comes to the files has left nothing of omm's there. `SkillIsKept` and
`UninstallTakesAllOfOurs` follow.

Build (`KeepingProofs`): `BuildStaysKept`. A calm build, one under which nobody edited, has in
memory what the content gives, and on disk as much of it as it has passed (`CalmBuild`, step
by step along the seven writes); what has settled is whole, at some version; a verdict is
true of the files it was given on. `CalmBuildsSettle` and `WhatPassesInstalls` follow, the
latter with a lemma for each of the renders.

Repair (`KeepingProofs`): `FixStaysKept`. Without a ledger nothing is registered; a fix, as
long as some of it is to run, is one that still can (`Mendable`): before the plain install no
skill is there or entered, before the managed one no plugin is, and a lone `reconcile` has
nothing to enter. `PrintedFixHeals` is its last conjunct.

Overlay (`KeepingProofs`): `AllAreListedOnce` and `ListedIsUsed`, for catalogs of any size. The
walk along the forwards is a recursive function over the number of hops; in a catalog that
validates it stands at one row at every hop, and the rows it has left witness that the row at
its end is reached. `OverlayAssumption` asks of a catalog what it takes to deserialise, and one
thing `validate` does not ask: that no profile's file is named as another profile's id. Of a
catalog that has such a pair, `omm list` shows the one and `omm profile use` takes the other;
`content/catalog.json` has none.

With these theorems all properties that the runs check of `SettingsTx`, `Assets`, `Bundle`,
`Profiles`, `Routing`, `Hooks`, `Mcp`, `Invoke`, `Memory`, `Rules`, `Skills`, `Build`, `Repair`
and `Overlay` are proved, but for liveness, and `OwnPlacesOnly` of `Containment`. `TypeOK` of
each of them, and `BackedUp` and `Idempotent`, are proved and stated in no run.

Only model-checked:

- `EndsAsBefore`, but for its keys: the byte-for-byte half relates sequences of keys that the
  host reorders and that merges put back, to each other over several commands.
- `WrittenIsFound` of `Containment`. It is not so of every disk: a root of omm's or a home that
  is missing, or a link that leads nowhere yet, may come to be what install has just made, and
  the resolver then refuses it. It holds where those two exist and keep to themselves, which is
  a condition on the disks and what the user does to them, not on the constants.
- `ReadersAgree` of `Containment`. The readers walk different paths to the same thing, a path
  below the root and the same below the real root, and so have not the same number of links
  left: near the bound `MaxLinks`, or the operating system's, one gives up where the other does
  not.
- The liveness properties `CommandsEnd`, `Converges` (twice), `StopsEnd`, `RunReturns`:
  liveness under fairness, and ENABLED, are out of the prover's reach.

## What is not modelled

- *Interference between the commands of different modules*, beyond the two locks. `Assets`
  shows when sessions exclude each other and when they do not (an uninstall beside another
  command); what a settings commit or a plugin install does inside that window is not
  composed with it.
- *The host*, beyond what the code relies on: its verbs, its rewriting of `settings.json`,
  its catalog, its prompts. These definitions are marked external.
- *Text*: JSON and TOML, frontmatter, the wording of reports and errors, the format of the
  ledger and its versions, line endings. `Rules` is about text, and has tokens.
- *Questions to the user, previews, dry runs, staged copies*: they change nothing but a copy
  in `$OMM/staged`. `--force` is modelled in `Uninstall` and `Containment` only.
- *Host facts, the audit log, argument parsing and output*: no state, or state nothing reads
  back. The remaining doctor checks (D2 to D12) read and report.
- *Skill sources, locating the host, the environment of a child, the tar format*: pure input
  and output.
- *File modes, fsync, temporary files*: a write is atomic here (`write_atomic` renames), and
  a crash of the machine, as opposed to the death of a process, is not considered.
- *Shipped content, generated packages, release tooling*: data.

What would come next: `Bundle` within the sessions of `Assets` instead of beside them, the
byte-for-byte half of `EndsAsBefore` as a theorem, and the promise of `Uninstall` (each file
goes back to what is due to it) as an abstract specification that `Uninstall` refines.
