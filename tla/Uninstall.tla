------------------------------ MODULE Uninstall ------------------------------
(***************************************************************************)
(* What `omm uninstall` does to the two files omm shares with the user and *)
(* the host, settings.json and trust.json (omm-ledger/src/uninstall.rs and *)
(* uninstall_keys.rs): every key omm set goes back to its prior, then the  *)
(* file goes back to the bytes found before omm, or away.                  *)
(*                                                                         *)
(* The plan is made from one reading of the files and executed later, a    *)
(* step at a time; a step may fail, and the rest goes on; the command may  *)
(* be killed, and is run again.  `plugins remove` rewrites settings.json   *)
(* from what the host types: the members it does not type are gone, and    *)
(* uninstall merges them back.  The user edits both files at any moment,   *)
(* and runs `omm trust` between one uninstall and its rerun.               *)
(*                                                                         *)
(* The files omm owns and the lock are module Assets, the host's plugin    *)
(* and marketplace Bundle, the rules file Rules.  A document is its keys,  *)
(* and whether its bytes are still the user's own.                         *)
(***************************************************************************)
EXTENDS Naturals

CONSTANTS
    Plain,      \* keys of settings.json the host types
    Members,    \* typed members of the object with a required member
    Required,   \* that required member (permissions.schema_version)
    Untyped,    \* keys of settings.json the host does not type
    Projects,   \* entries of trust.json
    Absent,     \* no value
    Omm,        \* the value omm gives a key
    Mine, Later, \* values the user gives one, before and after the install
    NoFile, NoLedger, None,
    Seeded,     \* of a file in the ledger: omm created it
    MaxFaults,  \* bound: steps that fail
    MaxKills,   \* bound: commands killed
    MaxEdits,   \* bound: edits of the user
    Forces      \* whether --force is given

Files == {"settings", "trust"}
Vals  == {Absent, Omm, Mine, Later}

Typed == Plain \cup Members \cup {Required}
Keys(f) == IF f = "settings" THEN Typed \cup Untyped ELSE Projects
FileOf(k) == IF k \in Projects THEN "trust" ELSE "settings"
\* What omm may have registered: untyped keys never.
Registrable == Typed \cup Projects

\* A document: its keys; whether the bytes are the ones the user wrote; and
\* whether it is JSON at the moment.
Blank(f) == [text |-> [k \in Keys(f) |-> Absent], own |-> FALSE, json |-> TRUE]

Doc(f) == [text : [Keys(f) -> Vals], own : BOOLEAN, json : BOOLEAN]

Reg == [key : Registrable, prior : Vals]

Entry(f) == Doc(f) \cup {None, Seeded}

Ledger ==
    {l \in [regs : SUBSET Reg, plugin : BOOLEAN,
            file : [Files -> Entry("settings") \cup Entry("trust")]] :
        \A f \in Files : l.file[f] \in Entry(f)}

ASSUME UninstallAssumption ==
    /\ Omm \notin {Absent, Mine, Later} /\ Absent \notin {Mine, Later} /\ Mine # Later
    /\ Required \notin Plain \cup Members
    /\ Typed \cap Untyped = {} /\ Projects \cap (Typed \cup Untyped) = {}
    /\ NoLedger \notin Ledger
    /\ \A f \in Files : NoFile \notin Doc(f) /\ NoFile \notin [Keys(f) -> Vals]
    /\ MaxFaults \in Nat /\ MaxKills \in Nat /\ MaxEdits \in Nat
    /\ Forces \subseteq BOOLEAN /\ FALSE \in Forces

VARIABLES
    disk,      \* the two files
    plugin,    \* the host has omm's plugin
    saved,     \* omm.lock.json: the registrations, the plugin, and of each
               \* file whether omm made it or what was there before
    pc,        \* where the uninstall is
    plan,      \* what it has decided: the registrations to undo, whether the
               \* plugin is to go, the untyped members to be put back, the
               \* files to unlink if they turn out empty
    left,      \* the ledger it will save if anything failed
    failed,    \* a step has failed
    seen,      \* the document it read last
    faults, kills, edits,
    \* History.
    orig,      \* what was there before omm
    due,       \* what should be there in the end
    touched,   \* the files the user has edited since the install
    late,      \* those edited, or given up for not being JSON, while an
               \* uninstall ran
    stranded,  \* the required member was kept for a member of omm's own
    forced,    \* one ran with --force
    untold     \* projects trusted by a command that was killed before it had
               \* the ledger saved, until the user or a ledger speaks of them

uVars   == <<pc, plan, left, failed, seen>>
envVars == <<faults, kills, edits>>
history == <<orig, due, touched, late, stranded, forced, untold>>
vars == <<disk, plugin, saved, uVars, envVars, history>>

-----------------------------------------------------------------------------
\* Documents.

Holds(doc, k) == doc # NoFile /\ doc.text[k] # Absent

\* The object the required member belongs to has others.
Needed(text) == \E k \in Members : text[k] # Absent

\* A document the host accepts.
Sound(f, text) == f = "settings" /\ Needed(text) => text[Required] # Absent

Cleared(text, keys) == [k \in DOMAIN text |-> IF k \in keys THEN Absent ELSE text[k]]

\* Nothing but schema_version and empty objects.
IsEmpty(doc) == \A k \in DOMAIN doc.text : doc.text[k] = Absent

\* What the host makes of settings.json when it writes it.
Rewritten(doc) ==
    IF doc = NoFile THEN Blank("settings")
    ELSE IF ~doc.json THEN doc
    ELSE [doc EXCEPT !.text = Cleared(@, Untyped), !.own = FALSE]

UntypedOf(text) == [k \in Untyped |-> text[k]]

\* Members that are missing are put in, the first list's before the second's.
Merged(text, first, second) ==
    [k \in DOMAIN text |->
        IF k \notin Untyped \/ text[k] # Absent THEN text[k]
        ELSE IF first[k] # Absent THEN first[k] ELSE second[k]]

-----------------------------------------------------------------------------
\* What an install leaves.

\* The documents there may be before omm.
Before(f) ==
    {NoFile} \cup
    {[text |-> t, own |-> TRUE, json |-> TRUE] :
        t \in {t \in [Keys(f) -> {Absent, Mine}] : Sound(f, t)}}

\* The keys an install or a tuning command sets: with a member of the object
\* comes the required one, if it is not there.
MaySet(o, keys) ==
    LET has(k) == Holds(o["settings"], k)
    IN  Required \in keys <=>
            ~has(Required) /\ \E k \in Members : k \in keys

Installed(o, keys, f) ==
    IF \A k \in keys : FileOf(k) # f THEN o[f]
    ELSE [text |-> [k \in Keys(f) |-> IF k \in keys THEN Omm
                        ELSE IF o[f] = NoFile THEN Absent ELSE o[f].text[k]],
          own |-> FALSE, json |-> TRUE]

\* The registration of each key, with the value found before.
Registered(o, keys) ==
    {[key |-> k, prior |-> IF Holds(o[FileOf(k)], k)
                           THEN o[FileOf(k)].text[k] ELSE Absent] : k \in keys}

\* The text that is due when nothing of omm's is left.
DueText(f, o) == IF o = NoFile THEN NoFile ELSE o.text

Init ==
    /\ plugin \in BOOLEAN
    /\ \E s \in Before("settings"), t \in Before("trust"), keys \in SUBSET Registrable :
        LET o == [f \in Files |-> IF f = "settings" THEN s ELSE t]
            \* The plugin's install has the host write settings.json.
            hit == {FileOf(k) : k \in keys} \cup (IF plugin THEN {"settings"} ELSE {})
        IN  /\ MaySet(o, keys)
            /\ hit # {}
            /\ orig = o
            /\ disk = [f \in Files |->
                IF f = "settings" /\ plugin /\ Installed(o, keys, f) = NoFile
                THEN Blank(f)
                ELSE IF f = "settings" /\ plugin
                THEN [Installed(o, keys, f) EXCEPT !.own = FALSE]
                ELSE Installed(o, keys, f)]
            /\ saved = [regs |-> Registered(o, keys), plugin |-> plugin,
                        file |-> [f \in Files |->
                            IF f \notin hit THEN None
                            ELSE IF o[f] = NoFile THEN Seeded ELSE o[f]]]
            /\ due = [f \in Files |-> DueText(f, o[f])]
    /\ pc = "idle" /\ plan = None /\ left = None /\ failed = FALSE /\ seen = None
    /\ faults = 0 /\ kills = 0 /\ edits = 0
    /\ touched = {} /\ late = {} /\ stranded = FALSE /\ forced = FALSE
    /\ untold = {}

-----------------------------------------------------------------------------
\* The plan.

Readable(f) == disk[f] # NoFile => disk[f].json

\* A key still holds what omm gave it; what cannot be read counts as omm's.
StillOurs(r) ==
    LET doc == disk[FileOf(r.key)]
    IN  doc # NoFile /\ doc.json => doc.text[r.key] = Omm

Ours(force) == {r \in saved.regs : force \/ StillOurs(r)}

\* Mutant of Gone: a file that cannot be read is taken for one that is away.
GoneOrBroken(r) == Readable(FileOf(r.key)) => disk[FileOf(r.key)] = NoFile

Gone(r) == disk[FileOf(r.key)] = NoFile

\* The required member stays if, with every other key of the plan gone, its
\* object still has a member.
PredictKeep(r, ours) ==
    /\ r.key = Required /\ r.prior = Absent /\ r \in ours
    /\ disk["settings"] # NoFile /\ disk["settings"].json
    /\ Needed(Cleared(disk["settings"].text,
                      {q.key : q \in {q \in ours : q.prior = Absent}}))

HasOriginal(f) == saved.file[f] \notin {None, Seeded}

MakePlan(force) ==
    LET ours == Ours(force)
        drop == {r \in saved.regs : Gone(r) \/ PredictKeep(r, ours)}
    IN  [force |-> force,
         todo  |-> ours \ drop,
         \* Listed before the plan is made; blind if the host cannot list.
         plugin |-> saved.plugin /\
            (plugin \/ \E f \in Files : disk[f] # NoFile /\ ~disk[f].json),
         shared |-> [f \in Files |-> HasOriginal(f) /\ disk[f] # NoFile],
         untyped |-> IF disk["settings"] # NoFile /\ disk["settings"].json
                     THEN UntypedOf(disk["settings"].text)
                     ELSE [k \in Untyped |-> Absent],
         created |-> {f \in Files : saved.file[f] # None /\
                        (disk[f] = NoFile \/ saved.file[f] = Seeded)}]

\* The registrations the plan forgets without a step.
Dropped(force) ==
    {r \in saved.regs : Gone(r) \/ PredictKeep(r, Ours(force))}

Begin(force) ==
    /\ pc = "idle" /\ saved # NoLedger
    /\ plan' = MakePlan(force)
    /\ left' = [saved EXCEPT !.regs = @ \ Dropped(force),
                             !.plugin = MakePlan(force).plugin]
    /\ pc' = "host"
    /\ failed' = FALSE /\ seen' = None
    /\ forced' = (forced \/ force)
    /\ UNCHANGED <<disk, plugin, saved, envVars, orig, due, touched, late, stranded, untold>>

-----------------------------------------------------------------------------
\* The steps on the host.

Own == UNCHANGED <<envVars, history>>
Fault ==
    /\ faults < MaxFaults
    /\ faults' = faults + 1
    /\ UNCHANGED <<kills, edits, history>>

\* Mutant of Ready: the steps keep the order of the registrations.
ReadyAnyOrder(r) == r \in plan.todo

\* The required member goes after the last other key of settings.json.
Ready(r) ==
    r.key = Required =>
        \A q \in plan.todo : q # r => FileOf(q.key) # "settings"

\* A document with one key set, or gone: what patch_typed makes of settings.json
\* and the store of trust.json.
Patch(f, doc, k, v) ==
    [IF doc = NoFile THEN Blank(f) ELSE doc EXCEPT !.text[k] = v, !.own = FALSE]

RestoredKey(r) == Patch("settings", disk["settings"], r.key, r.prior)

RestoredProject(r) == Patch("trust", disk["trust"], r.key, r.prior)

Patched(r) == IF r.key \in Projects THEN RestoredProject(r) ELSE RestoredKey(r)

\* Removing it would leave an object the host refuses.
Kept(r) ==
    /\ r.key = Required /\ r.prior = Absent
    /\ disk["settings"] # NoFile /\ Needed(disk["settings"].text)

\* With --force a key the user has set since goes back to its prior too, and
\* that is what the user asked for.
DueForced(r) ==
    LET f == FileOf(r.key)
        was == IF due[f] = NoFile THEN Blank(f).text ELSE due[f]
    IN  IF StillOurs(r) \/ was[r.key] = r.prior THEN due
        ELSE [due EXCEPT ![f] = [was EXCEPT ![r.key] = r.prior]]

\* A key, or a trust entry, back to its prior: whatever it holds by now.
UndoKey(r) ==
    /\ pc = "host" /\ r \in plan.todo /\ Ready(r)
    /\ Readable(FileOf(r.key))
    /\ disk' = IF Kept(r) THEN disk ELSE [disk EXCEPT ![FileOf(r.key)] = Patched(r)]
    /\ plan' = [plan EXCEPT !.todo = @ \ {r}]
    /\ left' = [left EXCEPT !.regs = @ \ {r}]
    /\ stranded' = (stranded \/ (Kept(r) /\ failed))
    /\ due' = IF plan.force THEN DueForced(r) ELSE due
    /\ UNCHANGED <<plugin, saved, pc, failed, seen, envVars, orig, touched, late, forced, untold>>

\* The file cannot be loaded, the host's loader refuses the result, a lock
\* times out, the document changed meanwhile.
UndoKeyFails(r) ==
    /\ pc = "host" /\ r \in plan.todo /\ Ready(r)
    /\ Fault \/ (~Readable(FileOf(r.key)) /\ Own)
    /\ plan' = [plan EXCEPT !.todo = @ \ {r}]
    /\ failed' = TRUE
    /\ UNCHANGED <<disk, plugin, saved, pc, left, seen>>

RemovesPlugin ==
    /\ plugin' = FALSE
    /\ disk' = IF plugin THEN [disk EXCEPT !["settings"] = Rewritten(@)] ELSE disk

\* `plugins remove --delete-data`; one that is gone already counts as undone.
UndoPlugin ==
    /\ pc = "host" /\ plan.plugin
    /\ RemovesPlugin
    /\ plan' = [plan EXCEPT !.plugin = FALSE]
    /\ left' = [left EXCEPT !.plugin = FALSE]
    /\ Own
    /\ UNCHANGED <<saved, pc, failed, seen>>

UndoPluginFails ==
    /\ pc = "host" /\ plan.plugin
    /\ RemovesPlugin \/ UNCHANGED <<disk, plugin>>
    /\ plan' = [plan EXCEPT !.plugin = FALSE]
    /\ failed' = TRUE
    /\ Fault
    /\ UNCHANGED <<saved, pc, left, seen>>

-----------------------------------------------------------------------------
\* The shared files, once every step has succeeded.

\* A file is final only when every registration in it is undone: with a step
\* failed, both phases wait for the rerun.
Deferred == failed

HostDone ==
    /\ pc = "host" /\ plan.todo = {} /\ ~plan.plugin
    /\ pc' = IF Deferred THEN "files" ELSE "final"
    /\ Own
    /\ UNCHANGED <<disk, plugin, saved, plan, left, failed, seen>>

ToFinish == {f \in Files : plan.shared[f] \/ f \in plan.created}

\* restore_shared, or the phase of the created files, reads the file.
FinalLooks(f) ==
    /\ pc = "final" /\ f \in ToFinish
    /\ seen' = [file |-> f, doc |-> disk[f]]
    /\ pc' = "finish"
    /\ Own
    /\ UNCHANGED <<disk, plugin, saved, plan, left, failed>>

\* The document with the untyped members of the original and of the plan.
WithUntyped ==
    IF seen.file # "settings" THEN seen.doc.text
    ELSE Merged(seen.doc.text, UntypedOf(left.file["settings"].text), plan.untyped)

\* What is written: the original's bytes if that is what the document says, the
\* merged document if anything was merged, otherwise nothing.
Outcome ==
    LET o == left.file[seen.file]
    IN  IF WithUntyped = o.text THEN o
        ELSE IF WithUntyped # seen.doc.text
        THEN [text |-> WithUntyped, own |-> FALSE, json |-> TRUE]
        ELSE seen.doc

\* A file is through: its entry goes.
Finished(f) ==
    /\ left' = [left EXCEPT !.file[f] = None]
    /\ plan' = [plan EXCEPT !.shared[f] = FALSE, !.created = @ \ {f}]
    /\ pc' = "final" /\ seen' = None

Unreadable == seen.doc = NoFile \/ ~seen.doc.json

\* A file that was there before omm.  It was read before the lock was taken.
Restore ==
    /\ pc = "finish" /\ plan.shared[seen.file]
    /\ disk' = IF Unreadable \/ Outcome = seen.doc THEN disk
               ELSE [disk EXCEPT ![seen.file] = Outcome]
    /\ Finished(seen.file)
    /\ late' = IF seen.doc # NoFile /\ ~seen.doc.json THEN late \cup {seen.file} ELSE late
    /\ UNCHANGED <<plugin, saved, failed, envVars, orig, due, touched, stranded, forced, untold>>

\* A file omm created, or that was away: unlinked if nothing is left in it.
Unlink ==
    /\ pc = "finish" /\ ~plan.shared[seen.file]
    /\ seen.doc # NoFile => seen.doc.json
    /\ disk' = IF seen.doc # NoFile /\ IsEmpty(seen.doc)
               THEN [disk EXCEPT ![seen.file] = NoFile] ELSE disk
    /\ Finished(seen.file)
    /\ Own
    /\ UNCHANGED <<plugin, saved, failed>>

\* A write or a validation fails, or a created file is not JSON now: the entry
\* is kept.
FinishFails ==
    /\ pc = "finish"
    /\ Fault \/ (~plan.shared[seen.file] /\ seen.doc # NoFile /\ ~seen.doc.json /\ Own)
    /\ failed' = TRUE
    /\ plan' = [plan EXCEPT !.shared[seen.file] = FALSE, !.created = @ \ {seen.file}]
    /\ pc' = "final" /\ seen' = None
    /\ UNCHANGED <<disk, plugin, saved, left>>

FinalDone ==
    /\ pc = "final" /\ ToFinish = {}
    /\ pc' = "files"
    /\ Own
    /\ UNCHANGED <<disk, plugin, saved, plan, left, failed, seen>>

-----------------------------------------------------------------------------
\* The end.

\* The rules file and the owned files (modules Rules and Assets), any of which
\* may fail.
FilesGo ==
    /\ pc = "files"
    /\ pc' = "end"
    /\ \/ Own /\ UNCHANGED failed
       \/ Fault /\ failed' = TRUE
    /\ UNCHANGED <<disk, plugin, saved, plan, left, seen>>

Stops == pc' = "idle" /\ plan' = None /\ left' = None /\ failed' = FALSE /\ seen' = None

\* Something failed: what is left is saved, for a rerun.
Incomplete ==
    /\ pc = "end" /\ failed
    /\ saved' = left
    /\ Stops
    /\ Own
    /\ UNCHANGED <<disk, plugin>>

\* omm's own state goes, then the ledger, last of all.
Unledger ==
    /\ pc = "end" /\ ~failed
    /\ saved' = NoLedger
    /\ Stops
    /\ Own
    /\ UNCHANGED <<disk, plugin>>

-----------------------------------------------------------------------------
\* `omm trust`, on an installation that is there.  The first of all is among
\* what an install leaves.

KnownTo(k) == \E r \in saved.regs : r.key = k

\* The store is loaded; an entry that says so already is left alone, in the
\* ledger too.
BeginTrust(k) ==
    /\ pc = "idle" /\ saved # NoLedger
    /\ Readable("trust") /\ (Holds(disk["trust"], k) => disk["trust"].text[k] # Omm)
    /\ seen' = [file |-> "trust", doc |-> disk["trust"], key |-> k]
    /\ pc' = "trust"
    /\ Own
    /\ UNCHANGED <<disk, plugin, saved, plan, left, failed>>

\* The entry of the project is merged in, every other one kept.
Entrusted == Patch("trust", seen.doc, seen.key, Omm)

\* Asked for again, an entry goes back to what was there before the first time.
DueAgain ==
    LET was == IF due["trust"] = NoFile THEN Blank("trust").text ELSE due["trust"]
        first == (CHOOSE r \in saved.regs : r.key = seen.key).prior
    IN  IF ~KnownTo(seen.key) \/ was[seen.key] = first THEN due
        ELSE [due EXCEPT !["trust"] = [was EXCEPT ![seen.key] = first]]

\* Under muse-config.lock, unless the file has changed since.
CommitTrust ==
    /\ pc = "trust" /\ disk["trust"] = seen.doc
    /\ disk' = [disk EXCEPT !["trust"] = Entrusted]
    /\ due' = DueAgain
    /\ pc' = "trusted"
    /\ UNCHANGED <<plugin, saved, plan, left, failed, seen, envVars,
                   orig, touched, late, stranded, forced, untold>>

\* It has changed, the host would refuse it, or the lock cannot be had.
TrustRefused ==
    /\ pc = "trust"
    /\ pc' = "idle" /\ seen' = None
    /\ Own
    /\ UNCHANGED <<disk, plugin, saved, plan, left, failed>>

\* The first prior is kept.
WithTrust(regs) ==
    IF KnownTo(seen.key) THEN regs
    ELSE regs \cup {[key |-> seen.key,
                     prior |-> IF Holds(seen.doc, seen.key)
                               THEN seen.doc.text[seen.key] ELSE Absent]}

\* A file not in the ledger is one omm made, or one with an original.
WithFile(entry) ==
    IF entry # None THEN entry ELSE IF seen.doc = NoFile THEN Seeded ELSE seen.doc

RecordTrust ==
    /\ pc = "trusted"
    /\ saved' = [saved EXCEPT !.regs = WithTrust(@), !.file["trust"] = WithFile(@)]
    /\ pc' = "idle" /\ seen' = None
    /\ untold' = untold \ {seen.key}
    /\ UNCHANGED <<disk, plugin, plan, left, failed, envVars,
                   orig, due, touched, late, stranded, forced>>

Trust == (\E k \in Projects : BeginTrust(k)) \/ CommitTrust \/ TrustRefused \/ RecordTrust

-----------------------------------------------------------------------------
\* Killed, or not able to save the ledger.
Kill ==
    /\ pc # "idle" /\ kills < MaxKills
    /\ kills' = kills + 1
    /\ untold' = IF pc = "trusted" /\ ~KnownTo(seen.key) THEN untold \cup {seen.key} ELSE untold
    /\ Stops
    /\ UNCHANGED <<disk, plugin, saved, faults, edits,
                   orig, due, touched, late, stranded, forced>>

-----------------------------------------------------------------------------
\* The user.

Uninstalling == pc \notin {"idle", "trust", "trusted"}

\* Keys the user has set are the user's; but an uninstall that runs may put
\* back the original it has read before.
Told(keys) == IF Uninstalling THEN untold ELSE untold \ keys

Edit(f) ==
    /\ edits < MaxEdits
    /\ edits' = edits + 1
    /\ touched' = touched \cup {f}
    /\ late' = IF Uninstalling THEN late \cup {f} ELSE late
    /\ UNCHANGED <<plugin, saved, uVars, faults, kills, orig, stranded, forced>>

\* The user sets or removes a key.  With a member comes the required one.
Assigned(text, k, v) ==
    [text EXCEPT ![k] = v,
                 ![IF k \in Members /\ v # Absent /\ text[Required] = Absent
                   THEN Required ELSE k] = v]

EditKey(k, v) ==
    LET f == FileOf(k)
        doc == IF disk[f] = NoFile THEN [Blank(f) EXCEPT !.own = TRUE] ELSE disk[f]
        was == IF due[f] = NoFile THEN Blank(f).text ELSE due[f]
    IN  /\ disk[f] = NoFile => v # Absent
        /\ doc.json /\ doc.text[k] # v
        /\ disk' = [disk EXCEPT ![f] = [doc EXCEPT !.text = Assigned(@, k, v)]]
        /\ due' = [due EXCEPT ![f] = [was EXCEPT ![k] = v]]
        /\ untold' = Told({k})
        /\ Edit(f)

Delete(f) ==
    /\ disk[f] # NoFile
    /\ disk' = [disk EXCEPT ![f] = NoFile]
    /\ due' = [due EXCEPT ![f] = NoFile]
    /\ untold' = Told(Keys(f))
    /\ Edit(f)

\* An edit that leaves no JSON, and its repair.
Garble(f) ==
    /\ disk[f] # NoFile /\ disk[f].json
    /\ disk' = [disk EXCEPT ![f].json = FALSE]
    /\ Edit(f)
    /\ UNCHANGED <<due, untold>>

Repair(f) ==
    /\ disk[f] # NoFile /\ ~disk[f].json
    /\ disk' = [disk EXCEPT ![f].json = TRUE]
    /\ late' = IF Uninstalling THEN late \cup {f} ELSE late
    /\ UNCHANGED <<plugin, saved, uVars, envVars, orig, due, touched, stranded, forced, untold>>

User ==
    \/ \E k \in (Registrable \ {Required}) \cup Untyped, v \in {Absent, Later} : EditKey(k, v)
    \/ \E f \in Files : Delete(f) \/ Garble(f) \/ Repair(f)

Step ==
    \/ (\E r \in Reg : UndoKey(r) \/ UndoKeyFails(r))
    \/ UndoPlugin \/ UndoPluginFails \/ HostDone
    \/ (\E f \in Files : FinalLooks(f)) \/ Restore \/ Unlink \/ FinishFails
    \/ FinalDone \/ FilesGo \/ Incomplete \/ Unledger

Next == Step \/ Trust \/ Kill \/ User \/ \E force \in Forces : Begin(force)

\* A command that runs goes on; the user runs it until nothing is left, and
\* repairs what is not JSON.
Fairness ==
    /\ WF_vars(Step \/ CommitTrust \/ TrustRefused \/ RecordTrust)
    /\ WF_vars(Begin(FALSE))
    /\ \A f \in Files : WF_vars(Repair(f))

Spec == Init /\ [][Next]_vars /\ Fairness

-----------------------------------------------------------------------------
\* Properties.

Value(f, k) == IF disk[f] = NoFile THEN Absent ELSE disk[f].text[k]

\* Whatever fails, is killed or is forgotten on purpose, a value of omm's in a
\* shared file is in the ledger on disk, so that a rerun can take it back; the
\* required member aside, which stays for the sake of the user's members, and a
\* project trusted by a command that was killed before it saved the ledger.
NothingForgotten ==
    \A k \in Registrable \ ({Required} \cup untold) :
        Value(FileOf(k), k) = Omm =>
            \/ saved # NoLedger /\ KnownTo(k)
            \/ pc = "trusted" /\ seen.key = k

\* The value a key is to have in the end.
Due(f, k) == IF due[f] = NoFile THEN Absent ELSE due[f][k]

\* No key is omm's, and every one is the user's.
KeysSettled(f) ==
    \A k \in Keys(f) \ (Untyped \cup {Required}) : Value(f, k)' = Due(f, k)

\* Nor are those the host does not type, as far as the original has them.
UntypedSettled(f) ==
    \A k \in Keys(f) \cap Untyped :
        due[f] # NoFile /\ orig[f] # NoFile /\ due[f][k] = orig[f].text[k]
            => Value(f, k)' = due[f][k]

\* A file is as if omm had never been: its keys are, and it is byte for byte
\* the user's file if the user has left it alone (a --force that comes after
\* the file was finished may write it once more).
Settled(f) ==
    /\ f \notin touched /\ ~forced => disk'[f] = orig[f]
    /\ f \notin touched => (disk'[f] = NoFile <=> orig[f] = NoFile)
    /\ KeysSettled(f)
    /\ UntypedSettled(f)

\* When an uninstall is complete, whatever failed or was killed on the way, the
\* shared files are as if omm had never been; but for a file edited under a
\* running uninstall or left without being JSON, a required member an earlier
\* run kept because of a member it had failed to undo, and a project trusted
\* without the ledger's knowledge.
EndsAsBefore ==
    [][Unledger =>
        \A f \in Files \ late :
            /\ Readable(f)
            /\ ~(f = "settings" /\ stranded)
            /\ untold \cap Keys(f) = {}
            => Settled(f)]_vars

\* A rerun continues where a failed run stopped: once complete, no required
\* member is left behind in a file the user has not touched.
RerunContinues ==
    [][Unledger /\ "settings" \notin touched =>
        (Holds(disk'["settings"], Required) <=> Holds(orig["settings"], Required))]_vars
=============================================================================
