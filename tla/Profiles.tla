------------------------------ MODULE Profiles -------------------------------
(***************************************************************************)
(* The tuning commands that decide before they write: `omm profile use`,   *)
(* `omm theme`, `omm keymap`, `omm settings set | lint --fix |             *)
(* reconcile-reminders | fix-mcp-collision` (omm/src/cmd/c_tune/profile.rs,*)
(* theme.rs, settings.rs, settings_tx.rs).                                 *)
(*                                                                         *)
(* Each reads settings.json and the ledger, decides, and has the decision  *)
(* carried out by a transaction that reads settings.json once more. That   *)
(* transaction is one step here: module SettingsTx shows that it loses no  *)
(* write. The user edits at any moment, and one command runs at a time.    *)
(***************************************************************************)
EXTENDS Integers, FiniteSets

CONSTANTS
    Slices,     \* by profile: the values it gives to some of the keys
    Keys,       \* settings keys a profile or a command may set
    Values,     \* their values
    ThemeKey, ThemeValue, \* the key tui.theme and the value that names omm's theme
    Required,   \* a key the object of its siblings must have, one of Keys
    Siblings,   \* the other keys of that object
    Servers,    \* ids of MCP servers
    Defs,       \* definitions of a server
    Absent,     \* no value, no file, no registration, no profile
    Misshapen,  \* a value of the wrong type
    Starts,     \* settings.json before omm came
    MaxTunes, MaxChanges \* bounds on commands, and on edits and kills

Profiles == DOMAIN Slices

\* The two spellings of the map of MCP servers, and the two stores that say
\* whether a wired reminder is on.
Mcp == {"mcpServers", "mcp_servers"}
Stores == {"plugins", "runtime_capabilities"}
Members == Keys \cup Mcp \cup Stores
Maps == {Absent, Misshapen} \cup [Servers -> Defs \cup {Absent}]

\* What a store says of a reminder: a boolean, something that reads as one
\* ("true", 1), something that does not, or the store is no object.
Flags == {"on", "off", "yes", "junk", Absent, Misshapen}

WellFormed(d) ==
    /\ DOMAIN d = Members
    /\ \A k \in Keys : d[k] \in Values \cup {Absent}
    /\ \A s \in Mcp : d[s] \in Maps
    /\ \A s \in Stores : d[s] \in Flags

\* The paths omm registers: reconcile-reminders sets one member of a store.
Member(path) == IF path = "plugins.enabled" THEN "plugins" ELSE path
RegPaths == Members \cup {"plugins.enabled"}

\* What a key may have, and what the ledger has of one.
Setting == Values \cup {Absent}
Registration == [prior : Setting, value : Setting, tag : Profiles \cup {Absent}]

ASSUME ProfilesAssumption ==
    /\ Keys \cap (Mcp \cup Stores \cup {"plugins.enabled"}) = {}
    /\ ThemeKey \in Keys /\ ThemeValue \in Values
    /\ Required \in Keys /\ Siblings \subseteq Keys \ {Required}
    /\ Absent \notin Values /\ Absent \notin Profiles /\ Absent \notin Registration
    /\ {Absent, Misshapen} \cap {"on", "off", "yes", "junk"} = {}
    /\ \A p \in Profiles :
          /\ DOMAIN Slices[p] \subseteq Keys
          /\ \A k \in DOMAIN Slices[p] : Slices[p][k] \in Values
    /\ \A d \in Starts : WellFormed(d)
    /\ MaxTunes \in Nat /\ MaxChanges \in Nat

VARIABLES
    settings,   \* settings.json
    regs,       \* the ledger: for each path its prior, value and profile
    slice,      \* the profiles as they are now, Absent one that cannot be read
    active,     \* the profile $OMM/config.json names
    theme,      \* the theme's file, and the digest in its ledger entry
    tune,       \* the command that runs
    tally,      \* commands; edits and kills
    \* History.
    users,      \* for each key what the user last put there
    by,         \* the profile whose switch last wrote the key
    excused,    \* keys whose user's value was given up knowingly, or whose
                \* record a kill prevented
    late        \* members edited while a command had already decided

pVars == <<settings, regs, slice, active, theme, tune, tally, users, by,
           excused, late>>

Rest == [at |-> "rest"]
TuneAt(step) == tune' = [tune EXCEPT !.at = step]

-----------------------------------------------------------------------------
\* The transaction.

\* Ops maps paths to values. A restore that would take the required member
\* from siblings that stay is left out of it.
KeptStructural(ops, restores) ==
    {r \in {Required} \cap restores \cap DOMAIN ops :
        /\ ops[r] = Absent
        /\ \E s \in Siblings : (IF s \in DOMAIN ops THEN ops[s] ELSE settings[s]) # Absent}

\* The document with the ops in it.
Staged(ops) ==
    [m \in Members |->
        IF \E path \in DOMAIN ops : Member(path) = m
        THEN ops[CHOOSE path \in DOMAIN ops : Member(path) = m]
        ELSE settings[m]]

\* Every command that changes settings refuses while both spellings are there.
Collision == \A s \in Mcp : settings[s] # Absent

\* The transaction is refused, by omm or by the host's validators.
TxRefused ==
    /\ tune.at = "apply"
    /\ tune' = Rest
    /\ UNCHANGED <<settings, regs, slice, active, theme, tally, users, by,
                   excused, late>>

\* The keys are recorded: a profile is named in config.json, the rest is done.
Recorded == IF tune.tag # Absent THEN [tune EXCEPT !.at = "config"] ELSE Rest

\* What is left of the ops of the command, and those that change something.
Ops == [path \in DOMAIN tune.ops \ KeptStructural(tune.ops, tune.restores) |->
            tune.ops[path]]
Changed == {path \in DOMAIN Ops : settings[Member(path)] # Ops[path]}

\* The transaction is carried out; nothing changed, nothing is recorded.
Apply ==
    /\ tune.at = "apply"
    /\ ~Collision
    /\ settings' = Staged(Ops)
    /\ tune' = IF Changed = {} THEN Recorded
               ELSE [tune EXCEPT !.at = "record", !.ops = Ops,
                        !.priors = [path \in Changed |-> settings[Member(path)]]]
    /\ by' = [k \in Keys |->
            IF k \notin Changed THEN by[k]
            ELSE IF k \in tune.restores THEN Absent ELSE tune.tag]
    /\ excused' = excused \cup
            {k \in Changed \cap Keys :
                \/ tune.force /\ k \notin tune.restores
                \/ tune.tag = Absent
                \/ k \in late
                \/ regs[k] # Absent /\ regs[k].value = Absent}
    /\ UNCHANGED <<regs, slice, active, theme, tally, users, late>>

\* The first prior wins, the value and the profile are the last writer's; a
\* restored key is forgotten.
RecordedKey(path, prior, value, tag) ==
    IF regs[path] = Absent THEN [prior |-> prior, value |-> value, tag |-> tag]
    ELSE [regs[path] EXCEPT !.value = value, !.tag = tag]

RecordKeys ==
    /\ tune.at = "record"
    /\ regs' = [path \in RegPaths |->
            IF path \notin DOMAIN tune.priors THEN regs[path]
            ELSE IF path \in tune.restores THEN Absent
            ELSE RecordedKey(path, tune.priors[path], tune.ops[path], tune.tag)]
    /\ tune' = Recorded
    /\ UNCHANGED <<settings, slice, active, theme, tally, users, by, excused,
                   late>>

\* A command is about to carry out ops.
Carry(ops, restores, tag, force) ==
    [at |-> "apply", ops |-> ops, restores |-> restores, tag |-> tag,
     force |-> force, priors |-> <<>>]

\* A command begins: nothing has been edited since it decided.
Starting ==
    /\ tune.at = "rest"
    /\ tally.tunes < MaxTunes
    /\ tally' = [tally EXCEPT !.tunes = @ + 1]
    /\ late' = {}

-----------------------------------------------------------------------------
\* A profile switch.

\* The keys of the slice the user has edited since omm wrote them.
IncomingEdits(p, force) ==
    {k \in DOMAIN slice[p] :
        /\ ~force
        /\ regs[k] # Absent
        /\ regs[k].value # Absent
        /\ regs[k].value # settings[k]}

\* Mutant of Outgoing: config.json alone says what the profile was.
OutgoingOfConfig(p) ==
    IF active \in {Absent, p} THEN {}
    ELSE IF slice[active] = Absent THEN {} ELSE DOMAIN slice[active]

\* The keys a switch to p must consider putting back: those the ledger tags
\* with another profile, and those of the slice of the profile config names.
Outgoing(p) ==
    {k \in Keys : regs[k] # Absent /\ regs[k].tag \notin {Absent, p}} \cup
    (IF active \in {Absent, p} THEN {}
     ELSE IF slice[active] = Absent THEN {} ELSE DOMAIN slice[active])

\* Mutant of Restorable: an edit of the user's is put back as well.
RestorableOverEdits(p, kept) ==
    {k \in Outgoing(p) \ kept : regs[k] # Absent /\ settings[k] # regs[k].prior}

\* Of those the ones to put back: omm changed them, and nobody has since.
Restorable(p, kept) ==
    {k \in Outgoing(p) \ kept :
        /\ regs[k] # Absent
        /\ regs[k].value # Absent => settings[k] = regs[k].value
        /\ settings[k] # regs[k].prior}

\* use_profile up to its transaction.
UseProfile(p, force) ==
    LET kept == DOMAIN slice[p] \ IncomingEdits(p, force)
        back == Restorable(p, kept)
    IN  /\ slice[p] # Absent
        /\ Starting
        /\ tune' = Carry([k \in kept \cup back |->
                             IF k \in kept THEN slice[p][k] ELSE regs[k].prior],
                         back, p, force)
        /\ UNCHANGED <<settings, regs, slice, active, theme, users, by, excused>>

\* ... and after it: config.json names the profile.
SaveProfile ==
    /\ tune.at = "config"
    /\ active' = tune.tag
    /\ tune' = Rest
    /\ UNCHANGED <<settings, regs, slice, theme, tally, users, by, excused, late>>

-----------------------------------------------------------------------------
\* One key: `omm settings set`, `omm keymap` (whose default is a removal).

SetKey(k, v) ==
    /\ Starting
    /\ tune' = Carry([path \in {k} |-> v], {}, Absent, FALSE)
    /\ UNCHANGED <<settings, regs, slice, active, theme, users, by, excused>>

\* The theme: its file first, decided on as every owned file, then the key.
\* "ours" are the bytes omm carries. A file the user has is left as it is.
BeginTheme ==
    LET decision == IF theme.entry = "ours" THEN "noop"
                    ELSE IF theme.file = Absent THEN "overwrite"
                    ELSE IF theme.file = "ours" THEN "adopt" ELSE "stage"
    IN  /\ Starting
        /\ theme' = [theme EXCEPT !.file = IF decision = "overwrite" THEN "ours" ELSE @]
        /\ tune' = [Carry([path \in {ThemeKey} |-> ThemeValue], {}, Absent, FALSE)
                        EXCEPT !.at = IF decision \in {"overwrite", "adopt"}
                                      THEN "entry" ELSE "apply"]
        /\ UNCHANGED <<settings, regs, slice, active, users, by, excused>>

RecordTheme ==
    /\ tune.at = "entry"
    /\ theme' = [theme EXCEPT !.entry = "ours"]
    /\ TuneAt("apply")
    /\ UNCHANGED <<settings, regs, slice, active, tally, users, by, excused, late>>

-----------------------------------------------------------------------------
\* The repairs of settings.json.

\* What lint makes of a store: what reads as a boolean becomes one, and what
\* does not is taken out.
Linted(flag) ==
    CASE flag = "yes" -> "on"
      [] flag \in {"junk", Misshapen} -> Absent
      [] OTHER -> flag

LintFix ==
    LET malformed == {s \in Stores : Linted(settings[s]) # settings[s]}
    IN  /\ malformed # {}
        /\ Starting
        /\ tune' = Carry([s \in malformed |-> Linted(settings[s])], {}, Absent, FALSE)
        /\ UNCHANGED <<settings, regs, slice, active, theme, users, by, excused>>

\* Where both stores have a boolean the older one decides.
ReconcileReminders ==
    /\ \A s \in Stores : settings[s] \in {"on", "off"}
    /\ settings["plugins"] # settings["runtime_capabilities"]
    /\ Starting
    /\ tune' = Carry([path \in {"plugins.enabled"} |-> settings["runtime_capabilities"]],
                     {}, Absent, FALSE)
    /\ UNCHANGED <<settings, regs, slice, active, theme, users, by, excused>>

\* The servers of both spellings, unless one is defined differently in each.
Union(canonical, legacy) ==
    [s \in Servers |-> IF canonical # Absent /\ canonical[s] # Absent
                       THEN canonical[s] ELSE legacy[s]]
Mergeable(canonical, legacy) ==
    /\ legacy \notin {Absent, Misshapen}
    /\ canonical # Misshapen
    /\ canonical # Absent =>
          \A s \in Servers : Absent \in {canonical[s], legacy[s]} \/ canonical[s] = legacy[s]

\* fix_mcp_collision records first, ...
FixMcp ==
    LET canonical == settings["mcpServers"]
        legacy    == settings["mcp_servers"]
    IN  /\ Mergeable(canonical, legacy)
        /\ Starting
        /\ regs' = [regs EXCEPT !["mcpServers"] =
                RecordedKey("mcpServers", canonical, Union(canonical, legacy), Absent)]
        /\ tune' = [at |-> "replace", loaded |-> settings]
        /\ UNCHANGED <<settings, slice, active, theme, users, by, excused>>

\* Mutant of FixMcpReplaces: the file is not hashed again.
FixMcpReplacesAnyway ==
    /\ tune.at = "replace"
    /\ settings' = [tune.loaded EXCEPT
                       !["mcpServers"] = Union(@, tune.loaded["mcp_servers"]),
                       !["mcp_servers"] = Absent]
    /\ tune' = Rest
    /\ UNCHANGED <<regs, slice, active, theme, tally, users, by, excused, late>>

\* ... and replaces the document it has read, if that is still there.
FixMcpReplaces ==
    /\ tune.at = "replace"
    /\ settings' = IF settings # tune.loaded THEN settings
                   ELSE [settings EXCEPT
                            !["mcpServers"] = Union(@, settings["mcp_servers"]),
                            !["mcp_servers"] = Absent]
    /\ tune' = Rest
    /\ UNCHANGED <<regs, slice, active, theme, tally, users, by, excused, late>>

-----------------------------------------------------------------------------
\* The world.

Changing ==
    /\ tally.changes < MaxChanges
    /\ tally' = [tally EXCEPT !.changes = @ + 1]

\* A command is killed. What it has committed and not recorded is not known.
KillTune ==
    /\ tune.at # "rest"
    /\ Changing
    /\ excused' = excused \cup
            (IF tune.at = "record" THEN DOMAIN tune.priors \cap Keys ELSE {})
    /\ by' = [k \in Keys |-> IF tune.at = "record" /\ k \in DOMAIN tune.priors
                             THEN Absent ELSE by[k]]
    /\ tune' = Rest
    /\ UNCHANGED <<settings, regs, slice, active, theme, users, late>>

\* v is what the ledger says, or is about to say, that omm has put under k.
OmmsValue(k, v) ==
    IF tune.at = "record" /\ k \in DOMAIN tune.priors
    THEN k \notin tune.restores /\ v = tune.ops[k]
    ELSE regs[k] # Absent /\ v = regs[k].value

\* The prior the ledger has, or is about to have, for a value of omm's.
PriorOf(k) == IF regs[k] # Absent THEN regs[k].prior ELSE tune.priors[k]

\* The user edits a key. What omm wrote there, written again, is no edit: it
\* gives the key back to omm, to be restored to its prior.
EditKey(k, v) ==
    /\ v # settings[k]
    /\ Changing
    /\ settings' = [settings EXCEPT ![k] = v]
    /\ users' = [users EXCEPT ![k] = IF OmmsValue(k, v) THEN PriorOf(k) ELSE v]
    /\ excused' = IF OmmsValue(k, v) THEN excused ELSE excused \ {k}
    /\ by' = [by EXCEPT ![k] = Absent]
    /\ late' = late \cup {k}
    /\ UNCHANGED <<regs, slice, active, theme, tune>>

\* The user, or the host, edits the servers or a store.
EditMember(m, v) ==
    /\ v # settings[m]
    /\ Changing
    /\ settings' = [settings EXCEPT ![m] = v]
    /\ late' = late \cup {m}
    /\ UNCHANGED <<regs, slice, active, theme, tune, users, by, excused>>

\* A profile of the user's is garbled, the theme's file is edited or removed.
SpoilSlice(p) ==
    /\ tune = Rest
    /\ slice[p] # Absent
    /\ Changing
    /\ slice' = [slice EXCEPT ![p] = Absent]
    /\ UNCHANGED <<settings, regs, active, theme, tune, users, by, excused, late>>

EditTheme ==
    /\ Changing
    /\ \E f \in {"edited", Absent} \ {theme.file} : theme' = [theme EXCEPT !.file = f]
    /\ UNCHANGED <<settings, regs, slice, active, tune, users, by, excused, late>>

-----------------------------------------------------------------------------

PInit ==
    /\ settings \in Starts
    /\ regs = [path \in RegPaths |-> Absent]
    /\ slice = Slices
    /\ active = Absent
    /\ theme = [file |-> Absent, entry |-> Absent]
    /\ tune = Rest
    /\ tally = [tunes |-> 0, changes |-> 0]
    /\ users = [k \in Keys |-> settings[k]]
    /\ by = [k \in Keys |-> Absent]
    /\ excused = {}
    /\ late = {}

TuneStep ==
    \/ \E p \in Profiles, force \in BOOLEAN : UseProfile(p, force)
    \/ \E k \in Keys, v \in Values \cup {Absent} : SetKey(k, v)
    \/ BeginTheme \/ RecordTheme \/ LintFix \/ ReconcileReminders \/ FixMcp \/ FixMcpReplaces
    \/ TxRefused \/ Apply \/ RecordKeys \/ SaveProfile

WorldStep ==
    \/ KillTune \/ EditTheme
    \/ \E k \in Keys, v \in Values \cup {Absent} : EditKey(k, v)
    \/ \E s \in Mcp, v \in Maps : EditMember(s, v)
    \/ \E s \in Stores, v \in Flags : EditMember(s, v)
    \/ \E p \in Profiles : SpoilSlice(p)

PNext == TuneStep \/ WorldStep

-----------------------------------------------------------------------------

\* What the user last put under a key is there, or is the prior to which the
\* key goes back ("a hand edit since is left as is"): through any sequence of
\* switches, but for a key the user had a command set or a switch forced on,
\* a commit that a kill left unrecorded, an edit that came after the switch
\* had decided, which its transaction does not compare, and a key omm had
\* removed (`omm keymap default`), where an edit is not told from omm's value.
Recoverable ==
    \A k \in Keys \ excused :
        \/ settings[k] = users[k]
        \/ regs[k] # Absent /\ regs[k].prior = users[k]
        \/ tune.at = "record" /\ k \in DOMAIN tune.priors

\* When a switch has run to its end nothing another profile has set is on,
\* whatever config.json said, though an earlier switch was killed, and whether
\* or not that other profile can still be read; but for a value that was there
\* before omm, and a required key whose siblings stay.
OneProfile ==
    [][SaveProfile =>
        \A k \in Keys \ {Required} :
            by[k] \notin {Absent, tune.tag} =>
                \/ k \in DOMAIN slice[tune.tag] /\ slice[tune.tag][k] = settings[k]
                \/ regs[k] # Absent /\ regs[k].prior = settings[k]]_pVars

\* A repair loses nothing: no server the user has defined, in whichever
\* spelling and at whatever moment, goes in a repair or changes, and a store
\* that is well formed is not changed by lint, unless it was edited meanwhile.
RepairsKeep ==
    [][TuneStep =>
        /\ \A s \in Mcp : settings[s] \notin {Absent, Misshapen, settings'[s]} =>
              \A id \in Servers : settings[s][id] # Absent =>
                  settings'["mcpServers"][id] = settings[s][id]
        /\ settings["runtime_capabilities"] \in {"on", "off"} =>
              \/ settings'["runtime_capabilities"] = settings["runtime_capabilities"]
              \/ "runtime_capabilities" \in late]_pVars
=============================================================================
