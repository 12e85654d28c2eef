------------------------------- MODULE Bundle -------------------------------
(***************************************************************************)
(* omm's plugin on the host: the marketplace it is offered from, the       *)
(* bundle that is installed, the capabilities that are approved, and what  *)
(* the ledger records of all three (a_lifecycle/plugin.rs, and the host    *)
(* parts of install, update, reconcile and uninstall in cmd/lifecycle.rs). *)
(*                                                                         *)
(* Everything on the host is changed by `muse plugins ...`, one child      *)
(* process per verb.  A verb may fail, fail after it has taken effect (it  *)
(* was cut off), or be the last thing omm does before it is killed; the    *)
(* ledger is saved between the verbs.  A local directory is read live at   *)
(* every verb; a git marketplace keeps its last two generations.           *)
(*                                                                         *)
(* omm's commands exclude each other by ledger.lock (module Assets), so    *)
(* one command runs at a time here; the user edits the checkouts and the   *)
(* host's plugins at any moment.  Dry runs, warnings and reports are left  *)
(* out, and so are skills, which are on the host in the same way.          *)
(***************************************************************************)
EXTENDS Naturals, Sequences

CONSTANTS
    Dirs,        \* checkouts omm may be run from
    Git,         \* a git remote the user may have configured instead
    Digests,     \* packages
    Foreign,     \* packages the host loads under another manifest family
    Caps,        \* runtime capabilities of the package
    Off,         \* Off[d]: capabilities package d ships disabled
    None,        \* no bundle, no registration
    NoLedger,    \* there is no omm.lock.json
    Commands,    \* the commands that are run
    FoundContents,  \* what the sources may offer at first
    FoundMarkets,   \* what the host may have before omm's first run
    MaxFaults,   \* bound: host verbs that fail
    MaxKills,    \* bound: commands killed
    MaxEdits     \* bound: edits of the user

Sources == Dirs \cup {Git}
Paths   == Dirs \cup Digests     \* a git generation is named by its content

Market  == [src : Sources, digest : Digests]
OnHost  == [digest : Digests, path : Paths]
Reg     == [digest : Digests, path : Paths, approved : SUBSET Caps]
Ledger  == [market : Sources \cup {None}, bundle : Reg \cup {None}]

\* A command: what it was asked for; whether it registers the marketplace as
\* soon as it is there; the marketplace's source and the digest it offers, as
\* reported; whether a bundle was installed when it looked, and the directory
\* of the one it will record; the host steps of an uninstall, and those that
\* failed.
Things  == {"market", "bundle"}
Command == [kind : {"install", "update", "uninstall"}, src : Dirs,
            flag : BOOLEAN, skip : SUBSET Caps, follow : BOOLEAN,
            mkt : Sources \cup {None}, avail : Digests \cup {None},
            present : BOOLEAN, at : Paths \cup {None},
            todo : SUBSET Things, left : SUBSET Things]

ASSUME BundleAssumption ==
    /\ Dirs # {} /\ Git \notin Dirs
    /\ Sources \cap Digests = {}
    /\ Foreign \subseteq Digests
    /\ Off \in [Digests -> SUBSET Caps]
    /\ None \notin Market \cup OnHost \cup Reg \cup Sources \cup Digests
                \cup Command
    /\ NoLedger \notin Ledger
    /\ FoundContents \subseteq [Sources -> Digests]
    /\ FoundMarkets \subseteq Market \cup {None}
    /\ Commands \subseteq {"install", "update", "uninstall", "reconcile"}
    /\ MaxFaults \in Nat /\ MaxKills \in Nat /\ MaxEdits \in Nat

VARIABLES
    content,    \* the package in each checkout, and at the git remote
    market,     \* the host's marketplace of omm's name, and the digest it lists
    gens,       \* the git generations the host keeps
    bundle,     \* what is installed, and the directory it was read from
    trusted,    \* the capabilities that are trusted_enabled
    saved,      \* omm.lock.json
    pc,         \* where the running command is
    cmd,        \* the running command, and what it has seen so far
    faults, kills, edits,   \* the counters the bounds cap
    \* History: what the properties compare the state with.
    quiet,      \* nobody changed the host under the running command
    clean,      \* nothing failed or changed since the command began
    before,     \* what was installed when the command began
    orphaned    \* what a cut-off verb or a kill left for the ledger to miss

hostVars == <<content, market, gens, bundle, trusted>>
envVars  == <<faults, kills, edits>>
vars == <<hostVars, saved, pc, cmd, envVars, quiet, clean, before, orphaned>>

Empty == [market |-> None, bundle |-> None]
\* What a command works on: the ledger, or a new one.
Known == IF saved = NoLedger THEN Empty ELSE saved

-----------------------------------------------------------------------------
\* The host.

\* What an install from a directory or a generation reads.
ContentAt(p) == IF p \in Dirs THEN content[p] ELSE p

Native(d) == d \notin Foreign

\* The last two generations stay.
Kept(d) ==
    IF gens # <<>> /\ gens[Len(gens)] = d THEN gens
    ELSE IF Len(gens) < 2 THEN Append(gens, d) ELSE <<gens[2], d>>

IsDir(p) == p \in Dirs \/ \E i \in 1 .. Len(gens) : gens[i] = p

\* The marketplace as a checkout or remote now lists it.
Listing(src) == [src |-> src, digest |-> content[src]]

\* Where the host reads the package of its marketplace from.
PackagePath == IF market.src \in Dirs THEN market.src ELSE market.digest

Refreshed ==
    /\ market' = Listing(market.src)
    /\ gens' = IF market.src = Git THEN Kept(content[Git]) ELSE gens
    /\ UNCHANGED <<content, bundle, trusted>>

\* A new package: nothing of it is trusted yet.
Installs(p) ==
    /\ bundle = None
    /\ bundle' = [digest |-> ContentAt(p), path |-> p]
    /\ trusted' = {}
    /\ UNCHANGED <<content, market, gens>>

\* `plugins remove`; one that is not there is fine.
Removes ==
    /\ bundle' = None
    /\ trusted' = {}
    /\ UNCHANGED <<content, market, gens>>

AddsMarket(src) ==
    /\ market = None
    /\ market' = Listing(src)
    /\ UNCHANGED <<content, gens, bundle, trusted>>

DropsMarket ==
    /\ market' = None
    /\ UNCHANGED <<content, gens, bundle, trusted>>

-----------------------------------------------------------------------------
\* How a command goes on, and how it ends.

Goto(label) == pc' = label /\ UNCHANGED cmd
Ends == pc' = "idle" /\ cmd' = None
GotoOrEnd(label) == IF label = "idle" THEN Ends ELSE Goto(label)

\* History is the command's: nothing is remembered of it when it has ended.
Forgotten == quiet' = TRUE /\ clean' = TRUE /\ before' = None

\* A step of the command that goes as it should.
Own ==
    /\ IF pc' = "idle" THEN Forgotten ELSE UNCHANGED <<quiet, clean, before>>
    /\ UNCHANGED envVars

\* A verb fails, without effect or after it.
Fault ==
    /\ faults < MaxFaults
    /\ faults' = faults + 1
    /\ IF pc' = "idle" THEN Forgotten ELSE clean' = FALSE /\ UNCHANGED <<quiet, before>>
    /\ UNCHANGED <<kills, edits>>

Init ==
    /\ content \in FoundContents
    /\ market \in FoundMarkets
    /\ gens = IF market # None /\ market.src = Git THEN <<market.digest>> ELSE <<>>
    /\ bundle = None /\ trusted = {}
    /\ saved = NoLedger
    /\ pc = "idle" /\ cmd = None
    /\ faults = 0 /\ kills = 0 /\ edits = 0
    /\ quiet = TRUE /\ clean = TRUE /\ before = None /\ orphaned = {}

Begin(kind, src, flag, follow) ==
    /\ pc = "idle"
    /\ kind \in Commands
    /\ cmd' = [kind |-> kind, src |-> src, flag |-> flag, skip |-> Off[content[src]],
               follow |-> follow, mkt |-> None, avail |-> None, present |-> FALSE,
               at |-> None, todo |-> {}, left |-> {}]
    /\ before' = bundle
    /\ UNCHANGED <<hostVars, saved, envVars, quiet, clean, orphaned>>

\* `omm install [--reinstall]` from a checkout.
BeginInstall(src, again) ==
    /\ Begin("install", src, again, TRUE)
    /\ pc' = "add"

\* `omm update [--reinstall]`: only what the ledger has a bundle for.
BeginUpdate(src, again) ==
    /\ Begin("update", src, again, FALSE)
    /\ Known.bundle # None
    /\ pc' = "refresh"

-----------------------------------------------------------------------------
\* The marketplace: ensure_marketplace, update_marketplace and step 1b.

\* The marketplace is there, from this source; the command goes on.
Reported(src, label) ==
    /\ cmd' = [cmd EXCEPT !.mkt = src]
    /\ pc' = label

\* Where a command goes when the marketplace is as it should be.
Ensured == IF cmd.follow THEN "register" ELSE "look"

\* The marketplace is registered from another local directory.
Elsewhere == market.src \in Dirs /\ market.src # cmd.src

\* `marketplace add`; if it is already configured, a refresh.
MarketAdd ==
    /\ pc = "add"
    /\ \/ AddsMarket(cmd.src) /\ Reported(cmd.src, Ensured)
       \/ market # None /\ Goto("again") /\ UNCHANGED hostVars
    /\ Own
    /\ UNCHANGED <<saved, orphaned>>

MarketAddFails ==
    /\ pc = "add"
    /\ \/ UNCHANGED <<hostVars, orphaned>>
       \/ AddsMarket(cmd.src) /\ orphaned' = orphaned \cup {"market"}
    /\ Ends /\ Fault
    /\ UNCHANGED saved

\* The refresh of ensure_marketplace: a marketplace of another local directory
\* is refused.
MarketAgain ==
    /\ pc = "again"
    /\ market # None
    /\ Refreshed
    /\ IF Elsewhere THEN Ends ELSE Reported(market.src, Ensured)
    /\ Own
    /\ UNCHANGED <<saved, orphaned>>

\* The refresh `omm update` begins with: an unknown marketplace is added, one
\* registered from another checkout is registered anew.
MarketRefresh ==
    /\ pc = "refresh"
    /\ \/ market = None /\ Goto("add") /\ UNCHANGED hostVars
       \/ /\ market # None
          /\ Refreshed
          /\ Reported(market.src, IF Elsewhere THEN "unmarket" ELSE "look")
    /\ Own
    /\ UNCHANGED <<saved, orphaned>>

\* A refresh that fails leaves the host as it was.
MarketRefreshFails ==
    /\ pc \in {"refresh", "again"}
    /\ Ends
    /\ Fault \/ (pc = "again" /\ market = None /\ Own)
    /\ UNCHANGED <<hostVars, saved, orphaned>>

MarketRemove ==
    /\ pc = "unmarket"
    /\ DropsMarket
    /\ Goto("dropped")
    /\ Own
    /\ UNCHANGED <<saved, orphaned>>

MarketRemoveFails ==
    /\ pc = "unmarket"
    /\ UNCHANGED hostVars \/ DropsMarket
    /\ Ends /\ Fault
    /\ UNCHANGED <<saved, orphaned>>

ForgetMarket ==
    /\ pc = "dropped"
    /\ saved' = [Known EXCEPT !.market = None]
    /\ cmd' = [cmd EXCEPT !.follow = TRUE]
    /\ pc' = "add"
    /\ Own
    /\ UNCHANGED <<hostVars, orphaned>>

\* set_marketplace_registration and the save that follows the add at once.
RegisterMarket ==
    /\ pc = "register"
    /\ saved' = [Known EXCEPT !.market = cmd.mkt]
    /\ orphaned' = orphaned \ {"market"}
    /\ Goto("look")
    /\ Own
    /\ UNCHANGED hostVars

-----------------------------------------------------------------------------
\* The bundle.

\* Mutant of UpToDate: --reinstall and the digest are not looked at.
UpToDateIfAny == bundle # None /\ Native(bundle.digest)

\* The installed bundle is the one that is offered.
UpToDate ==
    /\ bundle # None
    /\ bundle.digest = market.digest
    /\ Native(bundle.digest)
    /\ ~cmd.flag

\* `plugins list --available` and `plugins list`.
Look ==
    /\ pc = "look"
    /\ market # None
    /\ cmd' = [cmd EXCEPT !.avail = market.digest,
                          !.present = (bundle # None),
                          !.at = IF bundle # None THEN bundle.path ELSE None]
    /\ pc' = IF UpToDate THEN "approve"
             ELSE IF cmd.kind = "update" THEN "preflight"
             ELSE IF bundle # None THEN "remove" ELSE "install"
    /\ Own
    /\ UNCHANGED <<hostVars, saved, orphaned>>

\* Nothing offers the plugin, or a listing fails.
LookFails ==
    /\ pc = "look"
    /\ Ends
    /\ Fault \/ (market = None /\ Own)
    /\ UNCHANGED <<hostVars, saved, orphaned>>

\* Mutant of Proven: the family is not asked for before the removal.
ProvenAnyFamily == cmd.mkt \in Dirs => content[cmd.mkt] = cmd.avail

\* The package a throwaway install from the marketplace's root gets is the one
\* that is offered, and native.
Proven ==
    /\ cmd.mkt \in Dirs => content[cmd.mkt] = cmd.avail
    /\ Native(cmd.avail)

\* Nothing is removed before the replacement has been installed in a sandbox.
Preflight ==
    /\ pc = "preflight"
    /\ Proven
    /\ Goto(IF cmd.present THEN "remove" ELSE "install")
    /\ Own
    /\ UNCHANGED <<hostVars, saved, orphaned>>

PreflightFails ==
    /\ pc = "preflight"
    /\ Ends
    /\ Fault \/ (~Proven /\ Own)
    /\ UNCHANGED <<hostVars, saved, orphaned>>

RemoveBundle ==
    /\ pc = "remove"
    /\ Removes
    /\ Goto("install")
    /\ Own
    /\ UNCHANGED <<saved, orphaned>>

RemoveBundleFails ==
    /\ pc = "remove"
    /\ UNCHANGED hostVars \/ Removes
    /\ Ends /\ Fault
    /\ UNCHANGED <<saved, orphaned>>

\* Where a failed install goes on: an update tries to go back.
AfterFailure == IF cmd.kind = "update" THEN "rollback" ELSE "idle"

\* Mutant of Accepted: the digest is not compared with the listing's.
AcceptedUnlisted == Native(bundle'.digest)

\* What install() requires of the record the host returns.
Accepted == bundle'.digest = cmd.avail /\ Native(bundle'.digest)

InstallBundle ==
    /\ pc = "install"
    /\ market # None
    /\ Installs(PackagePath)
    /\ cmd' = [cmd EXCEPT !.at = PackagePath]
    /\ pc' = IF Accepted THEN "record" ELSE "cleanup"
    /\ Own
    /\ UNCHANGED <<saved, orphaned>>

\* The host refuses (nothing offered, something installed), or is cut off.
InstallBundleFails ==
    /\ pc = "install"
    /\ GotoOrEnd(AfterFailure)
    /\ \/ UNCHANGED <<hostVars, orphaned>>
          /\ (Fault \/ ((bundle # None \/ market = None) /\ Own))
       \/ /\ market # None /\ Installs(PackagePath) /\ Fault
          /\ orphaned' = orphaned \cup {"bundle"}
    /\ UNCHANGED saved

\* A package that is not what was listed is removed again; whether that worked
\* is not looked at.
Cleanup ==
    /\ pc = "cleanup"
    /\ GotoOrEnd(AfterFailure)
    /\ \/ Removes /\ (Own \/ Fault) /\ UNCHANGED orphaned
       \/ UNCHANGED hostVars /\ Fault /\ orphaned' = orphaned \cup {"bundle"}
    /\ UNCHANGED saved

\* The registration as record_registrations makes it.
Recorded(approved) ==
    [market |-> cmd.mkt,
     bundle |-> [digest |-> cmd.avail, path |-> cmd.at, approved |-> approved]]

\* Mutant of RecordBundle: the save is left to the end of the command.
RecordBundleLater ==
    /\ pc = "record"
    /\ Goto("approve")
    /\ Own
    /\ UNCHANGED <<hostVars, saved, orphaned>>

\* The new bundle is ledgered before anything of it is approved.
RecordBundle ==
    /\ pc = "record"
    /\ saved' = Recorded({})
    /\ orphaned' = {}
    /\ Goto("approve")
    /\ Own
    /\ UNCHANGED hostVars

\* Back to the directory the ledger's registration was read from.
OldPath == Known.bundle.path

Rollback ==
    /\ pc = "rollback"
    /\ IsDir(OldPath)
    /\ Installs(OldPath)
    /\ Goto("reapprove")
    /\ Own
    /\ UNCHANGED <<saved, orphaned>>

RollbackFails ==
    /\ pc = "rollback"
    /\ Ends
    /\ \/ UNCHANGED hostVars /\ (Fault \/ ((~IsDir(OldPath) \/ bundle # None) /\ Own))
       \/ IsDir(OldPath) /\ Installs(OldPath) /\ Fault
    /\ UNCHANGED <<saved, orphaned>>

\* What has to be trusted in the end.
Wanted == Caps \ cmd.skip

Trusts(c) ==
    /\ bundle # None
    /\ c \in Wanted \ trusted
    /\ trusted' = trusted \cup {c}
    /\ UNCHANGED <<content, market, gens, bundle>>

Approve(c) ==
    /\ pc \in {"approve", "reapprove"}
    /\ Trusts(c)
    /\ Goto(pc)
    /\ Own
    /\ UNCHANGED <<saved, orphaned>>

\* An approval or a listing fails, or the bundle has gone; after a rollback
\* nobody looks.
ApproveFails ==
    /\ pc \in {"approve", "reapprove", "finish"}
    /\ Ends
    /\ \/ UNCHANGED hostVars /\ (Fault \/ (pc # "finish" /\ bundle = None /\ Own))
       \/ pc # "finish" /\ (\E c \in Caps : Trusts(c)) /\ Fault
    /\ UNCHANGED <<saved, orphaned>>

\* Every capability is literally trusted_enabled afterwards.
Verify ==
    /\ pc \in {"approve", "reapprove"}
    /\ bundle # None
    /\ Wanted \subseteq trusted
    /\ GotoOrEnd(IF pc = "approve" THEN "finish" ELSE "idle")
    /\ Own
    /\ UNCHANGED <<hostVars, saved, orphaned>>

\* The capabilities verify found trusted are recorded, and the command is done.
Finish ==
    /\ pc = "finish"
    /\ saved' = Recorded(Wanted)
    /\ orphaned' = {}
    /\ Ends
    /\ Own
    /\ UNCHANGED hostVars

-----------------------------------------------------------------------------
\* omm uninstall, the host's part of it.

\* What of omm's the ledger registers, and what the host holds.
Registered == {t \in Things : Known[t] # None}
Held == {t \in Things : IF t = "market" THEN market # None ELSE bundle # None}

\* What the host holds beyond the ledger: refused without --reconcile-host.
Beyond == Held \ Registered

\* An uninstall looks at no checkout.
BeginUninstall(flag) ==
    /\ Begin("uninstall", CHOOSE s \in Dirs : TRUE, flag, FALSE)
    /\ pc' = "undo"

\* With a view of the host the plan is what is there, registered or not. Without
\* one (settings.json is malformed and the host lists nothing) it is every
\* registration.
Undoes(blind) == IF blind THEN Registered ELSE Held

PlanUndo(blind) ==
    /\ pc = "undo"
    /\ blind => saved # NoLedger
    /\ IF ~blind /\ Beyond # {} /\ ~cmd.flag
       THEN Ends
       ELSE cmd' = [cmd EXCEPT !.todo = Undoes(blind)] /\ pc' = "undoing"
    /\ IF blind THEN Fault ELSE Own
    /\ UNCHANGED <<hostVars, saved, orphaned>>

\* The bundle goes before the marketplace it came from.
NextUndo == IF "bundle" \in cmd.todo THEN "bundle" ELSE "market"

Undo(t) == IF t = "bundle" THEN Removes ELSE DropsMarket

\* A host step; what is gone already counts as undone.
UndoStep ==
    /\ pc = "undoing" /\ cmd.todo # {}
    /\ Undo(NextUndo)
    /\ cmd' = [cmd EXCEPT !.todo = @ \ {NextUndo}]
    /\ pc' = pc
    /\ Own
    /\ UNCHANGED <<saved, orphaned>>

\* Mutant of Failed: a step that failed is not remembered.
FailedForgotten(c) == [c EXCEPT !.todo = @ \ {NextUndo}]

\* A step that fails is kept for a rerun and the next one is taken; with no
\* ledger to keep it in, the command stops.
Failed(c) == [c EXCEPT !.todo = @ \ {NextUndo}, !.left = @ \cup {NextUndo}]

UndoStepFails ==
    /\ pc = "undoing" /\ cmd.todo # {}
    /\ UNCHANGED hostVars \/ Undo(NextUndo)
    /\ IF saved = NoLedger THEN Ends ELSE cmd' = Failed(cmd) /\ pc' = pc
    /\ Fault
    /\ UNCHANGED <<saved, orphaned>>

\* The ledger goes last, unless a step failed: then it keeps what is left.
Remaining ==
    IF saved = NoLedger \/ cmd.left = {} THEN NoLedger
    ELSE [t \in Things |-> IF t \in cmd.left THEN saved[t] ELSE None]

EndUndo ==
    /\ pc = "undoing" /\ cmd.todo = {}
    /\ saved' = Remaining
    /\ Ends
    /\ Own
    /\ UNCHANGED <<hostVars, orphaned>>

\* `omm reconcile`: the registrations become what the host holds.
Reconcile ==
    /\ pc = "idle"
    /\ "reconcile" \in Commands
    /\ saved # NoLedger \/ bundle # None
    /\ saved' =
        [market |-> IF market # None THEN market.src ELSE None,
         bundle |-> IF bundle = None THEN None
                    ELSE [digest |-> bundle.digest, path |-> bundle.path,
                          approved |-> trusted]]
    /\ orphaned' = {}
    /\ UNCHANGED <<hostVars, pc, cmd, envVars, quiet, clean, before>>

-----------------------------------------------------------------------------
\* The environment.

\* What a command killed here has put on the host and not recorded.
Unrecorded ==
    CASE pc = "register" -> {"market"}
      [] pc \in {"record", "cleanup"} -> {"bundle"}
      [] OTHER -> {}

Kill ==
    /\ pc # "idle" /\ kills < MaxKills
    /\ kills' = kills + 1
    /\ Ends /\ Forgotten
    /\ orphaned' = orphaned \cup Unrecorded
    /\ UNCHANGED <<hostVars, saved, faults, edits>>

User ==
    /\ edits < MaxEdits
    /\ edits' = edits + 1
    /\ clean' = (pc = "idle")
    /\ UNCHANGED <<saved, pc, cmd, faults, kills, before, orphaned>>

\* A checkout, or the remote, moves on.
ContentMoves(s, d) ==
    /\ d # content[s]
    /\ content' = [content EXCEPT ![s] = d]
    /\ User
    /\ UNCHANGED <<market, gens, bundle, trusted, quiet>>

\* The user removes the plugin or the marketplace by hand.
UserRemoves ==
    /\ User
    /\ (bundle # None /\ Removes) \/ (market # None /\ DropsMarket)
    /\ quiet' = (quiet /\ pc = "idle")

Step ==
    \/ MarketAdd \/ MarketAgain \/ MarketRefresh
    \/ MarketRemove \/ ForgetMarket \/ RegisterMarket
    \/ Look \/ Preflight \/ RemoveBundle \/ InstallBundle \/ Cleanup
    \/ RecordBundle \/ Rollback \/ (\E c \in Caps : Approve(c)) \/ Verify \/ Finish
    \/ (\E b \in BOOLEAN : PlanUndo(b)) \/ UndoStep \/ EndUndo

Failure ==
    \/ MarketAddFails \/ MarketRefreshFails \/ MarketRemoveFails
    \/ LookFails \/ PreflightFails \/ RemoveBundleFails \/ InstallBundleFails
    \/ RollbackFails \/ ApproveFails \/ UndoStepFails

Next ==
    \/ Step \/ Failure \/ Kill \/ Reconcile \/ UserRemoves
    \/ \E s \in Dirs, f \in BOOLEAN : BeginInstall(s, f) \/ BeginUpdate(s, f)
    \/ \E f \in BOOLEAN : BeginUninstall(f)
    \/ \E s \in Sources, d \in Digests : ContentMoves(s, d)

\* A command's own steps happen, failing or not; and the user runs install and
\* update from every checkout again and again.
Fairness ==
    /\ WF_vars(Step \/ Failure)
    /\ \A s \in Dirs : SF_vars(BeginInstall(s, FALSE)) /\ SF_vars(BeginUpdate(s, FALSE))

Spec == Init /\ [][Next]_vars /\ Fairness

-----------------------------------------------------------------------------
\* Properties.

Labels == {"idle", "add", "again", "refresh", "unmarket", "dropped", "register",
           "look", "preflight", "remove", "install", "cleanup", "record",
           "rollback", "reapprove", "approve", "finish", "undo", "undoing"}

HostOK ==
    /\ content \in [Sources -> Digests]
    /\ market \in Market \cup {None}
    /\ gens \in Seq(Digests) /\ Len(gens) <= 2
    /\ bundle \in OnHost \cup {None}
    /\ trusted \in SUBSET Caps

CommandOK ==
    /\ pc \in Labels
    /\ cmd \in Command \cup {None}
    /\ pc # "idle" <=> cmd # None
    \* What a step reads has been seen before.
    /\ pc = "register" => cmd.mkt # None
    /\ pc \in {"look", "preflight", "remove", "install", "cleanup", "record",
               "approve", "finish"} => cmd.mkt # None
    /\ pc \in {"preflight", "remove", "install", "cleanup", "record", "approve",
               "finish"} => cmd.avail # None
    /\ pc \in {"cleanup", "record", "approve", "finish"} => cmd.at # None
    /\ pc \in {"refresh", "unmarket", "dropped", "preflight", "rollback", "reapprove"}
        => cmd.kind = "update"
    /\ cmd # None /\ cmd.kind = "update" => Known.bundle # None

CountersOK ==
    /\ faults \in 0 .. MaxFaults /\ kills \in 0 .. MaxKills /\ edits \in 0 .. MaxEdits
    /\ quiet \in BOOLEAN /\ clean \in BOOLEAN
    /\ before \in OnHost \cup {None}
    /\ orphaned \in SUBSET Things

TypeOK ==
    /\ HostOK
    /\ saved \in Ledger \cup {NoLedger}
    /\ CommandOK
    /\ CountersOK

\* The steps between a bundle on the host and its registration.
Unledgered == {"record", "cleanup"}

\* A bundle on the host is one the ledger registers: no path of any command,
\* no failed update and no rollback puts one there that uninstall would not
\* know of, but for a verb cut off, or a kill, between the verb and the save
\* that follows it.
LedgerKnowsBundle ==
    bundle # None =>
        \/ Known.bundle # None
        \/ pc \in Unledgered
        \/ "bundle" \in orphaned

\* An update in which no verb fails and nobody interferes never ends with less
\* than it began with: the bundle is the old one, or the one offered, native.
NeverStranded ==
    [][pc # "idle" /\ pc' = "idle" /\ envVars' = envVars
            /\ cmd.kind = "update" /\ clean /\ before # None =>
        \/ bundle' = before
        \/ bundle' # None /\ bundle'.digest = cmd.avail /\ Native(cmd.avail)]_vars

\* After a complete uninstall in which nothing failed, nothing of omm's is on
\* the host; after any other, what is still there and was registered is
\* registered still.
UninstallLeavesNothing ==
    [][EndUndo /\ quiet =>
        /\ clean => Held = {} /\ saved' = NoLedger
        /\ \A t \in Held \cap Registered : saved' # NoLedger /\ saved'[t] # None]_vars

\* The digest on the host, and the digest in the ledger.
Have == IF bundle = None THEN None ELSE bundle.digest
Know == IF Known.bundle = None THEN None ELSE Known.bundle.digest

Promise == INSTANCE BundlePromise WITH have <- Have, know <- Know

\* What the ledger knows of the bundle follows the host.
KeepsPromise == Promise!Spec

\* The host has the package of its marketplace's source and the ledger says so.
InSync ==
    /\ bundle # None /\ market # None
    /\ bundle.digest = content[market.src]
    /\ Known.bundle # None
    /\ Known.bundle.digest = bundle.digest
    /\ Known.bundle.approved \subseteq trusted

\* The user who keeps running install and update gets there, whatever failed
\* or was killed before, once every source offers a package the host can load;
\* unless the marketplace is another checkout's and the ledger has no bundle,
\* where install asks the user to remove it.
Refused == market # None /\ market.src \in Dirs /\ Known.bundle = None
Converges == <>[](\A s \in Sources : Native(content[s])) => []<>(InSync \/ Refused)
=============================================================================
