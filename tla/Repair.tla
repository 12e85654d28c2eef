------------------------------- MODULE Repair -------------------------------
(***************************************************************************)
(* What `omm doctor` says of the ledger (D13) and of the installation      *)
(* (D1), the fix it prints, and what the commands of that fix do           *)
(* (lifecycle.rs). The ledger may be lost or corrupt, files may vanish, be *)
(* edited or lie behind a link, and the user runs the host's verbs and     *)
(* omm's commands by hand.                                                 *)
(*                                                                         *)
(* A command is one step here: how it interleaves with others and what a   *)
(* kill leaves are the matter of the modules of its parts, and what a kill *)
(* leaves is among what the user's steps here can make. One skill, one     *)
(* theme and the rules file stand for the files; the source is at hand and *)
(* does not change; the host's settings.json exists.                       *)
(***************************************************************************)
EXTENDS Naturals, Sequences

CONSTANT MaxFaults   \* bound: what goes wrong

ASSUME RepairAssumption == MaxFaults \in Nat

VARIABLES
    book,     \* omm.lock.json
    files,    \* the files on disk
    kept,     \* the host's lockfile lists the skill
    bundle,   \* the host has omm's plugin
    market,   \* the host has omm's marketplace
    fix,      \* the fix that was printed and is being followed
    faults   \* how often something went wrong

dVars == <<book, files, kept, bundle, market, fix, faults>>

Names == {"skill", "theme", "rules"}

\* Of a file: what is there - what omm writes, that with words of the user's
\* around it, only the user's, nothing - and whether an ancestor is a link.
Gone    == [what |-> "none", at |-> "place"]
Contents(a) == {"ours", "user's"} \cup (IF a = "rules" THEN {"both"} ELSE {})
Present(a) == files[a].what # "none"

NoBook(state) == [state |-> state, plugin |-> FALSE, market |-> FALSE, has |-> {}]
\* What a writing command starts from: a corrupt ledger is moved aside.
Loaded == [book EXCEPT !.state = "loaded"]

NoFix == [todo |-> <<>>, outcome |-> "none", check |-> "none", stacked |-> FALSE]

\* Installed either way, or never.
DInit ==
    /\ \/ /\ book = [state |-> "loaded", plugin |-> TRUE, market |-> TRUE, has |-> {"theme", "rules"}]
          /\ files = [a \in Names |-> IF a = "skill" THEN Gone ELSE [what |-> "ours", at |-> "place"]]
          /\ bundle = TRUE /\ market = TRUE /\ kept = FALSE
       \/ /\ book = [NoBook("loaded") EXCEPT !.has = Names]
          /\ files = [a \in Names |-> [what |-> "ours", at |-> "place"]]
          /\ bundle = FALSE /\ market = FALSE /\ kept = TRUE
       \/ /\ book = NoBook("absent") /\ files = [a \in Names |-> Gone]
          /\ bundle = FALSE /\ market = FALSE /\ kept = FALSE
    /\ fix = NoFix /\ faults = 0

-----------------------------------------------------------------------------
\* doctor.

\* The host lists what has a SKILL.md, edited or not.
ListedByHost == Present("skill")

\* The ledger says how omm is installed and, when it cannot, the host.
Mode ==
    CASE book.state = "loaded" /\ book.plugin -> "bundle"
      [] book.state = "loaded" /\ ~book.plugin /\ "skill" \in book.has -> "managed"
      [] ~(book.state = "loaded" /\ (book.plugin \/ "skill" \in book.has)) ->
           IF bundle THEN "bundle" ELSE IF ListedByHost THEN "managed" ELSE "none"

\* Entries that lead out of the base, entries of files that are gone, files
\* that look like omm's and have no entry.
Escaped  == {a \in book.has : files[a].at = "outside"}
Missing == {a \in book.has : ~Present(a)}
Unlisted == {a \in Names \ book.has : Present(a) /\ (a = "rules" => files[a].what # "user's")}
PluginLost    == book.plugin /\ ~bundle
PluginUnknown == ~book.plugin /\ bundle

\* D13 finds nothing. Without a ledger it looks at what the host holds only.
D13Fine ==
    CASE book.state = "corrupt" -> FALSE
      [] book.state = "absent" -> ~bundle /\ Mode # "managed"
      [] book.state = "loaded" ->
           Escaped \cup Missing \cup Unlisted = {} /\ ~PluginLost /\ ~PluginUnknown

\* D1: the skills the ledger lists are listed by the host, or the plugin is
\* installed. Its capabilities are left out.
D1Fine == IF Mode = "managed" THEN "skill" \in book.has => ListedByHost ELSE bundle

Install == IF Mode = "managed" THEN "install --no-plugin" ELSE "install"

\* What is to be run, by what is needed; reconcile when it is neither.
FixFor(reconcile, install) ==
    IF reconcile /\ install THEN <<"reconcile", Install>>
    ELSE IF install THEN <<Install>> ELSE <<"reconcile">>

\* Mutant of D13Fix: an unlisted file is reconcile's to list.
D13FixReconcileOnly ==
    IF book.state # "loaded" THEN FixFor(TRUE, TRUE)
    ELSE FixFor(Escaped \cup Missing # {} \/ PluginUnknown, Missing # {} \/ PluginLost)

D13Fix ==
    IF book.state # "loaded" THEN FixFor(TRUE, TRUE)
    ELSE FixFor(Escaped \cup Missing # {} \/ PluginUnknown,
                Missing \cup Unlisted # {} \/ PluginLost)

\* A bundle and a managed skill side by side, on the host or in the ledger.
Stacked == (bundle \/ book.plugin) /\ (Present("skill") \/ "skill" \in book.has)

\* The user runs doctor and begins what it says.
Doctor ==
    /\ fix.todo = <<>>
    /\ \/ ~D13Fine /\ fix' = [todo |-> D13Fix, outcome |-> "running", check |-> "D13", stacked |-> Stacked]
       \/ ~D1Fine /\ fix' = [todo |-> <<Install>>, outcome |-> "running", check |-> "D1", stacked |-> Stacked]
    /\ UNCHANGED <<book, files, kept, bundle, market, faults>>

-----------------------------------------------------------------------------
\* The commands. One of a printed fix, or one the user thought of himself.

Turn(cmd) == fix.todo # <<>> => Head(fix.todo) = cmd

Ran == fix' = IF fix.todo = <<>> THEN NoFix
              ELSE [fix EXCEPT !.todo = Tail(@), !.outcome = IF Len(fix.todo) = 1 THEN "ran" ELSE @]
Refused == fix' = IF fix.todo = <<>> THEN NoFix ELSE [fix EXCEPT !.todo = <<>>, !.outcome = "refused"]

\* Of the source, and where and how the host put it.
Adoptable == files["skill"] = [what |-> "ours", at |-> "place"] /\ kept

\* Registrations become what the host holds; entries whose file vanished go,
\* others stay, behind a link or not; the skill becomes omm's.
Reconcile ==
    /\ Turn("reconcile") /\ Ran
    /\ book' = IF book.state # "loaded" /\ ~bundle /\ ~ListedByHost THEN NoBook("absent")
               ELSE LET left == {a \in book.has : Present(a)}
                    IN  [state |-> "loaded", plugin |-> bundle, market |-> market,
                         has |-> left \cup (IF "skill" \notin left /\ Adoptable THEN {"skill"} ELSE {})]
    /\ UNCHANGED <<files, kept, bundle, market, faults>>

\* The ledger is of the other way to install, or a path leads out of the base.
OtherMode(managed) == IF managed THEN book.plugin ELSE "skill" \in book.has
LeadsOut(managed) == \/ files["theme"].at = "outside"
                     \/ managed /\ files["skill"].at = "outside"

\* No entry, and something there that is not the source's to the byte.
Foreign == "skill" \notin book.has /\ Present("skill") /\ files["skill"] # [what |-> "ours", at |-> "place"]

InstallRefused(managed) ==
    /\ OtherMode(managed) \/ LeadsOut(managed)
    /\ Turn(IF managed THEN "install --no-plugin" ELSE "install") /\ Refused
    /\ UNCHANGED <<book, files, kept, bundle, market, faults>>

\* The skill is in the way: the command ends there, with its ledger begun.
InstallStopped ==
    /\ ~OtherMode(TRUE) /\ ~LeadsOut(TRUE) /\ Foreign
    /\ Turn("install --no-plugin") /\ Refused
    /\ book' = Loaded
    /\ UNCHANGED <<files, kept, bundle, market, faults>>

\* A file that is gone is written, and the user's rules file gets omm's block.
\* Nothing is written through a link, and a theme that differs is left.
Put(a) ==
    CASE ~Present(a) -> [what |-> "ours", at |-> "place"]
      [] a = "rules" /\ "rules" \notin book.has /\ files[a] = [what |-> "user's", at |-> "place"] ->
            [what |-> "both", at |-> "place"]
      [] OTHER -> files[a]

\* The files it wrote, or found as it would write them.
Entered == {a \in {"theme", "rules"} :
               \/ ~Present(a)
               \/ files[a].at = "place" /\ (a = "theme" => files[a].what = "ours")}

InstallBundle ==
    /\ ~OtherMode(FALSE) /\ ~LeadsOut(FALSE)
    /\ Turn("install") /\ Ran
    /\ bundle' = TRUE /\ market' = TRUE
    /\ files' = [files EXCEPT !["theme"] = Put("theme"), !["rules"] = Put("rules")]
    /\ book' = [state |-> "loaded", plugin |-> TRUE, market |-> TRUE, has |-> book.has \cup Entered]
    /\ UNCHANGED <<kept, faults>>

InstallManaged ==
    /\ ~OtherMode(TRUE) /\ ~LeadsOut(TRUE) /\ ~Foreign
    /\ Turn("install --no-plugin") /\ Ran
    /\ files' = [a \in Names |-> Put(a)]
    /\ kept' = (kept \/ "skill" \notin book.has \/ ~Present("skill"))
    /\ book' = [Loaded EXCEPT !.has = @ \cup Entered \cup {"skill"}]
    /\ UNCHANGED <<bundle, market, faults>>

-----------------------------------------------------------------------------
\* What goes wrong. It ends the following of a fix.

Fault ==
    /\ faults < MaxFaults /\ faults' = faults + 1
    /\ fix' = NoFix

LedgerLost ==
    /\ Fault /\ book.state = "loaded"
    /\ book' \in {NoBook("absent"), NoBook("corrupt")}
    /\ UNCHANGED <<files, kept, bundle, market>>

FileChanged ==
    /\ Fault
    /\ \E a \in Names :
        \/ Present(a) /\ files' = [files EXCEPT ![a] = Gone]
        \/ \E c \in Contents(a) : files' = [files EXCEPT ![a].what = c]
        \/ Present(a) /\ \E at \in {"place", "link", "outside"} : files' = [files EXCEPT ![a].at = at]
    /\ UNCHANGED <<book, kept, bundle, market>>

HostChanged ==
    /\ Fault
    /\ \/ bundle' = FALSE /\ UNCHANGED <<files, kept, market>>
       \/ market /\ bundle' = TRUE /\ UNCHANGED <<files, kept, market>>
       \/ market' = FALSE /\ UNCHANGED <<files, kept, bundle>>
       \/ ~Present("skill") /\ files' = [files EXCEPT !["skill"] = [what |-> "ours", at |-> "place"]]
          /\ kept' = TRUE /\ UNCHANGED <<bundle, market>>
       \/ kept /\ files' = [files EXCEPT !["skill"] = Gone]
          /\ kept' = FALSE /\ UNCHANGED <<bundle, market>>
    /\ UNCHANGED book

DNext ==
    \/ Doctor \/ Reconcile \/ InstallStopped \/ InstallBundle \/ InstallManaged
    \/ \E managed \in BOOLEAN : InstallRefused(managed)
    \/ LedgerLost \/ FileChanged \/ HostChanged

RepairSpec == DInit /\ [][DNext]_dVars

-----------------------------------------------------------------------------
\* Properties.

\* What omm leaves to the user: what lies behind a link, and what he wrote
\* himself under a name of omm's.
Left(a) == files[a].at # "place" \/ files[a].what = "user's"

\* A printed fix heals: when its commands have run, the check that printed it
\* finds nothing that omm could mend, and none of them was refused, but for
\* what the user put in the way; and it puts no bundle beside managed skills.
FixHeals ==
    \/ fix.stacked
    \/ /\ fix.outcome = "ran" /\ fix.check = "D13" =>
            /\ book.state = "loaded" /\ ~PluginLost /\ ~PluginUnknown
            /\ \A a \in Escaped \cup Missing \cup Unlisted : Left(a)
       /\ fix.outcome = "ran" /\ fix.check = "D1" => D1Fine
       /\ fix.outcome = "refused" => \E a \in Names \ {"rules"} : Left(a)
       /\ fix.outcome # "none" => ~Stacked
=============================================================================
