----------------------------- MODULE MCUninstall -----------------------------
(***************************************************************************)
(* An instance of Uninstall: one member of the object with a required      *)
(* member, one untyped key and one trusted project.                        *)
(***************************************************************************)
EXTENDS Uninstall, TLC

CONSTANTS mode, version, custom, project

MCPlain == {}
MCMembers == {mode}
MCUntyped == {custom}
MCProjects == {project}

\* Of the installs: those that register the project, and then no plugin; or
\* those that leave trust.json alone, and then there is none.
MCInit ==
    /\ Init
    /\ IF project \in {r.key : r \in saved.regs}
       THEN ~plugin
       ELSE orig["trust"] = NoFile

\* `omm trust` runs where there was no settings.json before omm: what the
\* uninstall does to one file does not depend on the text of the other.
MCNext == Next /\ (pc' = "trust" => orig["settings"] = NoFile)

MCSpec == MCInit /\ [][MCNext]_vars /\ Fairness
=============================================================================
