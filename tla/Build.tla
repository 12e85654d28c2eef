------------------------------- MODULE Build -------------------------------
(***************************************************************************)
(* `omm build` and `omm build --check` (crates/omm-manifest, and           *)
(* crates/omm/src/cmd/inspect.rs): the checkout's content/ is linted,      *)
(* loaded and rendered into three packages and three marketplace catalogs, *)
(* which are committed beside it; the check renders again and compares.    *)
(*                                                                         *)
(* A build reads content/ piece by piece and asks the host for a digest    *)
(* while the author goes on editing, writes seven things one after the     *)
(* other, and may fail or be killed at each. One skill with one file       *)
(* beside it and one declaration (a hook or a server) stand for the        *)
(* content.                                                                *)
(***************************************************************************)
EXTENDS Naturals, Sequences

CONSTANT MaxEvents   \* bound: edits of the author, damage and kills

ASSUME BuildAssumption == MaxEvents \in Nat

VARIABLES
    src,       \* content/ and the crate's version
    out,       \* the committed trees, one per tool: paths to files
    markets,   \* the committed marketplace catalogs
    build,     \* the build that runs: its step and what it has in memory
    verdict,   \* what `omm build --check` said of what is committed
    events,    \* how many events there were
    settled    \* history: the last build to write came to its end on content
               \* nobody edited since it began, and nothing has changed since
               \* but the version

bVars == <<src, out, markets, build, verdict, events, settled>>

Tools == {"native", "claude", "codex"}

\* In the order in which a build writes them; "old" is in no package.
Paths == <<"manifest", "declared", "skill", "ref", "old">>
PathSet == {Paths[i] : i \in 1..Len(Paths)}

NoFile == <<>>
Link    == <<"link">>
NoTree  == [p \in PathSet |-> NoFile]

-----------------------------------------------------------------------------
\* The content. catalog.json has the author's rows and omm's numbers, the
\* skill a description that costs bytes in the host's catalog.

Number(skill) == CASE skill = "a" -> 1 [] skill = "b" -> 2
                   [] skill = "long" -> 9 [] skill = "bad" -> 1
BudgetLimit == 8

SymlinkFound(s)   == s.stray = "link"
Unclaimed(s)      == s.stray = "orphan"
BadDeclaration(s) == s.declared = "bad"
Problems(s) == SymlinkFound(s) \/ Unclaimed(s) \/ BadDeclaration(s)

OverBudget(s)  == Number(s.skill) > BudgetLimit
HostRefuses(s) == s.skill = "bad"
LintRefuses(s) == Problems(s) \/ OverBudget(s) \/ HostRefuses(s)

-----------------------------------------------------------------------------
\* The packages, of what was loaded and of files read when rendered. The
\* projections have SKILL.md as it was loaded, the native package copies it.

Tree(manifest, declared, skill, ref) ==
    [p \in PathSet |-> CASE p = "manifest" -> manifest [] p = "declared" -> declared
                         [] p = "skill" -> <<skill>> [] p = "ref" -> ref
                         [] p = "old" -> NoFile]

NativePkg(loaded, now, version) ==
    Tree(<<version, loaded.row, loaded.declared>>, NoFile, now.skill,
         IF loaded.ref = NoFile THEN NoFile ELSE now.ref)
ClaudePkg(loaded, now, version) ==
    Tree(<<version>>, <<loaded.declared>>, loaded.skill,
         IF loaded.ref = NoFile THEN NoFile ELSE now.ref)
CodexPkg(loaded, now, version) ==
    Tree(<<version, "server">>, <<loaded.declared>>, loaded.skill,
         IF loaded.ref = NoFile THEN NoFile ELSE now.ref)

\* The host's digest is of the whole package.
Digest(tree) == tree
NoDigest == [p \in PathSet |-> Link]

\* A checkout as a build leaves it.
FirstContent == [skill |-> "a", ref |-> <<"a">>, declared |-> "a", row |-> "a",
                 number |-> 1, stray |-> "none", version |-> "1"]
NoBuild == [at |-> "idle", loaded |-> FirstContent, version |-> "none",
            pkg |-> [t \in Tools |-> NoTree], digest |-> NoDigest,
            catalog |-> [row |-> "a", number |-> 1], calm |-> TRUE]
BInit ==
    LET c == FirstContent
    IN  /\ src = c
        /\ out = [native |-> NativePkg(c, c, "1"), claude |-> ClaudePkg(c, c, "1"),
                  codex |-> CodexPkg(c, c, "1")]
        /\ markets = [native |-> [version |-> "1", digest |-> Digest(NativePkg(c, c, "1"))],
                      claude |-> "1", codex |-> "1"]
        /\ build = NoBuild /\ verdict = "none" /\ events = 0 /\ settled = TRUE

-----------------------------------------------------------------------------
\* `omm build --check`: render now, with the version that is committed.

\* Mutant of CommittedVersion: the crate's.
CommittedVersionOfCrate == src.version
CommittedVersion ==
    IF Len(out.native["manifest"]) = 3 THEN out.native["manifest"][1] ELSE src.version

\* A tree with a link in it is an error, and no verdict.
Readable(tree) == \A p \in PathSet : tree[p] # Link

\* Mutant of Differs: what is committed and not generated goes unseen.
DiffersInGenerated(generated, committed) ==
    \E p \in PathSet : generated[p] # NoFile /\ committed[p] # generated[p]
Differs(generated, committed) ==
    \E p \in PathSet : committed[p] # generated[p]

CatalogsDiffer(native, version) ==
    markets # [native |-> [version |-> version, digest |-> Digest(native)],
              claude |-> version, codex |-> version]

Clean ==
    LET v == CommittedVersion
        native == NativePkg(src, src, v)
    IN  /\ ~Problems(src)
        /\ \A t \in Tools : Readable(out[t])
        /\ ~Differs(native, out.native)
        /\ ~Differs(ClaudePkg(src, src, v), out.claude)
        /\ ~Differs(CodexPkg(src, src, v), out.codex)
        /\ ~CatalogsDiffer(native, v)
        /\ src.number = Number(src.skill)

Check ==
    /\ verdict = "none" /\ verdict' = IF Clean THEN "clean" ELSE "drift"
    /\ UNCHANGED <<src, out, markets, build, events, settled>>

-----------------------------------------------------------------------------
\* `omm build`.

At(step) == build.at = step
To(step) == build' = [build EXCEPT !.at = step]
Keeps == UNCHANGED <<src, out, markets, events, settled>>

\* A step that errs, or a dry run that has said what it would write.
Stops == build' = NoBuild /\ UNCHANGED <<src, out, markets, events, settled>>

Lint ==
    /\ At("idle") /\ ~LintRefuses(src)
    /\ build' = [NoBuild EXCEPT !.at = "load"] /\ Keeps

\* Everything is read a second time.
Load ==
    /\ At("load")
    /\ IF Problems(src) THEN Stops
       ELSE build' = [build EXCEPT !.at = "native", !.loaded = src] /\ Keeps

\* A file that was there when the content was loaded and is gone now.
FileGone == build.loaded.ref # NoFile /\ src.ref = NoFile

RenderNative ==
    /\ At("native")
    /\ IF FileGone THEN Stops
       ELSE /\ build' = [build EXCEPT !.at = "claude", !.version = src.version,
                         !.pkg = [native |-> NativePkg(build.loaded, src, src.version),
                                  claude |-> NoTree, codex |-> NoTree]]
            /\ Keeps

RenderClaude ==
    /\ At("claude")
    /\ IF FileGone THEN Stops
       ELSE /\ build' = [build EXCEPT !.at = "codex",
                         !.pkg.claude = ClaudePkg(build.loaded, src, build.version)]
            /\ Keeps

RenderCodex ==
    /\ At("codex")
    /\ IF FileGone THEN Stops
       ELSE /\ build' = [build EXCEPT !.at = "digest",
                         !.pkg.codex = CodexPkg(build.loaded, src, build.version)]
            /\ Keeps

\* The host is given the package in a sandbox; it may fail.
AskDigest ==
    /\ At("digest")
    /\ \/ build' = [build EXCEPT !.at = "refresh", !.digest = Digest(build.pkg.native)] /\ Keeps
       \/ Stops

\* catalog.json as it is now, with the numbers of what was loaded.
RefreshCatalog ==
    /\ At("refresh")
    /\ build' = [build EXCEPT !.at = "write native",
                 !.catalog = [row |-> src.row, number |-> Number(build.loaded.skill)]]
    /\ Keeps

DryRun == At("write native") /\ Stops

\* First what is not in the package goes, and links; then files are written
\* in order, `n` of them.
Leftovers(tree, pkg) == {p \in PathSet : tree[p] = Link \/ pkg[p] = NoFile}
Swept(tree, gone) == [p \in PathSet |-> IF p \in gone THEN NoFile ELSE tree[p]]
Laid(tree, pkg, n) ==
    [p \in PathSet |-> IF pkg[p] # NoFile /\ \E i \in 1..n : Paths[i] = p THEN pkg[p] ELSE tree[p]]

Writing == [native |-> "write native", claude |-> "write claude", codex |-> "write codex"]

WriteTree(t, next) ==
    /\ At(Writing[t])
    /\ out' = [out EXCEPT ![t] = Laid(Swept(@, Leftovers(@, build.pkg[t])), build.pkg[t], Len(Paths))]
    /\ settled' = FALSE
    /\ To(next) /\ UNCHANGED <<src, markets, events>>

WriteMarket ==
    /\ \/ /\ At("market native") /\ To("market codex")
          /\ markets' = [markets EXCEPT !.native = [version |-> build.version, digest |-> build.digest]]
       \/ /\ At("market codex") /\ To("market claude")
          /\ markets' = [markets EXCEPT !.codex = build.version]
       \/ /\ At("market claude") /\ To("catalog")
          /\ markets' = [markets EXCEPT !.claude = build.version]
    /\ UNCHANGED <<src, out, events, settled>>

\* The author's file, written as it was when the numbers were put in.
WriteCatalog ==
    /\ At("catalog")
    /\ src' = [src EXCEPT !.row = build.catalog.row, !.number = build.catalog.number]
    /\ settled' = build.calm
    /\ build' = NoBuild /\ UNCHANGED <<out, markets, events>>

Event == events < MaxEvents /\ events' = events + 1

\* Killed, at any point.
Kill ==
    /\ ~At("idle") /\ Event /\ build' = NoBuild
    /\ \/ UNCHANGED <<out, settled>>
       \/ \E t \in Tools :
            /\ At(Writing[t]) /\ settled' = FALSE
            /\ LET left == Leftovers(out[t], build.pkg[t])
               IN  \/ \E gone \in SUBSET left : out' = [out EXCEPT ![t] = Swept(@, gone)]
                   \/ \E n \in 1..(Len(Paths) - 1) :
                        out' = [out EXCEPT ![t] = Laid(Swept(@, left), build.pkg[t], n)]
    /\ UNCHANGED <<src, markets>>

-----------------------------------------------------------------------------
\* The author, and what befalls the committed files.

AuthorEdits ==
    /\ Event
    /\ \/ \E w \in {"a", "b", "long", "bad"} : src' = [src EXCEPT !.skill = w]
       \/ \E f \in {NoFile, <<"a">>, <<"b">>} : src' = [src EXCEPT !.ref = f]
       \/ \E w \in {"a", "b", "bad"} : src' = [src EXCEPT !.declared = w]
       \/ \E w \in {"a", "b"} : src' = [src EXCEPT !.row = w]
       \/ \E n \in {1, 2} : src' = [src EXCEPT !.number = n]
       \/ \E x \in {"none", "orphan", "link"} : src' = [src EXCEPT !.stray = x]
    /\ src' # src
    /\ settled' = FALSE /\ build' = [build EXCEPT !.calm = FALSE]
    /\ UNCHANGED <<out, markets>>

\* A bump of the version alone is not a change of the content.
Bump ==
    /\ Event
    /\ src' = [src EXCEPT !.version = IF @ = "1" THEN "2" ELSE "1"]
    /\ UNCHANGED <<out, markets, build, settled>>

\* By hand, by a merge, by a checkout that turned files into links.
Damage ==
    /\ Event
    /\ \/ \E t \in Tools, p \in PathSet, f \in {NoFile, Link, <<"x">>} :
            out' = [out EXCEPT ![t][p] = f] /\ UNCHANGED markets
       \/ /\ \/ markets' = [markets EXCEPT !.native = [version |-> "none", digest |-> NoDigest]]
             \/ \E t \in {"claude", "codex"} : markets' = [markets EXCEPT ![t] = "none"]
          /\ UNCHANGED out
    /\ settled' = FALSE /\ build' = [build EXCEPT !.calm = FALSE]
    /\ UNCHANGED src

Step ==
    \/ Lint \/ Load \/ RenderNative \/ RenderClaude \/ RenderCodex \/ AskDigest \/ RefreshCatalog
    \/ DryRun \/ WriteTree("native", "write claude") \/ WriteTree("claude", "write codex")
    \/ WriteTree("codex", "market native") \/ WriteMarket \/ WriteCatalog
    \/ Kill \/ AuthorEdits \/ Bump \/ Damage

\* A verdict is of the files it was given on.
BNext ==
    \/ Check
    \/ Step /\ verdict' = IF <<src, out, markets>>' = <<src, out, markets>> THEN verdict ELSE "none"

BuildSpec == BInit /\ [][BNext]_bVars

-----------------------------------------------------------------------------
\* Properties.

\* What the host makes of the checkout: it installs the native package if it is
\* whole and digests to what marketplace.json says.
HostInstalls == Readable(out.native) /\ Digest(out.native) = markets.native.digest

\* What passes `omm build --check` can be installed, and gives the users of the
\* three tools the same, present content at one version - whatever build was
\* killed or edited into before.
CleanInstalls ==
    verdict = "clean" =>
      /\ HostInstalls
      /\ \A t \in Tools : /\ out[t]["skill"] = <<src.skill>> /\ out[t]["ref"] = src.ref
                          /\ out[t]["old"] = NoFile
                          /\ out[t]["manifest"][1] = markets.native.version
      /\ markets.claude = markets.native.version /\ markets.codex = markets.native.version

\* A build that came to its end on content nobody edited meanwhile leaves a
\* checkout that passes the check, that passes the lint, and that the host can
\* install - and a bump of the version changes none of it.
BuildSettles ==
    settled /\ verdict # "none" => verdict = "clean" /\ ~LintRefuses(src) /\ HostInstalls
=============================================================================
