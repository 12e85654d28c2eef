----------------------------- MODULE Containment -----------------------------
(***************************************************************************)
(* Where a path leads (omm-ledger/src/containment.rs): the config root of  *)
(* the host on a disk whose directories and files the user may replace,    *)
(* also by links, into the root and out of it, dangling and in circles.    *)
(* omm installs files under it, update plans and then overwrites them, and *)
(* uninstall plans and then removes them one by one. Two other readers     *)
(* decide the same question for themselves: the manifest's and doctor's.   *)
(*                                                                         *)
(* A path is a sequence of names from the root of the disk. A file is      *)
(* resolved and written in one step; module Assets has how commands and    *)
(* releases race for its content.                                          *)
(***************************************************************************)
EXTENDS Naturals, SequencesExt

CONSTANTS
    Places,                      \* the paths of the disk that are told apart
    ConfigRoot, Home, OmmRoot,   \* the roots, as the environment names them
    Wanted,                      \* the relative paths of omm's files
    Asked,                       \* those the three readers are asked about
    Movable, Targets,            \* what the user replaces; where his links lead
    MaxMoves                     \* bound: how often he does

Paths == Seq(STRING)

\* A path is valid if it is relative and never leads up.
Valid(rel) == rel # <<>> /\ ".." \notin Range(rel)

\* With a place those above it are told apart, and no name of a disk is `..'.
\* The files of omm are named by the manifest, whose grammar refuses the rest.
ASSUME ContainmentAssumption ==
    /\ Places \subseteq Paths /\ Targets \subseteq Paths /\ ConfigRoot \in Paths
    /\ <<>> \in Places /\ Movable \subseteq Places \ {<<>>}
    /\ \A p \in Places \ {<<>>} : Front(p) \in Places /\ Last(p) # ".."
    /\ \A rel \in Wanted : rel \in Paths /\ Valid(rel)
    /\ Wanted \subseteq Asked /\ MaxMoves \in Nat

VARIABLES
    tree,      \* what is at each place
    version,   \* the bytes omm ships now, for every one of its files
    entries,   \* the ledger: relative paths,
    hash,      \* and for each of them the hash of omm's bytes
    merging,   \* the update under way: files to overwrite, and those to record
    going,     \* the uninstall under way, and what its plan says
    own,       \* history: the relative paths at which omm wrote or adopted
    fresh,     \* history: those written since the user last changed anything
    swapped,   \* history: a link was made while an uninstall was under way
    moves      \* how often the user changed the disk

cVars == <<tree, version, entries, hash, merging, going, own, fresh, swapped, moves>>

Node(kind, bytes, to) == [kind |-> kind, bytes |-> bytes, to |-> to]
Vacant == Node("none", "nothing", <<>>)
Directory == Node("dir", "nothing", <<>>)
FileOf(bytes) == Node("file", bytes, <<>>)
LinkTo(path) == Node("link", "nothing", path)

NotGoing == [on |-> FALSE, root |-> <<>>, todo |-> {}, missing |-> {},
             left |-> {}, touched |-> {}, failed |-> FALSE]
NotMerging == [on |-> FALSE, todo |-> {}, done |-> {}]

\* One command at a time.
Idle == ~going.on /\ ~merging.on

-----------------------------------------------------------------------------
\* The disk. A path is walked name by name, following links.

NodeAt(p) == IF p \in Places THEN tree[p] ELSE Vacant

\* Bound: the links of one walk; a circle ends there.
MaxLinks == 4

\* canonicalize: the real path, or why there is none.
Follow(path) ==
    LET walk[s \in [at : Seq(STRING), todo : Seq(STRING), links : 0..MaxLinks]] ==
            LET next == Append(s.at, Head(s.todo))
                node == NodeAt(next)
            IN  IF s.todo = <<>> THEN [at |-> s.at, fails |-> "nothing"]
                ELSE IF Head(s.todo) = ".."
                     THEN walk[[s EXCEPT !.at = IF @ = <<>> THEN @ ELSE Front(@), !.todo = Tail(@)]]
                ELSE IF node.kind = "none" THEN [at |-> s.at, fails |-> "missing"]
                ELSE IF node.kind = "link" THEN
                     IF s.links = 0 THEN [at |-> s.at, fails |-> "other"]
                     ELSE walk[[at |-> <<>>, todo |-> node.to \o Tail(s.todo), links |-> s.links - 1]]
                ELSE IF node.kind = "file" /\ Len(s.todo) > 1 THEN [at |-> s.at, fails |-> "other"]
                ELSE walk[[s EXCEPT !.at = next, !.todo = Tail(@)]]
    IN  walk[[at |-> <<>>, todo |-> path, links |-> MaxLinks]]

Found(path) == Follow(path).fails = "nothing"
Real(path) == Follow(path).at

\* lstat: the last name is not followed.
KindIn(up, name) ==
    CASE up.fails # "nothing" -> up.fails
      [] up.fails = "nothing" /\ NodeAt(up.at).kind = "file" -> "other"
      [] OTHER -> LET kind == NodeAt(Append(up.at, name)).kind
                  IN  IF kind = "none" THEN "missing" ELSE kind
Lstat(path) == IF path = <<>> THEN "dir" ELSE KindIn(Follow(Front(path)), Last(path))

-----------------------------------------------------------------------------
\* The ledger's resolver.

RealOr(to, path) == IF to.fails = "nothing" THEN to.at ELSE path
RefusedRoots == {<<>>} \cup {RealOr(Follow(r), r) : r \in {Home, ConfigRoot, OmmRoot}}

\* Strictly inside the root.
Checked(root, path) ==
    IF ~IsPrefix(root, path) THEN "escape"
    ELSE IF path = root \/ path \in RefusedRoots THEN "refused" ELSE "ok"

\* Mutant of Via: only the nearest directory is looked at.
ViaRoot(root, rel) == FALSE

\* One of the directories above is a link now.
Via(root, rel) == \E k \in 1..(Len(rel) - 1) : Lstat(root \o SubSeq(rel, 1, k)) = "link"

Answer(says, path, state, via) == [says |-> says, path |-> path, state |-> state, via |-> via]
Refusal(says) == Answer(says, <<>>, "none", FALSE)

\* Of what is not there: its nearest directory that is.
Deepest(root, rel) ==
    CHOOSE k \in 0..(Len(rel) - 1) :
        /\ Lstat(root \o SubSeq(rel, 1, k)) # "missing"
        /\ \A j \in (k + 1)..(Len(rel) - 1) : Lstat(root \o SubSeq(rel, 1, j)) = "missing"

\* A path, and what the check says of it.
Judged(root, path) == [path |-> path, says |-> Checked(root, path)]

\* Behind links that lead out of the root it is refused, not missing.
Under(root, above, rest) ==
    CASE above.fails # "nothing" -> [path |-> rest, says |-> "refused"]
      [] above.fails = "nothing" /\ above.at # root /\ Checked(root, above.at) # "ok" ->
           Judged(root, above.at)
      [] OTHER -> Judged(root, above.at \o rest)
Beneath(root, rel) ==
    LET k == Deepest(root, rel)
    IN  Under(root, Follow(root \o SubSeq(rel, 1, k)), SubSeq(rel, k + 1, Len(rel)))

\* A link is its own place; what it leads to does not matter.
Aim(root, rel, state) ==
    CASE state = "missing" -> Beneath(root, rel)
      [] state = "link" ->
           Judged(root, Append(Real(Front(root \o rel)), Last(root \o rel)))
      [] OTHER -> Judged(root, Real(root \o rel))

Told(aim, state, via) ==
    IF aim.says = "ok" THEN Answer("ok", aim.path, state, via) ELSE Refusal(aim.says)

ResolveIn(root, rel, state) ==
    IF state = "other" THEN Refusal("refused")
    ELSE Told(Aim(root, rel, state), state, Via(root, rel))

\* Nothing is looked for in a root that is missing, the disk's, or the home.
ResolveFrom(base, rel) ==
    IF base.fails # "nothing" \/ base.at = <<>> \/ Follow(Home) = base THEN Refusal("refused")
    ELSE ResolveIn(base.at, rel, Lstat(base.at \o rel))
Resolve(rel) == ResolveFrom(Follow(ConfigRoot), rel)

\* Mutant of Probe: what is not there yet is not resolved.
ProbeByName(rel) ==
    IF Lstat(ConfigRoot \o rel) # "missing" THEN Resolve(rel)
    ELSE Answer("ok", ConfigRoot \o rel, "missing", FALSE)

\* A first install: the root is not there yet.
Probe(rel) ==
    IF Found(ConfigRoot) THEN Resolve(rel)
    ELSE Answer("ok", ConfigRoot \o rel, "missing", FALSE)

-----------------------------------------------------------------------------
\* The other readers.

\* The manifest's, for what exists: the real path, or nothing.
Contained(root, path) ==
    IF Found(path) /\ IsPrefix(root, Real(path)) THEN {Real(path)} ELSE {}

\* Mutant of ContainedPath: a link is taken for what it is called.
ContainedPathByName(rel) ==
    IF ~Valid(rel) THEN "escaped" ELSE IF Found(ConfigRoot \o rel) THEN "there" ELSE "vanished"

\* Doctor's, as D13 words it.
ContainedPath(rel) ==
    IF ~Valid(rel) THEN "escaped"
    ELSE IF ~Found(ConfigRoot \o rel) THEN "vanished"
    ELSE IF IsPrefix(Real(ConfigRoot), Real(ConfigRoot \o rel)) THEN "there" ELSE "escaped"

-----------------------------------------------------------------------------
\* install and update.

\* The disk with the file and the directories above it, where they can be made.
WithFile(path) ==
    LET k == CHOOSE k \in 0..(Len(path) - 1) :
                 /\ Found(SubSeq(path, 1, k))
                 /\ \A j \in (k + 1)..(Len(path) - 1) : ~Found(SubSeq(path, 1, j))
        at == Real(SubSeq(path, 1, k))
        whole == at \o SubSeq(path, k + 1, Len(path))
    IN  {[p \in Places |->
             IF p = whole THEN FileOf(version)
             ELSE IF IsStrictPrefix(at, p) /\ IsStrictPrefix(p, whole) THEN Directory ELSE tree[p]] :
         w \in {x \in {whole} : /\ x \in Places /\ NodeAt(at).kind = "dir"
                                /\ NodeAt(Append(at, path[k + 1])).kind = "none"}}

Written(r) ==
    IF r.state = "missing" THEN WithFile(r.path)
    ELSE {[tree EXCEPT ![r.path] = FileOf(version)]}

\* Omm's bytes then, omm's bytes now, and what is on disk.
Verdict(rel, r) ==
    LET known == rel \in entries
        bytes == NodeAt(r.path).bytes
    IN  CASE known /\ hash[rel] = version -> "noop"
          [] ~known /\ r.state = "missing" -> "overwrite"
          [] r.state = "file" /\ known /\ hash[rel] # version /\ bytes = hash[rel] -> "overwrite"
          [] r.state = "file" /\ bytes = version /\ (known => hash[rel] # version) -> "adopt"
          [] OTHER -> "stage"

\* Never through a link; a file that is gone is written again whatever the
\* ledger says. The ledger first, then the file: a kill or a failure leaves the
\* entry alone.
InstallFile(rel) ==
    /\ Idle
    /\ \E r \in {Probe(rel)} :
       /\ r.says = "ok" /\ ~r.via
       /\ \/ /\ r.state = "missing" \/ (r.state = "file" /\ Verdict(rel, r) = "overwrite")
             /\ tree' \in {tree} \cup Written(r)
             /\ fresh' = IF tree' = tree THEN fresh ELSE fresh \cup {rel}
          \/ /\ r.state = "file" /\ Verdict(rel, r) = "adopt"
             /\ UNCHANGED <<tree, fresh>>
    /\ entries' = entries \cup {rel}
    /\ hash' = [hash EXCEPT ![rel] = version]
    /\ own' = own \cup {rel}
    /\ UNCHANGED <<version, merging, going, swapped, moves>>

\* Every file is decided about, through links as well; one that cannot be
\* resolved and nothing is done at all. An update needs a ledger, and one that
\* finds nothing to do changes nothing.
PlanMerge ==
    /\ Idle /\ entries # {}
    /\ \E at \in {[e \in Wanted |-> Resolve(e)]} :
       /\ \A e \in Wanted : at[e].says = "ok"
       /\ merging' = [on |-> TRUE,
                      todo |-> {e \in Wanted : Verdict(e, at[e]) = "overwrite"},
                      done |-> {e \in Wanted : Verdict(e, at[e]) = "adopt"}]
       /\ merging'.todo \cup merging'.done # {}
    /\ UNCHANGED <<tree, version, entries, hash, going, own, fresh, swapped, moves>>

\* Resolved once more, but neither what is there nor a link above it is looked
\* at again.
MergeFile(rel) ==
    /\ merging.on /\ rel \in merging.todo
    /\ \E r \in {Resolve(rel)} :
       /\ r.says = "ok" /\ r.state \in {"missing", "file"}
       /\ tree' \in Written(r)
       /\ fresh' = IF r.via THEN fresh \ {rel} ELSE fresh \cup {rel}
    /\ merging' = [merging EXCEPT !.todo = @ \ {rel}, !.done = @ \cup {rel}]
    /\ own' = own \cup {rel}
    /\ UNCHANGED <<version, entries, hash, going, swapped, moves>>

\* The ledger, last.
EndMerge ==
    /\ merging.on /\ merging.todo = {}
    /\ entries' = entries \cup merging.done
    /\ hash' = [e \in Wanted |-> IF e \in merging.done THEN version ELSE hash[e]]
    /\ own' = own \cup merging.done
    /\ merging' = NotMerging
    /\ UNCHANGED <<tree, version, going, fresh, swapped, moves>>

\* A kill, a path that is refused now, or a write that fails: the ledger is not
\* saved.
MergeStops ==
    /\ merging.on
    /\ merging' = NotMerging
    /\ UNCHANGED <<tree, version, entries, hash, going, own, fresh, swapped, moves>>

NewVersion ==
    /\ Idle /\ version = "omm"
    /\ version' = "newer"
    /\ UNCHANGED <<tree, entries, hash, merging, going, own, fresh, swapped, moves>>

-----------------------------------------------------------------------------
\* uninstall.

\* The plan for one entry: its file goes, is gone or stays, or nothing is done
\* at all.
Fate(e, r, force) ==
    CASE r.says = "escape" -> "stays"
      [] r.says = "refused" -> IF Follow(ConfigRoot).fails = "missing" THEN "gone" ELSE "refused"
      [] r.says = "ok" ->
           IF r.via THEN "stays"
           ELSE IF r.state = "missing" THEN "gone"
           ELSE IF r.state = "file" /\ (force \/ NodeAt(r.path).bytes = hash[e]) THEN "goes"
           ELSE "stays"

PlanRemoval(force) ==
    /\ Idle /\ entries # {}
    /\ \E at \in {[e \in entries |-> Resolve(e)]} :
       /\ \A e \in entries : Fate(e, at[e], force) # "refused"
       /\ going' = [NotGoing EXCEPT
            !.on = TRUE, !.root = Real(ConfigRoot), !.left = entries,
            !.todo = {[rel |-> e, path |-> at[e].path, bytes |-> NodeAt(at[e].path).bytes] :
                      e \in {f \in entries : Fate(f, at[f], force) = "goes"}},
            !.missing = {e \in entries : Fate(e, at[e], force) = "gone"}]
    /\ swapped' = FALSE /\ fresh' = {}
    /\ UNCHANGED <<tree, version, entries, hash, merging, own, moves>>

\* Deepest first, looked at again right before it goes. An edited file goes
\* when that was asked for, however it was edited again.
Take(s) ==
    LET here == Lstat(s.path)
        place == Append(Real(Front(s.path)), Last(s.path))
        same == here = "file" /\ (NodeAt(place).bytes = s.bytes \/ s.bytes # hash[s.rel])
        refused == s.path \in RefusedRoots
    IN  /\ s \in going.todo
        /\ \A o \in going.todo : Len(o.path) <= Len(s.path)
        /\ tree' = IF same /\ ~refused THEN [tree EXCEPT ![place] = Vacant] ELSE tree
        /\ going' =
             IF same /\ refused THEN NotGoing
             ELSE [going EXCEPT
                     !.todo = @ \ {s},
                     !.left = IF here = "missing" \/ same THEN @ \ {s.rel} ELSE @,
                     !.touched = IF same THEN @ \cup {Front(s.path)} ELSE @,
                     !.failed = @ \/ ~(here = "missing" \/ same)]
        /\ UNCHANGED <<version, entries, hash, merging, own, fresh, swapped, moves>>

\* The directories above what went, as far as they are empty.
Emptied ==
    LET above == {p \in Places : /\ IsStrictPrefix(going.root, p) /\ p \notin RefusedRoots
                                 /\ \E t \in going.touched :
                                      /\ IsPrefix(p, t)
                                      /\ \A k \in Len(p)..Len(t) : Lstat(SubSeq(t, 1, k)) = "dir"}
        real == {Append(Real(Front(p)), Last(p)) : p \in above}
    IN  {p \in real : \A q \in Places :
            IsStrictPrefix(p, q) /\ tree[q].kind # "none" => q \in real}

\* A failure keeps what is left for a rerun; else the ledger goes, last.
EndUninstall ==
    /\ going.on /\ going.todo = {}
    /\ \E gone \in {Emptied} : tree' = [p \in Places |-> IF p \in gone THEN Vacant ELSE tree[p]]
    /\ entries' = IF going.failed THEN going.left \ going.missing ELSE {}
    /\ hash' = [e \in Wanted |-> IF e \in entries' THEN hash[e] ELSE "nothing"]
    /\ going' = NotGoing
    /\ UNCHANGED <<version, merging, own, fresh, swapped, moves>>

KillUninstall ==
    /\ going.on
    /\ going' = NotGoing
    /\ UNCHANGED <<tree, version, entries, hash, merging, own, fresh, swapped, moves>>

-----------------------------------------------------------------------------
\* The user replaces what is at a place, at any time.

Replacements == {Vacant, Directory, FileOf("omm"), FileOf("mine")} \cup {LinkTo(t) : t \in Targets}

Replace(p, node) ==
    /\ moves < MaxMoves
    /\ tree[Front(p)].kind = "dir" /\ tree[p] # node
    /\ tree' = [q \in Places |-> IF q = p THEN node
                                 ELSE IF IsStrictPrefix(p, q) THEN Vacant ELSE tree[q]]
    /\ moves' = moves + 1
    /\ swapped' = (swapped \/ (going.on /\ node.kind = "link"))
    /\ fresh' = {}
    /\ UNCHANGED <<version, entries, hash, merging, going, own>>

-----------------------------------------------------------------------------
CNext ==
    \/ \E rel \in Wanted : InstallFile(rel)
    \/ PlanMerge
    \/ \E rel \in merging.todo : MergeFile(rel)
    \/ EndMerge
    \/ MergeStops
    \/ NewVersion
    \/ \E force \in BOOLEAN : PlanRemoval(force)
    \/ \E s \in going.todo : Take(s)
    \/ EndUninstall
    \/ KillUninstall
    \/ \E p \in Movable, node \in Replacements : Replace(p, node)

\* What the user has, and nothing of omm's; with a config root or without.
CInit(found) ==
    /\ tree \in found
    /\ version = "omm" /\ entries = {} /\ hash = [e \in Wanted |-> "nothing"]
    /\ merging = NotMerging /\ going = NotGoing
    /\ own = {} /\ fresh = {} /\ swapped = FALSE /\ moves = 0

\* Any disk: what is there has a directory above it.
Kinds == {"none", "dir", "file", "link"}
Contents == {"nothing", "omm", "newer", "mine"}
Nodes == [kind : Kinds, bytes : Contents, to : Paths]
Disks ==
    {t \in [Places -> Nodes] :
        /\ t[<<>>].kind = "dir"
        /\ \A p \in Places \ {<<>>} : t[p].kind # "none" => t[Front(p)].kind = "dir"}

CSpec == CInit(Disks) /\ [][CNext]_cVars

-----------------------------------------------------------------------------
\* Where the path of an entry leads, also through links.
LedTo(e) == Real(Real(ConfigRoot) \o e)

\* A step of omm's: the file that comes, goes or changes is at one of its places,
\* or, in an update, under the root where one of them leads.
OwnPlaces ==
    LET root == IF going.on THEN going.root ELSE Real(ConfigRoot)'
    IN  tree' # tree /\ moves' = moves =>
          \A p \in Places :
              "file" \in {tree[p].kind, tree'[p].kind} /\ tree'[p] # tree[p] =>
                  \/ swapped
                  \/ \E e \in own' : p = root \o e
                  \/ merging.on /\ IsStrictPrefix(root, p) /\ \E e \in own' : p = LedTo(e)'

\* Under the hands of install and uninstall files come and go at omm's own places
\* under the config root only, wherever the user's links lead meanwhile: a copy
\* of his behind a link, equal byte for byte, stays (the R2 sentinel). Except of
\* a link that he makes between the plan and the removal. An update does follow
\* links: it writes where one of omm's places leads, but never outside the root.
OwnPlacesOnly == [][OwnPlaces]_cVars

\* What install or update has written, through no link, uninstall finds, however
\* the path to it was reached when it was not there yet.
WrittenIsFound ==
    \A e \in fresh : \E r \in {Resolve(e)} : r.says = "ok" /\ r.state = "file" /\ ~r.via

\* The three readers agree about what exists and is no link itself: inside for
\* one is inside for all, and the same file. About what does not exist doctor
\* never says that it is there.
ReadersAgree ==
    moves > 0 /\ Found(ConfigRoot) =>
        \A rel \in Asked, root \in {Real(ConfigRoot)} : \E r \in {Resolve(rel)} :
            IF ~Valid(rel) THEN ContainedPath(rel) = "escaped"
            ELSE /\ r.says = "ok" /\ r.state \in {"file", "dir"} =>
                      ContainedPath(rel) = "there" /\ Contained(root, root \o rel) = {r.path}
                 /\ r.says = "ok" /\ r.state = "missing" =>
                      ContainedPath(rel) = "vanished" /\ Contained(root, root \o rel) = {}
                 /\ r.says = "escape" =>
                      ContainedPath(rel) # "there" /\ Contained(root, root \o rel) = {}
=============================================================================
