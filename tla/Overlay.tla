------------------------------ MODULE Overlay ------------------------------
(***************************************************************************)
(* Which file an id stands for (crates/omm-manifest/src/catalog.rs and     *)
(* overlay.rs): the catalog's rows, some of which forward to others, the   *)
(* user's own files under $OMM/custom, and the ids config.json disables.   *)
(*                                                                         *)
(* Three commands resolve an id, each with code of its own: `omm list`     *)
(* (overlay::resolve), `omm theme` (c_tune/theme.rs) and `omm profile`     *)
(* (c_tune/profile.rs).                                                    *)
(***************************************************************************)
EXTENDS Naturals, FiniteSets

CONSTANTS
    Ids,               \* ids and file stems
    Catalogs,          \* candidate catalogs: sets of rows
    MaxOverlayEdits    \* bound: changes the user makes under $OMM

VARIABLES
    catalog,     \* the rows of the catalog.json omm has
    custom,      \* $OMM/custom: what is there under a kind and a name
    appends,     \* the kinds and names with an _append.md
    disabled,    \* config.json, "disabled": kinds and names
    asked,       \* what the commands said, all run on one state
    changes      \* how many changes there were

oVars == <<catalog, custom, appends, disabled, asked, changes>>

Kinds == {"skill", "theme", "profile"}
Entries == Kinds \X Ids
NoId == "none"

-----------------------------------------------------------------------------
\* The catalog: [id, kind, stem, life, to, core], `stem` the name of its file.

Shipping == {"active", "deprecated", "internal"}
Forwarding == {"alias", "merged"}
Ships(r) == r.life \in Shipping
MustForward(r) == r.life \in Forwarding
MayForward(r)  == MustForward(r) \/ r.life = "deprecated"

\* What deserialises; and no profile's file is named as another profile's id is,
\* as in the catalog of content/.
ASSUME OverlayAssumption ==
    \A c \in Catalogs :
        /\ IsFiniteSet(c)
        /\ \A r \in c : /\ r.id \in Ids /\ r.stem \in Ids /\ r.kind \in Kinds
                       /\ r.life \in Shipping \cup Forwarding /\ r.core \in BOOLEAN
        /\ \A r, q \in c : r.kind = "profile" /\ q.kind = "profile" /\ r.stem = q.id => r = q

Row(c, id) == CHOOSE r \in c : r.id = id
Known(c, id) == \E r \in c : r.id = id

\* The row at the end of `canonical`, hop by hop; none if there is no row, or
\* no end.
\* Mutant of Resolved: one hop.
ResolvedOnce(c, id) ==
    IF ~Known(c, id) THEN {}
    ELSE LET to == Row(c, id).to
         IN  IF to = NoId THEN {Row(c, id)} ELSE {r \in c : r.id = to}
Resolved(c, id) ==
    LET walk[n \in 0..(Cardinality(c) + 1)] ==
            IF n = 0 THEN {r \in c : r.id = id}
            ELSE {IF r.to = NoId THEN r ELSE Row(c, r.to) :
                    r \in {q \in walk[n - 1] : q.to = NoId \/ Known(c, q.to)}}
    IN  {r \in walk[Cardinality(c) + 1] : r.to = NoId}

Validated(c) ==
    /\ \A r, q \in c : r.id = q.id => r = q
    /\ \A r \in c :
        /\ r.core => r.life = "active"
        /\ MustForward(r) => r.to # NoId
        /\ r.to # NoId => MayForward(r)
    /\ \A r \in c : r.to # NoId => \E q \in Resolved(c, r.id) : Ships(q)

-----------------------------------------------------------------------------
\* What is under custom/: a file (a directory with a SKILL.md for a skill), a
\* directory without one, a link to another entry, a link that leads out.

Usable(entry) == custom[entry] \in {"file", "link"}

\* A path exists for a command that follows links.
Exists(entry) == custom[entry] # "none"

-----------------------------------------------------------------------------
\* `omm list`: the table, one record an item. `of` is the id of the asset.

Item(kind, name, of, provider, off) ==
    [entry |-> <<kind, name>>, of |-> of, provider |-> provider, disabled |-> off,
     append |-> kind = "skill" /\ <<kind, of>> \in appends]

ShippedItems ==
    {Item(r.kind, r.id, r.id, IF Usable(<<r.kind, r.id>>) THEN "custom" ELSE "bundled",
          <<r.kind, r.id>> \in disabled) : r \in {q \in catalog : Ships(q)}}

\* An alias is the item it forwards to, under its own name.
Alias(r, i) == [i EXCEPT !.entry = <<r.kind, r.id>>, !.disabled = @ \/ <<r.kind, r.id>> \in disabled]
Target(r) == {i \in ShippedItems : \E t \in Resolved(catalog, r.id) : i.entry[2] = t.id}
Aliases(r) == {Alias(r, i) : i \in Target(r)}
Forwarded == UNION {Aliases(r) : r \in {q \in catalog : ~Ships(q)}}

Additions ==
    {Item(e[1], e[2], e[2], "custom", e \in disabled) :
        e \in {f \in Entries : Usable(f) /\ \A i \in ShippedItems \cup Forwarded : i.entry # f}}

Table == ShippedItems \cup Forwarded \cup Additions

-----------------------------------------------------------------------------
\* `omm theme NAME`: the user's file first, then the row the name forwards to,
\* then the theme whose file has that name. "refused" is an error.

CustomFirst(kind, name, otherwise) ==
    IF Exists(<<kind, name>>)
    THEN IF custom[<<kind, name>>] = "file" THEN <<"custom", name>> ELSE <<"refused", name>>
    ELSE otherwise

ByStem(kind, name) == {r \in catalog : Ships(r) /\ r.kind = kind /\ r.stem = name}
ById(kind, name)   == {r \in Resolved(catalog, name) : r.kind = kind}

FirstOf(rows, others, name) ==
    IF rows # {} THEN <<"bundled", (CHOOSE r \in rows : TRUE).id>>
    ELSE IF others # {} THEN <<"bundled", (CHOOSE r \in others : TRUE).id>>
    ELSE <<"refused", name>>

\* Mutant of Theme: the catalog first.
ThemeBundledFirst(name) ==
    IF <<"theme", name>> \in disabled THEN <<"refused", name>>
    ELSE IF ById("theme", name) # {} THEN <<"bundled", name>>
    ELSE CustomFirst("theme", name, <<"refused", name>>)
Theme(name) ==
    IF <<"theme", name>> \in disabled THEN <<"refused", name>>
    ELSE CustomFirst("theme", name, FirstOf(ById("theme", name), ByStem("theme", name), name))

\* `omm profile use NAME`: the file's name before the id; nothing is disabled.
Profile(name) ==
    CustomFirst("profile", name, FirstOf(ByStem("profile", name), ById("profile", name), name))

\* `omm theme list`, the bundled themes and the user's.
ThemeList ==
    LET bundled == {r \in catalog : Ships(r) /\ r.kind = "theme"}
    IN  {<<r.id, IF custom[<<"theme", r.id>>] = "file" THEN "custom" ELSE "bundled">> :
            r \in bundled}
        \cup {<<n, "custom">> : n \in {m \in Ids : custom[<<"theme", m>>] = "file"}}

-----------------------------------------------------------------------------
NotAsked == [table |-> {}, theme |-> <<>>, profile |-> <<>>, themes |-> {}]

OInit ==
    /\ catalog \in {c \in Catalogs : Validated(c)}
    /\ custom = [e \in Entries |-> "none"] /\ appends = {} /\ disabled = {}
    /\ asked = NotAsked /\ changes = 0

\* The commands read; they run one after the other on the same files.
Ask ==
    /\ asked = NotAsked
    /\ asked' = [table |-> Table, theme |-> [n \in Ids |-> Theme(n)],
                 profile |-> [n \in Ids |-> Profile(n)], themes |-> ThemeList]
    /\ UNCHANGED <<catalog, custom, appends, disabled, changes>>

\* The user, in $OMM/custom and in config.json.
Rearrange ==
    /\ changes < MaxOverlayEdits /\ changes' = changes + 1 /\ asked' = NotAsked
    /\ \/ \E e \in Entries, v \in {"none", "file", "bare", "link", "out"} :
            custom' = [custom EXCEPT ![e] = v] /\ UNCHANGED <<appends, disabled>>
       \/ \E n \in Ids :
            appends' = appends \cup {<<"skill", n>>} /\ UNCHANGED <<custom, disabled>>
       \/ \E e \in Entries :
            disabled' = disabled \cup {e} /\ UNCHANGED <<custom, appends>>
    /\ UNCHANGED catalog

ONext == Ask \/ Rearrange

OverlaySpec == OInit /\ [][ONext]_oVars

-----------------------------------------------------------------------------
\* Properties.

\* Where an id ends, by the relation of the rows alone.
Reached(id) ==
    {r \in catalog : /\ r.to = NoId
        /\ \E S \in SUBSET catalog :
            /\ r \in S /\ \E q \in S : q.id = id
            /\ \A q \in S \ {r} : \E p \in S : p.id = q.to
            /\ \A p \in S : p.id = id \/ \E q \in S : q.to = p.id}

\* `omm list` shows every id of the catalog and every file of the user's that
\* can be used, each once; an id that does not ship is shown as the asset at
\* the end of its forwards, and off if either is; and no file outside custom/
\* is shown as anyone's.
ListedOnce ==
    asked # NotAsked =>
      /\ \A i, j \in asked.table : i.entry = j.entry => i = j
      /\ {i.entry : i \in asked.table}
            = {<<r.kind, r.id>> : r \in catalog}
              \cup {e \in Entries : custom[e] \in {"file", "link"}}
      /\ \A i \in asked.table, r \in catalog :
            i.entry = <<r.kind, r.id>> /\ ~Ships(r) =>
                \E q \in Reached(r.id) :
                    /\ i.of = q.id
                    /\ i.provider = "custom" <=> Usable(<<q.kind, q.id>>)
                    /\ i.disabled <=> <<q.kind, q.id>> \in disabled \/ i.entry \in disabled
      /\ \A i \in asked.table : custom[i.entry] \in {"out", "bare"} /\ i.of = i.entry[2]
            => i.provider = "bundled"

\* For a theme or a profile that forwards nowhere, and that the user did not
\* put a link or a directory over, the commands that use it take the file that
\* `omm list` shows, and a theme it shows as disabled is not taken.
UsedAsListed ==
    asked # NotAsked =>
      \A r \in catalog : \A i \in asked.table :
        i.entry = <<r.kind, r.id>> /\ Ships(r) /\ r.to = NoId
        /\ custom[i.entry] \in {"none", "file"} =>
            /\ r.kind = "theme" =>
                /\ asked.theme[r.id] =
                        IF i.disabled THEN <<"refused", r.id>> ELSE <<i.provider, r.id>>
                /\ <<r.id, i.provider>> \in asked.themes
            /\ r.kind = "profile" => asked.profile[r.id] = <<i.provider, r.id>>
=============================================================================
