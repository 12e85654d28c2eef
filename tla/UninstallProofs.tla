--------------------------- MODULE UninstallProofs ---------------------------
(***************************************************************************)
(* Proofs about module Uninstall: whatever fails, is killed, edited or     *)
(* trusted in between, a value of omm's in a file omm shares with the user *)
(* is in the ledger on disk.                                               *)
(***************************************************************************)
EXTENDS Uninstall, TLAPS

-----------------------------------------------------------------------------
(* Types.                                                                  *)

Working  == {"host", "final", "finish", "files", "end"}
Trusting == {"trust", "trusted"}

Plan ==
    [force : BOOLEAN, todo : SUBSET Reg, plugin : BOOLEAN, shared : [Files -> BOOLEAN],
     untyped : [Untyped -> Vals], created : SUBSET Files]

TypeOK ==
    /\ DOMAIN disk = Files /\ \A f \in Files : disk[f] \in Doc(f) \cup {NoFile}
    /\ plugin \in BOOLEAN
    /\ saved \in Ledger \cup {NoLedger}
    /\ pc \in {"idle"} \cup Working \cup Trusting
    /\ pc # "idle" => saved # NoLedger
    /\ failed \in BOOLEAN
    /\ pc \in Working =>
        /\ plan \in Plan /\ left \in Ledger
        /\ \A f \in Files : plan.shared[f] => left.file[f] \in Doc(f)
    /\ pc = "finish" =>
        /\ seen.file \in Files /\ seen.doc \in Doc(seen.file) \cup {NoFile}
    /\ pc \in Trusting =>
        /\ seen.file = "trust" /\ seen.doc \in Doc("trust") \cup {NoFile}
        /\ seen.key \in Projects
    /\ DOMAIN due = Files /\ \A f \in Files : due[f] \in [Keys(f) -> Vals] \cup {NoFile}
    /\ touched \subseteq Files /\ late \subseteq Files
    /\ stranded \in BOOLEAN /\ forced \in BOOLEAN
    /\ untold \subseteq Projects

\* Every key is one of the file it belongs to.
LEMMA KeyOfFile ==
    ASSUME NEW k \in Registrable \cup Untyped
    PROVE  FileOf(k) \in Files /\ k \in Keys(FileOf(k))
  BY DEF FileOf, Files, Keys, Registrable

LEMMA KeysOfFile ==
    /\ Keys("settings") = Typed \cup Untyped /\ Keys("trust") = Projects
    /\ Required \in Typed /\ Required \notin Projects
    /\ \A k \in Keys("settings") : FileOf(k) = "settings"
    /\ \A k \in Projects : FileOf(k) = "trust" /\ k \in Registrable
    /\ Untyped \cap Registrable = {}
  BY UninstallAssumption DEF Keys, FileOf, Typed, Registrable

LEMMA ValsAre == {Absent, Omm, Mine, Later} = Vals
  BY DEF Vals

LEMMA NoFileApart ==
    \A f \in Files : NoFile \notin Doc(f) /\ NoFile \notin [Keys(f) -> Vals]
  BY UninstallAssumption

LEMMA BlankIsDoc ==
    ASSUME NEW f \in Files
    PROVE  Blank(f) \in Doc(f) /\ \A k \in Keys(f) : Blank(f).text[k] = Absent
  BY ValsAre DEF Blank, Doc

LEMMA PatchIsDoc ==
    ASSUME NEW f \in Files, NEW doc \in Doc(f) \cup {NoFile}, NEW k \in Keys(f), NEW v \in Vals
    PROVE  /\ Patch(f, doc, k, v) \in Doc(f)
           /\ Patch(f, doc, k, v).text[k] = v
           /\ \A j \in Keys(f) : j # k => Patch(f, doc, k, v).text[j] =
                IF doc = NoFile THEN Absent ELSE doc.text[j]
<1> DEFINE base == IF doc = NoFile THEN Blank(f) ELSE doc
<1>1. base \in Doc(f) /\ \A j \in Keys(f) : base.text[j] = IF doc = NoFile THEN Absent ELSE doc.text[j]
  BY BlankIsDoc
<1>2. Patch(f, doc, k, v) = [base EXCEPT !.text[k] = v, !.own = FALSE]
  BY DEF Patch
<1> HIDE DEF base
<1>3. /\ [base EXCEPT !.text[k] = v, !.own = FALSE] \in Doc(f)
      /\ [base EXCEPT !.text[k] = v, !.own = FALSE].text = [base.text EXCEPT ![k] = v]
  BY <1>1 DEF Doc
<1> QED
  BY <1>1, <1>2, <1>3 DEF Doc

LEMMA ClearedIs ==
    ASSUME NEW f \in Files, NEW text \in [Keys(f) -> Vals], NEW keys
    PROVE  Cleared(text, keys) \in [Keys(f) -> Vals]
  BY ValsAre DEF Cleared, Vals

LEMMA RewrittenIsDoc ==
    ASSUME NEW doc \in Doc("settings") \cup {NoFile}
    PROVE  /\ Rewritten(doc) \in Doc("settings")
           /\ \A k \in Keys("settings") \ Untyped : Rewritten(doc).text[k] =
                IF doc = NoFile THEN Absent ELSE doc.text[k]
<1>1. CASE doc = NoFile
  BY <1>1, BlankIsDoc DEF Rewritten, Files
<1>2. CASE doc # NoFile /\ ~doc.json
  BY <1>2 DEF Rewritten
<1>3. CASE doc # NoFile /\ doc.json
  <2> DEFINE text == Cleared(doc.text, Untyped)
  <2>1. text \in [Keys("settings") -> Vals]
    BY <1>3, ClearedIs DEF Doc, Files
  <2>2. \A k \in Keys("settings") \ Untyped : text[k] = doc.text[k]
    BY <1>3 DEF Cleared, Doc
  <2>3. Rewritten(doc) = [doc EXCEPT !.text = text, !.own = FALSE]
    BY <1>3 DEF Rewritten
  <2> HIDE DEF text
  <2>4. Rewritten(doc) \in Doc("settings") /\ Rewritten(doc).text = text
    BY <1>3, <2>1, <2>3 DEF Doc
  <2> QED
    BY <1>3, <2>2, <2>4
<1> QED
  BY <1>1, <1>2, <1>3

\* What is written over a file that is finished: no key of omm's that was not
\* read in it.
LEMMA OutcomeIsDoc ==
    ASSUME TypeOK, pc = "finish", plan.shared[seen.file], seen.doc # NoFile
    PROVE  /\ Outcome \in Doc(seen.file)
           /\ \A k \in Keys(seen.file) \ Untyped : Outcome.text[k] = seen.doc.text[k]
<1> DEFINE f == seen.file
           o == left.file[f]
<1>1. f \in Files /\ seen.doc \in Doc(f) /\ o \in Doc(f) /\ plan \in Plan
  BY DEF TypeOK, Working
<1>2. /\ WithUntyped \in [Keys(f) -> Vals]
      /\ \A k \in Keys(f) \ Untyped : WithUntyped[k] = seen.doc.text[k]
  <2>1. CASE f # "settings"
    BY <1>1, <2>1 DEF WithUntyped, Doc
  <2>2. CASE f = "settings"
    <3> DEFINE first == UntypedOf(o.text)
               second == plan.untyped
               text == seen.doc.text
    <3>1. text \in [Keys(f) -> Vals] /\ first \in [Untyped -> Vals] /\ second \in [Untyped -> Vals]
      BY <1>1, <2>2, KeysOfFile DEF Doc, UntypedOf, Plan
    <3>2. WithUntyped = Merged(text, first, second)
      BY <2>2 DEF WithUntyped
    <3> HIDE DEF first, second, text
    <3>3. /\ Merged(text, first, second) \in [Keys(f) -> Vals]
          /\ \A k \in Keys(f) \ Untyped : Merged(text, first, second)[k] = text[k]
      BY <3>1 DEF Merged
    <3> QED
      BY <3>2, <3>3 DEF text
  <2> QED
    BY <2>1, <2>2
<1>3. Outcome = IF WithUntyped = o.text THEN o
                ELSE IF WithUntyped # seen.doc.text
                THEN [text |-> WithUntyped, own |-> FALSE, json |-> TRUE]
                ELSE seen.doc
  BY DEF Outcome
<1> HIDE DEF o
<1>4. CASE WithUntyped = o.text
  BY <1>1, <1>2, <1>3, <1>4
<1>5. CASE WithUntyped # o.text /\ WithUntyped # seen.doc.text
  BY <1>1, <1>2, <1>3, <1>5 DEF Doc
<1>6. CASE WithUntyped # o.text /\ WithUntyped = seen.doc.text
  BY <1>1, <1>3, <1>6
<1> QED
  BY <1>4, <1>5, <1>6

-----------------------------------------------------------------------------
(* The initial states.                                                     *)

LEMMA BeforeIsDoc ==
    ASSUME NEW f \in Files, NEW doc \in Before(f)
    PROVE  /\ doc \in Doc(f) \cup {NoFile}
           /\ doc # NoFile => \A k \in Keys(f) : doc.text[k] # Omm
           /\ DueText(f, doc) \in [Keys(f) -> Vals] \cup {NoFile}
<1>1. CASE doc = NoFile
  BY <1>1 DEF DueText
<1>2. CASE doc # NoFile
  <2>1. PICK t \in [Keys(f) -> {Absent, Mine}] : doc = [text |-> t, own |-> TRUE, json |-> TRUE]
    BY <1>2 DEF Before
  <2>2. t \in [Keys(f) -> Vals]
    BY ValsAre DEF Vals
  <2> QED
    BY <1>2, <2>1, <2>2, UninstallAssumption DEF Doc, DueText
<1> QED
  BY <1>1, <1>2

\* What a document has under a key, and what there was before omm.
Under(doc, k) == IF doc = NoFile THEN Absent ELSE doc.text[k]
Original(o, k) == Under(o[FileOf(k)], k)

LEMMA DueTextIs ==
    ASSUME NEW f \in Files, NEW doc \in Before(f), NEW k
    PROVE  (IF DueText(f, doc) = NoFile THEN Absent ELSE DueText(f, doc)[k]) = Under(doc, k)
  BY BeforeIsDoc, NoFileApart DEF DueText, Under, Doc

\* What the install wrote: omm's value under each key it set, and nothing else.
LEMMA InstalledIs ==
    ASSUME NEW f \in Files, NEW o, DOMAIN o = Files, \A g \in Files : o[g] \in Before(g),
           NEW keys \in SUBSET Registrable
    PROVE  /\ Installed(o, keys, f) \in Doc(f) \cup {NoFile}
           /\ \A k \in Registrable : FileOf(k) = f =>
                Under(Installed(o, keys, f), k) = IF k \in keys THEN Omm ELSE Original(o, k)
<1>1. CASE \A k \in keys : FileOf(k) # f
  BY <1>1, BeforeIsDoc DEF Installed, Original
<1>2. CASE ~(\A k \in keys : FileOf(k) # f)
  <2> DEFINE text == [k \in Keys(f) |-> IF k \in keys THEN Omm
                        ELSE IF o[f] = NoFile THEN Absent ELSE o[f].text[k]]
  <2>1. Installed(o, keys, f) = [text |-> text, own |-> FALSE, json |-> TRUE]
    BY <1>2 DEF Installed
  <2>2. o[f] = NoFile \/ (o[f] \in Doc(f) /\ \A k \in Keys(f) : o[f].text[k] # Omm)
    BY BeforeIsDoc
  <2>3. /\ text \in [Keys(f) -> Vals]
        /\ \A k \in Registrable : FileOf(k) = f =>
            text[k] = IF k \in keys THEN Omm ELSE Original(o, k)
    BY <2>2, ValsAre, KeyOfFile DEF Doc, Original, Under
  <2> HIDE DEF text
  <2>4. [text |-> text, own |-> FALSE, json |-> TRUE] \in Doc(f)
    BY <2>3 DEF Doc
  <2>5. Installed(o, keys, f) # NoFile /\ Installed(o, keys, f).text = text
    <3> DEFINE doc == [text |-> text, own |-> FALSE, json |-> TRUE]
    <3>1. doc.text = text
      OBVIOUS
    <3>2. doc # NoFile
      BY <2>4, NoFileApart
    <3> HIDE DEF doc
    <3> QED
      BY <2>1, <3>1, <3>2 DEF doc
  <2>6. \A k : Under(Installed(o, keys, f), k) = text[k]
    BY <2>5 DEF Under
  <2> QED
    BY <2>1, <2>3, <2>4, <2>6
<1> QED
  BY <1>1, <1>2

LEMMA RegisteredIs ==
    ASSUME NEW o, DOMAIN o = Files, \A g \in Files : o[g] \in Before(g),
           NEW keys \in SUBSET Registrable
    PROVE  /\ Registered(o, keys) \in SUBSET Reg
           /\ \A r \in Registered(o, keys) :
                r.prior # Omm /\ r = [key |-> r.key, prior |-> Original(o, r.key)]
           /\ \A k \in keys : \E r \in Registered(o, keys) : r.key = k
           /\ \A k \in Registrable : Original(o, k) # Omm
<1> DEFINE Prior(k) == IF Holds(o[FileOf(k)], k) THEN o[FileOf(k)].text[k] ELSE Absent
           R(k) == [key |-> k, prior |-> Prior(k)]
<1>1. \A k \in keys : Prior(k) \in Vals /\ Prior(k) # Omm
  <2> TAKE k \in keys
  <2>1. FileOf(k) \in Files /\ k \in Keys(FileOf(k))
    BY KeyOfFile
  <2> QED
    BY <2>1, BeforeIsDoc, ValsAre, UninstallAssumption DEF Doc, Holds
<1>2. Registered(o, keys) = {R(k) : k \in keys}
  BY DEF Registered
<1> HIDE DEF Prior
<1>3. \A k \in keys : /\ R(k) \in Reg /\ R(k).key = k /\ R(k).prior # Omm
                      /\ R(k) = [key |-> k, prior |-> Prior(k)]
  BY <1>1 DEF Reg
<1> HIDE DEF R
<1>4. \A k \in keys : Prior(k) = Original(o, k)
  BY DEF Prior, Original, Under, Holds
<1>5. \A k \in Registrable : Original(o, k) # Omm
  BY KeyOfFile, BeforeIsDoc, UninstallAssumption DEF Original, Under
<1> QED
  BY <1>2, <1>3, <1>4, <1>5

\* The state an install leaves.
LEMMA InitIs ==
    ASSUME Init
    PROVE  /\ DOMAIN disk = Files /\ \A f \in Files : disk[f] \in Doc(f) \cup {NoFile}
           /\ saved \in Ledger /\ \A r \in saved.regs : r.prior # Omm
           /\ \A r, q \in saved.regs : r.key = q.key => r = q
           /\ \A k \in Registrable :
                /\ Value(FileOf(k), k) = Omm => KnownTo(k)
                /\ Value(FileOf(k), k) # Omm => Value(FileOf(k), k) = Due(FileOf(k), k)
                /\ \A r \in saved.regs : r.key = k => r.prior = Due(FileOf(k), k)
           /\ DOMAIN due = Files
           /\ \A f \in Files : due[f] \in [Keys(f) -> Vals] \cup {NoFile}
<1>1. PICK s \in Before("settings"), t \in Before("trust"), keys \in SUBSET Registrable :
        LET o == [f \in Files |-> IF f = "settings" THEN s ELSE t]
            hit == {FileOf(k) : k \in keys} \cup (IF plugin THEN {"settings"} ELSE {})
        IN  /\ disk = [f \in Files |->
                IF f = "settings" /\ plugin /\ Installed(o, keys, f) = NoFile
                THEN Blank(f)
                ELSE IF f = "settings" /\ plugin
                THEN [Installed(o, keys, f) EXCEPT !.own = FALSE]
                ELSE Installed(o, keys, f)]
            /\ saved = [regs |-> Registered(o, keys), plugin |-> plugin,
                        file |-> [f \in Files |->
                            IF f \notin hit THEN None
                            ELSE IF o[f] = NoFile THEN Seeded ELSE o[f]]]
            /\ due = [f \in Files |-> DueText(f, o[f])]
  BY DEF Init
<1> DEFINE o == [f \in Files |-> IF f = "settings" THEN s ELSE t]
           hit == {FileOf(k) : k \in keys} \cup (IF plugin THEN {"settings"} ELSE {})
           file == [f \in Files |-> IF f \notin hit THEN None
                            ELSE IF o[f] = NoFile THEN Seeded ELSE o[f]]
<1>2. DOMAIN o = Files /\ \A f \in Files : o[f] \in Before(f)
  BY DEF Files
<1>3. /\ disk = [f \in Files |->
                IF f = "settings" /\ plugin /\ Installed(o, keys, f) = NoFile
                THEN Blank(f)
                ELSE IF f = "settings" /\ plugin
                THEN [Installed(o, keys, f) EXCEPT !.own = FALSE]
                ELSE Installed(o, keys, f)]
      /\ saved = [regs |-> Registered(o, keys), plugin |-> plugin, file |-> file]
      /\ due = [f \in Files |-> DueText(f, o[f])]
  BY <1>1
<1>4. \A f \in Files : file[f] \in Entry(f)
  BY <1>2, BeforeIsDoc DEF Entry
<1>5. file \in [Files -> Entry("settings") \cup Entry("trust")]
  BY <1>4 DEF Files
<1> HIDE DEF o, file
<1>6. plugin \in BOOLEAN
  BY DEF Init
<1>7. saved \in Ledger /\ \A r \in saved.regs : r.prior # Omm
  BY <1>2, <1>3, <1>4, <1>5, <1>6, RegisteredIs DEF Ledger
<1>8. ASSUME NEW f \in Files
      PROVE  /\ disk[f] \in Doc(f) \cup {NoFile}
             /\ \A k \in Registrable : FileOf(k) = f =>
                    Under(disk[f], k) = IF k \in keys THEN Omm ELSE Original(o, k)
  <2> DEFINE doc == Installed(o, keys, f)
  <2>1. /\ doc \in Doc(f) \cup {NoFile}
        /\ \A k \in Registrable : FileOf(k) = f =>
                Under(doc, k) = IF k \in keys THEN Omm ELSE Original(o, k)
    BY <1>2, InstalledIs
  <2>2. (doc = NoFile /\ disk[f] = Blank(f)) \/ disk[f] = doc \/ (doc # NoFile /\ disk[f] = [doc EXCEPT !.own = FALSE])
    BY <1>3
  <2> HIDE DEF doc
  <2>3. CASE doc = NoFile /\ disk[f] = Blank(f)
    BY <2>1, <2>3, BlankIsDoc, KeyOfFile DEF Under
  <2>4. CASE disk[f] = doc
    BY <2>1, <2>4
  <2>5. CASE doc # NoFile /\ disk[f] = [doc EXCEPT !.own = FALSE]
    <3>1. doc \in Doc(f)
      BY <2>1, <2>5
    <3>2. disk[f] \in Doc(f) /\ disk[f].text = doc.text
      BY <2>5, <3>1 DEF Doc
    <3> QED
      BY <2>1, <2>5, <3>2, NoFileApart DEF Under
  <2> QED
    BY <2>2, <2>3, <2>4, <2>5
<1>9. ASSUME NEW k \in Registrable
      PROVE  /\ Value(FileOf(k), k) = Omm => KnownTo(k)
             /\ Value(FileOf(k), k) # Omm => Value(FileOf(k), k) = Due(FileOf(k), k)
             /\ \A r \in saved.regs : r.key = k => r.prior = Due(FileOf(k), k)
  <2>1. FileOf(k) \in Files /\ k \in Keys(FileOf(k))
    BY KeyOfFile
  <2>2. Value(FileOf(k), k) = IF k \in keys THEN Omm ELSE Original(o, k)
    BY <1>8, <2>1 DEF Value, Under
  <2>3. Original(o, k) # Omm
    BY <1>2, RegisteredIs
  <2>4. Due(FileOf(k), k) = Original(o, k)
    BY <1>2, <1>3, <2>1, DueTextIs DEF Due, Original
  <2>5. \A r \in saved.regs : r.key = k => r.prior = Original(o, k)
    BY <1>2, <1>3, RegisteredIs
  <2>6. k \in keys => KnownTo(k)
    BY <1>2, <1>3, RegisteredIs DEF KnownTo
  <2> QED
    BY <2>2, <2>3, <2>4, <2>5, <2>6
<1>10. \A r, q \in saved.regs : r.key = q.key => r = q
  BY <1>2, <1>3, RegisteredIs
<1> QED
  BY <1>2, <1>3, <1>7, <1>8, <1>9, <1>10, BeforeIsDoc

LEMMA TypeInit == Init => TypeOK
  BY InitIs DEF Init, TypeOK, Working, Trusting

-----------------------------------------------------------------------------
(* Every step keeps the types.                                             *)

LEMMA MakePlanIs ==
    ASSUME TypeOK, saved # NoLedger, NEW force \in BOOLEAN
    PROVE  /\ MakePlan(force) \in Plan
           /\ \A f \in Files : MakePlan(force).shared[f] => saved.file[f] \in Doc(f)
           /\ MakePlan(force).todo = Ours(force) \ Dropped(force)
           /\ Ours(force) \subseteq saved.regs /\ Dropped(force) \subseteq saved.regs
<1> DEFINE p == MakePlan(force)
<1>1. saved \in Ledger /\ plugin \in BOOLEAN /\ disk["settings"] \in Doc("settings") \cup {NoFile}
  BY DEF TypeOK, Files
<1>2. Ours(force) \subseteq saved.regs /\ Dropped(force) \subseteq saved.regs
  BY DEF Ours, Dropped
<1>3. p.todo = Ours(force) \ Dropped(force) /\ p.todo \in SUBSET Reg
  BY <1>1, <1>2 DEF MakePlan, Dropped, Ledger
<1>4. p.shared \in [Files -> BOOLEAN] /\ \A f \in Files : p.shared[f] => saved.file[f] \in Doc(f)
  BY <1>1 DEF MakePlan, HasOriginal, Ledger, Entry
<1>5. p.plugin \in BOOLEAN
  <2> DEFINE listed == plugin \/ \E f \in Files : disk[f] # NoFile /\ ~disk[f].json
  <2>1. p.plugin = (saved.plugin /\ listed)
    BY DEF MakePlan
  <2>2. saved.plugin \in BOOLEAN /\ listed \in BOOLEAN
    BY <1>1 DEF Ledger
  <2> HIDE DEF listed
  <2> QED
    BY <2>1, <2>2
<1>6. p.untyped \in [Untyped -> Vals]
  BY <1>1, KeysOfFile, ValsAre DEF MakePlan, UntypedOf, Doc
<1>7. p.created \in SUBSET Files /\ p.force \in BOOLEAN
  BY DEF MakePlan
<1>8. p = [force |-> p.force, todo |-> p.todo, plugin |-> p.plugin, shared |-> p.shared,
           untyped |-> p.untyped, created |-> p.created]
  BY DEF MakePlan
<1> HIDE DEF p
<1>9. p \in Plan
  BY <1>3, <1>4, <1>5, <1>6, <1>7, <1>8 DEF Plan
<1> QED
  BY <1>2, <1>3, <1>4, <1>9 DEF p

LEMMA BeginTyped ==
    ASSUME TypeOK, NEW force \in BOOLEAN, Begin(force)
    PROVE  TypeOK'
<1>1. saved \in Ledger /\ saved # NoLedger
  BY DEF Begin, TypeOK
<1>2. /\ plan' \in Plan /\ \A f \in Files : plan'.shared[f] => saved.file[f] \in Doc(f)
      /\ MakePlan(force).plugin \in BOOLEAN
  BY <1>1, MakePlanIs DEF Begin, Plan
<1>3. left' = [saved EXCEPT !.regs = @ \ Dropped(force), !.plugin = MakePlan(force).plugin]
  BY DEF Begin
<1>4. left' \in Ledger /\ left'.file = saved.file
  BY <1>1, <1>2, <1>3 DEF Ledger
<1> QED
  BY <1>1, <1>2, <1>4, UninstallAssumption DEF Begin, envVars, TypeOK, Working, Trusting

LEMMA DueForcedTyped ==
    ASSUME TypeOK, NEW r \in Reg
    PROVE  DOMAIN DueForced(r) = Files
           /\ \A f \in Files : DueForced(r)[f] \in [Keys(f) -> Vals] \cup {NoFile}
<1> DEFINE f == FileOf(r.key)
           was == IF due[f] = NoFile THEN Blank(f).text ELSE due[f]
<1>1. f \in Files /\ r.key \in Keys(f) /\ r.prior \in Vals
  BY KeyOfFile DEF Reg
<1>2. was \in [Keys(f) -> Vals]
  BY <1>1, BlankIsDoc DEF TypeOK, Doc
<1>3. DueForced(r) = due \/ DueForced(r) = [due EXCEPT ![f] = [was EXCEPT ![r.key] = r.prior]]
  BY DEF DueForced
<1> HIDE DEF f, was
<1>4. [was EXCEPT ![r.key] = r.prior] \in [Keys(f) -> Vals]
  BY <1>1, <1>2
<1> QED
  BY <1>1, <1>3, <1>4 DEF TypeOK

LEMMA PatchedTyped ==
    ASSUME TypeOK, NEW r \in Reg
    PROVE  LET f == FileOf(r.key) IN
           /\ f \in Files /\ r.key \in Keys(f)
           /\ Patched(r) \in Doc(f) /\ Patched(r).text[r.key] = r.prior
           /\ \A j \in Keys(f) : j # r.key => Patched(r).text[j] =
                IF disk[f] = NoFile THEN Absent ELSE disk[f].text[j]
<1> DEFINE f == FileOf(r.key)
<1>1. f \in Files /\ r.key \in Keys(f) /\ r.prior \in Vals /\ disk[f] \in Doc(f) \cup {NoFile}
  BY KeyOfFile DEF Reg, TypeOK
<1>2. Patched(r) = Patch(f, disk[f], r.key, r.prior)
  BY DEF Patched, RestoredProject, RestoredKey, FileOf
<1> HIDE DEF f
<1>3. /\ Patched(r) \in Doc(f) /\ Patched(r).text[r.key] = r.prior
      /\ \A j \in Keys(f) : j # r.key => Patched(r).text[j] =
            IF disk[f] = NoFile THEN Absent ELSE disk[f].text[j]
  BY <1>1, <1>2, PatchIsDoc
<1> QED
  BY <1>1, <1>3 DEF f

LEMMA UndoKeyTyped ==
    ASSUME TypeOK, NEW r \in Reg, UndoKey(r)
    PROVE  TypeOK'
<1>1. /\ pc = "host" /\ plan \in Plan /\ left \in Ledger /\ r \in plan.todo
      /\ \A f \in Files : plan.shared[f] => left.file[f] \in Doc(f)
  BY DEF UndoKey, TypeOK, Working
<1>2. /\ plan' = [plan EXCEPT !.todo = @ \ {r}] /\ left' = [left EXCEPT !.regs = @ \ {r}]
      /\ UNCHANGED <<plugin, saved, pc, failed, seen, touched, late, forced, untold>>
      /\ due' \in {due, DueForced(r)}
      /\ disk' \in {disk, [disk EXCEPT ![FileOf(r.key)] = Patched(r)]}
      /\ stranded' \in BOOLEAN
  BY DEF UndoKey
<1>3. plan' \in Plan /\ plan'.shared = plan.shared /\ left' \in Ledger /\ left'.file = left.file
  BY <1>1, <1>2 DEF Plan, Ledger
<1>4. DOMAIN disk' = Files /\ \A f \in Files : disk'[f] \in Doc(f) \cup {NoFile}
  BY <1>2, PatchedTyped DEF TypeOK
<1>5. DOMAIN due' = Files /\ \A f \in Files : due'[f] \in [Keys(f) -> Vals] \cup {NoFile}
  BY <1>2, DueForcedTyped DEF TypeOK
<1> QED
  BY <1>1, <1>2, <1>3, <1>4, <1>5 DEF TypeOK, Working, Trusting

\* A step of the uninstall that only moves on.
LEMMA MovesOn ==
    ASSUME TypeOK, pc \in Working, pc' \in Working \ {"finish"},
           plan' \in Plan, left' \in Ledger, failed' \in BOOLEAN,
           \A f \in Files : plan'.shared[f] => left'.file[f] \in Doc(f),
           DOMAIN disk' = Files, \A f \in Files : disk'[f] \in Doc(f) \cup {NoFile},
           plugin' \in BOOLEAN, late' \subseteq Files,
           UNCHANGED <<saved, orig, due, touched, stranded, forced, untold>>
    PROVE  TypeOK'
  BY DEF TypeOK, Working, Trusting

LEMMA UndoPluginsTyped ==
    ASSUME TypeOK, UndoPlugin \/ UndoPluginFails
    PROVE  TypeOK'
<1>1. /\ pc = "host" /\ plan \in Plan /\ left \in Ledger
      /\ \A f \in Files : plan.shared[f] => left.file[f] \in Doc(f)
  BY DEF UndoPlugin, UndoPluginFails, TypeOK, Working
<1>2. /\ plan' = [plan EXCEPT !.plugin = FALSE]
      /\ left' \in {left, [left EXCEPT !.plugin = FALSE]}
      /\ failed' \in BOOLEAN /\ pc' = pc
      /\ UNCHANGED <<saved, history>>
      /\ RemovesPlugin \/ UNCHANGED <<disk, plugin>>
  BY DEF UndoPlugin, UndoPluginFails, Own, Fault, TypeOK
<1>3. plan' \in Plan /\ plan'.shared = plan.shared /\ left' \in Ledger /\ left'.file = left.file
  BY <1>1, <1>2 DEF Plan, Ledger
<1>4. /\ DOMAIN disk' = Files /\ \A f \in Files : disk'[f] \in Doc(f) \cup {NoFile}
      /\ plugin' \in BOOLEAN
  <2>1. "settings" \in Files /\ Rewritten(disk["settings"]) \in Doc("settings")
    BY RewrittenIsDoc DEF TypeOK, Files
  <2> QED
    BY <1>2, <2>1 DEF RemovesPlugin, TypeOK
<1> QED
  BY <1>1, <1>2, <1>3, <1>4, MovesOn DEF history, TypeOK, Working

LEMMA RestoreTyped ==
    ASSUME TypeOK, Restore \/ Unlink
    PROVE  TypeOK'
<1> DEFINE f == seen.file
<1>1. /\ pc = "finish" /\ plan \in Plan /\ left \in Ledger /\ f \in Files
      /\ \A g \in Files : plan.shared[g] => left.file[g] \in Doc(g)
  BY DEF Restore, Unlink, TypeOK, Working
<1>2. /\ left' = [left EXCEPT !.file[f] = None]
      /\ plan' = [plan EXCEPT !.shared[f] = FALSE, !.created = @ \ {f}]
      /\ pc' = "final"
      /\ UNCHANGED <<plugin, saved, failed, orig, due, touched, stranded, forced, untold>>
      /\ late' \in {late, late \cup {f}}
  BY DEF Restore, Unlink, Finished, Own, history
<1>3. /\ plan' \in Plan
      /\ \A g \in Files : plan'.shared[g] = IF g = f THEN FALSE ELSE plan.shared[g]
  BY <1>1, <1>2 DEF Plan
<1>4. left' \in Ledger /\ \A g \in Files : g # f => left'.file[g] = left.file[g]
  BY <1>1, <1>2 DEF Ledger, Entry
<1>5. DOMAIN disk' = Files /\ \A g \in Files : disk'[g] \in Doc(g) \cup {NoFile}
  <2>1. CASE Restore
    <3>1. disk' = disk \/ (seen.doc # NoFile /\ disk' = [disk EXCEPT ![f] = Outcome])
      BY <2>1 DEF Restore, Unreadable
    <3>2. seen.doc # NoFile => Outcome \in Doc(f)
      BY <1>1, <2>1, OutcomeIsDoc DEF Restore
    <3> QED
      BY <1>1, <3>1, <3>2 DEF TypeOK
  <2>2. CASE Unlink
    BY <1>1, <2>2 DEF Unlink, TypeOK
  <2> QED
    BY <2>1, <2>2
<1> QED
  BY <1>1, <1>2, <1>3, <1>4, <1>5, MovesOn DEF TypeOK, Working

LEMMA OtherStepsTyped ==
    ASSUME TypeOK,
           \/ \E r \in Reg : UndoKeyFails(r)
           \/ HostDone \/ FinishFails \/ FinalDone \/ FilesGo
    PROVE  TypeOK'
<1>1. /\ pc \in Working /\ plan \in Plan /\ left \in Ledger
      /\ \A f \in Files : plan.shared[f] => left.file[f] \in Doc(f)
  BY DEF UndoKeyFails, HostDone, FinishFails, FinalDone, FilesGo, TypeOK, Working
<1>2. /\ UNCHANGED <<disk, plugin, saved, left, history>>
      /\ failed' \in BOOLEAN /\ pc' \in Working \ {"finish"}
  BY DEF UndoKeyFails, HostDone, FinishFails, FinalDone, FilesGo, TypeOK, Working, Own, Fault
<1>3. plan' \in Plan /\ \A f \in Files : plan'.shared[f] => plan.shared[f]
  <2>1. CASE \E r \in Reg : UndoKeyFails(r)
    BY <1>1, <2>1 DEF UndoKeyFails, Plan
  <2>2. CASE HostDone \/ FinalDone \/ FilesGo
    BY <1>1, <2>2 DEF HostDone, FinalDone, FilesGo
  <2>3. CASE FinishFails
    <3>1. seen.file \in Files
      BY <2>3 DEF FinishFails, TypeOK
    <3> QED
      BY <1>1, <2>3, <3>1 DEF FinishFails, Plan
  <2> QED
    BY <2>1, <2>2, <2>3
<1> QED
  BY <1>1, <1>2, <1>3, MovesOn DEF history, TypeOK

LEMMA FinalLooksTyped ==
    ASSUME TypeOK, NEW f \in Files, FinalLooks(f)
    PROVE  TypeOK'
<1>1. /\ seen'.file = f /\ seen'.doc = disk[f]
      /\ pc = "final" /\ pc' = "finish"
      /\ UNCHANGED <<disk, plugin, saved, plan, left, failed, history>>
  BY DEF FinalLooks, Own
<1> QED
  BY <1>1 DEF history, TypeOK, Working, Trusting

LEMMA EndsTyped ==
    ASSUME TypeOK, Incomplete \/ Unledger
    PROVE  TypeOK'
<1>1. /\ saved' \in {left, NoLedger} /\ left \in Ledger /\ pc' = "idle" /\ failed' \in BOOLEAN
      /\ UNCHANGED <<disk, plugin, history>>
  BY DEF Incomplete, Unledger, Stops, Own, TypeOK, Working
<1> QED
  BY <1>1 DEF history, TypeOK, Working, Trusting

LEMMA DueAgainTyped ==
    ASSUME TypeOK, pc = "trust"
    PROVE  DOMAIN DueAgain = Files
           /\ \A f \in Files : DueAgain[f] \in [Keys(f) -> Vals] \cup {NoFile}
<1> DEFINE was == IF due["trust"] = NoFile THEN Blank("trust").text ELSE due["trust"]
           first == (CHOOSE r \in saved.regs : r.key = seen.key).prior
<1>1. "trust" \in Files /\ was \in [Keys("trust") -> Vals]
  BY BlankIsDoc DEF TypeOK, Doc, Files
<1>2. KnownTo(seen.key) => first \in Vals
  <2>1. saved \in Ledger
    BY DEF TypeOK, Trusting
  <2> QED
    BY <2>1 DEF KnownTo, Ledger, Reg
<1>3. \/ DueAgain = due
      \/ KnownTo(seen.key) /\ DueAgain = [due EXCEPT !["trust"] = [was EXCEPT ![seen.key] = first]]
  BY DEF DueAgain
<1> HIDE DEF was, first
<1>4. KnownTo(seen.key) => [was EXCEPT ![seen.key] = first] \in [Keys("trust") -> Vals]
  BY <1>1, <1>2
<1> QED
  BY <1>1, <1>3, <1>4 DEF TypeOK

LEMMA RecordTyped ==
    ASSUME TypeOK, RecordTrust
    PROVE  saved' \in Ledger
<1>1. /\ saved \in Ledger /\ seen.doc \in Doc("trust") \cup {NoFile} /\ seen.key \in Projects
      /\ pc = "trusted"
  BY DEF RecordTrust, TypeOK, Trusting, Working
<1>2. WithTrust(saved.regs) \in SUBSET Reg
  <2> DEFINE prior == IF Holds(seen.doc, seen.key) THEN seen.doc.text[seen.key] ELSE Absent
  <2>1. prior \in Vals
    BY <1>1, KeysOfFile, ValsAre DEF Holds, Doc
  <2>2. WithTrust(saved.regs) = IF KnownTo(seen.key) THEN saved.regs
                                ELSE saved.regs \cup {[key |-> seen.key, prior |-> prior]}
    BY DEF WithTrust
  <2> HIDE DEF prior
  <2> QED
    BY <1>1, <2>1, <2>2, KeysOfFile DEF Ledger, Reg
<1>3. WithFile(saved.file["trust"]) \in Entry("trust")
  BY <1>1 DEF WithFile, Entry, Ledger, Files
<1> QED
  BY <1>1, <1>2, <1>3 DEF RecordTrust, Ledger, Files

LEMMA TrustTyped ==
    ASSUME TypeOK, Trust
    PROVE  TypeOK'
<1> USE DEF Working, Trusting
<1>1. ASSUME NEW k \in Projects, BeginTrust(k) PROVE TypeOK'
  <2>1. /\ seen'.file = "trust" /\ seen'.doc = disk["trust"] /\ seen'.key = k
        /\ pc' = "trust" /\ saved # NoLedger
        /\ UNCHANGED <<disk, plugin, saved, plan, left, failed, history>>
    BY <1>1 DEF BeginTrust, Own
  <2> QED
    BY <2>1 DEF history, TypeOK, Files
<1>2. CASE CommitTrust
  <2>1. Entrusted \in Doc("trust")
    BY <1>2, PatchIsDoc, KeysOfFile, ValsAre DEF CommitTrust, Entrusted, TypeOK, Files
  <2>2. /\ disk' = [disk EXCEPT !["trust"] = Entrusted] /\ due' = DueAgain
        /\ pc = "trust" /\ pc' = "trusted"
        /\ UNCHANGED <<plugin, saved, plan, left, failed, seen,
                       touched, late, stranded, forced, untold>>
    BY <1>2 DEF CommitTrust
  <2> QED
    BY <2>1, <2>2, DueAgainTyped DEF TypeOK, Files
<1>3. CASE TrustRefused
  BY <1>3 DEF TrustRefused, Own, history, TypeOK
<1>4. CASE RecordTrust
  <2>4. saved' \in Ledger
    BY <1>4, RecordTyped
  <2>5. /\ pc' = "idle" /\ untold' = untold \ {seen.key}
        /\ UNCHANGED <<disk, plugin, failed, due, touched, late, stranded, forced>>
    BY <1>4 DEF RecordTrust
  <2> QED
    BY <2>4, <2>5 DEF TypeOK
<1> QED
  BY <1>1, <1>2, <1>3, <1>4 DEF Trust

LEMMA KillTyped ==
    ASSUME TypeOK, Kill
    PROVE  TypeOK'
<1>1. /\ untold' \in {untold, untold \cup {seen.key}}
      /\ untold' # untold => pc = "trusted"
      /\ pc' = "idle" /\ failed' = FALSE
      /\ UNCHANGED <<disk, plugin, saved, due, touched, late, stranded, forced>>
  BY DEF Kill, Stops
<1> QED
  BY <1>1 DEF TypeOK, Working, Trusting

LEMMA ToldIs == \A keys : Told(keys) = untold \/ (~Uninstalling /\ Told(keys) = untold \ keys)
  BY DEF Told

LEMMA EditKeyTyped ==
    ASSUME TypeOK, NEW k \in (Registrable \ {Required}) \cup Untyped,
           NEW v \in {Absent, Later}, EditKey(k, v)
    PROVE  /\ TypeOK'
           /\ UNCHANGED saved
           /\ \A j \in Registrable \ {Required, k} :
                /\ Value(FileOf(j), j)' = Value(FileOf(j), j)
                /\ Due(FileOf(j), j)' = Due(FileOf(j), j)
           /\ Value(FileOf(k), k)' = v /\ Due(FileOf(k), k)' = v /\ v # Omm
           /\ \A g \in Files : g # FileOf(k) => disk'[g] = disk[g]
<1> DEFINE f == FileOf(k)
           doc == IF disk[f] = NoFile THEN [Blank(f) EXCEPT !.own = TRUE] ELSE disk[f]
           was == IF due[f] = NoFile THEN Blank(f).text ELSE due[f]
           text == Assigned(doc.text, k, v)
<1>1. f \in Files /\ k \in Keys(f) /\ v \in Vals /\ v # Omm /\ k # Required
  BY KeyOfFile, ValsAre, UninstallAssumption DEF Registrable, Typed
<1>2. /\ disk' = [disk EXCEPT ![f] = [doc EXCEPT !.text = text]]
      /\ due' = [due EXCEPT ![f] = [was EXCEPT ![k] = v]]
      /\ untold' = Told({k})
      /\ touched' = touched \cup {f} /\ late' \in {late, late \cup {f}}
      /\ UNCHANGED <<plugin, saved, pc, plan, left, failed, seen, orig, stranded, forced>>
  BY DEF EditKey, Edit, uVars
<1>3. doc \in Doc(f) /\ (disk[f] # NoFile => doc = disk[f])
      /\ (disk[f] = NoFile => \A j \in Keys(f) : doc.text[j] = Absent)
  <2>1. CASE disk[f] = NoFile
    <3>1. Blank(f) \in Doc(f) /\ \A j \in Keys(f) : Blank(f).text[j] = Absent
      BY <1>1, BlankIsDoc
    <3>2. [Blank(f) EXCEPT !.own = TRUE] \in Doc(f)
          /\ [Blank(f) EXCEPT !.own = TRUE].text = Blank(f).text
      BY <3>1 DEF Doc
    <3> QED
      BY <2>1, <3>1, <3>2
  <2>2. CASE disk[f] # NoFile
    BY <1>1, <2>2 DEF TypeOK
  <2> QED
    BY <2>1, <2>2
<1>4. was \in [Keys(f) -> Vals]
  BY <1>1, BlankIsDoc DEF TypeOK, Doc
<1> HIDE DEF f, doc, was
<1>5. text \in [Keys(f) -> Vals] /\ text[k] = v
      /\ \A j \in Keys(f) \ {Required, k} : text[j] = doc.text[j]
  <2>1. k \in Members => Required \in Keys(f)
    BY KeysOfFile, UninstallAssumption DEF f, FileOf, Typed
  <2>2. text = [doc.text EXCEPT ![k] = v] \/ text = [doc.text EXCEPT ![k] = v, ![Required] = v]
    BY <1>1, <1>3 DEF text, Assigned, Doc
  <2> HIDE DEF text
  <2>3. doc.text \in [Keys(f) -> Vals]
    BY <1>3 DEF Doc
  <2> QED
    BY <1>1, <2>2, <2>3
<1> HIDE DEF text
<1>6. [doc EXCEPT !.text = text] \in Doc(f) /\ [doc EXCEPT !.text = text].text = text
  BY <1>3, <1>5 DEF Doc
<1>7. [was EXCEPT ![k] = v] \in [Keys(f) -> Vals]
  BY <1>1, <1>4
<1>8. TypeOK'
  BY <1>1, <1>2, <1>6, <1>7, ToldIs DEF TypeOK, Working, Trusting
<1>9. disk'[f] = [doc EXCEPT !.text = text] /\ \A g \in Files : g # f => disk'[g] = disk[g]
  BY <1>1, <1>2 DEF TypeOK
<1>10. Value(f, k)' = v
  BY <1>1, <1>5, <1>6, <1>9, NoFileApart DEF Value
<1>11. ASSUME NEW j \in Registrable \ {Required, k}
       PROVE  Value(FileOf(j), j)' = Value(FileOf(j), j)
  <2>1. FileOf(j) \in Files /\ j \in Keys(FileOf(j))
    BY KeyOfFile
  <2>2. CASE FileOf(j) # f
    BY <1>9, <2>1, <2>2 DEF Value
  <2>3. CASE FileOf(j) = f
    <3>1. disk'[f].text[j] = doc.text[j]
      BY <1>5, <1>6, <1>9, <2>1, <2>3
    <3> QED
      BY <1>1, <1>3, <1>5, <1>6, <1>9, NoFileApart, <2>1, <2>3, <3>1 DEF Value
  <2> QED
    BY <2>2, <2>3
<1>13. Due(f, k)' = v /\ \A g \in Files : g # f => due'[g] = due[g]
  BY <1>1, <1>2, <1>4, <1>7, NoFileApart DEF TypeOK, Due
<1>15. ASSUME NEW j \in Registrable \ {Required, k}
       PROVE  Due(FileOf(j), j)' = Due(FileOf(j), j)
  <2>1. FileOf(j) \in Files /\ j \in Keys(FileOf(j))
    BY KeyOfFile
  <2>2. CASE FileOf(j) # f
    BY <1>13, <2>1, <2>2 DEF Due
  <2>3. CASE FileOf(j) = f
    <3>1. due'[f] = [was EXCEPT ![k] = v] /\ due'[f][j] = was[j]
      BY <1>1, <1>2, <1>4, <2>1, <2>3 DEF TypeOK
    <3>2. was[j] = Due(f, j)
      BY <1>1, <2>1, <2>3, BlankIsDoc DEF was, Due
    <3> QED
      BY <1>1, <1>2, <1>4, <1>7, NoFileApart, <2>3, <3>1, <3>2 DEF TypeOK, Due
  <2> QED
    BY <2>2, <2>3
<1> QED
  BY <1>1, <1>2, <1>8, <1>9, <1>10, <1>11, <1>13, <1>15 DEF f

\* The user's other changes: what omm put under a key is there as before, or gone.
LEMMA FileStepsTyped ==
    ASSUME TypeOK, NEW f \in Files, Delete(f) \/ Garble(f) \/ Repair(f)
    PROVE  /\ TypeOK'
           /\ UNCHANGED <<saved, uVars>>
           /\ \A g \in Files : g # f => disk'[g] = disk[g]
           /\ \/ /\ untold' = untold
                 /\ \A k \in Registrable :
                    /\ Value(FileOf(k), k)' = Value(FileOf(k), k)
                    /\ Due(FileOf(k), k)' = Due(FileOf(k), k)
              \/ /\ untold' = Told(Keys(f))
                 /\ \A k \in Registrable : IF k \in Keys(f)
                    THEN Value(FileOf(k), k)' = Absent /\ Due(FileOf(k), k)' = Absent
                    ELSE /\ Value(FileOf(k), k)' = Value(FileOf(k), k)
                         /\ Due(FileOf(k), k)' = Due(FileOf(k), k)
<1>1. /\ UNCHANGED <<saved, uVars, plugin, stranded, forced>>
      /\ touched' \subseteq Files /\ late' \subseteq Files
  BY DEF Delete, Garble, Repair, Edit, envVars, TypeOK
<1>2. CASE Delete(f)
  <2>1. /\ disk' = [disk EXCEPT ![f] = NoFile] /\ due' = [due EXCEPT ![f] = NoFile]
        /\ untold' = Told(Keys(f))
    BY <1>2 DEF Delete
  <2>2. TypeOK'
    BY <1>1, <2>1, ToldIs DEF TypeOK, Working, Trusting, uVars
  <2>3. /\ disk'[f] = NoFile /\ due'[f] = NoFile
        /\ \A g \in Files : g # f => disk'[g] = disk[g] /\ due'[g] = due[g]
    BY <2>1 DEF TypeOK
  <2>4. \A k \in Registrable :
            /\ Value(FileOf(k), k)' = IF FileOf(k) = f THEN Absent ELSE Value(FileOf(k), k)
            /\ Due(FileOf(k), k)' = IF FileOf(k) = f THEN Absent ELSE Due(FileOf(k), k)
    BY <2>3, KeyOfFile DEF Value, Due
  <2>5. \A k \in Registrable : k \in Keys(f) <=> FileOf(k) = f
    BY KeysOfFile, KeyOfFile DEF Files
  <2> QED
    BY <1>1, <2>1, <2>2, <2>3, <2>4, <2>5
<1>3. CASE Garble(f) \/ Repair(f)
  <2>1. PICK b \in BOOLEAN : disk' = [disk EXCEPT ![f].json = b]
    BY <1>3 DEF Garble, Repair
  <2>2. disk[f] \in Doc(f) /\ disk[f] # NoFile /\ UNCHANGED <<due, untold>>
    BY <1>3 DEF Garble, Repair, TypeOK
  <2>3. [disk[f] EXCEPT !.json = b] \in Doc(f) /\ [disk[f] EXCEPT !.json = b].text = disk[f].text
    BY <2>2 DEF Doc
  <2>4. disk'[f] = [disk[f] EXCEPT !.json = b] /\ \A g \in Files : g # f => disk'[g] = disk[g]
    BY <2>1 DEF TypeOK
  <2>5. TypeOK'
    BY <1>1, <2>1, <2>2, <2>3 DEF TypeOK, Working, Trusting, uVars
  <2>6. disk'[f] # NoFile
    BY <2>3, <2>4, NoFileApart
  <2>7. \A k \in Registrable : /\ Value(FileOf(k), k)' = Value(FileOf(k), k)
                                /\ Due(FileOf(k), k)' = Due(FileOf(k), k)
    <3> TAKE k \in Registrable
    <3>1. FileOf(k) \in Files
      BY KeyOfFile
    <3>2. CASE FileOf(k) # f
      BY <2>2, <2>4, <3>1, <3>2 DEF Value, Due
    <3>3. CASE FileOf(k) = f
      BY <2>2, <2>3, <2>4, <2>6, <3>3 DEF Value, Due
    <3> QED
      BY <3>2, <3>3
  <2> QED
    BY <1>1, <2>2, <2>4, <2>5, <2>7
<1> QED
  BY <1>2, <1>3

\* The steps of the system, by who takes them.
LEMMA StepsAre ==
    ASSUME [Next]_vars
    PROVE  \/ UNCHANGED vars
           \/ \E force \in BOOLEAN : Begin(force)
           \/ \E r \in Reg : UndoKey(r)
           \/ \E r \in Reg : UndoKeyFails(r)
           \/ UndoPlugin \/ UndoPluginFails
           \/ HostDone \/ FinishFails \/ FinalDone \/ FilesGo
           \/ \E f \in Files : FinalLooks(f)
           \/ Restore \/ Unlink \/ Incomplete \/ Unledger
           \/ Trust \/ Kill
           \/ \E k \in (Registrable \ {Required}) \cup Untyped, v \in {Absent, Later} : EditKey(k, v)
           \/ \E f \in Files : Delete(f) \/ Garble(f) \/ Repair(f)
<1>1. Forces \subseteq BOOLEAN
  BY UninstallAssumption
<1>2. CASE Step
  BY <1>2 DEF Step
<1>3. CASE User
  BY <1>3 DEF User
<1> QED
  BY <1>1, <1>2, <1>3 DEF Next

LEMMA TypeKept == TypeOK /\ [Next]_vars => TypeOK'
<1> SUFFICES ASSUME TypeOK, [Next]_vars PROVE TypeOK'
  OBVIOUS
<1>1. CASE UNCHANGED vars
  BY <1>1 DEF vars, uVars, envVars, history, TypeOK
<1>2. CASE \E force \in BOOLEAN : Begin(force)
  BY <1>2, BeginTyped
<1>3. CASE \E r \in Reg : UndoKey(r)
  BY <1>3, UndoKeyTyped
<1>4. CASE UndoPlugin \/ UndoPluginFails
  BY <1>4, UndoPluginsTyped
<1>5. CASE (\E r \in Reg : UndoKeyFails(r)) \/ HostDone \/ FinishFails \/ FinalDone \/ FilesGo
  BY <1>5, OtherStepsTyped
<1>6. CASE \E f \in Files : FinalLooks(f)
  BY <1>6, FinalLooksTyped
<1>7. CASE Restore \/ Unlink
  BY <1>7, RestoreTyped
<1>8. CASE Incomplete \/ Unledger
  BY <1>8, EndsTyped
<1>9. CASE Trust
  BY <1>9, TrustTyped
<1>10. CASE Kill
  BY <1>10, KillTyped
<1>11. CASE \E k \in (Registrable \ {Required}) \cup Untyped, v \in {Absent, Later} : EditKey(k, v)
  BY <1>11, EditKeyTyped
<1>12. CASE \E f \in Files : Delete(f) \/ Garble(f) \/ Repair(f)
  BY <1>12, FileStepsTyped
<1> QED
  BY <1>1, <1>2, <1>3, <1>4, <1>5, <1>6, <1>7, <1>8, <1>9, <1>10, <1>11, <1>12, StepsAre

\* The uninstall, the trust command and the user keep the types.
THEOREM TypeCorrect == Spec => []TypeOK
BY TypeInit, TypeKept, PTL DEF Spec

-----------------------------------------------------------------------------
(* Whatever is omm's is accounted for, while a command runs, too.          *)

\* The keys NothingForgotten speaks of.
Counted == Registrable \ ({Required} \cup untold)

IsOmms(k) == Value(FileOf(k), k) = Omm

HasReg(regs, k) == \E r \in regs : r.key = k

\* What an uninstall still knows of: while nothing has failed it has a step for
\* each value of omm's, and when it finishes the files there is none; what
\* failed is in the ledger it is going to save.
UninstallKnows ==
    pc \in Working =>
        /\ plan.todo \subseteq left.regs /\ left.regs \subseteq saved.regs
        /\ pc # "host" => plan.todo = {}
        /\ \A k \in Counted : IsOmms(k) => HasReg(left.regs, k)
        /\ pc \in {"final", "finish"} \/ ~failed =>
            \A k \in Counted : IsOmms(k) => HasReg(plan.todo, k)

\* What it has read of a file before it writes it once more is free of omm.
ReadsClean ==
    pc = "finish" /\ seen.doc # NoFile =>
        \A k \in Counted : FileOf(k) = seen.file => seen.doc.text[k] # Omm

\* No prior is a value of omm's, nor is what is about to become one.
PriorsAreOthers ==
    /\ saved # NoLedger => \A r \in saved.regs : r.prior # Omm
    /\ pc \in Trusting /\ seen.doc # NoFile => seen.doc.text[seen.key] # Omm

Accounted == NothingForgotten /\ UninstallKnows /\ ReadsClean /\ PriorsAreOthers

LEMMA AccountedInit == Init => Accounted
<1> SUFFICES ASSUME Init PROVE Accounted
  OBVIOUS
<1>1. pc = "idle"
  BY DEF Init
<1>2. saved # NoLedger
  BY InitIs, UninstallAssumption
<1> QED
  BY <1>1, <1>2, InitIs
  DEF Accounted, NothingForgotten, UninstallKnows, ReadsClean, PriorsAreOthers, Working, Trusting

\* A step of somebody else: nothing new of omm's, and the commands stay where
\* they are.
LEMMA OthersKeep ==
    ASSUME TypeOK, Accounted, UNCHANGED <<saved, uVars>>,
           \A k \in Counted' : IsOmms(k)' => k \in Counted /\ IsOmms(k),
           pc = "finish" => untold' = untold
    PROVE  Accounted'
<1>1. NothingForgotten'
  BY DEF Accounted, NothingForgotten, Counted, IsOmms, KnownTo, uVars
<1>2. UninstallKnows'
  BY DEF Accounted, UninstallKnows, HasReg, uVars
<1>3. ReadsClean'
  BY DEF Accounted, ReadsClean, Counted, uVars
<1>4. PriorsAreOthers'
  BY DEF Accounted, PriorsAreOthers, uVars
<1> QED
  BY <1>1, <1>2, <1>3, <1>4 DEF Accounted

LEMMA UserKeeps ==
    ASSUME TypeOK, Accounted,
           \/ \E k \in (Registrable \ {Required}) \cup Untyped, v \in {Absent, Later} : EditKey(k, v)
           \/ \E f \in Files : Delete(f) \/ Garble(f) \/ Repair(f)
    PROVE  Accounted'
<1>1. CASE \E k \in (Registrable \ {Required}) \cup Untyped, v \in {Absent, Later} : EditKey(k, v)
  <2>1. PICK k \in (Registrable \ {Required}) \cup Untyped, v \in {Absent, Later} : EditKey(k, v)
    BY <1>1
  <2>2. UNCHANGED <<saved, uVars>> /\ untold' = Told({k})
    BY <2>1 DEF EditKey, Edit
  <2>3. \A j \in Counted' : IsOmms(j)' => j \in Counted /\ IsOmms(j)
    BY <2>1, <2>2, ToldIs, EditKeyTyped DEF Counted, IsOmms
  <2>4. pc = "finish" => untold' = untold
    BY <2>2 DEF Told, Uninstalling
  <2> QED
    BY <2>2, <2>3, <2>4, OthersKeep
<1>2. CASE \E f \in Files : Delete(f) \/ Garble(f) \/ Repair(f)
  <2>1. PICK f \in Files : Delete(f) \/ Garble(f) \/ Repair(f)
    BY <1>2
  <2>2. \A k \in Counted' : IsOmms(k)' => k \in Counted /\ IsOmms(k)
    <3> SUFFICES ASSUME NEW k \in Counted', IsOmms(k)' PROVE k \in Counted /\ IsOmms(k)
      OBVIOUS
    <3>1. k \in Registrable \ {Required} /\ k \notin untold' /\ Absent # Omm
      BY UninstallAssumption DEF Counted
    <3>2. IsOmms(k)
      BY <2>1, <3>1, FileStepsTyped DEF IsOmms
    <3>3. k \notin untold
      BY <2>1, <3>1, FileStepsTyped, ToldIs DEF IsOmms
    <3> QED
      BY <3>1, <3>2, <3>3 DEF Counted
  <2>3. pc = "finish" => untold' = untold
    BY <2>1, FileStepsTyped DEF Uninstalling, Told
  <2> QED
    BY <2>1, <2>2, <2>3, FileStepsTyped, OthersKeep
<1> QED
  BY <1>1, <1>2

LEMMA BeginKeeps ==
    ASSUME TypeOK, Accounted, NEW force \in BOOLEAN, Begin(force)
    PROVE  Accounted'
<1>1. /\ pc = "idle" /\ saved # NoLedger /\ saved \in Ledger
      /\ plan' = MakePlan(force) /\ pc' = "host"
      /\ UNCHANGED <<disk, saved, untold>>
  BY DEF Begin, TypeOK
<1>2. left' = [saved EXCEPT !.regs = @ \ Dropped(force), !.plugin = MakePlan(force).plugin]
  BY DEF Begin
<1>3. left'.regs = saved.regs \ Dropped(force)
  BY <1>1, <1>2 DEF Ledger
<1>4. plan'.todo = Ours(force) \ Dropped(force) /\ Ours(force) \subseteq saved.regs
  BY <1>1, MakePlanIs
<1>5. ASSUME NEW k \in Counted, IsOmms(k) PROVE HasReg(plan'.todo, k)
  <2>1. k \in Registrable /\ k # Required /\ k \notin untold
    BY DEF Counted
  <2>2. KnownTo(k)
    BY <1>1, <1>5, <2>1 DEF IsOmms, Accounted, NothingForgotten
  <2>3. PICK r \in saved.regs : r.key = k
    BY <2>2 DEF KnownTo
  <2>4. disk[FileOf(k)] # NoFile /\ disk[FileOf(k)].text[k] = Omm
    BY <1>5, UninstallAssumption DEF IsOmms, Value
  <2>5. r \in Ours(force)
    BY <2>3, <2>4 DEF Ours, StillOurs
  <2>6. r \notin Dropped(force)
    BY <2>1, <2>3, <2>4 DEF Dropped, Gone, PredictKeep
  <2> QED
    BY <1>4, <2>3, <2>5, <2>6 DEF HasReg
<1>6. \A k \in Counted' : IsOmms(k)' => k \in Counted /\ IsOmms(k)
  BY <1>1 DEF Counted, IsOmms, Value
<1>7. UninstallKnows'
  BY <1>1, <1>3, <1>4, <1>5, <1>6 DEF UninstallKnows, HasReg
<1>8. NothingForgotten'
  BY <1>1 DEF Accounted, NothingForgotten, KnownTo, Value
<1> QED
  BY <1>1, <1>7, <1>8 DEF Accounted, ReadsClean, PriorsAreOthers, Trusting

\* A step of the uninstall: the ledger on disk stays, and accounts for what is
\* left as long as the one in memory does.
LEMMA WorkKeeps ==
    ASSUME TypeOK, Accounted, pc \in Working, pc' \in Working,
           UNCHANGED <<saved, untold>>, UninstallKnows', ReadsClean'
    PROVE  Accounted'
<1>1. NothingForgotten'
  <2> SUFFICES ASSUME NEW k \in Counted, IsOmms(k)' PROVE saved # NoLedger /\ KnownTo(k)
    BY DEF NothingForgotten, Counted, IsOmms, KnownTo
  <2>1. HasReg(left'.regs, k) /\ left'.regs \subseteq saved.regs
    BY DEF UninstallKnows, Counted, Working
  <2> QED
    BY <2>1 DEF HasReg, KnownTo, TypeOK, Working
<1>2. PriorsAreOthers'
  BY DEF Accounted, PriorsAreOthers, Working, Trusting
<1> QED
  BY <1>1, <1>2 DEF Accounted

LEMMA UndoKeyKeeps ==
    ASSUME TypeOK, Accounted, NEW r \in Reg, UndoKey(r)
    PROVE  Accounted'
<1>1. /\ pc = "host" /\ pc' = pc /\ plan \in Plan /\ left \in Ledger /\ r \in plan.todo
      /\ plan' = [plan EXCEPT !.todo = @ \ {r}] /\ left' = [left EXCEPT !.regs = @ \ {r}]
      /\ UNCHANGED <<saved, untold, failed, seen>>
      /\ disk' = IF Kept(r) THEN disk ELSE [disk EXCEPT ![FileOf(r.key)] = Patched(r)]
  BY DEF UndoKey, TypeOK, Working
<1>2. plan'.todo = plan.todo \ {r} /\ left'.regs = left.regs \ {r}
  BY <1>1 DEF Plan, Ledger
<1>3. /\ plan.todo \subseteq left.regs /\ left.regs \subseteq saved.regs
      /\ \A k \in Counted : IsOmms(k) => HasReg(left.regs, k)
      /\ ~failed => \A k \in Counted : IsOmms(k) => HasReg(plan.todo, k)
  BY <1>1 DEF Accounted, UninstallKnows, Working
<1>4. r.prior # Omm
  BY <1>1, <1>3 DEF Accounted, PriorsAreOthers, TypeOK, Working
<1>5. \A k \in Counted : IsOmms(k)' => IsOmms(k) /\ k # r.key
  <2> SUFFICES ASSUME NEW k \in Counted, IsOmms(k)' PROVE IsOmms(k) /\ k # r.key
    OBVIOUS
  <2>1. k \in Registrable /\ FileOf(k) \in Files /\ k \in Keys(FileOf(k)) /\ k # Required
    BY KeyOfFile DEF Counted
  <2>2. CASE Kept(r)
    BY <1>1, <2>1, <2>2 DEF Kept, IsOmms, Value
  <2>3. CASE ~Kept(r) /\ FileOf(k) # FileOf(r.key)
    BY <1>1, <2>1, <2>3 DEF TypeOK, IsOmms, Value
  <2>4. CASE ~Kept(r) /\ FileOf(k) = FileOf(r.key)
    <3>1. disk'[FileOf(k)] = Patched(r)
      BY <1>1, <2>1, <2>4 DEF TypeOK
    <3>2. Patched(r).text[k] = Omm
      BY <3>1, UninstallAssumption DEF IsOmms, Value
    <3> QED
      BY <1>4, <2>1, <2>4, <3>2, PatchedTyped, UninstallAssumption DEF IsOmms, Value
  <2> QED
    BY <2>2, <2>3, <2>4
<1>6. UninstallKnows'
  BY <1>1, <1>2, <1>3, <1>5 DEF UninstallKnows, HasReg, Counted
<1>7. ReadsClean'
  BY <1>1 DEF ReadsClean
<1> QED
  BY <1>1, <1>6, <1>7, WorkKeeps DEF Working

LEMMA UndoKeyFailsKeeps ==
    ASSUME TypeOK, Accounted, NEW r \in Reg, UndoKeyFails(r)
    PROVE  Accounted'
<1>1. /\ pc = "host" /\ pc' = pc /\ plan \in Plan
      /\ plan' = [plan EXCEPT !.todo = @ \ {r}] /\ failed' = TRUE
      /\ UNCHANGED <<disk, saved, left, untold, seen>>
  BY DEF UndoKeyFails, TypeOK, Working, Fault, Own, history
<1>2. plan'.todo = plan.todo \ {r}
  BY <1>1 DEF Plan
<1>3. UninstallKnows'
  BY <1>1, <1>2 DEF Accounted, UninstallKnows, Working, Counted, IsOmms, Value
<1> QED
  BY <1>1, <1>3, WorkKeeps DEF Working, ReadsClean

\* The host takes omm's plugin away and writes settings.json.
LEMMA UndoPluginKeeps ==
    ASSUME TypeOK, Accounted, UndoPlugin \/ UndoPluginFails
    PROVE  Accounted'
<1>1. /\ pc = "host" /\ pc' = pc /\ plan \in Plan /\ left \in Ledger
      /\ plan' = [plan EXCEPT !.plugin = FALSE]
      /\ left' \in {left, [left EXCEPT !.plugin = FALSE]}
      /\ UNCHANGED <<saved, untold, seen>>
      /\ failed' = failed \/ failed' = TRUE
      /\ disk' = disk \/ disk' = [disk EXCEPT !["settings"] = Rewritten(disk["settings"])]
  BY DEF UndoPlugin, UndoPluginFails, RemovesPlugin, Own, Fault, history, TypeOK, Working
<1>2. plan'.todo = plan.todo /\ left'.regs = left.regs
  BY <1>1 DEF Plan, Ledger
<1>3. \A k \in Counted : IsOmms(k)' => IsOmms(k)
  <2> SUFFICES ASSUME NEW k \in Counted, IsOmms(k)',
                      disk' = [disk EXCEPT !["settings"] = Rewritten(disk["settings"])]
               PROVE  IsOmms(k)
    BY <1>1 DEF IsOmms, Value
  <2>1. FileOf(k) \in Files /\ k \in Keys(FileOf(k)) /\ k \notin Untyped
    BY KeyOfFile, KeysOfFile DEF Counted
  <2>2. disk["settings"] \in Doc("settings") \cup {NoFile}
    BY DEF TypeOK, Files
  <2>3. CASE FileOf(k) # "settings"
    BY <2>1, <2>3 DEF TypeOK, IsOmms, Value
  <2>4. CASE FileOf(k) = "settings"
    <3>1. disk'["settings"] = Rewritten(disk["settings"])
      BY DEF TypeOK, Files
    <3> QED
      BY <2>1, <2>2, <2>4, <3>1, RewrittenIsDoc, UninstallAssumption DEF IsOmms, Value
  <2> QED
    BY <2>3, <2>4
<1>4. UninstallKnows'
  BY <1>1, <1>2, <1>3 DEF Accounted, UninstallKnows, Working, Counted
<1> QED
  BY <1>1, <1>4, WorkKeeps DEF Working, ReadsClean

\* The finishing of the files goes on, or ends.
LEMMA MovesKeep ==
    ASSUME TypeOK, Accounted,
           \/ HostDone \/ FinishFails \/ FinalDone \/ FilesGo
           \/ \E f \in Files : FinalLooks(f)
    PROVE  Accounted'
<1>1. /\ pc \in Working /\ pc' \in Working /\ plan \in Plan
      /\ UNCHANGED <<disk, saved, left, untold>>
      /\ failed' = failed \/ failed' = TRUE
  BY DEF HostDone, FinishFails, FinalDone, FilesGo, FinalLooks, Own, Fault, history, TypeOK, Working
<1>2. plan'.todo = plan.todo
  BY <1>1 DEF HostDone, FinishFails, FinalDone, FilesGo, FinalLooks, Plan
<1>3. /\ pc' # "host" => plan.todo = {}
      /\ pc' \in {"final", "finish"} \/ ~failed' => pc \in {"final", "finish"} \/ ~failed
  BY DEF HostDone, Deferred, FinishFails, FinalDone, FilesGo, FinalLooks, Own, Fault, Accounted,
         UninstallKnows, Working, TypeOK
<1>4. UninstallKnows'
  BY <1>1, <1>2, <1>3 DEF Accounted, UninstallKnows, Counted, IsOmms, Value
<1>5. ReadsClean'
  <2> SUFFICES ASSUME pc' = "finish", seen'.doc # NoFile, NEW k \in Counted,
                      FileOf(k) = seen'.file
               PROVE  seen'.doc.text[k] # Omm
    BY <1>1 DEF ReadsClean, Counted
  <2>1. /\ pc = "final" /\ seen'.doc = disk[seen'.file] /\ plan.todo = {}
    BY DEF HostDone, FinishFails, FinalDone, FilesGo, FinalLooks, Accounted, UninstallKnows, Working
  <2>2. ~HasReg(plan.todo, k)
    BY <2>1 DEF HasReg
  <2>3. ~IsOmms(k)
    BY <2>1, <2>2 DEF Accounted, UninstallKnows, Working
  <2> QED
    BY <2>1, <2>3 DEF IsOmms, Value
<1> QED
  BY <1>1, <1>4, <1>5, WorkKeeps

LEMMA RestoreKeeps ==
    ASSUME TypeOK, Accounted, Restore \/ Unlink
    PROVE  Accounted'
<1> DEFINE f == seen.file
<1>1. /\ pc = "finish" /\ pc' = "final" /\ plan \in Plan /\ left \in Ledger /\ f \in Files
      /\ left' = [left EXCEPT !.file[f] = None]
      /\ plan' = [plan EXCEPT !.shared[f] = FALSE, !.created = @ \ {f}]
      /\ UNCHANGED <<saved, failed, untold>>
  BY DEF Restore, Unlink, Finished, Own, history, TypeOK, Working
<1>2. plan'.todo = plan.todo /\ left'.regs = left.regs
  BY <1>1 DEF Plan, Ledger
<1>3. \A k \in Counted : IsOmms(k)' => IsOmms(k)
  <2> SUFFICES ASSUME NEW k \in Counted, IsOmms(k)' PROVE IsOmms(k)
    OBVIOUS
  <2>1. FileOf(k) \in Files /\ k \in Keys(FileOf(k)) /\ k \notin Untyped
    BY KeyOfFile, KeysOfFile DEF Counted
  <2>2. CASE FileOf(k) # f \/ disk' = disk
    BY <2>1, <2>2 DEF Restore, Unlink, TypeOK, IsOmms, Value
  <2>3. CASE FileOf(k) = f /\ disk' # disk /\ Restore
    <3>1. seen.doc # NoFile /\ disk'[f] = Outcome /\ plan.shared[f]
      BY <1>1, <2>3 DEF Restore, Unreadable, TypeOK
    <3>2. Outcome.text[k] = seen.doc.text[k]
      BY <1>1, <2>1, <2>3, <3>1, OutcomeIsDoc
    <3>3. seen.doc.text[k] # Omm
      BY <1>1, <2>3, <3>1 DEF Accounted, ReadsClean
    <3> QED
      BY <2>3, <3>1, <3>2, <3>3, UninstallAssumption DEF IsOmms, Value
  <2>4. CASE FileOf(k) = f /\ disk' # disk /\ Unlink
    BY <1>1, <2>4, UninstallAssumption DEF Unlink, TypeOK, IsOmms, Value
  <2> QED
    BY <2>2, <2>3, <2>4
<1>4. UninstallKnows'
  BY <1>1, <1>2, <1>3 DEF Accounted, UninstallKnows, Working, Counted
<1> QED
  BY <1>1, <1>4, WorkKeeps DEF Working, ReadsClean

\* Incomplete, what has failed is in the ledger; complete, nothing of omm's is
\* left for one.
LEMMA EndsKeep ==
    ASSUME TypeOK, Accounted, Incomplete \/ Unledger
    PROVE  Accounted'
<1>1. /\ pc = "end" /\ pc' = "idle" /\ left \in Ledger /\ UNCHANGED <<disk, untold>>
      /\ \/ failed /\ saved' = left
         \/ ~failed /\ saved' = NoLedger
  BY DEF Incomplete, Unledger, Stops, Own, history, TypeOK, Working
<1>2. /\ left.regs \subseteq saved.regs /\ plan.todo = {}
      /\ \A k \in Counted : IsOmms(k) => HasReg(left.regs, k)
      /\ ~failed => \A k \in Counted : ~IsOmms(k)
  BY <1>1 DEF Accounted, UninstallKnows, Working, HasReg
<1>3. left # NoLedger
  BY <1>1, UninstallAssumption
<1>4. NothingForgotten'
  BY <1>1, <1>2, <1>3 DEF NothingForgotten, KnownTo, HasReg, Counted, IsOmms, Value
<1>5. PriorsAreOthers'
  BY <1>1, <1>2 DEF Accounted, PriorsAreOthers, Trusting, TypeOK, Working
<1> QED
  BY <1>1, <1>4, <1>5 DEF Accounted, UninstallKnows, ReadsClean, Working

LEMMA TrustKeeps ==
    ASSUME TypeOK, Accounted, Trust
    PROVE  Accounted'
<1> USE DEF Working, Trusting
<1> SUFFICES ASSUME TRUE PROVE NothingForgotten' /\ PriorsAreOthers'
  BY DEF Trust, BeginTrust, CommitTrust, TrustRefused, RecordTrust,
         Accounted, UninstallKnows, ReadsClean
<1>1. ASSUME NEW k \in Projects, BeginTrust(k) PROVE NothingForgotten' /\ PriorsAreOthers'
  <2>1. /\ seen'.doc = disk["trust"] /\ seen'.key = k /\ pc = "idle" /\ pc' = "trust"
        /\ Holds(disk["trust"], k) => disk["trust"].text[k] # Omm
        /\ UNCHANGED <<disk, saved, untold>>
    BY <1>1 DEF BeginTrust, Own, history
  <2> QED
    BY <2>1, UninstallAssumption
    DEF Accounted, NothingForgotten, PriorsAreOthers, KnownTo, Value, Holds
<1>2. CASE CommitTrust
  <2>1. /\ disk["trust"] = seen.doc /\ disk' = [disk EXCEPT !["trust"] = Entrusted]
        /\ pc = "trust" /\ pc' = "trusted" /\ saved # NoLedger
        /\ UNCHANGED <<saved, seen, untold>>
    BY <1>2 DEF CommitTrust, TypeOK
  <2>2. /\ seen.key \in Projects /\ Entrusted \in Doc("trust")
        /\ \A j \in Projects : j # seen.key => Entrusted.text[j] =
                IF seen.doc = NoFile THEN Absent ELSE seen.doc.text[j]
    BY <2>1, PatchIsDoc, KeysOfFile, ValsAre DEF Entrusted, TypeOK, Files
  <2>3. \A k \in Counted : IsOmms(k)' => IsOmms(k) \/ k = seen.key
    <3> SUFFICES ASSUME NEW k \in Counted, IsOmms(k)', k # seen.key PROVE IsOmms(k)
      OBVIOUS
    <3>1. FileOf(k) \in Files /\ k \in Keys(FileOf(k))
      BY KeyOfFile DEF Counted
    <3>2. CASE FileOf(k) # "trust"
      BY <2>1, <3>1, <3>2 DEF TypeOK, IsOmms, Value
    <3>3. CASE FileOf(k) = "trust"
      <4>1. k \in Projects /\ disk'["trust"] = Entrusted
        BY <2>1, <3>1, <3>3, KeysOfFile DEF TypeOK, Files
      <4> QED
        BY <2>1, <2>2, <3>3, <4>1, UninstallAssumption DEF IsOmms, Value
    <3> QED
      BY <3>2, <3>3
  <2>4. \A k \in Counted : IsOmms(k) => KnownTo(k)
    BY <2>1 DEF Accounted, NothingForgotten, Counted, IsOmms
  <2> QED
    BY <2>1, <2>3, <2>4 DEF Accounted, NothingForgotten, PriorsAreOthers, Counted, IsOmms, KnownTo
<1>3. CASE TrustRefused
  BY <1>3 DEF TrustRefused, Own, history, Accounted, NothingForgotten, PriorsAreOthers, KnownTo, Value
<1>4. CASE RecordTrust
  <2>1. /\ pc = "trusted" /\ pc' = "idle" /\ saved \in Ledger
        /\ saved' = [saved EXCEPT !.regs = WithTrust(@), !.file["trust"] = WithFile(@)]
        /\ UNCHANGED disk /\ untold' = untold \ {seen.key}
    BY <1>4 DEF RecordTrust, TypeOK
  <2>2. saved'.regs = WithTrust(saved.regs) /\ saved' # NoLedger
    <3>1. saved'.regs = WithTrust(saved.regs)
      BY <2>1 DEF Ledger
    <3>2. saved' \in Ledger
      BY <1>4, RecordTyped
    <3> QED
      BY <3>1, <3>2, UninstallAssumption
  <2>3. /\ saved.regs \subseteq WithTrust(saved.regs) /\ HasReg(WithTrust(saved.regs), seen.key)
        /\ \A r \in WithTrust(saved.regs) : r.prior # Omm
    <3>1. \A r \in saved.regs : r.prior # Omm
      BY <2>1 DEF Accounted, PriorsAreOthers, TypeOK
    <3>2. (IF Holds(seen.doc, seen.key) THEN seen.doc.text[seen.key] ELSE Absent) # Omm
      BY <2>1, UninstallAssumption DEF Holds, Accounted, PriorsAreOthers
    <3> DEFINE prior == IF Holds(seen.doc, seen.key) THEN seen.doc.text[seen.key] ELSE Absent
    <3>3. WithTrust(saved.regs) = IF KnownTo(seen.key) THEN saved.regs
                                  ELSE saved.regs \cup {[key |-> seen.key, prior |-> prior]}
      BY DEF WithTrust
    <3>4. prior # Omm
      BY <3>2
    <3> HIDE DEF prior
    <3>5. CASE KnownTo(seen.key)
      BY <3>1, <3>3, <3>5 DEF HasReg, KnownTo
    <3>6. CASE ~KnownTo(seen.key)
      <4> DEFINE new == [key |-> seen.key, prior |-> prior]
      <4>1. new.key = seen.key /\ new.prior # Omm
        BY <3>4
      <4>2. WithTrust(saved.regs) = saved.regs \cup {new}
        BY <3>3, <3>6
      <4> HIDE DEF new
      <4> QED
        BY <3>1, <4>1, <4>2 DEF HasReg
    <3> QED
      BY <3>5, <3>6
  <2>4. NothingForgotten'
    <3> SUFFICES ASSUME NEW k \in Counted', IsOmms(k)' PROVE KnownTo(k)'
      BY <2>2 DEF NothingForgotten, Counted, IsOmms
    <3>1. CASE k = seen.key
      BY <2>2, <2>3, <3>1 DEF HasReg, KnownTo
    <3>2. CASE k # seen.key
      <4>1. k \in Counted /\ IsOmms(k)
        BY <2>1, <3>2 DEF Counted, IsOmms, Value
      <4>2. KnownTo(k)
        BY <3>2, <4>1 DEF Accounted, NothingForgotten, Counted, IsOmms
      <4> QED
        BY <2>2, <2>3, <4>2 DEF KnownTo
    <3> QED
      BY <3>1, <3>2
  <2> QED
    BY <2>1, <2>2, <2>3, <2>4 DEF PriorsAreOthers
<1> QED
  BY <1>1, <1>2, <1>3, <1>4 DEF Trust

\* Killed between the commit of the trust entry and the record, omm leaves one
\* that nothing tells of; anywhere else the ledger on disk says all.
LEMMA KillKeeps ==
    ASSUME TypeOK, Accounted, Kill
    PROVE  Accounted'
<1>1. /\ pc' = "idle" /\ UNCHANGED <<disk, saved>>
      /\ untold' = IF pc = "trusted" /\ ~KnownTo(seen.key) THEN untold \cup {seen.key} ELSE untold
  BY DEF Kill, Stops
<1>2. saved # NoLedger
  BY DEF Kill, TypeOK
<1>3. NothingForgotten'
  BY <1>1, <1>2 DEF Accounted, NothingForgotten, KnownTo, Value
<1> QED
  BY <1>1, <1>3 DEF Accounted, UninstallKnows, ReadsClean, PriorsAreOthers, Working, Trusting

LEMMA AccountedKept == TypeOK /\ Accounted /\ [Next]_vars => Accounted'
<1> SUFFICES ASSUME TypeOK, Accounted, [Next]_vars PROVE Accounted'
  OBVIOUS
<1>1. CASE UNCHANGED vars
  BY <1>1, OthersKeep DEF vars, history, Counted, IsOmms, Value
<1>2. CASE \E force \in BOOLEAN : Begin(force)
  BY <1>2, BeginKeeps
<1>3. CASE \E r \in Reg : UndoKey(r)
  BY <1>3, UndoKeyKeeps
<1>4. CASE \E r \in Reg : UndoKeyFails(r)
  BY <1>4, UndoKeyFailsKeeps
<1>5. CASE UndoPlugin \/ UndoPluginFails
  BY <1>5, UndoPluginKeeps
<1>6. CASE HostDone \/ FinishFails \/ FinalDone \/ FilesGo \/ \E f \in Files : FinalLooks(f)
  BY <1>6, MovesKeep
<1>7. CASE Restore \/ Unlink
  BY <1>7, RestoreKeeps
<1>8. CASE Incomplete \/ Unledger
  BY <1>8, EndsKeep
<1>9. CASE Trust
  BY <1>9, TrustKeeps
<1>10. CASE Kill
  BY <1>10, KillKeeps
<1>11. CASE \/ \E k \in (Registrable \ {Required}) \cup Untyped, v \in {Absent, Later} : EditKey(k, v)
            \/ \E f \in Files : Delete(f) \/ Garble(f) \/ Repair(f)
  BY <1>11, UserKeeps
<1> QED
  BY <1>1, <1>2, <1>3, <1>4, <1>5, <1>6, <1>7, <1>8, <1>9, <1>10, <1>11, StepsAre

\* Whatever fails, is killed, edited, forced or trusted again, and over however
\* many runs, the ledger on disk accounts for every value of omm's in a shared
\* file (NothingForgotten).
THEOREM LedgerForgetsNothing == Spec => []NothingForgotten
<1>1. TypeOK /\ Accounted => NothingForgotten
  BY DEF Accounted
<1> QED
  BY <1>1, TypeInit, TypeKept, AccountedInit, AccountedKept, PTL DEF Spec

-----------------------------------------------------------------------------
(* Every key ends as it is due.                                            *)

OnDisk(k) == Value(FileOf(k), k)
DueOf(k)  == Due(FileOf(k), k)

\* The keys whose file was not edited under a running uninstall.
Undisturbed == {k \in Registrable \ {Required} : FileOf(k) \notin late}

\* A key of omm's has, in the ledger, the value that is due to it; any other
\* has it on the disk.
PriorIsDue(k) ==
    /\ OnDisk(k) # Omm => OnDisk(k) = DueOf(k)
    /\ OnDisk(k) = Omm /\ saved # NoLedger =>
        \A r \in saved.regs : r.key = k => r.prior = DueOf(k)

OnePrior == saved # NoLedger => \A r, s \in saved.regs : r.key = s.key => r = s

\* What is still to undo is there to be undone, and is omm's without --force.
TodoStands ==
    pc = "host" =>
        \A r \in plan.todo : r.key \in Undisturbed =>
            /\ disk[FileOf(r.key)] # NoFile
            /\ ~plan.force /\ disk[FileOf(r.key)].json => OnDisk(r.key) = Omm

\* What was read of a file is what is in it.
ReadsStand == pc = "finish" /\ seen.file \notin late => disk[seen.file] = seen.doc

\* Before a project that omm trusts is in the ledger, the command has its prior.
TrustedPrior(k) == IF seen.doc = NoFile THEN Absent ELSE seen.doc.text[k]

TrustRemembers ==
    pc = "trusted" =>
        (seen.key \in Undisturbed /\ ~KnownTo(seen.key) /\ OnDisk(seen.key) = Omm =>
            TrustedPrior(seen.key) = DueOf(seen.key))

DueKept ==
    /\ \A k \in Undisturbed : PriorIsDue(k)
    /\ OnePrior /\ TodoStands /\ ReadsStand /\ TrustRemembers

LEMMA InitKeysDue ==
    ASSUME Init
    PROVE  (\A k \in Registrable : PriorIsDue(k)) /\ OnePrior
  BY InitIs, UninstallAssumption DEF PriorIsDue, OnePrior, OnDisk, DueOf

LEMMA DueInit == Init => DueKept
<1> SUFFICES ASSUME Init PROVE DueKept
  OBVIOUS
<1>1. pc = "idle"
  BY DEF Init
<1>2. (\A k \in Registrable : PriorIsDue(k)) /\ OnePrior
  BY InitKeysDue
<1> QED
  BY <1>1, <1>2 DEF DueKept, Undisturbed, TodoStands, ReadsStand, TrustRemembers

\* The keys and the ledger stay as they are.
LEMMA PriorsStand ==
    ASSUME DueKept, late \subseteq late', saved' = saved,
           \A k \in Undisturbed' : OnDisk(k)' = OnDisk(k) /\ DueOf(k)' = DueOf(k)
    PROVE  (\A k \in Undisturbed' : PriorIsDue(k)') /\ OnePrior'
<1>1. Undisturbed' \subseteq Undisturbed
  BY DEF Undisturbed
<1> QED
  BY <1>1 DEF DueKept, PriorIsDue, OnePrior

\* The ledger loses registrations.
LEMMA PriorsFall ==
    ASSUME DueKept, saved # NoLedger, late \subseteq late',
           saved' # NoLedger => saved'.regs \subseteq saved.regs,
           \A k \in Undisturbed' : OnDisk(k)' = OnDisk(k) /\ DueOf(k)' = DueOf(k)
    PROVE  (\A k \in Undisturbed' : PriorIsDue(k)') /\ OnePrior'
<1>1. Undisturbed' \subseteq Undisturbed
  BY DEF Undisturbed
<1> QED
  BY <1>1 DEF DueKept, PriorIsDue, OnePrior

LEMMA BeginDue ==
    ASSUME TypeOK, Accounted, DueKept, NEW force \in BOOLEAN, Begin(force)
    PROVE  DueKept'
<1>1. /\ saved # NoLedger /\ plan' = MakePlan(force) /\ pc' = "host"
      /\ UNCHANGED <<disk, saved, due, late>>
  BY DEF Begin
<1>2. plan'.todo = Ours(force) \ Dropped(force) /\ Ours(force) \subseteq saved.regs /\ plan'.force = force
  <2>1. MakePlan(force).force = force
    BY DEF MakePlan
  <2> QED
    BY <1>1, <2>1, MakePlanIs
<1>3. TodoStands'
  <2> SUFFICES ASSUME NEW r \in plan'.todo
               PROVE  /\ disk[FileOf(r.key)] # NoFile
                      /\ ~force /\ disk[FileOf(r.key)].json => OnDisk(r.key) = Omm
    BY <1>1, <1>2 DEF TodoStands, OnDisk, Value
  <2>1. disk[FileOf(r.key)] # NoFile
    BY <1>2 DEF Dropped, Gone
  <2> QED
    BY <1>2, <2>1 DEF Ours, StillOurs, OnDisk, Value
<1>4. (\A k \in Undisturbed' : PriorIsDue(k)') /\ OnePrior'
  BY <1>1, PriorsStand DEF OnDisk, DueOf, Value, Due
<1> QED
  BY <1>1, <1>3, <1>4 DEF DueKept, ReadsStand, TrustRemembers

LEMMA DueForcedIs ==
    ASSUME TypeOK, NEW r \in Reg, due' = DueForced(r)
    PROVE  /\ \A k \in Registrable : k # r.key => DueOf(k)' = DueOf(k)
           /\ ~StillOurs(r) => DueOf(r.key)' = r.prior
           /\ StillOurs(r) => due' = due
<1> DEFINE f == FileOf(r.key)
           was == IF due[f] = NoFile THEN Blank(f).text ELSE due[f]
<1>1. f \in Files /\ r.key \in Keys(f) /\ r.prior \in Vals
  BY KeyOfFile DEF Reg
<1>2. was \in [Keys(f) -> Vals] /\ \A j \in Keys(f) : was[j] = Due(f, j)
  BY <1>1, BlankIsDoc DEF TypeOK, Doc, Due
<1>3. due' = IF StillOurs(r) \/ was[r.key] = r.prior THEN due
             ELSE [due EXCEPT ![f] = [was EXCEPT ![r.key] = r.prior]]
  BY DEF DueForced
<1> HIDE DEF was, f
<1>4. CASE StillOurs(r)
  BY <1>3, <1>4 DEF DueOf, Due
<1>5. CASE ~StillOurs(r) /\ was[r.key] = r.prior
  BY <1>1, <1>2, <1>3, <1>5 DEF DueOf, Due, f
<1>6. CASE ~StillOurs(r) /\ was[r.key] # r.prior
  <2>1. [was EXCEPT ![r.key] = r.prior] \in [Keys(f) -> Vals]
    BY <1>1, <1>2
  <2>2. /\ due'[f] = [was EXCEPT ![r.key] = r.prior] /\ due'[f] # NoFile
        /\ \A g \in Files : g # f => due'[g] = due[g]
    BY <1>1, <1>3, <1>6, <2>1, NoFileApart DEF TypeOK
  <2>3. DueOf(r.key)' = r.prior
    BY <1>1, <1>2, <2>2 DEF DueOf, Due, f
  <2>4. ASSUME NEW k \in Registrable, k # r.key PROVE DueOf(k)' = DueOf(k)
    <3>1. FileOf(k) \in Files /\ k \in Keys(FileOf(k))
      BY KeyOfFile
    <3>2. CASE FileOf(k) = f
      BY <1>1, <1>2, <2>2, <2>4, <3>1, <3>2 DEF DueOf, Due
    <3>3. CASE FileOf(k) # f
      BY <2>2, <3>1, <3>3 DEF DueOf, Due
    <3> QED
      BY <3>2, <3>3
  <2> QED
    BY <1>6, <2>3, <2>4
<1> QED
  BY <1>4, <1>5, <1>6

LEMMA UndoKeyDue ==
    ASSUME TypeOK, Accounted, DueKept, NEW r \in Reg, UndoKey(r)
    PROVE  DueKept'
<1>1. /\ pc = "host" /\ pc' = pc /\ plan \in Plan /\ r \in plan.todo /\ saved # NoLedger
      /\ plan' = [plan EXCEPT !.todo = @ \ {r}] /\ Readable(FileOf(r.key))
      /\ UNCHANGED <<saved, late>>
      /\ disk' = IF Kept(r) THEN disk ELSE [disk EXCEPT ![FileOf(r.key)] = Patched(r)]
      /\ due' = IF plan.force THEN DueForced(r) ELSE due
  BY DEF UndoKey, TypeOK, Working
<1>2. plan'.todo = plan.todo \ {r} /\ plan'.force = plan.force
  BY <1>1 DEF Plan
<1>3. plan.todo \subseteq saved.regs
  BY <1>1 DEF Accounted, UninstallKnows, Working
<1>4. FileOf(r.key) \in Files /\ disk'[FileOf(r.key)] = IF Kept(r) THEN disk[FileOf(r.key)] ELSE Patched(r)
  BY <1>1, PatchedTyped DEF TypeOK
<1>5. ASSUME NEW k \in Registrable, k # r.key
      PROVE  OnDisk(k)' = OnDisk(k) /\ DueOf(k)' = DueOf(k)
  <2>1. FileOf(k) \in Files /\ k \in Keys(FileOf(k))
    BY KeyOfFile
  <2>2. OnDisk(k)' = OnDisk(k)
    <3>1. CASE Kept(r)
      BY <1>1, <3>1 DEF OnDisk, Value
    <3>2. CASE ~Kept(r) /\ FileOf(k) # FileOf(r.key)
      BY <1>1, <2>1, <3>2 DEF TypeOK, OnDisk, Value
    <3>3. CASE ~Kept(r) /\ FileOf(k) = FileOf(r.key)
      <4>1. /\ Patched(r) # NoFile
            /\ Patched(r).text[k] = IF disk[FileOf(k)] = NoFile THEN Absent ELSE disk[FileOf(k)].text[k]
        BY <1>5, <2>1, <3>3, PatchedTyped, NoFileApart
      <4> QED
        BY <1>4, <3>3, <4>1 DEF OnDisk, Value
    <3> QED
      BY <3>1, <3>2, <3>3
  <2>3. DueOf(k)' = DueOf(k)
    BY <1>1, <1>5, DueForcedIs DEF DueOf, Due
  <2> QED
    BY <2>2, <2>3
<1>6. ASSUME r.key \in Undisturbed
      PROVE  OnDisk(r.key)' = r.prior /\ DueOf(r.key)' = r.prior
  <2>1. r.key # Required /\ ~Kept(r)
    BY <1>6 DEF Undisturbed, Kept
  <2>2. OnDisk(r.key)' = r.prior
    BY <1>4, <2>1, PatchedTyped, NoFileApart DEF OnDisk, Value
  <2>3. disk[FileOf(r.key)] # NoFile /\ disk[FileOf(r.key)].json
    BY <1>1, <1>6 DEF DueKept, TodoStands, Readable
  <2>4. CASE plan.force /\ ~StillOurs(r)
    BY <1>1, <2>2, <2>4, DueForcedIs
  <2>5. CASE ~plan.force \/ StillOurs(r)
    <3>1. OnDisk(r.key) = Omm
      BY <1>1, <1>6, <2>3, <2>5 DEF DueKept, TodoStands, StillOurs, OnDisk, Value
    <3>2. r.prior = DueOf(r.key)
      BY <1>1, <1>3, <1>6, <3>1 DEF DueKept, PriorIsDue
    <3>3. DueOf(r.key)' = DueOf(r.key)
      BY <1>1, <2>5, DueForcedIs DEF DueOf, Due
    <3> QED
      BY <2>2, <3>2, <3>3
  <2> QED
    BY <2>4, <2>5
<1>7. ASSUME NEW k \in Undisturbed' PROVE PriorIsDue(k)'
  <2>1. k \in Undisturbed /\ k \in Registrable
    BY <1>1 DEF Undisturbed
  <2>2. CASE k # r.key
    BY <1>1, <1>5, <2>1, <2>2 DEF DueKept, PriorIsDue
  <2>3. CASE k = r.key
    <3>1. r.prior # Omm
      BY <1>1, <1>3 DEF Accounted, PriorsAreOthers
    <3> QED
      BY <1>6, <2>1, <2>3, <3>1 DEF PriorIsDue
  <2> QED
    BY <2>2, <2>3
<1>8. TodoStands'
  <2> SUFFICES ASSUME NEW q \in plan.todo, q # r, q.key \in Undisturbed
               PROVE  /\ disk'[FileOf(q.key)] # NoFile
                      /\ ~plan.force /\ disk'[FileOf(q.key)].json => OnDisk(q.key)' = Omm
    BY <1>1, <1>2 DEF TodoStands, Undisturbed
  <2>1. q.key # r.key /\ q.key \in Registrable /\ FileOf(q.key) \in Files
    BY <1>1, <1>3, KeyOfFile DEF DueKept, OnePrior, Undisturbed
  <2>2. /\ disk[FileOf(q.key)] # NoFile
        /\ ~plan.force /\ disk[FileOf(q.key)].json => OnDisk(q.key) = Omm
    BY <1>1 DEF DueKept, TodoStands
  <2>3. CASE FileOf(q.key) # FileOf(r.key) \/ Kept(r)
    BY <1>1, <1>5, <2>1, <2>2, <2>3 DEF TypeOK
  <2>4. CASE FileOf(q.key) = FileOf(r.key) /\ ~Kept(r)
    <3>1. disk'[FileOf(q.key)] # NoFile /\ disk[FileOf(q.key)].json
      BY <1>1, <1>4, <2>2, <2>4, PatchedTyped, NoFileApart DEF Readable
    <3> QED
      BY <1>5, <2>1, <2>2, <3>1
  <2> QED
    BY <2>3, <2>4
<1> QED
  BY <1>1, <1>7, <1>8 DEF DueKept, OnePrior, ReadsStand, TrustRemembers

LEMMA UndoKeyFailsDue ==
    ASSUME TypeOK, Accounted, DueKept, NEW r \in Reg, UndoKeyFails(r)
    PROVE  DueKept'
<1>1. /\ pc = "host" /\ pc' = pc /\ plan \in Plan /\ plan' = [plan EXCEPT !.todo = @ \ {r}]
      /\ UNCHANGED <<disk, saved, due, late>>
  BY DEF UndoKeyFails, TypeOK, Working, Fault, Own, history
<1>2. plan'.todo \subseteq plan.todo /\ plan'.force = plan.force
  BY <1>1 DEF Plan
<1>3. TodoStands'
  BY <1>1, <1>2 DEF DueKept, TodoStands, Undisturbed, OnDisk, Value
<1>4. (\A k \in Undisturbed' : PriorIsDue(k)') /\ OnePrior'
  BY <1>1, PriorsStand DEF OnDisk, DueOf, Value, Due
<1> QED
  BY <1>1, <1>3, <1>4 DEF DueKept, ReadsStand, TrustRemembers

LEMMA UndoPluginDue ==
    ASSUME TypeOK, Accounted, DueKept, UndoPlugin \/ UndoPluginFails
    PROVE  DueKept'
<1> DEFINE new == Rewritten(disk["settings"])
<1>1. /\ pc = "host" /\ pc' = pc /\ plan \in Plan
      /\ plan' = [plan EXCEPT !.plugin = FALSE]
      /\ UNCHANGED <<saved, due, late>>
      /\ disk' = disk \/ disk' = [disk EXCEPT !["settings"] = new]
  BY DEF UndoPlugin, UndoPluginFails, RemovesPlugin, Own, Fault, history, TypeOK, Working
<1>2. plan'.todo = plan.todo /\ plan'.force = plan.force
  BY <1>1 DEF Plan
<1>3. /\ "settings" \in Files /\ disk["settings"] \in Doc("settings") \cup {NoFile}
      /\ new \in Doc("settings") /\ new # NoFile
      /\ \A k \in Keys("settings") \ Untyped : new.text[k] =
            IF disk["settings"] = NoFile THEN Absent ELSE disk["settings"].text[k]
  BY RewrittenIsDoc, NoFileApart DEF TypeOK, Files
<1>4. disk["settings"] # NoFile => new.json = disk["settings"].json
  BY <1>3 DEF Rewritten, Doc
<1> HIDE DEF new
<1>5. \A k \in Registrable : OnDisk(k)' = OnDisk(k) /\ DueOf(k)' = DueOf(k)
  <2> TAKE k \in Registrable
  <2>1. FileOf(k) \in Files /\ k \in Keys(FileOf(k)) /\ k \notin Untyped
    BY KeyOfFile, KeysOfFile
  <2>2. CASE FileOf(k) # "settings" \/ disk' = disk
    BY <1>1, <2>1, <2>2 DEF TypeOK, OnDisk, Value, DueOf, Due
  <2>3. CASE FileOf(k) = "settings" /\ disk' = [disk EXCEPT !["settings"] = new]
    <3>1. disk'["settings"] = new
      BY <1>3, <2>3 DEF TypeOK
    <3> QED
      BY <1>1, <1>3, <2>1, <2>3, <3>1 DEF OnDisk, Value, DueOf, Due
  <2> QED
    BY <1>1, <2>2, <2>3
<1>6. \A f \in Files : disk[f] # NoFile => disk'[f] # NoFile /\ disk'[f].json = disk[f].json
  BY <1>1, <1>3, <1>4 DEF TypeOK
<1>7. TodoStands'
  BY <1>1, <1>2, <1>5, <1>6, KeyOfFile DEF DueKept, TodoStands, Undisturbed
<1>8. (\A k \in Undisturbed' : PriorIsDue(k)') /\ OnePrior'
  BY <1>1, <1>5, PriorsStand DEF Undisturbed
<1> QED
  BY <1>1, <1>7, <1>8 DEF DueKept, ReadsStand, TrustRemembers

LEMMA MovesDue ==
    ASSUME TypeOK, Accounted, DueKept,
           \/ HostDone \/ FinishFails \/ FinalDone \/ FilesGo
           \/ \E f \in Files : FinalLooks(f)
    PROVE  DueKept'
<1>1. /\ pc' \in {"final", "finish", "files", "end"}
      /\ UNCHANGED <<disk, saved, due, late>>
      /\ pc' = "finish" => seen'.doc = disk[seen'.file]
  BY DEF HostDone, FinishFails, FinalDone, FilesGo, FinalLooks, Own, Fault, history
<1>2. (\A k \in Undisturbed' : PriorIsDue(k)') /\ OnePrior'
  BY <1>1, PriorsStand DEF OnDisk, DueOf, Value, Due
<1> QED
  BY <1>1, <1>2 DEF DueKept, TodoStands, ReadsStand, TrustRemembers

LEMMA RestoreDue ==
    ASSUME TypeOK, Accounted, DueKept, Restore \/ Unlink
    PROVE  DueKept'
<1> DEFINE f == seen.file
<1>1. /\ pc = "finish" /\ pc' = "final" /\ f \in Files
      /\ UNCHANGED <<saved, due>> /\ late \subseteq late'
      /\ \A g \in Files : g # f => disk'[g] = disk[g]
  BY DEF Restore, Unlink, Finished, Own, history, TypeOK
<1>2. \A k \in Undisturbed' : OnDisk(k)' = OnDisk(k) /\ DueOf(k)' = DueOf(k)
  <2> TAKE k \in Undisturbed'
  <2>1. FileOf(k) \in Files /\ k \in Keys(FileOf(k)) /\ k \notin Untyped
    BY KeyOfFile, KeysOfFile DEF Undisturbed
  <2>2. DueOf(k)' = DueOf(k)
    BY <1>1 DEF DueOf, Due
  <2>3. CASE FileOf(k) # f \/ disk'[f] = disk[f]
    BY <1>1, <2>1, <2>2, <2>3 DEF OnDisk, Value
  <2>4. CASE FileOf(k) = f /\ disk'[f] # disk[f]
    <3>1. disk[f] = seen.doc
      BY <1>1, <2>4 DEF Undisturbed, DueKept, ReadsStand
    <3>2. CASE Restore
      <4>1. seen.doc # NoFile /\ disk'[f] = Outcome /\ plan.shared[f]
        BY <1>1, <2>4, <3>2 DEF Restore, Unreadable, TypeOK
      <4>2. Outcome.text[k] = seen.doc.text[k] /\ Outcome # NoFile
        BY <1>1, <2>1, <2>4, <4>1, OutcomeIsDoc, NoFileApart
      <4> QED
        BY <2>2, <2>4, <3>1, <4>1, <4>2 DEF OnDisk, Value
    <3>3. CASE Unlink
      <4>1. seen.doc # NoFile /\ IsEmpty(seen.doc) /\ disk'[f] = NoFile
        BY <1>1, <2>4, <3>3 DEF Unlink, TypeOK
      <4>2. seen.doc.text[k] = Absent
        BY <1>1, <2>1, <2>4, <4>1 DEF IsEmpty, TypeOK, Doc
      <4> QED
        BY <2>2, <2>4, <3>1, <4>1, <4>2 DEF OnDisk, Value
    <3> QED
      BY <3>2, <3>3
  <2> QED
    BY <2>3, <2>4
<1>3. (\A k \in Undisturbed' : PriorIsDue(k)') /\ OnePrior'
  BY <1>1, <1>2, PriorsStand
<1> QED
  BY <1>1, <1>3 DEF DueKept, TodoStands, ReadsStand, TrustRemembers

LEMMA EndsDue ==
    ASSUME TypeOK, Accounted, DueKept, Incomplete \/ Unledger
    PROVE  DueKept'
<1>1. /\ pc' = "idle" /\ saved # NoLedger /\ UNCHANGED <<disk, due, late>>
      /\ saved' # NoLedger => saved'.regs \subseteq saved.regs
  BY DEF Incomplete, Unledger, Stops, Own, history, TypeOK, Accounted, UninstallKnows, Working
<1>2. (\A k \in Undisturbed' : PriorIsDue(k)') /\ OnePrior'
  BY <1>1, PriorsFall DEF OnDisk, DueOf, Value, Due
<1> QED
  BY <1>1, <1>2 DEF DueKept, TodoStands, ReadsStand, TrustRemembers

LEMMA KillDue ==
    ASSUME TypeOK, Accounted, DueKept, Kill
    PROVE  DueKept'
<1>1. pc' = "idle" /\ UNCHANGED <<disk, saved, due, late>>
  BY DEF Kill, Stops
<1>2. (\A k \in Undisturbed' : PriorIsDue(k)') /\ OnePrior'
  BY <1>1, PriorsStand DEF OnDisk, DueOf, Value, Due
<1> QED
  BY <1>1, <1>2 DEF DueKept, TodoStands, ReadsStand, TrustRemembers

LEMMA UserDue ==
    ASSUME TypeOK, Accounted, DueKept,
           \/ \E k \in (Registrable \ {Required}) \cup Untyped, v \in {Absent, Later} : EditKey(k, v)
           \/ \E f \in Files : Delete(f) \/ Garble(f) \/ Repair(f)
    PROVE  DueKept'
<1>1. ASSUME NEW f \in Files,
             UNCHANGED <<saved, uVars>>,
             late' = IF Uninstalling THEN late \cup {f} ELSE late,
             \A g \in Files : g # f => disk'[g] = disk[g],
             \A k \in Registrable \ {Required} :
                \/ OnDisk(k)' = OnDisk(k) /\ DueOf(k)' = DueOf(k)
                \/ FileOf(k) = f /\ OnDisk(k)' = DueOf(k)' /\ OnDisk(k)' # Omm
      PROVE  DueKept'
  <2>1. Undisturbed' \subseteq Undisturbed /\ \A k \in Undisturbed : k \in Registrable \ {Required}
    BY <1>1 DEF Undisturbed
  <2>2. \A k \in Undisturbed' : PriorIsDue(k)'
    BY <1>1, <2>1 DEF DueKept, PriorIsDue
  <2>3. TodoStands'
    <3> SUFFICES ASSUME pc = "host", NEW r \in plan.todo, r.key \in Undisturbed'
                 PROVE  /\ disk'[FileOf(r.key)] # NoFile
                        /\ ~plan.force /\ disk'[FileOf(r.key)].json => OnDisk(r.key)' = Omm
      BY <1>1 DEF TodoStands, uVars
    <3>1. FileOf(r.key) # f /\ FileOf(r.key) \in Files
      BY <1>1, KeyOfFile DEF Undisturbed, Uninstalling
    <3> QED
      BY <1>1, <2>1, <3>1 DEF DueKept, TodoStands, OnDisk, Value
  <2>4. ReadsStand'
    BY <1>1 DEF DueKept, ReadsStand, uVars, Uninstalling, TypeOK
  <2>5. TrustRemembers'
    BY <1>1, <2>1 DEF DueKept, TrustRemembers, TrustedPrior, KnownTo, uVars
  <2>6. OnePrior'
    BY <1>1 DEF DueKept, OnePrior
  <2> QED
    BY <2>2, <2>3, <2>4, <2>5, <2>6 DEF DueKept
<1>2. CASE \E k \in (Registrable \ {Required}) \cup Untyped, v \in {Absent, Later} : EditKey(k, v)
  <2>1. PICK k \in (Registrable \ {Required}) \cup Untyped, v \in {Absent, Later} : EditKey(k, v)
    BY <1>2
  <2>2. /\ UNCHANGED <<saved, uVars>>
        /\ late' = IF Uninstalling THEN late \cup {FileOf(k)} ELSE late
    BY <2>1 DEF EditKey, Edit
  <2>3. FileOf(k) \in Files
    BY KeyOfFile
  <2>4. /\ \A j \in Registrable \ {Required, k} : OnDisk(j)' = OnDisk(j) /\ DueOf(j)' = DueOf(j)
        /\ OnDisk(k)' = v /\ DueOf(k)' = v /\ v # Omm
        /\ \A g \in Files : g # FileOf(k) => disk'[g] = disk[g]
    BY <2>1, EditKeyTyped DEF OnDisk, DueOf
  <2> QED
    BY <1>1, <2>2, <2>3, <2>4
<1>3. CASE \E f \in Files : Delete(f) \/ Garble(f) \/ Repair(f)
  <2>1. PICK f \in Files : Delete(f) \/ Garble(f) \/ Repair(f)
    BY <1>3
  <2>2. late' = IF Uninstalling THEN late \cup {f} ELSE late
    BY <2>1 DEF Delete, Garble, Repair, Edit
  <2>3. \A k \in Registrable :
            \/ OnDisk(k)' = OnDisk(k) /\ DueOf(k)' = DueOf(k)
            \/ FileOf(k) = f /\ OnDisk(k)' = Absent /\ DueOf(k)' = Absent
    <3>1. \A k \in Registrable : k \in Keys(f) => FileOf(k) = f
      BY KeysOfFile DEF Files
    <3> QED
      BY <2>1, <3>1, FileStepsTyped DEF OnDisk, DueOf
  <2>4. UNCHANGED <<saved, uVars>> /\ \A g \in Files : g # f => disk'[g] = disk[g]
    BY <2>1, FileStepsTyped
  <2> QED
    BY <1>1, <2>2, <2>3, <2>4, UninstallAssumption
<1> QED
  BY <1>2, <1>3

LEMMA CommitTrustDue ==
    ASSUME TypeOK, Accounted, DueKept, CommitTrust
    PROVE  DueKept'
<1>0. PICK k0 : k0 = seen.key
  OBVIOUS
<1> DEFINE was == IF due["trust"] = NoFile THEN Blank("trust").text ELSE due["trust"]
           first == (CHOOSE r \in saved.regs : r.key = k0).prior
<1>1. /\ disk["trust"] = seen.doc /\ disk' = [disk EXCEPT !["trust"] = Entrusted]
      /\ due' = DueAgain /\ pc = "trust" /\ pc' = "trusted"
      /\ UNCHANGED <<saved, seen, late>>
      /\ saved \in Ledger /\ saved # NoLedger
  BY DEF CommitTrust, TypeOK, Trusting
<1>2. /\ "trust" \in Files /\ k0 \in Projects /\ k0 \in Registrable /\ FileOf(k0) = "trust"
      /\ k0 \in Keys("trust") /\ k0 # Required
  BY <1>0, <1>1, KeysOfFile DEF TypeOK, Trusting, Files
<1>3. /\ Entrusted \in Doc("trust") /\ Entrusted.text[k0] = Omm
      /\ \A j \in Projects : j # k0 => Entrusted.text[j] =
            IF seen.doc = NoFile THEN Absent ELSE seen.doc.text[j]
  <2>1. Entrusted = Patch("trust", seen.doc, k0, Omm)
    BY <1>0 DEF Entrusted
  <2>2. seen.doc \in Doc("trust") \cup {NoFile} /\ Omm \in Vals
    BY <1>1, ValsAre DEF TypeOK, Trusting
  <2> QED
    BY <1>2, <2>1, <2>2, PatchIsDoc, KeysOfFile
<1>4. Entrusted # NoFile /\ disk'["trust"] = Entrusted /\ \A g \in Files : g # "trust" => disk'[g] = disk[g]
  BY <1>1, <1>2, <1>3, NoFileApart DEF TypeOK
<1>5. OnDisk(k0)' = Omm /\ OnDisk(k0) = TrustedPrior(k0) /\ TrustedPrior(k0) # Omm
  BY <1>0, <1>1, <1>2, <1>3, <1>4, UninstallAssumption
  DEF OnDisk, Value, TrustedPrior, Accounted, PriorsAreOthers, Trusting
<1>6. was \in [Keys("trust") -> Vals] /\ \A j \in Keys("trust") : was[j] = Due("trust", j)
  BY <1>2, BlankIsDoc DEF TypeOK, Doc, Due
<1>7. KnownTo(k0) => first \in Vals /\ \A r \in saved.regs : r.key = k0 => r.prior = first
  BY <1>1 DEF KnownTo, Ledger, Reg, DueKept, OnePrior
<1>8. due' = IF ~KnownTo(k0) \/ was[k0] = first THEN due
             ELSE [due EXCEPT !["trust"] = [was EXCEPT ![k0] = first]]
  BY <1>0, <1>1 DEF DueAgain
<1> HIDE DEF was, first
<1>9. /\ \A k \in Registrable : k # k0 => DueOf(k)' = DueOf(k)
      /\ KnownTo(k0) => DueOf(k0)' = first
      /\ ~KnownTo(k0) => DueOf(k0)' = DueOf(k0)
  <2>1. CASE ~KnownTo(k0) \/ was[k0] = first
    BY <1>2, <1>6, <1>8, <2>1 DEF DueOf, Due
  <2>2. CASE KnownTo(k0) /\ was[k0] # first
    <3>1. [was EXCEPT ![k0] = first] \in [Keys("trust") -> Vals]
      BY <1>6, <1>7, <2>2
    <3>2. /\ due'["trust"] = [was EXCEPT ![k0] = first] /\ due'["trust"] # NoFile
          /\ \A g \in Files : g # "trust" => due'[g] = due[g]
      BY <1>2, <1>8, <2>2, <3>1, NoFileApart DEF TypeOK
    <3>3. DueOf(k0)' = first
      BY <1>2, <1>6, <3>2 DEF DueOf, Due
    <3>4. ASSUME NEW k \in Registrable, k # k0 PROVE DueOf(k)' = DueOf(k)
      <4>1. FileOf(k) \in Files /\ k \in Keys(FileOf(k))
        BY KeyOfFile
      <4>2. CASE FileOf(k) = "trust"
        BY <1>6, <3>2, <3>4, <4>1, <4>2 DEF DueOf, Due
      <4>3. CASE FileOf(k) # "trust"
        BY <3>2, <4>1, <4>3 DEF DueOf, Due
      <4> QED
        BY <4>2, <4>3
    <3> QED
      BY <2>2, <3>3, <3>4
  <2> QED
    BY <2>1, <2>2
<1>10. ASSUME NEW k \in Registrable, k # k0 PROVE OnDisk(k)' = OnDisk(k)
  <2>1. FileOf(k) \in Files /\ k \in Keys(FileOf(k))
    BY KeyOfFile
  <2>2. CASE FileOf(k) = "trust"
    <3>1. k \in Projects
      BY <2>1, <2>2, KeysOfFile
    <3> QED
      BY <1>1, <1>3, <1>4, <1>10, <2>2, <3>1 DEF OnDisk, Value
  <2>3. CASE FileOf(k) # "trust"
    BY <1>4, <2>1, <2>3 DEF OnDisk, Value
  <2> QED
    BY <2>2, <2>3
<1>11. ASSUME NEW k \in Undisturbed' PROVE PriorIsDue(k)'
  <2>1. k \in Undisturbed /\ k \in Registrable
    BY <1>1 DEF Undisturbed
  <2>2. CASE k # k0
    BY <1>1, <1>9, <1>10, <2>1, <2>2 DEF DueKept, PriorIsDue
  <2>3. CASE k = k0
    BY <1>1, <1>5, <1>7, <1>9, <2>1, <2>3 DEF PriorIsDue, KnownTo
  <2> QED
    BY <2>2, <2>3
<1>12. TrustRemembers'
  <2> SUFFICES ASSUME k0 \in Undisturbed, ~KnownTo(k0)
               PROVE  TrustedPrior(k0) = DueOf(k0)'
    BY <1>0, <1>1 DEF TrustRemembers, Undisturbed, KnownTo, TrustedPrior
  <2> QED
    BY <1>5, <1>9 DEF DueKept, PriorIsDue
<1> QED
  BY <1>1, <1>11, <1>12 DEF DueKept, OnePrior, TodoStands, ReadsStand

LEMMA RecordTrustDue ==
    ASSUME TypeOK, Accounted, DueKept, RecordTrust
    PROVE  DueKept'
<1>1. /\ pc = "trusted" /\ pc' = "idle" /\ saved \in Ledger /\ saved # NoLedger
      /\ saved' = [saved EXCEPT !.regs = WithTrust(@), !.file["trust"] = WithFile(@)]
      /\ UNCHANGED <<disk, due, late>>
  BY DEF RecordTrust, TypeOK, Trusting
<1>2. saved'.regs = WithTrust(saved.regs)
  BY <1>1 DEF Ledger
<1> DEFINE prior == IF Holds(seen.doc, seen.key) THEN seen.doc.text[seen.key] ELSE Absent
           new == [key |-> seen.key, prior |-> prior]
<1>3. WithTrust(saved.regs) = IF KnownTo(seen.key) THEN saved.regs ELSE saved.regs \cup {new}
  BY DEF WithTrust
<1>4. new.key = seen.key /\ new.prior = TrustedPrior(seen.key)
  BY DEF TrustedPrior, Holds
<1> HIDE DEF new
<1>5. OnePrior'
  BY <1>1, <1>2, <1>3, <1>4 DEF DueKept, OnePrior, KnownTo
<1>6. ASSUME NEW k \in Undisturbed' PROVE PriorIsDue(k)'
  <2>1. k \in Undisturbed /\ OnDisk(k)' = OnDisk(k) /\ DueOf(k)' = DueOf(k)
    BY <1>1 DEF Undisturbed, OnDisk, DueOf, Value, Due
  <2>2. PriorIsDue(k)
    BY <2>1 DEF DueKept
  <2>3. ASSUME OnDisk(k) = Omm, NEW r \in saved'.regs, r.key = k PROVE r.prior = DueOf(k)
    <3>1. CASE r \in saved.regs
      BY <1>1, <2>2, <2>3, <3>1 DEF PriorIsDue
    <3>2. CASE r \notin saved.regs
      <4>1. r = new /\ ~KnownTo(seen.key)
        BY <1>2, <1>3, <2>3, <3>2
      <4> QED
        BY <1>1, <1>4, <2>1, <2>3, <4>1 DEF DueKept, TrustRemembers
    <3> QED
      BY <3>1, <3>2
  <2> QED
    BY <2>1, <2>2, <2>3 DEF PriorIsDue
<1> QED
  BY <1>1, <1>5, <1>6 DEF DueKept, TodoStands, ReadsStand, TrustRemembers

LEMMA TrustDue ==
    ASSUME TypeOK, Accounted, DueKept, Trust
    PROVE  DueKept'
<1>1. CASE (\E k \in Projects : BeginTrust(k)) \/ TrustRefused
  <2>1. pc' \in {"trust", "idle"} /\ UNCHANGED <<disk, saved, due, late>>
    BY <1>1 DEF BeginTrust, TrustRefused, Own, history
  <2>2. (\A k \in Undisturbed' : PriorIsDue(k)') /\ OnePrior'
    BY <2>1, PriorsStand DEF OnDisk, DueOf, Value, Due
  <2> QED
    BY <2>1, <2>2 DEF DueKept, TodoStands, ReadsStand, TrustRemembers
<1> QED
  BY <1>1, CommitTrustDue, RecordTrustDue DEF Trust

LEMMA DueStays == TypeOK /\ Accounted /\ DueKept /\ [Next]_vars => DueKept'
<1> SUFFICES ASSUME TypeOK, Accounted, DueKept, [Next]_vars PROVE DueKept'
  OBVIOUS
<1>1. CASE UNCHANGED vars
  <2>1. UNCHANGED <<disk, saved, pc, plan, seen, due, late>>
    BY <1>1 DEF vars, uVars, history
  <2>2. (\A k \in Undisturbed' : PriorIsDue(k)') /\ OnePrior'
    BY <2>1, PriorsStand DEF OnDisk, DueOf, Value, Due
  <2> QED
    BY <2>1, <2>2 DEF DueKept, TodoStands, ReadsStand, TrustRemembers, TrustedPrior, Undisturbed,
                      OnDisk, DueOf, Value, Due, KnownTo
<1>2. CASE \E force \in BOOLEAN : Begin(force)
  BY <1>2, BeginDue
<1>3. CASE \E r \in Reg : UndoKey(r)
  BY <1>3, UndoKeyDue
<1>4. CASE \E r \in Reg : UndoKeyFails(r)
  BY <1>4, UndoKeyFailsDue
<1>5. CASE UndoPlugin \/ UndoPluginFails
  BY <1>5, UndoPluginDue
<1>6. CASE HostDone \/ FinishFails \/ FinalDone \/ FilesGo \/ \E f \in Files : FinalLooks(f)
  BY <1>6, MovesDue
<1>7. CASE Restore \/ Unlink
  BY <1>7, RestoreDue
<1>8. CASE Incomplete \/ Unledger
  BY <1>8, EndsDue
<1>9. CASE Trust
  BY <1>9, TrustDue
<1>10. CASE Kill
  BY <1>10, KillDue
<1>11. CASE \/ \E k \in (Registrable \ {Required}) \cup Untyped, v \in {Absent, Later} : EditKey(k, v)
            \/ \E f \in Files : Delete(f) \/ Garble(f) \/ Repair(f)
  BY <1>11, UserDue
<1> QED
  BY <1>1, <1>2, <1>3, <1>4, <1>5, <1>6, <1>7, <1>8, <1>9, <1>10, <1>11, StepsAre

\* When an uninstall is complete every key omm could have set is the user's:
\* in every file not edited under the running uninstall, and with no project
\* trusted without the ledger's knowledge.
KeysEndAsDue ==
    [][Unledger =>
        \A f \in Files \ late : untold \cap Keys(f) = {} => KeysSettled(f)]_vars

\* Whatever failed, was killed, edited or forced on the way, and over however
\* many runs, a complete uninstall leaves each key as the user had it, or has
\* set it since (the part of EndsAsBefore about keys).
THEOREM KeysGoBack == Spec => KeysEndAsDue
<1>1. TypeOK /\ Accounted /\ DueKept /\ [Next]_vars =>
        [Unledger => \A f \in Files \ late : untold \cap Keys(f) = {} => KeysSettled(f)]_vars
  <2> SUFFICES ASSUME TypeOK, Accounted, DueKept, Unledger,
                      NEW f \in Files \ late, untold \cap Keys(f) = {},
                      NEW k \in Keys(f) \ (Untyped \cup {Required})
               PROVE  Value(f, k)' = Due(f, k)
    BY DEF KeysSettled
  <2>1. k \in Registrable /\ FileOf(k) = f /\ k \notin untold
    BY KeysOfFile DEF Files, Registrable
  <2>2. k \in Counted /\ k \in Undisturbed
    BY <2>1 DEF Counted, Undisturbed
  <2>3. ~IsOmms(k)
    BY <2>2 DEF Unledger, Accounted, UninstallKnows, Working, HasReg
  <2>4. Value(f, k) = Due(f, k)
    BY <2>1, <2>2, <2>3 DEF DueKept, PriorIsDue, OnDisk, DueOf, IsOmms
  <2> QED
    BY <2>4 DEF Unledger, Value
<1> QED
  BY <1>1, TypeInit, TypeKept, AccountedInit, AccountedKept, DueInit, DueStays, PTL
  DEF Spec, KeysEndAsDue
=============================================================================
