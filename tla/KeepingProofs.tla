--------------------------- MODULE KeepingProofs ---------------------------
(***************************************************************************)
(* Proofs about four of the components that keep what is the user's, or    *)
(* the author's: managed skills (Skills), the build of the packages with   *)
(* its check (Build), doctor's fix of the ledger (Repair), and which file  *)
(* an id stands for (Overlay). They share no state.                        *)
(***************************************************************************)
EXTENDS Skills, Build, Repair, Overlay, SequenceTheorems, FiniteSetTheorems,
        WellFoundedInduction, TLAPS

-----------------------------------------------------------------------------
\* Skills: the types. What the ledger says, and what a command read of the
\* source, is shipped content; what the user writes is not.

Digests == {s[f] : s \in Shipped, f \in SkillFiles} \cup {NoContent}
Texts == Digests \cup {UserText}
Shops == [kind : {"none", "dir", "link"}, files : [AllFiles -> Texts]]

\* The step a command is at, with those still to do.
Stage(at, todo) ==
    \/ at = "host uninstall" /\ todo \in {<<"host install", "record">>, <<"files">>}
    \/ at = "host install" /\ todo = <<"record">>
    \/ at = "record" /\ todo = <<>>
    \/ at = "files" /\ todo \in {<<>>, <<"clear">>}
    \/ at = "clear" /\ todo \in {<<>>, <<"host install", "record">>}

Jobs == [cmd : {"install", "update", "reconcile", "uninstall"},
         at : {"host uninstall", "host install", "record", "files", "clear"},
         todo : {<<>>, <<"record">>, <<"files">>, <<"clear">>, <<"host install", "record">>},
         flags : SUBSET {"force", "reconcile"}, blind : BOOLEAN,
         plan : [AllFiles -> Texts], book : [SkillFiles -> Digests],
         want : Shipped, got : Shipped, late : BOOLEAN, failed : BOOLEAN]

SkillsTypeOK ==
    /\ source \in Shipped
    /\ store \in Shops /\ (store.kind = "none" => store.files = Bare)
    /\ provenance \in BOOLEAN /\ hasLedger \in BOOLEAN /\ complete \in BOOLEAN
    /\ ledgered \in [SkillFiles -> Digests]
    /\ job = NoJob \/ (job \in Jobs /\ Stage(job.at, job.todo))
    /\ sTally \in [edits : Nat, jobs : Nat]

-----------------------------------------------------------------------------
\* Skills: what the steps of a command may take for granted as long as nothing
\* changed since it began.

\* What the host's verb takes was compared, and none of it is the user's.
ComparedIsOmms ==
    job # NoJob /\ job.at = "host uninstall" /\ ~job.late /\ job.flags = {} =>
        \A f \in Compared(job) : store.files[f] # UserText

\* What is cleared is an orphan, and no file of one is the user's.
ClearedIsOmms ==
    job # NoJob /\ (job.at = "clear" \/ (job.at = "files" /\ job.todo # <<>>)) /\ ~job.late =>
        \A f \in AllFiles : store.files[f] # UserText

\* Without --force nothing of the user's is planned to go.
PlannedIsOmms ==
    job # NoJob /\ "force" \notin job.flags => \A f \in AllFiles : job.plan[f] # UserText

\* All of what the ledger named, or else of what the source ships, is there.
Ours == IF job.book # NoEntries THEN job.book ELSE source
OursIsThere(ours) ==
    /\ store.kind = "dir" /\ store.files[Main] # NoContent
    /\ \A f \in AllFiles : \/ store.files[f] = NoContent
                           \/ f \in SkillFiles /\ store.files[f] = ours[f]

\* When an uninstall comes to the files, the host has taken the skill, or
\* nothing is planned to go, because the skill is not omm's.
RestIsNotOurs ==
    job # NoJob /\ job.at = "files" /\ job.todo = <<>> /\ ~job.late /\ ~job.blind /\ ~job.failed =>
        \/ store.files[Main] = NoContent
        \/ job.plan = Bare /\ ~OursIsThere(Ours)

\* Who is at which step.
StepsOfCommands ==
    job # NoJob =>
        /\ job.at = "files" \/ job.todo = <<"files">> => job.cmd = "uninstall"
        /\ job.cmd # "uninstall" => job.flags = {}

SkillsKept ==
    /\ ComparedIsOmms /\ ClearedIsOmms /\ PlannedIsOmms /\ RestIsNotOurs /\ StepsOfCommands
-----------------------------------------------------------------------------
\* Skills: lemmas about the model's operators.

LEMMA DigestsAreOmms ==
    /\ NoContent \in Digests /\ UserText \notin Digests /\ Digests \subseteq Texts
    /\ \A s \in Shipped : s \in [SkillFiles -> Digests] /\ s[Main] # NoContent
    /\ Bare \in [AllFiles -> Texts] /\ NoEntries \in [SkillFiles -> Digests]
    /\ SkillFiles \subseteq AllFiles /\ Main \in SkillFiles /\ Extra \in AllFiles \ SkillFiles
    /\ \A f \in AllFiles : Bare[f] = NoContent
    /\ \A f \in SkillFiles : NoEntries[f] = NoContent
<1>1. NoContent \in Digests /\ UserText \notin Digests /\ Digests \subseteq Texts
  BY SkillAssumption DEF Digests, Texts
<1>2. ASSUME NEW s \in Shipped PROVE s \in [SkillFiles -> Digests] /\ s[Main] # NoContent
  <2>1. s = [f \in SkillFiles |-> s[f]] /\ s[Main] # NoContent  BY SkillAssumption
  <2>2. \A f \in SkillFiles : s[f] \in Digests  BY DEF Digests
  <2> QED BY <2>1, <2>2
<1> QED BY <1>1, <1>2, SkillAssumption DEF Bare, NoEntries, AllFiles, Texts

\* A directory has the files it is made of, and no other.
LEMMA DirsAreShops ==
    ASSUME NEW g, NEW S \in SUBSET AllFiles, g \in [S -> Texts]
    PROVE  /\ DirOf(g) \in Shops /\ DirOf(g).kind = "dir"
           /\ \A f \in AllFiles : DirOf(g).files[f] = IF f \in S THEN g[f] ELSE NoContent
<1> DEFINE all == [f \in AllFiles |-> IF f \in DOMAIN g THEN g[f] ELSE NoContent]
<1>1. \A f \in AllFiles : all[f] = IF f \in S THEN g[f] ELSE NoContent  OBVIOUS
<1>2. all \in [AllFiles -> Texts]  BY DigestsAreOmms
<1>3. DirOf(g) = [kind |-> "dir", files |-> all]  BY DEF DirOf
<1> HIDE DEF all
<1> QED BY <1>1, <1>2, <1>3 DEF Shops

\* The steps a command may have to do.
Beginnings ==
    {<<>>, <<"host uninstall", "host install", "record">>, <<"host install", "record">>,
     <<"record">>, <<"clear", "host install", "record">>,
     <<"host uninstall", "files">>, <<"files">>, <<"files", "clear">>, <<"clear">>}

LEMMA TailOfThree ==
    ASSUME NEW x, NEW y, NEW z PROVE Tail(<<x, y, z>>) = <<y, z>>
<1>1. <<x, y, z>> \in Seq({x, y, z}) /\ <<y, z>> \in Seq({x, y, z})  OBVIOUS
<1>2. Tail(<<x, y, z>>) \in Seq({x, y, z})  BY <1>1
<1>3. Len(Tail(<<x, y, z>>)) = 2 /\ Len(<<y, z>>) = 2  BY <1>1
<1>4. Tail(<<x, y, z>>)[1] = y /\ Tail(<<x, y, z>>)[2] = z  BY <1>1
<1> QED BY <1>1, <1>2, <1>3, <1>4, SeqEqual

LEMMA HeadsAndTails ==
    /\ Head(<<"host uninstall", "host install", "record">>) = "host uninstall"
    /\ Tail(<<"host uninstall", "host install", "record">>) = <<"host install", "record">>
    /\ Head(<<"clear", "host install", "record">>) = "clear"
    /\ Tail(<<"clear", "host install", "record">>) = <<"host install", "record">>
    /\ Head(<<"host install", "record">>) = "host install"
    /\ Tail(<<"host install", "record">>) = <<"record">>
    /\ Head(<<"host uninstall", "files">>) = "host uninstall"
    /\ Tail(<<"host uninstall", "files">>) = <<"files">>
    /\ Head(<<"files", "clear">>) = "files" /\ Tail(<<"files", "clear">>) = <<"clear">>
    /\ Head(<<"files">>) = "files" /\ Tail(<<"files">>) = <<>>
    /\ Head(<<"record">>) = "record" /\ Tail(<<"record">>) = <<>>
    /\ Head(<<"clear">>) = "clear" /\ Tail(<<"clear">>) = <<>>
    /\ <<"clear">> # <<>> /\ <<"files">> # <<>> /\ <<"record">> # <<>>
    /\ <<"host install", "record">> # <<>> /\ <<"host install", "record">> # <<"files">>
<1>1. /\ Tail(<<"host uninstall", "host install", "record">>) = <<"host install", "record">>
      /\ Tail(<<"clear", "host install", "record">>) = <<"host install", "record">>
  BY TailOfThree, Zenon
<1>2. /\ Head(<<"host uninstall", "host install", "record">>) = "host uninstall"
      /\ Head(<<"clear", "host install", "record">>) = "clear"
      /\ Head(<<"host install", "record">>) = "host install"
      /\ Tail(<<"host install", "record">>) = <<"record">>
      /\ Head(<<"host uninstall", "files">>) = "host uninstall"
      /\ Tail(<<"host uninstall", "files">>) = <<"files">>
  OBVIOUS
<1>3. /\ Head(<<"files", "clear">>) = "files" /\ Tail(<<"files", "clear">>) = <<"clear">>
      /\ Head(<<"files">>) = "files" /\ Tail(<<"files">>) = <<>>
      /\ Head(<<"record">>) = "record" /\ Tail(<<"record">>) = <<>>
      /\ Head(<<"clear">>) = "clear" /\ Tail(<<"clear">>) = <<>>
      /\ <<"clear">> # <<>> /\ <<"files">> # <<>> /\ <<"record">> # <<>>
      /\ <<"host install", "record">> # <<>>
  OBVIOUS
<1>4. <<"host install", "record">> # <<"files">>
  <2>1. Len(<<"host install", "record">>) = 2 /\ Len(<<"files">>) = 1  OBVIOUS
  <2> QED BY <2>1
<1> QED BY <1>1, <1>2, <1>3, <1>4, Zenon

LEMMA BeginningsAreStages ==
    ASSUME NEW steps \in Beginnings, steps # <<>>
    PROVE  /\ Stage(Head(steps), Tail(steps))
           /\ Head(steps) \in {"host uninstall", "host install", "record", "files", "clear"}
           /\ Tail(steps) \in {<<>>, <<"record">>, <<"files">>, <<"clear">>, <<"host install", "record">>}
BY HeadsAndTails, Zenon DEF Beginnings, Stage

\* A job goes on to its next stage, or ends.
LEMMA StagesFollow ==
    ASSUME NEW j \in Jobs, Stage(j.at, j.todo), Proceed(j)
    PROVE  \/ j.todo = <<>> /\ job' = NoJob
           \/ /\ j.todo # <<>> /\ job' \in Jobs /\ Stage(job'.at, job'.todo)
              /\ job' = [j EXCEPT !.at = Head(j.todo), !.todo = Tail(j.todo)]
<1>1. CASE j.todo = <<>>  BY <1>1 DEF Proceed
<1>2. CASE j.todo # <<>>
  <2>1. job' = [j EXCEPT !.at = Head(j.todo), !.todo = Tail(j.todo)]  BY <1>2 DEF Proceed
  <2>2. j.todo \in {<<"record">>, <<"files">>, <<"clear">>, <<"host install", "record">>}
    BY <1>2 DEF Jobs
  <2>3. /\ Head(j.todo) \in {"host uninstall", "host install", "record", "files", "clear"}
        /\ Tail(j.todo) \in {<<>>, <<"record">>, <<"files">>, <<"clear">>, <<"host install", "record">>}
        /\ Stage(Head(j.todo), Tail(j.todo))
    <3>1. j.todo \in Beginnings  BY <2>2, Zenon DEF Beginnings
    <3> QED BY <1>2, <3>1, BeginningsAreStages
  <2>4. job' \in Jobs /\ job'.at = Head(j.todo) /\ job'.todo = Tail(j.todo)
    BY <2>1, <2>3 DEF Jobs
  <2> QED BY <1>2, <2>1, <2>3, <2>4
<1> QED BY <1>1, <1>2

\* A job begun is typed, at its first stage, and knows what the command read.
Begun(cmd, steps, flags, blind, plan) ==
    /\ job = NoJob /\ complete' = FALSE /\ sTally' \in [edits : Nat, jobs : Nat]
    /\ sTally' # sTally
    /\ \/ steps = <<>> /\ job' = NoJob
       \/ /\ steps # <<>> /\ job' \in Jobs /\ Stage(job'.at, job'.todo)
          /\ job'.at = Head(steps) /\ job'.todo = Tail(steps)
          /\ job'.cmd = cmd /\ job'.flags = flags /\ job'.blind = blind
          /\ job'.plan = plan /\ job'.book = ledgered
          /\ job'.want = source /\ ~job'.failed

LEMMA BeginsWell ==
    ASSUME SkillsTypeOK, NEW cmd \in {"install", "update", "reconcile", "uninstall"},
           NEW steps \in Beginnings, NEW flags \in SUBSET {"force", "reconcile"},
           NEW blind \in BOOLEAN, NEW plan \in [AllFiles -> Texts],
           Begin(cmd, steps, flags, blind, plan)
    PROVE  Begun(cmd, steps, flags, blind, plan)
<1>1. job = NoJob /\ complete' = FALSE /\ sTally' = [sTally EXCEPT !.jobs = @ + 1]
  BY DEF Begin
<1>2. sTally' \in [edits : Nat, jobs : Nat] /\ sTally' # sTally
  BY <1>1 DEF SkillsTypeOK
<1>3. CASE steps = <<>>  BY <1>1, <1>2, <1>3 DEF Begin, Begun
<1>4. CASE steps # <<>>
  <2>1. job' = [cmd |-> cmd, at |-> Head(steps), todo |-> Tail(steps),
                flags |-> flags, blind |-> blind, plan |-> plan, book |-> ledgered,
                want |-> source, got |-> source, late |-> FALSE, failed |-> FALSE]
    BY <1>4 DEF Begin
  <2>2. source \in Shipped /\ ledgered \in [SkillFiles -> Digests]  BY DEF SkillsTypeOK
  <2>3. job' \in Jobs  BY <1>4, <2>1, <2>2, BeginningsAreStages DEF Jobs
  <2> QED BY <1>1, <1>2, <1>4, <2>1, <2>3, BeginningsAreStages DEF Begun
<1> QED BY <1>3, <1>4
-----------------------------------------------------------------------------
\* Skills: what each command begins with.

LEMMA InstallBegins ==
    \/ InstallSteps = <<"host uninstall", "host install", "record">> /\ Vanished
    \/ InstallSteps = <<"clear", "host install", "record">> /\ Orphaned
    \/ InstallSteps \in {<<>>, <<"host install", "record">>, <<"record">>}
<1>1. CASE HasEntries /\ Vanished
  <2>1. InstallSteps = Reinstall(provenance)  BY <1>1 DEF InstallSteps
  <2> QED BY <1>1, <2>1 DEF Reinstall
<1>2. CASE HasEntries /\ ~Vanished  BY <1>2 DEF InstallSteps
<1>3. CASE ~HasEntries
  <2>1. CASE store.kind = "none"
    <3>1. InstallSteps = Reinstall(FALSE)  BY <1>3, <2>1 DEF InstallSteps, Orphaned
    <3> QED BY <3>1 DEF Reinstall
  <2>2. CASE store.kind # "none"  BY <1>3, <2>2 DEF InstallSteps, Orphaned
  <2> QED BY <2>1, <2>2
<1> QED BY <1>1, <1>2, <1>3

LEMMA UpdateBegins ==
    \/ /\ UpdateSteps = <<"host uninstall", "host install", "record">>
       /\ \A f \in ShippedBy(source) : Merge(f) # "stage"
    \/ UpdateSteps \in {<<>>, <<"host install", "record">>}
BY DEF UpdateSteps, Reinstall

LEMMA UninstallBegins ==
    ASSUME NEW flags \in SUBSET {"force", "reconcile"}, NEW blind \in BOOLEAN
    PROVE  \/ UndoSteps(flags, blind) = <<>>
           \/ /\ UndoSteps(flags, blind) = <<"host uninstall", "files">>
              /\ \/ HasEntries /\ ~KeptWhole(flags)
                 \/ ~HasEntries /\ "reconcile" \in flags
           \/ /\ UndoSteps(flags, blind) = <<"files", "clear">>
              /\ ~HasEntries /\ Orphaned
           \/ /\ UndoSteps(flags, blind) = <<"files">>
              /\ \/ HasEntries /\ KeptWhole(flags)
                 \/ HasEntries /\ ~KeptWhole(flags) /\ ~Listed
                 \/ ~HasEntries /\ blind
                 \/ ~HasEntries /\ Unknown = "none"
<1>1. CASE HasEntries /\ KeptWhole(flags)  BY <1>1 DEF UndoSteps
<1>2. CASE HasEntries /\ ~KeptWhole(flags)
  BY <1>2 DEF UndoSteps
<1>3. CASE ~HasEntries /\ blind  BY <1>3 DEF UndoSteps
<1>4. CASE ~HasEntries /\ ~blind
  <2>0. Unknown \in {"none", "host's", "orphan"} /\ (Unknown = "orphan" => Orphaned)
    BY DEF Unknown
  <2>1. CASE Unknown = "host's"  BY <1>4, <2>1 DEF UndoSteps
  <2>2. CASE Unknown = "orphan"  BY <1>4, <2>0, <2>2 DEF UndoSteps
  <2>3. CASE Unknown = "none"  BY <1>4, <2>3 DEF UndoSteps
  <2> QED BY <2>0, <2>1, <2>2, <2>3
<1> QED BY <1>1, <1>2, <1>3, <1>4
-----------------------------------------------------------------------------
\* Skills: every step keeps the types and the invariant. First the commands.

LEMMA IdleKeeps ==
    ASSUME job' = NoJob PROVE SkillsKept'
BY DEF SkillsKept, ComparedIsOmms, ClearedIsOmms, PlannedIsOmms, RestIsNotOurs, StepsOfCommands

LEMMA InstallKeeps ==
    ASSUME SkillsTypeOK, SkillsKept, InstallSkill
    PROVE  SkillsTypeOK' /\ SkillsKept'
<1>0. /\ Begin("install", InstallSteps, {}, FALSE, Bare)
      /\ UNCHANGED <<source, store, provenance, ledgered, hasLedger>>
  BY DEF InstallSkill
<1>1. InstallSteps \in Beginnings  BY InstallBegins, Zenon DEF Beginnings
<1>2. /\ complete' = FALSE /\ sTally' \in [edits : Nat, jobs : Nat]
      /\ \/ InstallSteps = <<>> /\ job' = NoJob
         \/ /\ InstallSteps # <<>> /\ job' \in Jobs /\ Stage(job'.at, job'.todo)
            /\ job'.at = Head(InstallSteps) /\ job'.todo = Tail(InstallSteps)
            /\ job'.cmd = "install" /\ job'.flags = {} /\ job'.plan = Bare
            /\ job'.want = source
  <2>1. {} \in SUBSET {"force", "reconcile"} /\ Bare \in [AllFiles -> Texts]  BY DigestsAreOmms
  <2>2. Begun("install", InstallSteps, {}, FALSE, Bare)  BY <1>0, <1>1, <2>1, BeginsWell, Zenon
  <2> QED BY <2>2 DEF Begun
<1>3. SkillsTypeOK'  BY <1>0, <1>2 DEF SkillsTypeOK, Shops, Bare
<1>4. CASE job' = NoJob  BY <1>3, <1>4, IdleKeeps
<1>5. CASE job' # NoJob
  <2>0. /\ job'.cmd = "install" /\ job'.flags = {} /\ job'.plan = Bare /\ job'.want = source
        /\ job'.at = Head(InstallSteps) /\ job'.todo = Tail(InstallSteps)
        /\ InstallSteps # <<>>
    BY <1>2, <1>5
  <2>1. /\ job'.at = "host uninstall" => Vanished
        /\ job'.at = "clear" => Orphaned
        /\ job'.at # "files" /\ job'.todo # <<"files">>
    BY <2>0, InstallBegins, HeadsAndTails, Zenon
  <2>2. ComparedIsOmms'
    <3> SUFFICES ASSUME job'.at = "host uninstall", NEW f \in Compared(job)' PROVE store'.files[f] # UserText
      BY DEF ComparedIsOmms
    <3>1. /\ f \in SkillFiles /\ ledgered[f] # NoContent /\ source[f] # NoContent
      BY <1>0, <2>0 DEF Compared
    <3>2. store.files[f] \in {NoContent, ledgered[f]}
      BY <2>1, <3>1 DEF Vanished, ShippedBy
    <3>3. ledgered[f] \in Digests  BY <3>1 DEF SkillsTypeOK
    <3> QED BY <1>0, <3>2, <3>3, DigestsAreOmms
  <2>3. ClearedIsOmms'
    <3> SUFFICES ASSUME job'.at = "clear", NEW f \in AllFiles PROVE store'.files[f] # UserText
      BY <2>1 DEF ClearedIsOmms
    <3>1. store.files[f] = NoContent \/ (f \in SkillFiles /\ store.files[f] = source[f])
      BY <2>1 DEF Orphaned, ShippedBy
    <3>2. f \in SkillFiles => source[f] \in Digests  BY DigestsAreOmms DEF SkillsTypeOK
    <3> QED BY <1>0, <3>1, <3>2, DigestsAreOmms
  <2>4. PlannedIsOmms'  BY <2>0, DigestsAreOmms DEF PlannedIsOmms
  <2>5. RestIsNotOurs' /\ StepsOfCommands'
    BY <2>0, <2>1 DEF RestIsNotOurs, StepsOfCommands
  <2> QED BY <1>3, <2>2, <2>3, <2>4, <2>5 DEF SkillsKept
<1> QED BY <1>4, <1>5

LEMMA UpdateKeeps ==
    ASSUME SkillsTypeOK, SkillsKept, UpdateSkill
    PROVE  SkillsTypeOK' /\ SkillsKept'
<1>0. /\ Begin("update", UpdateSteps, {}, FALSE, Bare)
      /\ UNCHANGED <<source, store, provenance, ledgered, hasLedger>>
  BY DEF UpdateSkill
<1>1. UpdateSteps \in Beginnings  BY UpdateBegins, Zenon DEF Beginnings
<1>2. /\ complete' = FALSE /\ sTally' \in [edits : Nat, jobs : Nat]
      /\ \/ UpdateSteps = <<>> /\ job' = NoJob
         \/ /\ UpdateSteps # <<>> /\ job' \in Jobs /\ Stage(job'.at, job'.todo)
            /\ job'.at = Head(UpdateSteps) /\ job'.todo = Tail(UpdateSteps)
            /\ job'.cmd = "update" /\ job'.flags = {} /\ job'.plan = Bare
            /\ job'.want = source
  <2>1. {} \in SUBSET {"force", "reconcile"} /\ Bare \in [AllFiles -> Texts]  BY DigestsAreOmms
  <2>2. Begun("update", UpdateSteps, {}, FALSE, Bare)  BY <1>0, <1>1, <2>1, BeginsWell, Zenon
  <2> QED BY <2>2 DEF Begun
<1>3. SkillsTypeOK'  BY <1>0, <1>2 DEF SkillsTypeOK, Shops, Bare
<1>4. CASE job' = NoJob  BY <1>3, <1>4, IdleKeeps
<1>5. CASE job' # NoJob
  <2>0. /\ job'.cmd = "update" /\ job'.flags = {} /\ job'.plan = Bare /\ job'.want = source
        /\ job'.at = Head(UpdateSteps) /\ job'.todo = Tail(UpdateSteps)
        /\ UpdateSteps # <<>>
    BY <1>2, <1>5
  <2>1. /\ job'.at = "host uninstall" => \A f \in ShippedBy(source) : Merge(f) # "stage"
        /\ job'.at # "clear" /\ job'.at # "files" /\ job'.todo # <<"files">>
    BY <2>0, UpdateBegins, HeadsAndTails, Zenon
  <2>2. ComparedIsOmms'
    <3> SUFFICES ASSUME job'.at = "host uninstall", NEW f \in Compared(job)' PROVE store'.files[f] # UserText
      BY DEF ComparedIsOmms
    <3>1. f \in SkillFiles /\ ledgered[f] # source[f] /\ source[f] # NoContent
      BY <1>0, <2>0 DEF Compared
    <3>2. Merge(f) # "stage"  BY <2>1, <3>1 DEF ShippedBy
    <3>3. store.files[f] \in {NoContent, ledgered[f], source[f]}
      BY <3>1, <3>2 DEF Merge
    <3>4. ledgered[f] \in Digests /\ source[f] \in Digests  BY <3>1, DigestsAreOmms DEF SkillsTypeOK
    <3> QED BY <1>0, <3>3, <3>4, DigestsAreOmms
  <2>3. ClearedIsOmms'  BY <2>1 DEF ClearedIsOmms
  <2>4. PlannedIsOmms'  BY <2>0, DigestsAreOmms DEF PlannedIsOmms
  <2>5. RestIsNotOurs' /\ StepsOfCommands'
    BY <2>0, <2>1 DEF RestIsNotOurs, StepsOfCommands
  <2> QED BY <1>3, <2>2, <2>3, <2>4, <2>5 DEF SkillsKept
<1> QED BY <1>4, <1>5

LEMMA ReconcileKeeps ==
    ASSUME SkillsTypeOK, SkillsKept, ReconcileSkill
    PROVE  SkillsTypeOK' /\ SkillsKept'
<1>0. PICK steps \in {<<>>, <<"record">>} :
        /\ Begin("reconcile", steps, {}, FALSE, Bare)
        /\ UNCHANGED <<source, store, provenance>> /\ hasLedger' = TRUE
  BY DEF ReconcileSkill
<1>1. steps \in Beginnings  BY Zenon DEF Beginnings
<1>2. /\ complete' = FALSE /\ sTally' \in [edits : Nat, jobs : Nat]
      /\ \/ steps = <<>> /\ job' = NoJob
         \/ /\ steps # <<>> /\ job' \in Jobs /\ Stage(job'.at, job'.todo)
            /\ job'.at = Head(steps) /\ job'.todo = Tail(steps)
            /\ job'.cmd = "reconcile" /\ job'.flags = {} /\ job'.plan = Bare
  <2>1. {} \in SUBSET {"force", "reconcile"} /\ Bare \in [AllFiles -> Texts]  BY DigestsAreOmms
  <2>2. Begun("reconcile", steps, {}, FALSE, Bare)  BY <1>0, <1>1, <2>1, BeginsWell, Zenon
  <2> QED BY <2>2 DEF Begun
<1>3. ledgered' \in [SkillFiles -> Digests]
  BY DigestsAreOmms DEF ReconcileSkill, SkillsTypeOK
<1>4. SkillsTypeOK'  BY <1>0, <1>2, <1>3 DEF SkillsTypeOK, Shops, Bare
<1>5. CASE job' = NoJob  BY <1>4, <1>5, IdleKeeps
<1>6. CASE job' # NoJob
  <2>1. steps = <<"record">>  BY <1>0, <1>2, <1>6
  <2>2. /\ job'.at = "record" /\ job'.todo = <<>> /\ job'.cmd = "reconcile"
        /\ job'.flags = {} /\ job'.plan = Bare
    BY <1>2, <1>6, <2>1, HeadsAndTails
  <2>3. /\ ComparedIsOmms' /\ ClearedIsOmms' /\ RestIsNotOurs'
    BY <2>2 DEF ComparedIsOmms, ClearedIsOmms, RestIsNotOurs
  <2>4. PlannedIsOmms' /\ StepsOfCommands'
    BY <2>2, DigestsAreOmms, HeadsAndTails DEF PlannedIsOmms, StepsOfCommands
  <2> QED BY <1>4, <2>3, <2>4 DEF SkillsKept
<1> QED BY <1>5, <1>6
LEMMA UninstallKeeps ==
    ASSUME SkillsTypeOK, SkillsKept, UninstallSkill
    PROVE  SkillsTypeOK' /\ SkillsKept'
<1>0. PICK flags \in SUBSET {"force", "reconcile"}, blind \in BOOLEAN :
        Begin("uninstall", UndoSteps(flags, blind), flags, blind, Planned(flags))
  BY DEF UninstallSkill
<1>u. UNCHANGED <<source, store, provenance, ledgered, hasLedger>>
  BY DEF UninstallSkill
<1> DEFINE steps == UndoSteps(flags, blind)
<1>1. steps \in Beginnings  BY UninstallBegins, Zenon DEF Beginnings
<1>2. Planned(flags) \in [AllFiles -> Texts]
  BY DigestsAreOmms DEF Planned, SkillsTypeOK, Shops
<1>b. Begin("uninstall", steps, flags, blind, Planned(flags))  BY <1>0
<1> HIDE DEF steps
<1>3. /\ complete' = FALSE /\ sTally' \in [edits : Nat, jobs : Nat]
      /\ \/ steps = <<>> /\ job' = NoJob
         \/ /\ steps # <<>> /\ job' \in Jobs /\ Stage(job'.at, job'.todo)
            /\ job'.at = Head(steps) /\ job'.todo = Tail(steps)
            /\ job'.cmd = "uninstall" /\ job'.flags = flags /\ job'.blind = blind
            /\ job'.plan = Planned(flags) /\ job'.book = ledgered /\ job'.want = source
  <2>1. Begun("uninstall", steps, flags, blind, Planned(flags))
    BY <1>b, <1>1, <1>2, BeginsWell, Zenon
  <2> QED BY <2>1 DEF Begun
<1>4. SkillsTypeOK'  BY <1>u, <1>3 DEF SkillsTypeOK, Shops, Bare
<1>5. CASE job' = NoJob  BY <1>4, <1>5, IdleKeeps
<1>6. CASE job' # NoJob
  <2>0. /\ job'.cmd = "uninstall" /\ job'.flags = flags /\ job'.blind = blind
        /\ job'.plan = Planned(flags) /\ job'.book = ledgered /\ job'.want = source
        /\ job'.at = Head(steps) /\ job'.todo = Tail(steps) /\ steps # <<>>
    BY <1>3, <1>6
  <2>1. /\ job'.at \in {"host uninstall", "files"}
        /\ job'.at = "host uninstall" =>
             (HasEntries /\ ~KeptWhole(flags)) \/ (~HasEntries /\ "reconcile" \in flags)
        /\ job'.at = "files" /\ job'.todo # <<>> => ~HasEntries /\ Orphaned
        /\ job'.at = "files" /\ job'.todo = <<>> =>
             \/ HasEntries /\ KeptWhole(flags)
             \/ HasEntries /\ ~KeptWhole(flags) /\ ~Listed
             \/ ~HasEntries /\ blind
             \/ ~HasEntries /\ Unknown = "none"
    BY <2>0, UninstallBegins, HeadsAndTails, Zenon DEF steps
  <2>2. ComparedIsOmms'
    <3> SUFFICES ASSUME job'.at = "host uninstall", flags = {}, NEW f \in Compared(job)'
                 PROVE  store'.files[f] # UserText
      BY <2>0 DEF ComparedIsOmms
    <3>1. f \in SkillFiles /\ ledgered[f] # NoContent
      BY <1>u, <2>0 DEF Compared
    <3>2. store.files[f] \in {NoContent, ledgered[f]}
      BY <2>1, <3>1 DEF KeptWhole
    <3>3. ledgered[f] \in Digests  BY <3>1 DEF SkillsTypeOK
    <3> QED BY <1>u, <3>2, <3>3, DigestsAreOmms
  <2>3. ClearedIsOmms'
    <3> SUFFICES ASSUME job'.at = "files", job'.todo # <<>>, NEW f \in AllFiles
                 PROVE  store'.files[f] # UserText
      BY <2>1 DEF ClearedIsOmms
    <3>1. store.files[f] = NoContent \/ (f \in SkillFiles /\ store.files[f] = source[f])
      BY <2>1 DEF Orphaned, ShippedBy
    <3>2. f \in SkillFiles => source[f] \in Digests  BY DigestsAreOmms DEF SkillsTypeOK
    <3> QED BY <1>u, <3>1, <3>2, DigestsAreOmms
  <2>4. PlannedIsOmms'
    <3> SUFFICES ASSUME "force" \notin flags, NEW f \in AllFiles PROVE job'.plan[f] # UserText
      BY <2>0 DEF PlannedIsOmms
    <3>1. CASE ~KeptWhole(flags) /\ f \in SkillFiles /\ ledgered[f] # NoContent
      <4>1. store.files[f] \in {NoContent, ledgered[f]}  BY <3>1 DEF KeptWhole
      <4>2. ledgered[f] \in Digests  BY <3>1 DEF SkillsTypeOK
      <4> QED BY <2>0, <3>1, <4>1, <4>2, DigestsAreOmms DEF Planned
    <3>2. CASE ~(~KeptWhole(flags) /\ f \in SkillFiles /\ ledgered[f] # NoContent)
      BY <2>0, <3>2, DigestsAreOmms DEF Planned
    <3> QED BY <3>1, <3>2
  <2>5. RestIsNotOurs'
    <3> SUFFICES ASSUME job'.at = "files", job'.todo = <<>>, ~blind, store.files[Main] # NoContent
                 PROVE  job'.plan = Bare /\ ~OursIsThere(Ours')
      <4>1. OursIsThere(Ours)' => OursIsThere(Ours')  BY <1>u DEF OursIsThere
      <4> QED BY <4>1, <1>u, <2>0 DEF RestIsNotOurs
    <3>0. Ours' = IF ledgered # NoEntries THEN ledgered ELSE source
      BY <1>u, <2>0 DEF Ours
    <3>1. \/ HasEntries /\ KeptWhole(flags)
          \/ ~HasEntries /\ Unknown = "none"
      BY <2>1 DEF Listed
    <3>2. \A f \in SkillFiles : ~HasEntries => ledgered[f] = NoContent
      BY DigestsAreOmms DEF HasEntries
    <3>3. job'.plan = Bare
      BY <2>0, <3>1, <3>2 DEF Planned, Bare
    <3>4. CASE HasEntries /\ KeptWhole(flags)
      <4>1. ledgered # NoEntries  BY <3>4 DEF HasEntries
      <4>2. CASE store.kind = "link"  BY <3>3, <4>2 DEF OursIsThere
      <4>3. CASE store.kind # "link"
        <5>1. PICK f \in SkillFiles : store.files[f] \notin {NoContent, ledgered[f]}
          BY <3>4, <4>3 DEF KeptWhole
        <5> QED BY <3>0, <3>3, <4>1, <5>1, DigestsAreOmms DEF OursIsThere
      <4> QED BY <4>2, <4>3
    <3>5. CASE ~HasEntries /\ Unknown = "none"
      <4>1. ledgered = NoEntries  BY <3>5 DEF HasEntries
      <4>2. CASE store.kind # "dir"  BY <3>3, <4>2 DEF OursIsThere
      <4>3. CASE store.kind = "dir"
        <5>1. ~provenance /\ ~Orphaned
          BY <3>5, <4>3 DEF Unknown, Listed
        <5>2. \/ \E f \in ShippedBy(source) : store.files[f] \notin {NoContent, source[f]}
              \/ \E f \in AllFiles \ ShippedBy(source) : store.files[f] # NoContent
          BY <4>3, <5>1 DEF Orphaned
        <5>3. PICK f \in AllFiles :
                /\ store.files[f] # NoContent
                /\ f \in SkillFiles => store.files[f] # source[f]
          BY <5>2, DigestsAreOmms DEF ShippedBy
        <5> QED BY <3>0, <3>3, <4>1, <5>3 DEF OursIsThere
      <4> QED BY <4>2, <4>3
    <3> QED BY <3>1, <3>3, <3>4, <3>5
  <2>6. StepsOfCommands'  BY <2>0 DEF StepsOfCommands
  <2> QED BY <1>4, <2>2, <2>3, <2>4, <2>5, <2>6 DEF SkillsKept
<1> QED BY <1>5, <1>6

-----------------------------------------------------------------------------
\* Skills: the steps of a command.

LEMMA AtAStep ==
    ASSUME SkillsTypeOK, job.at # "none"
    PROVE  job # NoJob /\ job \in Jobs /\ Stage(job.at, job.todo)
BY DEF SkillsTypeOK, NoJob

\* What the host leaves of a directory it takes is the user's extra file at most.
LEMMA HostTakesAll ==
    ASSUME SkillsTypeOK, HostUninstall, provenance \/ store.kind = "none"
    PROVE  /\ store' \in Shops /\ (store'.kind = "none" => store'.files = Bare)
           /\ \A f \in SkillFiles : store'.files[f] = NoContent
           /\ store'.files[Extra] \in {NoContent, store.files[Extra]}
<1>0. store \in Shops /\ store.files[Extra] \in Texts  BY DigestsAreOmms DEF SkillsTypeOK, Shops
<1>1. CASE store' = Nothing
  BY <1>1, DigestsAreOmms DEF Nothing, Shops
<1>2. CASE store' # Nothing
  <2> DEFINE g == [f \in {Extra} |-> store.files[Extra]]
  <2>1. store' = DirOf(g)  BY <1>2 DEF HostUninstall
  <2>2. g \in [{Extra} -> Texts] /\ {Extra} \in SUBSET AllFiles  BY <1>0, DigestsAreOmms
  <2>3. g[Extra] = store.files[Extra]  OBVIOUS
  <2> HIDE DEF g
  <2>4. /\ DirOf(g) \in Shops /\ DirOf(g).kind = "dir"
        /\ \A f \in AllFiles : DirOf(g).files[f] = IF f \in {Extra} THEN g[f] ELSE NoContent
    BY <2>2, DirsAreShops, Zenon
  <2> QED BY <2>1, <2>3, <2>4, DigestsAreOmms
<1> QED BY <1>1, <1>2

LEMMA HostUninstallKeeps ==
    ASSUME SkillsTypeOK, SkillsKept, HostUninstall
    PROVE  SkillsTypeOK' /\ SkillsKept'
<1>0. /\ job # NoJob /\ job \in Jobs /\ Stage(job.at, job.todo) /\ job.at = "host uninstall"
      /\ UNCHANGED <<source, ledgered, hasLedger, sTally, complete>>
  BY AtAStep DEF HostUninstall
<1>1. job.todo \in {<<"host install", "record">>, <<"files">>} /\ job.todo # <<>>
  BY <1>0, HeadsAndTails DEF Stage
<1>2. PICK j \in Jobs :
        /\ \/ Proceed(j)
           \/ job' = NoJob
        /\ j.at = job.at /\ j.todo = job.todo /\ j.cmd = job.cmd /\ j.flags = job.flags
        /\ j.plan = job.plan
        /\ j.failed \/ provenance \/ store.kind = "none"
  <2>1. CASE provenance \/ store.kind = "none"
    BY <1>0, <2>1 DEF HostUninstall
  <2>2. CASE ~(provenance \/ store.kind = "none")
    <3> DEFINE j == [job EXCEPT !.failed = TRUE]
    <3>1. j \in Jobs  BY <1>0 DEF Jobs
    <3>2. /\ j.at = job.at /\ j.todo = job.todo /\ j.cmd = job.cmd /\ j.flags = job.flags
          /\ j.plan = job.plan /\ j.failed
      BY <1>0 DEF Jobs
    <3>3. Proceed(j) \/ job' = NoJob  BY <2>2 DEF HostUninstall, Fail
    <3> HIDE DEF j
    <3> QED BY <3>1, <3>2, <3>3
  <2> QED BY <2>1, <2>2
<1>3. /\ store' \in Shops /\ (store'.kind = "none" => store'.files = Bare)
      /\ provenance' \in BOOLEAN
  <2>1. CASE provenance \/ store.kind = "none"
    BY <2>1, HostTakesAll DEF HostUninstall
  <2>2. CASE ~(provenance \/ store.kind = "none")
    BY <2>2 DEF HostUninstall, SkillsTypeOK
  <2> QED BY <2>1, <2>2
<1>4. CASE job' = NoJob
  BY <1>0, <1>3, <1>4, IdleKeeps DEF SkillsTypeOK, Bare
<1>5. CASE job' # NoJob
  <2>1. /\ job' \in Jobs /\ Stage(job'.at, job'.todo)
        /\ job' = [j EXCEPT !.at = Head(j.todo), !.todo = Tail(j.todo)]
    BY <1>0, <1>2, <1>5, StagesFollow
  <2>2. /\ job'.at = Head(job.todo) /\ job'.todo = Tail(job.todo)
        /\ job'.cmd = job.cmd /\ job'.flags = job.flags /\ job'.plan = job.plan
        /\ job'.failed = j.failed
    BY <1>2, <2>1 DEF Jobs
  <2>3. \/ job'.at = "host install" /\ job'.todo = <<"record">>
        \/ job'.at = "files" /\ job'.todo = <<>> /\ job.todo = <<"files">>
    BY <1>1, <2>2, HeadsAndTails
  <2>4. SkillsTypeOK'  BY <1>0, <1>3, <2>1 DEF SkillsTypeOK, Bare
  <2>5. ComparedIsOmms' /\ ClearedIsOmms'
    BY <2>3 DEF ComparedIsOmms, ClearedIsOmms
  <2>6. PlannedIsOmms'  BY <1>0, <2>2 DEF SkillsKept, PlannedIsOmms
  <2>7. RestIsNotOurs'
    <3> SUFFICES ASSUME ~job'.failed PROVE store'.files[Main] = NoContent
      BY DEF RestIsNotOurs
    <3>1. provenance \/ store.kind = "none"  BY <1>2, <2>2
    <3> QED BY <3>1, HostTakesAll, DigestsAreOmms
  <2>8. StepsOfCommands'
    <3>1. <<"record">> # <<"files">>  OBVIOUS
    <3> QED BY <1>0, <2>2, <2>3, <3>1, HeadsAndTails DEF SkillsKept, StepsOfCommands
  <2> QED BY <2>4, <2>5, <2>6, <2>7, <2>8 DEF SkillsKept
<1> QED BY <1>4, <1>5

LEMMA HostInstallKeeps ==
    ASSUME SkillsTypeOK, SkillsKept, HostInstall
    PROVE  SkillsTypeOK' /\ SkillsKept'
<1>0. /\ job # NoJob /\ job \in Jobs /\ Stage(job.at, job.todo) /\ job.at = "host install"
      /\ UNCHANGED <<source, ledgered, hasLedger, sTally, complete>>
  BY AtAStep DEF HostInstall
<1>1. CASE store.kind = "none"
  <2> DEFINE j == [job EXCEPT !.got = source]
  <2>0. source \in [SkillFiles -> Texts] /\ SkillFiles \in SUBSET AllFiles
    <3>1. source \in [SkillFiles -> Digests]  BY DigestsAreOmms DEF SkillsTypeOK
    <3> QED BY <3>1, DigestsAreOmms
  <2>1. DirOf(source) \in Shops /\ DirOf(source).kind = "dir"  BY <2>0, DirsAreShops, Zenon
  <2>2. store' = DirOf(source) /\ provenance' = TRUE /\ Proceed(j)
    BY <1>1 DEF HostInstall
  <2>3. /\ j \in Jobs /\ j.at = job.at /\ j.todo = <<"record">> /\ j.cmd = job.cmd
        /\ j.flags = job.flags /\ j.plan = job.plan
    BY <1>0 DEF Jobs, Stage, SkillsTypeOK
  <2> HIDE DEF j
  <2>4. /\ job' \in Jobs /\ Stage(job'.at, job'.todo)
        /\ job' = [j EXCEPT !.at = Head(j.todo), !.todo = Tail(j.todo)]
    <3>1. Stage(j.at, j.todo) /\ j.todo # <<>>  BY <1>0, <2>3, HeadsAndTails DEF Stage
    <3> QED BY <2>2, <2>3, <3>1, StagesFollow
  <2>5. /\ job'.at = "record" /\ job'.todo = <<>> /\ job'.cmd = job.cmd
        /\ job'.flags = job.flags /\ job'.plan = job.plan
    BY <2>3, <2>4, HeadsAndTails DEF Jobs
  <2>6. SkillsTypeOK'  BY <1>0, <2>1, <2>2, <2>4 DEF SkillsTypeOK, Bare
  <2>7. ComparedIsOmms' /\ ClearedIsOmms' /\ RestIsNotOurs'
    BY <2>5 DEF ComparedIsOmms, ClearedIsOmms, RestIsNotOurs
  <2>8. PlannedIsOmms' /\ StepsOfCommands'
    BY <1>0, <2>5, HeadsAndTails DEF SkillsKept, PlannedIsOmms, StepsOfCommands
  <2> QED BY <2>6, <2>7, <2>8 DEF SkillsKept
<1>2. CASE store.kind # "none"
  <2>1. job' = NoJob /\ UNCHANGED <<store, provenance>>  BY <1>2 DEF HostInstall, Fail
  <2> QED BY <1>0, <2>1, IdleKeeps DEF SkillsTypeOK, Shops, Bare
<1> QED BY <1>1, <1>2

LEMMA RecordKeeps ==
    ASSUME SkillsTypeOK, SkillsKept, Record
    PROVE  SkillsTypeOK' /\ SkillsKept'
<1>0. /\ job # NoJob /\ job \in Jobs /\ job.at = "record" /\ job.todo = <<>>
      /\ UNCHANGED <<source, store, provenance, sTally, complete>>
  BY AtAStep DEF Record, Stage
<1>1. job' = NoJob
  BY <1>0 DEF Record, Fail, Proceed
<1>2. hasLedger' \in BOOLEAN /\ ledgered' \in [SkillFiles -> Digests]
  <2>1. job.want \in [SkillFiles -> Digests]  BY <1>0, DigestsAreOmms DEF Jobs
  <2>2. CASE UNCHANGED <<ledgered, hasLedger>>  BY <2>2 DEF SkillsTypeOK
  <2>3. CASE ~UNCHANGED <<ledgered, hasLedger>>
    <3>1. /\ hasLedger' = TRUE
          /\ ledgered' = [f \in SkillFiles |-> IF f \in ShippedBy(job.want) THEN job.want[f]
                                               ELSE ledgered[f]]
      BY <2>3 DEF Record
    <3> QED BY <2>1, <3>1 DEF SkillsTypeOK
  <2> QED BY <2>2, <2>3
<1> QED BY <1>0, <1>1, <1>2, IdleKeeps DEF SkillsTypeOK, Shops, Bare

LEMMA ClearKeeps ==
    ASSUME SkillsTypeOK, SkillsKept, Clear
    PROVE  SkillsTypeOK' /\ SkillsKept'
<1>0. /\ job # NoJob /\ job \in Jobs /\ Stage(job.at, job.todo) /\ job.at = "clear"
      /\ UNCHANGED <<source, provenance, ledgered, hasLedger, sTally>>
      /\ store' = Nothing /\ Proceed(job) /\ complete' \in BOOLEAN
  BY AtAStep DEF Clear
<1>1. store' \in Shops /\ store'.files = Bare
  BY <1>0, DigestsAreOmms DEF Nothing, Shops
<1>2. CASE job' = NoJob
  BY <1>0, <1>1, <1>2, IdleKeeps DEF SkillsTypeOK, Bare
<1>3. CASE job' # NoJob
  <2>1. /\ job' \in Jobs /\ Stage(job'.at, job'.todo) /\ job.todo # <<>>
        /\ job' = [job EXCEPT !.at = Head(job.todo), !.todo = Tail(job.todo)]
    BY <1>0, <1>3, StagesFollow
  <2>2. job.todo = <<"host install", "record">>  BY <1>0, <2>1 DEF Stage
  <2>3. /\ job'.at = "host install" /\ job'.todo = <<"record">> /\ job'.cmd = job.cmd
        /\ job'.flags = job.flags /\ job'.plan = job.plan
    BY <1>0, <2>1, <2>2, HeadsAndTails DEF Jobs
  <2>4. SkillsTypeOK'  BY <1>0, <1>1, <2>1 DEF SkillsTypeOK, Bare
  <2>5. ComparedIsOmms' /\ ClearedIsOmms' /\ RestIsNotOurs'
    BY <2>3 DEF ComparedIsOmms, ClearedIsOmms, RestIsNotOurs
  <2>6. PlannedIsOmms'  BY <1>0, <2>3 DEF SkillsKept, PlannedIsOmms
  <2>7. StepsOfCommands'
    <3>1. <<"record">> # <<"files">>  OBVIOUS
    <3> QED BY <1>0, <2>3, <3>1 DEF SkillsKept, StepsOfCommands
  <2> QED BY <2>4, <2>5, <2>6, <2>7 DEF SkillsKept
<1> QED BY <1>2, <1>3

\* What an uninstall's own step removes was planned to go and is as planned,
\* or --force was given.
LEMMA UndoRemovesThePlanned ==
    ASSUME SkillsTypeOK, UndoFiles
    PROVE  /\ store' \in Shops /\ (store'.kind = "none" => store'.files = Bare)
           /\ \A f \in AllFiles :
                \/ store'.files[f] = store.files[f]
                \/ /\ store'.files[f] = NoContent
                   /\ store.files[f] \in {NoContent, job.plan[f]} \/ "force" \in job.flags
           /\ job.plan = Bare => store' = store
<1> DEFINE planned == {f \in SkillFiles : job.plan[f] # NoContent}
           changed == {f \in planned : /\ store.files[f] \notin {NoContent, job.plan[f]}
                                       /\ ~("force" \in job.flags /\ job.plan[f] # ledgered[f])}
           left == [f \in AllFiles |-> IF f \in planned \ changed THEN NoContent ELSE store.files[f]]
<1>0. store \in Shops /\ (store.kind = "none" => store.files = Bare)  BY DEF SkillsTypeOK
<1>1. store' = IF planned # {} /\ left = Bare THEN Nothing ELSE [store EXCEPT !.files = left]
  BY DEF UndoFiles
<1>2. left \in [AllFiles -> Texts]  BY <1>0, DigestsAreOmms DEF Shops
<1>3. \A f \in AllFiles :
        \/ left[f] = store.files[f]
        \/ /\ left[f] = NoContent
           /\ store.files[f] \in {NoContent, job.plan[f]} \/ "force" \in job.flags
  OBVIOUS
<1>4. job.plan = Bare => planned = {} /\ left = store.files
  <2> SUFFICES ASSUME job.plan = Bare PROVE planned = {} /\ left = store.files
    OBVIOUS
  <2>1. planned = {}  BY DigestsAreOmms
  <2>2. left = [f \in AllFiles |-> store.files[f]]  BY <2>1
  <2>3. store.files \in [AllFiles -> Texts]  BY <1>0 DEF Shops
  <2> QED BY <2>1, <2>2, <2>3
<1>5. store.kind = "none" => left = Bare
  BY <1>0, DigestsAreOmms DEF Bare
<1> HIDE DEF planned, changed, left
<1>6. CASE planned # {} /\ left = Bare
  BY <1>1, <1>3, <1>4, <1>6, DigestsAreOmms DEF Nothing, Shops
<1>7. CASE ~(planned # {} /\ left = Bare)
  <2>1. store' = [store EXCEPT !.files = left]  BY <1>1, <1>7
  <2>2. store' \in Shops /\ store'.files = left /\ store'.kind = store.kind
    BY <1>0, <1>2, <2>1 DEF Shops
  <2>3. left = store.files => store' = store  BY <1>0, <2>1 DEF Shops
  <2> QED BY <1>3, <1>4, <1>5, <2>2, <2>3
<1> QED BY <1>6, <1>7

LEMMA UndoFilesKeeps ==
    ASSUME SkillsTypeOK, SkillsKept, UndoFiles
    PROVE  SkillsTypeOK' /\ SkillsKept'
<1>0. /\ job # NoJob /\ job \in Jobs /\ Stage(job.at, job.todo) /\ job.at = "files"
      /\ UNCHANGED <<source, provenance, sTally>> /\ complete' \in BOOLEAN
      /\ Proceed(job) \/ job' = NoJob
  BY AtAStep DEF UndoFiles, Fail
<1>1. hasLedger' \in BOOLEAN /\ ledgered' \in [SkillFiles -> Digests]
  BY DigestsAreOmms DEF UndoFiles, SkillsTypeOK
<1>2. /\ store' \in Shops /\ (store'.kind = "none" => store'.files = Bare)
      /\ \A f \in AllFiles : store'.files[f] \in {NoContent, store.files[f]}
  BY UndoRemovesThePlanned
<1>3. CASE job' = NoJob
  BY <1>0, <1>1, <1>2, <1>3, IdleKeeps DEF SkillsTypeOK, Bare
<1>4. CASE job' # NoJob
  <2>1. /\ job' \in Jobs /\ Stage(job'.at, job'.todo) /\ job.todo # <<>>
        /\ job' = [job EXCEPT !.at = Head(job.todo), !.todo = Tail(job.todo)]
    BY <1>0, <1>4, StagesFollow
  <2>2. job.todo = <<"clear">>  BY <1>0, <2>1 DEF Stage
  <2>3. /\ job'.at = "clear" /\ job'.todo = <<>> /\ job'.cmd = job.cmd
        /\ job'.flags = job.flags /\ job'.plan = job.plan /\ job'.late = job.late
    BY <1>0, <2>1, <2>2, HeadsAndTails DEF Jobs
  <2>4. SkillsTypeOK'  BY <1>0, <1>1, <1>2, <2>1 DEF SkillsTypeOK, Bare
  <2>5. ComparedIsOmms' /\ RestIsNotOurs'
    BY <2>3 DEF ComparedIsOmms, RestIsNotOurs
  <2>6. ClearedIsOmms'
    BY <1>0, <1>2, <2>1, <2>3, DigestsAreOmms DEF SkillsKept, ClearedIsOmms
  <2>7. PlannedIsOmms'  BY <1>0, <2>3 DEF SkillsKept, PlannedIsOmms
  <2>8. StepsOfCommands'
    BY <1>0, <2>3, HeadsAndTails DEF SkillsKept, StepsOfCommands
  <2> QED BY <2>4, <2>5, <2>6, <2>7, <2>8 DEF SkillsKept
<1> QED BY <1>3, <1>4

-----------------------------------------------------------------------------
\* Skills: kills, and what the user and the source do meanwhile.

LEMMA KillJobKeeps ==
    ASSUME SkillsTypeOK, SkillsKept, KillJob
    PROVE  SkillsTypeOK' /\ SkillsKept'
<1>0. job' = NoJob /\ UNCHANGED <<source, provenance, ledgered, hasLedger, sTally, complete>>
  BY DEF KillJob
<1>1. store' \in Shops /\ (store'.kind = "none" => store'.files = Bare)
  <2>1. CASE UNCHANGED store  BY <2>1 DEF SkillsTypeOK
  <2>2. CASE ~UNCHANGED store
    <3>1. PICK copied \in SUBSET ShippedBy(source) : store' = DirOf([f \in copied |-> source[f]])
      BY <2>2 DEF KillJob
    <3> DEFINE g == [f \in copied |-> source[f]]
    <3>2. source \in [SkillFiles -> Texts] /\ copied \in SUBSET SkillFiles /\ copied \in SUBSET AllFiles
      <4>1. source \in [SkillFiles -> Digests]  BY DigestsAreOmms DEF SkillsTypeOK
      <4> QED BY <4>1, DigestsAreOmms DEF ShippedBy
    <3>3. g \in [copied -> Texts]  BY <3>2
    <3> HIDE DEF g
    <3>4. DirOf(g) \in Shops /\ DirOf(g).kind = "dir"  BY <3>2, <3>3, DirsAreShops, Zenon
    <3> QED BY <3>1, <3>4 DEF g
  <2> QED BY <2>1, <2>2
<1> QED BY <1>0, <1>1, IdleKeeps DEF SkillsTypeOK, Bare

\* A command under which something changes has nothing more to take for granted.
LEMMA EditsKeep ==
    ASSUME SkillsTypeOK, SkillsKept, StoreEdit
    PROVE  /\ job' = NoJob \/ (job' \in Jobs /\ Stage(job'.at, job'.todo))
           /\ SkillsKept'
           /\ sTally' \in [edits : Nat, jobs : Nat] /\ sTally' # sTally /\ complete' = complete
<1>1. /\ sTally' \in [edits : Nat, jobs : Nat] /\ sTally' # sTally /\ complete' = complete
  BY DEF StoreEdit, SkillsTypeOK
<1>2. CASE job = NoJob  BY <1>1, <1>2, IdleKeeps DEF StoreEdit
<1>3. CASE job # NoJob
  <2>1. job \in Jobs /\ Stage(job.at, job.todo)  BY <1>3 DEF SkillsTypeOK
  <2>2. job' = [job EXCEPT !.late = TRUE]  BY <1>3 DEF StoreEdit
  <2>3. /\ job' \in Jobs /\ job'.at = job.at /\ job'.todo = job.todo /\ job'.late
        /\ job'.cmd = job.cmd /\ job'.flags = job.flags /\ job'.plan = job.plan
    BY <2>1, <2>2 DEF Jobs
  <2>4. ComparedIsOmms' /\ ClearedIsOmms' /\ RestIsNotOurs'
    BY <2>3 DEF ComparedIsOmms, ClearedIsOmms, RestIsNotOurs
  <2>5. PlannedIsOmms' /\ StepsOfCommands'
    BY <1>3, <2>3 DEF SkillsKept, PlannedIsOmms, StepsOfCommands
  <2> QED BY <1>1, <2>1, <2>3, <2>4, <2>5 DEF SkillsKept
<1> QED BY <1>2, <1>3

LEMMA PullKeeps ==
    ASSUME SkillsTypeOK, SkillsKept, Pull
    PROVE  SkillsTypeOK' /\ SkillsKept'
<1>1. source' \in Shipped /\ UNCHANGED <<store, provenance, ledgered, hasLedger>> /\ StoreEdit
  BY DEF Pull
<1> QED BY <1>1, EditsKeep DEF SkillsTypeOK, Shops, Bare

LEMMA EditStoreKeeps ==
    ASSUME SkillsTypeOK, SkillsKept, EditStore
    PROVE  SkillsTypeOK' /\ SkillsKept'
<1>0. UNCHANGED <<source, provenance, ledgered, hasLedger>> /\ StoreEdit
  BY DEF EditStore
<1>1. store' \in Shops /\ (store'.kind = "none" => store'.files = Bare)
  <2>0. store \in Shops /\ (store.kind = "none" => store.files = Bare) /\ UserText \in Texts
    BY DEF SkillsTypeOK, Texts
  <2>1. CASE \E f \in AllFiles :
               store' = [kind |-> IF store.kind = "none" THEN "dir" ELSE store.kind,
                         files |-> [store.files EXCEPT ![f] = UserText]]
    BY <2>0, <2>1 DEF Shops
  <2>2. CASE \E f \in SkillFiles : store.files[f] # NoContent /\ store' = [store EXCEPT !.files[f] = NoContent]
    <3>1. PICK f \in SkillFiles : store.files[f] # NoContent /\ store' = [store EXCEPT !.files[f] = NoContent]
      BY <2>2
    <3>2. f \in AllFiles /\ store.kind # "none"  BY <2>0, <3>1, DigestsAreOmms
    <3> QED BY <2>0, <3>1, <3>2, DigestsAreOmms DEF Shops
  <2>3. CASE store.kind = "dir" /\ store' \in {Nothing, [store EXCEPT !.kind = "link"]}
    BY <2>0, <2>3, DigestsAreOmms DEF Nothing, Shops
  <2> QED BY <2>1, <2>2, <2>3 DEF EditStore
<1> QED BY <1>0, <1>1, EditsKeep DEF SkillsTypeOK, Bare

LEMMA HostByHandKeeps ==
    ASSUME SkillsTypeOK, SkillsKept, HostByHand
    PROVE  SkillsTypeOK' /\ SkillsKept'
<1>0. UNCHANGED <<source, ledgered, hasLedger>> /\ StoreEdit /\ provenance' \in BOOLEAN
  BY DEF HostByHand
<1>1. store' \in Shops /\ (store'.kind = "none" => store'.files = Bare)
  <2>1. Nothing \in Shops /\ Nothing.files = Bare
    BY DigestsAreOmms DEF Nothing, Shops
  <2>2. source \in [SkillFiles -> Texts] /\ SkillFiles \in SUBSET AllFiles
    <3>1. source \in [SkillFiles -> Digests]  BY DigestsAreOmms DEF SkillsTypeOK
    <3> QED BY <3>1, DigestsAreOmms
  <2>3. DirOf(source) \in Shops /\ DirOf(source).kind = "dir"  BY <2>2, DirsAreShops, Zenon
  <2> QED BY <2>1, <2>3 DEF HostByHand
<1> QED BY <1>0, <1>1, EditsKeep DEF SkillsTypeOK, Bare

LEMMA SkillsInductive ==
    ASSUME SkillsTypeOK, SkillsKept, [SNext]_sVars
    PROVE  SkillsTypeOK' /\ SkillsKept'
<1>1. CASE UNCHANGED sVars
  <2>1. UNCHANGED <<source, store, provenance, ledgered, hasLedger, job, sTally, complete>>
    BY <1>1 DEF sVars
  <2>2. SkillsTypeOK'  BY <2>1 DEF SkillsTypeOK, Shops, Bare
  <2>3. ComparedIsOmms' /\ ClearedIsOmms' /\ PlannedIsOmms' /\ StepsOfCommands'
    BY <2>1 DEF SkillsKept, ComparedIsOmms, Compared, ClearedIsOmms, PlannedIsOmms, StepsOfCommands
  <2>4. RestIsNotOurs'
    BY <2>1 DEF SkillsKept, RestIsNotOurs, OursIsThere, Ours, Bare, NoEntries
  <2> QED BY <2>2, <2>3, <2>4 DEF SkillsKept
<1>2. CASE SNext
  BY <1>2, InstallKeeps, UpdateKeeps, ReconcileKeeps, UninstallKeeps, HostUninstallKeeps,
     HostInstallKeeps, RecordKeeps, ClearKeeps, UndoFilesKeeps, KillJobKeeps, PullKeeps,
     EditStoreKeeps, HostByHandKeeps DEF SNext
<1> QED BY <1>1, <1>2

LEMMA SkillsBegin ==
    ASSUME SInit PROVE SkillsTypeOK /\ SkillsKept
<1>1. SkillsTypeOK
  BY DigestsAreOmms DEF SInit, SkillsTypeOK, Nothing, Shops
<1>2. SkillsKept
  BY DEF SInit, SkillsKept, ComparedIsOmms, ClearedIsOmms, PlannedIsOmms, RestIsNotOurs, StepsOfCommands
<1> QED BY <1>1, <1>2

\* What commands of the skill, the host's verbs and the user's steps leave is a
\* directory, a link or nothing, with contents the source ships or the user
\* wrote, and a ledger of shipped contents, for any skill and any source.
THEOREM SkillsTypeCorrect == SkillsSpec => []SkillsTypeOK
<1>1. SInit => SkillsTypeOK /\ SkillsKept  BY SkillsBegin
<1>2. SkillsTypeOK /\ SkillsKept /\ [SNext]_sVars => (SkillsTypeOK /\ SkillsKept)'
  BY SkillsInductive
<1> QED BY <1>1, <1>2, PTL DEF SkillsSpec

\* The inductive invariant: a command under which nothing changed has before it
\* what it looked at, and has compared, or knows for an orphan, what it is about
\* to have the host take or to clear.
THEOREM SkillsStayKept == SkillsSpec => [](SkillsTypeOK /\ SkillsKept)
<1>1. SInit => SkillsTypeOK /\ SkillsKept  BY SkillsBegin
<1>2. SkillsTypeOK /\ SkillsKept /\ [SNext]_sVars => (SkillsTypeOK /\ SkillsKept)'
  BY SkillsInductive
<1> QED BY <1>1, <1>2, PTL DEF SkillsSpec

-----------------------------------------------------------------------------
\* Skills: the two properties.

\* The only steps that take a file away without being the user's.
LEMMA WhoTakes ==
    ASSUME SkillsTypeOK, SkillsKept, SNext, sTally' = sTally, NEW f \in AllFiles,
           store.files[f] = UserText, store'.files[f] # UserText
    PROVE  HostUninstall \/ Clear \/ UndoFiles
<1>1. ASSUME InstallSkill \/ UpdateSkill \/ ReconcileSkill \/ UninstallSkill \/ Record
      PROVE  FALSE
  <2>1. store' = store
    BY <1>1 DEF InstallSkill, UpdateSkill, ReconcileSkill, UninstallSkill, Record
  <2> QED BY <2>1
<1>2. ASSUME HostInstall \/ KillJob PROVE FALSE
  <2>1. store' = store \/ store.kind = "none"
    BY <1>2 DEF HostInstall, KillJob
  <2> QED BY <2>1, DigestsAreOmms DEF SkillsTypeOK
<1>3. ASSUME Pull \/ EditStore \/ HostByHand PROVE FALSE
  <2>1. StoreEdit  BY <1>3 DEF Pull, EditStore, HostByHand
  <2> QED BY <2>1, EditsKeep
<1> QED BY <1>1, <1>2, <1>3 DEF SNext

LEMMA NothingTaken ==
    ASSUME SkillsTypeOK, SkillsKept, SNext, sTally' = sTally, Taken # {}
    PROVE  \/ job.late \/ "force" \in job.flags
           \/ job.at = "host uninstall" /\ "reconcile" \in job.flags
           \/ job.at = "host uninstall" /\ Taken \cap Compared(job) = {}
<1> SUFFICES ASSUME ~job.late, "force" \notin job.flags
             PROVE  \/ job.at = "host uninstall" /\ "reconcile" \in job.flags
                    \/ job.at = "host uninstall" /\ Taken \cap Compared(job) = {}
  OBVIOUS
<1>1. PICK f \in AllFiles : store.files[f] = UserText /\ store'.files[f] # UserText
  BY DEF Taken
<1>2. HostUninstall \/ Clear \/ UndoFiles  BY <1>1, WhoTakes
<1>3. CASE HostUninstall
  <2>1. job.at = "host uninstall" /\ job # NoJob /\ job \in Jobs
    BY <1>3, AtAStep DEF HostUninstall
  <2>2. CASE "reconcile" \in job.flags  BY <2>1, <2>2
  <2>3. CASE "reconcile" \notin job.flags
    <3>1. job.flags = {}  BY <2>1, <2>3 DEF Jobs
    <3>2. \A x \in Compared(job) : store.files[x] # UserText
      BY <2>1, <3>1 DEF SkillsKept, ComparedIsOmms
    <3> QED BY <2>1, <3>2 DEF Taken
  <2> QED BY <2>2, <2>3
<1>4. CASE Clear
  <2>1. job.at = "clear" /\ job # NoJob  BY <1>4, AtAStep DEF Clear
  <2> QED BY <1>1, <2>1 DEF SkillsKept, ClearedIsOmms
<1>5. CASE UndoFiles
  <2>1. job # NoJob  BY <1>5, AtAStep DEF UndoFiles
  <2>2. store.files[f] \in {NoContent, job.plan[f]}
    BY <1>1, <1>5, UndoRemovesThePlanned
  <2> QED BY <1>1, <2>1, <2>2, DigestsAreOmms DEF SkillsKept, PlannedIsOmms
<1> QED BY <1>2, <1>3, <1>4, <1>5

\* No command takes what the user wrote into the store, but for what was written
\* after it looked, with --force or --reconcile-host, or through the host's verb
\* from a file the command did not compare.
THEOREM SkillIsKept == SkillsSpec => SkillKept
<1>1. SkillsTypeOK /\ SkillsKept /\ [SNext]_sVars
        => [sTally' = sTally /\ Taken # {}
             => \/ job.late \/ "force" \in job.flags
                \/ job.at = "host uninstall" /\ "reconcile" \in job.flags
                \/ job.at = "host uninstall" /\ Taken \cap Compared(job) = {}]_sVars
  BY NothingTaken
<1> QED BY <1>1, SkillsStayKept, PTL DEF SkillsSpec, SkillKept

\* Who says that an uninstall is complete: Clear, with nothing left, or the step
\* that undoes the files.
LEMMA WhoCompletes ==
    ASSUME SkillsTypeOK, SNext, complete', ~complete
    PROVE  Clear \/ UndoFiles
<1>1. ASSUME InstallSkill \/ UpdateSkill \/ ReconcileSkill \/ UninstallSkill PROVE FALSE
  <2>1. \E cmd, steps, flags, blind, plan : Begin(cmd, steps, flags, blind, plan)
    BY <1>1, Zenon DEF InstallSkill, UpdateSkill, ReconcileSkill, UninstallSkill
  <2> QED BY <2>1 DEF Begin
<1>2. ASSUME HostUninstall \/ HostInstall \/ Record \/ KillJob PROVE FALSE
  BY <1>2 DEF HostUninstall, HostInstall, Record, KillJob
<1>3. ASSUME Pull \/ EditStore \/ HostByHand PROVE FALSE
  <2>1. StoreEdit  BY <1>3 DEF Pull, EditStore, HostByHand
  <2> QED BY <2>1 DEF StoreEdit
<1> QED BY <1>1, <1>2, <1>3 DEF SNext

LEMMA NothingOfOursLeft ==
    ASSUME SkillsTypeOK, SkillsKept, SNext, complete', ~complete, ~job.late, ~job.blind
    PROVE  LET ours == IF job.book # NoEntries THEN job.book ELSE source
           IN ~ /\ store'.kind = "dir" /\ store'.files[Main] # NoContent
                /\ \A f \in AllFiles : \/ store'.files[f] = NoContent
                                       \/ f \in SkillFiles /\ store'.files[f] = ours[f]
<1>1. Clear \/ UndoFiles  BY WhoCompletes
<1>2. CASE Clear
  <2>1. store'.kind = "none"  BY <1>2 DEF Clear, Nothing
  <2> QED BY <2>1
<1>3. CASE UndoFiles
  <2>1. job # NoJob /\ job.at = "files"  BY <1>3, AtAStep DEF UndoFiles
  <2>2. job.todo = <<>> /\ ~job.failed  BY <1>3 DEF UndoFiles
  <2>3. \/ store.files[Main] = NoContent
        \/ job.plan = Bare /\ ~OursIsThere(Ours)
    BY <2>1, <2>2 DEF SkillsKept, RestIsNotOurs
  <2>4. CASE store.files[Main] = NoContent
    <3>1. store'.files[Main] = NoContent
      BY <1>3, <2>4, UndoRemovesThePlanned, DigestsAreOmms
    <3> QED BY <3>1
  <2>5. CASE job.plan = Bare /\ ~OursIsThere(Ours)
    <3>1. store' = store  BY <1>3, <2>5, UndoRemovesThePlanned
    <3> QED BY <2>5, <3>1 DEF OursIsThere, Ours
  <2> QED BY <2>3, <2>4, <2>5
<1> QED BY <1>1, <1>2, <1>3

\* An uninstall that says it is complete, under which nothing changed and which
\* the host answered, leaves no skill the host lists and that is to the byte
\* what the ledger says or, when it says nothing, what the source ships.
THEOREM UninstallTakesAllOfOurs == SkillsSpec => UninstallTakesAll
<1>1. SkillsTypeOK /\ SkillsKept /\ [SNext]_sVars
        => [complete' /\ ~complete /\ ~job.late /\ ~job.blind
             => LET ours == IF job.book # NoEntries THEN job.book ELSE source
                IN ~ /\ store'.kind = "dir" /\ store'.files[Main] # NoContent
                     /\ \A f \in AllFiles : \/ store'.files[f] = NoContent
                                            \/ f \in SkillFiles /\ store'.files[f] = ours[f]]_sVars
  BY NothingOfOursLeft
<1> QED BY <1>1, SkillsStayKept, PTL DEF SkillsSpec, UninstallTakesAll

-----------------------------------------------------------------------------
\* Build: the types.

Words == {"1", "2", "a", "b", "long", "bad", "x", "link", "server", "none"}
Files == {NoFile} \cup {<<u>> : u \in Words} \cup {<<u, v>> : u, v \in Words}
           \cup {<<u, v, w>> : u, v, w \in Words}
Trees == [PathSet -> Files]
Sets  == [native : Trees, claude : Trees, codex : Trees]
Versions == {"1", "2"}

Sources == [skill : {"a", "b", "long", "bad"}, ref : {NoFile, <<"a">>, <<"b">>},
            declared : {"a", "b", "bad"}, row : {"a", "b"}, number : {1, 2, 9},
            stray : {"none", "orphan", "link"}, version : Versions]

\* What a build is at, in order, and what is left from a step on.
Last1  == {"catalog"}
Last2  == {"market claude"} \cup Last1
Last3  == {"market codex"} \cup Last2
Last4  == {"market native"} \cup Last3
Last5  == {"write codex"} \cup Last4
Last6  == {"write claude"} \cup Last5
Last7  == {"write native"} \cup Last6
Last8  == {"refresh"} \cup Last7
Last9  == {"digest"} \cup Last8
Last10 == {"codex"} \cup Last9
Last11 == {"claude"} \cup Last10
Last12 == {"native"} \cup Last11

Builds == [at : {"idle", "load"} \cup Last12, loaded : Sources, version : Versions \cup {"none"},
           pkg : Sets, digest : Trees, catalog : [row : {"a", "b"}, number : {1, 2, 9}],
           calm : BOOLEAN]

BuildTypes ==
    /\ src \in Sources
    /\ out \in Sets
    /\ markets \in [native : [version : Versions \cup {"none"}, digest : Trees],
                    claude : Versions \cup {"none"}, codex : Versions \cup {"none"}]
    /\ build \in Builds
    /\ events \in Nat /\ settled \in BOOLEAN
BuildTypeOK == BuildTypes /\ verdict \in {"none", "clean", "drift"}

-----------------------------------------------------------------------------
\* Build: the invariant.

\* All but the version and the number in the catalog.
SameContent(s, t) ==
    /\ s.skill = t.skill /\ s.ref = t.ref /\ s.declared = t.declared /\ s.row = t.row
    /\ s.stray = t.stray

\* A build under which nobody edited has in memory what the content gives, and
\* has written of it as much as it has passed.
CalmBuild ==
    build.calm /\ build.at # "idle" =>
        /\ ~LintRefuses(src)
        /\ build.at \in Last12 => SameContent(build.loaded, src)
        /\ build.at \in Last11 => /\ build.version \in Versions
                                  /\ build.pkg.native = NativePkg(src, src, build.version)
        /\ build.at \in Last10 => build.pkg.claude = ClaudePkg(src, src, build.version)
        /\ build.at \in Last9 => build.pkg.codex = CodexPkg(src, src, build.version)
        /\ build.at \in Last8 => build.digest = build.pkg.native
        /\ build.at \in Last7 => build.catalog = [row |-> src.row, number |-> Number(src.skill)]
        /\ build.at \in Last6 => out.native = build.pkg.native
        /\ build.at \in Last5 => out.claude = build.pkg.claude
        /\ build.at \in Last4 => out.codex = build.pkg.codex
        /\ build.at \in Last3 => markets.native = [version |-> build.version, digest |-> build.digest]
        /\ build.at \in Last2 => markets.codex = build.version
        /\ build.at \in Last1 => markets.claude = build.version

\* A checkout as a build of this content at version v leaves it.
Whole(v) ==
    /\ out = [native |-> NativePkg(src, src, v), claude |-> ClaudePkg(src, src, v),
              codex |-> CodexPkg(src, src, v)]
    /\ markets = [native |-> [version |-> v, digest |-> NativePkg(src, src, v)],
                  claude |-> v, codex |-> v]
    /\ ~Problems(src) /\ src.number = Number(src.skill)

\* What has settled is whole, and a build that has begun to write unsettles it.
SettledIsWhole ==
    /\ settled => ~LintRefuses(src) /\ \E v \in Versions : Whole(v)
    /\ build.at \in Last6 => ~settled

VerdictIsTrue == (verdict = "clean" => Clean) /\ (verdict = "drift" => ~Clean)

BuildKept == CalmBuild /\ SettledIsWhole /\ VerdictIsTrue

-----------------------------------------------------------------------------
\* Build: lemmas about paths, packages and trees.

LEMMA PathsAre ==
    /\ PathSet = {"manifest", "declared", "skill", "ref", "old"}
    /\ Len(Paths) = 5 /\ \A p \in PathSet : \E i \in 1..5 : Paths[i] = p
<1>1. PathSet = {"manifest", "declared", "skill", "ref", "old"}  BY DEF Paths, PathSet
<1>2. Len(Paths) = 5  BY DEF Paths
<1>3. \A p \in {"manifest", "declared", "skill", "ref", "old"} : \E i \in 1..5 : Paths[i] = p
  BY DEF Paths
<1> QED BY <1>1, <1>2, <1>3

LEMMA FilesAre ==
    /\ NoFile \in Files /\ Link \in Files
    /\ \A u \in Words : <<u>> \in Files
    /\ \A u, v \in Words : <<u, v>> \in Files
    /\ \A u, v, w \in Words : <<u, v, w>> \in Files
BY DEF Files, Link, Words

LEMMA NumbersAre == \A w \in {"a", "b", "long", "bad"} : Number(w) \in {1, 2, 9}
BY DEF Number

\* The files of a package.
Holds(tree, a, b, c, d) ==
    /\ tree \in Trees
    /\ tree["manifest"] = a /\ tree["declared"] = b /\ tree["skill"] = <<c>>
    /\ tree["ref"] = d /\ tree["old"] = NoFile

LEMMA TreesAre ==
    ASSUME NEW a \in Files, NEW b \in Files, NEW c \in Words, NEW d \in Files
    PROVE  Holds(Tree(a, b, c, d), a, b, c, d)
<1> DEFINE file(p) == CASE p = "manifest" -> a [] p = "declared" -> b
                        [] p = "skill" -> <<c>> [] p = "ref" -> d [] p = "old" -> NoFile
<1>1. Tree(a, b, c, d) = [p \in PathSet |-> file(p)]  BY Zenon DEF Tree
<1>2. /\ file("manifest") = a /\ file("declared") = b /\ file("skill") = <<c>>
      /\ file("ref") = d /\ file("old") = NoFile
  OBVIOUS
<1>3. <<c>> \in Files /\ NoFile \in Files  BY FilesAre
<1> HIDE DEF file
<1>4. \A p \in PathSet : file(p) \in Files  BY <1>2, <1>3, PathsAre
<1> QED BY <1>1, <1>2, <1>4, PathsAre DEF Trees, Holds

LEMMA RefsAre ==
    \A s, t \in Sources : LET ref == IF s.ref = NoFile THEN NoFile ELSE t.ref
                          IN  ref \in Files /\ ref # Link
<1>1. NoFile # Link /\ <<"a">> # Link /\ <<"b">> # Link  BY DEF NoFile, Link
<1>2. NoFile \in Files /\ <<"a">> \in Files /\ <<"b">> \in Files  BY FilesAre DEF Words
<1>3. \A t \in Sources : t.ref \in Files /\ t.ref # Link  BY <1>1, <1>2 DEF Sources
<1> QED BY <1>1, <1>2, <1>3

\* The packages of content, none of which has a link in it.
LEMMA NativeIs ==
    ASSUME NEW s \in Sources, NEW t \in Sources, NEW v \in Versions \cup {"none"}
    PROVE  /\ NativePkg(s, t, v) \in Trees
           /\ NativePkg(s, t, v)["manifest"] = <<v, s.row, s.declared>>
           /\ NativePkg(s, t, v)["skill"] = <<t.skill>>
           /\ NativePkg(s, t, v)["ref"] = IF s.ref = NoFile THEN NoFile ELSE t.ref
           /\ NativePkg(s, t, v)["old"] = NoFile
           /\ Readable(NativePkg(s, t, v))
<1> DEFINE ref == IF s.ref = NoFile THEN NoFile ELSE t.ref
<1>1. /\ v \in Words /\ s.row \in Words /\ s.declared \in Words /\ t.skill \in Words
      /\ v # "link" /\ t.skill # "link"
  BY DEF Sources, Versions, Words
<1>2. <<v, s.row, s.declared>> \in Files /\ NoFile \in Files  BY <1>1, FilesAre
<1>3. ref \in Files /\ ref # Link
  BY RefsAre
<1>4. NativePkg(s, t, v) = Tree(<<v, s.row, s.declared>>, NoFile, t.skill, ref)
  BY DEF NativePkg
<1> HIDE DEF ref
<1>5. /\ NativePkg(s, t, v) \in Trees
      /\ NativePkg(s, t, v)["manifest"] = <<v, s.row, s.declared>>
      /\ NativePkg(s, t, v)["declared"] = NoFile
      /\ NativePkg(s, t, v)["skill"] = <<t.skill>>
      /\ NativePkg(s, t, v)["ref"] = ref /\ NativePkg(s, t, v)["old"] = NoFile
  <2>1. Holds(Tree(<<v, s.row, s.declared>>, NoFile, t.skill, ref), <<v, s.row, s.declared>>, NoFile, t.skill, ref)
    BY <1>1, <1>2, <1>3, TreesAre, Zenon
  <2> QED BY <1>4, <2>1 DEF Holds
<1>6. <<v, s.row, s.declared>> # Link /\ NoFile # Link /\ <<t.skill>> # Link
  BY <1>1 DEF Link, NoFile
<1>7. Readable(NativePkg(s, t, v))  BY <1>3, <1>5, <1>6, PathsAre DEF Readable
<1> QED BY <1>5, <1>7 DEF ref

LEMMA ClaudeIs ==
    ASSUME NEW s \in Sources, NEW t \in Sources, NEW v \in Versions \cup {"none"}
    PROVE  /\ ClaudePkg(s, t, v) \in Trees
           /\ ClaudePkg(s, t, v)["manifest"] = <<v>>
           /\ ClaudePkg(s, t, v)["skill"] = <<s.skill>>
           /\ ClaudePkg(s, t, v)["ref"] = IF s.ref = NoFile THEN NoFile ELSE t.ref
           /\ ClaudePkg(s, t, v)["old"] = NoFile
           /\ Readable(ClaudePkg(s, t, v))
<1> DEFINE ref == IF s.ref = NoFile THEN NoFile ELSE t.ref
<1>1. /\ v \in Words /\ s.declared \in Words /\ s.skill \in Words
      /\ v # "link" /\ s.skill # "link" /\ s.declared # "link"
  BY DEF Sources, Versions, Words
<1>2. <<v>> \in Files /\ <<s.declared>> \in Files /\ NoFile \in Files  BY <1>1, FilesAre
<1>3. ref \in Files /\ ref # Link
  BY RefsAre
<1>4. ClaudePkg(s, t, v) = Tree(<<v>>, <<s.declared>>, s.skill, ref)
  BY DEF ClaudePkg
<1> HIDE DEF ref
<1>5. /\ ClaudePkg(s, t, v) \in Trees
      /\ ClaudePkg(s, t, v)["manifest"] = <<v>>
      /\ ClaudePkg(s, t, v)["declared"] = <<s.declared>>
      /\ ClaudePkg(s, t, v)["skill"] = <<s.skill>>
      /\ ClaudePkg(s, t, v)["ref"] = ref /\ ClaudePkg(s, t, v)["old"] = NoFile
  <2>1. Holds(Tree(<<v>>, <<s.declared>>, s.skill, ref), <<v>>, <<s.declared>>, s.skill, ref)
    BY <1>1, <1>2, <1>3, TreesAre, Zenon
  <2> QED BY <1>4, <2>1 DEF Holds
<1>6. <<v>> # Link /\ NoFile # Link /\ <<s.skill>> # Link /\ <<s.declared>> # Link
  BY <1>1 DEF Link, NoFile
<1>7. Readable(ClaudePkg(s, t, v))  BY <1>3, <1>5, <1>6, PathsAre DEF Readable
<1> QED BY <1>5, <1>7 DEF ref

LEMMA CodexIs ==
    ASSUME NEW s \in Sources, NEW t \in Sources, NEW v \in Versions \cup {"none"}
    PROVE  /\ CodexPkg(s, t, v) \in Trees
           /\ CodexPkg(s, t, v)["manifest"] = <<v, "server">>
           /\ CodexPkg(s, t, v)["skill"] = <<s.skill>>
           /\ CodexPkg(s, t, v)["ref"] = IF s.ref = NoFile THEN NoFile ELSE t.ref
           /\ CodexPkg(s, t, v)["old"] = NoFile
           /\ Readable(CodexPkg(s, t, v))
<1> DEFINE ref == IF s.ref = NoFile THEN NoFile ELSE t.ref
<1>1. /\ v \in Words /\ s.declared \in Words /\ s.skill \in Words /\ "server" \in Words
      /\ v # "link" /\ s.skill # "link" /\ s.declared # "link"
  BY DEF Sources, Versions, Words
<1>2. <<v, "server">> \in Files /\ <<s.declared>> \in Files /\ NoFile \in Files  BY <1>1, FilesAre
<1>3. ref \in Files /\ ref # Link
  BY RefsAre
<1>4. CodexPkg(s, t, v) = Tree(<<v, "server">>, <<s.declared>>, s.skill, ref)
  BY DEF CodexPkg
<1> HIDE DEF ref
<1>5. /\ CodexPkg(s, t, v) \in Trees
      /\ CodexPkg(s, t, v)["manifest"] = <<v, "server">>
      /\ CodexPkg(s, t, v)["declared"] = <<s.declared>>
      /\ CodexPkg(s, t, v)["skill"] = <<s.skill>>
      /\ CodexPkg(s, t, v)["ref"] = ref /\ CodexPkg(s, t, v)["old"] = NoFile
  <2>1. Holds(Tree(<<v, "server">>, <<s.declared>>, s.skill, ref), <<v, "server">>, <<s.declared>>, s.skill, ref)
    BY <1>1, <1>2, <1>3, TreesAre, Zenon
  <2> QED BY <1>4, <2>1 DEF Holds
<1>6. <<v, "server">> # Link /\ NoFile # Link /\ <<s.skill>> # Link /\ <<s.declared>> # Link
  BY <1>1 DEF Link, NoFile
<1>7. Readable(CodexPkg(s, t, v))  BY <1>3, <1>5, <1>6, PathsAre DEF Readable
<1> QED BY <1>5, <1>7 DEF ref

\* The version is not part of the content.
LEMMA SamePackages ==
    ASSUME NEW s, NEW t, NEW s2, NEW t2, NEW v, SameContent(s, s2), SameContent(t, t2)
    PROVE  /\ NativePkg(s, t, v) = NativePkg(s2, t2, v)
           /\ ClaudePkg(s, t, v) = ClaudePkg(s2, t2, v)
           /\ CodexPkg(s, t, v) = CodexPkg(s2, t2, v)
           /\ LintRefuses(s) <=> LintRefuses(s2)
           /\ Problems(s) <=> Problems(s2)
           /\ Number(s.skill) = Number(s2.skill)
<1>1. /\ s.skill = s2.skill /\ s.ref = s2.ref /\ s.declared = s2.declared /\ s.row = s2.row
      /\ s.stray = s2.stray /\ t.skill = t2.skill /\ t.ref = t2.ref
  BY DEF SameContent
<1>2. Problems(s) <=> Problems(s2)
  BY <1>1 DEF Problems, SymlinkFound, Unclaimed, BadDeclaration
<1>3. LintRefuses(s) <=> LintRefuses(s2)
  BY <1>1, <1>2 DEF LintRefuses, OverBudget, HostRefuses
<1>4. NativePkg(s, t, v) = NativePkg(s2, t2, v)  BY <1>1 DEF NativePkg
<1>5. ClaudePkg(s, t, v) = ClaudePkg(s2, t2, v)  BY <1>1 DEF ClaudePkg
<1>6. CodexPkg(s, t, v) = CodexPkg(s2, t2, v)  BY <1>1 DEF CodexPkg
<1> QED BY <1>1, <1>2, <1>3, <1>4, <1>5, <1>6

\* Whatever was there, all of the package written is the package.
LEMMA LaidWhole ==
    ASSUME NEW tree \in Trees, NEW pkg \in Trees
    PROVE  Laid(Swept(tree, Leftovers(tree, pkg)), pkg, Len(Paths)) = pkg
<1> DEFINE swept == Swept(tree, Leftovers(tree, pkg))
           laid == Laid(swept, pkg, Len(Paths))
<1>1. \A p \in PathSet : pkg[p] = NoFile => swept[p] = NoFile
  BY DEF Swept, Leftovers
<1> HIDE DEF swept
<1>2. laid = [p \in PathSet |-> IF pkg[p] # NoFile /\ \E i \in 1..5 : Paths[i] = p
                                THEN pkg[p] ELSE swept[p]]
  BY PathsAre DEF Laid
<1>3. \A p \in PathSet : laid[p] = pkg[p]  BY <1>1, <1>2, PathsAre
<1> HIDE DEF laid
<1>4. laid = [p \in PathSet |-> pkg[p]]  BY <1>2, <1>3
<1>5. laid = pkg  BY <1>4 DEF Trees
<1> QED BY <1>5 DEF laid, swept

LEMMA LaidTyped ==
    ASSUME NEW tree \in Trees, NEW pkg \in Trees, NEW n, NEW gone
    PROVE  Swept(tree, gone) \in Trees /\ Laid(Swept(tree, gone), pkg, n) \in Trees
<1>1. Swept(tree, gone) \in Trees  BY FilesAre DEF Swept, Trees
<1> DEFINE swept == Swept(tree, gone)
<1> HIDE DEF swept
<1>2. swept \in Trees => Laid(swept, pkg, n) \in Trees  BY DEF Laid, Trees
<1> QED BY <1>1, <1>2 DEF swept

-----------------------------------------------------------------------------
\* Build: what a build leaves is clean, and what is clean can be installed.

LEMMA WholeVersion ==
    ASSUME NEW s \in Sources, NEW v \in Versions, out.native = NativePkg(s, s, v)
    PROVE  CommittedVersion = v
<1>1. out.native["manifest"] = <<v, s.row, s.declared>>  BY NativeIs
<1>2. Len(<<v, s.row, s.declared>>) = 3 /\ <<v, s.row, s.declared>>[1] = v  OBVIOUS
<1> QED BY <1>1, <1>2 DEF CommittedVersion

LEMMA WholeIsClean ==
    ASSUME src \in Sources, NEW v \in Versions, Whole(v)
    PROVE  Clean
<1> DEFINE n == NativePkg(src, src, v)
           c == ClaudePkg(src, src, v)
           x == CodexPkg(src, src, v)
<1>0. CommittedVersion = v  BY WholeVersion DEF Whole
<1>1. Readable(n) /\ Readable(c) /\ Readable(x)  BY NativeIs, ClaudeIs, CodexIs
<1>2. /\ out = [native |-> n, claude |-> c, codex |-> x]
      /\ markets = [native |-> [version |-> v, digest |-> n], claude |-> v, codex |-> v]
      /\ ~Problems(src) /\ src.number = Number(src.skill)
  BY DEF Whole
<1>3. Clean <=>
        /\ ~Problems(src) /\ \A t \in Tools : Readable(out[t])
        /\ ~Differs(n, out.native) /\ ~Differs(c, out.claude) /\ ~Differs(x, out.codex)
        /\ ~CatalogsDiffer(n, v) /\ src.number = Number(src.skill)
  BY <1>0 DEF Clean
<1> HIDE DEF n, c, x
<1>4. \A t \in Tools : Readable(out[t])  BY <1>1, <1>2 DEF Tools
<1>5. ~Differs(n, out.native) /\ ~Differs(c, out.claude) /\ ~Differs(x, out.codex)
  BY <1>2 DEF Differs
<1>6. ~CatalogsDiffer(n, v)  BY <1>2 DEF CatalogsDiffer, Digest
<1> QED BY <1>2, <1>3, <1>4, <1>5, <1>6


LEMMA CleanIsInstallable ==
    ASSUME BuildTypeOK, Clean
    PROVE  /\ HostInstalls
           /\ \A t \in Tools : /\ out[t]["skill"] = <<src.skill>> /\ out[t]["ref"] = src.ref
                               /\ out[t]["old"] = NoFile
                               /\ out[t]["manifest"][1] = markets.native.version
           /\ markets.claude = markets.native.version /\ markets.codex = markets.native.version
<1> DEFINE v == CommittedVersion
           n == NativePkg(src, src, v)
           c == ClaudePkg(src, src, v)
           x == CodexPkg(src, src, v)
<1>1. /\ \A t \in Tools : Readable(out[t])
      /\ ~Differs(n, out.native) /\ ~Differs(c, out.claude) /\ ~Differs(x, out.codex)
      /\ ~CatalogsDiffer(n, v)
  BY DEF Clean
<1>2. markets = [native |-> [version |-> v, digest |-> n], claude |-> v, codex |-> v]
  BY <1>1 DEF CatalogsDiffer, Digest
<1>3. v \in Versions \cup {"none"} /\ src \in Sources /\ out \in Sets
  BY <1>2 DEF BuildTypeOK, BuildTypes
<1> HIDE DEF v
<1>4. /\ n \in Trees /\ n["manifest"] = <<v, src.row, src.declared>>
      /\ n["skill"] = <<src.skill>> /\ n["ref"] = src.ref /\ n["old"] = NoFile
  BY <1>3, NativeIs
<1>5. /\ c["manifest"] = <<v>> /\ c["skill"] = <<src.skill>> /\ c["ref"] = src.ref
      /\ c["old"] = NoFile
  BY <1>3, ClaudeIs
<1>6. /\ x["manifest"] = <<v, "server">> /\ x["skill"] = <<src.skill>> /\ x["ref"] = src.ref
      /\ x["old"] = NoFile
  BY <1>3, CodexIs
<1>7. /\ <<v, src.row, src.declared>>[1] = v /\ <<v>>[1] = v /\ <<v, "server">>[1] = v
  OBVIOUS
<1> HIDE DEF n, c, x
<1>8. \A p \in PathSet : out.native[p] = n[p] /\ out.claude[p] = c[p] /\ out.codex[p] = x[p]
  BY <1>1 DEF Differs
<1>9. out.native = n
  <2>1. out.native \in Trees  BY <1>3 DEF Sets
  <2> QED BY <1>4, <1>8, <2>1 DEF Trees
<1>10. HostInstalls
  BY <1>1, <1>2, <1>9 DEF HostInstalls, Digest, Tools
<1>11. \A t \in Tools : /\ out[t]["skill"] = <<src.skill>> /\ out[t]["ref"] = src.ref
                        /\ out[t]["old"] = NoFile /\ out[t]["manifest"][1] = v
  BY <1>4, <1>5, <1>6, <1>7, <1>8, PathsAre DEF Tools
<1> QED BY <1>2, <1>10, <1>11

-----------------------------------------------------------------------------
\* Build: the steps that only read.

LEMMA NoBuildTyped == NoBuild \in Builds /\ NoBuild.at = "idle" /\ FirstContent \in Sources
<1>1. FirstContent \in Sources  BY DEF FirstContent, Sources, Versions
<1>2. NoTree \in Trees /\ NoDigest \in Trees  BY FilesAre DEF NoTree, NoDigest, Trees
<1>3. [t \in Tools |-> NoTree] \in Sets  BY <1>2 DEF Tools, Sets
<1> QED BY <1>1, <1>2, <1>3 DEF NoBuild, Builds

Kept == BuildTypes /\ CalmBuild /\ SettledIsWhole
Same == UNCHANGED <<src, out, markets, events, settled>>

\* What stays true of the committed files when a step leaves them alone.
LEMMA SameIsKept ==
    ASSUME Kept, Same, build' \in Builds, build'.at \notin Last6
    PROVE  BuildTypes' /\ SettledIsWhole'
<1>1. BuildTypes'  BY DEF Kept, Same, BuildTypes
<1>2. \A v : Whole(v)' = Whole(v)  BY DEF Same, Whole
<1>3. LintRefuses(src)' = LintRefuses(src)  BY DEF Same
<1>4. SettledIsWhole'  BY <1>2, <1>3 DEF Kept, Same, SettledIsWhole
<1> QED BY <1>1, <1>4

LEMMA StopKeeps ==
    ASSUME Kept, Stops
    PROVE  Kept'
<1>1. build' = NoBuild /\ Same  BY DEF Stops, Same
<1>2. build'.at \notin Last6
  BY <1>1, NoBuildTyped DEF Last6, Last5, Last4, Last3, Last2, Last1
<1>3. CalmBuild'  BY <1>1, NoBuildTyped DEF CalmBuild
<1> QED BY <1>1, <1>2, <1>3, NoBuildTyped, SameIsKept DEF Kept

LEMMA LintKeeps ==
    ASSUME Kept, Lint PROVE Kept'
<1>1. build' = [NoBuild EXCEPT !.at = "load"] /\ Same /\ ~LintRefuses(src)
  BY DEF Lint, Keeps, Same
<1>2. build' \in Builds /\ build'.at = "load"  BY <1>1, NoBuildTyped DEF Builds
<1>3. "load" \notin Last12
  BY DEF Last12, Last11, Last10, Last9, Last8, Last7, Last6, Last5, Last4, Last3, Last2, Last1
<1>4. BuildTypes' /\ SettledIsWhole'
  <2>1. "load" \notin Last6  BY DEF Last6, Last5, Last4, Last3, Last2, Last1
  <2> QED BY <1>1, <1>2, <2>1, SameIsKept
<1>5. CalmBuild'
  BY <1>1, <1>2, <1>3 DEF CalmBuild, Same, Last12, Last11, Last10, Last9, Last8, Last7, Last6,
     Last5, Last4, Last3, Last2, Last1
<1> QED BY <1>4, <1>5 DEF Kept

LEMMA LoadKeeps ==
    ASSUME Kept, Load PROVE Kept'
<1>1. CASE Stops  BY <1>1, StopKeeps
<1>2. CASE ~Stops
  <2>1. build' = [build EXCEPT !.at = "native", !.loaded = src] /\ Same /\ build.at = "load"
    BY <1>2 DEF Load, Keeps, Same, At
  <2>2. /\ build' \in Builds /\ build'.at = "native" /\ build'.loaded = src
        /\ build'.calm = build.calm
    BY <2>1 DEF Kept, BuildTypes, Builds, Last12
  <2>3. "native" \notin Last11
    BY DEF Last11, Last10, Last9, Last8, Last7, Last6, Last5, Last4, Last3, Last2, Last1
  <2>4. BuildTypes' /\ SettledIsWhole'
    <3>1. "native" \notin Last6  BY DEF Last6, Last5, Last4, Last3, Last2, Last1
    <3> QED BY <2>1, <2>2, <3>1, SameIsKept
  <2>5. CalmBuild'
    BY <2>1, <2>2, <2>3 DEF Kept, CalmBuild, SameContent, Same, Last11, Last10, Last9, Last8, Last7,
       Last6, Last5, Last4, Last3, Last2, Last1
  <2> QED BY <2>4, <2>5 DEF Kept
<1> QED BY <1>1, <1>2

LEMMA RenderNativeKeeps ==
    ASSUME Kept, RenderNative PROVE Kept'
<1>1. CASE Stops  BY <1>1, StopKeeps
<1>2. CASE ~Stops
  <2> DEFINE n == NativePkg(build.loaded, src, src.version)
  <2>1. /\ build' = [build EXCEPT !.at = "claude", !.version = src.version,
                      !.pkg = [native |-> n, claude |-> NoTree, codex |-> NoTree]]
        /\ Same /\ build.at = "native"
    BY <1>2 DEF RenderNative, Keeps, Same, At
  <2>2. build \in Builds /\ src \in Sources /\ build.loaded \in Sources /\ src.version \in Versions
    BY DEF Kept, BuildTypes, Builds, Sources
  <2>3. n \in Trees  BY <2>2, NativeIs
  <2>4. NoTree \in Trees  BY FilesAre DEF NoTree, Trees
  <2>5. SameContent(build.loaded, src) => n = NativePkg(src, src, src.version)
    <3>1. SameContent(src, src)  BY DEF SameContent
    <3> QED BY <3>1, SamePackages
  <2> HIDE DEF n
  <2>6. /\ build' \in Builds /\ build'.at = "claude" /\ build'.loaded = build.loaded
        /\ build'.version = src.version /\ build'.pkg.native = n /\ build'.calm = build.calm
    BY <2>1, <2>2, <2>3, <2>4 DEF Builds, Sets, Last12, Last11
  <2>7. "claude" \notin Last10 /\ "claude" \notin Last6 /\ "native" \in Last12
    BY DEF Last12, Last10, Last9, Last8, Last7, Last6, Last5, Last4, Last3, Last2, Last1
  <2>8. BuildTypes' /\ SettledIsWhole'  BY <2>1, <2>6, <2>7, SameIsKept
  <2>9. CalmBuild'
    BY <2>1, <2>2, <2>5, <2>6, <2>7 DEF Kept, CalmBuild, Same, Last9, Last8, Last7,
       Last6, Last5, Last4, Last3, Last2, Last1
  <2> QED BY <2>8, <2>9 DEF Kept
<1> QED BY <1>1, <1>2

LEMMA RenderClaudeKeeps ==
    ASSUME Kept, RenderClaude PROVE Kept'
<1>1. CASE Stops  BY <1>1, StopKeeps
<1>2. CASE ~Stops
  <2> DEFINE n == ClaudePkg(build.loaded, src, build.version)
  <2>1. /\ build' = [build EXCEPT !.at = "codex", !.pkg.claude = n]
        /\ Same /\ build.at = "claude"
    BY <1>2 DEF RenderClaude, Keeps, Same, At
  <2>2. /\ build \in Builds /\ src \in Sources /\ build.loaded \in Sources
        /\ build.version \in Versions \cup {"none"} /\ build.pkg \in Sets
    BY DEF Kept, BuildTypes, Builds
  <2>3. n \in Trees  BY <2>2, ClaudeIs
  <2>4. SameContent(build.loaded, src) => n = ClaudePkg(src, src, build.version)
    <3>1. SameContent(src, src)  BY DEF SameContent
    <3> QED BY <3>1, SamePackages
  <2> HIDE DEF n
  <2>5. /\ build' \in Builds /\ build'.at = "codex" /\ build'.loaded = build.loaded
        /\ build'.version = build.version /\ build'.pkg.native = build.pkg.native
        /\ build'.pkg.claude = n /\ build'.calm = build.calm
    BY <2>1, <2>2, <2>3 DEF Builds, Sets, Last12, Last11, Last10
  <2>6. /\ "codex" \notin Last9 /\ "codex" \notin Last6
        /\ "claude" \in Last12 /\ "claude" \in Last11
    BY DEF Last12, Last11, Last10, Last9, Last8, Last7, Last6, Last5, Last4, Last3, Last2, Last1
  <2>7. BuildTypes' /\ SettledIsWhole'  BY <2>1, <2>5, <2>6, SameIsKept
  <2>8. CalmBuild'
    BY <2>1, <2>2, <2>4, <2>5, <2>6 DEF Kept, CalmBuild, Same, Last8, Last7,
       Last6, Last5, Last4, Last3, Last2, Last1
  <2> QED BY <2>7, <2>8 DEF Kept
<1> QED BY <1>1, <1>2

LEMMA RenderCodexKeeps ==
    ASSUME Kept, RenderCodex PROVE Kept'
<1>1. CASE Stops  BY <1>1, StopKeeps
<1>2. CASE ~Stops
  <2> DEFINE n == CodexPkg(build.loaded, src, build.version)
  <2>1. /\ build' = [build EXCEPT !.at = "digest", !.pkg.codex = n]
        /\ Same /\ build.at = "codex"
    BY <1>2 DEF RenderCodex, Keeps, Same, At
  <2>2. /\ build \in Builds /\ src \in Sources /\ build.loaded \in Sources
        /\ build.version \in Versions \cup {"none"} /\ build.pkg \in Sets
    BY DEF Kept, BuildTypes, Builds
  <2>3. n \in Trees  BY <2>2, CodexIs
  <2>4. SameContent(build.loaded, src) => n = CodexPkg(src, src, build.version)
    <3>1. SameContent(src, src)  BY DEF SameContent
    <3> QED BY <3>1, SamePackages
  <2> HIDE DEF n
  <2>5. /\ build' \in Builds /\ build'.at = "digest" /\ build'.loaded = build.loaded
        /\ build'.version = build.version /\ build'.pkg.native = build.pkg.native
        /\ build'.pkg.claude = build.pkg.claude /\ build'.pkg.codex = n /\ build'.calm = build.calm
    BY <2>1, <2>2, <2>3 DEF Builds, Sets, Last12, Last11, Last10, Last9
  <2>6. /\ "digest" \notin Last8 /\ "digest" \notin Last6
        /\ "codex" \in Last12 /\ "codex" \in Last11 /\ "codex" \in Last10
    BY DEF Last12, Last11, Last10, Last9, Last8, Last7, Last6, Last5, Last4, Last3, Last2, Last1
  <2>7. BuildTypes' /\ SettledIsWhole'  BY <2>1, <2>5, <2>6, SameIsKept
  <2>8. CalmBuild'
    BY <2>1, <2>2, <2>4, <2>5, <2>6 DEF Kept, CalmBuild, Same, Last7,
       Last6, Last5, Last4, Last3, Last2, Last1
  <2> QED BY <2>7, <2>8 DEF Kept
<1> QED BY <1>1, <1>2

LEMMA AskDigestKeeps ==
    ASSUME Kept, AskDigest PROVE Kept'
<1>1. CASE Stops  BY <1>1, StopKeeps
<1>2. CASE ~Stops
  <2>1. /\ build' = [build EXCEPT !.at = "refresh", !.digest = build.pkg.native]
        /\ Same /\ build.at = "digest"
    BY <1>2 DEF AskDigest, Digest, Keeps, Same, At
  <2>2. build \in Builds /\ build.pkg \in Sets  BY DEF Kept, BuildTypes, Builds
  <2>3. /\ build' \in Builds /\ build'.at = "refresh" /\ build'.loaded = build.loaded
        /\ build'.version = build.version /\ build'.pkg = build.pkg
        /\ build'.digest = build.pkg.native /\ build'.calm = build.calm
    BY <2>1, <2>2 DEF Builds, Sets, Last12, Last11, Last10, Last9, Last8
  <2>4. /\ "refresh" \notin Last7 /\ "refresh" \notin Last6 /\ "digest" \in Last12
        /\ "digest" \in Last11 /\ "digest" \in Last10 /\ "digest" \in Last9
    BY DEF Last12, Last11, Last10, Last9, Last8, Last7, Last6, Last5, Last4, Last3, Last2, Last1
  <2>5. BuildTypes' /\ SettledIsWhole'  BY <2>1, <2>3, <2>4, SameIsKept
  <2>6. CalmBuild'
    BY <2>1, <2>3, <2>4 DEF Kept, CalmBuild, Same, Last6, Last5, Last4, Last3, Last2, Last1
  <2> QED BY <2>5, <2>6 DEF Kept
<1> QED BY <1>1, <1>2

LEMMA RefreshCatalogKeeps ==
    ASSUME Kept, RefreshCatalog PROVE Kept'
<1> DEFINE c == [row |-> src.row, number |-> Number(build.loaded.skill)]
<1>1. /\ build' = [build EXCEPT !.at = "write native", !.catalog = c]
      /\ Same /\ build.at = "refresh"
  BY DEF RefreshCatalog, Keeps, Same, At
<1>2. /\ build \in Builds /\ src \in Sources /\ build.loaded \in Sources
  BY DEF Kept, BuildTypes, Builds
<1>3. c \in [row : {"a", "b"}, number : {1, 2, 9}]  BY <1>2, NumbersAre DEF Sources
<1>4. SameContent(build.loaded, src) => c = [row |-> src.row, number |-> Number(src.skill)]
  BY DEF SameContent
<1> HIDE DEF c
<1>5. /\ build' \in Builds /\ build'.at = "write native" /\ build'.loaded = build.loaded
      /\ build'.version = build.version /\ build'.pkg = build.pkg
      /\ build'.digest = build.digest /\ build'.catalog = c /\ build'.calm = build.calm
  BY <1>1, <1>2, <1>3 DEF Builds, Last12, Last11, Last10, Last9, Last8, Last7
<1>6. /\ "write native" \notin Last6 /\ "refresh" \in Last12 /\ "refresh" \in Last11
      /\ "refresh" \in Last10 /\ "refresh" \in Last9 /\ "refresh" \in Last8
  BY DEF Last12, Last11, Last10, Last9, Last8, Last7, Last6, Last5, Last4, Last3, Last2, Last1
<1>7. BuildTypes' /\ SettledIsWhole'  BY <1>1, <1>5, <1>6, SameIsKept
<1>8. CalmBuild'
  BY <1>1, <1>4, <1>5, <1>6 DEF Kept, CalmBuild, Same, Last5, Last4, Last3, Last2, Last1
<1> QED BY <1>7, <1>8 DEF Kept

-----------------------------------------------------------------------------
\* Build: the steps that write.

LEMMA DryRunKeeps ==
    ASSUME Kept, DryRun PROVE Kept'
BY StopKeeps DEF DryRun

\* A build that goes on to its next step.
LEMMA ToTyped ==
    ASSUME Kept, NEW step \in Last12, To(step)
    PROVE  /\ build' \in Builds /\ build'.at = step /\ build'.loaded = build.loaded
           /\ build'.version = build.version /\ build'.pkg = build.pkg
           /\ build'.digest = build.digest /\ build'.catalog = build.catalog
           /\ build'.calm = build.calm
BY DEF Kept, BuildTypes, Builds, To

LEMMA WriteNativeKeeps ==
    ASSUME Kept, WriteTree("native", "write claude") PROVE Kept'
<1> DEFINE laid == Laid(Swept(out.native, Leftovers(out.native, build.pkg.native)),
                        build.pkg.native, Len(Paths))
<1>1. /\ out' = [out EXCEPT !.native = laid] /\ settled' = FALSE /\ To("write claude")
      /\ UNCHANGED <<src, markets, events>> /\ build.at = "write native"
  BY DEF WriteTree, At, Writing
<1>2. out \in Sets /\ build.pkg \in Sets  BY DEF Kept, BuildTypes, Builds
<1>3. laid = build.pkg.native  BY <1>2, LaidWhole DEF Sets
<1> HIDE DEF laid
<1>4. out' \in Sets /\ out'.native = build.pkg.native
  BY <1>1, <1>2, <1>3 DEF Sets
<1>5. /\ "write claude" \in Last12 /\ "write claude" \notin Last5
      /\ "write native" \in Last12 /\ "write native" \in Last11 /\ "write native" \in Last10
      /\ "write native" \in Last9 /\ "write native" \in Last8 /\ "write native" \in Last7
  BY DEF Last12, Last11, Last10, Last9, Last8, Last7, Last6, Last5, Last4, Last3, Last2, Last1
<1>6. /\ build' \in Builds /\ build'.at = "write claude" /\ build'.loaded = build.loaded
      /\ build'.version = build.version /\ build'.pkg = build.pkg
      /\ build'.digest = build.digest /\ build'.catalog = build.catalog
      /\ build'.calm = build.calm
  BY <1>1, <1>5, ToTyped
<1>7. BuildTypes'  BY <1>1, <1>4, <1>6 DEF Kept, BuildTypes
<1>8. SettledIsWhole'  BY <1>1 DEF SettledIsWhole
<1>9. CalmBuild'
  BY <1>1, <1>4, <1>5, <1>6 DEF Kept, CalmBuild, Last4, Last3, Last2, Last1
<1> QED BY <1>7, <1>8, <1>9 DEF Kept

LEMMA WriteClaudeKeeps ==
    ASSUME Kept, WriteTree("claude", "write codex") PROVE Kept'
<1> DEFINE laid == Laid(Swept(out.claude, Leftovers(out.claude, build.pkg.claude)),
                        build.pkg.claude, Len(Paths))
<1>1. /\ out' = [out EXCEPT !.claude = laid] /\ settled' = FALSE /\ To("write codex")
      /\ UNCHANGED <<src, markets, events>> /\ build.at = "write claude"
  BY DEF WriteTree, At, Writing
<1>2. out \in Sets /\ build.pkg \in Sets  BY DEF Kept, BuildTypes, Builds
<1>3. laid = build.pkg.claude  BY <1>2, LaidWhole DEF Sets
<1> HIDE DEF laid
<1>4. out' \in Sets /\ out'.claude = build.pkg.claude /\ out'.native = out.native
  BY <1>1, <1>2, <1>3 DEF Sets
<1>5. /\ "write codex" \in Last12 /\ "write codex" \notin Last4
      /\ "write claude" \in Last12 /\ "write claude" \in Last11 /\ "write claude" \in Last10
      /\ "write claude" \in Last9 /\ "write claude" \in Last8 /\ "write claude" \in Last7
      /\ "write claude" \in Last6
  BY DEF Last12, Last11, Last10, Last9, Last8, Last7, Last6, Last5, Last4, Last3, Last2, Last1
<1>6. /\ build' \in Builds /\ build'.at = "write codex" /\ build'.loaded = build.loaded
      /\ build'.version = build.version /\ build'.pkg = build.pkg
      /\ build'.digest = build.digest /\ build'.catalog = build.catalog
      /\ build'.calm = build.calm
  BY <1>1, <1>5, ToTyped
<1>7. BuildTypes'  BY <1>1, <1>4, <1>6 DEF Kept, BuildTypes
<1>8. SettledIsWhole'  BY <1>1 DEF SettledIsWhole
<1>9. CalmBuild'
  BY <1>1, <1>4, <1>5, <1>6 DEF Kept, CalmBuild, Last3, Last2, Last1
<1> QED BY <1>7, <1>8, <1>9 DEF Kept

LEMMA WriteCodexKeeps ==
    ASSUME Kept, WriteTree("codex", "market native") PROVE Kept'
<1> DEFINE laid == Laid(Swept(out.codex, Leftovers(out.codex, build.pkg.codex)),
                        build.pkg.codex, Len(Paths))
<1>1. /\ out' = [out EXCEPT !.codex = laid] /\ settled' = FALSE /\ To("market native")
      /\ UNCHANGED <<src, markets, events>> /\ build.at = "write codex"
  BY DEF WriteTree, At, Writing
<1>2. out \in Sets /\ build.pkg \in Sets  BY DEF Kept, BuildTypes, Builds
<1>3. laid = build.pkg.codex  BY <1>2, LaidWhole DEF Sets
<1> HIDE DEF laid
<1>4. /\ out' \in Sets /\ out'.codex = build.pkg.codex /\ out'.native = out.native
      /\ out'.claude = out.claude
  BY <1>1, <1>2, <1>3 DEF Sets
<1>5. /\ "market native" \in Last12 /\ "market native" \notin Last3
      /\ "write codex" \in Last12 /\ "write codex" \in Last11 /\ "write codex" \in Last10
      /\ "write codex" \in Last9 /\ "write codex" \in Last8 /\ "write codex" \in Last7
      /\ "write codex" \in Last6 /\ "write codex" \in Last5
  BY DEF Last12, Last11, Last10, Last9, Last8, Last7, Last6, Last5, Last4, Last3, Last2, Last1
<1>6. /\ build' \in Builds /\ build'.at = "market native" /\ build'.loaded = build.loaded
      /\ build'.version = build.version /\ build'.pkg = build.pkg
      /\ build'.digest = build.digest /\ build'.catalog = build.catalog
      /\ build'.calm = build.calm
  BY <1>1, <1>5, ToTyped
<1>7. BuildTypes'  BY <1>1, <1>4, <1>6 DEF Kept, BuildTypes
<1>8. SettledIsWhole'  BY <1>1 DEF SettledIsWhole
<1>9. CalmBuild'
  BY <1>1, <1>4, <1>5, <1>6 DEF Kept, CalmBuild, Last2, Last1
<1> QED BY <1>7, <1>8, <1>9 DEF Kept

LEMMA WriteMarketKeeps ==
    ASSUME Kept, WriteMarket PROVE Kept'
<1>1. UNCHANGED <<src, out, events, settled>>  BY DEF WriteMarket
<1>2. /\ build \in Builds
      /\ markets \in [native : [version : Versions \cup {"none"}, digest : Trees],
                      claude : Versions \cup {"none"}, codex : Versions \cup {"none"}]
  BY DEF Kept, BuildTypes
<1>3. CASE /\ At("market native") /\ To("market codex")
           /\ markets' = [markets EXCEPT !.native = [version |-> build.version,
                                                     digest |-> build.digest]]
  <2>1. /\ "market codex" \in Last12 /\ "market codex" \notin Last2
        /\ "market native" \in Last12 /\ "market native" \in Last11 /\ "market native" \in Last10
        /\ "market native" \in Last9 /\ "market native" \in Last8 /\ "market native" \in Last7
        /\ "market native" \in Last6 /\ "market native" \in Last5 /\ "market native" \in Last4
    BY DEF Last12, Last11, Last10, Last9, Last8, Last7, Last6, Last5, Last4, Last3, Last2, Last1
  <2>2. /\ build' \in Builds /\ build'.at = "market codex" /\ build'.loaded = build.loaded
        /\ build'.version = build.version /\ build'.pkg = build.pkg
        /\ build'.digest = build.digest /\ build'.catalog = build.catalog
        /\ build'.calm = build.calm
    BY <1>3, <2>1, ToTyped
  <2>3. /\ markets'.native = [version |-> build.version, digest |-> build.digest]
        /\ markets' \in [native : [version : Versions \cup {"none"}, digest : Trees],
                         claude : Versions \cup {"none"}, codex : Versions \cup {"none"}]
    BY <1>2, <1>3 DEF Builds
  <2>4. BuildTypes'  BY <1>1, <2>2, <2>3 DEF Kept, BuildTypes
  <2>5. SettledIsWhole'  BY <1>1, <1>3, <2>1 DEF Kept, SettledIsWhole, At
  <2>6. CalmBuild'  BY <1>1, <1>3, <2>1, <2>2, <2>3 DEF Kept, CalmBuild, At, Last1
  <2> QED BY <2>4, <2>5, <2>6 DEF Kept
<1>4. CASE /\ At("market codex") /\ To("market claude")
           /\ markets' = [markets EXCEPT !.codex = build.version]
  <2>1. /\ "market claude" \in Last12 /\ "market claude" \notin Last1
        /\ "market codex" \in Last12 /\ "market codex" \in Last11 /\ "market codex" \in Last10
        /\ "market codex" \in Last9 /\ "market codex" \in Last8 /\ "market codex" \in Last7
        /\ "market codex" \in Last6 /\ "market codex" \in Last5 /\ "market codex" \in Last4
        /\ "market codex" \in Last3
    BY DEF Last12, Last11, Last10, Last9, Last8, Last7, Last6, Last5, Last4, Last3, Last2, Last1
  <2>2. /\ build' \in Builds /\ build'.at = "market claude" /\ build'.loaded = build.loaded
        /\ build'.version = build.version /\ build'.pkg = build.pkg
        /\ build'.digest = build.digest /\ build'.catalog = build.catalog
        /\ build'.calm = build.calm
    BY <1>4, <2>1, ToTyped
  <2>3. /\ markets'.native = markets.native /\ markets'.codex = build.version
        /\ markets' \in [native : [version : Versions \cup {"none"}, digest : Trees],
                         claude : Versions \cup {"none"}, codex : Versions \cup {"none"}]
    BY <1>2, <1>4 DEF Builds
  <2>4. BuildTypes'  BY <1>1, <2>2, <2>3 DEF Kept, BuildTypes
  <2>5. SettledIsWhole'  BY <1>1, <1>4, <2>1 DEF Kept, SettledIsWhole, At
  <2>6. CalmBuild'  BY <1>1, <1>4, <2>1, <2>2, <2>3 DEF Kept, CalmBuild, At
  <2> QED BY <2>4, <2>5, <2>6 DEF Kept
<1>5. CASE /\ At("market claude") /\ To("catalog")
           /\ markets' = [markets EXCEPT !.claude = build.version]
  <2>1. /\ "catalog" \in Last12
        /\ "market claude" \in Last12 /\ "market claude" \in Last11 /\ "market claude" \in Last10
        /\ "market claude" \in Last9 /\ "market claude" \in Last8 /\ "market claude" \in Last7
        /\ "market claude" \in Last6 /\ "market claude" \in Last5 /\ "market claude" \in Last4
        /\ "market claude" \in Last3 /\ "market claude" \in Last2
    BY DEF Last12, Last11, Last10, Last9, Last8, Last7, Last6, Last5, Last4, Last3, Last2, Last1
  <2>2. /\ build' \in Builds /\ build'.at = "catalog" /\ build'.loaded = build.loaded
        /\ build'.version = build.version /\ build'.pkg = build.pkg
        /\ build'.digest = build.digest /\ build'.catalog = build.catalog
        /\ build'.calm = build.calm
    BY <1>5, <2>1, ToTyped
  <2>3. /\ markets'.native = markets.native /\ markets'.codex = markets.codex
        /\ markets'.claude = build.version
        /\ markets' \in [native : [version : Versions \cup {"none"}, digest : Trees],
                         claude : Versions \cup {"none"}, codex : Versions \cup {"none"}]
    BY <1>2, <1>5 DEF Builds
  <2>4. BuildTypes'  BY <1>1, <2>2, <2>3 DEF Kept, BuildTypes
  <2>5. SettledIsWhole'  BY <1>1, <1>5, <2>1 DEF Kept, SettledIsWhole, At
  <2>6. CalmBuild'  BY <1>1, <1>5, <2>1, <2>2, <2>3 DEF Kept, CalmBuild, At
  <2> QED BY <2>4, <2>5, <2>6 DEF Kept
<1> QED BY <1>3, <1>4, <1>5 DEF WriteMarket

LEMMA WriteCatalogKeeps ==
    ASSUME Kept, WriteCatalog PROVE Kept'
<1>1. /\ build.at = "catalog" /\ build' = NoBuild /\ settled' = build.calm
      /\ src' = [src EXCEPT !.row = build.catalog.row, !.number = build.catalog.number]
      /\ UNCHANGED <<out, markets, events>>
  BY DEF WriteCatalog, At
<1>2. /\ build \in Builds /\ src \in Sources /\ out \in Sets /\ build.pkg \in Sets
      /\ build.calm \in BOOLEAN
      /\ markets \in [native : [version : Versions \cup {"none"}, digest : Trees],
                      claude : Versions \cup {"none"}, codex : Versions \cup {"none"}]
  BY DEF Kept, BuildTypes, Builds
<1>3. PICK s2 : s2 = src'  OBVIOUS
<1>4. s2 \in Sources  BY <1>1, <1>2, <1>3 DEF Sources, Builds
<1>5. BuildTypes'  BY <1>1, <1>2, <1>3, <1>4, NoBuildTyped DEF Kept, BuildTypes
<1>6. build'.at \notin Last6
  BY <1>1, NoBuildTyped DEF Last6, Last5, Last4, Last3, Last2, Last1
<1>7. CalmBuild'  BY <1>1, NoBuildTyped DEF CalmBuild
<1>8. ASSUME build.calm
      PROVE  LintRefuses(src)' = FALSE /\ \E v \in Versions : Whole(v)'
  <2>1. /\ "catalog" \in Last12 /\ "catalog" \in Last11 /\ "catalog" \in Last10
        /\ "catalog" \in Last9 /\ "catalog" \in Last8 /\ "catalog" \in Last7
        /\ "catalog" \in Last6 /\ "catalog" \in Last5 /\ "catalog" \in Last4
        /\ "catalog" \in Last3 /\ "catalog" \in Last2 /\ "catalog" \in Last1
    BY DEF Last12, Last11, Last10, Last9, Last8, Last7, Last6, Last5, Last4, Last3, Last2, Last1
  <2> DEFINE v == build.version
             n == NativePkg(src, src, v)
             c == ClaudePkg(src, src, v)
             x == CodexPkg(src, src, v)
  <2>2. /\ ~LintRefuses(src) /\ v \in Versions
        /\ out.native = n /\ out.claude = c /\ out.codex = x
        /\ markets.native = [version |-> v, digest |-> n] /\ markets.codex = v
        /\ markets.claude = v
        /\ build.catalog = [row |-> src.row, number |-> Number(src.skill)]
    BY <1>1, <1>8, <2>1 DEF Kept, CalmBuild
  <2>3. SameContent(src, s2) /\ s2.number = Number(s2.skill)
    BY <1>1, <1>2, <1>3, <2>2 DEF SameContent, Sources
  <2>4. /\ n = NativePkg(s2, s2, v) /\ c = ClaudePkg(s2, s2, v) /\ x = CodexPkg(s2, s2, v)
        /\ LintRefuses(src) <=> LintRefuses(s2)
    BY <2>3, SamePackages
  <2> HIDE DEF v, n, c, x
  <2>5. out = [native |-> n, claude |-> c, codex |-> x]  BY <1>2, <2>2 DEF Sets
  <2>6. markets = [native |-> [version |-> v, digest |-> n], claude |-> v, codex |-> v]
    BY <1>2, <2>2
  <2>7. ~LintRefuses(s2) /\ ~Problems(s2)  BY <2>2, <2>4 DEF LintRefuses
  <2>8. PICK w : w = v  OBVIOUS
  <2>9. Whole(w)'
    BY <1>1, <1>3, <2>3, <2>4, <2>5, <2>6, <2>7, <2>8 DEF Whole
  <2>10. w \in Versions  BY <2>2, <2>8
  <2> QED BY <1>3, <2>7, <2>9, <2>10
<1>9. SettledIsWhole'  BY <1>1, <1>6, <1>8 DEF SettledIsWhole
<1> QED BY <1>5, <1>7, <1>9 DEF Kept

LEMMA KillKeeps ==
    ASSUME Kept, Kill PROVE Kept'
<1>1. /\ build' = NoBuild /\ UNCHANGED <<src, markets>> /\ events' = events + 1
  BY DEF Kill, Event
<1>2. build'.at = "idle" /\ build' \in Builds  BY <1>1, NoBuildTyped
<1>3. "idle" \notin Last6  BY DEF Last6, Last5, Last4, Last3, Last2, Last1
<1>4. CalmBuild'  BY <1>2 DEF CalmBuild
<1>5. events' \in Nat  BY <1>1 DEF Kept, BuildTypes
<1>6. CASE UNCHANGED <<out, settled>>
  <2>1. BuildTypes'  BY <1>1, <1>2, <1>6 DEF Kept, BuildTypes
  <2>2. \A v : Whole(v)' = Whole(v)  BY <1>1, <1>6 DEF Whole
  <2>3. SettledIsWhole'  BY <1>1, <1>2, <1>3, <1>6, <2>2 DEF Kept, SettledIsWhole
  <2> QED BY <1>4, <2>1, <2>3 DEF Kept
<1>7. CASE ~UNCHANGED <<out, settled>>
  <2> DEFINE left(t) == Leftovers(out[t], build.pkg[t])
  <2>1. PICK t \in Tools :
            /\ settled' = FALSE
            /\ \/ \E gone \in SUBSET left(t) : out' = [out EXCEPT ![t] = Swept(out[t], gone)]
               \/ \E n \in 1..(Len(Paths) - 1) :
                    out' = [out EXCEPT ![t] = Laid(Swept(out[t], left(t)), build.pkg[t], n)]
    BY <1>7 DEF Kill
  <2> HIDE DEF left
  <2>2. out \in Sets /\ build.pkg \in Sets  BY DEF Kept, BuildTypes, Builds
  <2>3. out[t] \in Trees /\ build.pkg[t] \in Trees  BY <2>2 DEF Sets, Tools
  <2>4. PICK f : f \in Trees /\ out' = [out EXCEPT ![t] = f]
    BY <2>1, <2>3, LaidTyped
  <2>5. out' \in Sets  BY <2>2, <2>4 DEF Sets, Tools
  <2>6. settled' \in BOOLEAN  BY <2>1
  <2>7. BuildTypes'  BY <1>1, <1>2, <1>5, <2>5, <2>6 DEF Kept, BuildTypes
  <2>8. SettledIsWhole'  BY <2>1 DEF SettledIsWhole
  <2> QED BY <1>4, <2>7, <2>8 DEF Kept
<1> QED BY <1>6, <1>7

\* An edit, or damage, ends the calm of a build that runs.
LEMMA UncalmTyped ==
    ASSUME Kept, build' = [build EXCEPT !.calm = FALSE], settled' = FALSE
    PROVE  build' \in Builds /\ CalmBuild' /\ SettledIsWhole'
<1>1. build' \in Builds /\ build'.calm = FALSE  BY DEF Kept, BuildTypes, Builds
<1> QED BY <1>1 DEF CalmBuild, SettledIsWhole

LEMMA AuthorEditsKeeps ==
    ASSUME Kept, AuthorEdits PROVE Kept'
<1>1. /\ build' = [build EXCEPT !.calm = FALSE] /\ settled' = FALSE /\ UNCHANGED <<out, markets>>
      /\ events' = events + 1
  BY DEF AuthorEdits, Event
<1>2. src \in Sources  BY DEF Kept, BuildTypes
<1>3. src' \in Sources  BY <1>2 DEF AuthorEdits, Sources
<1>4. events' \in Nat  BY <1>1 DEF Kept, BuildTypes
<1>5. settled' \in BOOLEAN  BY <1>1
<1>6. BuildTypes'  BY <1>1, <1>3, <1>4, <1>5, UncalmTyped DEF Kept, BuildTypes
<1> QED BY <1>1, <1>6, UncalmTyped DEF Kept

LEMMA DamageKeeps ==
    ASSUME Kept, Damage PROVE Kept'
<1>1. /\ build' = [build EXCEPT !.calm = FALSE] /\ settled' = FALSE /\ src' = src
      /\ events' = events + 1
  BY DEF Damage, Event
<1>2. /\ out \in Sets
      /\ markets \in [native : [version : Versions \cup {"none"}, digest : Trees],
                      claude : Versions \cup {"none"}, codex : Versions \cup {"none"}]
  BY DEF Kept, BuildTypes
<1>3. NoFile \in Files /\ Link \in Files /\ <<"x">> \in Files  BY FilesAre DEF Words
<1>5. events' \in Nat  BY <1>1 DEF Kept, BuildTypes
<1>6. settled' \in BOOLEAN  BY <1>1
<1>4. NoDigest \in Trees  BY <1>3 DEF NoDigest, Trees
<1>7. CASE \E t \in Tools, p \in PathSet, f \in {NoFile, Link, <<"x">>} :
              out' = [out EXCEPT ![t][p] = f] /\ UNCHANGED markets
  <2>1. PICK t \in Tools, p \in PathSet, f \in {NoFile, Link, <<"x">>} :
            out' = [out EXCEPT ![t][p] = f] /\ UNCHANGED markets
    BY <1>7
  <2>2. out[t] \in Trees /\ f \in Files  BY <1>2, <1>3 DEF Sets, Tools
  <2>3. PICK g : g = [out[t] EXCEPT ![p] = f]  OBVIOUS
  <2>4. g \in Trees  BY <2>2, <2>3 DEF Trees
  <2>5. out' = [out EXCEPT ![t] = g]  BY <2>1, <2>3
  <2>6. out' \in Sets  BY <1>2, <2>4, <2>5 DEF Sets, Tools
  <2>7. BuildTypes'  BY <1>1, <1>5, <1>6, <2>1, <2>6, UncalmTyped DEF Kept, BuildTypes
  <2> QED BY <1>1, <2>7, UncalmTyped DEF Kept
<1>8. CASE markets' = [markets EXCEPT !.native = [version |-> "none", digest |-> NoDigest]]
           /\ UNCHANGED out
  <2>1. markets' \in [native : [version : Versions \cup {"none"}, digest : Trees],
                      claude : Versions \cup {"none"}, codex : Versions \cup {"none"}]
    BY <1>2, <1>4, <1>8
  <2>2. BuildTypes'  BY <1>1, <1>5, <1>6, <1>8, <2>1, UncalmTyped DEF Kept, BuildTypes
  <2> QED BY <1>1, <2>2, UncalmTyped DEF Kept
<1>9. CASE (\E t \in {"claude", "codex"} : markets' = [markets EXCEPT ![t] = "none"])
           /\ UNCHANGED out
  <2>1. markets' \in [native : [version : Versions \cup {"none"}, digest : Trees],
                      claude : Versions \cup {"none"}, codex : Versions \cup {"none"}]
    BY <1>2, <1>9
  <2>2. BuildTypes'  BY <1>1, <1>5, <1>6, <1>9, <2>1, UncalmTyped DEF Kept, BuildTypes
  <2> QED BY <1>1, <2>2, UncalmTyped DEF Kept
<1> QED BY <1>7, <1>8, <1>9 DEF Damage

\* The packages are of the content and of the version they were rendered with,
\* so that a bump takes nothing from a build or from a checkout.
LEMMA BumpKeeps ==
    ASSUME Kept, Bump PROVE Kept'
<1>1. /\ UNCHANGED <<out, markets, build, settled>> /\ events' = events + 1
      /\ \E v \in Versions : src' = [src EXCEPT !.version = v]
  BY DEF Bump, Event, Versions
<1>2. src \in Sources  BY DEF Kept, BuildTypes
<1>3. PICK s2 : s2 = src'  OBVIOUS
<1>4. s2 \in Sources /\ SameContent(src, s2) /\ s2.number = src.number
  BY <1>1, <1>2, <1>3 DEF Sources, SameContent
<1>5. \A v : /\ NativePkg(src, src, v) = NativePkg(s2, s2, v)
             /\ ClaudePkg(src, src, v) = ClaudePkg(s2, s2, v)
             /\ CodexPkg(src, src, v) = CodexPkg(s2, s2, v)
  BY <1>4, SamePackages
<1>6. /\ LintRefuses(src) <=> LintRefuses(s2)
      /\ Problems(src) <=> Problems(s2)
      /\ Number(src.skill) = Number(s2.skill) /\ src.row = s2.row
  <2>1. /\ LintRefuses(src) <=> LintRefuses(s2)
        /\ Problems(src) <=> Problems(s2)
        /\ Number(src.skill) = Number(s2.skill) /\ NativePkg(src, src, "1") = NativePkg(s2, s2, "1")
    BY <1>4, SamePackages
  <2> QED BY <1>4, <2>1 DEF SameContent
<1>7. SameContent(build.loaded, src) => SameContent(build.loaded, s2)
  BY <1>4 DEF SameContent
<1>8. BuildTypes'  BY <1>1, <1>3, <1>4 DEF Kept, BuildTypes
<1>9. CalmBuild'
  BY <1>1, <1>3, <1>5, <1>6, <1>7 DEF Kept, CalmBuild
<1>10. \A v : Whole(v) => Whole(v)'
  BY <1>1, <1>3, <1>4, <1>5, <1>6 DEF Whole
<1>11. SettledIsWhole'
  BY <1>1, <1>3, <1>6, <1>10 DEF Kept, SettledIsWhole
<1> QED BY <1>8, <1>9, <1>11 DEF Kept

-----------------------------------------------------------------------------
\* Build: the verdict, and the theorems.

LEMMA StepKeeps ==
    ASSUME Kept, Step PROVE Kept'
BY LintKeeps, LoadKeeps, RenderNativeKeeps, RenderClaudeKeeps, RenderCodexKeeps, AskDigestKeeps,
   RefreshCatalogKeeps, DryRunKeeps, WriteNativeKeeps, WriteClaudeKeeps, WriteCodexKeeps,
   WriteMarketKeeps, WriteCatalogKeeps, KillKeeps, AuthorEditsKeeps, BumpKeeps, DamageKeeps
   DEF Step

LEMMA CleanIsOfFiles ==
    ASSUME UNCHANGED <<src, out, markets>> PROVE Clean' <=> Clean
<1>1. CommittedVersion' = CommittedVersion  BY DEF CommittedVersion
<1>2. \A n, v : CatalogsDiffer(n, v)' <=> CatalogsDiffer(n, v)  BY DEF CatalogsDiffer
<1> QED BY <1>1, <1>2 DEF Clean, CatalogsDiffer

BuildIInv == BuildTypeOK /\ BuildKept

LEMMA BuildInitKept == BInit => BuildIInv
<1> SUFFICES ASSUME BInit PROVE BuildIInv
  OBVIOUS
<1> DEFINE c == FirstContent
           n == NativePkg(c, c, "1")
           l == ClaudePkg(c, c, "1")
           x == CodexPkg(c, c, "1")
<1>1. /\ src = c /\ out = [native |-> n, claude |-> l, codex |-> x]
      /\ markets = [native |-> [version |-> "1", digest |-> n], claude |-> "1", codex |-> "1"]
      /\ build = NoBuild /\ verdict = "none" /\ events = 0 /\ settled = TRUE
  BY DEF BInit, Digest
<1>2. c \in Sources /\ "1" \in Versions  BY NoBuildTyped DEF Versions
<1>3. n \in Trees /\ l \in Trees /\ x \in Trees  BY <1>2, NativeIs, ClaudeIs, CodexIs
<1>4. ~LintRefuses(c) /\ ~Problems(c) /\ c.number = Number(c.skill)
  BY DEF FirstContent, LintRefuses, Problems, SymlinkFound, Unclaimed, BadDeclaration, OverBudget,
     HostRefuses, Number, BudgetLimit
<1>5. Whole("1")  BY <1>1, <1>4 DEF Whole
<1> HIDE DEF c, n, l, x
<1>6. BuildTypeOK
  BY <1>1, <1>2, <1>3, NoBuildTyped DEF BuildTypeOK, BuildTypes, Sets
<1>7. CalmBuild  BY <1>1, NoBuildTyped DEF CalmBuild
<1>8. SettledIsWhole
  BY <1>1, <1>2, <1>4, <1>5, NoBuildTyped DEF SettledIsWhole, Last6, Last5, Last4, Last3, Last2, Last1
<1>9. VerdictIsTrue  BY <1>1 DEF VerdictIsTrue
<1> QED BY <1>6, <1>7, <1>8, <1>9 DEF BuildIInv, BuildKept

LEMMA BuildNextKeeps ==
    ASSUME BuildIInv, [BNext]_bVars PROVE BuildIInv'
<1>1. Kept /\ VerdictIsTrue /\ verdict \in {"none", "clean", "drift"}
  BY DEF BuildIInv, BuildTypeOK, BuildKept, Kept
<1>2. CASE Check
  <2>1. Same /\ build' = build  BY <1>2 DEF Check, Same
  <2>2. BuildTypes'  BY <1>1, <2>1 DEF Same, Kept, BuildTypes
  <2>3. CalmBuild'  BY <1>1, <2>1 DEF Same, Kept, CalmBuild
  <2>4. SettledIsWhole'  BY <1>1, <2>1 DEF Same, Kept, SettledIsWhole, Whole
  <2>5. (Clean' <=> Clean) /\ verdict' = IF Clean THEN "clean" ELSE "drift"
    BY <1>2, <2>1, CleanIsOfFiles DEF Check, Same
  <2>6. VerdictIsTrue' /\ verdict' \in {"none", "clean", "drift"}  BY <2>5 DEF VerdictIsTrue
  <2> QED BY <2>2, <2>3, <2>4, <2>6 DEF BuildIInv, BuildTypeOK, BuildKept
<1>3. CASE Step /\ verdict' = IF <<src, out, markets>>' = <<src, out, markets>> THEN verdict ELSE "none"
  <2>1. Kept'  BY <1>1, <1>3, StepKeeps
  <2>2. CASE UNCHANGED <<src, out, markets>>
    <3>1. verdict' = verdict /\ (Clean' <=> Clean)  BY <1>3, <2>2, CleanIsOfFiles
    <3>2. VerdictIsTrue'  BY <1>1, <3>1 DEF VerdictIsTrue
    <3> QED BY <1>1, <2>1, <3>1, <3>2 DEF BuildIInv, BuildTypeOK, BuildKept, Kept
  <2>3. CASE ~UNCHANGED <<src, out, markets>>
    <3>1. verdict' = "none"  BY <1>3, <2>3
    <3>2. VerdictIsTrue'  BY <3>1 DEF VerdictIsTrue
    <3> QED BY <2>1, <3>1, <3>2 DEF BuildIInv, BuildTypeOK, BuildKept, Kept
  <2> QED BY <2>2, <2>3
<1>4. CASE UNCHANGED bVars
  <2>1. /\ UNCHANGED <<src, out, markets>> /\ build' = build /\ verdict' = verdict
        /\ events' = events /\ settled' = settled
    BY <1>4 DEF bVars
  <2>2. Clean' <=> Clean  BY <2>1, CleanIsOfFiles
  <2>3. BuildTypes'  BY <1>1, <2>1 DEF Kept, BuildTypes
  <2>4. CalmBuild'  BY <1>1, <2>1 DEF Kept, CalmBuild
  <2>5. SettledIsWhole'  BY <1>1, <2>1 DEF Kept, SettledIsWhole, Whole
  <2>6. VerdictIsTrue'  BY <1>1, <2>1, <2>2 DEF VerdictIsTrue
  <2> QED BY <1>1, <2>1, <2>3, <2>4, <2>5, <2>6 DEF BuildIInv, BuildTypeOK, BuildKept
<1> QED BY <1>2, <1>3, <1>4 DEF BNext

\* The checkout, what a build has in memory and the verdict have the types
\* declared for them, through any number of builds, kills, edits and damage.
THEOREM BuildTypeCorrect == BuildSpec => []BuildTypeOK
<1>1. BuildIInv => BuildTypeOK  BY DEF BuildIInv
<1> QED BY <1>1, BuildInitKept, BuildNextKeeps, PTL DEF BuildSpec

\* A build under which nobody edited has in memory and has written what the
\* content gives (crates/omm-manifest's render and write), what has settled is
\* whole at some version, and a verdict is true of the files it was given on.
THEOREM BuildStaysKept == BuildSpec => []BuildKept
<1>1. BuildIInv => BuildKept  BY DEF BuildIInv
<1> QED BY <1>1, BuildInitKept, BuildNextKeeps, PTL DEF BuildSpec

\* What passes `omm build --check` can be installed by the host and is the
\* present content at one version in the three packages and their catalogs,
\* whatever builds were killed, edited into or failed before.
THEOREM WhatPassesInstalls == BuildSpec => []CleanInstalls
<1>1. BuildIInv => CleanInstalls
  <2> SUFFICES ASSUME BuildIInv, verdict = "clean" PROVE CleanInstalls
    BY DEF CleanInstalls
  <2>1. BuildTypeOK /\ Clean  BY DEF BuildIInv, BuildKept, VerdictIsTrue
  <2> QED BY <2>1, CleanIsInstallable DEF CleanInstalls
<1> QED BY <1>1, BuildInitKept, BuildNextKeeps, PTL DEF BuildSpec

\* A build that ended on content nobody edited leaves a checkout that the check
\* calls clean, the lint passes and the host installs, whatever bumps of the
\* version follow.
THEOREM CalmBuildsSettle == BuildSpec => []BuildSettles
<1>1. BuildIInv => BuildSettles
  <2> SUFFICES ASSUME BuildIInv, settled, verdict # "none"
               PROVE  verdict = "clean" /\ ~LintRefuses(src) /\ HostInstalls
    BY DEF BuildSettles
  <2>1. /\ BuildTypeOK /\ VerdictIsTrue /\ ~LintRefuses(src) /\ src \in Sources
        /\ \E v \in Versions : Whole(v)
    BY DEF BuildIInv, BuildKept, SettledIsWhole, BuildTypeOK, BuildTypes
  <2>2. Clean  BY <2>1, WholeIsClean
  <2>3. verdict = "clean"  BY <2>1, <2>2 DEF BuildTypeOK, VerdictIsTrue
  <2> QED BY <2>1, <2>2, <2>3, CleanIsInstallable
<1> QED BY <1>1, BuildInitKept, BuildNextKeeps, PTL DEF BuildSpec

-----------------------------------------------------------------------------
\* Doctor: the types.

Installs == {"install", "install --no-plugin"}
Todos == {<<>>, <<"reconcile">>} \cup {<<c>> : c \in Installs}
           \cup {<<"reconcile", c>> : c \in Installs}

Fixes == [todo : Todos, outcome : {"none", "running", "ran", "refused"},
          check : {"none", "D13", "D1"}, stacked : BOOLEAN]
Books == [state : {"loaded", "absent", "corrupt"}, plugin : BOOLEAN, market : BOOLEAN,
          has : SUBSET Names]
Spots == [what : {"none", "ours", "user's", "both"}, at : {"place", "link", "outside"}]

RepairTypeOK ==
    /\ book \in Books
    /\ files \in [Names -> Spots]
    /\ \A a \in {"skill", "theme"} : files[a].what # "both"
    /\ kept \in BOOLEAN /\ bundle \in BOOLEAN /\ market \in BOOLEAN
    /\ fix \in Fixes
    /\ faults \in Nat

-----------------------------------------------------------------------------
\* Doctor: the invariant. No ledger says nothing; and a fix that was printed
\* where nothing was stacked is still one that can run and mends the rest.

EndsWith(c) == fix.todo \in {<<c>>, <<"reconcile", c>>}

Mendable ==
    /\ ~Stacked
    /\ EndsWith("install") => ~Present("skill") /\ "skill" \notin book.has
    /\ EndsWith("install --no-plugin") => ~bundle /\ ~book.plugin
    /\ fix.todo = <<"reconcile">> =>
         fix.check = "D13" /\ book.state = "loaded" /\ Missing \cup Unlisted = {}

FixKept ==
    /\ book.state # "loaded" => book.has = {} /\ ~book.plugin
    /\ fix.todo # <<>> => fix.outcome = "running"
    /\ fix.outcome = "running" /\ ~fix.stacked => Mendable
    /\ FixHeals

RepairIInv == RepairTypeOK /\ FixKept

-----------------------------------------------------------------------------
\* Doctor: lemmas about what is printed and what a command makes of a file.

LEMMA TodosAre ==
    /\ \A t \in Todos : \/ t = <<>> \/ t = <<"reconcile">>
                        \/ \E c \in Installs : t = <<c>> \/ t = <<"reconcile", c>>
    /\ <<>> \in Todos /\ <<"reconcile">> \in Todos
    /\ \A c \in Installs : <<c>> \in Todos /\ <<"reconcile", c>> \in Todos
BY DEF Todos

LEMMA OneTodo ==
    ASSUME NEW c
    PROVE  Head(<<c>>) = c /\ Tail(<<c>>) = <<>> /\ Len(<<c>>) = 1 /\ <<c>> # <<>>
OBVIOUS

LEMMA TwoTodos ==
    ASSUME NEW c, NEW d
    PROVE  /\ Head(<<c, d>>) = c /\ Tail(<<c, d>>) = <<d>> /\ Len(<<c, d>>) = 2
           /\ <<c, d>> # <<>> /\ \A e : <<e>> # <<c, d>>
<1>1. Head(<<c, d>>) = c /\ Len(<<c, d>>) = 2 /\ <<c, d>> # <<>>  OBVIOUS
<1>2. Tail(<<c, d>>) = <<d>>
  <2>1. <<c, d>> \in Seq({c, d}) /\ <<d>> \in Seq({c, d})  OBVIOUS
  <2>2. Tail(<<c, d>>) \in Seq({c, d}) /\ Len(Tail(<<c, d>>)) = 1 /\ Tail(<<c, d>>)[1] = d
    BY <2>1
  <2> QED BY <2>1, <2>2, SeqEqual
<1>3. \A e : <<e>> # <<c, d>>
  <2>1. \A e : Len(<<e>>) = 1  OBVIOUS
  <2> QED BY <1>1, <2>1
<1> QED BY <1>1, <1>2, <1>3

\* How omm is installed, when nothing is stacked.
LEMMA ModeIs ==
    ASSUME RepairTypeOK, book.state # "loaded" => book.has = {} /\ ~book.plugin, ~Stacked
    PROVE  /\ Mode = "managed" => ~bundle /\ ~book.plugin
           /\ Mode # "managed" => ~Present("skill") /\ "skill" \notin book.has
<1>1. CASE book.state = "loaded" /\ book.plugin
  BY <1>1 DEF Mode, Stacked, RepairTypeOK
<1>2. CASE book.state = "loaded" /\ ~book.plugin /\ "skill" \in book.has
  BY <1>2 DEF Mode, Stacked, RepairTypeOK
<1>3. CASE ~(book.state = "loaded" /\ (book.plugin \/ "skill" \in book.has))
  <2>1. Mode = IF bundle THEN "bundle" ELSE IF ListedByHost THEN "managed" ELSE "none"
    BY <1>3 DEF Mode
  <2>2. ~book.plugin /\ "skill" \notin book.has  BY <1>3
  <2> QED BY <2>1, <2>2 DEF Stacked, ListedByHost
<1> QED BY <1>1, <1>2, <1>3

LEMMA PutIs ==
    ASSUME RepairTypeOK, NEW a \in Names
    PROVE  /\ Put(a) \in [what : {"ours", "user's", "both"}, at : {"place", "link", "outside"}]
           /\ a # "rules" => Put(a).what # "both"
           /\ Put(a) = files[a] \/ (Put(a).what \in {"ours", "both"} /\ Put(a).at = "place")
           /\ a # "rules" /\ Present(a) => Put(a) = files[a]
           /\ files[a].at # "place" /\ Present(a) => Put(a) = files[a]
<1>1. /\ files[a] \in Spots
      /\ a # "rules" => files[a].what # "both"
  BY DEF RepairTypeOK, Names, Spots
<1>2. CASE ~Present(a)
  <2>1. Put(a) = [what |-> "ours", at |-> "place"]  BY <1>2 DEF Put, Present
  <2> QED BY <1>2, <2>1
<1>3. CASE a = "rules" /\ "rules" \notin book.has /\ files[a] = [what |-> "user's", at |-> "place"]
  <2>1. Present(a)  BY <1>3 DEF Present
  <2>2. Put(a) = [what |-> "both", at |-> "place"]  BY <1>3, <2>1 DEF Put
  <2> QED BY <1>3, <2>2
<1>4. CASE /\ Present(a)
           /\ ~(a = "rules" /\ "rules" \notin book.has /\ files[a] = [what |-> "user's", at |-> "place"])
  <2>1. Put(a) = files[a]  BY <1>4 DEF Put
  <2> QED BY <1>1, <1>4, <2>1 DEF Present, Spots
<1> QED BY <1>2, <1>3, <1>4

\* A file that omm did not enter is the user's to see to.
LEMMA EnteredOrLeft ==
    ASSUME RepairTypeOK, NEW a \in {"theme", "rules"}, a \notin Entered
    PROVE  Put(a).at # "place" \/ Put(a).what = "user's"
<1>1. /\ files[a] \in Spots
      /\ a # "rules" => files[a].what # "both"
  BY DEF RepairTypeOK, Names, Spots
<1>2. Present(a)  BY DEF Entered
<1>3. CASE files[a].at # "place"  BY <1>2, <1>3, PutIs DEF Names
<1>4. CASE files[a].at = "place"
  <2>1. a = "theme" /\ files[a].what # "ours"  BY <1>2, <1>4 DEF Entered
  <2>2. Put(a) = files[a]  BY <1>2, <2>1, PutIs DEF Names
  <2>3. files[a].what = "user's"  BY <1>1, <1>2, <2>1 DEF Present, Spots
  <2> QED BY <2>2, <2>3
<1> QED BY <1>3, <1>4

-----------------------------------------------------------------------------
\* Doctor: what is wrong, and what is printed.

LEMMA NoFixKeeps ==
    ASSUME fix' = NoFix, (book.state # "loaded" => book.has = {} /\ ~book.plugin)'
    PROVE  FixKept'
<1>1. fix'.todo = <<>> /\ fix'.outcome = "none"  BY DEF NoFix
<1>2. FixHeals'  BY <1>1 DEF FixHeals
<1> QED BY <1>1, <1>2 DEF FixKept

LEMMA NoFixTyped == NoFix \in Fixes
BY TodosAre DEF NoFix, Fixes

LEMMA DoctorKeeps ==
    ASSUME RepairIInv, Doctor PROVE RepairIInv'
<1>1. /\ UNCHANGED <<book, files, kept, bundle, market, faults>>
      /\ \/ ~D13Fine /\ fix' = [todo |-> D13Fix, outcome |-> "running", check |-> "D13", stacked |-> Stacked]
         \/ fix' = [todo |-> <<Install>>, outcome |-> "running", check |-> "D1", stacked |-> Stacked]
  BY DEF Doctor
<1>2. RepairTypeOK /\ (book.state # "loaded" => book.has = {} /\ ~book.plugin)
  BY DEF RepairIInv, FixKept
<1>3. Install \in Installs /\ (Mode = "managed" <=> Install = "install --no-plugin")
  BY DEF Install, Installs
<1>4. \/ D13Fix = <<"reconcile">> /\ book.state = "loaded" /\ Missing \cup Unlisted = {}
      \/ D13Fix = <<Install>> \/ D13Fix = <<"reconcile", Install>>
  BY DEF D13Fix, FixFor
<1>5. /\ <<Install>> # <<>> /\ <<"reconcile">> # <<>> /\ <<"reconcile", Install>> # <<>>
      /\ \A c, d : <<c>> # <<"reconcile", d>>
  BY OneTodo, TwoTodos
<1>6. /\ \A c, d : <<c>> = <<d>> => c = d
      /\ \A c, d : <<"reconcile", c>> = <<"reconcile", d>> => c = d
  <2>1. \A c, d : <<"reconcile", c>>[2] = c /\ <<c>>[1] = c  OBVIOUS
  <2> QED BY <2>1
<1>7. fix'.todo \in {<<"reconcile">>, <<Install>>, <<"reconcile", Install>>}
  BY <1>1, <1>4
<1>8. /\ fix'.outcome = "running" /\ fix'.check \in {"D13", "D1"} /\ fix'.stacked = Stacked
      /\ fix'.todo = <<"reconcile">> =>
           fix'.check = "D13" /\ book.state = "loaded" /\ Missing \cup Unlisted = {}
  <2>1. "reconcile" # Install  BY <1>3 DEF Installs
  <2> QED BY <1>1, <1>4, <1>5, <1>6, <2>1
<1>9. fix' \in Fixes
  <2>1. Stacked \in BOOLEAN  BY <1>2 DEF Stacked, RepairTypeOK, Books
  <2>2. D13Fix \in Todos /\ <<Install>> \in Todos  BY <1>3, <1>4, TodosAre
  <2> QED BY <1>1, <2>1, <2>2 DEF Fixes
<1>10. RepairTypeOK'  BY <1>1, <1>2, <1>9 DEF RepairTypeOK
<1>11. ASSUME ~Stacked PROVE Mendable'
  <2>1. \A c : EndsWith(c)' => c = Install \/ c = "reconcile"
    BY <1>5, <1>6, <1>7 DEF EndsWith
  <2>2. EndsWith("install")' => ~Present("skill") /\ "skill" \notin book.has
    BY <1>2, <1>3, <1>11, <2>1, ModeIs
  <2>3. EndsWith("install --no-plugin")' => ~bundle /\ ~book.plugin
    BY <1>2, <1>3, <1>11, <2>1, ModeIs
  <2>4. Stacked' = Stacked /\ Missing' = Missing /\ Unlisted' = Unlisted
        /\ Present("skill")' = Present("skill")
    BY <1>1 DEF Stacked, Missing, Unlisted, Present
  <2> QED BY <1>1, <1>8, <1>11, <2>2, <2>3, <2>4 DEF Mendable
<1>12. FixHeals'
  <2>1. Stacked' = Stacked  BY <1>1 DEF Stacked, Present
  <2> QED BY <1>8, <2>1 DEF FixHeals
<1>13. FixKept'  BY <1>1, <1>2, <1>8, <1>11, <1>12 DEF FixKept
<1> QED BY <1>10, <1>13 DEF RepairIInv

\* A fault ends the following of a fix.
LEMMA FaultsKeep ==
    ASSUME RepairIInv, LedgerLost \/ FileChanged \/ HostChanged PROVE RepairIInv'
<1>1. fix' = NoFix /\ faults' = faults + 1  BY DEF LedgerLost, FileChanged, HostChanged, Fault
<1>2. RepairTypeOK /\ (book.state # "loaded" => book.has = {} /\ ~book.plugin)
  BY DEF RepairIInv, FixKept
<1>3. faults' \in Nat  BY <1>1, <1>2 DEF RepairTypeOK
<1>4. CASE LedgerLost
  <2>1. book' \in {NoBook("absent"), NoBook("corrupt")} /\ UNCHANGED <<files, kept, bundle, market>>
    BY <1>4 DEF LedgerLost
  <2>2. /\ book' \in Books
        /\ book'.has = {} /\ ~book'.plugin
    <3>1. PICK s \in {"absent", "corrupt"} :
              book' = [state |-> s, plugin |-> FALSE, market |-> FALSE, has |-> {}]
      BY <2>1 DEF NoBook
    <3>2. {} \in SUBSET Names  OBVIOUS
    <3>3. book'.has = {} /\ ~book'.plugin  BY <3>1
    <3>4. book' \in Books
      BY <3>1, <3>2 DEF Books
    <3> QED BY <3>3, <3>4
  <2>3. RepairTypeOK'  BY <1>1, <1>2, <1>3, <2>1, <2>2, NoFixTyped DEF RepairTypeOK
  <2>4. FixKept'  BY <1>1, <2>2, NoFixKeeps
  <2> QED BY <2>3, <2>4 DEF RepairIInv
<1>5. CASE FileChanged
  <2>1. UNCHANGED <<book, kept, bundle, market>>  BY <1>5 DEF FileChanged
  <2>2. /\ files' \in [Names -> Spots]
        /\ \A a \in {"skill", "theme"} : files'[a].what # "both"
    <3>1. files \in [Names -> Spots]
          /\ \A a \in {"skill", "theme"} : files[a].what # "both"
      BY <1>2 DEF RepairTypeOK
    <3>2. PICK a \in Names :
              \/ files' = [files EXCEPT ![a] = Gone]
              \/ \E c \in Contents(a) : files' = [files EXCEPT ![a].what = c]
              \/ \E at \in {"place", "link", "outside"} : files' = [files EXCEPT ![a].at = at]
      BY <1>5 DEF FileChanged
    <3>3. PICK f : /\ files' = [files EXCEPT ![a] = f]
                   /\ f \in Spots
                   /\ a \in {"skill", "theme"} => f.what # "both"
      <4>1. CASE files' = [files EXCEPT ![a] = Gone]
        <5>1. PICK f : f = Gone  OBVIOUS
        <5>2. /\ f \in Spots
              /\ f.what = "none"
          BY <5>1 DEF Gone, Spots
        <5> QED BY <4>1, <5>1, <5>2
      <4>2. CASE \E c \in Contents(a) : files' = [files EXCEPT ![a].what = c]
        <5>1. PICK c \in Contents(a) : files' = [files EXCEPT ![a].what = c]  BY <4>2
        <5>2. c \in {"ours", "user's", "both"} /\ (a # "rules" => c # "both")
          BY DEF Contents
        <5>3. PICK f : f = [files[a] EXCEPT !.what = c]  OBVIOUS
        <5>4. /\ f \in Spots
              /\ f.what = c
          BY <3>1, <5>2, <5>3 DEF Spots
        <5> QED BY <5>1, <5>2, <5>3, <5>4
      <4>3. CASE \E at \in {"place", "link", "outside"} : files' = [files EXCEPT ![a].at = at]
        <5>1. PICK at \in {"place", "link", "outside"} : files' = [files EXCEPT ![a].at = at]
          BY <4>3
        <5>2. PICK f : f = [files[a] EXCEPT !.at = at]  OBVIOUS
        <5>3. /\ f \in Spots
              /\ f.what = files[a].what
          BY <3>1, <5>2 DEF Spots
        <5> QED BY <3>1, <5>1, <5>2, <5>3
      <4> QED BY <3>2, <4>1, <4>2, <4>3
    <3> QED BY <3>1, <3>3 DEF Names
  <2>3. RepairTypeOK'  BY <1>1, <1>2, <1>3, <2>1, <2>2, NoFixTyped DEF RepairTypeOK
  <2>4. FixKept'  BY <1>1, <1>2, <2>1, NoFixKeeps
  <2> QED BY <2>3, <2>4 DEF RepairIInv
<1>6. CASE HostChanged
  <2>1. book' = book  BY <1>6 DEF HostChanged
  <2>2. kept' \in BOOLEAN /\ bundle' \in BOOLEAN /\ market' \in BOOLEAN
    BY <1>2, <1>6 DEF HostChanged, RepairTypeOK
  <2>3. \/ files' = files \/ files' = [files EXCEPT !["skill"] = [what |-> "ours", at |-> "place"]]
        \/ files' = [files EXCEPT !["skill"] = Gone]
    BY <1>6 DEF HostChanged
  <2>4. /\ files' \in [Names -> Spots]
        /\ \A a \in {"skill", "theme"} : files'[a].what # "both"
    BY <1>2, <2>3 DEF RepairTypeOK, Gone, Names, Spots
  <2>5. RepairTypeOK'  BY <1>1, <1>2, <1>3, <2>1, <2>2, <2>4, NoFixTyped DEF RepairTypeOK
  <2>6. FixKept'  BY <1>1, <1>2, <2>1, NoFixKeeps
  <2> QED BY <2>5, <2>6 DEF RepairIInv
<1> QED BY <1>4, <1>5, <1>6

-----------------------------------------------------------------------------
\* Doctor: the commands.

\* Of a fix that is followed, a command is the next one.
LEMMA NextIsInstall ==
    ASSUME RepairTypeOK, NEW c \in Installs, Turn(c), fix.todo # <<>>
    PROVE  fix.todo = <<c>>
<1>1. fix.todo \in Todos /\ Head(fix.todo) = c  BY DEF RepairTypeOK, Fixes, Turn
<1>2. c # "reconcile"  BY DEF Installs
<1>3. fix.todo # <<"reconcile">> /\ \A d : fix.todo # <<"reconcile", d>>
  BY <1>1, <1>2, OneTodo, TwoTodos
<1>4. PICK d : fix.todo = <<d>>  BY <1>1, <1>3, TodosAre
<1> QED BY <1>1, <1>4, OneTodo

LEMMA NextIsReconcile ==
    ASSUME RepairTypeOK, Turn("reconcile"), fix.todo # <<>>
    PROVE  fix.todo = <<"reconcile">> \/ \E c \in Installs : fix.todo = <<"reconcile", c>>
<1>1. fix.todo \in Todos /\ Head(fix.todo) = "reconcile"  BY DEF RepairTypeOK, Fixes, Turn
<1>2. "reconcile" \notin Installs  BY DEF Installs
<1>3. \A d \in Installs : fix.todo # <<d>>  BY <1>1, <1>2, OneTodo
<1> QED BY <1>1, <1>3, TodosAre

\* What a command that was refused, or that ran, leaves of a fix.
LEMMA FixRefused ==
    ASSUME RepairTypeOK, Refused
    PROVE  /\ fix' \in Fixes
           /\ fix.todo = <<>> => fix' = NoFix
           /\ fix.todo # <<>> => /\ fix'.todo = <<>> /\ fix'.outcome = "refused"
                                 /\ fix'.check = fix.check /\ fix'.stacked = fix.stacked
<1>1. fix \in Fixes  BY DEF RepairTypeOK
<1>2. CASE fix.todo = <<>>
  <2>1. fix' = NoFix  BY <1>2 DEF Refused
  <2> QED BY <1>2, <2>1, NoFixTyped
<1>3. CASE fix.todo # <<>>
  <2>1. fix' = [fix EXCEPT !.todo = <<>>, !.outcome = "refused"]  BY <1>3 DEF Refused
  <2>2. fix' \in Fixes  BY <1>1, <2>1, TodosAre DEF Fixes
  <2>3. /\ fix'.todo = <<>> /\ fix'.outcome = "refused"
        /\ fix'.check = fix.check /\ fix'.stacked = fix.stacked
    BY <1>1, <2>1 DEF Fixes
  <2> QED BY <1>3, <2>2, <2>3
<1> QED BY <1>2, <1>3

LEMMA FixRan ==
    ASSUME RepairTypeOK, Ran
    PROVE  /\ fix' \in Fixes
           /\ fix.todo = <<>> => fix' = NoFix
           /\ fix.todo # <<>> => fix'.check = fix.check /\ fix'.stacked = fix.stacked
           /\ \A c : fix.todo = <<c>> => fix'.todo = <<>> /\ fix'.outcome = "ran"
           /\ \A c, d : fix.todo = <<c, d>> => fix'.todo = <<d>> /\ fix'.outcome = fix.outcome
<1>1. fix \in Fixes  BY DEF RepairTypeOK
<1>2. CASE fix.todo = <<>>
  <2>1. fix' = NoFix  BY <1>2 DEF Ran
  <2>2. \A c, d : <<c>> # <<>> /\ <<c, d>> # <<>>  BY OneTodo, TwoTodos
  <2> QED BY <1>2, <2>1, <2>2, NoFixTyped
<1>3. CASE fix.todo # <<>>
  <2>1. fix' = [fix EXCEPT !.todo = Tail(@), !.outcome = IF Len(fix.todo) = 1 THEN "ran" ELSE @]
    BY <1>3 DEF Ran
  <2>2. /\ fix'.todo = Tail(fix.todo)
        /\ fix'.outcome = IF Len(fix.todo) = 1 THEN "ran" ELSE fix.outcome
        /\ fix'.check = fix.check /\ fix'.stacked = fix.stacked
    BY <1>1, <2>1 DEF Fixes
  <2>3. \A c : fix.todo = <<c>> => fix'.todo = <<>> /\ fix'.outcome = "ran"
    BY <2>2, OneTodo
  <2>4. \A c, d : fix.todo = <<c, d>> => fix'.todo = <<d>> /\ fix'.outcome = fix.outcome
    BY <2>2, TwoTodos
  <2>5. fix'.todo \in Todos
    <3>1. PICK t : t = fix.todo  OBVIOUS
    <3>2. t \in Todos /\ t # <<>>  BY <1>1, <1>3, <3>1 DEF Fixes
    <3>3. \/ t = <<"reconcile">> \/ \E c \in Installs : t = <<c>> \/ t = <<"reconcile", c>>
      BY <3>2, TodosAre
    <3>4. <<>> \in Todos /\ \A c \in Installs : <<c>> \in Todos  BY TodosAre
    <3> QED BY <2>3, <2>4, <3>1, <3>3, <3>4
  <2>6. fix'.outcome \in {"none", "running", "ran", "refused"}  BY <1>1, <2>2 DEF Fixes
  <2>7. fix' \in Fixes  BY <1>1, <2>1, <2>2, <2>5, <2>6 DEF Fixes
  <2> QED BY <1>3, <2>2, <2>3, <2>4, <2>7
<1> QED BY <1>2, <1>3

\* A command that the user thought of himself ends what was followed.
LEMMA UnaskedKeeps ==
    ASSUME RepairTypeOK, fix.todo = <<>>, Ran \/ Refused,
           (book.state # "loaded" => book.has = {} /\ ~book.plugin)'
    PROVE  FixKept'
BY FixRan, FixRefused, NoFixKeeps

LEMMA EndedKeeps ==
    ASSUME fix'.todo = <<>>, fix'.outcome \in {"ran", "refused"}, FixHeals',
           (book.state # "loaded" => book.has = {} /\ ~book.plugin)'
    PROVE  FixKept'
BY DEF FixKept

LEMMA InstallRefusedKeeps ==
    ASSUME RepairIInv, NEW managed \in BOOLEAN, InstallRefused(managed) PROVE RepairIInv'
<1> DEFINE c == IF managed THEN "install --no-plugin" ELSE "install"
<1>1. /\ OtherMode(managed) \/ LeadsOut(managed)
      /\ Turn(c) /\ Refused /\ UNCHANGED <<book, files, kept, bundle, market, faults>>
  BY DEF InstallRefused
<1>2. RepairTypeOK /\ FixKept /\ c \in Installs  BY DEF RepairIInv, Installs
<1>3. (book.state # "loaded" => book.has = {} /\ ~book.plugin)'  BY <1>1, <1>2 DEF FixKept
<1>4. RepairTypeOK'  BY <1>1, <1>2, FixRefused DEF RepairTypeOK
<1>5. CASE fix.todo = <<>>  BY <1>1, <1>2, <1>3, <1>4, <1>5, UnaskedKeeps DEF RepairIInv
<1>6. CASE fix.todo # <<>>
  <2>1. fix.todo = <<c>> /\ fix.outcome = "running"  BY <1>1, <1>2, <1>6, NextIsInstall DEF FixKept
  <2>2. fix'.todo = <<>> /\ fix'.outcome = "refused" /\ fix'.stacked = fix.stacked
    BY <1>1, <1>2, <1>6, FixRefused
  <2>3. ASSUME ~fix.stacked
        PROVE  ~Stacked' /\ \E a \in Names \ {"rules"} : Left(a)'
    <3>1. Mendable  BY <1>2, <2>1, <2>3 DEF FixKept
    <3>2. ~OtherMode(managed)  BY <2>1, <3>1 DEF Mendable, EndsWith, OtherMode
    <3>3. LeadsOut(managed)  BY <1>1, <3>2
    <3>4. Left("theme")' \/ Left("skill")'  BY <1>1, <3>3 DEF LeadsOut, Left
    <3>5. ~Stacked'  BY <1>1, <3>1 DEF Mendable, Stacked, Present
    <3> QED BY <3>4, <3>5 DEF Names
  <2>4. FixHeals'  BY <2>2, <2>3 DEF FixHeals
  <2>5. FixKept'  BY <1>3, <2>2, <2>4, EndedKeeps
  <2> QED BY <1>4, <2>5 DEF RepairIInv
<1> QED BY <1>5, <1>6

LEMMA InstallStoppedKeeps ==
    ASSUME RepairIInv, InstallStopped PROVE RepairIInv'
<1>1. /\ Foreign /\ Turn("install --no-plugin") /\ Refused
      /\ book' = [book EXCEPT !.state = "loaded"]
      /\ UNCHANGED <<files, kept, bundle, market, faults>>
  BY DEF InstallStopped, Loaded
<1>2. RepairTypeOK /\ FixKept  BY DEF RepairIInv
<1>3. /\ book' \in Books /\ book'.state = "loaded" /\ book'.plugin = book.plugin
      /\ book'.has = book.has
  BY <1>1, <1>2 DEF RepairTypeOK, Books
<1>4. RepairTypeOK'  BY <1>1, <1>2, <1>3, FixRefused DEF RepairTypeOK
<1>5. CASE fix.todo = <<>>
  BY <1>1, <1>2, <1>3, <1>4, <1>5, UnaskedKeeps DEF RepairIInv
<1>6. CASE fix.todo # <<>>
  <2>1. fix.outcome = "running"  BY <1>2, <1>6 DEF FixKept
  <2>2. fix'.todo = <<>> /\ fix'.outcome = "refused" /\ fix'.stacked = fix.stacked
    BY <1>1, <1>2, <1>6, FixRefused
  <2>3. ASSUME ~fix.stacked PROVE ~Stacked'
    <3>1. Mendable  BY <1>2, <2>1, <2>3 DEF FixKept
    <3> QED BY <1>1, <1>3, <3>1 DEF Mendable, Stacked, Present
  <2>4. Left("skill")'
    <3>1. files["skill"] \in Spots /\ files["skill"].what # "both"
      BY <1>2 DEF RepairTypeOK, Names
    <3>2. files["skill"].what # "none" /\ files["skill"] # [what |-> "ours", at |-> "place"]
      BY <1>1 DEF Foreign, Present
    <3>3. files["skill"].at # "place" \/ files["skill"].what = "user's"
      BY <3>1, <3>2 DEF Spots
    <3> QED BY <1>1, <3>3 DEF Left
  <2>5. FixHeals'  BY <2>2, <2>3, <2>4 DEF FixHeals, Names
  <2>6. FixKept'  BY <1>3, <2>2, <2>5, EndedKeeps
  <2> QED BY <1>4, <2>6 DEF RepairIInv
<1> QED BY <1>5, <1>6

\* Entries that vanished go, and what the ledger says of the plugin becomes
\* what the host says.
LEMMA ReconcileFixKeeps ==
    ASSUME RepairIInv, Reconcile PROVE RepairIInv'
<1>1. Turn("reconcile") /\ Ran /\ UNCHANGED <<files, kept, bundle, market, faults>>
  BY DEF Reconcile
<1>2. RepairTypeOK /\ FixKept  BY DEF RepairIInv
<1>3. /\ book' \in Books
      /\ book'.plugin => bundle
      /\ book'.state = "loaded" => (book'.plugin <=> bundle)
      /\ book.state = "loaded" => book'.state = "loaded" /\ {a \in book.has : Present(a)} \subseteq book'.has
      /\ book'.state # "loaded" => book'.has = {} /\ ~book'.plugin
      /\ \A a \in book'.has : Present(a)
      /\ "skill" \in book'.has => "skill" \in book.has \/ Present("skill")
  <2>1. CASE book.state # "loaded" /\ ~bundle /\ ~ListedByHost
    <3>1. book' = [state |-> "absent", plugin |-> FALSE, market |-> FALSE, has |-> {}]
      BY <2>1 DEF Reconcile, NoBook
    <3>2. {} \in SUBSET Names  OBVIOUS
    <3>3. book' \in Books  BY <3>1, <3>2 DEF Books
    <3> QED BY <2>1, <3>1, <3>3
  <2>2. CASE ~(book.state # "loaded" /\ ~bundle /\ ~ListedByHost)
    <3> DEFINE left == {a \in book.has : Present(a)}
               has == left \cup (IF "skill" \notin left /\ Adoptable THEN {"skill"} ELSE {})
    <3>1. book' = [state |-> "loaded", plugin |-> bundle, market |-> market, has |-> has]
      BY <2>2 DEF Reconcile
    <3>2. has \in SUBSET Names  BY <1>2 DEF RepairTypeOK, Books, Names
    <3>3. Adoptable => Present("skill")  BY DEF Adoptable, Present
    <3>4. \A a \in has : Present(a)  BY <3>3
    <3>5. left \subseteq has /\ ("skill" \in has => "skill" \in book.has \/ Present("skill"))
      BY <3>3
    <3> HIDE DEF has
    <3>6. book' \in Books  BY <1>2, <3>1, <3>2 DEF Books, RepairTypeOK
    <3>7. book'.state = "loaded" /\ (book'.plugin <=> bundle) /\ book'.has = has  BY <3>1
    <3> QED BY <3>4, <3>5, <3>6, <3>7
  <2> QED BY <2>1, <2>2
<1>4. RepairTypeOK'  BY <1>1, <1>2, <1>3, FixRan DEF RepairTypeOK
<1>5. CASE fix.todo = <<>>
  BY <1>1, <1>2, <1>3, <1>4, <1>5, UnaskedKeeps DEF RepairIInv
<1>6. ASSUME fix.todo # <<>>, ~fix.stacked PROVE Mendable /\ ~Stacked'
  <2>1. Mendable  BY <1>2, <1>6 DEF FixKept
  <2>2. ~Stacked'
    BY <1>1, <1>3, <2>1 DEF Mendable, Stacked, Present
  <2> QED BY <2>1, <2>2
<1>7. CASE fix.todo = <<"reconcile">>
  <2>1. fix.todo # <<>> /\ fix'.todo = <<>> /\ fix'.outcome = "ran" /\ fix'.stacked = fix.stacked
        /\ fix'.check = fix.check
    BY <1>1, <1>2, <1>7, FixRan, OneTodo
  <2>2. ASSUME ~fix.stacked
        PROVE  /\ fix.check = "D13" /\ (book.state = "loaded")' /\ ~PluginLost' /\ ~PluginUnknown'
               /\ \A a \in (Escaped \cup Missing \cup Unlisted)' : Left(a)'
               /\ ~Stacked'
    <3>1. /\ fix.check = "D13" /\ book.state = "loaded" /\ Missing \cup Unlisted = {} /\ ~Stacked'
      BY <1>6, <1>7, <2>1, <2>2 DEF Mendable
    <3>2. ~PluginLost' /\ ~PluginUnknown'  BY <1>1, <1>3, <3>1 DEF PluginLost, PluginUnknown
    <3>3. book.has \subseteq book'.has  BY <1>3, <3>1 DEF Missing
    <3>4. Missing' = {} /\ Unlisted' = {}
      BY <1>1, <1>3, <3>1, <3>3 DEF Missing, Unlisted, Present
    <3>5. \A a \in Escaped' : Left(a)'  BY DEF Escaped, Left
    <3> QED BY <1>3, <3>1, <3>2, <3>4, <3>5
  <2>3. FixHeals'  BY <2>1, <2>2 DEF FixHeals
  <2>4. FixKept'  BY <1>3, <2>1, <2>3, EndedKeeps
  <2> QED BY <1>4, <2>4 DEF RepairIInv
<1>8. CASE \E c \in Installs : fix.todo = <<"reconcile", c>>
  <2>1. PICK c \in Installs : fix.todo = <<"reconcile", c>>  BY <1>8
  <2>2. fix.todo # <<>> /\ fix.outcome = "running"  BY <1>2, <2>1, TwoTodos DEF FixKept
  <2>3. fix'.todo = <<c>> /\ fix'.outcome = "running" /\ fix'.stacked = fix.stacked
    BY <1>1, <1>2, <2>1, <2>2, FixRan
  <2>4. ASSUME ~fix.stacked PROVE Mendable'
    <3>1. Mendable /\ ~Stacked' /\ EndsWith(c)  BY <1>6, <2>1, <2>2, <2>4 DEF EndsWith
    <3>2. \A d : EndsWith(d)' => d = c
      BY <2>3, OneTodo, TwoTodos DEF EndsWith
    <3>3. fix'.todo # <<"reconcile">>  BY <2>3, OneTodo DEF Installs
    <3>4. c = "install" => ~Present("skill")' /\ "skill" \notin book'.has
      BY <1>1, <1>3, <3>1 DEF Mendable, Present
    <3>5. c = "install --no-plugin" => ~bundle' /\ ~book'.plugin
      BY <1>1, <1>3, <3>1 DEF Mendable
    <3> QED BY <3>1, <3>2, <3>3, <3>4, <3>5 DEF Mendable
  <2>5. FixHeals'
    <3>1. ~fix.stacked => ~Stacked'  BY <1>6, <2>2
    <3> QED BY <2>3, <3>1 DEF FixHeals
  <2>6. FixKept'  BY <1>3, <2>3, <2>4, <2>5 DEF FixKept
  <2> QED BY <1>4, <2>6 DEF RepairIInv
<1> QED BY <1>1, <1>2, <1>5, <1>7, <1>8, NextIsReconcile

LEMMA InstallBundleKeeps ==
    ASSUME RepairIInv, InstallBundle PROVE RepairIInv'
<1>1. /\ Turn("install") /\ Ran /\ bundle' = TRUE /\ market' = TRUE
      /\ files' = [files EXCEPT !["theme"] = Put("theme"), !["rules"] = Put("rules")]
      /\ book' = [state |-> "loaded", plugin |-> TRUE, market |-> TRUE, has |-> book.has \cup Entered]
      /\ UNCHANGED <<kept, faults>>
  BY DEF InstallBundle
<1>2. RepairTypeOK /\ FixKept  BY DEF RepairIInv
<1>3. /\ files \in [Names -> Spots] /\ Names = {"skill", "theme", "rules"} /\ book.has \subseteq Names
      /\ Entered \subseteq {"theme", "rules"}
  BY <1>2 DEF RepairTypeOK, Books, Names, Entered
<1>4. /\ files' \in [Names -> Spots] /\ files'["skill"] = files["skill"]
      /\ files'["theme"] = Put("theme") /\ files'["rules"] = Put("rules")
      /\ \A a \in {"skill", "theme"} : files'[a].what # "both"
      /\ \A a \in {"theme", "rules"} : files'[a].what # "none"
  <2>1. \A a \in {"theme", "rules"} : /\ Put(a) \in Spots /\ Put(a).what # "none"
                                      /\ a # "rules" => Put(a).what # "both"
    BY <1>2, <1>3, PutIs DEF Spots
  <2>2. files["skill"].what # "both"  BY <1>2 DEF RepairTypeOK
  <2> QED BY <1>1, <1>3, <2>1, <2>2
<1>5. /\ book' \in Books /\ book'.state = "loaded" /\ book'.plugin = TRUE
      /\ book'.has = book.has \cup Entered
  <2>1. book.has \cup Entered \in SUBSET Names  BY <1>3
  <2> QED BY <1>1, <2>1 DEF Books
<1>6. RepairTypeOK'  BY <1>1, <1>2, <1>4, <1>5, FixRan DEF RepairTypeOK
<1>7. CASE fix.todo = <<>>
  BY <1>1, <1>2, <1>5, <1>6, <1>7, UnaskedKeeps DEF RepairIInv
<1>8. CASE fix.todo # <<>>
  <2>1. fix.todo = <<"install">> /\ fix.outcome = "running"
    BY <1>1, <1>2, <1>8, NextIsInstall DEF Installs, FixKept
  <2>2. fix'.todo = <<>> /\ fix'.outcome = "ran" /\ fix'.stacked = fix.stacked
    BY <1>1, <1>2, <1>8, <2>1, FixRan
  <2>3. ASSUME ~fix.stacked
        PROVE  /\ (book.state = "loaded")' /\ ~PluginLost' /\ ~PluginUnknown' /\ D1Fine' /\ ~Stacked'
               /\ \A a \in (Escaped \cup Missing \cup Unlisted)' : Left(a)'
    <3>1. ~Present("skill") /\ "skill" \notin book.has
      BY <1>2, <2>1, <2>3 DEF FixKept, Mendable, EndsWith
    <3>2. "skill" \notin book'.has /\ files'["skill"].what = "none"
      BY <1>3, <1>4, <1>5, <3>1 DEF Present
    <3>3. ~PluginLost' /\ ~PluginUnknown'  BY <1>1, <1>5 DEF PluginLost, PluginUnknown
    <3>4. Mode' = "bundle"  BY <1>5 DEF Mode
    <3>5. D1Fine'  BY <1>1, <3>4 DEF D1Fine
    <3>6. ~Stacked'  BY <3>2 DEF Stacked, Present
    <3>7. \A a \in Names : a \in Missing' => FALSE
      BY <1>3, <1>4, <3>2 DEF Missing, Present
    <3>8. \A a \in Names : a \in Unlisted' => Left(a)'
      <4>1. SUFFICES ASSUME NEW a \in Names, a \in Unlisted' PROVE Left(a)'
        OBVIOUS
      <4>2. a \notin book'.has /\ files'[a].what # "none"  BY <4>1 DEF Unlisted, Present
      <4>3. a \in {"theme", "rules"} /\ a \notin Entered  BY <1>3, <1>5, <3>2, <4>2
      <4>4. files'[a].at # "place" \/ files'[a].what = "user's"
        BY <1>2, <1>4, <4>3, EnteredOrLeft
      <4> QED BY <4>4 DEF Left
    <3>9. \A a \in Escaped' : Left(a)'  BY DEF Escaped, Left
    <3>10. \A a \in (Missing \cup Unlisted)' : a \in Names
      BY <1>5 DEF Missing, Unlisted, Books
    <3> QED BY <1>5, <3>3, <3>5, <3>6, <3>7, <3>8, <3>9, <3>10
  <2>4. FixHeals'  BY <2>2, <2>3 DEF FixHeals
  <2>5. FixKept'  BY <1>5, <2>2, <2>4, EndedKeeps
  <2> QED BY <1>6, <2>5 DEF RepairIInv
<1> QED BY <1>7, <1>8

LEMMA InstallManagedKeeps ==
    ASSUME RepairIInv, InstallManaged PROVE RepairIInv'
<1>1. /\ Turn("install --no-plugin") /\ Ran /\ ~Foreign
      /\ files' = [a \in Names |-> Put(a)]
      /\ kept' = (kept \/ "skill" \notin book.has \/ ~Present("skill"))
      /\ book' = [book EXCEPT !.state = "loaded", !.has = book.has \cup Entered \cup {"skill"}]
      /\ UNCHANGED <<bundle, market, faults>>
  <2>1. book \in Books  BY DEF RepairIInv, RepairTypeOK
  <2>2. book' = [[book EXCEPT !.state = "loaded"] EXCEPT !.has = @ \cup Entered \cup {"skill"}]
    BY DEF InstallManaged, Loaded
  <2>3. book' = [book EXCEPT !.state = "loaded", !.has = book.has \cup Entered \cup {"skill"}]
    BY <2>1, <2>2 DEF Books
  <2> QED BY <2>3 DEF InstallManaged
<1>2. RepairTypeOK /\ FixKept  BY DEF RepairIInv
<1>3. /\ files \in [Names -> Spots] /\ Names = {"skill", "theme", "rules"} /\ book.has \subseteq Names
      /\ Entered \subseteq {"theme", "rules"}
  BY <1>2 DEF RepairTypeOK, Books, Names, Entered
<1>4. /\ files' \in [Names -> Spots] /\ \A a \in Names : files'[a] = Put(a)
      /\ \A a \in {"skill", "theme"} : files'[a].what # "both"
      /\ \A a \in Names : files'[a].what # "none"
  <2>1. \A a \in Names : /\ Put(a) \in Spots /\ Put(a).what # "none"
                         /\ a # "rules" => Put(a).what # "both"
    BY <1>2, <1>3, PutIs DEF Spots
  <2> QED BY <1>1, <1>3, <2>1
<1>5. /\ book' \in Books /\ book'.state = "loaded" /\ book'.plugin = book.plugin
      /\ book'.has = book.has \cup Entered \cup {"skill"}
  <2>1. book.has \cup Entered \cup {"skill"} \in SUBSET Names  BY <1>3
  <2> QED BY <1>1, <1>2, <2>1 DEF Books, RepairTypeOK
<1>6. RepairTypeOK'
  <2>1. kept' \in BOOLEAN  BY <1>1
  <2> QED BY <1>1, <1>2, <1>4, <1>5, <2>1, FixRan DEF RepairTypeOK
<1>7. CASE fix.todo = <<>>
  BY <1>1, <1>2, <1>5, <1>6, <1>7, UnaskedKeeps DEF RepairIInv
<1>8. CASE fix.todo # <<>>
  <2>1. fix.todo = <<"install --no-plugin">> /\ fix.outcome = "running"
    BY <1>1, <1>2, <1>8, NextIsInstall DEF Installs, FixKept
  <2>2. fix'.todo = <<>> /\ fix'.outcome = "ran" /\ fix'.stacked = fix.stacked
    BY <1>1, <1>2, <1>8, <2>1, FixRan
  <2>3. ASSUME ~fix.stacked
        PROVE  /\ (book.state = "loaded")' /\ ~PluginLost' /\ ~PluginUnknown' /\ D1Fine' /\ ~Stacked'
               /\ \A a \in (Escaped \cup Missing \cup Unlisted)' : Left(a)'
    <3>1. ~bundle' /\ ~book'.plugin
      BY <1>1, <1>2, <1>5, <2>1, <2>3 DEF FixKept, Mendable, EndsWith
    <3>2. ~PluginLost' /\ ~PluginUnknown'  BY <3>1 DEF PluginLost, PluginUnknown
    <3>3. Mode' = "managed"  BY <1>5, <3>1 DEF Mode
    <3>4. D1Fine'  BY <1>3, <1>4, <3>3 DEF D1Fine, ListedByHost, Present
    <3>5. ~Stacked'  BY <3>1 DEF Stacked
    <3>6. \A a \in Names : a \in Missing' => FALSE
      BY <1>4 DEF Missing, Present
    <3>7. \A a \in Names : a \in Unlisted' => Left(a)'
      <4>1. SUFFICES ASSUME NEW a \in Names, a \in Unlisted' PROVE Left(a)'
        OBVIOUS
      <4>2. a \notin book'.has  BY <4>1 DEF Unlisted
      <4>3. a \in {"theme", "rules"} /\ a \notin Entered  BY <1>3, <1>5, <4>2
      <4>4. files'[a].at # "place" \/ files'[a].what = "user's"
        BY <1>2, <1>4, <4>3, EnteredOrLeft
      <4> QED BY <4>4 DEF Left
    <3>8. \A a \in Escaped' : Left(a)'  BY DEF Escaped, Left
    <3>9. \A a \in (Missing \cup Unlisted)' : a \in Names
      BY <1>5 DEF Missing, Unlisted, Books
    <3> QED BY <1>5, <3>2, <3>4, <3>5, <3>6, <3>7, <3>8, <3>9
  <2>4. FixHeals'  BY <2>2, <2>3 DEF FixHeals
  <2>5. FixKept'  BY <1>5, <2>2, <2>4, EndedKeeps
  <2> QED BY <1>6, <2>5 DEF RepairIInv
<1> QED BY <1>7, <1>8

LEMMA RepairInitKept == DInit => RepairIInv
<1> SUFFICES ASSUME DInit PROVE RepairIInv
  OBVIOUS
<1>1. fix = NoFix /\ faults = 0  BY DEF DInit
<1>2. fix.todo = <<>> /\ fix.outcome = "none"  BY <1>1 DEF NoFix
<1>3. /\ Gone \in Spots /\ Gone.what # "both" /\ [what |-> "ours", at |-> "place"] \in Spots
      /\ [what |-> "ours", at |-> "place"].what # "both"
  BY DEF Gone, Spots
<1>4. /\ files \in [Names -> Spots] /\ \A a \in {"skill", "theme"} : files[a].what # "both"
  BY <1>3 DEF DInit, Names
<1>5. kept \in BOOLEAN /\ bundle \in BOOLEAN /\ market \in BOOLEAN  BY DEF DInit
<1>6. book \in Books /\ (book.state # "loaded" => book.has = {} /\ ~book.plugin)
  <2>1. {"theme", "rules"} \in SUBSET Names /\ {} \in SUBSET Names /\ Names \in SUBSET Names
    BY DEF Names
  <2>2. \/ book = [state |-> "loaded", plugin |-> TRUE, market |-> TRUE, has |-> {"theme", "rules"}]
        \/ book = [state |-> "loaded", plugin |-> FALSE, market |-> FALSE, has |-> Names]
        \/ book = [state |-> "absent", plugin |-> FALSE, market |-> FALSE, has |-> {}]
    BY DEF DInit, NoBook
  <2> HIDE DEF Names
  <2>3. CASE book = [state |-> "loaded", plugin |-> TRUE, market |-> TRUE, has |-> {"theme", "rules"}]
    BY <2>1, <2>3 DEF Books
  <2>4. CASE book = [state |-> "loaded", plugin |-> FALSE, market |-> FALSE, has |-> Names]
    BY <2>1, <2>4 DEF Books
  <2>5. CASE book = [state |-> "absent", plugin |-> FALSE, market |-> FALSE, has |-> {}]
    BY <2>1, <2>5 DEF Books
  <2> QED BY <2>2, <2>3, <2>4, <2>5
<1>7. RepairTypeOK
  BY <1>1, <1>4, <1>5, <1>6, NoFixTyped DEF RepairTypeOK
<1>8. FixHeals  BY <1>2 DEF FixHeals
<1>9. FixKept  BY <1>2, <1>6, <1>8 DEF FixKept
<1> QED BY <1>7, <1>9 DEF RepairIInv

LEMMA RepairNextKeeps ==
    ASSUME RepairIInv, [DNext]_dVars PROVE RepairIInv'
<1>1. CASE UNCHANGED dVars
  <2>1. /\ book' = book /\ files' = files /\ kept' = kept /\ bundle' = bundle /\ market' = market
        /\ fix' = fix /\ faults' = faults
    BY <1>1 DEF dVars
  <2>2. RepairTypeOK'  BY <2>1 DEF RepairIInv, RepairTypeOK
  <2>3. FixKept'
    BY <2>1 DEF RepairIInv, FixKept, FixHeals, Mendable, Stacked, EndsWith, Present, Missing, Unlisted,
       Escaped, PluginLost, PluginUnknown, Left, D1Fine, Mode, ListedByHost
  <2> QED BY <2>2, <2>3 DEF RepairIInv
<1> QED BY <1>1, DoctorKeeps, FaultsKeep, ReconcileFixKeeps, InstallRefusedKeeps, InstallStoppedKeeps,
        InstallBundleKeeps, InstallManagedKeeps DEF DNext

\* The ledger, the files and the fix that is followed have the types declared
\* for them, whatever goes wrong and whoever runs what.
THEOREM RepairTypeCorrect == RepairSpec => []RepairTypeOK
<1>1. RepairIInv => RepairTypeOK  BY DEF RepairIInv
<1> QED BY <1>1, RepairInitKept, RepairNextKeeps, PTL DEF RepairSpec

\* A fix that D13 or D1 printed where nothing was stacked stays one that can
\* run: the install it ends with finds the mode it was spelled in.
THEOREM FixStaysKept == RepairSpec => []FixKept
<1>1. RepairIInv => FixKept  BY DEF RepairIInv
<1> QED BY <1>1, RepairInitKept, RepairNextKeeps, PTL DEF RepairSpec

\* When the commands of a printed fix have run, the check that printed it finds
\* nothing that omm could mend; one that was refused was so for what the user
\* put in the way; and none puts a bundle beside managed skills.
THEOREM PrintedFixHeals == RepairSpec => []FixHeals
<1>1. RepairIInv => FixHeals  BY DEF RepairIInv, FixKept
<1> QED BY <1>1, RepairInitKept, RepairNextKeeps, PTL DEF RepairSpec

-----------------------------------------------------------------------------
(* Overlay: the walk along the forwards of a catalog.                      *)

\* The walk of Resolved, as a function of its own.
LastHop(c) == Cardinality(c) + 1
Hop(c, id, walk, n) ==
    IF n = 0 THEN {r \in c : r.id = id}
    ELSE {IF r.to = NoId THEN r ELSE Row(c, r.to) :
            r \in {q \in walk[n - 1] : q.to = NoId \/ Known(c, q.to)}}
Walked(c, id) == CHOOSE walk : walk = [n \in 0..LastHop(c) |-> Hop(c, id, walk, n)]

\* Of some numbers one is the least.
LEMMA LeastNumber ==
    ASSUME NEW some \in SUBSET Nat, some # {}
    PROVE  \E m \in some : \A k \in some : m <= k
<1>1. PICK n \in some : TRUE  OBVIOUS
<1> DEFINE low == {k \in some : k <= n}
           below == {0..k : k \in low}
<1>2. n \in Nat /\ IsFiniteSet(0..n)  BY <1>1, FS_Interval
<1>3. IsWellFoundedOn(StrictSubsetOrdering(0..n), SUBSET (0..n))
  BY <1>2, FS_StrictSubsetOrderingWellFounded, FS_FiniteSubsetsOfFinite
<1>4. below \subseteq SUBSET (0..n) /\ below # {}
  BY <1>1
<1>5. \E x \in below : \A y \in below : ~(<<y, x>> \in StrictSubsetOrdering(0..n))
  <2> HIDE DEF below
  <2> QED BY <1>3, <1>4, WFMin
<1>6. PICK m \in low : \A k \in low : ~(<<0..k, 0..m>> \in StrictSubsetOrdering(0..n))
  BY <1>5
<1>7. ASSUME NEW k \in some, ~(m <= k) PROVE FALSE
  <2>1. k \in Nat /\ m \in Nat /\ k < m /\ k \in low  BY <1>2, <1>6, <1>7
  <2>2. 0..k \subseteq 0..m /\ 0..k # 0..m /\ 0..m \subseteq 0..n  BY <1>2, <1>6, <2>1
  <2>3. <<0..k, 0..m>> \in StrictSubsetOrdering(0..n)
    BY <2>2 DEF StrictSubsetOrdering
  <2> QED BY <1>6, <2>1, <2>3
<1> QED BY <1>6, <1>7

\* The walk is what its recursion says.
LEMMA WalkIs ==
    ASSUME NEW c, LastHop(c) \in Nat, NEW id, NEW p \in 0..LastHop(c)
    PROVE  Walked(c, id)[p] = Hop(c, id, Walked(c, id), p)
<1> DEFINE n == LastHop(c)
           Part(k) == \E g : g = [i \in 0..k |-> Hop(c, id, g, i)]
           bad == {j \in 0..n : ~Part(j)}
<1>1. n \in Nat  OBVIOUS
<1>2. Part(0)
  <2>1. [i \in 0..0 |-> {r \in c : r.id = id}]
            = [i \in 0..0 |-> Hop(c, id, [j \in 0..0 |-> {r \in c : r.id = id}], i)]
    BY DEF Hop
  <2> QED BY <2>1
<1>3. ASSUME NEW k \in 0..(n - 1), Part(k) PROVE Part(k + 1)
  <2>1. PICK g : g = [i \in 0..k |-> Hop(c, id, g, i)]  BY <1>3
  <2> DEFINE h == [i \in 0..(k + 1) |-> IF i = k + 1 THEN Hop(c, id, g, k + 1) ELSE g[i]]
  <2>2. \A i \in 0..k : h[i] = g[i]  BY <1>1
  <2>3. \A i \in 0..(k + 1) : Hop(c, id, h, i) = Hop(c, id, g, i)
    <3>1. SUFFICES ASSUME NEW i \in 0..(k + 1) PROVE Hop(c, id, h, i) = Hop(c, id, g, i)
      OBVIOUS
    <3>2. i # 0 => h[i - 1] = g[i - 1]  BY <1>1, <2>2
    <3> HIDE DEF h
    <3> QED BY <3>2 DEF Hop
  <2>4. \A i \in 0..(k + 1) : h[i] = Hop(c, id, g, i)
    <3>1. \A i \in 0..k : g[i] = Hop(c, id, g, i)  BY <2>1
    <3> QED BY <1>1, <2>2, <3>1
  <2>5. h = [i \in 0..(k + 1) |-> h[i]]  OBVIOUS
  <2> HIDE DEF h
  <2>6. h = [i \in 0..(k + 1) |-> Hop(c, id, h, i)]  BY <2>3, <2>4, <2>5
  <2> QED BY <2>6
<1>4. Part(n)
  <2>1. SUFFICES ASSUME ~Part(n) PROVE FALSE  OBVIOUS
  <2> HIDE DEF Part
  <2>2. n \in bad  BY <1>1, <2>1
  <2>3. PICK m \in bad : \A j \in bad : m <= j
    <3>1. bad \in SUBSET Nat  OBVIOUS
    <3> HIDE DEF bad
    <3> QED BY <2>2, <3>1, LeastNumber
  <2>4. m # 0 /\ m \in Nat /\ m <= n  BY <1>1, <1>2, <2>3
  <2>5. m - 1 \notin bad /\ m - 1 \in 0..(n - 1)  BY <1>1, <2>3, <2>4
  <2>6. Part(m - 1)  BY <1>1, <2>5
  <2>7. Part((m - 1) + 1)  BY <1>3, <2>5, <2>6
  <2>8. Part(m)  BY <2>4, <2>7
  <2> QED BY <2>3, <2>8
<1>5. Walked(c, id) = [i \in 0..n |-> Hop(c, id, Walked(c, id), i)]
  BY <1>4, Zenon DEF Walked
<1> HIDE DEF n
<1>6. p \in 0..n  BY DEF n
<1> QED BY <1>5, <1>6

LEMMA ResolvedIs ==
    ASSUME NEW c, NEW id
    PROVE  Resolved(c, id) = {r \in Walked(c, id)[LastHop(c)] : r.to = NoId}
BY DEF Resolved, Walked, Hop, LastHop

\* A catalog that validates: finitely many rows, one for each id.
Catalogued(c) == LastHop(c) \in Nat /\ LastHop(c) # 0 /\ \A r, q \in c : r.id = q.id => r = q

LEMMA RowIs == ASSUME NEW c, NEW id, Known(c, id) PROVE Row(c, id) \in c /\ Row(c, id).id = id
BY DEF Known, Row

\* The walk is at one row at a time, and steps from row to row.
LEMMA WalkIsAlone ==
    ASSUME NEW c, Catalogued(c), NEW id, NEW p \in 0..LastHop(c)
    PROVE  Walked(c, id)[p] \subseteq c /\ \A r, q \in Walked(c, id)[p] : r = q
<1> DEFINE n == LastHop(c)
           w == Walked(c, id)
           Alone(k) == w[k] \subseteq c /\ \A r, q \in w[k] : r = q
           bad == {k \in 0..n : ~Alone(k)}
<1>0. n \in Nat  BY DEF Catalogued
<1>1. \A k \in 0..n : w[k] = Hop(c, id, w, k)  BY <1>0, WalkIs
<1> HIDE DEF w, n
<1>2. Alone(0)
  <2>1. 0 \in 0..n  BY <1>0
  <2>2. w[0] = {r \in c : r.id = id}  BY <1>1, <2>1 DEF Hop
  <2> QED BY <2>2 DEF Catalogued
<1>3. ASSUME NEW k \in 1..n, Alone(k - 1) PROVE Alone(k)
  <2>1. k \in 0..n /\ k # 0  BY <1>0
  <2>2. w[k] = {IF r.to = NoId THEN r ELSE Row(c, r.to) :
                  r \in {q \in w[k - 1] : q.to = NoId \/ Known(c, q.to)}}
    BY <1>1, <2>1 DEF Hop
  <2>3. \A q \in w[k - 1] : q.to # NoId /\ Known(c, q.to) => Row(c, q.to) \in c  BY RowIs
  <2> QED BY <1>3, <2>2, <2>3
<1>4. bad = {}
  <2>1. SUFFICES ASSUME bad # {} PROVE FALSE  OBVIOUS
  <2>2. PICK m \in bad : \A j \in bad : m <= j
    <3>1. bad \in SUBSET Nat  OBVIOUS
    <3> HIDE DEF bad
    <3> QED BY <2>1, <3>1, LeastNumber
  <2>3. m # 0 /\ m \in Nat /\ m <= n  BY <1>0, <1>2, <2>2
  <2>4. m - 1 \notin bad /\ m - 1 \in 0..n /\ m \in 1..n  BY <1>0, <2>2, <2>3
  <2>5. Alone(m - 1)  BY <2>4
  <2>6. Alone(m)  BY <1>3, <2>4, <2>5
  <2> QED BY <2>2, <2>6
<1>5. p \in 0..n  BY DEF n
<1>6. Alone(p)  BY <1>4, <1>5
<1> QED BY <1>6 DEF w

\* What the walk is at: the row the id names, or where the one before leads.
LEMMA WalkSteps ==
    ASSUME NEW c, Catalogued(c), NEW id
    PROVE  LET w == Walked(c, id) IN
           /\ w[0] = {r \in c : r.id = id}
           /\ \A k \in 1..LastHop(c) : \A r \in w[k] :
                 \E q \in w[k - 1] : \/ q.to = NoId /\ r = q
                                     \/ q.to # NoId /\ r.id = q.to
           /\ \A k \in 1..LastHop(c) : \A q \in w[k - 1] :
                 /\ q.to = NoId => q \in w[k]
                 /\ q.to # NoId /\ w[k] # {} => \E r \in w[k] : r.id = q.to
<1> DEFINE n == LastHop(c)
           w == Walked(c, id)
<1>0. n \in Nat  BY DEF Catalogued
<1>1. \A k \in 0..n : w[k] = Hop(c, id, w, k)  BY <1>0, WalkIs
<1>2. \A k \in 0..n : \A r, q \in w[k] : r = q  BY WalkIsAlone
<1> HIDE DEF w, n
<1>3. w[0] = {r \in c : r.id = id}
  <2>1. 0 \in 0..n  BY <1>0
  <2> QED BY <1>1, <2>1 DEF Hop
<1>4. ASSUME NEW k \in 1..n
      PROVE  w[k] = {IF r.to = NoId THEN r ELSE Row(c, r.to) :
                       r \in {q \in w[k - 1] : q.to = NoId \/ Known(c, q.to)}}
  <2>1. k \in 0..n /\ k # 0  BY <1>0
  <2> QED BY <1>1, <2>1 DEF Hop
<1>5. ASSUME NEW k \in 1..n, NEW r \in w[k]
      PROVE  \E q \in w[k - 1] : \/ q.to = NoId /\ r = q
                                 \/ q.to # NoId /\ r.id = q.to
  <2>1. PICK q \in w[k - 1] : /\ q.to = NoId \/ Known(c, q.to)
                              /\ r = IF q.to = NoId THEN q ELSE Row(c, q.to)
    BY <1>4
  <2> QED BY <2>1, RowIs
<1>6. ASSUME NEW k \in 1..n, NEW q \in w[k - 1]
      PROVE  /\ q.to = NoId => q \in w[k]
             /\ q.to # NoId /\ w[k] # {} => \E r \in w[k] : r.id = q.to
  <2>1. q.to = NoId => q \in w[k]  BY <1>4
  <2>2. ASSUME q.to # NoId, NEW r \in w[k] PROVE \E s \in w[k] : s.id = q.to
    <3>1. PICK s \in w[k - 1] : \/ s.to = NoId /\ r = s
                                \/ s.to # NoId /\ r.id = s.to
      BY <1>5
    <3>2. k - 1 \in 0..n  BY <1>0
    <3>3. s = q  BY <1>2, <3>2
    <3> QED BY <2>2, <3>1, <3>3
  <2> QED BY <2>1, <2>2
<1> QED BY <1>3, <1>5, <1>6 DEF w, n

\* The end of the forwards is one row, and the relation of the rows alone
\* leads to it.
LEMMA EndIsReached ==
    ASSUME NEW c, Catalogued(c), NEW id, NEW r \in Resolved(c, id)
    PROVE  /\ r \in c /\ r.to = NoId /\ \A q \in Resolved(c, id) : q = r
           /\ \E S \in SUBSET c :
                /\ r \in S /\ \E q \in S : q.id = id
                /\ \A q \in S \ {r} : \E p \in S : p.id = q.to
                /\ \A p \in S : p.id = id \/ \E q \in S : q.to = p.id
<1> DEFINE n == LastHop(c)
           w == Walked(c, id)
           S == UNION {w[k] : k \in 0..n}
<1>0. n \in Nat /\ n # 0  BY DEF Catalogued
<1>1. \A k \in 0..n : w[k] \subseteq c /\ \A s, q \in w[k] : s = q  BY WalkIsAlone
<1>2. /\ w[0] = {s \in c : s.id = id}
      /\ \A k \in 1..n : \A s \in w[k] :
            \E q \in w[k - 1] : \/ q.to = NoId /\ s = q
                                \/ q.to # NoId /\ s.id = q.to
      /\ \A k \in 1..n : \A q \in w[k - 1] :
            /\ q.to = NoId => q \in w[k]
            /\ q.to # NoId /\ w[k] # {} => \E s \in w[k] : s.id = q.to
  BY WalkSteps
<1>3. Resolved(c, id) = {s \in w[n] : s.to = NoId}  BY ResolvedIs
<1>4. r \in w[n] /\ r.to = NoId  BY <1>3
<1> HIDE DEF w, n
<1>5. n \in 0..n /\ 0 \in 0..n  BY <1>0
<1>6. \A k \in 0..n : w[k] # {}
  <2> DEFINE bad == {k \in 0..n : w[n - k] = {}}
  <2>1. SUFFICES ASSUME bad # {} PROVE FALSE
    <3>1. ASSUME NEW k \in 0..n, w[k] = {} PROVE n - k \in bad
      <4>1. n - k \in 0..n /\ n - (n - k) = k  BY <1>0
      <4> QED BY <3>1, <4>1
    <3> QED BY <3>1
  <2>2. PICK m \in bad : \A j \in bad : m <= j
    <3>1. bad \in SUBSET Nat  OBVIOUS
    <3> HIDE DEF bad
    <3> QED BY <2>1, <3>1, LeastNumber
  <2>3. m # 0
    <3>1. n - 0 = n  BY <1>0
    <3> QED BY <1>4, <2>2, <3>1
  <2>4. m \in Nat /\ m <= n /\ m - 1 \in 0..n /\ n - m + 1 \in 1..n
        /\ n - (m - 1) = n - m + 1 /\ (n - m + 1) - 1 = n - m
    BY <1>0, <2>2, <2>3
  <2>5. w[n - m] = {}  BY <2>2
  <2>6. m - 1 \notin bad  BY <2>2, <2>4
  <2>7. w[n - m + 1] # {}  BY <2>4, <2>6
  <2>8. PICK s \in w[n - m + 1] : TRUE  BY <2>7
  <2>9. \E q \in w[(n - m + 1) - 1] : TRUE  BY <1>2, <2>4, <2>8
  <2> QED BY <2>4, <2>5, <2>9
<1>7. r \in S  BY <1>4, <1>5
<1>8. \E q \in S : q.id = id
  <2>1. PICK q \in w[0] : TRUE  BY <1>5, <1>6
  <2> QED BY <1>2, <1>5, <2>1
<1>9. ASSUME NEW q \in S \ {r} PROVE \E p \in S : p.id = q.to
  <2>1. PICK k \in 0..n : q \in w[k]  OBVIOUS
  <2>2. q.to # NoId
    <3>1. SUFFICES ASSUME q.to = NoId PROVE FALSE  OBVIOUS
    <3> DEFINE bad == {j \in 0..n : k <= j /\ q \notin w[j]}
    <3>2. q \notin w[n]  BY <1>1, <1>4, <1>5
    <3>3. n \in bad  BY <1>0, <2>1, <3>2
    <3>4. PICK m \in bad : \A j \in bad : m <= j
      <4>1. bad \in SUBSET Nat  OBVIOUS
      <4> HIDE DEF bad
      <4> QED BY <3>3, <4>1, LeastNumber
    <3>5. m # k /\ m \in Nat /\ k < m /\ m <= n /\ m \in 1..n /\ m - 1 \in 0..n /\ k <= m - 1
      BY <1>0, <2>1, <3>4
    <3>6. q \in w[m - 1]
      <4>1. m - 1 \notin bad  BY <3>4, <3>5
      <4> QED BY <3>5, <4>1
    <3> QED BY <1>2, <3>1, <3>4, <3>5, <3>6
  <2>3. k # n  BY <1>1, <1>4, <1>5, <2>1, <2>2
  <2>4. k + 1 \in 1..n /\ k + 1 \in 0..n /\ (k + 1) - 1 = k  BY <1>0, <2>3
  <2>5. \E p \in w[k + 1] : p.id = q.to  BY <1>2, <1>6, <2>1, <2>2, <2>4
  <2> QED BY <2>4, <2>5
<1>10. ASSUME NEW p \in S PROVE p.id = id \/ \E q \in S : q.to = p.id
  <2> DEFINE at == {k \in 0..n : p \in w[k]}
  <2>1. at # {}  OBVIOUS
  <2>2. PICK m \in at : \A j \in at : m <= j
    <3>1. at \in SUBSET Nat  OBVIOUS
    <3> HIDE DEF at
    <3> QED BY <2>1, <3>1, LeastNumber
  <2>3. CASE m = 0  BY <1>2, <2>2, <2>3
  <2>4. CASE m # 0
    <3>1. m \in 1..n /\ m - 1 \in 0..n /\ ~(m <= m - 1)  BY <1>0, <2>2, <2>4
    <3>2. PICK q \in w[m - 1] : \/ q.to = NoId /\ p = q
                                \/ q.to # NoId /\ p.id = q.to
      BY <1>2, <2>2, <3>1
    <3>3. p \notin w[m - 1]  BY <2>2, <3>1
    <3> QED BY <3>1, <3>2, <3>3
  <2> QED BY <2>3, <2>4
<1>11. S \in SUBSET c  BY <1>1
<1>12. r \in c /\ \A q \in Resolved(c, id) : q = r  BY <1>1, <1>3, <1>4, <1>5
<1> HIDE DEF S
<1> QED BY <1>4, <1>7, <1>8, <1>9, <1>10, <1>11, <1>12

\* A row that forwards nowhere is its own end.
LEMMA EndsAtItself ==
    ASSUME NEW c, Catalogued(c), NEW r \in c, r.to = NoId
    PROVE  Resolved(c, r.id) = {r}
<1> DEFINE n == LastHop(c)
           w == Walked(c, r.id)
           bad == {k \in 0..n : r \notin w[k]}
<1>0. n \in Nat  BY DEF Catalogued
<1>1. \A k \in 0..n : \A s, q \in w[k] : s = q  BY WalkIsAlone
<1>2. w[0] = {s \in c : s.id = r.id} /\ \A k \in 1..n : \A q \in w[k - 1] : q.to = NoId => q \in w[k]
  BY WalkSteps
<1>3. Resolved(c, r.id) = {s \in w[n] : s.to = NoId}  BY ResolvedIs
<1> HIDE DEF w, n
<1>4. bad = {}
  <2>1. SUFFICES ASSUME bad # {} PROVE FALSE  OBVIOUS
  <2>2. PICK m \in bad : \A j \in bad : m <= j
    <3>1. bad \in SUBSET Nat  OBVIOUS
    <3> HIDE DEF bad
    <3> QED BY <2>1, <3>1, LeastNumber
  <2>3. m # 0  BY <1>2, <2>2
  <2>4. m \in 1..n /\ m - 1 \in 0..n /\ ~(m <= m - 1)  BY <1>0, <2>2, <2>3
  <2>5. r \in w[m - 1]  BY <2>2, <2>4
  <2> QED BY <1>2, <2>2, <2>4, <2>5
<1>5. n \in 0..n  BY <1>0
<1>6. r \in w[n]  BY <1>4, <1>5
<1> QED BY <1>1, <1>3, <1>5, <1>6

-----------------------------------------------------------------------------
(* Overlay: the table of `omm list`.                                       *)

Customs == {"none", "file", "bare", "link", "out"}
Answers == [table |-> Table, theme |-> [n \in Ids |-> Theme(n)],
            profile |-> [n \in Ids |-> Profile(n)], themes |-> ThemeList]

\* The catalog validates, and what the commands said is of the files there are.
OverlayInv ==
    /\ catalog \in Catalogs /\ Validated(catalog)
    /\ custom \in [Entries -> Customs]
    /\ asked \in {NotAsked, Answers}

\* The item of a row that ships.
ItemOf(r) ==
    Item(r.kind, r.id, r.id, IF Usable(<<r.kind, r.id>>) THEN "custom" ELSE "bundled",
         <<r.kind, r.id>> \in disabled)

LEMMA CatalogIs ==
    ASSUME catalog \in Catalogs, Validated(catalog)
    PROVE  /\ Catalogued(catalog)
           /\ \A r \in catalog : <<r.kind, r.id>> \in Entries
           /\ \A r \in catalog : ~Ships(r) => r.to # NoId
<1>1. /\ IsFiniteSet(catalog)
      /\ \A r \in catalog : r.id \in Ids /\ r.kind \in Kinds /\ r.life \in Shipping \cup Forwarding
  BY OverlayAssumption
<1>2. Cardinality(catalog) \in Nat  BY <1>1, FS_CardinalityType
<1>3. LastHop(catalog) \in Nat /\ LastHop(catalog) # 0  BY <1>2 DEF LastHop
<1>4. Catalogued(catalog)  BY <1>3 DEF Catalogued, Validated
<1>5. \A r \in catalog : ~Ships(r) => r.to # NoId  BY <1>1 DEF Validated, MustForward, Ships
<1> QED BY <1>1, <1>4, <1>5 DEF Entries

LEMMA ItemIs ==
    ASSUME NEW r
    PROVE  /\ ItemOf(r).entry = <<r.kind, r.id>> /\ ItemOf(r).of = r.id
           /\ ItemOf(r).provider = IF Usable(<<r.kind, r.id>>) THEN "custom" ELSE "bundled"
           /\ ItemOf(r).disabled = (<<r.kind, r.id>> \in disabled)
BY DEF ItemOf, Item

LEMMA ShippedItemsAre == ShippedItems = {ItemOf(r) : r \in {q \in catalog : Ships(q)}}
BY DEF ShippedItems, ItemOf

LEMMA AliasIs ==
    ASSUME NEW r, NEW q
    PROVE  /\ Alias(r, ItemOf(q)).entry = <<r.kind, r.id>> /\ Alias(r, ItemOf(q)).of = q.id
           /\ Alias(r, ItemOf(q)).provider = IF Usable(<<q.kind, q.id>>) THEN "custom" ELSE "bundled"
           /\ Alias(r, ItemOf(q)).disabled
                 = (<<q.kind, q.id>> \in disabled \/ <<r.kind, r.id>> \in disabled)
BY DEF ItemOf, Item, Alias

\* A row that does not ship is listed as one that does, the end of its
\* forwards, and as nothing else.
LEMMA ForwardedAre ==
    ASSUME catalog \in Catalogs, Validated(catalog)
    PROVE  /\ \A i \in Forwarded : \E r \in catalog, q \in catalog :
                 ~Ships(r) /\ Ships(q) /\ q \in Resolved(catalog, r.id) /\ i = Alias(r, ItemOf(q))
           /\ \A r \in catalog : ~Ships(r) => \E i \in Forwarded : i.entry = <<r.kind, r.id>>
<1>0. Catalogued(catalog) /\ \A r \in catalog : ~Ships(r) => r.to # NoId  BY CatalogIs
<1>1. ASSUME NEW i \in Forwarded
      PROVE  \E r \in catalog, q \in catalog :
                 ~Ships(r) /\ Ships(q) /\ q \in Resolved(catalog, r.id) /\ i = Alias(r, ItemOf(q))
  <2>0. PICK r \in catalog : ~Ships(r) /\ i \in Aliases(r)  BY DEF Forwarded
  <2>1. PICK j \in Target(r) : ~Ships(r) /\ i = Alias(r, j)  BY <2>0 DEF Aliases
  <2>2. PICK t \in Resolved(catalog, r.id) : j \in ShippedItems /\ j.entry[2] = t.id  BY DEF Target
  <2>3. PICK q \in catalog : Ships(q) /\ j = ItemOf(q)  BY <2>2, ShippedItemsAre
  <2>4. j.entry = <<q.kind, q.id>>  BY <2>3, ItemIs
  <2>5. q.id = t.id  BY <2>2, <2>4
  <2>6. t \in catalog  BY <1>0, EndIsReached
  <2>7. q = t  BY <1>0, <2>5, <2>6 DEF Catalogued
  <2> QED BY <2>1, <2>2, <2>3, <2>7
<1>2. ASSUME NEW r \in catalog, ~Ships(r) PROVE \E i \in Forwarded : i.entry = <<r.kind, r.id>>
  <2>1. r.to # NoId  BY <1>0, <1>2
  <2>2. PICK q \in Resolved(catalog, r.id) : Ships(q)  BY <2>1 DEF Validated
  <2>3. q \in catalog  BY <1>0, EndIsReached
  <2>4. ItemOf(q) \in ShippedItems  BY <2>2, <2>3, ShippedItemsAre
  <2>5. ItemOf(q).entry[2] = q.id
    <3>1. ItemOf(q).entry = <<q.kind, q.id>>  BY ItemIs
    <3> QED BY <3>1
  <2>6. ItemOf(q) \in Target(r)  BY <2>2, <2>4, <2>5 DEF Target
  <2>7. Alias(r, ItemOf(q)) \in Forwarded  BY <1>2, <2>6 DEF Forwarded, Aliases
  <2>8. Alias(r, ItemOf(q)).entry = <<r.kind, r.id>>  BY AliasIs
  <2> QED BY <2>7, <2>8
<1> QED BY <1>1, <1>2

LEMMA AdditionsAre ==
    /\ \A i \in Additions : /\ i.entry \in Entries /\ Usable(i.entry)
                            /\ \A j \in ShippedItems \cup Forwarded : j.entry # i.entry
                            /\ i = Item(i.entry[1], i.entry[2], i.entry[2], "custom",
                                        i.entry \in disabled)
    /\ \A e \in Entries : Usable(e) =>
          \E i \in ShippedItems \cup Forwarded \cup Additions : i.entry = e
<1> DEFINE Own(e) == Item(e[1], e[2], e[2], "custom", e \in disabled)
           new == {f \in Entries : Usable(f) /\ \A i \in ShippedItems \cup Forwarded : i.entry # f}
<1>1. Additions = {Own(e) : e \in new}  BY DEF Additions
<1>2. \A e \in Entries : e = <<e[1], e[2]>>  BY DEF Entries
<1>3. \A e \in Entries : Own(e).entry = e  BY <1>2 DEF Item
<1>4. ASSUME NEW i \in Additions
      PROVE  /\ i.entry \in Entries /\ Usable(i.entry)
             /\ \A j \in ShippedItems \cup Forwarded : j.entry # i.entry
             /\ i = Own(i.entry)
  <2>1. PICK e \in new : i = Own(e)  BY <1>1
  <2>2. i.entry = e  BY <1>3, <2>1
  <2> HIDE DEF Own
  <2> QED BY <2>1, <2>2
<1>5. ASSUME NEW e \in Entries, Usable(e)
      PROVE  \E i \in ShippedItems \cup Forwarded \cup Additions : i.entry = e
  <2>1. CASE \E i \in ShippedItems \cup Forwarded : i.entry = e  BY <2>1
  <2>2. CASE \A i \in ShippedItems \cup Forwarded : i.entry # e
    <3>1. e \in new  BY <1>5, <2>2
    <3>2. Own(e) \in Additions /\ Own(e).entry = e  BY <1>1, <1>3, <3>1
    <3> HIDE DEF Own
    <3> QED BY <3>2
  <2> QED BY <2>1, <2>2
<1> QED BY <1>4, <1>5

\* What an item of the table is: a row's that ships, a row's that forwards, or
\* a file's of the user's.
LEMMA TableIs ==
    ASSUME catalog \in Catalogs, Validated(catalog), NEW i \in Table
    PROVE  \/ \E r \in catalog : Ships(r) /\ i = ItemOf(r)
           \/ \E r \in catalog, q \in catalog :
                 ~Ships(r) /\ Ships(q) /\ q \in Resolved(catalog, r.id) /\ i = Alias(r, ItemOf(q))
           \/ i \in Additions
BY ForwardedAre, ShippedItemsAre DEF Table

\* Every row is listed.
LEMMA RowsAreListed ==
    ASSUME catalog \in Catalogs, Validated(catalog), NEW r \in catalog
    PROVE  \E i \in ShippedItems \cup Forwarded : i.entry = <<r.kind, r.id>>
<1>1. CASE Ships(r)
  <2>1. ItemOf(r) \in ShippedItems  BY <1>1, ShippedItemsAre
  <2>2. ItemOf(r).entry = <<r.kind, r.id>>  BY ItemIs
  <2> QED BY <2>1, <2>2
<1>2. CASE ~Ships(r)  BY <1>2, ForwardedAre
<1> QED BY <1>1, <1>2

\* The item of a row is the row's.
LEMMA RowsItem ==
    ASSUME catalog \in Catalogs, Validated(catalog), NEW i \in Table, NEW r \in catalog,
           i.entry = <<r.kind, r.id>>
    PROVE  /\ Ships(r) => i = ItemOf(r)
           /\ ~Ships(r) => \E q \in catalog : /\ Ships(q) /\ q \in Resolved(catalog, r.id)
                                             /\ i = Alias(r, ItemOf(q))
<1>0. Catalogued(catalog)  BY CatalogIs
<1>1. ASSUME NEW s \in catalog, <<s.kind, s.id>> = <<r.kind, r.id>> PROVE s = r
  BY <1>0, <1>1 DEF Catalogued
<1>2. ASSUME NEW s \in catalog, i = ItemOf(s) PROVE s = r
  <2>1. i.entry = <<s.kind, s.id>>  BY <1>2, ItemIs
  <2> QED BY <1>1, <2>1
<1>3. ASSUME NEW s \in catalog, NEW q, i = Alias(s, ItemOf(q)) PROVE s = r
  <2>1. i.entry = <<s.kind, s.id>>  BY <1>3, AliasIs
  <2> QED BY <1>1, <2>1
<1>4. i \notin Additions
  <2>1. SUFFICES ASSUME i \in Additions PROVE FALSE  OBVIOUS
  <2>2. \A j \in ShippedItems \cup Forwarded : j.entry # i.entry  BY <2>1, AdditionsAre
  <2> QED BY <2>2, RowsAreListed
<1> QED BY <1>2, <1>3, <1>4, TableIs

\* One item for an entry.
LEMMA TableIsAFunction ==
    ASSUME catalog \in Catalogs, Validated(catalog), NEW i \in Table, NEW j \in Table,
           i.entry = j.entry
    PROVE  i = j
<1>0. Catalogued(catalog)  BY CatalogIs
<1>1. CASE \E r \in catalog : i.entry = <<r.kind, r.id>>
  <2>1. PICK r \in catalog : i.entry = <<r.kind, r.id>> /\ j.entry = <<r.kind, r.id>>  BY <1>1
  <2>2. CASE Ships(r)  BY <2>1, <2>2, RowsItem
  <2>3. CASE ~Ships(r)
    <3>1. PICK p \in catalog : p \in Resolved(catalog, r.id) /\ i = Alias(r, ItemOf(p))
      BY <2>1, <2>3, RowsItem
    <3>2. PICK q \in catalog : q \in Resolved(catalog, r.id) /\ j = Alias(r, ItemOf(q))
      BY <2>1, <2>3, RowsItem
    <3>3. p = q  BY <1>0, <3>1, <3>2, EndIsReached
    <3> QED BY <3>1, <3>2, <3>3
  <2> QED BY <2>2, <2>3
<1>2. CASE ~\E r \in catalog : i.entry = <<r.kind, r.id>>
  <2>1. \A r \in catalog : i # ItemOf(r) /\ j # ItemOf(r)
    <3>1. ASSUME NEW r \in catalog, i = ItemOf(r) \/ j = ItemOf(r) PROVE FALSE
      <4>1. i.entry = <<r.kind, r.id>>  BY <3>1, ItemIs
      <4> QED BY <1>2, <4>1
    <3> QED BY <3>1
  <2>2. \A r \in catalog, q \in catalog : i # Alias(r, ItemOf(q)) /\ j # Alias(r, ItemOf(q))
    <3>1. ASSUME NEW r \in catalog, NEW q, i = Alias(r, ItemOf(q)) \/ j = Alias(r, ItemOf(q))
          PROVE  FALSE
      <4>1. i.entry = <<r.kind, r.id>>  BY <3>1, AliasIs
      <4> QED BY <1>2, <4>1
    <3> QED BY <3>1
  <2>3. i \in Additions /\ j \in Additions  BY <2>1, <2>2, TableIs
  <2>4. i = Item(i.entry[1], i.entry[2], i.entry[2], "custom", i.entry \in disabled)
        /\ j = Item(j.entry[1], j.entry[2], j.entry[2], "custom", j.entry \in disabled)
    BY <2>3, AdditionsAre
  <2> QED BY <2>4
<1> QED BY <1>1, <1>2

-----------------------------------------------------------------------------
(* Overlay: the theorems.                                                  *)

LEMMA OverlayInit == OInit => OverlayInv
BY DEF OInit, OverlayInv, Customs

LEMMA OverlayStep == OverlayInv /\ [ONext]_oVars => OverlayInv'
<1> SUFFICES ASSUME OverlayInv, [ONext]_oVars PROVE OverlayInv'  OBVIOUS
<1>1. CASE Ask
  <2>1. asked' = Answers /\ UNCHANGED <<catalog, custom, appends, disabled, changes>>
    BY <1>1 DEF Ask, Answers
  <2>2. UNCHANGED <<catalog, custom, appends, disabled>>  BY <2>1
  <2>3. Answers' = Answers
    BY <2>2 DEF Answers, Table, ShippedItems, Forwarded, Aliases, Alias, Target, Additions, Item,
                Usable, Theme, Profile, ThemeList, CustomFirst, Exists, FirstOf, ById, ByStem
  <2> QED BY <2>1, <2>3 DEF OverlayInv
<1>2. CASE Rearrange
  <2>1. UNCHANGED catalog /\ asked' = NotAsked  BY <1>2 DEF Rearrange
  <2>2. custom' \in [Entries -> Customs]  BY <1>2 DEF Rearrange, OverlayInv, Customs
  <2> QED BY <2>1, <2>2 DEF OverlayInv
<1>3. CASE UNCHANGED oVars
  <2>1. UNCHANGED <<catalog, custom, appends, disabled, asked>>  BY <1>3 DEF oVars
  <2>2. UNCHANGED <<catalog, custom, appends, disabled>>  BY <2>1
  <2>3. Answers' = Answers
    BY <2>2 DEF Answers, Table, ShippedItems, Forwarded, Aliases, Alias, Target, Additions, Item,
                Usable, Theme, Profile, ThemeList, CustomFirst, Exists, FirstOf, ById, ByStem
  <2> QED BY <2>1, <2>3 DEF OverlayInv
<1> QED BY <1>1, <1>2, <1>3 DEF ONext

THEOREM OverlayIsKnown == OverlaySpec => []OverlayInv
BY OverlayInit, OverlayStep, PTL DEF OverlaySpec

\* `omm list` shows every id of the catalog and every file of the user's that
\* can be used, each once; an id that does not ship as the asset at the end of
\* its forwards (overlay.rs, resolve; catalog.rs, resolve_from).
THEOREM AllAreListedOnce == OverlaySpec => []ListedOnce
<1>1. OverlayInv => ListedOnce
  <2> SUFFICES ASSUME OverlayInv, asked # NotAsked PROVE ListedOnce  BY DEF ListedOnce
  <2>0. catalog \in Catalogs /\ Validated(catalog) /\ asked.table = Table
    BY DEF OverlayInv, Answers
  <2>1. Catalogued(catalog) /\ \A r \in catalog : <<r.kind, r.id>> \in Entries
    BY <2>0, CatalogIs
  <2>2. \A i, j \in Table : i.entry = j.entry => i = j  BY <2>0, TableIsAFunction
  <2>3. {i.entry : i \in Table}
            = {<<r.kind, r.id>> : r \in catalog}
              \cup {e \in Entries : custom[e] \in {"file", "link"}}
    <3>1. ASSUME NEW i \in Table
          PROVE  \/ \E r \in catalog : i.entry = <<r.kind, r.id>>
                 \/ i.entry \in Entries /\ custom[i.entry] \in {"file", "link"}
      <4>1. CASE \E r \in catalog : Ships(r) /\ i = ItemOf(r)  BY <4>1, ItemIs
      <4>2. CASE \E r \in catalog, q \in catalog : i = Alias(r, ItemOf(q))
        <5>1. PICK r \in catalog, q \in catalog : i = Alias(r, ItemOf(q))  BY <4>2
        <5>2. i.entry = <<r.kind, r.id>>  BY <5>1, AliasIs
        <5> QED BY <5>2
      <4>3. CASE i \in Additions  BY <4>3, AdditionsAre DEF Usable
      <4> QED BY <2>0, <4>1, <4>2, <4>3, TableIs
    <3>2. ASSUME NEW r \in catalog PROVE \E i \in Table : i.entry = <<r.kind, r.id>>
      BY <2>0, RowsAreListed DEF Table
    <3>3. ASSUME NEW e \in Entries, custom[e] \in {"file", "link"}
          PROVE  \E i \in Table : i.entry = e
      BY <3>3, AdditionsAre DEF Table, Usable
    <3>4. {<<r.kind, r.id>> : r \in catalog} \subseteq {i.entry : i \in Table}
      <4>1. SUFFICES ASSUME NEW r \in catalog PROVE <<r.kind, r.id>> \in {i.entry : i \in Table}
        OBVIOUS
      <4>2. PICK i \in Table : i.entry = <<r.kind, r.id>>  BY <3>2
      <4> QED BY <4>2
    <3>5. {e \in Entries : custom[e] \in {"file", "link"}} \subseteq {i.entry : i \in Table}
      <4>1. SUFFICES ASSUME NEW e \in Entries, custom[e] \in {"file", "link"}
                     PROVE  e \in {i.entry : i \in Table}
        OBVIOUS
      <4>2. PICK i \in Table : i.entry = e  BY <3>3, <4>1
      <4> QED BY <4>2
    <3>6. {i.entry : i \in Table}
            \subseteq {<<r.kind, r.id>> : r \in catalog}
                      \cup {e \in Entries : custom[e] \in {"file", "link"}}
      BY <3>1
    <3> QED BY <3>4, <3>5, <3>6, Zenon
  <2>4. ASSUME NEW i \in Table, NEW r \in catalog, i.entry = <<r.kind, r.id>>, ~Ships(r)
        PROVE  \E q \in Reached(r.id) :
                  /\ i.of = q.id
                  /\ i.provider = "custom" <=> Usable(<<q.kind, q.id>>)
                  /\ i.disabled <=> <<q.kind, q.id>> \in disabled \/ i.entry \in disabled
    <3>1. PICK q \in catalog : q \in Resolved(catalog, r.id) /\ i = Alias(r, ItemOf(q))
      BY <2>0, <2>4, RowsItem
    <3>2. q \in Reached(r.id)  BY <2>1, <3>1, EndIsReached DEF Reached
    <3>3. /\ i.of = q.id
          /\ i.provider = IF Usable(<<q.kind, q.id>>) THEN "custom" ELSE "bundled"
          /\ i.disabled = (<<q.kind, q.id>> \in disabled \/ <<r.kind, r.id>> \in disabled)
      BY <3>1, AliasIs
    <3> QED BY <2>4, <3>2, <3>3
  <2>5. ASSUME NEW i \in Table, custom[i.entry] \in {"out", "bare"}, i.of = i.entry[2]
        PROVE  i.provider = "bundled"
    <3>0. ~Usable(i.entry)  BY <2>5 DEF Usable
    <3>1. CASE \E r \in catalog : Ships(r) /\ i = ItemOf(r)
      <4>1. PICK r \in catalog : i = ItemOf(r)  BY <3>1
      <4>2. i.entry = <<r.kind, r.id>>
            /\ i.provider = IF Usable(<<r.kind, r.id>>) THEN "custom" ELSE "bundled"
        BY <4>1, ItemIs
      <4> QED BY <3>0, <4>2
    <3>2. CASE \E r \in catalog, q \in catalog : ~Ships(r) /\ Ships(q) /\ i = Alias(r, ItemOf(q))
      <4>1. PICK r \in catalog, q \in catalog : ~Ships(r) /\ Ships(q) /\ i = Alias(r, ItemOf(q))
        BY <3>2
      <4>2. i.entry = <<r.kind, r.id>> /\ i.of = q.id  BY <4>1, AliasIs
      <4>3. r.id = q.id  BY <2>5, <4>2
      <4>4. r = q  BY <2>1, <4>3 DEF Catalogued
      <4> QED BY <4>1, <4>4
    <3>3. CASE i \in Additions  BY <3>0, <3>3, AdditionsAre
    <3> QED BY <2>0, <3>1, <3>2, <3>3, TableIs
  <2> QED BY <2>0, <2>2, <2>3, <2>4, <2>5 DEF ListedOnce
<1> QED BY <1>1, OverlayIsKnown, PTL

\* For a theme or a profile that forwards nowhere, and that the user did not
\* put a link or a directory over, `omm theme` and `omm profile` take the file
\* `omm list` shows, and no theme it shows as disabled (theme.rs, profile.rs).
THEOREM ListedIsUsed == OverlaySpec => []UsedAsListed
<1>1. OverlayInv => UsedAsListed
  <2> SUFFICES ASSUME OverlayInv, asked # NotAsked,
                      NEW r \in catalog, NEW i \in asked.table,
                      i.entry = <<r.kind, r.id>>, Ships(r), r.to = NoId,
                      custom[i.entry] \in {"none", "file"}
               PROVE  /\ r.kind = "theme" =>
                           /\ asked.theme[r.id] =
                                 IF i.disabled THEN <<"refused", r.id>> ELSE <<i.provider, r.id>>
                           /\ <<r.id, i.provider>> \in asked.themes
                      /\ r.kind = "profile" => asked.profile[r.id] = <<i.provider, r.id>>
    BY DEF UsedAsListed
  <2>0. catalog \in Catalogs /\ Validated(catalog) /\ asked = Answers
    BY DEF OverlayInv
  <2>1. Catalogued(catalog) /\ r.id \in Ids  BY <2>0, CatalogIs, OverlayAssumption
  <2>2. asked.table = Table /\ asked.theme[r.id] = Theme(r.id) /\ asked.themes = ThemeList
        /\ asked.profile[r.id] = Profile(r.id)
    BY <2>0, <2>1 DEF Answers
  <2>3. i = ItemOf(r)  BY <2>0, <2>2, RowsItem
  <2>4. i.provider = (IF Usable(<<r.kind, r.id>>) THEN "custom" ELSE "bundled")
        /\ i.disabled = (<<r.kind, r.id>> \in disabled)
    BY <2>3, ItemIs
  <2>5. Resolved(catalog, r.id) = {r}  BY <2>1, EndsAtItself
  <2>6. custom[<<r.kind, r.id>>] = "file" => i.provider = "custom"  BY <2>4 DEF Usable
  <2>7. custom[<<r.kind, r.id>>] = "none" => i.provider = "bundled"  BY <2>4 DEF Usable
  <2>8. ASSUME NEW kind, kind = r.kind, NEW otherwise,
               custom[<<r.kind, r.id>>] = "none" => otherwise = <<"bundled", r.id>>
        PROVE  CustomFirst(kind, r.id, otherwise) = <<i.provider, r.id>>
    BY <2>6, <2>7, <2>8 DEF CustomFirst, Exists
  <2>9. ASSUME NEW kind, kind = r.kind PROVE ById(kind, r.id) = {r}  BY <2>5, <2>9 DEF ById
  <2>10. ASSUME r.kind = "theme"
         PROVE  /\ Theme(r.id) = IF i.disabled THEN <<"refused", r.id>> ELSE <<i.provider, r.id>>
                /\ <<r.id, i.provider>> \in ThemeList
    <3>1. FirstOf(ById("theme", r.id), ByStem("theme", r.id), r.id) = <<"bundled", r.id>>
      BY <2>9, <2>10 DEF FirstOf
    <3>2. CustomFirst("theme", r.id, FirstOf(ById("theme", r.id), ByStem("theme", r.id), r.id))
            = <<i.provider, r.id>>
      BY <2>8, <2>10, <3>1
    <3>3. Theme(r.id) = IF i.disabled THEN <<"refused", r.id>> ELSE <<i.provider, r.id>>
      BY <2>4, <2>10, <3>2 DEF Theme
    <3>4. <<r.id, i.provider>> \in ThemeList  BY <2>6, <2>7, <2>10 DEF ThemeList
    <3> QED BY <3>3, <3>4
  <2>11. ASSUME r.kind = "profile" PROVE Profile(r.id) = <<i.provider, r.id>>
    <3>1. \A q \in ByStem("profile", r.id) : q = r  BY <2>0, <2>11, OverlayAssumption DEF ByStem
    <3>2. ByStem("profile", r.id) # {} =>
              (CHOOSE q \in ByStem("profile", r.id) : TRUE) \in ByStem("profile", r.id)
      OBVIOUS
    <3>3. (CHOOSE q \in {r} : TRUE) = r  OBVIOUS
    <3>4. FirstOf(ByStem("profile", r.id), ById("profile", r.id), r.id) = <<"bundled", r.id>>
      BY <2>9, <2>11, <3>1, <3>2, <3>3 DEF FirstOf
    <3> QED BY <2>8, <2>11, <3>4 DEF Profile
  <2> QED BY <2>2, <2>10, <2>11
<1> QED BY <1>1, OverlayIsKnown, PTL
=============================================================================
