---------------------------- MODULE AssetsProofs ----------------------------
(***************************************************************************)
(* What Assets promises for every set of processes, files and releases,    *)
(* and without the bounds of the model-checked instances. Then the same of *)
(* Containment, for every disk.                                            *)
(***************************************************************************)
EXTENDS Assets, Containment, SequenceTheorems, FiniteSetTheorems, WellFoundedInduction, TLAPS

-----------------------------------------------------------------------------
(* Facts about ledgers and decisions.                                      *)

\* A ledger has a digest, or none, for every file.
LEMMA AncestorIsDigest ==
    ASSUME NEW l \in Ledger \cup {NoLedger}, NEW f \in Files
    PROVE  Ancestor(l, f) \in Digests \cup {None}
  BY DEF Ancestor, Ledger

\* Recording a digest leaves a ledger that differs in that file alone.
LEMMA UpsertIsLedger ==
    ASSUME NEW l \in Ledger \cup {NoLedger}, NEW f \in Files,
           NEW d \in Digests \cup {None}
    PROVE  /\ Upsert(l, f, d) \in Ledger
           /\ Ancestor(Upsert(l, f, d), f) = d
           /\ \A g \in Files \ {f} : Ancestor(Upsert(l, f, d), g) = Ancestor(l, g)
<1>1. NoEntries \in Ledger
  BY DEF NoEntries, Ledger
<1>2. Upsert(l, f, d) \in Ledger
  BY <1>1 DEF Upsert, Ledger
<1>3. Upsert(l, f, d) # NoLedger
  BY <1>2, AssetsAssumption
<1> QED
  BY <1>2, <1>3 DEF Upsert, Ancestor, Ledger, NoEntries

\* What is overwritten is nothing, or what omm shipped.
LEMMA OverwritesOwn ==
    ASSUME NEW a \in Digests \cup {None}, NEW t \in Digests, NEW m \in Content,
           Decide(a, t, m) = "overwrite" \/ InstallDecide(a, t, m) = "overwrite"
    PROVE  m \notin {Mine, Odd}
  BY AssetsAssumption DEF Decide, InstallDecide, Content, Regular

\* What omm ships settles the file: another decision is a no-op.
LEMMA DecidedIsNoop ==
    ASSUME NEW t, NEW m
    PROVE  Decide(t, t, m) = "noop"
  BY DEF Decide

\* A decision is one of the four outcomes.
LEMMA DecideOutcomes ==
    ASSUME NEW a, NEW t, NEW m
    PROVE  /\ Decide(a, t, m) \in Outcomes
           /\ InstallDecide(a, t, m) \in Outcomes
  BY DEF Decide, InstallDecide, Outcomes

-----------------------------------------------------------------------------
(* Types.  TypeOK needs to know that only shipped files are planned: a     *)
(* file that is put on disk has a digest.                                  *)

FromSource == {"todo", "write", "overwrite", "adopt", "stage"}

Plans ==
    \A p \in Procs, f \in Files :
        /\ plan[p][f] \in FromSource => Theirs(p, f) # None
        /\ pc[p] = "idle" => plan[p][f] = "done"

Typed == TypeOK /\ Plans

\* The parts of TypeOK that Exit may disturb.
LocalType ==
    /\ pc \in [Procs -> PcSteps]
    /\ cmd \in [Procs -> Commands \cup {"none"}]
    /\ handle \in [Procs -> Inodes \cup {NoInode}]
    /\ ledger \in [Procs -> Ledger \cup {NoLedger}]
    /\ source \in [Procs -> Releases]
    /\ plan \in [Procs -> [Files -> PlanSteps]]
    /\ stale \in [Procs -> SUBSET Files]
    /\ \A p \in Procs :
          /\ pc[p] \in InSession \cup {"flock"} <=> handle[p] # NoInode
          /\ pc[p] = "idle" <=> cmd[p] = "none"
    /\ Plans

LEMMA ExitType ==
    ASSUME Typed, NEW p \in Procs, Exit(p)
    PROVE  LocalType'
<1>1. 1 \in Releases
  BY AssetsAssumption DEF Releases
<1>2. "idle" \in PcSteps /\ "done" \in PlanSteps
  BY DEF PcSteps, PlanSteps
<1>3. "idle" \notin InSession \cup {"flock"} /\ "done" \notin FromSource
  BY DEF InSession, FromSource
<1>4. [f \in Files |-> "done"] \in [Files -> PlanSteps]
  BY <1>2
<1> HIDE DEF PcSteps, PlanSteps, InSession, FromSource
<1> QED
  BY <1>1, <1>2, <1>3, <1>4 DEF Exit, Goto, Typed, TypeOK, LocalType, Plans, Theirs

\* What omm ships for a file is a digest or nothing.
LEMMA TheirsIsDigest ==
    ASSUME Typed, NEW p \in Procs, NEW f \in Files
    PROVE  Theirs(p, f) \in Digests \cup {None}
  BY AssetsAssumption DEF Typed, TypeOK, Theirs, Ledger

\* The initial states.
LEMMA InitTyped == Init => Typed
<1> SUFFICES ASSUME Init PROVE Typed
  OBVIOUS
<1>1. 1 \in Releases
  BY AssetsAssumption DEF Releases
<1> QED
  BY <1>1, AssetsAssumption DEF Init, Typed, TypeOK, Plans, FromSource, PcSteps,
     PlanSteps, InSession

\* A step on the plan of one file, of a process that stays where it is.
LEMMA PlannedType ==
    ASSUME Typed, NEW p \in Procs, NEW f \in Files,
           NEW step \in PlanSteps \ FromSource, Planned(p, f, step),
           pc[p] # "idle"
    PROVE  /\ plan' \in [Procs -> [Files -> PlanSteps]]
           /\ UNCHANGED <<pc, source>> => Plans'
<1> HIDE DEF PlanSteps, FromSource
<1> QED
  BY DEF Planned, Typed, TypeOK, Plans, Theirs

\* Writing or removing a file keeps the types.
LEMMA PutsType ==
    ASSUME Typed, NEW p \in Procs, NEW f \in Files,
           NEW content \in Digests \cup {Missing}, Puts(p, f, content)
    PROVE  /\ disk' \in [Files -> Content]
           /\ ours' \subseteq Files
           /\ stale' \in [Procs -> SUBSET Files]
<1>1. content \in Content
  BY DEF Content, Regular
<1>2. \A q \in Procs : stale[q] \cup {f} \in SUBSET Files /\ stale[q] \in SUBSET Files
  BY DEF Typed, TypeOK
<1> QED
  BY <1>1, <1>2 DEF Puts, Typed, TypeOK

\* Taking, waiting for and giving up the lock.
LEMMA LockTyped ==
    ASSUME Typed, NEW p \in Procs,
           \/ \E c \in Commands : Begin(p, c)
           \/ BeginUninstall(p) \/ Bare(p)
           \/ OpenLock(p) \/ Flock(p) \/ NothingToUpdate(p) \/ Timeout(p),
           Watched
    PROVE  Typed'
<1> USE DEF files, local
<1>0. overlap' \in BOOLEAN
  BY DEF Watched, Typed, TypeOK
<1>1. CASE NothingToUpdate(p) \/ Timeout(p) \/ Bare(p)
  <2>1. Exit(p)
    BY <1>1 DEF NothingToUpdate, Timeout, Bare
  <2>2. LocalType'
    BY <2>1, ExitType
  <2> QED
    BY <1>0, <1>1, <2>2 DEF NothingToUpdate, Timeout, Bare, Typed, TypeOK, LocalType
<1>2. CASE \E c \in Commands : Begin(p, c)
  <2>1. PICK c \in Commands : Begin(p, c)
    BY <1>2
  <2>2. c # "none"
    BY AssetsAssumption
  <2>3. "idle" \notin InSession \cup {"flock"} /\ "open" \notin InSession \cup {"flock"}
        /\ "open" \in PcSteps /\ "done" \notin FromSource
    BY DEF InSession, PcSteps, FromSource
  <2>4. Plans'
    BY <2>1, <2>3 DEF Begin, Goto, Typed, TypeOK, Plans, Theirs
  <2> HIDE DEF InSession, PcSteps
  <2> QED
    BY <1>0, <2>1, <2>2, <2>3, <2>4 DEF Begin, Goto, Typed, TypeOK
<1>3. CASE BeginUninstall(p)
  <2>1. {"bare", "plan"} \subseteq PcSteps /\ {"idle", "bare", "plan"} \cap (InSession \cup {"flock"}) = {}
    BY DEF InSession, PcSteps
  <2> HIDE DEF InSession, PcSteps
  <2> QED
    BY <1>0, <1>3, <2>1 DEF BeginUninstall, Goto, Typed, TypeOK, Plans, Theirs
<1>4. CASE OpenLock(p)
  <2>1. "flock" \in PcSteps
    BY DEF PcSteps
  <2>2. PICK i \in Inodes : lockFile' = i /\ handle' = [handle EXCEPT ![p] = i]
    BY <1>4 DEF OpenLock
  <2> HIDE DEF InSession, PcSteps
  <2> QED
    BY <1>0, <1>4, <2>1, <2>2, AssetsAssumption DEF OpenLock, Goto, Typed, TypeOK, Plans, Theirs
<1>5. CASE Flock(p)
  <2>1. {"install", "update", "undo"} \subseteq PcSteps \cap InSession
        /\ {"todo", "done"} \subseteq PlanSteps /\ "done" \notin FromSource
    BY DEF PcSteps, InSession, PlanSteps, FromSource
  <2>2. Plans'
    BY <1>5 DEF Flock, Enter, Goto, Typed, TypeOK, Plans, Theirs, Shipped, FromSource
  <2>3. PICK s \in {"install", "update", "undo"} : Goto(p, s)
    BY <1>5 DEF Flock, Enter
  <2>4. plan' \in [Procs -> [Files -> PlanSteps]]
        /\ ledger' \in [Procs -> Ledger \cup {NoLedger}]
    <3> DEFINE unplanned == [g \in Files |-> IF g \in Shipped(p) THEN "todo" ELSE "done"]
    <3>1. unplanned \in [Files -> PlanSteps]
      BY <2>1
    <3>2. \/ plan' = [plan EXCEPT ![p] = unplanned] \/ plan' = plan
      BY <1>5 DEF Flock, Enter
    <3>3. ledger' = [ledger EXCEPT ![p] = saved] \/ ledger' = ledger
      BY <1>5 DEF Flock, Enter
    <3> HIDE DEF PlanSteps, unplanned
    <3> QED
      BY <3>1, <3>2, <3>3 DEF Typed, TypeOK
  <2> HIDE DEF InSession, PcSteps, PlanSteps, FromSource
  <2> QED
    BY <1>0, <1>5, <2>1, <2>2, <2>3, <2>4 DEF Flock, Enter, Goto, Typed, TypeOK
<1> QED
  BY <1>1, <1>2, <1>3, <1>4, <1>5

\* Install.
LEMMA InstallTyped ==
    ASSUME Typed, NEW p \in Procs,
           \/ \E f \in Files : InstallLooks(p, f) \/ InstallWrites(p, f)
                                                 \/ InstallFails(p, f)
           \/ EndInstall(p),
           Watched
    PROVE  Typed'
<1> USE DEF files
<1>0. /\ overlap' \in BOOLEAN
      /\ NoEntries \in Ledger
      /\ {"done", "write"} \subseteq PlanSteps /\ "done" \notin FromSource
      /\ {"todo", "write"} \subseteq FromSource
  BY DEF Watched, Typed, TypeOK, NoEntries, Ledger, PlanSteps, FromSource
<1>a. plan \in [Procs -> [Files -> PlanSteps]]
  BY DEF Typed, TypeOK
<1>1. ASSUME NEW f \in Files, InstallLooks(p, f) PROVE Typed'
  <2>1. Theirs(p, f) \in Digests
    BY <1>0, <1>1, TheirsIsDigest DEF InstallLooks, Typed, Plans
  <2>2. Upsert(ledger[p], f, Theirs(p, f)) \in Ledger
    BY <2>1, UpsertIsLedger DEF Typed, TypeOK
  <2>3. plan' \in [Procs -> [Files -> PlanSteps]] /\ Plans'
    <3>1. \E step \in {"done", "write"} : Planned(p, f, step)
      BY <1>1 DEF InstallLooks
    <3> HIDE DEF PlanSteps, FromSource
    <3> QED
      BY <1>0, <1>1, <1>a, <2>1, <3>1, AssetsAssumption
         DEF InstallLooks, Planned, Typed, TypeOK, Plans, Theirs, Content
  <2>4. stale' \in [Procs -> SUBSET Files]
    BY <1>1 DEF InstallLooks, Looks, Typed, TypeOK
  <2>5. /\ ledger' \in [Procs -> Ledger \cup {NoLedger}]
        /\ saved' \in Ledger \cup {NoLedger} /\ torn' \subseteq Files
    BY <1>1, <2>2 DEF InstallLooks, Save, Typed, TypeOK
  <2> QED
    BY <1>0, <1>1, <2>3, <2>4, <2>5 DEF InstallLooks, Typed, TypeOK
<1>2. ASSUME NEW f \in Files, InstallWrites(p, f) PROVE Typed'
  <2>1. Theirs(p, f) \in Digests
    BY <1>0, <1>2, TheirsIsDigest DEF InstallWrites, Typed, Plans
  <2>2. disk' \in [Files -> Content] /\ ours' \subseteq Files /\ stale' \in [Procs -> SUBSET Files]
    BY <1>2, <2>1, PutsType DEF InstallWrites
  <2>3. plan' \in [Procs -> [Files -> PlanSteps]] /\ Plans'
    BY <1>0, <1>2, PlannedType, Zenon DEF InstallWrites, Typed, Plans
  <2> QED
    BY <1>0, <1>2, <2>2, <2>3 DEF InstallWrites, Typed, TypeOK
<1>3. ASSUME NEW f \in Files, InstallFails(p, f) PROVE Typed'
  <2>1. LocalType'
    BY <1>3, ExitType DEF InstallFails
  <2> QED
    BY <1>0, <1>3, <2>1 DEF InstallFails, Typed, TypeOK, LocalType
<1>4. CASE EndInstall(p)
  <2>1. LocalType'
    BY <1>4, ExitType DEF EndInstall
  <2>2. saved' \in Ledger \cup {NoLedger} /\ torn' \subseteq Files
    BY <1>0, <1>4 DEF EndInstall, Save, Typed, TypeOK
  <2> QED
    BY <1>0, <1>4, <2>1, <2>2 DEF EndInstall, Typed, TypeOK, LocalType
<1> QED
  BY <1>1, <1>2, <1>3, <1>4

\* Update.
LEMMA UpdateTyped ==
    ASSUME Typed, NEW p \in Procs,
           \/ PlanUpdate(p) \/ EndUpdate(p)
           \/ \E f \in Files : ApplyOverwrite(p, f) \/ ApplyRefused(p, f)
                                \/ ApplyAdopt(p, f) \/ ApplyStage(p, f),
           Watched
    PROVE  Typed'
<1> USE DEF files
<1>0. /\ overlap' \in BOOLEAN
      /\ "done" \in PlanSteps /\ "done" \notin FromSource
      /\ {"overwrite", "adopt", "stage"} \subseteq FromSource \cap PlanSteps
      /\ Outcomes \ {"noop"} \subseteq PlanSteps
  BY DEF Watched, Typed, TypeOK, PlanSteps, FromSource, Outcomes
<1>1. CASE PlanUpdate(p)
  <2>1. PICK next \in [Files -> PlanSteps] :
            /\ plan' = [plan EXCEPT ![p] = next]
            /\ \A g \in Files : next[g] # "done" => g \in Shipped(p)
    <3> DEFINE next == [g \in Files |->
            LET outcome == Decide(Ancestor(ledger[p], g), Theirs(p, g), disk[g])
            IN  IF g \in Shipped(p) /\ outcome # "noop" THEN outcome ELSE "done"]
    <3>1. next \in [Files -> PlanSteps]
      BY <1>0, DecideOutcomes
    <3>2. \A g \in Files : next[g] # "done" => g \in Shipped(p)
      OBVIOUS
    <3>3. plan' = [plan EXCEPT ![p] = next]
      BY <1>1 DEF PlanUpdate
    <3> QED
      BY <3>1, <3>2, <3>3
  <2>2. "apply" \in PcSteps \cap InSession /\ "update" \in InSession
        /\ "idle" \notin InSession
    BY DEF PcSteps, InSession
  <2>3. stale' \in [Procs -> SUBSET Files]
    BY <1>1 DEF PlanUpdate, Typed, TypeOK
  <2> HIDE DEF PcSteps, InSession, PlanSteps, FromSource
  <2>4. Plans'
    BY <1>0, <1>1, <2>1, <2>2 DEF PlanUpdate, Goto, Typed, TypeOK, Plans, Theirs, Shipped
  <2> QED
    BY <1>0, <1>1, <2>1, <2>2, <2>3, <2>4 DEF PlanUpdate, Goto, Typed, TypeOK
<1>2. CASE EndUpdate(p)
  <2>1. LocalType'
    BY <1>2, ExitType DEF EndUpdate
  <2>2. saved' \in Ledger \cup {NoLedger} /\ torn' \subseteq Files
    BY <1>2 DEF EndUpdate, Save, Typed, TypeOK
  <2> QED
    BY <1>0, <1>2, <2>1, <2>2 DEF EndUpdate, Typed, TypeOK, LocalType
<1>3. ASSUME NEW f \in Files, ApplyRefused(p, f) PROVE Typed'
  <2>1. LocalType'
    BY <1>3, ExitType DEF ApplyRefused
  <2>2. torn' \subseteq Files
    BY <1>3 DEF ApplyRefused, Unsaved, Typed, TypeOK
  <2> QED
    BY <1>0, <1>3, <2>1, <2>2 DEF ApplyRefused, Typed, TypeOK, LocalType
<1>4. ASSUME NEW f \in Files, ApplyOverwrite(p, f) \/ ApplyAdopt(p, f) PROVE Typed'
  <2>1. Theirs(p, f) \in Digests
    BY <1>0, <1>4, TheirsIsDigest DEF ApplyOverwrite, ApplyAdopt, Typed, Plans
  <2>2. ledger' \in [Procs -> Ledger \cup {NoLedger}]
    <3>1. Upsert(ledger[p], f, Theirs(p, f)) \in Ledger
      BY <2>1, UpsertIsLedger DEF Typed, TypeOK
    <3> QED
      BY <1>4, <3>1 DEF ApplyOverwrite, ApplyAdopt, Typed, TypeOK
  <2>3. disk' \in [Files -> Content] /\ ours' \subseteq Files
        /\ stale' \in [Procs -> SUBSET Files]
    BY <1>4, <2>1, PutsType DEF ApplyOverwrite, ApplyAdopt, Typed, TypeOK
  <2>4. Planned(p, f, "done") /\ pc[p] = "apply" /\ UNCHANGED <<pc, source>>
    BY <1>4 DEF ApplyOverwrite, ApplyAdopt
  <2>5. plan' \in [Procs -> [Files -> PlanSteps]] /\ Plans'
    BY <1>0, <2>4, PlannedType
  <2> QED
    BY <1>0, <1>4, <2>2, <2>3, <2>5 DEF ApplyOverwrite, ApplyAdopt, Typed, TypeOK
<1>5. ASSUME NEW f \in Files, ApplyStage(p, f) PROVE Typed'
  <2>1. Planned(p, f, "done") /\ pc[p] = "apply" /\ UNCHANGED <<pc, source>>
    BY <1>5 DEF ApplyStage
  <2>2. plan' \in [Procs -> [Files -> PlanSteps]] /\ Plans'
    BY <1>0, <2>1, PlannedType
  <2> QED
    BY <1>0, <1>5, <2>2 DEF ApplyStage, Typed, TypeOK
<1> QED
  BY <1>1, <1>2, <1>3, <1>4, <1>5

\* Uninstall.
LEMMA UninstallTyped ==
    ASSUME Typed, NEW p \in Procs,
           \/ PlanUninstall(p)
           \/ \E f \in Files : UndoLooks(p, f) \/ UndoUnlinks(p, f)
           \/ Incomplete(p) \/ Complete(p) \/ Wipe(p) \/ Unledger(p),
           Watched
    PROVE  Typed'
<1> USE DEF files, local
<1>0. /\ overlap' \in BOOLEAN
      /\ {"done", "remove", "missing", "preserve", "unlink", "failed"}
            \subseteq PlanSteps \ FromSource
      /\ {"open", "plan", "wipe", "unledger"} \subseteq PcSteps
      /\ {"idle", "plan", "open", "wipe", "unledger"} \cap (InSession \cup {"flock"}) = {}
      /\ "undo" \in InSession
  BY DEF Watched, Typed, TypeOK, PlanSteps, FromSource, PcSteps, InSession
<1>1. Remaining(p) \in Ledger
  BY AncestorIsDigest DEF Remaining, Ledger, Typed, TypeOK
<1>2. CASE PlanUninstall(p)
  <2> DEFINE next == [g \in Files |->
            IF Ancestor(ledger[p], g) = None THEN "done"
            ELSE IF disk[g] = Missing THEN "missing"
            ELSE IF disk[g] = Ancestor(ledger[p], g) THEN "remove"
            ELSE "preserve"]
  <2>1. next \in [Files -> PlanSteps \ FromSource]
    BY <1>0
  <2>2. plan' = [plan EXCEPT ![p] = next]
    BY <1>2 DEF PlanUninstall
  <2>3. stale' \in [Procs -> SUBSET Files]
    BY <1>2 DEF PlanUninstall, Typed, TypeOK
  <2> HIDE DEF next, PcSteps, InSession, PlanSteps, FromSource
  <2>4. Plans'
    BY <1>0, <1>2, <2>1, <2>2 DEF PlanUninstall, Goto, Typed, TypeOK, Plans, Theirs
  <2> QED
    BY <1>0, <1>2, <2>1, <2>2, <2>3, <2>4 DEF PlanUninstall, Goto, Typed, TypeOK
<1>3. ASSUME NEW f \in Files, UndoLooks(p, f) \/ UndoUnlinks(p, f) PROVE Typed'
  <2>1. ledger' \in [Procs -> Ledger \cup {NoLedger}]
    <3>1. Upsert(ledger[p], f, None) \in Ledger
      BY UpsertIsLedger DEF Typed, TypeOK
    <3> QED
      BY <1>3, <3>1 DEF UndoLooks, UndoUnlinks, Typed, TypeOK
  <2>2. disk' \in [Files -> Content] /\ ours' \subseteq Files
        /\ stale' \in [Procs -> SUBSET Files]
    BY <1>3, PutsType DEF UndoLooks, UndoUnlinks, Looks, Typed, TypeOK
  <2>3. pc[p] = "undo" /\ UNCHANGED <<pc, source>>
    BY <1>3 DEF UndoLooks, UndoUnlinks
  <2>4. PICK step \in {"done", "unlink", "failed"} : Planned(p, f, step)
    BY <1>3 DEF UndoLooks, UndoUnlinks
  <2>5. plan' \in [Procs -> [Files -> PlanSteps]] /\ Plans'
    BY <1>0, <2>3, <2>4, PlannedType
  <2> QED
    BY <1>0, <1>3, <2>1, <2>2, <2>3, <2>5 DEF UndoLooks, UndoUnlinks, Typed, TypeOK
<1>4. CASE Incomplete(p) \/ Unledger(p)
  <2>1. LocalType'
    BY <1>4, ExitType DEF Incomplete, Unledger
  <2>2. saved' \in Ledger \cup {NoLedger} /\ torn' \subseteq Files
    BY <1>1, <1>4 DEF Incomplete, Unledger, Save, Typed, TypeOK
  <2> QED
    BY <1>0, <1>4, <2>1, <2>2 DEF Incomplete, Unledger, Typed, TypeOK, LocalType
<1>5. CASE Complete(p)
  <2> HIDE DEF PcSteps, InSession
  <2> QED
    BY <1>0, <1>5 DEF Complete, Undone, Goto, Typed, TypeOK, Plans, Theirs
<1>6. CASE Wipe(p)
  <2> HIDE DEF PcSteps, InSession
  <2> QED
    BY <1>0, <1>6 DEF Wipe, Goto, Typed, TypeOK, Plans, Theirs
<1> QED
  BY <1>2, <1>3, <1>4, <1>5, <1>6

\* The environment.
LEMMA EnvironmentTyped ==
    ASSUME Typed, Watched,
           \/ \E p \in Procs : Kill(p)
           \/ \E f \in Files : UserEdits(f)
           \/ NewRelease
    PROVE  Typed'
<1> USE DEF files, local
<1>0. overlap' \in BOOLEAN
  BY DEF Watched, Typed, TypeOK
<1>1. CASE \E p \in Procs : Kill(p)
  <2>1. PICK p \in Procs : Kill(p)
    BY <1>1
  <2>2. LocalType'
    BY <2>1, ExitType DEF Kill
  <2>3. torn' \subseteq Files
    BY <2>1 DEF Kill, Unsaved, Typed, TypeOK
  <2> QED
    BY <1>0, <2>1, <2>2, <2>3 DEF Kill, Typed, TypeOK, LocalType
<1>2. CASE \E f \in Files : UserEdits(f)
  <2>1. PICK f \in Files : UserEdits(f)
    BY <1>2
  <2>2. disk' \in [Files -> Content] /\ stale' \in [Procs -> SUBSET Files]
    BY <2>1, AssetsAssumption DEF UserEdits, Typed, TypeOK
  <2> QED
    BY <1>0, <2>1, <2>2 DEF UserEdits, Typed, TypeOK, Plans, Theirs
<1>3. CASE NewRelease
  <2>1. release' \in Releases
    BY <1>3, AssetsAssumption DEF NewRelease, Typed, TypeOK, Releases
  <2> QED
    BY <1>0, <1>3, <2>1 DEF NewRelease, Typed, TypeOK, Plans, Theirs
<1> QED
  BY <1>1, <1>2, <1>3

\* Every step keeps the types.
LEMMA StepTyped == Typed /\ [Next]_vars => Typed'
<1> SUFFICES ASSUME Typed, [Next]_vars PROVE Typed'
  OBVIOUS
<1>1. CASE UNCHANGED vars
  BY <1>1 DEF vars, Typed, TypeOK, Plans, Theirs
<1>2. CASE Next
  <2>1. Watched
    BY <1>2 DEF Next
  <2>2. ASSUME NEW p \in Procs, Step(p) PROVE Typed'
    BY <2>1, <2>2, LockTyped, InstallTyped, UpdateTyped, UninstallTyped
       DEF Step, FileStep
  <2> QED
    BY <1>2, <2>1, <2>2, LockTyped, EnvironmentTyped DEF Next
<1> QED
  BY <1>1, <1>2

\* Every variable keeps to its set (TypeOK).
THEOREM TypeCorrect == Spec => []TypeOK
<1>1. Init => Typed
  BY InitTyped
<1>2. Typed /\ [Next]_vars => Typed'
  BY StepTyped
<1>3. Typed => TypeOK
  BY DEF Typed
<1> QED
  BY <1>1, <1>2, <1>3, PTL DEF Spec

-----------------------------------------------------------------------------
(* What a command is about to replace or remove is not the user's, unless  *)
(* it has changed since the command looked.                                *)

WillReplace ==
    \A p \in Procs, f \in Files :
        f \notin stale[p] /\ plan[p][f] \in {"write", "overwrite", "unlink"}
            => disk[f] \notin {Mine, Odd}

\* A process that exits plans nothing.
LEMMA ExitReplaces ==
    ASSUME Typed, WillReplace, NEW p \in Procs, Exit(p), UNCHANGED disk
    PROVE  WillReplace'
  BY DEF Exit, WillReplace, Typed, TypeOK

\* A file that is put in place is out of its process's plan, and changed for
\* the others.
LEMMA PutsReplaces ==
    ASSUME Typed, WillReplace, NEW p \in Procs, NEW f \in Files,
           NEW content, Puts(p, f, content), Planned(p, f, "done")
    PROVE  WillReplace'
<1>1. ASSUME NEW q \in Procs, NEW g \in Files,
             g \notin stale'[q], plan'[q][g] \in {"write", "overwrite", "unlink"}
      PROVE  disk'[g] \notin {Mine, Odd}
  <2>1. CASE g = f
    BY <1>1, <2>1 DEF Puts, Planned, Typed, TypeOK
  <2>2. CASE g # f
    BY <1>1, <2>2 DEF Puts, Planned, Typed, TypeOK, WillReplace
  <2> QED
    BY <2>1, <2>2
<1> QED
  BY <1>1 DEF WillReplace

\* A process looks at one file and plans its next step.
LEMMA LooksReplaces ==
    ASSUME Typed, WillReplace, NEW p \in Procs, NEW f \in Files, NEW step,
           Looks(p, f), Planned(p, f, step), UNCHANGED disk,
           step \in {"write", "overwrite", "unlink"} => disk[f] \notin {Mine, Odd}
    PROVE  WillReplace'
  BY DEF Looks, Planned, Typed, TypeOK, WillReplace

\* The digest of a ledger is none of the user's contents.
LEMMA DigestsAreOmms ==
    ASSUME NEW l \in Ledger \cup {NoLedger}, NEW f \in Files
    PROVE  Ancestor(l, f) \notin {Mine, Odd}
<1>1. Ancestor(l, f) \in Digests \cup {None}
  BY AncestorIsDigest
<1> QED
  BY <1>1, AssetsAssumption DEF Content, Regular

\* The step that changes a file and is done with it has planned to.
LEMMA PlannedChange ==
    ASSUME Typed, Next, NEW p \in Procs, NEW f \in Files,
           plan[p][f] # "done", plan'[p][f] = "done", disk'[f] # disk[f]
    PROVE  plan[p][f] \in {"write", "overwrite", "unlink"}
<1> USE DEF files, local
<1>1. plan \in [Procs -> [Files -> PlanSteps]] /\ disk \in [Files -> Content]
  BY DEF Typed, TypeOK
<1>2. disk' # disk /\ plan' # plan
  OBVIOUS
<1>3. PICK q \in Procs, g \in Files :
          InstallWrites(q, g) \/ ApplyOverwrite(q, g) \/ UndoUnlinks(q, g)
  <2>1. \A r \in Procs, c \in Commands : ~Begin(r, c)
    BY <1>2 DEF Begin
  <2>2. \A r \in Procs : /\ ~BeginUninstall(r) /\ ~Timeout(r) /\ ~Kill(r)
                         /\ ~OpenLock(r) /\ ~Flock(r) /\ ~NothingToUpdate(r)
                         /\ ~EndInstall(r) /\ ~PlanUpdate(r) /\ ~EndUpdate(r)
                         /\ ~Bare(r) /\ ~PlanUninstall(r) /\ ~Incomplete(r)
                         /\ ~Complete(r) /\ ~Wipe(r) /\ ~Unledger(r)
    BY <1>2 DEF BeginUninstall, Timeout, Kill, OpenLock, Flock, Enter,
       NothingToUpdate, EndInstall, PlanUpdate, EndUpdate, Bare, PlanUninstall,
       Incomplete, Complete, Wipe, Unledger
  <2>3. \A r \in Procs, h \in Files :
            /\ ~InstallLooks(r, h) /\ ~InstallFails(r, h) /\ ~ApplyRefused(r, h)
            /\ ~ApplyAdopt(r, h) /\ ~ApplyStage(r, h) /\ ~UndoLooks(r, h)
    BY <1>2 DEF InstallLooks, InstallFails, ApplyRefused, ApplyAdopt, ApplyStage,
       UndoLooks
  <2>4. (\A h \in Files : ~UserEdits(h)) /\ ~NewRelease
    BY <1>2 DEF UserEdits, NewRelease
  <2> QED
    BY <2>1, <2>2, <2>3, <2>4 DEF Next, Step, FileStep
<1>4. plan[q][g] \in {"write", "overwrite", "unlink"}
  BY <1>3 DEF InstallWrites, ApplyOverwrite, UndoUnlinks
<1>5. PICK step : plan' = [plan EXCEPT ![q][g] = step]
  BY <1>3 DEF InstallWrites, ApplyOverwrite, UndoUnlinks, Planned
<1>6. q = p /\ g = f
  BY <1>1, <1>5
<1> QED
  BY <1>4, <1>6

\* Every step keeps WillReplace.
LEMMA StepReplaces == Typed /\ WillReplace /\ [Next]_vars => WillReplace'
<1> SUFFICES ASSUME Typed, WillReplace, [Next]_vars PROVE WillReplace'
  OBVIOUS
<1> USE DEF files, local
<1>1. CASE UNCHANGED vars
  BY <1>1 DEF vars, WillReplace
<1>2. ASSUME NEW f \in Files, UserEdits(f) PROVE WillReplace'
  BY <1>2 DEF UserEdits, WillReplace, Typed, TypeOK
<1>3. CASE NewRelease
  BY <1>3 DEF NewRelease, WillReplace
<1>4. ASSUME NEW p \in Procs,
             \/ \E c \in Commands : Begin(p, c)
             \/ BeginUninstall(p) \/ OpenLock(p) \/ Complete(p) \/ Wipe(p)
      PROVE  WillReplace'
  BY <1>4 DEF Begin, BeginUninstall, OpenLock, Complete, Wipe, WillReplace
<1>5. ASSUME NEW p \in Procs,
             \/ NothingToUpdate(p) \/ Timeout(p) \/ Kill(p) \/ EndInstall(p)
             \/ EndUpdate(p) \/ Bare(p) \/ Incomplete(p) \/ Unledger(p)
             \/ \E f \in Files : InstallFails(p, f) \/ ApplyRefused(p, f)
      PROVE  WillReplace'
  <2>1. Exit(p) /\ UNCHANGED disk
    BY <1>5 DEF NothingToUpdate, Timeout, Kill, EndInstall, EndUpdate, Bare,
       Incomplete, Unledger, InstallFails, ApplyRefused
  <2> QED
    BY <2>1, ExitReplaces
<1>6. ASSUME NEW p \in Procs, Flock(p) PROVE WillReplace'
  <2>1. UNCHANGED <<disk, stale>>
    BY <1>6 DEF Flock, Enter
  <2>2. \/ plan' = [plan EXCEPT ![p] = [f \in Files |->
                        IF f \in Shipped(p) THEN "todo" ELSE "done"]]
        \/ plan' = plan
    BY <1>6 DEF Flock, Enter
  <2>3. \A q \in Procs, f \in Files :
            plan'[q][f] = plan[q][f] \/ plan'[q][f] \in {"todo", "done"}
    BY <2>2 DEF Typed, TypeOK
  <2> QED
    BY <2>1, <2>3 DEF WillReplace
<1>7. ASSUME NEW p \in Procs, NEW f \in Files,
             InstallWrites(p, f) \/ ApplyOverwrite(p, f)
      PROVE  WillReplace'
  BY <1>7, PutsReplaces DEF InstallWrites, ApplyOverwrite
<1>8. ASSUME NEW p \in Procs, NEW f \in Files, ApplyAdopt(p, f) \/ ApplyStage(p, f)
      PROVE  WillReplace'
  BY <1>8 DEF ApplyAdopt, ApplyStage, Planned, WillReplace, Typed, TypeOK
<1>9. ASSUME NEW p \in Procs, NEW f \in Files, InstallLooks(p, f)
      PROVE  WillReplace'
  <2>1. Theirs(p, f) \in Digests /\ Ancestor(ledger[p], f) \in Digests \cup {None}
        /\ disk[f] \in Content
    BY <1>9, TheirsIsDigest, AncestorIsDigest
       DEF InstallLooks, Typed, TypeOK, Plans, FromSource
  <2>2. PICK step : /\ Planned(p, f, step)
                    /\ step = "write" =>
                          InstallDecide(Ancestor(ledger[p], f), Theirs(p, f), disk[f])
                            \notin {"noop", "stage", "adopt"}
                    /\ step \in {"write", "done"}
    BY <1>9 DEF InstallLooks
  <2>3. step = "write" => disk[f] \notin {Mine, Odd}
    BY <2>1, <2>2, DecideOutcomes, OverwritesOwn DEF Outcomes
  <2>4. Looks(p, f) /\ UNCHANGED disk
    BY <1>9 DEF InstallLooks
  <2> QED
    BY <2>2, <2>3, <2>4, LooksReplaces
<1>10. ASSUME NEW p \in Procs, PlanUpdate(p) PROVE WillReplace'
  <2>1. ASSUME NEW f \in Files, plan'[p][f] \in {"write", "overwrite", "unlink"}
        PROVE  disk[f] \notin {Mine, Odd}
    <3>1. f \in Shipped(p)
          /\ Decide(Ancestor(ledger[p], f), Theirs(p, f), disk[f]) = plan'[p][f]
      BY <1>10, <2>1 DEF PlanUpdate, Typed, TypeOK
    <3>2. Theirs(p, f) \in Digests /\ Ancestor(ledger[p], f) \in Digests \cup {None}
          /\ disk[f] \in Content
      BY <3>1, TheirsIsDigest, AncestorIsDigest DEF Shipped, Typed, TypeOK
    <3> QED
      BY <2>1, <3>1, <3>2, OverwritesOwn, DecideOutcomes DEF Outcomes
  <2>2. UNCHANGED disk
        /\ \A q \in Procs \ {p} : plan'[q] = plan[q] /\ stale'[q] = stale[q]
    BY <1>10 DEF PlanUpdate, Typed, TypeOK
  <2> QED
    BY <2>1, <2>2 DEF WillReplace
<1>11. ASSUME NEW p \in Procs, PlanUninstall(p) PROVE WillReplace'
  <2>1. \A f \in Files : plan'[p][f] \notin {"write", "overwrite", "unlink"}
    BY <1>11 DEF PlanUninstall, Typed, TypeOK
  <2>2. UNCHANGED disk
        /\ \A q \in Procs \ {p} : plan'[q] = plan[q] /\ stale'[q] = stale[q]
    BY <1>11 DEF PlanUninstall, Typed, TypeOK
  <2> QED
    BY <2>1, <2>2 DEF WillReplace
<1>12. ASSUME NEW p \in Procs, NEW f \in Files, UndoLooks(p, f)
       PROVE  WillReplace'
  <2>1. PICK step \in {"done", "unlink", "failed"} :
            /\ Planned(p, f, step)
            /\ step = "unlink" => disk[f] = Ancestor(ledger[p], f)
    BY <1>12 DEF UndoLooks
  <2>2. step = "unlink" => disk[f] \notin {Mine, Odd}
    BY <2>1, DigestsAreOmms DEF Typed, TypeOK
  <2>3. Looks(p, f) /\ UNCHANGED disk
    BY <1>12 DEF UndoLooks
  <2> QED
    BY <2>1, <2>2, <2>3, LooksReplaces
<1>13. ASSUME NEW p \in Procs, NEW f \in Files, UndoUnlinks(p, f)
       PROVE  WillReplace'
  <2>1. CASE disk[f] \in {Missing, Odd}
    BY <1>13, <2>1 DEF UndoUnlinks, Planned, WillReplace, Typed, TypeOK
  <2>2. CASE disk[f] \notin {Missing, Odd}
    BY <1>13, <2>2, PutsReplaces DEF UndoUnlinks
  <2> QED
    BY <2>1, <2>2
<1> QED
  BY <1>1, <1>2, <1>3, <1>4, <1>5, <1>6, <1>7, <1>8, <1>9, <1>10, <1>11, <1>12,
     <1>13 DEF Next, Step, FileStep

\* Install, update and uninstall replace or remove nothing of the user's that
\* was there when they looked (NeverOverwritesUserEdit).
THEOREM UserEditsKept == Spec => NeverOverwritesUserEdit
<1>1. Init => Typed /\ WillReplace
  <2>1. Init => WillReplace
    BY DEF Init, WillReplace
  <2> QED
    BY <2>1, InitTyped
<1>2. Typed /\ WillReplace /\ [Next]_vars => (Typed /\ WillReplace)'
  BY StepTyped, StepReplaces
<1>3. Typed /\ WillReplace /\ [Next]_vars =>
        [\A p \in Procs, f \in Files :
          (pc[p] \in InSession /\ plan[p][f] # "done" /\ plan'[p][f] = "done"
              /\ disk'[f] # disk[f] /\ disk[f] \in {Mine, Odd}) =>
            f \in stale[p]]_vars
  <2> SUFFICES ASSUME Typed, WillReplace, Next,
                      NEW p \in Procs, NEW f \in Files,
                      plan[p][f] # "done", plan'[p][f] = "done",
                      disk'[f] # disk[f], disk[f] \in {Mine, Odd}
               PROVE  f \in stale[p]
    OBVIOUS
  <2>1. plan[p][f] \in {"write", "overwrite", "unlink"}
    BY PlannedChange
  <2> QED
    BY <2>1 DEF WillReplace
<1> QED
  BY <1>1, <1>2, <1>3, PTL DEF Spec, NeverOverwritesUserEdit

-----------------------------------------------------------------------------
(* What a step of one process leaves alone of the others.                  *)

StepsAlone(p) ==
    \A q \in Procs \ {p} :
        /\ pc'[q] = pc[q] /\ cmd'[q] = cmd[q] /\ handle'[q] = handle[q]
        /\ ledger'[q] = ledger[q] /\ source'[q] = source[q] /\ plan'[q] = plan[q]
        /\ stale[q] \subseteq stale'[q]
        /\ \A f \in Files : disk'[f] # disk[f] => f \in stale'[q]

Acts(p) ==
    \/ \E c \in Commands : Begin(p, c)
    \/ BeginUninstall(p) \/ Step(p) \/ Timeout(p) \/ Kill(p)

\* A process keeps to its own program counter, ledger and plan, and what it
\* changes on disk is stale for the others.
LEMMA ActsAlone ==
    ASSUME Typed, NEW p \in Procs, Acts(p)
    PROVE  StepsAlone(p)
<1> USE DEF files, local, StepsAlone
<1>0. /\ pc \in [Procs -> PcSteps] /\ cmd \in [Procs -> Commands \cup {"none"}]
      /\ handle \in [Procs -> Inodes \cup {NoInode}]
      /\ ledger \in [Procs -> Ledger \cup {NoLedger}]
      /\ source \in [Procs -> Releases]
      /\ plan \in [Procs -> [Files -> PlanSteps]]
      /\ stale \in [Procs -> SUBSET Files] /\ disk \in [Files -> Content]
  BY DEF Typed, TypeOK
<1>1. CASE Exit(p) /\ UNCHANGED disk
  BY <1>0, <1>1 DEF Exit, Goto
<1>2. CASE \/ NothingToUpdate(p) \/ Timeout(p) \/ Kill(p) \/ EndInstall(p)
           \/ EndUpdate(p) \/ Bare(p) \/ Incomplete(p) \/ Unledger(p)
           \/ \E f \in Files : InstallFails(p, f) \/ ApplyRefused(p, f)
  BY <1>1, <1>2 DEF NothingToUpdate, Timeout, Kill, EndInstall, EndUpdate, Bare,
     Incomplete, Unledger, InstallFails, ApplyRefused
<1>3. CASE \/ \E c \in Commands : Begin(p, c)
           \/ BeginUninstall(p) \/ OpenLock(p) \/ Complete(p) \/ Wipe(p)
  BY <1>0, <1>3 DEF Begin, BeginUninstall, OpenLock, Complete, Wipe, Goto
<1>4. CASE Flock(p) \/ PlanUpdate(p) \/ PlanUninstall(p)
  BY <1>0, <1>4 DEF Flock, Enter, PlanUpdate, PlanUninstall, Goto
<1>5. ASSUME NEW f \in Files,
             \/ InstallLooks(p, f) \/ ApplyAdopt(p, f) \/ ApplyStage(p, f)
             \/ UndoLooks(p, f)
      PROVE  StepsAlone(p)
  BY <1>0, <1>5 DEF InstallLooks, ApplyAdopt, ApplyStage, UndoLooks, Looks, Planned
<1>6. ASSUME NEW f \in Files,
             InstallWrites(p, f) \/ ApplyOverwrite(p, f) \/ UndoUnlinks(p, f)
      PROVE  StepsAlone(p)
  <2>1. \/ UNCHANGED <<disk, stale>>
        \/ \E content : Puts(p, f, content)
    BY <1>6 DEF InstallWrites, ApplyOverwrite, UndoUnlinks
  <2>2. \A q \in Procs \ {p} :
            /\ stale[q] \subseteq stale'[q]
            /\ \A g \in Files : disk'[g] # disk[g] => g \in stale'[q]
    BY <1>0, <2>1 DEF Puts
  <2>3. \A q \in Procs \ {p} :
            /\ pc'[q] = pc[q] /\ cmd'[q] = cmd[q] /\ handle'[q] = handle[q]
            /\ ledger'[q] = ledger[q] /\ source'[q] = source[q]
            /\ plan'[q] = plan[q]
    BY <1>0, <1>6 DEF InstallWrites, ApplyOverwrite, UndoUnlinks, Planned
  <2> QED
    BY <2>2, <2>3
<1> QED
  BY <1>2, <1>3, <1>4, <1>5, <1>6 DEF Acts, Step, FileStep

-----------------------------------------------------------------------------
(* A conflict an update has planned to stage is one still when the update  *)
(* comes to it, unless the file has changed.                               *)

StagedStands ==
    \A p \in Procs, f \in Files :
        (pc[p] = "apply" /\ plan[p][f] = "stage" /\ f \notin stale[p]) =>
            Decide(Ancestor(ledger[p], f), Theirs(p, f), disk[f]) = "stage"

\* Applying one file keeps what was decided of the others.
LEMMA ApplyKeepsStaged ==
    ASSUME Typed, StagedStands, NEW p \in Procs, NEW f \in Files,
           ApplyOverwrite(p, f) \/ ApplyAdopt(p, f) \/ ApplyStage(p, f)
    PROVE  /\ \A g \in Files \ {f} :
                 Ancestor(ledger'[p], g) = Ancestor(ledger[p], g) /\ disk'[g] = disk[g]
           /\ plan[p][f] # "stage" => Ancestor(ledger'[p], f) = Theirs(p, f)
           /\ plan[p][f] = "stage" => UNCHANGED <<ledger, disk>>
           /\ plan' = [plan EXCEPT ![p][f] = "done"]
           /\ stale'[p] = stale[p] /\ UNCHANGED source
<1>1. plan[p][f] # "stage" =>
         /\ Upsert(ledger[p], f, Theirs(p, f)) = ledger'[p]
         /\ Theirs(p, f) \in Digests \cup {None}
  <2>1. plan[p][f] # "stage" => ~ApplyStage(p, f)
    BY DEF ApplyStage
  <2> QED
    BY <2>1, TheirsIsDigest DEF ApplyOverwrite, ApplyAdopt, Typed, TypeOK
<1>2. plan[p][f] = "stage" => ApplyStage(p, f)
  BY DEF ApplyOverwrite, ApplyAdopt
<1>3. ledger[p] \in Ledger \cup {NoLedger}
  BY DEF Typed, TypeOK
<1>4. /\ plan' = [plan EXCEPT ![p][f] = "done"]
      /\ stale'[p] = stale[p] /\ UNCHANGED source
      /\ \A g \in Files \ {f} : disk'[g] = disk[g]
  BY DEF ApplyOverwrite, ApplyAdopt, ApplyStage, Planned, Puts, files, Typed, TypeOK
<1>5. plan[p][f] = "stage" => UNCHANGED <<ledger, disk>>
  BY <1>2 DEF ApplyStage, files
<1>6. CASE plan[p][f] = "stage"
  BY <1>4, <1>5, <1>6
<1>7. CASE plan[p][f] # "stage"
  BY <1>1, <1>3, <1>4, <1>7, UpsertIsLedger
<1> QED
  BY <1>6, <1>7

\* Every step keeps StagedStands.
LEMMA StepStages == Typed /\ StagedStands /\ [Next]_vars => StagedStands'
<1> SUFFICES ASSUME Typed, StagedStands, [Next]_vars PROVE StagedStands'
  OBVIOUS
<1>0. /\ pc \in [Procs -> PcSteps] /\ plan \in [Procs -> [Files -> PlanSteps]]
      /\ ledger \in [Procs -> Ledger \cup {NoLedger}]
      /\ source \in [Procs -> Releases]
      /\ stale \in [Procs -> SUBSET Files] /\ disk \in [Files -> Content]
  BY DEF Typed, TypeOK
<1>1. CASE UNCHANGED vars
  BY <1>1 DEF vars, StagedStands, Theirs
<1>2. CASE NewRelease
  BY <1>2 DEF NewRelease, StagedStands, Theirs, files, local
<1>3. ASSUME NEW f \in Files, UserEdits(f) PROVE StagedStands'
  <2>1. /\ \A p \in Procs : stale'[p] = stale[p] \cup {f}
        /\ \A g \in Files \ {f} : disk'[g] = disk[g]
        /\ UNCHANGED <<pc, plan, ledger, source>>
    BY <1>0, <1>3 DEF UserEdits, local
  <2> QED
    BY <2>1 DEF StagedStands, Theirs
<1>4. ASSUME NEW p \in Procs, Acts(p) PROVE StagedStands'
  <2>1. StepsAlone(p)
    BY <1>4, ActsAlone
  <2>2. ASSUME NEW q \in Procs \ {p}, NEW f \in Files,
               pc'[q] = "apply", plan'[q][f] = "stage", f \notin stale'[q]
        PROVE  Decide(Ancestor(ledger[q], f), Theirs(q, f), disk[f])' = "stage"
    BY <2>1, <2>2 DEF StepsAlone, StagedStands, Theirs
  <2>3. ASSUME NEW f \in Files,
               pc'[p] = "apply", plan'[p][f] = "stage", f \notin stale'[p]
        PROVE  Decide(Ancestor(ledger[p], f), Theirs(p, f), disk[f])' = "stage"
    <3>1. CASE PlanUpdate(p)
      <4>1. plan'[p][f] =
              LET outcome == Decide(Ancestor(ledger[p], f), Theirs(p, f), disk[f])
              IN  IF f \in Shipped(p) /\ outcome # "noop" THEN outcome ELSE "done"
        BY <1>0, <3>1 DEF PlanUpdate
      <4>2. UNCHANGED <<ledger, source, disk>>
        BY <3>1 DEF PlanUpdate, files
      <4> QED
        BY <2>3, <4>1, <4>2 DEF Theirs
    <3>2. ASSUME NEW g \in Files,
                 ApplyOverwrite(p, g) \/ ApplyAdopt(p, g) \/ ApplyStage(p, g)
          PROVE  Decide(Ancestor(ledger[p], f), Theirs(p, f), disk[f])' = "stage"
      <4>1. pc[p] = "apply"
        BY <3>2 DEF ApplyOverwrite, ApplyAdopt, ApplyStage
      <4>2. f # g
        BY <1>0, <2>3, <3>2, ApplyKeepsStaged
      <4>3. plan[p][f] = "stage" /\ f \notin stale[p]
        BY <1>0, <2>3, <3>2, <4>2, ApplyKeepsStaged
      <4>4. /\ Ancestor(ledger'[p], f) = Ancestor(ledger[p], f)
            /\ disk'[f] = disk[f] /\ UNCHANGED source
        BY <3>2, <4>2, ApplyKeepsStaged
      <4>5. Decide(Ancestor(ledger[p], f), Theirs(p, f), disk[f]) = "stage"
        BY <4>1, <4>3 DEF StagedStands
      <4> QED
        BY <4>4, <4>5 DEF Theirs
    <3>3. CASE Exit(p)
      BY <1>0, <2>3, <3>3 DEF Exit, Goto
    <3>4. CASE \/ \E c \in Commands : Begin(p, c)
               \/ BeginUninstall(p) \/ OpenLock(p) \/ Flock(p) \/ PlanUninstall(p)
               \/ Complete(p) \/ Wipe(p)
      BY <1>0, <2>3, <3>4 DEF Begin, BeginUninstall, OpenLock, Flock, Enter,
         PlanUninstall, Complete, Wipe, Goto
    <3>5. CASE \E g \in Files : \/ InstallLooks(p, g) \/ InstallWrites(p, g)
                               \/ UndoLooks(p, g) \/ UndoUnlinks(p, g)
      BY <2>3, <3>5 DEF InstallLooks, InstallWrites, UndoLooks, UndoUnlinks
    <3>6. CASE \/ NothingToUpdate(p) \/ Timeout(p) \/ Kill(p) \/ EndInstall(p)
               \/ EndUpdate(p) \/ Bare(p) \/ Incomplete(p) \/ Unledger(p)
               \/ \E g \in Files : InstallFails(p, g) \/ ApplyRefused(p, g)
      BY <3>3, <3>6 DEF NothingToUpdate, Timeout, Kill, EndInstall, EndUpdate,
         Bare, Incomplete, Unledger, InstallFails, ApplyRefused
    <3> QED
      BY <1>4, <3>1, <3>2, <3>4, <3>5, <3>6 DEF Acts, Step, FileStep
  <2> QED
    BY <2>2, <2>3 DEF StagedStands
<1> QED
  BY <1>1, <1>2, <1>3, <1>4 DEF Next, Acts

\* A file that an update is through with gives a no-op when it is planned
\* again, or the conflict it has staged (Idempotent).
THEOREM UpdateIdempotent == Spec => Idempotent
<1>1. Init => Typed /\ StagedStands
  <2>1. Init => StagedStands
    BY DEF Init, StagedStands
  <2> QED
    BY <2>1, InitTyped
<1>2. Typed /\ StagedStands /\ [Next]_vars => (Typed /\ StagedStands)'
  BY StepTyped, StepStages
<1>3. Typed /\ StagedStands /\ [Next]_vars =>
        [\A p \in Procs, f \in Files :
          (pc[p] = "apply" /\ plan[p][f] # "done" /\ f \notin stale[p]
              /\ pc'[p] = "apply" /\ plan'[p][f] = "done") =>
            Decide(Ancestor(ledger'[p], f), Theirs(p, f), disk'[f]) =
                IF plan[p][f] = "stage" THEN "stage" ELSE "noop"]_vars
  <2> SUFFICES ASSUME Typed, StagedStands, Next,
                      NEW p \in Procs, NEW f \in Files,
                      pc[p] = "apply", plan[p][f] # "done", f \notin stale[p],
                      pc'[p] = "apply", plan'[p][f] = "done"
               PROVE  Decide(Ancestor(ledger'[p], f), Theirs(p, f), disk'[f]) =
                          IF plan[p][f] = "stage" THEN "stage" ELSE "noop"
    OBVIOUS
  <2>0. pc \in [Procs -> PcSteps] /\ plan \in [Procs -> [Files -> PlanSteps]]
    BY DEF Typed, TypeOK
  <2>1. Acts(p)
    <3>1. PICK q \in Procs : Acts(q)
      <4>1. UNCHANGED plan => FALSE
        OBVIOUS
      <4> QED
        BY <4>1 DEF Next, Acts, UserEdits, NewRelease, local
    <3>2. StepsAlone(q)
      BY <3>1, ActsAlone
    <3> QED
      BY <3>1, <3>2 DEF StepsAlone
  <2>2. PICK g \in Files : ApplyOverwrite(p, g) \/ ApplyAdopt(p, g) \/ ApplyStage(p, g)
    <3>1. ~Exit(p)
      BY <2>0 DEF Exit, Goto
    <3>2. /\ ~NothingToUpdate(p) /\ ~Timeout(p) /\ ~Kill(p) /\ ~EndInstall(p)
          /\ ~EndUpdate(p) /\ ~Bare(p) /\ ~Incomplete(p) /\ ~Unledger(p)
          /\ \A g \in Files : ~InstallFails(p, g) /\ ~ApplyRefused(p, g)
      BY <3>1 DEF NothingToUpdate, Timeout, Kill, EndInstall, EndUpdate, Bare,
         Incomplete, Unledger, InstallFails, ApplyRefused
    <3>3. /\ \A c \in Commands : ~Begin(p, c)
          /\ ~BeginUninstall(p) /\ ~OpenLock(p) /\ ~Flock(p) /\ ~PlanUpdate(p)
          /\ ~PlanUninstall(p) /\ ~Complete(p) /\ ~Wipe(p)
      BY DEF Begin, BeginUninstall, OpenLock, Flock, PlanUpdate, PlanUninstall,
         Complete, Undone, Wipe
    <3>4. \A g \in Files : /\ ~InstallLooks(p, g) /\ ~InstallWrites(p, g)
                           /\ ~UndoLooks(p, g) /\ ~UndoUnlinks(p, g)
      BY DEF InstallLooks, InstallWrites, UndoLooks, UndoUnlinks
    <3> QED
      BY <2>1, <3>2, <3>3, <3>4 DEF Acts, Step, FileStep
  <2>3. g = f
    BY <2>0, <2>2, ApplyKeepsStaged
  <2>4. CASE plan[p][f] = "stage"
    BY <2>2, <2>3, <2>4, ApplyKeepsStaged DEF StagedStands
  <2>5. CASE plan[p][f] # "stage"
    BY <2>2, <2>3, <2>5, ApplyKeepsStaged, DecidedIsNoop
  <2> QED
    BY <2>4, <2>5
<1> QED
  BY <1>1, <1>2, <1>3, PTL DEF Spec, Idempotent

-----------------------------------------------------------------------------
(* One session at a time: unless an uninstall has run beside another       *)
(* command, the lock file every process has open is the one the path       *)
(* names.                                                                  *)

UninstallSteps == {"bare", "plan", "undo", "wipe", "unledger"}

LockIsThePath ==
    /\ Overlaps => overlap
    /\ \A p \in Procs :
          pc[p] \in UninstallSteps => cmd[p] = "uninstall"
    /\ overlap \/ \A p \in Procs : handle[p] \in {NoInode, lockFile}
    /\ OneSession

\* What a step of p does to the lock.
Locks(p) ==
    /\ pc'[p] \in UninstallSteps => cmd'[p] = "uninstall"
    /\ pc'[p] \in InSession => pc[p] \in InSession \/ (pc[p] = "flock" /\ ~Blocked(p))
    /\ \/ handle'[p] \in {handle[p], NoInode} /\ lockFile' = lockFile
       \/ /\ cmd[p] = "uninstall" /\ handle'[p] = NoInode
          /\ lockFile' \in {lockFile, NoInode}
       \/ handle'[p] = lockFile' /\ lockFile \in {lockFile', NoInode}

\* Only the holder's peers wait, and only an uninstall removes the lock file.
LEMMA ActsLock ==
    ASSUME Typed, NEW p \in Procs, Acts(p),
           pc[p] \in UninstallSteps => cmd[p] = "uninstall"
    PROVE  Locks(p)
<1> USE DEF files, local
<1>0. /\ pc \in [Procs -> PcSteps] /\ cmd \in [Procs -> Commands \cup {"none"}]
      /\ handle \in [Procs -> Inodes \cup {NoInode}]
      /\ \A q \in Procs :
            /\ pc[q] \in InSession \cup {"flock"} <=> handle[q] # NoInode
            /\ pc[q] = "idle" <=> cmd[q] = "none"
  BY DEF Typed, TypeOK
<1>1. CASE Exit(p) /\ lockFile' = lockFile
  BY <1>0, <1>1 DEF Exit, Goto, Locks, InSession, UninstallSteps
<1>2. CASE \/ NothingToUpdate(p) \/ Timeout(p) \/ Kill(p) \/ EndInstall(p)
           \/ EndUpdate(p) \/ Incomplete(p) \/ Unledger(p)
           \/ \E f \in Files : InstallFails(p, f) \/ ApplyRefused(p, f)
  BY <1>1, <1>2 DEF NothingToUpdate, Timeout, Kill, EndInstall, EndUpdate,
     Incomplete, Unledger, InstallFails, ApplyRefused
<1>3. CASE Bare(p)
  BY <1>0, <1>3 DEF Bare, Exit, Goto, Locks, InSession, UninstallSteps
<1>4. CASE (\E c \in Commands : Begin(p, c)) \/ BeginUninstall(p)
  BY <1>0, <1>4 DEF Begin, BeginUninstall, Goto, Locks, InSession, UninstallSteps
<1>5. CASE OpenLock(p)
  BY <1>0, <1>5 DEF OpenLock, Goto, Locks, InSession, UninstallSteps
<1>6. CASE Flock(p)
  BY <1>0, <1>6 DEF Flock, Enter, Goto, Locks, InSession, UninstallSteps
<1>7. CASE PlanUpdate(p) \/ PlanUninstall(p)
  BY <1>0, <1>7 DEF PlanUpdate, PlanUninstall, Goto, Locks, InSession, UninstallSteps
<1>8. CASE Complete(p) \/ Wipe(p)
  BY <1>0, <1>8 DEF Complete, Undone, Wipe, Goto, Locks, InSession, UninstallSteps
<1>9. ASSUME NEW f \in Files,
             \/ InstallLooks(p, f) \/ InstallWrites(p, f) \/ ApplyOverwrite(p, f)
             \/ ApplyAdopt(p, f) \/ ApplyStage(p, f)
             \/ UndoLooks(p, f) \/ UndoUnlinks(p, f)
      PROVE  Locks(p)
  <2>1. pc[p] \in InSession /\ UNCHANGED <<pc, cmd, handle, lockFile>>
    BY <1>9 DEF InstallLooks, InstallWrites, ApplyOverwrite, ApplyAdopt, ApplyStage,
       UndoLooks, UndoUnlinks, InSession
  <2> QED
    BY <2>1 DEF Locks, InSession, UninstallSteps
<1> QED
  BY <1>2, <1>3, <1>4, <1>5, <1>6, <1>7, <1>8, <1>9 DEF Acts, Step, FileStep

\* Every step keeps LockIsThePath.
LEMMA StepLocks == Typed /\ LockIsThePath /\ [Next]_vars => LockIsThePath'
<1> SUFFICES ASSUME Typed, LockIsThePath, [Next]_vars PROVE LockIsThePath'
  OBVIOUS
<1> USE DEF files, local
<1>0. /\ pc \in [Procs -> PcSteps] /\ cmd \in [Procs -> Commands \cup {"none"}]
      /\ handle \in [Procs -> Inodes \cup {NoInode}]
      /\ \A p \in Procs :
            /\ pc[p] \in InSession \cup {"flock"} <=> handle[p] # NoInode
            /\ pc[p] = "idle" <=> cmd[p] = "none"
  BY DEF Typed, TypeOK
<1>1. CASE UNCHANGED vars
  BY <1>1 DEF vars, LockIsThePath, OneSession, SessionsExclude, Overlaps
<1>2. CASE Next
  <2>1. (overlap => overlap') /\ (Overlaps' => overlap')
    BY <1>2 DEF Next, Watched
  <2>2. CASE NewRelease \/ \E f \in Files : UserEdits(f)
    BY <2>1, <2>2 DEF NewRelease, UserEdits, LockIsThePath, OneSession, SessionsExclude
  <2>3. ASSUME NEW p \in Procs, Acts(p) PROVE LockIsThePath'
    <3>0. Locks(p)
      BY <2>3, ActsLock DEF LockIsThePath
    <3>1. StepsAlone(p)
      BY <2>3, ActsAlone
    <3>2. \A q \in Procs \ {p} :
              pc'[q] = pc[q] /\ cmd'[q] = cmd[q] /\ handle'[q] = handle[q]
      BY <3>1 DEF StepsAlone
    <3>3. \A q \in Procs :
              pc'[q] \in UninstallSteps => cmd'[q] = "uninstall"
      BY <3>0, <3>2 DEF Locks, InSession, UninstallSteps, LockIsThePath
    <3>4. ASSUME ~overlap'
          PROVE  /\ \A q \in Procs : handle'[q] \in {NoInode, lockFile'}
                 /\ SessionsExclude'
      <4>1. /\ ~overlap /\ ~Overlaps'
            /\ \A q \in Procs : handle[q] \in {NoInode, lockFile}
            /\ SessionsExclude
        BY <2>1, <3>4 DEF LockIsThePath, OneSession
      <4>2. \A q \in Procs \ {p} : cmd[p] = "uninstall" => handle'[q] = NoInode
        <5>1. ~Overlaps
          BY <4>1 DEF LockIsThePath
        <5> QED
          BY <1>0, <3>2, <5>1 DEF Overlaps, InSession
      <4>3. \A q \in Procs : handle'[q] \in {NoInode, lockFile'}
        BY <3>0, <3>2, <4>1, <4>2 DEF Locks
      <4>4. ASSUME NEW q \in Procs, NEW r \in Procs,
                   pc'[q] \in InSession, pc'[r] \in InSession, q # r
            PROVE  FALSE
        <5>1. ASSUME NEW t \in Procs \ {p}, pc'[t] \in InSession, pc'[p] \in InSession
              PROVE  FALSE
          <6>1. pc[t] \in InSession /\ handle[t] # NoInode
            BY <1>0, <3>2, <5>1
          <6>2. pc[p] \notin InSession
            BY <4>1, <6>1 DEF SessionsExclude
          <6>3. ~Blocked(p) /\ pc[p] = "flock"
            BY <3>0, <5>1, <6>2 DEF Locks
          <6>4. handle[p] = handle[t]
            BY <1>0, <4>1, <6>1, <6>3
          <6> QED
            BY <6>1, <6>3, <6>4 DEF Blocked
        <5>2. CASE q # p /\ r # p
          BY <3>2, <4>1, <4>4, <5>2 DEF SessionsExclude
        <5> QED
          BY <4>4, <5>1, <5>2
      <4> QED
        BY <4>3, <4>4 DEF SessionsExclude
    <3> QED
      BY <2>1, <3>3, <3>4 DEF LockIsThePath, OneSession
  <2> QED
    BY <1>2, <2>2, <2>3 DEF Next, Acts
<1> QED
  BY <1>1, <1>2

\* As long as no uninstall runs beside another command, there is one session
\* at a time, whoever is killed or gives up (OneSession).
THEOREM OneSessionAtATime == Spec => []OneSession
<1>1. Init => Typed /\ LockIsThePath
  <2>1. Init => LockIsThePath
    BY DEF Init, LockIsThePath, OneSession, SessionsExclude, Overlaps, InSession,
       UninstallSteps
  <2> QED
    BY <2>1, InitTyped
<1>2. Typed /\ LockIsThePath /\ [Next]_vars => (Typed /\ LockIsThePath)'
  BY StepTyped, StepLocks
<1>3. LockIsThePath => OneSession
  BY DEF LockIsThePath
<1> QED
  BY <1>1, <1>2, <1>3, PTL DEF Spec

-----------------------------------------------------------------------------
(* The ledger describes the disk.                                          *)

\* The ledger l has every file of omm's as it is on disk, but for torn ones.
Described(l) == \A f \in ours \ torn : Ancestor(l, f) = disk[f]

\* A file of omm's has what omm once shipped.
OursAreShipped == \A f \in ours : disk[f] \in Digests

\* The saved ledger describes the disk while no session writes.
Settled ==
    (\A p \in Procs : pc[p] \notin {"install", "apply"}) => Described(saved)

\* An install works on the saved ledger, which is ahead of the disk in the
\* one file that is about to be written.
Installs(p) ==
    pc[p] = "install" =>
        /\ ledger[p] = saved
        /\ \A f \in Files : plan[p][f] = "write" =>
              /\ Ancestor(saved, f) = Theirs(p, f)
              /\ \A g \in Files : plan[p][g] = "write" => g = f
        /\ \A f \in ours \ torn :
              plan[p][f] = "write" \/ Ancestor(saved, f) = disk[f]

\* An update's ledger in memory describes what it has written so far.
Updates(p) ==
    /\ pc[p] = "update" => ledger[p] = saved
    /\ pc[p] = "apply" =>
          /\ Described(ledger[p])
          /\ \A f \in ours : plan[p][f] = "adopt" => disk[f] = Theirs(p, f)

\* An uninstall leaves none of omm's files but those that failed, and those
\* keep their entries.
Uninstalls(p) ==
    /\ pc[p] = "plan" => ledger[p] = saved
    /\ (pc[p] = "undo" \/ (pc[p] \in {"open", "flock"} /\ cmd[p] = "uninstall")) =>
          /\ Described(ledger[p])
          /\ \A f \in ours \ torn : plan[p][f] \in {"remove", "unlink", "failed"}
    /\ pc[p] \in {"wipe", "unledger"} => ours \subseteq torn

Accounts(p) == Installs(p) /\ Updates(p) /\ Uninstalls(p)

\* The strengthening of LedgerDescribesDisk.
AllAccountedFor ==
    /\ OursAreShipped
    /\ overlap \/ (Settled /\ \A p \in Procs : Accounts(p))

\* What the lemmas below assume of a step of p, and of the states around it.
StepsInOrder(p) ==
    /\ Typed /\ Typed' /\ LockIsThePath /\ LockIsThePath'
    /\ ~overlap /\ ~overlap'
    /\ OursAreShipped /\ Settled /\ (\A q \in Procs : Accounts(q))
    /\ Acts(p)

\* The conditions on the constants that the lemmas use.
LEMMA DigestsApart ==
    Missing \notin Digests /\ Odd \notin Digests /\ None \notin Digests
BY AssetsAssumption DEF Content, Regular

\* Saving a ledger that describes the disk.
LEMMA SaveDescribes ==
    ASSUME NEW l, Save(l), UNCHANGED <<disk, ours>>, Described(l)
    PROVE  Described(saved)'
BY DEF Save, Described

\* Files become omm's by being written from what omm ships.
LEMMA OursStayShipped ==
    ASSUME Typed, OursAreShipped, [Next]_vars
    PROVE  OursAreShipped'
<1> USE DEF files, local
<1>0. disk \in [Files -> Content] /\ ours \subseteq Files
  BY DEF Typed, TypeOK
<1>1. CASE UNCHANGED <<disk, ours>>
  BY <1>1 DEF OursAreShipped
<1>2. ASSUME NEW f \in Files, UserEdits(f) PROVE OursAreShipped'
  BY <1>0, <1>2 DEF UserEdits, OursAreShipped
<1>3. ASSUME NEW p \in Procs, NEW f \in Files,
             InstallWrites(p, f) \/ ApplyOverwrite(p, f)
      PROVE  OursAreShipped'
  <2>1. Theirs(p, f) \in Digests
    BY <1>3, TheirsIsDigest
       DEF InstallWrites, ApplyOverwrite, Typed, Plans, FromSource
  <2> QED
    BY <1>0, <1>3, <2>1, DigestsApart
       DEF InstallWrites, ApplyOverwrite, Puts, OursAreShipped
<1>4. ASSUME NEW p \in Procs, NEW f \in Files, UndoUnlinks(p, f)
      PROVE  OursAreShipped'
  BY <1>0, <1>4 DEF UndoUnlinks, Puts, OursAreShipped
<1>5. CASE UNCHANGED vars
  BY <1>1, <1>5 DEF vars
<1>6. CASE /\ Next
           /\ \A f \in Files : ~UserEdits(f)
           /\ \A p \in Procs, f \in Files :
                 ~(InstallWrites(p, f) \/ ApplyOverwrite(p, f) \/ UndoUnlinks(p, f))
  <2>1. UNCHANGED <<disk, ours>>
    BY <1>6 DEF Next, Step, FileStep, Begin, BeginUninstall, Timeout, Kill,
       NewRelease, OpenLock, Flock, Enter, NothingToUpdate, EndInstall,
       PlanUpdate, EndUpdate, Bare, PlanUninstall, Incomplete, Complete, Wipe,
       Unledger, InstallLooks, InstallFails, ApplyRefused, ApplyAdopt,
       ApplyStage, UndoLooks
  <2> QED
    BY <1>1, <2>1
<1> QED
  BY <1>2, <1>3, <1>4, <1>5, <1>6

\* A process with the lock, or an uninstall, is alone in having an account to
\* keep.
LEMMA SessionIsAlone ==
    ASSUME NEW p \in Procs, StepsInOrder(p),
           pc[p] \in InSession \cup UninstallSteps, NEW q \in Procs \ {p}
    PROVE  /\ pc[q] \notin InSession \cup UninstallSteps
           /\ cmd[q] # "uninstall"
<1>1. /\ cmd[p] # "none" /\ ~Overlaps /\ SessionsExclude
      /\ pc[q] \in UninstallSteps => cmd[q] = "uninstall"
      /\ pc[p] \in UninstallSteps => cmd[p] = "uninstall"
      /\ pc[q] = "idle" <=> cmd[q] = "none"
  BY DEF StepsInOrder, LockIsThePath, OneSession, Typed, TypeOK, InSession,
     UninstallSteps
<1>2. cmd[q] # "uninstall"
  BY <1>1 DEF Overlaps
<1>3. CASE pc[p] \in InSession
  BY <1>1, <1>2, <1>3 DEF SessionsExclude
<1>4. CASE pc[p] \in UninstallSteps
  BY <1>1, <1>2, <1>4 DEF Overlaps, InSession
<1> QED
  BY <1>2, <1>3, <1>4

\* ... so that the others' accounts stand.
LEMMA OthersAccount ==
    ASSUME NEW p \in Procs, StepsInOrder(p), NEW q \in Procs \ {p}
    PROVE  Accounts(q)'
<1> USE DEF files, local
<1>1. /\ pc'[q] = pc[q] /\ cmd'[q] = cmd[q] /\ ledger'[q] = ledger[q]
      /\ source'[q] = source[q] /\ plan'[q] = plan[q]
  BY ActsAlone DEF StepsInOrder, StepsAlone
<1>2. CASE pc[p] \in InSession \cup UninstallSteps
  BY <1>1, <1>2, SessionIsAlone DEF Accounts, Installs, Updates, Uninstalls,
     InSession, UninstallSteps
<1>3. CASE pc[p] \notin InSession \cup UninstallSteps
  <2>1. UNCHANGED <<disk, ours, saved>> /\ torn \subseteq torn'
    BY <1>3 DEF StepsInOrder, Acts, Step, FileStep, Begin, BeginUninstall,
       Timeout, Kill, OpenLock, Flock, Enter, NothingToUpdate, EndInstall,
       PlanUpdate, EndUpdate, Bare, PlanUninstall, Incomplete, Complete, Undone,
       Wipe, Unledger, InstallLooks, InstallWrites, InstallFails,
       ApplyOverwrite, ApplyRefused, ApplyAdopt, ApplyStage, UndoLooks,
       UndoUnlinks, InSession, UninstallSteps
  <2>2. Accounts(q)
    BY DEF StepsInOrder
  <2> QED
    BY <1>1, <2>1, <2>2 DEF Accounts, Installs, Updates, Uninstalls, Described,
       Theirs
<1> QED
  BY <1>2, <1>3

\* A command that ends, saving nothing, leaves the ledger as it describes the
\* disk.
LEMMA EndsSettled ==
    ASSUME NEW p \in Procs, StepsInOrder(p), Exit(p), UNCHANGED <<files, saved>>,
           torn \subseteq torn',
           pc[p] = "install" =>
              \A f \in ours \ torn' : plan[p][f] # "write",
           pc[p] = "apply" => Unsaved(p) \subseteq torn'
    PROVE  Accounts(p)' /\ Settled'
<1>1. pc'[p] = "idle" /\ \A q \in Procs \ {p} : pc'[q] = pc[q]
  BY DEF StepsInOrder, Typed, TypeOK, Exit, Goto
<1>2. Accounts(p)'
  BY <1>1 DEF Accounts, Installs, Updates, Uninstalls
<1>3. ASSUME \A q \in Procs : pc'[q] \notin {"install", "apply"}
      PROVE  Described(saved)'
  <2>1. CASE pc[p] = "install"
    BY <2>1 DEF StepsInOrder, Accounts, Installs, Described, files
  <2>2. CASE pc[p] = "apply"
    <3>1. ours \subseteq Files /\ Described(ledger[p])
      BY <2>2 DEF StepsInOrder, Typed, TypeOK, Accounts, Updates
    <3>2. \A f \in ours \ torn' : Ancestor(ledger[p], f) = Ancestor(saved, f)
      BY <2>2, <3>1 DEF Unsaved
    <3> QED
      BY <3>1, <3>2 DEF Described, files
  <2>3. CASE pc[p] \notin {"install", "apply"}
    BY <1>1, <1>3, <2>3 DEF StepsInOrder, Settled, Described, files
  <2> QED
    BY <2>1, <2>2, <2>3
<1> QED
  BY <1>2, <1>3 DEF Settled

\* ... and so does one that saves what describes the disk.
LEMMA SavesSettled ==
    ASSUME NEW p \in Procs, StepsInOrder(p), Exit(p), UNCHANGED files,
           Described(saved)'
    PROVE  Accounts(p)' /\ Settled'
<1>1. pc'[p] = "idle"
  BY DEF StepsInOrder, Typed, TypeOK, Exit, Goto
<1> QED
  BY <1>1 DEF Accounts, Installs, Updates, Uninstalls, Settled

\* The steps of an install.
LEMMA InstallAccounts ==
    ASSUME NEW p \in Procs, StepsInOrder(p),
           \/ \E f \in Files : InstallLooks(p, f) \/ InstallWrites(p, f)
                                                  \/ InstallFails(p, f)
           \/ EndInstall(p)
    PROVE  Accounts(p)' /\ Settled'
<1>0. /\ pc[p] = "install" /\ Installs(p) /\ OursAreShipped
      /\ ours \subseteq Files /\ disk \in [Files -> Content]
      /\ ledger \in [Procs -> Ledger \cup {NoLedger}]
      /\ plan \in [Procs -> [Files -> PlanSteps]]
  BY DEF StepsInOrder, InstallLooks, InstallWrites, InstallFails, EndInstall,
     Accounts, Typed, TypeOK
<1>1. ASSUME NEW f \in Files, InstallLooks(p, f) PROVE Accounts(p)' /\ Settled'
  <2> DEFINE outcome ==
        InstallDecide(Ancestor(ledger[p], f), Theirs(p, f), disk[f])
  <2>1. /\ pc' = pc /\ source' = source /\ disk' = disk /\ ours' = ours
        /\ \A g \in Files : plan[p][g] # "write"
    BY <1>1 DEF InstallLooks, files
  <2>2. \A g \in ours \ torn : Ancestor(saved, g) = disk[g]
    BY <1>0, <2>1 DEF Installs
  <2>3. CASE outcome \in {"noop", "stage"}
    <3>1. ledger' = ledger /\ saved' = saved /\ torn' = torn
          /\ Planned(p, f, "done")
      BY <1>1, <2>3 DEF InstallLooks
    <3> QED
      BY <1>0, <2>1, <2>2, <3>1 DEF Installs, Accounts, Updates, Uninstalls,
         Settled, Planned
  <2>4. CASE outcome \notin {"noop", "stage"}
    <3> DEFINE l == Upsert(ledger[p], f, Theirs(p, f))
    <3>1. ledger'[p] = l /\ Save(l)
          /\ Planned(p, f, IF outcome = "adopt" THEN "done" ELSE "write")
      BY <1>0, <1>1, <2>4 DEF InstallLooks
    <3>2. /\ Ancestor(l, f) = Theirs(p, f)
          /\ \A g \in Files \ {f} : Ancestor(l, g) = Ancestor(saved, g)
      BY <1>0, UpsertIsLedger, TheirsIsDigest DEF Installs, StepsInOrder
    <3>3. outcome = "adopt" => disk[f] = Theirs(p, f)
      BY DEF InstallDecide, Decide
    <3>4. /\ plan'[p][f] = IF outcome = "adopt" THEN "done" ELSE "write"
          /\ \A g \in Files \ {f} : plan'[p][g] = plan[p][g]
      BY <1>0, <3>1 DEF Planned
    <3> HIDE DEF l, outcome
    <3>5. saved' = l /\ torn' = {g \in torn : Ancestor(l, g) # disk[g]}
      BY <3>1 DEF Save
    <3>6. \A g \in ours' \ torn' :
              plan'[p][g] = "write" \/ Ancestor(saved', g) = disk'[g]
      <4> SUFFICES ASSUME NEW g \in ours \ torn'
                   PROVE  plan'[p][g] = "write" \/ Ancestor(l, g) = disk[g]
        BY <2>1, <3>5
      <4>1. CASE g = f
        BY <3>2, <3>3, <3>4, <4>1
      <4>2. CASE g # f
        BY <1>0, <2>2, <3>2, <3>5, <4>2
      <4> QED
        BY <4>1, <4>2
    <3>7. \A g \in Files : plan'[p][g] = "write" => g = f
      BY <2>1, <3>4
    <3>8. Installs(p)'
      BY <2>1, <3>1, <3>2, <3>5, <3>6, <3>7 DEF Installs, Theirs
    <3> QED
      BY <1>0, <2>1, <3>8 DEF Accounts, Updates, Uninstalls, Settled
  <2> QED
    BY <2>3, <2>4
<1>2. ASSUME NEW f \in Files, InstallWrites(p, f) PROVE Accounts(p)' /\ Settled'
  <2>1. /\ UNCHANGED <<pc, source, saved, ledger, torn>>
        /\ plan[p][f] = "write" /\ Planned(p, f, "done")
        /\ disk' = [disk EXCEPT ![f] = Theirs(p, f)]
        /\ ours' \subseteq ours \cup {f}
    BY <1>2 DEF InstallWrites, Puts
  <2>2. Ancestor(saved, f) = Theirs(p, f)
        /\ \A g \in Files \ {f} : plan[p][g] # "write"
    BY <1>0, <2>1 DEF Installs
  <2>3. \A g \in Files : plan'[p][g] # "write"
    BY <1>0, <2>1, <2>2 DEF Planned
  <2>4. \A g \in ours' \ torn' : Ancestor(saved', g) = disk'[g]
    BY <1>0, <2>1, <2>2 DEF Installs
  <2>5. Installs(p)'
    BY <1>0, <2>1, <2>3, <2>4 DEF Installs
  <2> QED
    BY <1>0, <2>1, <2>5 DEF Accounts, Updates, Uninstalls, Settled
<1>3. ASSUME NEW f \in Files, InstallFails(p, f) PROVE Accounts(p)' /\ Settled'
  <2>1. /\ Exit(p) /\ UNCHANGED <<files, saved, torn>>
        /\ plan[p][f] = "write" /\ disk[f] = Odd
    BY <1>3 DEF InstallFails
  <2>2. \A g \in ours : plan[p][g] # "write"
    BY <1>0, <2>1, DigestsApart DEF Installs, OursAreShipped
  <2> QED
    BY <1>0, <2>1, <2>2, EndsSettled
<1>4. CASE EndInstall(p)
  <2> DEFINE l == IF ledger[p] = NoLedger THEN NoEntries ELSE ledger[p]
  <2>1. Save(l) /\ Exit(p) /\ UNCHANGED files
        /\ \A f \in Files : plan[p][f] = "done"
    BY <1>4 DEF EndInstall
  <2>2. NoEntries # NoLedger
    BY AssetsAssumption DEF NoEntries, Ledger
  <2>3. \A f \in Files : Ancestor(l, f) = Ancestor(saved, f)
    BY <1>0, <2>2 DEF Installs, Ancestor, NoEntries
  <2>4. Described(l)
    BY <1>0, <2>1, <2>3 DEF Installs, Described
  <2> HIDE DEF l
  <2> QED
    BY <2>1, <2>4, SaveDescribes, SavesSettled DEF files
<1> QED
  BY <1>1, <1>2, <1>3, <1>4

\* The steps of an update.
LEMMA UpdateAccounts ==
    ASSUME NEW p \in Procs, StepsInOrder(p),
           \/ PlanUpdate(p) \/ EndUpdate(p)
           \/ \E f \in Files : ApplyOverwrite(p, f) \/ ApplyRefused(p, f)
                               \/ ApplyAdopt(p, f) \/ ApplyStage(p, f)
    PROVE  Accounts(p)' /\ Settled'
<1>0. /\ pc[p] \in {"update", "apply"} /\ Updates(p)
      /\ pc \in [Procs -> PcSteps]
      /\ ours \subseteq Files /\ disk \in [Files -> Content]
      /\ ledger \in [Procs -> Ledger \cup {NoLedger}]
      /\ plan \in [Procs -> [Files -> PlanSteps]]
  BY DEF StepsInOrder, PlanUpdate, EndUpdate, ApplyOverwrite, ApplyRefused,
     ApplyAdopt, ApplyStage, Accounts, Typed, TypeOK
<1>1. CASE PlanUpdate(p)
  <2>1. /\ UNCHANGED <<files, saved, source, ledger, torn>>
        /\ pc[p] = "update" /\ pc'[p] = "apply"
    BY <1>0, <1>1 DEF PlanUpdate, Goto
  <2>2. Described(saved)
    <3>1. \A q \in Procs : pc[q] \notin {"install", "apply"}
      BY <2>1, SessionIsAlone DEF InSession
    <3> QED
      BY <3>1 DEF StepsInOrder, Settled
  <2>3. \A f \in Files : plan'[p][f] = "adopt" => disk[f] = Theirs(p, f)
    BY <1>0, <1>1 DEF PlanUpdate, Decide
  <2>4. Updates(p)'
    BY <1>0, <2>1, <2>2, <2>3 DEF Updates, Described, Theirs, files
  <2> QED
    BY <2>1, <2>4 DEF Accounts, Installs, Uninstalls, Settled
<1>2. ASSUME NEW f \in Files,
             ApplyOverwrite(p, f) \/ ApplyAdopt(p, f) \/ ApplyStage(p, f)
      PROVE  Accounts(p)' /\ Settled'
  <2>1. /\ UNCHANGED <<pc, source, torn>> /\ pc[p] = "apply"
        /\ Planned(p, f, "done")
    BY <1>2 DEF ApplyOverwrite, ApplyAdopt, ApplyStage
  <2>2. \/ UNCHANGED <<disk, ours, ledger>>
        \/ /\ ledger'[p] = Upsert(ledger[p], f, Theirs(p, f))
           /\ \/ disk' = [disk EXCEPT ![f] = Theirs(p, f)]
                 /\ ours' \subseteq ours \cup {f}
              \/ UNCHANGED <<disk, ours>> /\ plan[p][f] = "adopt"
    BY <1>0, <1>2 DEF ApplyOverwrite, ApplyAdopt, ApplyStage, Puts, files
  <2> DEFINE l == Upsert(ledger[p], f, Theirs(p, f))
  <2>3. /\ Ancestor(l, f) = Theirs(p, f)
        /\ \A g \in Files \ {f} : Ancestor(l, g) = Ancestor(ledger[p], g)
    BY <1>0, UpsertIsLedger, TheirsIsDigest DEF StepsInOrder
  <2> HIDE DEF l
  <2>4. /\ Described(ledger[p])
        /\ \A g \in ours : plan[p][g] = "adopt" => disk[g] = Theirs(p, g)
    BY <1>0, <2>1 DEF Updates
  <2>5. \A g \in ours' \ torn' : Ancestor(ledger'[p], g) = disk'[g]
    BY <1>0, <2>1, <2>2, <2>3, <2>4 DEF Described, l
  <2>6. \A g \in ours' : plan'[p][g] = "adopt" => disk'[g] = Theirs(p, g)
    BY <1>0, <2>1, <2>2, <2>4 DEF Planned
  <2>7. Updates(p)'
    BY <2>1, <2>5, <2>6 DEF Updates, Described, Theirs
  <2> QED
    BY <2>1, <2>7 DEF Accounts, Installs, Uninstalls, Settled
<1>3. ASSUME NEW f \in Files, ApplyRefused(p, f) PROVE Accounts(p)' /\ Settled'
  <2>1. /\ Exit(p) /\ UNCHANGED <<files, saved>> /\ pc[p] = "apply"
        /\ torn' = torn \cup Unsaved(p)
    BY <1>3 DEF ApplyRefused
  <2> QED
    BY <2>1, EndsSettled
<1>4. CASE EndUpdate(p)
  <2>1. Save(ledger[p]) /\ Exit(p) /\ UNCHANGED files /\ pc[p] = "apply"
    BY <1>4 DEF EndUpdate
  <2>2. Described(ledger[p])
    BY <1>0, <2>1 DEF Updates
  <2> QED
    BY <2>1, <2>2, SaveDescribes, SavesSettled DEF files
<1> QED
  BY <1>1, <1>2, <1>3, <1>4

\* The steps of an uninstall.
LEMMA UninstallAccounts ==
    ASSUME NEW p \in Procs, StepsInOrder(p),
           \/ BeginUninstall(p) \/ PlanUninstall(p)
           \/ \E f \in Files : UndoLooks(p, f) \/ UndoUnlinks(p, f)
           \/ Incomplete(p) \/ Complete(p) \/ Wipe(p) \/ Unledger(p)
    PROVE  Accounts(p)' /\ Settled'
<1>0. /\ Uninstalls(p) /\ Settled /\ OursAreShipped
      /\ pc \in [Procs -> PcSteps]
      /\ ours \subseteq Files /\ disk \in [Files -> Content]
      /\ ledger \in [Procs -> Ledger \cup {NoLedger}]
      /\ plan \in [Procs -> [Files -> PlanSteps]]
  BY DEF StepsInOrder, Accounts, Typed, TypeOK
<1>1. \A q \in Procs \ {p} : pc'[q] = pc[q]
  BY ActsAlone DEF StepsInOrder, StepsAlone
<1>2. CASE BeginUninstall(p)
  <2>1. /\ UNCHANGED <<files, saved, torn>> /\ pc[p] = "idle"
        /\ pc'[p] \in {"bare", "plan"} /\ ledger'[p] = saved
    BY <1>0, <1>2 DEF BeginUninstall, Goto
  <2>2. Settled'
    BY <1>0, <1>1, <2>1 DEF Settled, Described, files
  <2> QED
    BY <2>1, <2>2 DEF Accounts, Installs, Updates, Uninstalls
<1>3. CASE PlanUninstall(p)
  <2>1. /\ UNCHANGED <<files, saved, torn, ledger>> /\ pc[p] = "plan"
        /\ pc'[p] = "open" /\ ledger[p] = saved
    BY <1>0, <1>3 DEF PlanUninstall, Goto, Uninstalls
  <2>2. Described(saved)
    <3>1. \A q \in Procs : pc[q] \notin {"install", "apply"}
      BY <2>1, SessionIsAlone DEF InSession, UninstallSteps
    <3> QED
      BY <1>0, <3>1 DEF Settled
  <2>3. \A f \in ours \ torn : plan'[p][f] = "remove"
    <3> SUFFICES ASSUME NEW f \in ours \ torn PROVE plan'[p][f] = "remove"
      OBVIOUS
    <3>1. f \in Files /\ Ancestor(ledger[p], f) = disk[f] /\ disk[f] \in Digests
      BY <1>0, <2>1, <2>2 DEF Described, OursAreShipped
    <3>2. disk[f] # None /\ disk[f] # Missing
      BY <3>1, DigestsApart
    <3> QED
      BY <1>0, <1>3, <3>1, <3>2 DEF PlanUninstall
  <2>4. Settled'
    BY <2>1, <2>2 DEF Settled, Described, files
  <2>5. Uninstalls(p)'
    BY <2>1, <2>2, <2>3 DEF Uninstalls, Described, files
  <2> QED
    BY <2>1, <2>4, <2>5 DEF Accounts, Installs, Updates
<1>4. ASSUME pc[p] = "undo" PROVE /\ Described(saved) /\ Described(ledger[p])
                                  /\ \A f \in ours \ torn :
                                        plan[p][f] \in {"remove", "unlink", "failed"}
  <2>1. \A q \in Procs : pc[q] \notin {"install", "apply"}
    BY <1>4, SessionIsAlone DEF InSession
  <2> QED
    BY <1>0, <1>4, <2>1 DEF Settled, Uninstalls
<1>5. ASSUME NEW f \in Files, UndoLooks(p, f) PROVE Accounts(p)' /\ Settled'
  <2>1. UNCHANGED <<files, saved, torn, pc, cmd>> /\ pc[p] = "undo"
    BY <1>5 DEF UndoLooks
  <2>2. \/ /\ disk[f] = Missing /\ Planned(p, f, "done")
           /\ ledger'[p] = Upsert(ledger[p], f, None)
        \/ /\ Planned(p, f, "unlink") \/ Planned(p, f, "failed")
           /\ ledger' = ledger
    BY <1>0, <1>5 DEF UndoLooks
  <2>3. disk[f] = Missing => f \notin ours
    BY <1>0, DigestsApart DEF OursAreShipped
  <2>4. \A g \in Files \ {f} :
            Ancestor(Upsert(ledger[p], f, None), g) = Ancestor(ledger[p], g)
    BY <1>0, UpsertIsLedger
  <2>5. Described(ledger[p])'
    BY <1>0, <1>4, <2>1, <2>2, <2>3, <2>4 DEF Described, files
  <2>6. \A g \in ours' \ torn' : plan'[p][g] \in {"remove", "unlink", "failed"}
    BY <1>0, <1>4, <2>1, <2>2, <2>3 DEF Planned, files
  <2>7. Uninstalls(p)'
    BY <2>1, <2>5, <2>6 DEF Uninstalls
  <2>8. Described(saved)'
    BY <1>4, <2>1 DEF Described, files
  <2> QED
    BY <2>1, <2>7, <2>8 DEF Accounts, Installs, Updates, Settled
<1>6. ASSUME NEW f \in Files, UndoUnlinks(p, f) PROVE Accounts(p)' /\ Settled'
  <2>1. UNCHANGED <<saved, torn, pc, cmd>> /\ pc[p] = "undo"
    BY <1>6 DEF UndoUnlinks, local
  <2>2. \/ /\ Planned(p, f, "failed") /\ UNCHANGED <<disk, ours, ledger>>
        \/ /\ disk' = [disk EXCEPT ![f] = Missing] /\ ours' = ours \ {f}
           /\ ledger'[p] = Upsert(ledger[p], f, None)
           /\ Planned(p, f, "done")
    BY <1>0, <1>6 DEF UndoUnlinks, Puts
  <2>3. \A g \in Files \ {f} :
            Ancestor(Upsert(ledger[p], f, None), g) = Ancestor(ledger[p], g)
    BY <1>0, UpsertIsLedger
  <2>4. Described(ledger[p])'
    BY <1>0, <1>4, <2>1, <2>2, <2>3 DEF Described
  <2>5. \A g \in ours' \ torn' : plan'[p][g] \in {"remove", "unlink", "failed"}
    BY <1>0, <1>4, <2>1, <2>2 DEF Planned
  <2>6. Uninstalls(p)'
    BY <2>1, <2>4, <2>5 DEF Uninstalls
  <2>7. Described(saved)'
    BY <1>0, <1>4, <2>1, <2>2 DEF Described
  <2> QED
    BY <2>1, <2>6, <2>7 DEF Accounts, Installs, Updates, Settled
<1>7. Remaining(p) \in Ledger /\ Remaining(p) # NoLedger
  <2>1. Remaining(p) \in Ledger
    BY <1>0, AncestorIsDigest DEF Remaining, Ledger
  <2> QED
    BY <2>1, AssetsAssumption
<1>8. CASE Incomplete(p)
  <2>1. /\ Save(Remaining(p)) /\ Exit(p) /\ UNCHANGED files /\ pc[p] = "undo"
    BY <1>8 DEF Incomplete, Undone
  <2>2. \A f \in ours \ torn : Ancestor(Remaining(p), f) = Ancestor(ledger[p], f)
    BY <1>0, <1>4, <1>7, <2>1 DEF Remaining, Ancestor
  <2>3. Described(Remaining(p))
    BY <1>4, <2>1, <2>2 DEF Described
  <2> QED
    BY <2>1, <2>3, SaveDescribes, SavesSettled DEF files
<1>9. CASE Complete(p)
  <2>1. /\ UNCHANGED <<files, saved, torn>> /\ pc[p] = "undo" /\ pc'[p] = "wipe"
        /\ \A f \in Files : plan[p][f] \in {"done", "missing", "preserve"}
    BY <1>0, <1>9 DEF Complete, Undone, Goto
  <2>2. ours \subseteq torn
    BY <1>0, <1>4, <2>1
  <2> QED
    BY <2>1, <2>2 DEF Accounts, Installs, Updates, Uninstalls, Settled,
       Described, files
<1>10. CASE Wipe(p)
  <2>1. /\ UNCHANGED <<files, saved, torn>> /\ pc[p] = "wipe"
        /\ pc'[p] = "unledger" /\ ours \subseteq torn
    BY <1>0, <1>10 DEF Wipe, Goto, Uninstalls
  <2> QED
    BY <2>1 DEF Accounts, Installs, Updates, Uninstalls, Settled, Described,
       files
<1>11. CASE Unledger(p)
  <2>1. Exit(p) /\ UNCHANGED files /\ ours \subseteq torn
    BY <1>0, <1>11 DEF Unledger, Uninstalls
  <2>2. Described(saved)'
    BY <1>11, <2>1 DEF Unledger, Save, Described, files
  <2> QED
    BY <2>1, <2>2, SavesSettled
<1> QED
  BY <1>2, <1>3, <1>5, <1>6, <1>8, <1>9, <1>10, <1>11

\* The other steps of a command: it starts, waits for the lock, takes it, or
\* gives up.
LEMMA LockAccounts ==
    ASSUME NEW p \in Procs, StepsInOrder(p),
           \/ \E c \in Commands : Begin(p, c)
           \/ OpenLock(p) \/ Flock(p) \/ NothingToUpdate(p) \/ Timeout(p)
           \/ Bare(p) \/ Kill(p)
    PROVE  Accounts(p)' /\ Settled'
<1>0. /\ Accounts(p) /\ Settled
      /\ pc \in [Procs -> PcSteps] /\ cmd \in [Procs -> Commands \cup {"none"}]
      /\ ours \subseteq Files
      /\ ledger \in [Procs -> Ledger \cup {NoLedger}]
      /\ plan \in [Procs -> [Files -> PlanSteps]]
  BY DEF StepsInOrder, Typed, TypeOK
<1>1. \A q \in Procs \ {p} : pc'[q] = pc[q]
  BY ActsAlone DEF StepsInOrder, StepsAlone
<1>2. CASE \E c \in Commands : Begin(p, c)
  <2>1. /\ UNCHANGED <<files, saved, torn>>
        /\ pc[p] = "idle" /\ pc'[p] = "open" /\ cmd'[p] # "uninstall"
    BY <1>0, <1>2 DEF Begin, Goto
  <2>2. Settled'
    BY <1>0, <1>1, <2>1 DEF Settled, Described, files
  <2> QED
    BY <2>1, <2>2 DEF Accounts, Installs, Updates, Uninstalls
<1>3. CASE OpenLock(p)
  <2>1. /\ UNCHANGED <<files, saved, torn, cmd, ledger, plan>>
        /\ pc[p] = "open" /\ pc'[p] = "flock"
    BY <1>0, <1>3 DEF OpenLock, Goto, local
  <2>2. Settled'
    BY <1>0, <1>1, <2>1 DEF Settled, Described, files
  <2> QED
    BY <1>0, <2>1, <2>2 DEF Accounts, Installs, Updates, Uninstalls, Described,
       files
<1>4. CASE Flock(p)
  <2>1. /\ UNCHANGED <<files, saved, torn, cmd>> /\ pc[p] = "flock"
        /\ \/ /\ pc'[p] = "install" /\ ledger'[p] = saved
              /\ \A f \in Files : plan'[p][f] \in {"todo", "done"}
           \/ pc'[p] = "update" /\ ledger'[p] = saved
           \/ /\ pc'[p] = "undo" /\ cmd[p] = "uninstall"
              /\ UNCHANGED <<ledger, plan>>
    BY <1>0, <1>4 DEF Flock, Enter, Goto
  <2>2. Described(saved)
    <3>1. \A q \in Procs \ {p} : pc[q] \notin InSession
      BY <1>1, <2>1 DEF StepsInOrder, LockIsThePath, OneSession,
         SessionsExclude, InSession
    <3>2. \A q \in Procs : pc[q] \notin {"install", "apply"}
      BY <2>1, <3>1 DEF InSession
    <3> QED
      BY <1>0, <3>2 DEF Settled
  <2>3. Described(saved)'
    BY <2>1, <2>2 DEF Described, files
  <2>4. CASE pc'[p] = "install"
    BY <1>0, <2>1, <2>3, <2>4 DEF Accounts, Installs, Updates, Uninstalls, Settled,
       Described, files
  <2>5. CASE pc'[p] = "update"
    BY <2>1, <2>3, <2>5 DEF Accounts, Installs, Updates, Uninstalls, Settled
  <2>6. CASE pc'[p] = "undo"
    BY <1>0, <2>1, <2>3, <2>6 DEF Accounts, Installs, Updates, Uninstalls,
       Settled, Described, files
  <2> QED
    BY <2>1, <2>4, <2>5, <2>6
<1>5. CASE NothingToUpdate(p) \/ Timeout(p) \/ Bare(p)
  <2>1. /\ Exit(p) /\ UNCHANGED <<files, saved, torn>>
        /\ pc[p] \in {"flock", "bare"}
    BY <1>5 DEF NothingToUpdate, Timeout, Bare
  <2> QED
    BY <2>1, EndsSettled
<1>6. CASE Kill(p)
  <2>1. /\ Exit(p) /\ UNCHANGED <<files, saved>>
        /\ torn' = torn \cup Unsaved(p) \cup {f \in Files : plan[p][f] = "write"}
    BY <1>6 DEF Kill
  <2> QED
    BY <1>0, <2>1, EndsSettled
<1> QED
  BY <1>2, <1>3, <1>4, <1>5, <1>6

\* Every step keeps the accounts.
LEMMA StepAccounts ==
    ASSUME Typed, Typed', LockIsThePath, LockIsThePath', AllAccountedFor,
           [Next]_vars
    PROVE  AllAccountedFor'
<1>1. OursAreShipped'
  BY OursStayShipped DEF AllAccountedFor
<1>2. CASE UNCHANGED vars
  BY <1>2 DEF vars, AllAccountedFor, OursAreShipped, Settled, Described,
     Accounts, Installs, Updates, Uninstalls, Theirs
<1>3. ASSUME Next, ~overlap'
      PROVE  Settled' /\ \A p \in Procs : Accounts(p)'
  <2>1. ~overlap /\ Settled /\ \A p \in Procs : Accounts(p)
    BY <1>3 DEF Next, Watched, AllAccountedFor
  <2>2. ASSUME NEW p \in Procs, Acts(p)
        PROVE  Settled' /\ \A q \in Procs : Accounts(q)'
    <3>1. StepsInOrder(p)
      BY <1>3, <2>1, <2>2 DEF StepsInOrder, AllAccountedFor
    <3>2. Accounts(p)' /\ Settled'
      BY <2>2, <3>1, InstallAccounts, UpdateAccounts, UninstallAccounts,
         LockAccounts DEF Acts, Step, FileStep
    <3> QED
      BY <3>1, <3>2, OthersAccount
  <2>3. CASE NewRelease
    <3>1. UNCHANGED <<files, saved, torn, pc, cmd, ledger, source, plan>>
      BY <2>3 DEF NewRelease, local
    <3> QED
      BY <2>1, <3>1 DEF Settled, Described, Accounts, Installs, Updates,
         Uninstalls, Theirs, files
  <2>4. ASSUME NEW f \in Files, UserEdits(f)
        PROVE  Settled' /\ \A p \in Procs : Accounts(p)'
    <3>1. /\ UNCHANGED <<saved, torn, pc, cmd, ledger, source, plan>>
          /\ ours' = ours \ {f}
          /\ \A g \in Files \ {f} : disk'[g] = disk[g]
          /\ ours \subseteq Files
      BY <2>4 DEF UserEdits, local, Typed, TypeOK
    <3>2. \A l : Described(l) => \A g \in ours' \ torn' : Ancestor(l, g) = disk'[g]
      BY <3>1 DEF Described
    <3>3. Settled'
      BY <2>1, <3>1, <3>2 DEF Settled, Described
    <3>4. ASSUME NEW p \in Procs PROVE Accounts(p)'
      <4>1. Installs(p) /\ Updates(p) /\ Uninstalls(p)
        BY <2>1 DEF Accounts
      <4>2. Installs(p)'
        BY <3>1, <4>1 DEF Installs, Theirs
      <4>3. Updates(p)'
        BY <3>1, <4>1 DEF Updates, Described, Theirs
      <4>4. Uninstalls(p)'
        BY <3>1, <4>1 DEF Uninstalls, Described
      <4> QED
        BY <4>2, <4>3, <4>4 DEF Accounts
    <3> QED
      BY <3>3, <3>4
  <2> QED
    BY <1>3, <2>2, <2>3, <2>4 DEF Next, Acts
<1> QED
  BY <1>1, <1>2, <1>3 DEF AllAccountedFor

\* AllAccountedFor holds of every reachable state.
THEOREM AccountsKept == Spec => []AllAccountedFor
<1>1. Init => Typed /\ LockIsThePath /\ AllAccountedFor
  <2> SUFFICES ASSUME Init PROVE Typed /\ LockIsThePath /\ AllAccountedFor
    OBVIOUS
  <2>1. Typed
    BY InitTyped
  <2>2. LockIsThePath
    BY DEF Init, LockIsThePath, OneSession, SessionsExclude, Overlaps, InSession,
       UninstallSteps
  <2>3. AllAccountedFor
    BY DEF Init, AllAccountedFor, OursAreShipped, Settled, Described, Accounts,
       Installs, Updates, Uninstalls
  <2> QED
    BY <2>1, <2>2, <2>3
<1>2. Typed /\ LockIsThePath /\ AllAccountedFor /\ [Next]_vars
        => (Typed /\ LockIsThePath /\ AllAccountedFor)'
  <2>1. Typed /\ LockIsThePath /\ [Next]_vars => (Typed /\ LockIsThePath)'
    BY StepTyped, StepLocks
  <2>2. Typed /\ LockIsThePath /\ (Typed /\ LockIsThePath)'
            /\ AllAccountedFor /\ [Next]_vars => AllAccountedFor'
    BY StepAccounts
  <2> QED
    BY <2>1, <2>2
<1> QED
  BY <1>1, <1>2, PTL DEF Spec

\* Whenever no session is open, the ledger describes every file omm has
\* written and nobody has touched, whatever was edited, upgraded or killed
\* before, but for torn files and uninstalls beside another command
\* (LedgerDescribesDisk).
THEOREM LedgerIsTheDisk == Spec => []LedgerDescribesDisk
<1>1. AllAccountedFor => LedgerDescribesDisk
  BY DEF AllAccountedFor, Settled, Described, LedgerDescribesDisk, InSession
<1> QED
  BY <1>1, AccountsKept, PTL

-----------------------------------------------------------------------------
(* Containment. A walk is a recursion over the links that it may still take *)
(* and the names that are left. It has a solution, and properties of it are *)
(* shown by induction over both: among the spots that lack one there is one *)
(* nearest the end.                                                         *)

\* A set of numbers has a least one.
LEMMA Least ==
    ASSUME NEW K \in SUBSET Nat, K # {}
    PROVE  \E k \in K : \A j \in K : k <= j
<1>1. PICK top \in K : TRUE
  OBVIOUS
<1> DEFINE low == {k \in K : k <= top}
           below == {0 .. k : k \in low}
<1>2. IsFiniteSet(0 .. top)
  BY <1>1, FS_Interval
<1>3. IsWellFoundedOn(StrictSubsetOrdering(0 .. top), SUBSET (0 .. top))
  BY <1>2, FS_StrictSubsetOrderingWellFounded, FS_FiniteSubsetsOfFinite
<1>4. below \subseteq SUBSET (0 .. top) /\ below # {}
  BY <1>1
<1>5. \E x \in below : \A y \in below : ~(<<y, x>> \in StrictSubsetOrdering(0 .. top))
  <2> HIDE DEF below
  <2> QED BY <1>3, <1>4, WFMin
<1>6. PICK k \in low : \A j \in low : ~(<<0 .. j, 0 .. k>> \in StrictSubsetOrdering(0 .. top))
  BY <1>5
<1>7. ASSUME NEW j \in low, j < k PROVE FALSE
  <2>1. 0 .. j \subseteq 0 .. k /\ k \in 0 .. k /\ k \notin 0 .. j
    BY <1>7
  <2>2. <<0 .. j, 0 .. k>> \in StrictSubsetOrdering(0 .. top)
    BY <2>1, <1>6, <1>7 DEF StrictSubsetOrdering
  <2> QED
    BY <1>6, <2>2
<1>8. ASSUME NEW j \in K PROVE k <= j
  <2>1. CASE j <= top
    BY <1>6, <1>7, <2>1
  <2>2. CASE ~(j <= top)
    BY <1>1, <1>6, <2>2
  <2> QED
    BY <2>1, <2>2
<1> QED
  BY <1>6, <1>8
-----------------------------------------------------------------------------
(* Containment: a walk is what its recursion says.                         *)

\* What is at a place of a disk, and one step of a walk over it.
On(t, p) == IF p \in Places THEN t[p] ELSE Vacant
Spots == [at : Seq(STRING), todo : Seq(STRING), links : 0..MaxLinks]
Up(s) == [s EXCEPT !.at = IF @ = <<>> THEN @ ELSE Front(@), !.todo = Tail(@)]
Into(s) == [s EXCEPT !.at = Append(s.at, Head(s.todo)), !.todo = Tail(@)]
Along(s, to) == [at |-> <<>>, todo |-> to \o Tail(s.todo), links |-> s.links - 1]
Ends(a, f) == [at |-> a, fails |-> f]

Strides(t, f, s) ==
    LET node == On(t, Append(s.at, Head(s.todo)))
    IN  IF s.todo = <<>> THEN Ends(s.at, "nothing")
        ELSE IF Head(s.todo) = ".." THEN f[Up(s)]
        ELSE IF node.kind = "none" THEN Ends(s.at, "missing")
        ELSE IF node.kind = "link" THEN
             IF s.links = 0 THEN Ends(s.at, "other") ELSE f[Along(s, node.to)]
        ELSE IF node.kind = "file" /\ Len(s.todo) > 1 THEN Ends(s.at, "other")
        ELSE f[Into(s)]
Walk(t) == CHOOSE f : f = [s \in Spots |-> Strides(t, f, s)]

Start(path) == [at |-> <<>>, todo |-> path, links |-> MaxLinks]

\* What canonicalize computes is a walk over the disk.
LEMMA FollowIs == \A path : Follow(path) = Walk(tree)[Start(path)]
  BY DEF Follow, Walk, Strides, Spots, Start, Ends, Up, Into, Along, NodeAt, On

\* Nearer the end of its walk.
Nearer(r, s) == r.links < s.links \/ (r.links = s.links /\ Len(r.todo) < Len(s.todo))

\* Induction over what is left of a walk.
LEMMA SpotInduction ==
    ASSUME NEW G \in SUBSET Spots,
           \A s \in Spots : (\A r \in Spots : Nearer(r, s) => r \in G) => s \in G
    PROVE  G = Spots
<1> DEFINE bad == Spots \ G
<1>1. SUFFICES ASSUME bad # {} PROVE FALSE  OBVIOUS
<1>2. \A s \in Spots : s.links \in Nat /\ Len(s.todo) \in Nat  BY DEF Spots, MaxLinks
<1>3. PICK l \in {s.links : s \in bad} : \A j \in {s.links : s \in bad} : l <= j
  <2>1. {s.links : s \in bad} \in SUBSET Nat /\ {s.links : s \in bad} # {}  BY <1>1, <1>2
  <2> QED BY <2>1, Least
<1> DEFINE low == {s \in bad : s.links = l}
<1>3a. low # {} /\ \A s \in low : Len(s.todo) \in Nat  BY <1>2, <1>3
<1>4. PICK n \in {Len(s.todo) : s \in low} : \A j \in {Len(s.todo) : s \in low} : n <= j
  <2> DEFINE lens == {Len(s.todo) : s \in low}
  <2> HIDE DEF low
  <2>1. \A x \in lens : x \in Nat  BY <1>3a
  <2>2. lens # {}
    <3>1. PICK s \in low : TRUE  BY <1>3a
    <3>2. Len(s.todo) \in lens  BY <3>1
    <3> QED BY <3>2
  <2> HIDE DEF lens
  <2>3. lens \in SUBSET Nat  BY <2>1
  <2>4. \E k \in lens : \A j \in lens : k <= j  BY <2>2, <2>3, Least
  <2> QED BY <2>4 DEF lens
<1>5. PICK s \in low : Len(s.todo) = n  BY <1>4
<1>6. ASSUME NEW r \in Spots, Nearer(r, s) PROVE r \in G
  <2>1. SUFFICES ASSUME r \in bad PROVE FALSE  OBVIOUS
  <2>2. l <= r.links  BY <1>3, <2>1
  <2>3. r.links = l /\ Len(r.todo) < n  BY <1>2, <1>5, <1>6, <2>2 DEF Nearer
  <2>4. n <= Len(r.todo)  BY <1>4, <2>1, <2>3
  <2> QED BY <1>2, <1>5, <2>3, <2>4
<1> QED BY <1>5, <1>6

\* The first name of a path and what follows it.
LEMMA HeadTail ==
    ASSUME NEW x \in Paths, x # <<>>
    PROVE  /\ Head(x) \in STRING /\ Tail(x) \in Paths
           /\ Len(Tail(x)) = Len(x) - 1 /\ Len(x) \in Nat \ {0}
  BY HeadTailProperties, EmptySeq DEF Paths

\* A path and one more name.
LEMMA Appended ==
    ASSUME NEW x \in Paths, NEW e \in STRING
    PROVE  /\ Len(Append(x, e)) = Len(x) + 1 /\ Append(x, e)[Len(x) + 1] = e
           /\ \A i \in 1..Len(x) : Append(x, e)[i] = x[i]
<1>1. Len(Append(x, e)) = Len(x) + 1 /\ Append(x, e)[Len(x) + 1] = e
  BY AppendProperties DEF Paths
<1>2. \A i \in 1..Len(x) : Append(x, e)[i] = x[i]  BY AppendProperties DEF Paths
<1> QED BY <1>1, <1>2

\* The last name of a path and what is above it.
LEMMA FrontIs ==
    ASSUME NEW x \in Paths, x # <<>>
    PROVE  /\ Front(x) \in Paths /\ Last(x) \in STRING /\ Len(Front(x)) = Len(x) - 1
           /\ x = Append(Front(x), Last(x))
<1>1. PICK a \in Paths, e \in STRING : x = Append(a, e)  BY SequenceEmptyOrAppend DEF Paths
<1>2. /\ Len(x) = Len(a) + 1 /\ x[Len(x)] = e /\ Len(a) \in Nat
      /\ \A i \in 1..Len(a) : x[i] = a[i]
  <2>1. /\ Len(Append(a, e)) = Len(a) + 1 /\ Append(a, e)[Len(a) + 1] = e
        /\ \A i \in 1..Len(a) : Append(a, e)[i] = a[i]
    BY Appended
  <2>2. Len(a) \in Nat  BY LenProperties DEF Paths
  <2>3. Len(x) = Len(a) + 1 /\ x[Len(a) + 1] = e /\ \A i \in 1..Len(a) : x[i] = a[i]
    BY <1>1, <2>1
  <2> QED BY <2>2, <2>3
<1>3. Front(x) \in Paths /\ Len(Front(x)) = Len(a) /\ \A i \in 1..Len(a) : Front(x)[i] = a[i]
  BY <1>2, SubSeqProperties, ElementOfSeq DEF Paths, Front
<1>4. Front(x) = a  BY <1>3, SeqEqual DEF Paths
<1>5. Last(x) = e  BY <1>2 DEF Last
<1>6. Len(Front(x)) = Len(x) - 1  BY <1>2, <1>3
<1> QED BY <1>1, <1>3, <1>4, <1>5, <1>6

\* Each way to go on from a spot leads to a spot nearer the end.
LEMMA NextSpots ==
    ASSUME NEW s \in Spots, s.todo # <<>>
    PROVE  /\ Head(s.todo) \in STRING /\ Tail(s.todo) \in Paths
           /\ Len(Tail(s.todo)) = Len(s.todo) - 1 /\ Len(s.todo) \in Nat \ {0}
           /\ Up(s) \in Spots /\ Nearer(Up(s), s)
           /\ Up(s).at = (IF s.at = <<>> THEN <<>> ELSE Front(s.at))
           /\ Up(s).todo = Tail(s.todo) /\ Up(s).links = s.links
           /\ Into(s) \in Spots /\ Nearer(Into(s), s)
           /\ Into(s).at = Append(s.at, Head(s.todo))
           /\ Into(s).todo = Tail(s.todo) /\ Into(s).links = s.links
           /\ \A to \in Paths : s.links # 0 => Along(s, to) \in Spots /\ Nearer(Along(s, to), s)
<1>1. s.todo \in Paths /\ s.at \in Paths /\ s.links \in 0..4  BY DEF Spots, Paths, MaxLinks
<1>2. /\ Head(s.todo) \in STRING /\ Tail(s.todo) \in Paths
      /\ Len(Tail(s.todo)) = Len(s.todo) - 1 /\ Len(s.todo) \in Nat \ {0}
  BY <1>1, HeadTail
<1> DEFINE up == IF s.at = <<>> THEN s.at ELSE Front(s.at)
           in == Append(s.at, Head(s.todo))
<1>3. up \in Paths /\ in \in Paths  BY <1>1, <1>2, FrontIs, AppendProperties DEF Paths
<1> HIDE DEF up, in
<1>4. Up(s) = [s EXCEPT !.at = up, !.todo = Tail(s.todo)]  BY DEF Up, up
<1>5. Into(s) = [s EXCEPT !.at = in, !.todo = Tail(s.todo)]  BY DEF Into, in
<1>6. Spots = [at : Paths, todo : Paths, links : 0..MaxLinks]  BY DEF Spots, Paths
<1> DEFINE rest == Tail(s.todo)
<1> HIDE DEF rest
<1>6a. s \in [at : Paths, todo : Paths, links : 0..MaxLinks] /\ rest \in Paths
  BY <1>2, <1>6 DEF rest
<1>7. /\ Up(s) \in Spots /\ Up(s).at = up /\ Up(s).todo = Tail(s.todo) /\ Up(s).links = s.links
  <2>1. Up(s) = [s EXCEPT !.at = up, !.todo = rest]  BY <1>4 DEF rest
  <2>2. /\ Up(s) \in [at : Paths, todo : Paths, links : 0..MaxLinks]
        /\ Up(s).at = up /\ Up(s).todo = rest /\ Up(s).links = s.links
    BY ONLY <2>1, <1>3, <1>6a
  <2> QED BY <2>2, <1>6 DEF rest
<1>8. /\ Into(s) \in Spots /\ Into(s).at = in /\ Into(s).todo = Tail(s.todo)
      /\ Into(s).links = s.links
  <2>1. Into(s) = [s EXCEPT !.at = in, !.todo = rest]  BY <1>5 DEF rest
  <2>2. /\ Into(s) \in [at : Paths, todo : Paths, links : 0..MaxLinks]
        /\ Into(s).at = in /\ Into(s).todo = rest /\ Into(s).links = s.links
    BY ONLY <2>1, <1>3, <1>6a
  <2> QED BY <2>2, <1>6 DEF rest
<1>9. ASSUME NEW to \in Paths, s.links # 0
      PROVE  Along(s, to) \in Spots /\ Nearer(Along(s, to), s)
  <2>1. to \o Tail(s.todo) \in Paths /\ <<>> \in Paths
    BY <1>2, ConcatProperties, EmptySeq DEF Paths
  <2>2. s.links - 1 \in 0..MaxLinks /\ s.links - 1 < s.links  BY <1>1, <1>9 DEF MaxLinks
  <2> DEFINE next == to \o Tail(s.todo)
             less == s.links - 1
  <2> HIDE DEF next, less
  <2>3. Along(s, to) = [at |-> <<>>, todo |-> next, links |-> less]  BY DEF Along, next, less
  <2>4. next \in Paths /\ less \in 0..MaxLinks /\ less < s.links  BY <2>1, <2>2 DEF next, less
  <2>5. Along(s, to) \in Spots  BY <1>6, <2>1, <2>3, <2>4
  <2>6. Along(s, to).links = less  BY <2>3
  <2>7. Along(s, to).links < s.links  BY <2>4, <2>6
  <2>8. Nearer(Along(s, to), s)  BY ONLY <2>7 DEF Nearer
  <2> QED BY <2>5, <2>8
<1>10. Nearer(Up(s), s) /\ Nearer(Into(s), s)  BY <1>2, <1>7, <1>8 DEF Nearer
<1> QED BY <1>2, <1>7, <1>8, <1>9, <1>10 DEF up, in

\* A step looks only at what is nearer the end.
LEMMA Local ==
    ASSUME NEW t \in Disks, NEW s \in Spots, NEW f, NEW g,
           \A r \in Spots : Nearer(r, s) => f[r] = g[r]
    PROVE  Strides(t, f, s) = Strides(t, g, s)
<1> DEFINE node == On(t, Append(s.at, Head(s.todo)))
<1>1. node.to \in Paths  BY EmptySeq DEF On, Disks, Nodes, Vacant, Node, Paths
<1>2. s.links \in 0..4  BY DEF Spots, MaxLinks
<1> HIDE DEF node
<1>3. CASE s.todo = <<>>  BY <1>3 DEF Strides
<1>4. CASE s.todo # <<>>
  <2>1. f[Up(s)] = g[Up(s)] /\ f[Into(s)] = g[Into(s)]  BY <1>4, NextSpots
  <2>2. s.links # 0 => f[Along(s, node.to)] = g[Along(s, node.to)]  BY <1>1, <1>4, NextSpots
  <2> QED BY <2>1, <2>2 DEF Strides, node
<1> QED BY <1>3, <1>4

\* The spots from one on, a walk over these, and that there is only one.
Down(s) == {r \in Spots : r = s \/ Nearer(r, s)}
Solves(t, s, f) == f = [r \in Down(s) |-> Strides(t, f, r)]

\* Nearer is a strict order.
LEMMA NearerIsAnOrder ==
    ASSUME NEW s \in Spots, NEW r \in Spots, NEW q \in Spots
    PROVE  ~Nearer(s, s) /\ (Nearer(q, r) /\ Nearer(r, s) => Nearer(q, s))
<1>1. \A x \in Spots : x.links \in Nat /\ Len(x.todo) \in Nat  BY DEF Spots, MaxLinks
<1> QED BY <1>1 DEF Nearer

\* Two walks agree where both are defined.
LEMMA OneSolution ==
    ASSUME NEW t \in Disks, NEW r \in Spots, NEW q \in Spots, NEW f, NEW g,
           Solves(t, r, f), Solves(t, q, g)
    PROVE  \A s \in Down(r) \cap Down(q) : f[s] = g[s]
<1> DEFINE G == {s \in Spots : s \in Down(r) \cap Down(q) => f[s] = g[s]}
<1>1. ASSUME NEW s \in Spots, \A x \in Spots : Nearer(x, s) => x \in G, s \in Down(r) \cap Down(q)
      PROVE  f[s] = g[s]
  <2>1. \A x \in Spots : Nearer(x, s) => x \in Down(r) \cap Down(q)
    BY <1>1, NearerIsAnOrder DEF Down
  <2>2. \A x \in Spots : Nearer(x, s) => f[x] = g[x]  BY <1>1, <2>1
  <2>3. f[s] = Strides(t, f, s) /\ g[s] = Strides(t, g, s)  BY <1>1 DEF Solves
  <2> QED BY <2>2, <2>3, Local
<1>2. \A s \in Spots : (\A x \in Spots : Nearer(x, s) => x \in G) => s \in G
  BY <1>1
<1>3. G = Spots
  <2>1. G \in SUBSET Spots  OBVIOUS
  <2> HIDE DEF G
  <2> QED BY <1>2, <2>1, SpotInduction
<1> QED BY <1>3 DEF Down

\* The recursion of the walk has a solution: the walk takes its steps.
LEMMA WalkIs ==
    ASSUME NEW t \in Disks
    PROVE  \A s \in Spots : Walk(t)[s] = Strides(t, Walk(t), s)
<1> DEFINE h == [s \in Spots |-> (CHOOSE f : Solves(t, s, f))[s]]
           G == {s \in Spots : \E f : Solves(t, s, f)}
<1>1. ASSUME NEW s \in Spots, NEW f, Solves(t, s, f)
      PROVE  \A r \in Down(s) : r \in G => f[r] = h[r]
  <2>1. SUFFICES ASSUME NEW r \in Down(s), r \in G PROVE f[r] = h[r]  OBVIOUS
  <2>2. Solves(t, r, CHOOSE g : Solves(t, r, g)) /\ r \in Spots  BY <2>1
  <2>3. r \in Down(s) \cap Down(r)  BY <2>1, <2>2 DEF Down
  <2>4. f[r] = (CHOOSE g : Solves(t, r, g))[r]  BY <1>1, <2>2, <2>3, OneSolution
  <2> QED BY <2>2, <2>4
<1>2. ASSUME NEW s \in G PROVE h[s] = Strides(t, h, s)
  <2>1. PICK f : Solves(t, s, f)  BY <1>2
  <2>2. s \in Spots /\ s \in Down(s)  BY <1>2 DEF Down
  <2>3. f[s] = h[s]  BY <1>1, <1>2, <2>1, <2>2
  <2>4. ASSUME NEW x \in Spots, Nearer(x, s) PROVE f[x] = h[x]
    <3>1. x \in Down(s)  BY <2>4 DEF Down
    <3>2. Solves(t, x, [r \in Down(x) |-> f[r]])
      <4> DEFINE g == [r \in Down(x) |-> f[r]]
      <4>1. ASSUME NEW r \in Down(x) PROVE g[r] = Strides(t, g, r)
        <5>1. r \in Spots /\ r \in Down(s)  BY <2>2, <2>4, <4>1, NearerIsAnOrder DEF Down
        <5>2. \A y \in Spots : Nearer(y, r) => y \in Down(x)
          BY <2>4, <4>1, <5>1, NearerIsAnOrder DEF Down
        <5>3. \A y \in Spots : Nearer(y, r) => f[y] = g[y]  BY <5>2
        <5>4. Strides(t, f, r) = Strides(t, g, r)  BY <5>1, <5>3, Local
        <5>5. f[r] = Strides(t, f, r)  BY <2>1, <5>1 DEF Solves
        <5> QED BY <5>4, <5>5
      <4>2. g = [r \in Down(x) |-> g[r]]  OBVIOUS
      <4>3. [r \in Down(x) |-> g[r]] = [r \in Down(x) |-> Strides(t, g, r)]
        <5> HIDE DEF g
        <5> QED BY <4>1
      <4> HIDE DEF g
      <4>4. Solves(t, x, g)  BY <4>2, <4>3 DEF Solves
      <4> QED BY <4>4 DEF g
    <3>3. x \in G  BY <2>4, <3>2
    <3> QED BY <1>1, <2>1, <2>2, <3>1, <3>3
  <2> HIDE DEF h, G
  <2>5. Strides(t, f, s) = Strides(t, h, s)  BY <2>2, <2>4, Local
  <2> QED BY <2>1, <2>2, <2>3, <2>5 DEF Solves
<1>3. ASSUME NEW s \in Spots, \A r \in Spots : Nearer(r, s) => r \in G PROVE s \in G
  <2> DEFINE g == [r \in Down(s) |-> IF r = s THEN Strides(t, h, s) ELSE h[r]]
  <2>1. s \in Down(s)  BY DEF Down
  <2>2. \A r \in Spots : Nearer(r, s) => r \in Down(s) /\ r # s  BY NearerIsAnOrder DEF Down
  <2>3. ASSUME NEW r \in Down(s) PROVE g[r] = Strides(t, g, r)
    <3>1. r \in Spots  BY <2>3 DEF Down
    <3>2. \A y \in Spots : Nearer(y, r) => y \in Down(s) /\ y # s
      BY <2>2, <2>3, <3>1, NearerIsAnOrder DEF Down
    <3>3. \A y \in Spots : Nearer(y, r) => h[y] = g[y]  BY <3>2
    <3>4. Strides(t, h, r) = Strides(t, g, r)
      <4> HIDE DEF h, g, G
      <4> QED BY <3>1, <3>3, Local
    <3>5. CASE r = s  BY <2>1, <3>4, <3>5
    <3>6. CASE r # s
      <4>1. r \in G  BY <1>3, <2>3, <3>1, <3>6 DEF Down
      <4>2. h[r] = Strides(t, h, r)  BY <1>2, <4>1
      <4>3. g[r] = h[r]  BY <2>3, <3>6
      <4> QED BY <3>4, <4>2, <4>3
    <3> QED BY <3>5, <3>6
  <2>4. g = [r \in Down(s) |-> g[r]]  OBVIOUS
  <2> HIDE DEF g
  <2>5. Solves(t, s, g)  BY <2>3, <2>4 DEF Solves
  <2> QED BY <2>5
<1>4. G = Spots
  <2>1. G \in SUBSET Spots  OBVIOUS
  <2>2. \A s \in Spots : (\A r \in Spots : Nearer(r, s) => r \in G) => s \in G  BY <1>3
  <2> HIDE DEF G
  <2> QED BY <2>1, <2>2, SpotInduction
<1>5. h = [s \in Spots |-> h[s]]  OBVIOUS
<1>6. \A s \in Spots : h[s] = Strides(t, h, s)  BY <1>2, <1>4
<1> HIDE DEF h, G
<1>7. h = [s \in Spots |-> Strides(t, h, s)]  BY <1>5, <1>6
<1>8. Walk(t) = [s \in Spots |-> Strides(t, Walk(t), s)]  BY <1>7 DEF Walk
<1> QED BY <1>8

-----------------------------------------------------------------------------
(* Containment: paths, and where walks end on a disk.                      *)

\* Paths one after the other.
LEMMA Joined ==
    ASSUME NEW x \in Paths, NEW y \in Paths
    PROVE  /\ x \o y \in Paths /\ x \o <<>> = x /\ <<>> \o x = x
           /\ \A z \in Paths : (x \o y) \o z = x \o (y \o z)
           /\ \A e \in STRING : Append(x, e) \in Paths /\ Append(x, e) # <<>> /\ Append(x, e) = x \o <<e>>
           /\ Len(x) \in Nat /\ Len(x \o y) = Len(x) + Len(y)
           /\ (x # <<>> => Len(x) > 0) /\ <<>> \in Paths /\ \A e \in STRING : <<e>> \in Paths
<1>1. x \o y \in Paths /\ Len(x) \in Nat /\ Len(x \o y) = Len(x) + Len(y)
  BY ConcatProperties, LenProperties DEF Paths
<1>2. x \o <<>> = x /\ <<>> \o x = x  BY ConcatEmptySeq DEF Paths
<1>3. \A z \in Paths : (x \o y) \o z = x \o (y \o z)  BY ConcatAssociative DEF Paths
<1>4. \A e \in STRING : Append(x, e) \in Paths /\ Append(x, e) # <<>> /\ Append(x, e) = x \o <<e>>
  BY AppendProperties, AppendIsConcat DEF Paths
<1>5. <<>> \in Paths /\ (x # <<>> => Len(x) > 0)
  <2>1. x # <<>> => Len(x) \in Nat \ {0}  BY EmptySeq DEF Paths
  <2> QED BY <2>1, EmptySeq DEF Paths
<1>6. \A e \in STRING : <<e>> \in Paths
  <2>1. \A e \in STRING : Append(<<>>, e) \in Paths  BY <1>5, AppendProperties DEF Paths
  <2>2. \A e \in STRING : Append(<<>>, e) = <<e>>  OBVIOUS
  <2> QED BY <2>1, <2>2
<1> QED BY <1>1, <1>2, <1>3, <1>4, <1>5, <1>6

Regroup(x, y, z) == (x \o y) \o z = x \o (y \o z)

\* Where three paths are joined does not matter.
LEMMA Assoc == \A x, y, z \in Paths : Regroup(x, y, z)
  BY ConcatAssociative DEF Paths, Regroup

\* Paths with a name after them are equal only part by part.
LEMMA AppendApart ==
    ASSUME NEW x \in Paths, NEW y \in Paths, NEW d \in STRING, NEW e \in STRING,
           Append(x, d) = Append(y, e)
    PROVE  x = y /\ d = e
<1> DEFINE p == Append(x, d)
           q == Append(y, e)
<1>1. Len(p) = Len(x) + 1 /\ (\A i \in 1..Len(x) : p[i] = x[i]) /\ p[Len(x) + 1] = d
  BY Appended
<1>2. Len(q) = Len(y) + 1 /\ (\A i \in 1..Len(y) : q[i] = y[i]) /\ q[Len(y) + 1] = e
  BY Appended
<1>3. p = q  OBVIOUS
<1>4. Len(x) \in Nat /\ Len(y) \in Nat  BY LenProperties DEF Paths
<1> HIDE DEF p, q
<1>5. Len(x) = Len(y)  BY <1>1, <1>2, <1>3, <1>4
<1>6. \A i \in 1..Len(x) : x[i] = y[i]  BY <1>1, <1>2, <1>3, <1>5
<1>7. d = e  BY <1>1, <1>2, <1>3, <1>5
<1> QED BY <1>5, <1>6, <1>7, SeqEqual DEF Paths

\* What is added to a path and changes nothing is empty.
LEMMA ConcatApart ==
    ASSUME NEW x \in Paths, NEW y \in Paths
    PROVE  (x \o y = <<>> => x = <<>> /\ y = <<>>) /\ (x \o y = x => y = <<>>)
  BY ConcatEqualIffEmpty DEF Paths

\* A name after two paths is one after the second.
LEMMA AppendOf ==
    ASSUME NEW x \in Paths, NEW y \in Paths, NEW e \in STRING
    PROVE  x \o Append(y, e) = Append(x \o y, e)
<1> DEFINE z == <<e>>
<1>1. z \in Paths /\ Append(y, e) = y \o z /\ x \o y \in Paths  BY Joined
<1>2. Append(x \o y, e) = (x \o y) \o z  BY <1>1, Joined
<1> HIDE DEF z
<1>3. Regroup(x, y, z)  BY <1>1, Assoc
<1> QED BY <1>1, <1>2, <1>3 DEF Regroup

\* The first name can move from one path to the one before.
LEMMA HeadFirst ==
    ASSUME NEW x \in Paths, NEW y \in Paths, y # <<>>
    PROVE  /\ y = <<Head(y)>> \o Tail(y) /\ <<Head(y)>> \in Paths
           /\ Append(x, Head(y)) \in Paths /\ Tail(y) \in Paths /\ Head(y) \in STRING
           /\ Append(x, Head(y)) \o Tail(y) = x \o y
<1>1. Head(y) \in STRING /\ Tail(y) \in Paths  BY HeadTail
<1>2. Len(y) \in Nat \ {0}  BY EmptySeq DEF Paths
<1>3. y = <<y[1]>> \o SubSeq(y, 2, Len(y))
  <2>1. SubSeq(y, 1, Len(y)) = <<y[1]>> \o SubSeq(y, 1 + 1, Len(y))
    BY <1>2, SubSeqRecursiveFirst, 1 \in 1..Len(y), Len(y) \in 1..Len(y) DEF Paths
  <2>2. SubSeq(y, 1, Len(y)) = y  BY SubSeqFull DEF Paths
  <2> QED BY <2>1, <2>2
<1>4. Tail(y) = SubSeq(y, 2, Len(y)) /\ Head(y) = y[1]  BY TailIsSubSeq DEF Paths
<1>5. y = <<Head(y)>> \o Tail(y)  BY <1>3, <1>4
<1>6. <<Head(y)>> \in Paths  BY <1>1 DEF Paths
<1>7. Append(x, Head(y)) = x \o <<Head(y)>>  BY <1>1, Joined
<1>8. (x \o <<Head(y)>>) \o Tail(y) = x \o (<<Head(y)>> \o Tail(y))
  <2>1. PICK h \in Paths : h = <<Head(y)>>  BY <1>6
  <2>2. Regroup(x, h, Tail(y))  BY <1>1, Assoc
  <2> QED BY <2>1, <2>2 DEF Regroup
<1>9. Append(x, Head(y)) \in Paths  BY <1>1, Joined
<1>10. Append(x, Head(y)) \o Tail(y) = x \o y  BY <1>5, <1>7, <1>8, Zenon
<1> QED BY <1>1, <1>5, <1>6, <1>9, <1>10, Zenon

\* The name that was added last is the last.
LEMMA FrontOfAppend ==
    ASSUME NEW x \in Paths, NEW e \in STRING
    PROVE  Front(Append(x, e)) = x /\ Last(Append(x, e)) = e
<1>1. Append(x, e) \in Paths /\ Append(x, e) # <<>>  BY Joined
<1>2. PICK p : p = Append(x, e)  OBVIOUS
<1>3. p \in Paths /\ p # <<>>  BY <1>1, <1>2
<1>4. PICK a \in Paths, d \in STRING : p = Append(a, d) /\ a = Front(p) /\ d = Last(p)
  BY <1>3, FrontIs
<1>5. Append(a, d) = Append(x, e) /\ a \in Paths /\ d \in STRING  BY <1>2, <1>4
<1>6. Append(a, d) = Append(x, e) => a = x /\ d = e  BY AppendApart
<1>7. a = x /\ d = e  BY <1>5, <1>6, Zenon
<1> QED BY <1>2, <1>4, <1>7

\* All above a place is a place, and what is there has directories above.
LEMMA Chain ==
    ASSUME NEW t \in Disks, NEW q \in Paths, NEW r \in Paths, q \o r \in Places
    PROVE  /\ q \in Places
           /\ r # <<>> /\ t[q \o r].kind # "none" => t[q].kind = "dir"
<1> DEFINE Bad(m, x) == /\ x # <<>> /\ m \o x \in Places
                        /\ \/ m \notin Places
                           \/ t[m \o x].kind # "none" /\ t[m].kind # "dir"
           bad == {x \in Paths : \E m \in Paths : Bad(m, x)}
           lens == {Len(x) : x \in bad}
<1>1. SUFFICES ASSUME bad # {} PROVE FALSE
  <2>1. r = <<>> => q \in Places  BY Joined
  <2> QED BY <2>1
<1>2. lens # {} /\ \A n \in lens : n \in Nat
  <2>1. PICK x \in bad : TRUE  BY <1>1
  <2>2. \A y \in bad : Len(y) \in Nat  BY Joined
  <2> HIDE DEF bad
  <2> QED BY <2>1, <2>2
<1>3. PICK n \in lens : \A j \in lens : n <= j
  <2> HIDE DEF lens
  <2>1. lens \in SUBSET Nat  BY <1>2
  <2> QED BY <1>2, <2>1, Least
<1>4. PICK x \in Paths, m \in Paths : Len(x) = n /\ Bad(m, x)  BY <1>3
<1>5. PICK y \in Paths, e \in STRING : x = Append(y, e)
  BY <1>4, SequenceEmptyOrAppend DEF Paths
<1>6. m \o x = Append(m \o y, e)  BY <1>4, <1>5, AppendOf, Zenon
<1>6a. m \o y \in Paths  BY <1>4, <1>5, Joined, Zenon
<1>7. Front(m \o x) = m \o y /\ m \o x # <<>>
  <2>1. Front(Append(m \o y, e)) = m \o y  BY <1>5, <1>6a, FrontOfAppend, Zenon
  <2>2. Append(m \o y, e) # <<>>  BY <1>5, <1>6a, Joined, Zenon
  <2> QED BY <1>6, <2>1, <2>2, Zenon
<1>8. m \o y \in Places /\ (t[m \o x].kind # "none" => t[m \o y].kind = "dir")
  BY <1>4, <1>7, ContainmentAssumption DEF Disks
<1>9. CASE y = <<>>  BY <1>4, <1>8, <1>9, Joined
<1>10. CASE y # <<>>
  <2>1. Bad(m, y)  BY <1>4, <1>8, <1>10
  <2>2. Len(y) \in lens /\ Len(y) < n
    <3>1. Len(y) + 1 = Len(x) /\ Len(y) \in Nat  BY <1>5, AppendProperties, Joined DEF Paths
    <3>2. y \in bad  BY <2>1
    <3> HIDE DEF bad
    <3> QED BY <1>4, <3>1, <3>2
  <2>3. n <= Len(y)  BY <1>3, <2>2
  <2>4. n \in Nat /\ Len(y) \in Nat  BY <1>2, <1>3, Joined
  <2> QED BY <2>2, <2>3, <2>4
<1> QED BY <1>9, <1>10

\* A spot is its three parts.
At(a, x, l) == [at |-> a, todo |-> x, links |-> l]

\* A spot and the start of a walk, by their parts.
LEMMA SpotParts ==
    /\ \A s \in Spots : s.at \in Paths /\ s.todo \in Paths /\ s.links \in 0..4 /\ s = At(s.at, s.todo, s.links)
    /\ \A a \in Paths, x \in Paths, l \in 0..4 :
           At(a, x, l) \in Spots /\ At(a, x, l).at = a /\ At(a, x, l).todo = x /\ At(a, x, l).links = l
    /\ \A a, x, l : Start(x) = At(<<>>, x, MaxLinks)
  BY DEF Spots, At, Start, MaxLinks, Paths

\* The end of a walk, by its parts.
LEMMA EndsIs == \A a, f : Ends(a, f).at = a /\ Ends(a, f).fails = f
  BY DEF Ends

\* A walk with no names left has arrived.
LEMMA Arrived ==
    ASSUME NEW t \in Disks, NEW s \in Spots, s.todo = <<>>
    PROVE  Walk(t)[s] = Ends(s.at, "nothing") /\ Walk(t)[s].at = s.at /\ Walk(t)[s].fails = "nothing"
<1>1. Walk(t)[s] = Ends(s.at, "nothing")  BY WalkIs DEF Strides
<1>2. Walk(t)[s].at = s.at  BY <1>1 DEF Ends
<1>3. Walk(t)[s].fails = "nothing"  BY <1>1 DEF Ends
<1> QED BY <1>1, <1>2, <1>3, Zenon

\* The place a spot looks at.
Next1(s) == Append(s.at, Head(s.todo))

\* What a step can find.
LEMMA Looked ==
    ASSUME NEW t \in Disks, NEW s
    PROVE  /\ On(t, Next1(s)).kind \in Kinds /\ On(t, Next1(s)).to \in Paths
           /\ On(t, Next1(s)).kind # "none" => Next1(s) \in Places /\ On(t, Next1(s)) = t[Next1(s)]
<1>1. On(t, Next1(s)).kind \in Kinds /\ On(t, Next1(s)).to \in Paths
  BY EmptySeq DEF On, Disks, Nodes, Vacant, Node, Kinds, Paths
<1>2. On(t, Next1(s)).kind # "none" => Next1(s) \in Places /\ On(t, Next1(s)) = t[Next1(s)]
  BY DEF On, Vacant, Node
<1> QED BY <1>1, <1>2

\* The step of a walk whose next name leads up.
LEMMA StepUp ==
    ASSUME NEW t \in Disks, NEW s \in Spots, s.todo # <<>>, Head(s.todo) = ".."
    PROVE  Walk(t)[s] = Walk(t)[Up(s)]
  BY WalkIs DEF Strides

\* The step of a walk to a place where nothing is.
LEMMA StepNone ==
    ASSUME NEW t \in Disks, NEW s \in Spots, s.todo # <<>>, Head(s.todo) # "..",
           On(t, Next1(s)).kind = "none"
    PROVE  Walk(t)[s] = Ends(s.at, "missing")
  BY WalkIs DEF Strides, Next1

\* The step of a walk to a link.
LEMMA StepLink ==
    ASSUME NEW t \in Disks, NEW s \in Spots, s.todo # <<>>, Head(s.todo) # "..",
           On(t, Next1(s)).kind = "link"
    PROVE  Walk(t)[s] = IF s.links = 0 THEN Ends(s.at, "other")
                        ELSE Walk(t)[Along(s, On(t, Next1(s)).to)]
  BY WalkIs DEF Strides, Next1

\* The step of a walk to a file.
LEMMA StepFile ==
    ASSUME NEW t \in Disks, NEW s \in Spots, s.todo # <<>>, Head(s.todo) # "..",
           On(t, Next1(s)).kind = "file"
    PROVE  Walk(t)[s] = IF Len(s.todo) > 1 THEN Ends(s.at, "other") ELSE Walk(t)[Into(s)]
  BY WalkIs DEF Strides, Next1

\* The step of a walk to a directory.
LEMMA StepDir ==
    ASSUME NEW t \in Disks, NEW s \in Spots, s.todo # <<>>, Head(s.todo) # "..",
           On(t, Next1(s)).kind = "dir"
    PROVE  Walk(t)[s] = Walk(t)[Into(s)]
  BY WalkIs DEF Strides, Next1

\* The parts of what the next step leads to.
LEMMA NextPaths ==
    ASSUME NEW s \in Spots, s.todo # <<>>
    PROVE  /\ s.at \in Paths /\ s.todo \in Paths /\ Next1(s) \in Paths /\ Next1(s) # <<>>
           /\ Tail(s.todo) \in Paths /\ Head(s.todo) \in STRING
           /\ Front(Next1(s)) = s.at /\ Last(Next1(s)) = Head(s.todo)
           /\ Next1(s) \o Tail(s.todo) = s.at \o s.todo
           /\ Into(s) \in Spots /\ Nearer(Into(s), s)
           /\ Into(s).at = Next1(s) /\ Into(s).todo = Tail(s.todo) /\ Into(s).links = s.links
           /\ (Len(s.todo) > 1 <=> Tail(s.todo) # <<>>)
<1>1. s.at \in Paths /\ s.todo \in Paths  BY SpotParts
<1>2. Tail(s.todo) \in Paths /\ Head(s.todo) \in STRING  BY <1>1, HeadTail
<1>3. Append(s.at, Head(s.todo)) \o Tail(s.todo) = s.at \o s.todo  BY <1>1, HeadFirst
<1>4. Next1(s) \in Paths /\ Next1(s) # <<>>  BY <1>1, <1>2, Joined DEF Next1
<1>5. Front(Next1(s)) = s.at /\ Last(Next1(s)) = Head(s.todo)
  BY <1>1, <1>2, FrontOfAppend DEF Next1
<1>6. /\ Into(s) \in Spots /\ Nearer(Into(s), s)
      /\ Into(s).at = Next1(s) /\ Into(s).todo = Tail(s.todo) /\ Into(s).links = s.links
  BY NextSpots DEF Next1
<1>7. (Len(s.todo) > 1 <=> Tail(s.todo) # <<>>)
  <2>1. Len(Tail(s.todo)) = Len(s.todo) - 1 /\ Len(s.todo) \in Nat \ {0}  BY NextSpots
  <2>2. Tail(s.todo) # <<>> => Len(Tail(s.todo)) > 0  BY <1>2, Joined
  <2>3. Len(<<>>) = 0  BY EmptySeq
  <2>4. Tail(s.todo) = <<>> => Len(Tail(s.todo)) = 0  BY <2>3, Zenon
  <2>5. ASSUME Tail(s.todo) # <<>> PROVE Len(s.todo) > 1
    <3>1. Len(Tail(s.todo)) > 0  BY <2>2, <2>5
    <3> QED BY <2>1, <3>1
  <2>6. ASSUME Tail(s.todo) = <<>> PROVE ~(Len(s.todo) > 1)
    <3>1. Len(Tail(s.todo)) = 0  BY <2>4, <2>6
    <3>2. PICK m, n : m = Len(Tail(s.todo)) /\ n = Len(s.todo)  OBVIOUS
    <3>3. m = 0 /\ m = n - 1 /\ n \in Nat  BY <2>1, <3>1, <3>2
    <3>4. n = 1  BY <3>3
    <3> QED BY <3>2, <3>4
  <2> QED BY <2>5, <2>6
<1> QED BY <1>1, <1>2, <1>3, <1>4, <1>5, <1>6, <1>7 DEF Next1

\* The real path of what is there leads to itself.
LEMMA RealIsItself ==
    ASSUME NEW t \in Disks
    PROVE  \A s \in Spots : s.at \o s.todo \in Places /\ t[s.at \o s.todo].kind \in {"dir", "file"} =>
               Walk(t)[s] = Ends(s.at \o s.todo, "nothing")
<1> DEFINE Leads(s) == s.at \o s.todo \in Places /\ t[s.at \o s.todo].kind \in {"dir", "file"} =>
                           Walk(t)[s] = Ends(s.at \o s.todo, "nothing")
           G == {s \in Spots : Leads(s)}
<1>1. ASSUME NEW s \in Spots, \A r \in Spots : Nearer(r, s) => r \in G,
             s.at \o s.todo \in Places, t[s.at \o s.todo].kind \in {"dir", "file"}
      PROVE  Walk(t)[s] = Ends(s.at \o s.todo, "nothing")
  <2>1. s.at \in Paths /\ s.todo \in Paths  BY SpotParts
  <2>2. CASE s.todo = <<>>
    <3>1. s.at \o s.todo = s.at  BY <2>1, <2>2, Joined
    <3> QED BY <2>2, <3>1, Arrived
  <2>3. CASE s.todo # <<>>
    <3>1. /\ Next1(s) \o Tail(s.todo) = s.at \o s.todo /\ Next1(s) \in Paths
          /\ Tail(s.todo) \in Paths /\ Next1(s) # <<>> /\ Last(Next1(s)) = Head(s.todo)
      BY <2>3, NextPaths
    <3>2. Next1(s) \in Places
      BY <1>1, <3>1, Chain
    <3>3. Head(s.todo) # ".."  BY <3>1, <3>2, ContainmentAssumption
    <3>4. Into(s) \in G /\ Into(s).at = Next1(s) /\ Into(s).todo = Tail(s.todo)
      BY <1>1, <2>3, NextPaths
    <3>5. Walk(t)[Into(s)] = Ends(s.at \o s.todo, "nothing")
      <4>1. Leads(Into(s))  BY <3>4
      <4> QED BY <1>1, <3>1, <3>4, <4>1
    <3>6. On(t, Next1(s)) = t[Next1(s)]  BY <3>2 DEF On
    <3>7. CASE Tail(s.todo) = <<>>
      <4>1. Next1(s) = s.at \o s.todo  BY <3>1, <3>7, Joined
      <4>2. ~(Len(s.todo) > 1)  BY <2>3, <3>7, NextPaths
      <4>3. CASE t[Next1(s)].kind = "dir"  BY <2>3, <3>3, <3>5, <3>6, <4>3, StepDir
      <4>4. CASE t[Next1(s)].kind = "file"  BY <2>3, <3>3, <3>5, <3>6, <4>2, <4>4, StepFile
      <4> QED BY <1>1, <4>1, <4>3, <4>4
    <3>8. CASE Tail(s.todo) # <<>>
      <4>1. t[Next1(s) \o Tail(s.todo)].kind # "none" /\ Next1(s) \o Tail(s.todo) \in Places
        BY <1>1, <3>1
      <4>2. t[Next1(s)].kind = "dir"  BY <3>1, <3>8, <4>1, Chain
      <4> QED BY <2>3, <3>3, <3>5, <3>6, <4>2, StepDir
    <3> QED BY <3>7, <3>8
  <2> QED BY <2>2, <2>3
<1>2. \A s \in Spots : (\A r \in Spots : Nearer(r, s) => r \in G) => s \in G  BY <1>1
<1>3. G \in SUBSET Spots  OBVIOUS
<1> HIDE DEF G
<1>4. G = Spots  BY <1>2, <1>3, SpotInduction
<1> QED BY <1>4 DEF G

\* Without a link on it, a path that leads anywhere leads to itself.
Plain(t, at, todo) ==
    \A q \in Paths, r \in Paths :
        todo = q \o r /\ q # <<>> => Last(q) # ".." /\ On(t, at \o q).kind # "link"

\* A plain path stays plain after its first name.
LEMMA PlainGoesOn ==
    ASSUME NEW t \in Disks, NEW at \in Paths, NEW todo \in Paths, todo # <<>>, Plain(t, at, todo)
    PROVE  /\ Head(todo) # ".." /\ On(t, Append(at, Head(todo))).kind # "link"
           /\ Plain(t, Append(at, Head(todo)), Tail(todo))
<1>1. PICK h : h = <<Head(todo)>>  OBVIOUS
<1>2. todo = h \o Tail(todo) /\ h \in Paths /\ Tail(todo) \in Paths /\ Head(todo) \in STRING
  BY <1>1, HeadFirst
<1>3. h = Append(<<>>, Head(todo)) /\ Append(at, Head(todo)) = at \o h /\ h # <<>>
  BY <1>1, <1>2, Joined
<1>4. Last(h) = Head(todo)
  <2>1. <<>> \in Paths  BY Joined
  <2> QED BY <1>2, <1>3, <2>1, FrontOfAppend
<1>5. Last(h) # ".." /\ On(t, at \o h).kind # "link"  BY <1>2, <1>3 DEF Plain
<1>6. ASSUME NEW q \in Paths, NEW r \in Paths, Tail(todo) = q \o r, q # <<>>
      PROVE  Last(q) # ".." /\ On(t, (at \o h) \o q).kind # "link"
  <2>1. todo = (h \o q) \o r /\ h \o q \in Paths /\ h \o q # <<>>
    <3>g1. Regroup(h, q, r)  BY <1>2, Assoc
    <3>1. h \o (q \o r) = (h \o q) \o r  BY <3>g1 DEF Regroup
    <3>2. todo = (h \o q) \o r  BY <1>2, <1>6, <3>1, Zenon
    <3>3. h \o q \in Paths  BY <1>2, Joined
    <3>4. h \o q # <<>>  BY <1>2, <1>6, ConcatApart
    <3> QED BY <3>2, <3>3, <3>4, Zenon
  <2>2. Last(h \o q) # ".." /\ On(t, at \o (h \o q)).kind # "link"  BY <2>1 DEF Plain
  <2>g3. Regroup(at, h, q)  BY <1>2, Assoc
  <2>3. at \o (h \o q) = (at \o h) \o q  BY <2>g3 DEF Regroup
  <2>4. Last(h \o q) = Last(q)
    <3>1. PICK a \in Paths, e \in STRING : q = Append(a, e)
      BY <1>6, SequenceEmptyOrAppend DEF Paths
    <3>2. h \o q = Append(h \o a, e)  BY <1>2, <3>1, AppendOf
    <3>3. h \o a \in Paths  BY <1>2, <3>1, Joined
    <3>4. Last(Append(h \o a, e)) = e /\ Last(Append(a, e)) = e  BY <3>1, <3>3, FrontOfAppend
    <3> QED BY <3>1, <3>2, <3>4, Zenon
  <2> QED BY <2>2, <2>3, <2>4
<1> QED BY <1>3, <1>4, <1>5, <1>6 DEF Plain

\* The real path of a plain path that leads somewhere is the path.
LEMMA PlainIsReal ==
    ASSUME NEW t \in Disks
    PROVE  \A s \in Spots : Plain(t, s.at, s.todo) /\ Walk(t)[s].fails = "nothing" =>
               Walk(t)[s].at = s.at \o s.todo
<1> DEFINE Leads(s) == Plain(t, s.at, s.todo) /\ Walk(t)[s].fails = "nothing" =>
                           Walk(t)[s].at = s.at \o s.todo
           G == {s \in Spots : Leads(s)}
<1>1. ASSUME NEW s \in Spots, \A r \in Spots : Nearer(r, s) => r \in G,
             Plain(t, s.at, s.todo), Walk(t)[s].fails = "nothing"
      PROVE  Walk(t)[s].at = s.at \o s.todo
  <2>1. s.at \in Paths /\ s.todo \in Paths  BY SpotParts
  <2>2. CASE s.todo = <<>>
    <3>1. s.at \o s.todo = s.at  BY <2>1, <2>2, Joined
    <3> QED BY <2>2, <3>1, Arrived
  <2>3. CASE s.todo # <<>>
    <3>1. Head(s.todo) # ".." /\ On(t, Next1(s)).kind # "link" /\ Plain(t, Next1(s), Tail(s.todo))
      BY <1>1, <2>1, <2>3, PlainGoesOn DEF Next1
    <3>2. Into(s) \in G /\ Into(s).at = Next1(s) /\ Into(s).todo = Tail(s.todo)
      BY <1>1, <2>3, NextPaths
    <3>3. On(t, Next1(s)).kind \in Kinds  BY Looked
    <3>4. On(t, Next1(s)).kind # "none"
      <4>1. SUFFICES ASSUME On(t, Next1(s)).kind = "none" PROVE FALSE  OBVIOUS
      <4>2. Walk(t)[s] = Ends(s.at, "missing")  BY <2>3, <3>1, <4>1, StepNone
      <4> QED BY <1>1, <4>2, EndsIs
    <3>5. Walk(t)[s] = Walk(t)[Into(s)]
      <4>1. CASE On(t, Next1(s)).kind = "dir"  BY <2>3, <3>1, <4>1, StepDir
      <4>2. CASE On(t, Next1(s)).kind = "file"
        <5>1. Walk(t)[s] = IF Len(s.todo) > 1 THEN Ends(s.at, "other") ELSE Walk(t)[Into(s)]
          BY <2>3, <3>1, <4>2, StepFile
        <5> QED BY <1>1, <5>1, EndsIs
      <4> QED BY <3>1, <3>3, <3>4, <4>1, <4>2 DEF Kinds
    <3>6. Leads(Into(s))  BY <3>2
    <3>7. Walk(t)[s].at = Next1(s) \o Tail(s.todo)  BY <1>1, <3>1, <3>2, <3>5, <3>6
    <3> QED BY <2>3, <3>7, NextPaths
  <2> QED BY <2>2, <2>3
<1>2. \A s \in Spots : (\A r \in Spots : Nearer(r, s) => r \in G) => s \in G  BY <1>1
<1>3. G \in SUBSET Spots  OBVIOUS
<1> HIDE DEF G
<1>4. G = Spots  BY <1>2, <1>3, SpotInduction
<1> QED BY <1>4 DEF G

\* A walk ends at a directory, or at a file after its last name.
Stands(t, p, todo) == p \in Places /\ (t[p].kind = "dir" \/ (t[p].kind = "file" /\ todo = <<>>))

\* A walk that leads somewhere ends at a directory or a file.
LEMMA EndIsReal ==
    ASSUME NEW t \in Disks
    PROVE  \A s \in Spots : Stands(t, s.at, s.todo) /\ Walk(t)[s].fails = "nothing" =>
               Stands(t, Walk(t)[s].at, <<>>)
<1> DEFINE G == {s \in Spots : Stands(t, s.at, s.todo) /\ Walk(t)[s].fails = "nothing" =>
                                   Stands(t, Walk(t)[s].at, <<>>)}
<1>1. ASSUME NEW s \in Spots, \A r \in Spots : Nearer(r, s) => r \in G,
             Stands(t, s.at, s.todo), Walk(t)[s].fails = "nothing"
      PROVE  Stands(t, Walk(t)[s].at, <<>>)
  <2>1. s.at \in Paths /\ s.todo \in Paths  BY SpotParts
  <2>2. CASE s.todo = <<>>
    <3>1. Walk(t)[s].at = s.at  BY <2>2, Arrived
    <3> QED BY <1>1, <2>2, <3>1 DEF Stands
  <2>3. CASE s.todo # <<>>
    <3>1. On(t, Next1(s)).kind \in Kinds /\ On(t, Next1(s)).to \in Paths  BY Looked
    <3>2. t[s.at].kind = "dir" /\ s.at \in Places  BY <1>1, <2>3 DEF Stands
    <3>3. CASE Head(s.todo) = ".."
      <4>1. Walk(t)[s] = Walk(t)[Up(s)]  BY <2>3, <3>3, StepUp
      <4>2. Up(s) \in G  BY <1>1, <2>3, NextSpots
      <4>3. Stands(t, Up(s).at, Up(s).todo)
        <5>1. CASE s.at = <<>>  BY <2>3, <3>2, <5>1, NextSpots DEF Stands
        <5>2. CASE s.at # <<>>
          <6>1. Up(s).at = Front(s.at)  BY <2>3, <5>2, NextSpots
          <6>2. Front(s.at) \in Places /\ t[Front(s.at)].kind = "dir"
            BY <3>2, <5>2, ContainmentAssumption DEF Disks
          <6> QED BY <6>1, <6>2 DEF Stands
        <5> QED BY <5>1, <5>2
      <4> QED BY <1>1, <4>1, <4>2, <4>3
    <3>4. CASE Head(s.todo) # ".." /\ On(t, Next1(s)).kind = "link"
      <4>1. s.links # 0 /\ Walk(t)[s] = Walk(t)[Along(s, On(t, Next1(s)).to)] /\ On(t, Next1(s)).to \in Paths
        <5>1. Walk(t)[s] = IF s.links = 0 THEN Ends(s.at, "other")
                           ELSE Walk(t)[Along(s, On(t, Next1(s)).to)]
          BY <2>3, <3>4, StepLink
        <5> QED BY <1>1, <3>1, <5>1, EndsIs
      <4>2. Along(s, On(t, Next1(s)).to) \in G  BY <1>1, <2>3, <4>1, NextSpots
      <4>3. Along(s, On(t, Next1(s)).to).at = <<>>  BY DEF Along
      <4>4. Stands(t, <<>>, Along(s, On(t, Next1(s)).to).todo)  BY ContainmentAssumption DEF Stands, Disks
      <4> QED BY <1>1, <4>1, <4>2, <4>3, <4>4
    <3>5. CASE Head(s.todo) # ".." /\ On(t, Next1(s)).kind # "link"
      <4>1. /\ Walk(t)[s] = Walk(t)[Into(s)] /\ Next1(s) \in Places
            /\ (t[Next1(s)].kind = "dir" \/ (t[Next1(s)].kind = "file" /\ ~(Len(s.todo) > 1)))
        <5>1. On(t, Next1(s)).kind # "none"
          <6>1. SUFFICES ASSUME On(t, Next1(s)).kind = "none" PROVE FALSE  OBVIOUS
          <6>2. Walk(t)[s] = Ends(s.at, "missing")  BY <2>3, <3>5, <6>1, StepNone
          <6> QED BY <1>1, <6>2, EndsIs
        <5>2. Next1(s) \in Places /\ On(t, Next1(s)) = t[Next1(s)]  BY <5>1, Looked
        <5>3. CASE On(t, Next1(s)).kind = "dir"  BY <2>3, <3>5, <5>2, <5>3, StepDir
        <5>4. CASE On(t, Next1(s)).kind = "file"
          <6>1. Walk(t)[s] = IF Len(s.todo) > 1 THEN Ends(s.at, "other") ELSE Walk(t)[Into(s)]
            BY <2>3, <3>5, <5>4, StepFile
          <6>2. ~(Len(s.todo) > 1)  BY <1>1, <6>1, EndsIs
          <6> QED BY <5>2, <5>4, <6>1, <6>2
        <5> QED BY <3>1, <3>5, <5>1, <5>3, <5>4 DEF Kinds
      <4>2. Into(s) \in G /\ Into(s).at = Next1(s) /\ Into(s).todo = Tail(s.todo)
        BY <1>1, <2>3, NextPaths
      <4>3. ~(Len(s.todo) > 1) => Tail(s.todo) = <<>>  BY <2>3, NextPaths
      <4>4. Stands(t, Into(s).at, Into(s).todo)  BY <4>1, <4>2, <4>3 DEF Stands
      <4> QED BY <1>1, <4>1, <4>2, <4>4
    <3> QED BY <3>3, <3>4, <3>5
  <2> QED BY <2>2, <2>3
<1>2. \A s \in Spots : (\A r \in Spots : Nearer(r, s) => r \in G) => s \in G  BY <1>1
<1>3. G \in SUBSET Spots  OBVIOUS
<1> HIDE DEF G
<1>4. G = Spots  BY <1>2, <1>3, SpotInduction
<1> QED BY <1>4 DEF G

\* What only grows leaves a walk that led somewhere alone.
Grown(t, u) == \A p \in Places : t[p].kind # "none" => u[p] = t[p]

\* What led somewhere leads there still when more is there.
LEMMA GrownOn ==
    ASSUME NEW t \in Disks, NEW u \in Disks, Grown(t, u)
    PROVE  \A s \in Spots : Walk(t)[s].fails = "nothing" => Walk(u)[s] = Walk(t)[s]
<1> DEFINE G == {s \in Spots : Walk(t)[s].fails = "nothing" => Walk(u)[s] = Walk(t)[s]}
<1>1. ASSUME NEW s \in Spots, \A r \in Spots : Nearer(r, s) => r \in G,
             Walk(t)[s].fails = "nothing"
      PROVE  Walk(u)[s] = Walk(t)[s]
  <2>1. CASE s.todo = <<>>
    <3>1. Walk(t)[s] = Ends(s.at, "nothing")  BY <2>1, Arrived
    <3>2. Walk(u)[s] = Ends(s.at, "nothing")  BY <2>1, Arrived
    <3> QED BY <3>1, <3>2
  <2>2. CASE s.todo # <<>> /\ Head(s.todo) = ".."
    <3>1. Walk(t)[s] = Walk(t)[Up(s)]  BY <2>2, StepUp
    <3>2. Walk(u)[s] = Walk(u)[Up(s)]  BY <2>2, StepUp
    <3>3. Up(s) \in G  BY <1>1, <2>2, NextSpots
    <3> QED BY <1>1, <3>1, <3>2, <3>3
  <2>3. CASE s.todo # <<>> /\ Head(s.todo) # ".."
    <3>1. On(t, Next1(s)).kind \in Kinds /\ On(t, Next1(s)).to \in Paths  BY Looked
    <3>2. On(t, Next1(s)).kind # "none"
      <4>1. SUFFICES ASSUME On(t, Next1(s)).kind = "none" PROVE FALSE  OBVIOUS
      <4>2. Walk(t)[s] = Ends(s.at, "missing")  BY <2>3, <4>1, StepNone
      <4> QED BY <1>1, <4>2, EndsIs
    <3>3. On(u, Next1(s)) = On(t, Next1(s))
      <4>1. Next1(s) \in Places /\ On(t, Next1(s)) = t[Next1(s)]  BY <3>2, Looked
      <4> QED BY <3>2, <4>1 DEF Grown, On
    <3>4. CASE On(t, Next1(s)).kind = "dir"
      <4>1. Walk(t)[s] = Walk(t)[Into(s)]  BY <2>3, <3>4, StepDir
      <4>2. Walk(u)[s] = Walk(u)[Into(s)]  BY <2>3, <3>3, <3>4, StepDir
      <4>3. Into(s) \in G  BY <1>1, <2>3, NextSpots
      <4> QED BY <1>1, <4>1, <4>2, <4>3
    <3>5. CASE On(t, Next1(s)).kind = "file"
      <4>1. Walk(t)[s] = IF Len(s.todo) > 1 THEN Ends(s.at, "other") ELSE Walk(t)[Into(s)]
        BY <2>3, <3>5, StepFile
      <4>2. Walk(u)[s] = IF Len(s.todo) > 1 THEN Ends(s.at, "other") ELSE Walk(u)[Into(s)]
        BY <2>3, <3>3, <3>5, StepFile
      <4>3. Into(s) \in G  BY <1>1, <2>3, NextSpots
      <4> QED BY <1>1, <4>1, <4>2, <4>3, EndsIs
    <3>6. CASE On(t, Next1(s)).kind = "link"
      <4> DEFINE along == Along(s, On(t, Next1(s)).to)
      <4>1. Walk(t)[s] = IF s.links = 0 THEN Ends(s.at, "other") ELSE Walk(t)[along]
        BY <2>3, <3>6, StepLink
      <4>2. Walk(u)[s] = IF s.links = 0 THEN Ends(s.at, "other") ELSE Walk(u)[along]
        BY <2>3, <3>3, <3>6, StepLink
      <4>3. s.links # 0 => along \in G  BY <1>1, <2>3, <3>1, NextSpots
      <4> QED BY <1>1, <4>1, <4>2, <4>3, EndsIs
    <3> QED BY <3>1, <3>2, <3>4, <3>5, <3>6 DEF Kinds
  <2> QED BY <2>1, <2>2, <2>3
<1>2. \A s \in Spots : (\A r \in Spots : Nearer(r, s) => r \in G) => s \in G  BY <1>1
<1>3. G \in SUBSET Spots  OBVIOUS
<1> HIDE DEF G
<1>4. G = Spots  BY <1>2, <1>3, SpotInduction
<1> QED BY <1>4 DEF G

\* Disks with the same directories and links, and files at the same places.
Alike(t, u) ==
    \A p \in Places : u[p].kind = t[p].kind /\ (t[p].kind = "link" => u[p] = t[p])

\* What a file holds does not matter to a walk.
LEMMA AlikeOn ==
    ASSUME NEW t \in Disks, NEW u \in Disks, Alike(t, u)
    PROVE  \A s \in Spots : Walk(u)[s] = Walk(t)[s]
<1> DEFINE G == {s \in Spots : Walk(u)[s] = Walk(t)[s]}
<1>1. ASSUME NEW s \in Spots, \A r \in Spots : Nearer(r, s) => r \in G
      PROVE  Walk(u)[s] = Walk(t)[s]
  <2>1. CASE s.todo = <<>>
    <3>1. Walk(t)[s] = Ends(s.at, "nothing")  BY <2>1, Arrived
    <3>2. Walk(u)[s] = Ends(s.at, "nothing")  BY <2>1, Arrived
    <3> QED BY <3>1, <3>2
  <2>2. CASE s.todo # <<>> /\ Head(s.todo) = ".."
    <3>1. Walk(t)[s] = Walk(t)[Up(s)]  BY <2>2, StepUp
    <3>2. Walk(u)[s] = Walk(u)[Up(s)]  BY <2>2, StepUp
    <3>3. Up(s) \in G  BY <1>1, <2>2, NextSpots
    <3> QED BY <3>1, <3>2, <3>3
  <2>3. CASE s.todo # <<>> /\ Head(s.todo) # ".."
    <3>1. On(t, Next1(s)).kind \in Kinds /\ On(t, Next1(s)).to \in Paths  BY Looked
    <3>2. On(u, Next1(s)).kind = On(t, Next1(s)).kind  BY DEF Alike, On
    <3>3. CASE On(t, Next1(s)).kind = "none"
      <4>1. Walk(t)[s] = Ends(s.at, "missing")  BY <2>3, <3>3, StepNone
      <4>2. Walk(u)[s] = Ends(s.at, "missing")  BY <2>3, <3>2, <3>3, StepNone
      <4> QED BY <4>1, <4>2
    <3>4. CASE On(t, Next1(s)).kind = "dir"
      <4>1. Walk(t)[s] = Walk(t)[Into(s)]  BY <2>3, <3>4, StepDir
      <4>2. Walk(u)[s] = Walk(u)[Into(s)]  BY <2>3, <3>2, <3>4, StepDir
      <4>3. Into(s) \in G  BY <1>1, <2>3, NextSpots
      <4> QED BY <4>1, <4>2, <4>3
    <3>5. CASE On(t, Next1(s)).kind = "file"
      <4>1. Walk(t)[s] = IF Len(s.todo) > 1 THEN Ends(s.at, "other") ELSE Walk(t)[Into(s)]
        BY <2>3, <3>5, StepFile
      <4>2. Walk(u)[s] = IF Len(s.todo) > 1 THEN Ends(s.at, "other") ELSE Walk(u)[Into(s)]
        BY <2>3, <3>2, <3>5, StepFile
      <4>3. Into(s) \in G  BY <1>1, <2>3, NextSpots
      <4> QED BY <4>1, <4>2, <4>3
    <3>6. CASE On(t, Next1(s)).kind = "link"
      <4> DEFINE along == Along(s, On(t, Next1(s)).to)
      <4>0. On(u, Next1(s)) = On(t, Next1(s))  BY <3>6 DEF Alike, On
      <4>1. Walk(t)[s] = IF s.links = 0 THEN Ends(s.at, "other") ELSE Walk(t)[along]
        BY <2>3, <3>6, StepLink
      <4>2. Walk(u)[s] = IF s.links = 0 THEN Ends(s.at, "other") ELSE Walk(u)[along]
        BY <2>3, <3>6, <4>0, StepLink
      <4>3. s.links # 0 => along \in G  BY <1>1, <2>3, <3>1, NextSpots
      <4> QED BY <4>1, <4>2, <4>3
    <3> QED BY <3>1, <3>3, <3>4, <3>5, <3>6 DEF Kinds
  <2> QED BY <2>1, <2>2, <2>3
<1>2. \A s \in Spots : (\A r \in Spots : Nearer(r, s) => r \in G) => s \in G  BY <1>1
<1>3. G \in SUBSET Spots  OBVIOUS
<1> HIDE DEF G
<1>4. G = Spots  BY <1>2, <1>3, SpotInduction
<1> QED BY <1>4 DEF G

\* A longer path: what leads somewhere, its beginning did.
Longer(s, b) == At(s.at, s.todo \o b, s.links)

\* The steps of a walk that has more to go are the same.
LEMMA LongerNext ==
    ASSUME NEW s \in Spots, NEW b \in Paths
    PROVE  /\ Longer(s, b) \in Spots /\ Longer(s, b).at = s.at /\ Longer(s, b).links = s.links
           /\ Longer(s, b).todo = s.todo \o b
           /\ s.todo # <<>> =>
                 /\ Longer(s, b).todo # <<>> /\ Head(Longer(s, b).todo) = Head(s.todo)
                 /\ Tail(Longer(s, b).todo) = Tail(s.todo) \o b
                 /\ Next1(Longer(s, b)) = Next1(s)
                 /\ Up(Longer(s, b)) = Longer(Up(s), b)
                 /\ Into(Longer(s, b)) = Longer(Into(s), b)
                 /\ \A to \in Paths : s.links # 0 =>
                        Along(Longer(s, b), to) = Longer(Along(s, to), b)
<1>1. s.at \in Paths /\ s.todo \in Paths /\ s.links \in 0..4  BY SpotParts
<1>2. s.todo \o b \in Paths  BY <1>1, Joined
<1>3. /\ Longer(s, b) \in Spots /\ Longer(s, b).at = s.at /\ Longer(s, b).links = s.links
      /\ Longer(s, b).todo = s.todo \o b
  <2>1. Longer(s, b) = At(s.at, s.todo \o b, s.links)  BY DEF Longer
  <2>2. PICK a \in Paths, z \in Paths, l \in 0..4 : a = s.at /\ z = s.todo \o b /\ l = s.links
    BY <1>1, <1>2
  <2>3. At(a, z, l) \in Spots /\ At(a, z, l).at = a /\ At(a, z, l).todo = z /\ At(a, z, l).links = l
    BY SpotParts
  <2> QED BY <2>1, <2>2, <2>3
<1>4. SUFFICES ASSUME s.todo # <<>>
               PROVE  /\ Longer(s, b).todo # <<>> /\ Head(Longer(s, b).todo) = Head(s.todo)
                      /\ Tail(Longer(s, b).todo) = Tail(s.todo) \o b
                      /\ Next1(Longer(s, b)) = Next1(s)
                      /\ Up(Longer(s, b)) = Longer(Up(s), b)
                      /\ Into(Longer(s, b)) = Longer(Into(s), b)
                      /\ \A to \in Paths : s.links # 0 =>
                             Along(Longer(s, b), to) = Longer(Along(s, to), b)
  BY <1>3
<1>5. PICK x : x = s.todo \o b  OBVIOUS
<1>6. x \in Paths /\ x # <<>>
  <2>1. s.todo \o b # <<>>  BY <1>1, <1>4, ConcatApart
  <2> QED BY <1>2, <1>5, <2>1
<1>7. Head(x) = Head(s.todo) /\ Tail(x) = Tail(s.todo) \o b
  <2>1. s.todo = <<Head(s.todo)>> \o Tail(s.todo) /\ Tail(s.todo) \in Paths /\ <<Head(s.todo)>> \in Paths
        /\ Head(s.todo) \in STRING
    BY <1>1, <1>4, HeadFirst
  <2>2. PICK h : h = <<Head(s.todo)>>  OBVIOUS
  <2>3. x = h \o (Tail(s.todo) \o b) /\ Tail(s.todo) \o b \in Paths
    <3>g1. Regroup(h, Tail(s.todo), b)  BY <2>1, <2>2, Assoc
    <3>1. (h \o Tail(s.todo)) \o b = h \o (Tail(s.todo) \o b)  BY <3>g1 DEF Regroup
    <3> QED BY <1>5, <2>1, <2>2, <3>1, Joined
  <2>4. Head(x) \in STRING /\ Tail(x) \in Paths /\ x = <<Head(x)>> \o Tail(x)
    BY <1>6, HeadFirst
  <2>5. Head(x) = x[1] /\ Head(s.todo) = h[1]  BY <2>2
  <2>6. x[1] = h[1]
    <3>1. Len(h) = 1 /\ h \in Paths  BY <2>1, <2>2
    <3>2. (h \o (Tail(s.todo) \o b))[1] = h[1]
      <4> DEFINE y == Tail(s.todo) \o b
      <4>1. y \in Paths /\ Len(y) \in Nat  BY <2>3, Joined
      <4> HIDE DEF y
      <4>2. (h \o y)[1] = h[1]  BY <3>1, <4>1, ConcatProperties DEF Paths
      <4> QED BY <4>2 DEF y
    <3> QED BY <2>3, <3>2
  <2>7. Tail(x) = Tail(s.todo) \o b
    <3>1. PICK y : y = Tail(s.todo) \o b  OBVIOUS
    <3>2. y \in Paths /\ Tail(x) \in Paths /\ h \in Paths /\ Len(h) = 1  BY <2>1, <2>2, <2>3, <2>4, <3>1
    <3>3. x = h \o y  BY <2>3, <3>1
    <3>4. Len(x) = 1 + Len(y) /\ Len(y) \in Nat
      <4>1. Len(h \o y) = Len(h) + Len(y) /\ Len(y) \in Nat  BY <3>2, Joined
      <4> QED BY <3>2, <3>3, <4>1
    <3>5. \A i \in 1..Len(y) : x[i + 1] = y[i]  BY <3>2, <3>3, <3>4, ConcatProperties DEF Paths
    <3>6. Len(Tail(x)) = Len(y) /\ \A i \in 1..Len(y) : Tail(x)[i] = x[i + 1]
      BY <1>6, <3>4, HeadTailProperties DEF Paths
    <3>7. \A i \in 1..Len(y) : Tail(x)[i] = y[i]  BY <3>5, <3>6
    <3>8. Tail(x) = y  BY <3>2, <3>6, <3>7, SeqEqual DEF Paths
    <3> QED BY <3>1, <3>8
  <2> QED BY <2>5, <2>6, <2>7
<1>8. PICK l \in Spots : l = Longer(s, b)  BY <1>3
<1>9. l.at = s.at /\ l.links = s.links /\ l.todo = x  BY <1>3, <1>5, <1>8
<1>10. Next1(l) = Next1(s)  BY <1>7, <1>9 DEF Next1
<1>11. Up(l) = Longer(Up(s), b)
  <2>1. Up(l) \in Spots /\ Up(l).todo = Tail(x) /\ Up(l).links = s.links
        /\ Up(l).at = (IF s.at = <<>> THEN <<>> ELSE Front(s.at))
    BY <1>6, <1>9, NextSpots
  <2>2. Up(s).todo = Tail(s.todo) /\ Up(s).links = s.links
        /\ Up(s).at = (IF s.at = <<>> THEN <<>> ELSE Front(s.at))
    BY <1>4, NextSpots
  <2>3. Up(l) = At(Up(l).at, Up(l).todo, Up(l).links)  BY <2>1, SpotParts
  <2> QED BY <1>7, <2>1, <2>2, <2>3 DEF Longer
<1>12. Into(l) = Longer(Into(s), b)
  <2>1. Into(l) \in Spots /\ Into(l).todo = Tail(x) /\ Into(l).links = s.links /\ Into(l).at = Next1(s)
    BY <1>6, <1>9, <1>10, NextPaths
  <2>2. Into(s).todo = Tail(s.todo) /\ Into(s).links = s.links /\ Into(s).at = Next1(s)
    BY <1>4, NextPaths
  <2>3. Into(l) = At(Into(l).at, Into(l).todo, Into(l).links)  BY <2>1, SpotParts
  <2> QED BY <1>7, <2>1, <2>2, <2>3 DEF Longer
<1>13. ASSUME NEW to \in Paths, s.links # 0
       PROVE  Along(l, to) = Longer(Along(s, to), b)
  <2>1. Tail(s.todo) \in Paths  BY <1>4, NextPaths
  <2>g2. Regroup(to, Tail(s.todo), b)  BY <2>1, Assoc
  <2>2. to \o (Tail(s.todo) \o b) = (to \o Tail(s.todo)) \o b  BY <2>g2 DEF Regroup
  <2>3. Along(l, to) = At(<<>>, to \o Tail(x), s.links - 1)  BY <1>9 DEF Along, At
  <2>4. Longer(Along(s, to), b) = At(<<>>, (to \o Tail(s.todo)) \o b, s.links - 1)
    BY DEF Along, At, Longer
  <2> QED BY <1>7, <2>2, <2>3, <2>4
<1> QED BY <1>6, <1>7, <1>8, <1>9, <1>10, <1>11, <1>12, <1>13

\* A path goes on from where its beginning leads.
LEMMA WalkGoesOn ==
    ASSUME NEW t \in Disks, NEW b \in Paths
    PROVE  \A s \in Spots :
               Walk(t)[s].fails = "nothing" /\ On(t, Walk(t)[s].at).kind = "dir" =>
                   \E l \in 0..4 : /\ Walk(t)[s].at \in Paths
                                   /\ Walk(t)[Longer(s, b)] = Walk(t)[At(Walk(t)[s].at, b, l)]
<1> DEFINE w == Walk(t)
           G == {s \in Spots : w[s].fails = "nothing" /\ On(t, w[s].at).kind = "dir" =>
                     \E l \in 0..4 : w[s].at \in Paths /\ w[Longer(s, b)] = w[At(w[s].at, b, l)]}
<1>1. ASSUME NEW s \in Spots, \A r \in Spots : Nearer(r, s) => r \in G,
             w[s].fails = "nothing", On(t, w[s].at).kind = "dir"
      PROVE  \E l \in 0..4 : w[s].at \in Paths /\ w[Longer(s, b)] = w[At(w[s].at, b, l)]
  <2> DEFINE l == Longer(s, b)
  <2>0. l \in Spots /\ l.at = s.at /\ l.links = s.links  BY LongerNext
  <2>1. CASE s.todo = <<>>
    <3>1. w[s].at = s.at  BY <2>1, Arrived
    <3>2. s.at \in Paths /\ s.links \in 0..4  BY SpotParts
    <3>3. s.todo \o b = b  BY <2>1, Joined
    <3>4. l = At(s.at, b, s.links)  BY <3>3 DEF Longer
    <3> QED BY <3>1, <3>2, <3>4
  <2>2. CASE s.todo # <<>>
    <3>1. l.todo # <<>> /\ Head(l.todo) = Head(s.todo) /\ Next1(l) = Next1(s)  BY <2>2, LongerNext
    <3>2. Up(l) = Longer(Up(s), b) /\ Into(l) = Longer(Into(s), b)  BY <2>2, LongerNext
    <3>3. Up(s) \in G /\ Into(s) \in G  BY <1>1, <2>2, NextSpots
    <3> HIDE DEF l
    <3>4. CASE Head(s.todo) = ".."
      <4>1. w[s] = w[Up(s)]  BY <2>2, <3>4, StepUp
      <4>2. w[l] = w[Up(l)]  BY <2>0, <3>1, <3>4, StepUp
      <4>3. w[l] = w[Longer(Up(s), b)]  BY <3>2, <4>2
      <4> HIDE DEF w
      <4> QED BY <1>1, <3>3, <4>1, <4>3 DEF l
    <3>5. CASE Head(s.todo) # ".."
      <4>1. On(t, Next1(s)).kind \in Kinds /\ On(t, Next1(s)).to \in Paths  BY Looked
      <4>2. CASE On(t, Next1(s)).kind = "none"
        <5>1. w[s] = Ends(s.at, "missing")  BY <2>2, <3>5, <4>2, StepNone
        <5> QED BY <1>1, <5>1, EndsIs
      <4>3. CASE On(t, Next1(s)).kind = "dir"
        <5>1. w[s] = w[Into(s)]  BY <2>2, <3>5, <4>3, StepDir
        <5>2. w[l] = w[Into(l)]  BY <2>0, <3>1, <3>5, <4>3, StepDir
        <5>3. w[l] = w[Longer(Into(s), b)]  BY <3>2, <5>2
        <5> HIDE DEF w
        <5> QED BY <1>1, <3>3, <5>1, <5>3 DEF l
      <4>4. CASE On(t, Next1(s)).kind = "file"
        <5>1. w[s] = IF Len(s.todo) > 1 THEN Ends(s.at, "other") ELSE w[Into(s)]
          BY <2>2, <3>5, <4>4, StepFile
        <5>2. w[s] = w[Into(s)] /\ ~(Len(s.todo) > 1)  BY <1>1, <5>1, EndsIs
        <5>3. Tail(s.todo) = <<>>  BY <2>2, <5>2, NextPaths
        <5>4. Into(s) \in Spots /\ Into(s).todo = <<>> /\ Into(s).at = Next1(s)
          BY <2>2, <5>3, NextPaths
        <5>5. w[Into(s)].at = Next1(s)  BY <5>4, Arrived
        <5> QED BY <1>1, <4>4, <5>2, <5>5
      <4>5. CASE On(t, Next1(s)).kind = "link"
        <5> DEFINE to == On(t, Next1(s)).to
        <5>1. w[s] = IF s.links = 0 THEN Ends(s.at, "other") ELSE w[Along(s, to)]
          BY <2>2, <3>5, <4>5, StepLink
        <5>2. s.links # 0 /\ w[s] = w[Along(s, to)]  BY <1>1, <5>1, EndsIs
        <5>3. w[l] = IF l.links = 0 THEN Ends(l.at, "other") ELSE w[Along(l, to)]
          BY <2>0, <3>1, <3>5, <4>5, StepLink
        <5>4. Along(s, to) \in G  BY <1>1, <2>2, <4>1, <5>2, NextSpots
        <5>5. Along(l, to) = Longer(Along(s, to), b)  BY <2>2, <4>1, <5>2, LongerNext DEF l
        <5>6. w[l] = w[Longer(Along(s, to), b)]  BY <2>0, <5>2, <5>3, <5>5
        <5> HIDE DEF w, to
        <5> QED BY <1>1, <5>2, <5>4, <5>6 DEF l
      <4> QED BY <4>1, <4>2, <4>3, <4>4, <4>5 DEF Kinds
    <3> QED BY <3>4, <3>5
  <2> QED BY <2>1, <2>2
<1>2. \A s \in Spots : (\A r \in Spots : Nearer(r, s) => r \in G) => s \in G  BY <1>1
<1>3. G \in SUBSET Spots  OBVIOUS
<1> HIDE DEF G
<1>4. G = Spots  BY <1>2, <1>3, SpotInduction
<1> QED BY <1>4 DEF G

\* The beginning of a path that leads somewhere does too.
LEMMA BeginningFound ==
    ASSUME NEW t \in Disks, NEW b \in Paths
    PROVE  \A s \in Spots : Walk(t)[Longer(s, b)].fails = "nothing" => Walk(t)[s].fails = "nothing"
<1> DEFINE w == Walk(t)
           G == {s \in Spots : w[Longer(s, b)].fails = "nothing" => w[s].fails = "nothing"}
<1>1. ASSUME NEW s \in Spots, \A r \in Spots : Nearer(r, s) => r \in G,
             w[Longer(s, b)].fails = "nothing"
      PROVE  w[s].fails = "nothing"
  <2> DEFINE l == Longer(s, b)
  <2>0. l \in Spots /\ l.at = s.at /\ l.links = s.links  BY LongerNext
  <2>1. CASE s.todo = <<>>  BY <2>1, Arrived
  <2>2. CASE s.todo # <<>>
    <3>1. l.todo # <<>> /\ Head(l.todo) = Head(s.todo) /\ Next1(l) = Next1(s)  BY <2>2, LongerNext
    <3>2. Up(l) = Longer(Up(s), b) /\ Into(l) = Longer(Into(s), b)  BY <2>2, LongerNext
    <3>3. Up(s) \in G /\ Into(s) \in G  BY <1>1, <2>2, NextSpots
    <3> HIDE DEF l
    <3>4. CASE Head(s.todo) = ".."
      <4>1. w[s] = w[Up(s)]  BY <2>2, <3>4, StepUp
      <4>2. w[l] = w[Up(l)]  BY <2>0, <3>1, <3>4, StepUp
      <4>3. w[l] = w[Longer(Up(s), b)]  BY <3>2, <4>2
      <4> HIDE DEF w
      <4> QED BY <1>1, <3>3, <4>1, <4>3 DEF l
    <3>5. CASE Head(s.todo) # ".."
      <4>1. On(t, Next1(s)).kind \in Kinds /\ On(t, Next1(s)).to \in Paths  BY Looked
      <4>2. CASE On(t, Next1(s)).kind = "none"
        <5>1. w[l] = Ends(l.at, "missing")  BY <2>0, <3>1, <3>5, <4>2, StepNone
        <5> QED BY <1>1, <5>1, EndsIs DEF l
      <4>3. CASE On(t, Next1(s)).kind = "dir"
        <5>1. w[s] = w[Into(s)]  BY <2>2, <3>5, <4>3, StepDir
        <5>2. w[l] = w[Into(l)]  BY <2>0, <3>1, <3>5, <4>3, StepDir
        <5>3. w[l] = w[Longer(Into(s), b)]  BY <3>2, <5>2
        <5> HIDE DEF w
        <5> QED BY <1>1, <3>3, <5>1, <5>3 DEF l
      <4>4. CASE On(t, Next1(s)).kind = "file"
        <5>1. w[l] = IF Len(l.todo) > 1 THEN Ends(l.at, "other") ELSE w[Into(l)]
          BY <2>0, <3>1, <3>5, <4>4, StepFile
        <5>2. w[l] = w[Into(l)] /\ ~(Len(l.todo) > 1)  BY <1>1, <5>1, EndsIs DEF l
        <5>3. Tail(l.todo) = <<>>  BY <2>0, <3>1, <5>2, NextPaths
        <5>4. Tail(s.todo) = <<>>
          <6>1. Tail(l.todo) = Tail(s.todo) \o b  BY <2>2, LongerNext DEF l
          <6>2. Tail(s.todo) \in Paths  BY <2>2, NextPaths
          <6>3. Tail(s.todo) \o b = <<>>  BY <5>3, <6>1
          <6> QED BY <6>2, <6>3, ConcatApart
        <5>5. ~(Len(s.todo) > 1)  BY <2>2, <5>4, NextPaths
        <5>6. w[s] = IF Len(s.todo) > 1 THEN Ends(s.at, "other") ELSE w[Into(s)]
          BY <2>2, <3>5, <4>4, StepFile
        <5>7. Into(s) \in Spots /\ Into(s).todo = <<>>  BY <2>2, <5>4, NextPaths
        <5>8. w[Into(s)].fails = "nothing"  BY <5>7, Arrived
        <5> QED BY <5>5, <5>6, <5>8
      <4>5. CASE On(t, Next1(s)).kind = "link"
        <5> DEFINE to == On(t, Next1(s)).to
        <5>1. w[s] = IF s.links = 0 THEN Ends(s.at, "other") ELSE w[Along(s, to)]
          BY <2>2, <3>5, <4>5, StepLink
        <5>2. w[l] = IF l.links = 0 THEN Ends(l.at, "other") ELSE w[Along(l, to)]
          BY <2>0, <3>1, <3>5, <4>5, StepLink
        <5>3. s.links # 0 /\ w[l] = w[Along(l, to)]  BY <1>1, <2>0, <5>2, EndsIs DEF l
        <5>4. Along(s, to) \in G  BY <1>1, <2>2, <4>1, <5>3, NextSpots
        <5>5. Along(l, to) = Longer(Along(s, to), b)  BY <2>2, <4>1, <5>3, LongerNext DEF l
        <5>6. w[l] = w[Longer(Along(s, to), b)]  BY <5>3, <5>5
        <5> HIDE DEF w, to
        <5> QED BY <1>1, <5>1, <5>3, <5>4, <5>6 DEF l
      <4> QED BY <4>1, <4>2, <4>3, <4>4, <4>5 DEF Kinds
    <3> QED BY <3>4, <3>5
  <2> QED BY <2>1, <2>2
<1>2. \A s \in Spots : (\A r \in Spots : Nearer(r, s) => r \in G) => s \in G  BY <1>1
<1>3. G \in SUBSET Spots  OBVIOUS
<1> HIDE DEF G
<1>4. G = Spots  BY <1>2, <1>3, SpotInduction
<1> QED BY <1>4 DEF G

-----------------------------------------------------------------------------
(* Containment: where paths lead on the disk.                              *)

\* A path cut in two.
LEMMA Cut ==
    ASSUME NEW p \in Paths, NEW k \in 0..Len(p)
    PROVE  /\ SubSeq(p, 1, k) \in Paths /\ SubSeq(p, k + 1, Len(p)) \in Paths
           /\ p = SubSeq(p, 1, k) \o SubSeq(p, k + 1, Len(p))
           /\ Len(SubSeq(p, 1, k)) = k /\ Len(SubSeq(p, k + 1, Len(p))) = Len(p) - k
<1>1. Len(p) \in Nat  BY Joined
<1>2. /\ SubSeq(p, 1, k) \in Paths /\ Len(SubSeq(p, 1, k)) = k
  BY <1>1, SubSeqProperties, ElementOfSeq DEF Paths
<1>3. SubSeq(p, k + 1, Len(p)) \in Paths /\ Len(SubSeq(p, k + 1, Len(p))) = Len(p) - k
  <2>1. \A i \in (k + 1)..Len(p) : p[i] \in STRING  BY <1>1, ElementOfSeq DEF Paths
  <2>2. k + 1 \in Int /\ Len(p) \in Int  BY <1>1
  <2>3. /\ SubSeq(p, k + 1, Len(p)) \in Seq(STRING)
        /\ Len(SubSeq(p, k + 1, Len(p))) =
               IF k + 1 <= Len(p) THEN Len(p) - (k + 1) + 1 ELSE 0
    BY <2>1, <2>2, SubSeqProperties
  <2> QED BY <1>1, <2>3 DEF Paths
<1>4. SubSeq(p, 1, k) \o SubSeq(p, k + 1, Len(p)) = SubSeq(p, 1, Len(p))
  BY <1>1, ConcatAdjacentSubSeq, 1 \in 1..(Len(p) + 1), k \in (1 - 1)..Len(p), Len(p) \in k..Len(p) DEF Paths
<1>5. SubSeq(p, 1, Len(p)) = p  BY SubSeqFull DEF Paths
<1> QED BY <1>2, <1>3, <1>4, <1>5

\* The beginning of a path that is as long as another's beginning is that.
LEMMA CutOf ==
    ASSUME NEW a \in Paths, NEW b \in Paths
    PROVE  SubSeq(a \o b, 1, Len(a)) = a /\ SubSeq(a \o b, Len(a) + 1, Len(a \o b)) = b
<1> DEFINE p == a \o b
<1>1. /\ p \in Paths /\ Len(p) = Len(a) + Len(b) /\ Len(a) \in Nat /\ Len(b) \in Nat
      /\ Len(a) \in 0..Len(p)
  <2>1. p \in Paths /\ Len(p) = Len(a) + Len(b)  BY Joined
  <2>2. Len(a) \in Nat /\ Len(b) \in Nat  BY Joined
  <2> HIDE DEF p
  <2> QED BY <2>1, <2>2
<1>2. \A i \in 1..(Len(a) + Len(b)) : p[i] = IF i <= Len(a) THEN a[i] ELSE b[i - Len(a)]
  BY ConcatProperties DEF Paths
<1> HIDE DEF p
<1>3. SubSeq(p, 1, Len(a)) = a
  <2> DEFINE q == SubSeq(p, 1, Len(a))
  <2>1. q \in Paths /\ Len(q) = Len(a)  BY <1>1, Cut
  <2>2. \A i \in 1..Len(a) : q[i] = p[i]  BY <1>1, SubSeqProperties, ElementOfSeq DEF Paths
  <2>3. \A i \in 1..Len(a) : q[i] = a[i]  BY <1>1, <1>2, <2>2
  <2> HIDE DEF q
  <2>4. q = a  BY <2>1, <2>3, SeqEqual DEF Paths
  <2> QED BY <2>4 DEF q
<1>4. SubSeq(p, Len(a) + 1, Len(p)) = b
  <2> DEFINE q == SubSeq(p, Len(a) + 1, Len(p))
  <2>1. q \in Paths /\ Len(q) = Len(b)
    <3>1. q \in Paths /\ Len(q) = Len(p) - Len(a)  BY <1>1, Cut
    <3>2. Len(p) - Len(a) = Len(b)  BY <1>1
    <3> QED BY <3>1, <3>2
  <2>2. \A i \in 1..Len(b) : q[i] = p[Len(a) + i]
    <3>1. \A i \in (Len(a) + 1)..Len(p) : p[i] \in STRING  BY <1>1, ElementOfSeq DEF Paths
    <3>2. \A i \in 1..(Len(p) - (Len(a) + 1) + 1) : q[i] = p[Len(a) + 1 + i - 1]
      BY <1>1, <3>1, SubSeqProperties
    <3> HIDE DEF q
    <3>3. ASSUME NEW i \in 1..Len(b) PROVE q[i] = p[Len(a) + i]
      <4>1. i \in 1..(Len(p) - (Len(a) + 1) + 1) /\ Len(a) + 1 + i - 1 = Len(a) + i  BY <1>1
      <4> QED BY <3>2, <4>1
    <3> QED BY <3>3
  <2>3. \A i \in 1..Len(b) : q[i] = b[i]
    <3> HIDE DEF q
    <3>1. ASSUME NEW i \in 1..Len(b) PROVE q[i] = b[i]
      <4>1. Len(a) + i \in 1..(Len(a) + Len(b)) /\ ~(Len(a) + i <= Len(a)) /\ (Len(a) + i) - Len(a) = i
        BY <1>1
      <4>2. p[Len(a) + i] = b[(Len(a) + i) - Len(a)]  BY <1>2, <4>1
      <4> QED BY <2>2, <4>1, <4>2
    <3> QED BY <3>1
  <2> HIDE DEF q
  <2>4. q = b  BY <2>1, <2>3, SeqEqual DEF Paths
  <2> QED BY <2>4 DEF q
<1> QED BY <1>3, <1>4 DEF p

\* Two beginnings of a path: one is the other's.
\* The path c goes on where m ends, and d where c ends.
GoesOn(c, d, m, n) == \E y \in Paths : c = m \o y /\ n = y \o d

\* The shorter of two beginnings of a path is one of the longer.
LEMMA LongerBeginning ==
    ASSUME NEW p, NEW c \in Paths, NEW d \in Paths, NEW m \in Paths, NEW n \in Paths,
           p = c \o d, p = m \o n, Len(m) <= Len(c)
    PROVE  GoesOn(c, d, m, n)
<1>2. Len(c) \in Nat /\ Len(m) \in Nat /\ Len(m) \in 0..Len(c)
  <2>1. Len(c) \in Nat /\ Len(m) \in Nat  BY Joined
  <2> QED BY <2>1
<1>3. PICK x, y : x = SubSeq(c, 1, Len(m)) /\ y = SubSeq(c, Len(m) + 1, Len(c))  OBVIOUS
<1>4. x \in Paths /\ y \in Paths /\ c = x \o y /\ Len(x) = Len(m)  BY <1>2, <1>3, Cut
<1>g5. Regroup(x, y, d)  BY <1>4, Assoc
<1>5. (x \o y) \o d = x \o (y \o d)  BY <1>g5 DEF Regroup
<1>6. PICK z \in Paths : z = y \o d  BY <1>4, Joined
<1>7. p = x \o z  BY <1>4, <1>5, <1>6
<1>8. SubSeq(x \o z, 1, Len(x)) = x /\ SubSeq(x \o z, Len(x) + 1, Len(x \o z)) = z
  BY <1>4, CutOf
<1>9. SubSeq(m \o n, 1, Len(m)) = m /\ SubSeq(m \o n, Len(m) + 1, Len(m \o n)) = n  BY CutOf
<1>10. x = m /\ z = n  BY <1>4, <1>7, <1>8, <1>9
<1>11. c = m \o y /\ n = y \o d  BY <1>4, <1>6, <1>10
<1> QED BY <1>4, <1>11 DEF GoesOn

\* Of two beginnings of a path one is the beginning of the other.
LEMMA Levi ==
    ASSUME NEW p, NEW a \in Paths, NEW b \in Paths, NEW q \in Paths, NEW r \in Paths,
           p = a \o b, p = q \o r
    PROVE  GoesOn(a, b, q, r) \/ (GoesOn(q, r, a, b) /\ q # a)
<1>2. Len(a) \in Nat /\ Len(q) \in Nat  BY Joined
<1>3. CASE Len(q) <= Len(a)
  <2>1. GoesOn(a, b, q, r)  BY <1>3, LongerBeginning, Zenon
  <2> QED BY <2>1
<1>4. CASE ~(Len(q) <= Len(a))
  <2>1. Len(a) <= Len(q) /\ q # a  BY <1>2, <1>4
  <2>2. GoesOn(q, r, a, b)  BY <2>1, LongerBeginning, Zenon
  <2> QED BY <2>1, <2>2
<1> QED BY <1>3, <1>4

\* What is not the empty path ends with a name, and what follows on it.
LEMMA LastOf ==
    ASSUME NEW a \in Paths, NEW y \in Paths, y # <<>>
    PROVE  /\ a \o y # <<>> /\ a \o y \in Paths
           /\ Front(a \o y) = a \o Front(y) /\ Last(a \o y) = Last(y) /\ Front(y) \in Paths
           /\ y = Front(y) \o <<Last(y)>> /\ <<Last(y)>> \in Paths /\ <<Last(y)>> # <<>>
           /\ Last(y) \in STRING
<1>1. Front(y) \in Paths /\ Last(y) \in STRING /\ y = Append(Front(y), Last(y))  BY FrontIs
<1>2. a \o y = Append(a \o Front(y), Last(y)) /\ a \o Front(y) \in Paths
  <2>1. a \o Append(Front(y), Last(y)) = Append(a \o Front(y), Last(y))  BY <1>1, AppendOf
  <2> QED BY <1>1, <2>1, Joined
<1>3. Front(a \o y) = a \o Front(y) /\ Last(a \o y) = Last(y)
  <2>1. PICK c \in Paths, e \in STRING : c = a \o Front(y) /\ e = Last(y)  BY <1>1, <1>2
  <2>2. a \o y = Append(c, e)  BY <1>2, <2>1
  <2>3. Front(Append(c, e)) = c /\ Last(Append(c, e)) = e  BY FrontOfAppend
  <2> QED BY <2>1, <2>2, <2>3
<1>4. a \o y # <<>> /\ a \o y \in Paths  BY ConcatApart, Joined
<1>5. y = Front(y) \o <<Last(y)>> /\ <<Last(y)>> \in Paths  BY <1>1, Joined
<1>6. <<Last(y)>> # <<>>  OBVIOUS
<1> QED BY <1>1, <1>3, <1>4, <1>5, <1>6

\* The path of a place where a file or a directory is, is plain.
LEMMA PlaceIsPlain ==
    ASSUME NEW t \in Disks, NEW p \in Places, t[p].kind \in {"dir", "file"}
    PROVE  Plain(t, <<>>, p)
<1>1. ASSUME NEW q \in Paths, NEW r \in Paths, p = q \o r, q # <<>>
      PROVE  Last(q) # ".." /\ On(t, <<>> \o q).kind # "link"
  <2>1. q \in Places /\ (r # <<>> /\ t[q \o r].kind # "none" => t[q].kind = "dir")
    BY <1>1, Chain
  <2>2. Last(q) # ".."  BY <1>1, <2>1, ContainmentAssumption
  <2>3. <<>> \o q = q /\ (r = <<>> => q \o r = q)  BY <1>1, Joined
  <2>4. t[q].kind \in {"dir", "file"}  BY <1>1, <2>1, <2>3
  <2> QED BY <2>1, <2>2, <2>3, <2>4 DEF On
<1> QED BY <1>1 DEF Plain

\* A plain path below a place is plain from the root of the disk.
LEMMA PlainBelow ==
    ASSUME NEW t \in Disks, NEW a \in Places, t[a].kind \in {"dir", "file"},
           NEW x \in Paths, Plain(t, a, x)
    PROVE  Plain(t, <<>>, a \o x)
<1>0. a \in Paths  BY ContainmentAssumption
<1>1. ASSUME NEW q \in Paths, NEW r \in Paths, a \o x = q \o r, q # <<>>
      PROVE  Last(q) # ".." /\ On(t, <<>> \o q).kind # "link"
  <2>1. PICK p : p = a \o x /\ p = q \o r  BY <1>1
  <2>2. GoesOn(a, x, q, r) \/ (GoesOn(q, r, a, x) /\ q # a)  BY <1>0, <2>1, Levi, Zenon
  <2>3. CASE GoesOn(a, x, q, r)
    <3>1. PICK y \in Paths : a = q \o y  BY <2>3 DEF GoesOn
    <3>2. Plain(t, <<>>, a)  BY PlaceIsPlain
    <3> QED BY <1>1, <3>1, <3>2 DEF Plain
  <2>4. CASE GoesOn(q, r, a, x) /\ q # a
    <3>1. PICK y \in Paths : q = a \o y /\ x = y \o r  BY <2>4 DEF GoesOn
    <3>2. y # <<>>
      <4>1. y = <<>> => q = a  BY <1>0, <3>1, Joined
      <4> QED BY <2>4, <4>1
    <3>3. Last(y) # ".." /\ On(t, a \o y).kind # "link"  BY <3>1, <3>2 DEF Plain
    <3>4. Last(a \o y) = Last(y)  BY <1>0, <3>2, LastOf
    <3>5. <<>> \o q = q  BY Joined
    <3> QED BY <3>1, <3>3, <3>4, <3>5
  <2> QED BY <2>2, <2>3, <2>4
<1> QED BY <1>1 DEF Plain

\* The beginning of a plain path is plain.
LEMMA PlainBeginning ==
    ASSUME NEW t \in Disks, NEW a \in Paths, NEW x \in Paths, NEW y \in Paths, Plain(t, a, x \o y)
    PROVE  Plain(t, a, x)
<1>1. ASSUME NEW q \in Paths, NEW r \in Paths, x = q \o r, q # <<>>
      PROVE  Last(q) # ".." /\ On(t, a \o q).kind # "link"
  <2>1. x \o y = q \o (r \o y) /\ r \o y \in Paths
    <3>g1. Regroup(q, r, y)  BY Assoc
    <3>1. (q \o r) \o y = q \o (r \o y)  BY <3>g1 DEF Regroup
    <3>2. r \o y \in Paths  BY Joined
    <3> QED BY <1>1, <3>1, <3>2
  <2> QED BY <1>1, <2>1 DEF Plain
<1> QED BY <1>1 DEF Plain

\* A walk starts at the root of the disk.
LEMMA StartIs ==
    ASSUME NEW p \in Paths
    PROVE  Start(p) \in Spots /\ Start(p).at = <<>> /\ Start(p).todo = p /\ <<>> \o p = p
<1>1. Start(p) = At(<<>>, p, 4) /\ <<>> \in Paths /\ <<>> \o p = p
  BY SpotParts, Joined DEF MaxLinks
<1>2. PICK a \in Paths, l \in 0..4 : a = <<>> /\ l = 4  BY <1>1
<1>3. At(a, p, l) \in Spots /\ At(a, p, l).at = a /\ At(a, p, l).todo = p  BY SpotParts
<1> QED BY <1>1, <1>2, <1>3

\* The path of a file or a directory leads to itself.
LEMMA WalkReal ==
    ASSUME NEW t \in Disks, NEW p \in Places, t[p].kind \in {"dir", "file"}
    PROVE  Walk(t)[Start(p)] = Ends(p, "nothing")
<1>1. p \in Paths  BY ContainmentAssumption
<1>2. PICK s \in Spots : s = Start(p) /\ s.at \o s.todo = p  BY <1>1, StartIs
<1>3. Walk(t)[s] = Ends(s.at \o s.todo, "nothing")  BY <1>2, RealIsItself
<1> QED BY <1>2, <1>3

\* A plain path that leads somewhere leads to itself.
LEMMA WalkPlain ==
    ASSUME NEW t \in Disks, NEW p \in Paths, Plain(t, <<>>, p), Walk(t)[Start(p)].fails = "nothing"
    PROVE  Walk(t)[Start(p)].at = p
  BY StartIs, PlainIsReal

\* What a path leads to is a directory or a file.
LEMMA WalkEnd ==
    ASSUME NEW t \in Disks, NEW p \in Paths, Walk(t)[Start(p)].fails = "nothing"
    PROVE  Stands(t, Walk(t)[Start(p)].at, <<>>)
<1>1. Stands(t, <<>>, p)  BY ContainmentAssumption DEF Stands, Disks
<1> QED BY <1>1, StartIs, EndIsReal

\* How a walk can end.
EndsWell(t, s) == Walk(t)[s].fails \in {"nothing", "missing", "other"} /\ Walk(t)[s].at \in Paths

\* Every walk ends in one of three ways, at a path.
LEMMA FailsAre ==
    ASSUME NEW t \in Disks
    PROVE  \A s \in Spots : EndsWell(t, s)
<1> DEFINE G == {s \in Spots : EndsWell(t, s)}
<1>1. ASSUME NEW s \in Spots, \A r \in Spots : Nearer(r, s) => r \in G
      PROVE  EndsWell(t, s)
  <2>0. s.at \in Paths  BY SpotParts
  <2>1. CASE s.todo = <<>>  BY <2>0, <2>1, Arrived DEF EndsWell
  <2>2. CASE s.todo # <<>> /\ Head(s.todo) = ".."
    <3>1. Walk(t)[s] = Walk(t)[Up(s)]  BY <2>2, StepUp
    <3>2. Up(s) \in G  BY <1>1, <2>2, NextSpots
    <3> QED BY <3>1, <3>2 DEF EndsWell
  <2>3. CASE s.todo # <<>> /\ Head(s.todo) # ".."
    <3>1. On(t, Next1(s)).kind \in Kinds /\ On(t, Next1(s)).to \in Paths  BY Looked
    <3>2. Into(s) \in G  BY <1>1, <2>3, NextSpots
    <3>3. CASE On(t, Next1(s)).kind = "none"
      <4>1. Walk(t)[s] = Ends(s.at, "missing")  BY <2>3, <3>3, StepNone
      <4> QED BY <2>0, <4>1, EndsIs DEF EndsWell
    <3>4. CASE On(t, Next1(s)).kind = "dir"
      <4>1. Walk(t)[s] = Walk(t)[Into(s)]  BY <2>3, <3>4, StepDir
      <4> QED BY <3>2, <4>1 DEF EndsWell
    <3>5. CASE On(t, Next1(s)).kind = "file"
      <4>1. Walk(t)[s] = IF Len(s.todo) > 1 THEN Ends(s.at, "other") ELSE Walk(t)[Into(s)]
        BY <2>3, <3>5, StepFile
      <4> QED BY <2>0, <3>2, <4>1, EndsIs DEF EndsWell
    <3>6. CASE On(t, Next1(s)).kind = "link"
      <4> DEFINE along == Along(s, On(t, Next1(s)).to)
      <4>1. Walk(t)[s] = IF s.links = 0 THEN Ends(s.at, "other") ELSE Walk(t)[along]
        BY <2>3, <3>6, StepLink
      <4>2. s.links # 0 => along \in G  BY <1>1, <2>3, <3>1, NextSpots
      <4> QED BY <2>0, <4>1, <4>2, EndsIs DEF EndsWell
    <3> QED BY <3>1, <3>3, <3>4, <3>5, <3>6 DEF Kinds
  <2> QED BY <2>1, <2>2, <2>3
<1>2. \A s \in Spots : (\A r \in Spots : Nearer(r, s) => r \in G) => s \in G  BY <1>1
<1>3. G \in SUBSET Spots  OBVIOUS
<1> HIDE DEF G
<1>4. G = Spots  BY <1>2, <1>3, SpotInduction
<1> QED BY <1>4 DEF G

\* What lstat says of a path that no link is on.
LEMMA LstatPlain ==
    ASSUME tree \in Disks, NEW p \in Paths, p # <<>>, Lstat(p) \in {"file", "dir", "link"}
    PROVE  /\ Found(Front(p)) /\ Real(Front(p)) \in Places
           /\ Lstat(p) = NodeAt(Append(Real(Front(p)), Last(p))).kind
           /\ Append(Real(Front(p)), Last(p)) \in Places
           /\ Lstat(p) = tree[Append(Real(Front(p)), Last(p))].kind
           /\ Plain(tree, <<>>, Front(p)) => Append(Real(Front(p)), Last(p)) = p
<1>1. Front(p) \in Paths /\ Last(p) \in STRING /\ p = Append(Front(p), Last(p))  BY FrontIs
<1> DEFINE up == Follow(Front(p))
           place == Append(Real(Front(p)), Last(p))
<1>2. up = Walk(tree)[Start(Front(p))]  BY FollowIs
<1>3. up.fails \in {"nothing", "missing", "other"}  BY <1>1, <1>2, FailsAre, StartIs DEF EndsWell
<1>4. Lstat(p) = KindIn(up, Last(p))  BY DEF Lstat
<1>5. /\ up.fails = "nothing" /\ NodeAt(up.at).kind # "file"
      /\ Lstat(p) = NodeAt(Append(up.at, Last(p))).kind
  <2> HIDE DEF up
  <2> QED BY <1>3, <1>4 DEF KindIn
<1>6. Stands(tree, up.at, <<>>)  BY <1>1, <1>2, <1>5, WalkEnd
<1>7. Lstat(p) = NodeAt(place).kind /\ up.at \in Places  BY <1>5, <1>6 DEF Real, Stands
<1>8. place \in Places /\ Lstat(p) = tree[place].kind
  <2> HIDE DEF place
  <2> QED BY <1>7 DEF NodeAt, Vacant, Node
<1>9. Plain(tree, <<>>, Front(p)) => place = p
  <2>1. SUFFICES ASSUME Plain(tree, <<>>, Front(p)) PROVE place = p  OBVIOUS
  <2>2. up.at = Front(p)  BY <1>1, <1>2, <1>5, <2>1, WalkPlain
  <2> QED BY <1>1, <2>2 DEF Real
<1> QED BY <1>5, <1>7, <1>8, <1>9 DEF Found, Real

\* A spot that is put together has its parts.
LEMMA AtParts ==
    ASSUME NEW a \in Paths, NEW y \in Paths, NEW l \in 0..4
    PROVE  At(a, y, l) \in Spots /\ At(a, y, l).at = a /\ At(a, y, l).todo = y
  BY SpotParts

\* The start of a longer path.
LEMMA StartLonger ==
    ASSUME NEW b \in Paths, NEW y \in Paths
    PROVE  Longer(Start(b), y) = Start(b \o y) /\ Start(b) \in Spots
<1>1. /\ Start(b) \in Spots /\ Start(b).at = <<>> /\ Start(b).todo = b  BY StartIs
<1>2. Start(b).links = MaxLinks  BY DEF Start
<1>3. Longer(Start(b), y) = At(<<>>, b \o y, MaxLinks)  BY <1>1, <1>2 DEF Longer
<1>4. Start(b \o y) = At(<<>>, b \o y, MaxLinks)  BY SpotParts
<1> QED BY <1>1, <1>3, <1>4

\* A path leads to the file that lstat sees, and this is at its own place.
LEMMA FileWhere ==
    ASSUME tree \in Disks, NEW p \in Paths, p # <<>>, Lstat(p) = "file"
    PROVE  /\ Real(p) \in Places /\ tree[Real(p)].kind = "file"
           /\ Plain(tree, <<>>, Front(p)) => Real(p) = p
<1>1. PICK f \in Paths, e \in STRING : f = Front(p) /\ e = Last(p) /\ p = Append(f, e)  BY FrontIs
<1>2. PICK n \in Paths : n = <<e>> /\ p = f \o n
  <2>1. Append(f, e) = f \o <<e>>  BY Joined
  <2>2. <<e>> \in Paths  BY Joined
  <2> QED BY <1>1, <2>1, <2>2
<1>3. PICK a : a = Real(f)  OBVIOUS
<1>4. /\ Found(f) /\ a \in Places /\ Append(a, e) \in Places /\ tree[Append(a, e)].kind = "file"
      /\ Plain(tree, <<>>, Front(p)) => Append(a, e) = p
  BY <1>1, <1>3, LstatPlain
<1>5. a \in Paths  BY <1>4, ContainmentAssumption
<1>6. PICK q \in Places : q = Append(a, e)  BY <1>4
<1>7. q = a \o n  BY <1>2, <1>5, <1>6, Joined
<1>8. tree[a].kind = "dir"
  <2>1. Front(q) = a /\ q # <<>>  BY <1>5, <1>6, FrontOfAppend, Joined
  <2> QED BY <1>4, <1>6, <2>1 DEF Disks
<1>9. Walk(tree)[Start(f)].fails = "nothing" /\ Walk(tree)[Start(f)].at = a /\ On(tree, a).kind = "dir"
  <2>1. Follow(f) = Walk(tree)[Start(f)]  BY FollowIs
  <2> QED BY <1>3, <1>4, <1>8, <2>1 DEF Found, Real, On
<1>10. PICK l \in 0..4 : Walk(tree)[Longer(Start(f), n)] = Walk(tree)[At(a, n, l)]
  BY <1>9, StartLonger, WalkGoesOn
<1>11. Walk(tree)[At(a, n, l)] = Ends(q, "nothing")
  <2>1. PICK s \in Spots : s = At(a, n, l) /\ s.at = a /\ s.todo = n  BY <1>5, AtParts
  <2>2. s.at \o s.todo \in Places /\ tree[s.at \o s.todo].kind \in {"dir", "file"}
    BY <1>4, <1>6, <1>7, <2>1
  <2>3. Walk(tree)[s] = Ends(s.at \o s.todo, "nothing")  BY <2>2, RealIsItself
  <2> QED BY <1>7, <2>1, <2>3
<1>12. Real(p) = q
  <2>1. Longer(Start(f), n) = Start(p)  BY <1>2, StartLonger
  <2>2. Follow(p) = Walk(tree)[Start(p)]  BY FollowIs
  <2> QED BY <1>10, <1>11, <2>1, <2>2, EndsIs DEF Real
<1> QED BY <1>4, <1>6, <1>12

\* lstat sees a link at the place of a link.
LEMMA LinkSeen ==
    ASSUME tree \in Disks, NEW q \in Places, tree[q].kind = "link"
    PROVE  Lstat(q) = "link" /\ q # <<>>
<1>1. q # <<>> /\ q \in Paths  BY ContainmentAssumption DEF Disks
<1>2. Front(q) \in Places /\ tree[Front(q)].kind = "dir"  BY <1>1, ContainmentAssumption DEF Disks
<1>3. Follow(Front(q)) = Ends(Front(q), "nothing")  BY <1>2, FollowIs, WalkReal
<1>4. q = Append(Front(q), Last(q))  BY <1>1, FrontIs
<1>5. KindIn(Ends(Front(q), "nothing"), Last(q)) = "link"
  <2>1. PICK e : e = Ends(Front(q), "nothing")  OBVIOUS
  <2>2. e.at = Front(q) /\ e.fails = "nothing"  BY <2>1, EndsIs
  <2>3. NodeAt(e.at).kind = "dir" /\ NodeAt(Append(e.at, Last(q))).kind = "link"
    BY <1>2, <1>4, <2>2 DEF NodeAt
  <2>4. KindIn(e, Last(q)) = "link"  BY <2>2, <2>3 DEF KindIn
  <2> QED BY <2>1, <2>4
<1> QED BY <1>1, <1>3, <1>5 DEF Lstat

\* Below a root where the resolver sees no link the path is plain.
LEMMA NoneVia ==
    ASSUME tree \in Disks, NEW a \in Paths, NEW rel \in Paths, Valid(rel), ~Via(a, rel)
    PROVE  Plain(tree, a, Front(rel)) /\ Front(rel) \in Paths /\ rel # <<>>
           /\ rel = Front(rel) \o <<Last(rel)>> /\ <<Last(rel)>> \in Paths
<1>1. rel # <<>> /\ \A i \in 1..Len(rel) : rel[i] # ".."
  <2>1. Range(rel) = {rel[i] : i \in 1..Len(rel)}  BY RangeEquality DEF Paths
  <2> QED BY <2>1 DEF Valid
<1>2. Front(rel) \in Paths /\ rel = Front(rel) \o <<Last(rel)>> /\ <<Last(rel)>> \in Paths
      /\ Len(Front(rel)) = Len(rel) - 1 /\ Len(rel) \in Nat
  <2>1. Front(rel) \in Paths /\ Len(Front(rel)) = Len(rel) - 1 /\ Len(rel) \in Nat  BY <1>1, FrontIs, Joined
  <2> QED BY <1>1, <2>1, LastOf
<1>3. PICK f \in Paths : f = Front(rel)  BY <1>2
<1>4. ASSUME NEW q \in Paths, NEW r \in Paths, f = q \o r, q # <<>>
      PROVE  Last(q) # ".." /\ On(tree, a \o q).kind # "link"
  <2>1. PICK last \in Paths : last = <<Last(rel)>>  BY <1>2
  <2>2. rel = q \o (r \o last) /\ r \o last \in Paths
    <3>g1. Regroup(q, r, last)  BY <2>1, Assoc
    <3>1. (q \o r) \o last = q \o (r \o last)  BY <3>g1 DEF Regroup
    <3>2. r \o last \in Paths  BY <2>1, Joined
    <3> QED BY <1>2, <1>3, <1>4, <2>1, <3>1, <3>2
  <2>3. SubSeq(rel, 1, Len(q)) = q  BY <2>2, CutOf
  <2>4. Len(q) \in 1..(Len(rel) - 1)
    <3>1. Len(q \o r) = Len(q) + Len(r) /\ Len(q) \in Nat /\ Len(r) \in Nat /\ Len(q) > 0
      BY <1>4, Joined
    <3>2. Len(f) = Len(q) + Len(r) /\ Len(f) = Len(rel) - 1  BY <1>2, <1>3, <1>4, <3>1
    <3> QED BY <1>2, <3>1, <3>2
  <2>5. Lstat(a \o q) # "link"
    <3>1. Lstat(a \o SubSeq(rel, 1, Len(q))) # "link"  BY <2>4 DEF Via
    <3> QED BY <2>3, <3>1
  <2>6. On(tree, a \o q).kind # "link"
    <3>1. a \o q \in Places => tree[a \o q].kind # "link"  BY <2>5, LinkSeen
    <3> QED BY <3>1 DEF On, Vacant, Node
  <2>7. Last(q) # ".."
    <3>1. q[Len(q)] = rel[Len(q)]
      <4>1. Len(q) \in 1..(Len(q) + Len(r \o last))
        <5>1. Len(r \o last) \in Nat /\ Len(q) \in Nat  BY <2>2, Joined
        <5> QED BY <2>4, <5>1
      <4>2. PICK x \in Paths : x = r \o last  BY <2>2
      <4>3. (q \o x)[Len(q)] = q[Len(q)]  BY <2>4, <4>1, <4>2, ConcatProperties DEF Paths
      <4> QED BY <2>2, <4>2, <4>3
    <3> QED BY <1>1, <1>2, <2>4, <3>1 DEF Last
  <2> QED BY <2>6, <2>7
<1>5. Plain(tree, a, f)  BY <1>4 DEF Plain
<1> QED BY <1>1, <1>2, <1>3, <1>5

\* Only the empty path has no names.
LEMMA SomeNames == \A x \in Paths : x = <<>> <=> ~(Len(x) > 0)
<1>1. \A x \in Paths : (x = <<>> <=> Len(x) = 0) /\ Len(x) \in Nat  BY EmptySeq, Joined DEF Paths
<1> QED BY <1>1

\* What the resolver answers for a relative path without a link above it.
LEMMA Resolved ==
    ASSUME NEW rel \in Paths, Resolve(rel).says = "ok"
    PROVE  /\ Found(ConfigRoot)
           /\ Resolve(rel).state = Lstat(Real(ConfigRoot) \o rel)
           /\ Resolve(rel).via = Via(Real(ConfigRoot), rel)
           /\ Resolve(rel).path = Aim(Real(ConfigRoot), rel, Resolve(rel).state).path
           /\ Aim(Real(ConfigRoot), rel, Resolve(rel).state).says = "ok"
<1> DEFINE base == Follow(ConfigRoot)
           root == Real(ConfigRoot)
           state == Lstat(root \o rel)
           aim == Aim(root, rel, state)
<1>1. \A says : Refusal(says).says = says  BY DEF Refusal, Answer
<1>2. Resolve(rel) = ResolveFrom(base, rel)  BY DEF Resolve
<1>3. base.fails = "nothing" /\ Resolve(rel) = ResolveIn(root, rel, state)
  <2>1. CASE base.fails # "nothing" \/ base.at = <<>> \/ Follow(Home) = base
    <3>1. Resolve(rel) = Refusal("refused")  BY <1>2, <2>1 DEF ResolveFrom
    <3>2. Resolve(rel).says = "refused"  BY <1>1, <3>1
    <3> QED BY <3>2
  <2>2. CASE ~(base.fails # "nothing" \/ base.at = <<>> \/ Follow(Home) = base)
    BY <1>2, <2>2 DEF ResolveFrom, Real
  <2> QED BY <2>1, <2>2
<1>4. Resolve(rel) = Told(aim, state, Via(root, rel))
  <2>1. CASE state = "other"
    <3>1. Resolve(rel) = Refusal("refused")  BY <1>3, <2>1 DEF ResolveIn
    <3>2. Resolve(rel).says = "refused"  BY <1>1, <3>1
    <3> QED BY <3>2
  <2>2. CASE state # "other"  BY <1>3, <2>2 DEF ResolveIn
  <2> QED BY <2>1, <2>2
<1>5. aim.says = "ok"
  <2>1. SUFFICES ASSUME aim.says # "ok" PROVE FALSE  OBVIOUS
  <2> HIDE DEF aim, state
  <2>2. Resolve(rel) = Refusal(aim.says)  BY <1>4, <2>1 DEF Told
  <2>3. Resolve(rel).says = aim.says  BY <1>1, <2>2
  <2> QED BY <2>1, <2>3
<1>6. Resolve(rel) = Answer("ok", aim.path, state, Via(root, rel))
  <2> HIDE DEF aim, state
  <2> QED BY <1>4, <1>5 DEF Told
<1>7. Resolve(rel).path = aim.path /\ Resolve(rel).state = state /\ Resolve(rel).via = Via(root, rel)
  <2> HIDE DEF aim, state, root
  <2> QED BY <1>6 DEF Answer
<1> QED BY <1>3, <1>5, <1>7 DEF Found

\* The root it is looked for in is a place.
LEMMA RootIsPlace ==
    ASSUME tree \in Disks, Found(ConfigRoot)
    PROVE  /\ Real(ConfigRoot) \in Places /\ Real(ConfigRoot) \in Paths
           /\ tree[Real(ConfigRoot)].kind \in {"dir", "file"}
<1>1. Follow(ConfigRoot) = Walk(tree)[Start(ConfigRoot)] /\ ConfigRoot \in Paths  BY FollowIs, ContainmentAssumption
<1>2. Stands(tree, Real(ConfigRoot), <<>>)  BY <1>1, WalkEnd DEF Found, Real
<1> QED BY <1>2, ContainmentAssumption DEF Stands

\* The resolver says of a file with no link above it that it is where its
\* name says, below the real root.
LEMMA ResolvedFile ==
    ASSUME tree \in Disks, NEW rel \in Paths, Valid(rel),
           Resolve(rel).says = "ok", ~Resolve(rel).via, Resolve(rel).state = "file"
    PROVE  /\ Found(ConfigRoot) /\ Resolve(rel).path = Real(ConfigRoot) \o rel
           /\ Plain(tree, <<>>, Front(Real(ConfigRoot) \o rel))
<1> DEFINE root == Real(ConfigRoot)
           p == root \o rel
<1>1. /\ Found(ConfigRoot) /\ Lstat(p) = "file" /\ ~Via(root, rel)
      /\ Resolve(rel).path = Aim(root, rel, "file").path
  BY Resolved
<1>2. root \in Places /\ root \in Paths /\ tree[root].kind \in {"dir", "file"}
  BY <1>1, RootIsPlace
<1>3. Plain(tree, root, Front(rel)) /\ Front(rel) \in Paths /\ rel # <<>>
  BY <1>1, <1>2, NoneVia
<1>4. Plain(tree, <<>>, root \o Front(rel))  BY <1>2, <1>3, PlainBelow
<1>5. Front(p) = root \o Front(rel) /\ p \in Paths /\ p # <<>>  BY <1>2, <1>3, LastOf
<1>6. /\ Append(Real(Front(p)), Last(p)) \in Places
      /\ Lstat(p) = tree[Append(Real(Front(p)), Last(p))].kind
      /\ Append(Real(Front(p)), Last(p)) = p
  <2> HIDE DEF p
  <2> QED BY <1>1, <1>4, <1>5, LstatPlain
<1>7. p \in Places /\ tree[p].kind = "file"
  <2> HIDE DEF p
  <2> QED BY <1>1, <1>6
<1>8. Real(p) = p
  <2> HIDE DEF p
  <2>1. Follow(p) = Ends(p, "nothing")  BY <1>7, FollowIs, WalkReal
  <2> QED BY <2>1, EndsIs DEF Real
<1>9. Aim(root, rel, "file") = Judged(root, Real(p))  BY DEF Aim
<1>10. Aim(root, rel, "file").path = p  BY <1>8, <1>9 DEF Judged
<1> QED BY <1>1, <1>4, <1>5, <1>10

\* The greatest of some numbers.
LEMMA Greatest ==
    ASSUME NEW n \in Nat, NEW K \in SUBSET (0..n), K # {}
    PROVE  \E k \in K : \A j \in K : j <= k
<1> DEFINE L == {n - k : k \in K}
<1>1. L \in SUBSET Nat /\ L # {}
  <2>1. \A x \in L : x \in Nat  OBVIOUS
  <2>2. L # {}  OBVIOUS
  <2> HIDE DEF L
  <2> QED BY <2>1, <2>2
<1>2. PICK l \in L : \A j \in L : l <= j
  <2> HIDE DEF L
  <2> QED BY <1>1, Least
<1>3. PICK k \in K : l = n - k  BY <1>2
<1>4. ASSUME NEW j \in K PROVE j <= k
  <2>1. n - j \in L  OBVIOUS
  <2>2. l <= n - j  BY <1>2, <2>1
  <2> QED BY <1>3, <2>2
<1> QED BY <1>4

\* The nearest directory that is there exists.
LEMMA DeepestIs ==
    ASSUME NEW root \in Paths, NEW rel \in Paths, rel # <<>>, Lstat(root) # "missing"
    PROVE  /\ Deepest(root, rel) \in 0..(Len(rel) - 1)
           /\ \A j \in (Deepest(root, rel) + 1)..(Len(rel) - 1) :
                  Lstat(root \o SubSeq(rel, 1, j)) = "missing"
<1> DEFINE K == {k \in 0..(Len(rel) - 1) : Lstat(root \o SubSeq(rel, 1, k)) # "missing"}
           n == Len(rel) - 1
<1>1. Len(rel) \in Nat /\ n \in Nat /\ 0 \in 0..(Len(rel) - 1)
  <2>1. Len(rel) \in Nat /\ Len(rel) > 0  BY Joined
  <2> QED BY <2>1
<1>2. 0 \in K
  <2>1. root \o SubSeq(rel, 1, 0) = root
    <3>1. SubSeq(rel, 1, 0) = <<>>  BY SubSeqEmpty
    <3> QED BY <3>1, Joined
  <2>2. Lstat(root \o SubSeq(rel, 1, 0)) # "missing"  BY <2>1
  <2>3. PICK z : z = 0  OBVIOUS
  <2>4. z \in 0..(Len(rel) - 1)  BY <1>1, <2>3
  <2>5. Lstat(root \o SubSeq(rel, 1, z)) # "missing"  BY <2>2, <2>3
  <2>6. z \in K  BY <2>4, <2>5
  <2> QED BY <2>3, <2>6
<1>3. PICK k \in K : \A j \in K : j <= k
  <2> HIDE DEF K, n
  <2>1. K \in SUBSET (0..n)  BY DEF K, n
  <2> QED BY <1>1, <1>2, <2>1, Greatest
<1>4. /\ k \in 0..(Len(rel) - 1) /\ Lstat(root \o SubSeq(rel, 1, k)) # "missing"
      /\ \A j \in (k + 1)..(Len(rel) - 1) : Lstat(root \o SubSeq(rel, 1, j)) = "missing"
  <2>1. k \in 0..(Len(rel) - 1) /\ Lstat(root \o SubSeq(rel, 1, k)) # "missing"  BY <1>3
  <2>2. ASSUME NEW j \in (k + 1)..(Len(rel) - 1)
        PROVE  Lstat(root \o SubSeq(rel, 1, j)) = "missing"
    <3>1. j \in 0..(Len(rel) - 1) /\ ~(j <= k)  BY <1>1, <2>1, <2>2
    <3> QED BY <1>3, <3>1
  <2> QED BY <2>1, <2>2
<1> QED BY <1>4 DEF Deepest

\* The names of a path.
LEMMA NamesOf == \A x \in Paths : Range(x) = {x[i] : i \in 1..Len(x)}
  BY RangeEquality DEF Paths

\* No name of a valid path leads up.
LEMMA NoUp ==
    ASSUME NEW rel \in Paths, Valid(rel), NEW m \in Paths, NEW q \in Paths, NEW r \in Paths,
           q # <<>>, rel = (m \o q) \o r
    PROVE  Last(q) # ".."
<1>1. PICK z \in Paths : z = m \o q  BY Joined
<1>2. z # <<>> /\ Last(z) = Last(q)  BY <1>1, LastOf
<1>3. Len(z) \in Nat /\ Len(z) > 0 /\ Len(r) \in Nat /\ rel = z \o r /\ Len(rel) = Len(z) + Len(r)
  BY <1>1, <1>2, Joined
<1>4. rel[Len(z)] = z[Len(z)]  BY <1>3, ConcatProperties DEF Paths
<1>5. Len(z) \in 1..Len(rel)  BY <1>3
<1>6. Range(rel) = {rel[i] : i \in 1..Len(rel)}  BY NamesOf
<1>7. z[Len(z)] # ".."  BY <1>4, <1>5, <1>6 DEF Valid
<1> QED BY <1>2, <1>7 DEF Last

\* Nothing at a place is one of the nodes.
LEMMA VacantIs == Vacant \in Nodes /\ Vacant.kind = "none"
<1>1. PICK e \in Paths : e = <<>>  BY ContainmentAssumption
<1>2. "none" \in Kinds /\ "nothing" \in Contents  BY DEF Kinds, Contents
<1>3. [kind |-> "none", bytes |-> "nothing", to |-> e] \in Nodes  BY <1>2 DEF Nodes
<1>4. Vacant = [kind |-> "none", bytes |-> "nothing", to |-> e]  BY <1>1 DEF Vacant, Node
<1>5. Vacant \in Nodes  BY <1>3, <1>4
<1> QED BY <1>4, <1>5

\* What lstat misses in a directory that is there.
LEMMA MissedIn ==
    ASSUME tree \in Disks, NEW f \in Paths, NEW h \in STRING, Found(f), Lstat(Append(f, h)) = "missing"
    PROVE  /\ Real(f) \in Places /\ tree[Real(f)].kind = "dir"
           /\ On(tree, Append(Real(f), h)).kind = "none"
<1>1. Append(f, h) # <<>> /\ Front(Append(f, h)) = f /\ Last(Append(f, h)) = h  BY Joined, FrontOfAppend
<1>2. PICK up : up = Follow(f)  OBVIOUS
<1>3. KindIn(up, h) = "missing" /\ up.fails = "nothing" /\ Real(f) = up.at
  BY <1>1, <1>2 DEF Lstat, Found, Real
<1>4. Stands(tree, Real(f), <<>>)
  <2>1. Follow(f) = Walk(tree)[Start(f)]  BY FollowIs
  <2> QED BY <2>1, WalkEnd DEF Found, Real
<1>5. NodeAt(up.at).kind # "file" /\ NodeAt(Append(up.at, h)).kind = "none"
  <2>1. \A q : NodeAt(q).kind # "missing"
    <3>1. \A q \in Places : tree[q].kind \in Kinds  BY DEF Disks, Nodes
    <3>2. "missing" \notin Kinds  BY DEF Kinds
    <3> QED BY <3>1, <3>2, VacantIs DEF NodeAt
  <2> QED BY <1>3, <2>1 DEF KindIn
<1> QED BY <1>3, <1>4, <1>5 DEF Stands, NodeAt, On

\* Below a place where the next name is missing no link is on the path.
LEMMA PlainMissing ==
    ASSUME tree \in Disks, NEW a \in Places, tree[a].kind = "dir",
           NEW rel \in Paths, Valid(rel), NEW b \in Paths, NEW c \in Paths, rel = b \o c, c # <<>>,
           On(tree, Append(a, Head(c))).kind = "none"
    PROVE  Plain(tree, <<>>, Front(a \o c)) /\ a \o c \in Paths /\ a \o c # <<>>
<1>1. a \in Paths  BY ContainmentAssumption
<1>2. /\ Front(a \o c) = a \o Front(c) /\ Front(c) \in Paths /\ c = Front(c) \o <<Last(c)>>
      /\ <<Last(c)>> \in Paths /\ a \o c \in Paths /\ a \o c # <<>>
  BY <1>1, LastOf
<1>3. PICK f \in Paths, n \in Paths : f = Front(c) /\ n = <<Last(c)>> /\ c = f \o n  BY <1>2
<1>4. ASSUME NEW q \in Paths, NEW r \in Paths, f = q \o r, q # <<>>
      PROVE  Last(q) # ".." /\ On(tree, a \o q).kind # "link"
  <2>1. PICK z \in Paths : z = r \o n  BY Joined
  <2>2. c = q \o z
    <3>g1. Regroup(q, r, n)  BY Assoc
    <3>1. (q \o r) \o n = q \o (r \o n)  BY <3>g1 DEF Regroup
    <3> QED BY <1>3, <1>4, <2>1, <3>1
  <2>3. rel = (b \o q) \o z
    <3>g1. Regroup(b, q, z)  BY Assoc
    <3>1. (b \o q) \o z = b \o (q \o z)  BY <3>g1 DEF Regroup
    <3> QED BY <2>2, <3>1
  <2>4. Last(q) # ".."  BY <1>4, <2>3, NoUp
  <2>5. On(tree, a \o q).kind # "link"
    <3>1. SUFFICES ASSUME On(tree, a \o q).kind = "link" PROVE FALSE  OBVIOUS
    <3>2. a \o q \in Places /\ tree[a \o q].kind = "link"  BY <3>1, VacantIs DEF On
    <3>0. /\ Append(a, Head(q)) \in Paths /\ Tail(q) \in Paths /\ Head(q) \in STRING
          /\ Append(a, Head(q)) \o Tail(q) = a \o q
      BY <1>1, <1>4, HeadFirst, Zenon
    <3>3. PICK h \in STRING, l \in Paths : h = Head(q) /\ l = Tail(q) /\ Append(a, h) \in Paths
                                           /\ Append(a, h) \o l = a \o q
      BY <3>0
    <3>4. PICK d \in Paths : d = Append(a, h)  BY <3>3
    <3>5. d \in Places /\ (l # <<>> => tree[d].kind = "dir")
      <4>1. d \o l \in Places /\ tree[d \o l].kind # "none"  BY <3>2, <3>3, <3>4
      <4> QED BY <4>1, Chain
    <3>6. l = <<>> => d = a \o q  BY <3>3, <3>4, Joined
    <3>7. tree[d].kind # "none"  BY <3>2, <3>5, <3>6
    <3>8. Head(c) = h
      <4>1. /\ q = <<Head(q)>> \o Tail(q) /\ <<Head(q)>> \in Paths /\ c # <<>>  BY <1>4, HeadFirst
      <4>2. Head(q) = q[1] /\ Head(c) = c[1]  BY <1>4, HeadTailProperties DEF Paths
      <4>3. Len(q) \in Nat /\ Len(q) > 0 /\ Len(z) \in Nat  BY <1>4, Joined
      <4>4. (q \o z)[1] = q[1]  BY <4>3, ConcatProperties DEF Paths
      <4> QED BY <2>2, <3>3, <4>2, <4>4
    <3> QED BY <3>4, <3>5, <3>7, <3>8 DEF On
  <2> QED BY <2>4, <2>5
<1>5. Plain(tree, a, f)  BY <1>4 DEF Plain
<1>6. Plain(tree, <<>>, a \o f)  BY <1>5, PlainBelow
<1> QED BY <1>2, <1>3, <1>6

\* What is missing comes to be in the nearest directory that is there, links
\* above or not.
LEMMA MissingBelow ==
    ASSUME tree \in Disks, NEW rel \in Paths, Valid(rel),
           Resolve(rel).says = "ok", Resolve(rel).state = "missing"
    PROVE  \E b \in Paths, c \in Paths :
              /\ rel = b \o c /\ c # <<>> /\ Found(Real(ConfigRoot) \o b)
              /\ Real(ConfigRoot) \o b \in Paths
              /\ Resolve(rel).path = Real(Real(ConfigRoot) \o b) \o c
              /\ Checked(Real(ConfigRoot), Resolve(rel).path) = "ok"
              /\ Real(Real(ConfigRoot) \o b) \in Places
              /\ tree[Real(Real(ConfigRoot) \o b)].kind = "dir"
              /\ On(tree, Append(Real(Real(ConfigRoot) \o b), Head(c))).kind = "none"
<1> DEFINE root == Real(ConfigRoot)
<1>1. /\ Found(ConfigRoot) /\ Lstat(root \o rel) = "missing"
      /\ Resolve(rel).path = Beneath(root, rel).path /\ Beneath(root, rel).says = "ok"
  <2>1. Aim(root, rel, "missing") = Beneath(root, rel)  BY DEF Aim
  <2> QED BY <2>1, Resolved
<1>2. root \in Places /\ root \in Paths /\ tree[root].kind \in {"dir", "file"}
  BY <1>1, RootIsPlace
<1>3. rel # <<>>  BY DEF Valid
<1>4. Lstat(root) # "missing"
  <2>1. CASE root = <<>>  BY <2>1 DEF Lstat
  <2>2. CASE root # <<>>
    <3>1. Front(root) \in Places /\ tree[Front(root)].kind = "dir"  BY <1>2, <2>2, ContainmentAssumption DEF Disks
    <3>2. Follow(Front(root)) = Ends(Front(root), "nothing")  BY <3>1, FollowIs, WalkReal
    <3>3. root = Append(Front(root), Last(root))  BY <1>2, <2>2, FrontIs
    <3>4. PICK e : e = Ends(Front(root), "nothing")  OBVIOUS
    <3>5. e.at = Front(root) /\ e.fails = "nothing"  BY <3>4, EndsIs
    <3>6. NodeAt(e.at).kind = "dir" /\ NodeAt(Append(e.at, Last(root))).kind \in {"dir", "file"}
      BY <1>2, <3>1, <3>3, <3>5 DEF NodeAt
    <3>7. KindIn(e, Last(root)) # "missing"  BY <3>5, <3>6 DEF KindIn
    <3> QED BY <2>2, <3>2, <3>4, <3>7 DEF Lstat
  <2> QED BY <2>1, <2>2
<1>5. PICK k : /\ k = Deepest(root, rel) /\ k \in 0..(Len(rel) - 1)
               /\ \A j \in (k + 1)..(Len(rel) - 1) : Lstat(root \o SubSeq(rel, 1, j)) = "missing"
  <2> HIDE DEF root
  <2> QED BY <1>2, <1>3, <1>4, DeepestIs
<1>6. PICK b \in Paths, c \in Paths :
          b = SubSeq(rel, 1, k) /\ c = SubSeq(rel, k + 1, Len(rel)) /\ rel = b \o c /\ Len(c) > 0
          /\ Len(b) = k
  <2>1. Len(rel) \in Nat  BY Joined
  <2>2. k \in 0..Len(rel) /\ Len(rel) - k > 0  BY <1>5, <2>1
  <2> QED BY <2>2, Cut
<1>7. c # <<>> /\ root \o b \in Paths  BY <1>2, <1>6, SomeNames, Joined
<1> DEFINE above == Follow(root \o b)
<1>8. Beneath(root, rel) = Under(root, above, c)  BY <1>5, <1>6 DEF Beneath
<1>9. above.fails = "nothing" /\ Beneath(root, rel) = Judged(root, above.at \o c)
  <2>1. \A x : Judged(root, x).says = Checked(root, x)  BY DEF Judged
  <2>2. CASE above.fails # "nothing"
    <3>1. Beneath(root, rel) = [path |-> c, says |-> "refused"]
      <4> HIDE DEF above
      <4> QED BY <1>8, <2>2 DEF Under
    <3> QED BY <1>1, <3>1
  <2>3. CASE above.fails = "nothing" /\ above.at # root /\ Checked(root, above.at) # "ok"
    <3>1. Beneath(root, rel) = Judged(root, above.at)
      <4> HIDE DEF above, root
      <4> QED BY <1>8, <2>3 DEF Under
    <3> QED BY <1>1, <2>1, <2>3, <3>1
  <2>4. CASE above.fails = "nothing" /\ ~(above.at # root /\ Checked(root, above.at) # "ok")
    <3>1. Beneath(root, rel) = Judged(root, above.at \o c)
      <4> HIDE DEF above, root
      <4> QED BY <1>8, <2>4 DEF Under
    <3> QED BY <2>4, <3>1
  <2> QED BY <2>2, <2>3, <2>4
<1>10. /\ Found(root \o b) /\ Resolve(rel).path = Real(root \o b) \o c
       /\ Checked(root, Resolve(rel).path) = "ok"
  <2>1. PICK x : x = Real(root \o b) \o c  OBVIOUS
  <2>2. Beneath(root, rel) = Judged(root, x)  BY <1>9, <2>1 DEF Real
  <2>3. Judged(root, x).path = x /\ Judged(root, x).says = Checked(root, x)  BY DEF Judged
  <2> HIDE DEF root, above
  <2> QED BY <1>1, <1>9, <2>1, <2>2, <2>3 DEF Found, above
<1>11. Lstat(Append(root \o b, Head(c))) = "missing"
  <2>0. c = <<Head(c)>> \o Tail(c) /\ <<Head(c)>> \in Paths /\ Tail(c) \in Paths /\ Head(c) \in STRING
    BY <1>7, HeadFirst, Zenon
  <2>1. PICK h \in Paths, l \in Paths : h = <<Head(c)>> /\ l = Tail(c) /\ c = h \o l
    BY <2>0
  <2>2. PICK z \in Paths : z = b \o h /\ rel = z \o l
    <3>g1. Regroup(b, h, l)  BY Assoc
    <3>1. (b \o h) \o l = b \o (h \o l)  BY <3>g1 DEF Regroup
    <3>2. PICK z \in Paths : z = b \o h  BY Joined
    <3> QED BY <1>6, <2>1, <3>1, <3>2
  <2>3. Append(root \o b, Head(c)) = root \o z
    <3>0. PICK f \in Paths, e \in STRING : f = root \o b /\ e = Head(c)  BY <1>7, <2>0
    <3>1. Append(f, e) = f \o <<e>>  BY Joined
    <3>g2. Regroup(root, b, h)  BY <1>2, Assoc
    <3>2. (root \o b) \o h = root \o (b \o h)  BY <3>g2 DEF Regroup
    <3> QED BY <2>1, <2>2, <3>0, <3>1, <3>2
  <2>4. Len(z) = k + 1
    <3>1. Len(h) = 1  BY <2>1
    <3>2. Len(b \o h) = Len(b) + Len(h)  BY Joined
    <3> QED BY <1>6, <2>2, <3>1, <3>2
  <2>5. CASE l = <<>>
    <3>1. rel = z  BY <2>2, <2>5, Joined
    <3> QED BY <1>1, <2>3, <3>1
  <2>6. CASE l # <<>>
    <3>1. Len(l) \in Nat /\ Len(l) > 0 /\ Len(rel) = Len(z) + Len(l)  BY <2>2, <2>6, Joined
    <3>2. PICK i \in Nat, n \in Nat : i = Len(l) /\ n = Len(rel)  BY <3>1, Joined
    <3>3. k \in 0..(n - 1) /\ i > 0 /\ n = (k + 1) + i  BY <1>5, <2>4, <3>1, <3>2
    <3>4. k + 1 \in (k + 1)..(n - 1)  BY <3>3
    <3>5. Lstat(root \o SubSeq(rel, 1, k + 1)) = "missing"  BY <1>5, <3>2, <3>4
    <3>6. SubSeq(rel, 1, k + 1) = z
      <4>1. SubSeq(z \o l, 1, Len(z)) = z  BY CutOf
      <4> QED BY <2>2, <2>4, <4>1
    <3> QED BY <2>3, <3>5, <3>6
  <2> QED BY <2>5, <2>6
<1>12. /\ Real(root \o b) \in Places /\ tree[Real(root \o b)].kind = "dir"
       /\ On(tree, Append(Real(root \o b), Head(c))).kind = "none"
  <2>1. PICK f \in Paths, h \in STRING : f = root \o b /\ h = Head(c)  BY <1>7, HeadTail
  <2>2. Found(f) /\ Lstat(Append(f, h)) = "missing"  BY <1>10, <1>11, <2>1
  <2> QED BY <2>1, <2>2, MissedIn
<1> QED BY <1>6, <1>7, <1>10, <1>12

\* Without a link above it, it comes to be where its name says.
LEMMA ResolvedMissing ==
    ASSUME tree \in Disks, NEW rel \in Paths, Valid(rel),
           Resolve(rel).says = "ok", ~Resolve(rel).via, Resolve(rel).state = "missing"
    PROVE  /\ Found(ConfigRoot) /\ Resolve(rel).path = Real(ConfigRoot) \o rel
           /\ Plain(tree, <<>>, Front(Real(ConfigRoot) \o rel))
<1>1. Found(ConfigRoot) /\ ~Via(Real(ConfigRoot), rel)  BY Resolved
<1>2. PICK root \in Places : root = Real(ConfigRoot) /\ root \in Paths /\ tree[root].kind \in {"dir", "file"}
  BY <1>1, RootIsPlace
<1>3. Plain(tree, root, Front(rel)) /\ Front(rel) \in Paths /\ rel # <<>>  BY <1>1, <1>2, NoneVia
<1>4. Plain(tree, <<>>, root \o Front(rel))  BY <1>2, <1>3, PlainBelow
<1>5. Front(root \o rel) = root \o Front(rel)  BY <1>2, <1>3, LastOf
<1>6. PICK b \in Paths, c \in Paths :
          /\ rel = b \o c /\ c # <<>> /\ Found(root \o b) /\ root \o b \in Paths
          /\ Resolve(rel).path = Real(root \o b) \o c
  BY <1>2, MissingBelow
<1>7. PICK d \in Paths : d = root \o b  BY <1>6
<1>8. Plain(tree, <<>>, d)
  <2>1. Front(b \o c) = b \o Front(c) /\ Front(c) \in Paths  BY <1>6, LastOf
  <2>2. PICK f \in Paths, e \in Paths : f = Front(c) /\ e = <<>>  BY <2>1, Joined
  <2>3. root \o Front(rel) = d \o f
    <3>g1. Regroup(root, b, f)  BY <1>2, Assoc
    <3>1. (root \o b) \o f = root \o (b \o f)  BY <3>g1 DEF Regroup
    <3> QED BY <1>6, <1>7, <2>1, <2>2, <3>1
  <2>4. Plain(tree, e, d \o f)  BY <1>4, <2>2, <2>3
  <2> QED BY <2>2, <2>4, PlainBeginning
<1>9. Real(d) = d
  <2>1. Follow(d) = Walk(tree)[Start(d)]  BY FollowIs
  <2>2. Walk(tree)[Start(d)].fails = "nothing"  BY <1>6, <1>7, <2>1 DEF Found
  <2>3. Walk(tree)[Start(d)].at = d  BY <1>8, <2>2, WalkPlain
  <2> QED BY <2>1, <2>3 DEF Real
<1>10. (root \o b) \o c = root \o rel
  <2>g1. Regroup(root, b, c)  BY <1>2, Assoc
  <2>1. (root \o b) \o c = root \o (b \o c)  BY <2>g1 DEF Regroup
  <2> QED BY <1>6, <2>1
<1> QED BY <1>1, <1>2, <1>4, <1>5, <1>6, <1>7, <1>9, <1>10

\* Beginnings of a path, and what goes on from them.
Begins(a, p) == \E r \in Paths : p = a \o r

\* Of prefixes in terms of joined paths.
LEMMA PrefixIs == \A a, p \in Paths : IsPrefix(a, p) <=> Begins(a, p)
<1> SUFFICES ASSUME NEW a \in Paths, NEW p \in Paths PROVE IsPrefix(a, p) <=> Begins(a, p)
  OBVIOUS
<1>1. Len(a) \in Nat /\ Len(p) \in Nat  BY Joined
<1>2. SubSeq(a, 1, Len(a)) = a  BY SubSeqFull DEF Paths
<1>3. ASSUME IsPrefix(a, p) PROVE Begins(a, p)
  <2>1. Len(a) <= Len(p) /\ SubSeq(p, 1, Len(a)) = a  BY <1>2, <1>3 DEF IsPrefix
  <2>2. Len(a) \in 0..Len(p)  BY <1>1, <2>1
  <2>3. PICK r \in Paths : r = SubSeq(p, Len(a) + 1, Len(p))  BY <2>2, Cut
  <2>4. p = SubSeq(p, 1, Len(a)) \o r  BY <2>2, <2>3, Cut
  <2>5. p = a \o r  BY <2>1, <2>4
  <2> QED BY <2>5 DEF Begins
<1>4. ASSUME Begins(a, p) PROVE IsPrefix(a, p)
  <2>1. PICK r \in Paths : p = a \o r  BY <1>4 DEF Begins
  <2>2. Len(r) \in Nat /\ Len(p) = Len(a) + Len(r)  BY <2>1, Joined
  <2>3. SubSeq(p, 1, Len(a)) = a
    <3>1. SubSeq(a \o r, 1, Len(a)) = a  BY CutOf
    <3> QED BY <2>1, <3>1
  <2>4. Len(a) <= Len(p)  BY <1>1, <2>2
  <2> QED BY <1>2, <2>3, <2>4 DEF IsPrefix
<1> QED BY <1>3, <1>4

\* What two paths have in common at their beginnings can be taken off.
LEMMA Cancel ==
    ASSUME NEW a \in Paths, NEW x \in Paths, NEW y \in Paths, a \o x = a \o y
    PROVE  x = y
<1> DEFINE n(p) == SubSeq(p, Len(a) + 1, Len(p))
<1>1. n(a \o x) = x /\ n(a \o y) = y  BY CutOf
<1>2. PICK p : p = a \o x  OBVIOUS
<1>3. p = a \o y  BY <1>2
<1>4. n(p) = x  BY <1>1, <1>2
<1>5. n(p) = y  BY <1>1, <1>3
<1> QED BY <1>4, <1>5

\* Of strict prefixes in the same terms.
LEMMA Strictly ==
    ASSUME NEW a \in Paths, NEW p \in Paths
    PROVE  IsStrictPrefix(a, p) <=> \E r \in Paths : r # <<>> /\ p = a \o r
<1>1. ASSUME IsStrictPrefix(a, p) PROVE \E r \in Paths : r # <<>> /\ p = a \o r
  <2>1. IsPrefix(a, p) /\ a # p  BY <1>1 DEF IsStrictPrefix
  <2>2. PICK r \in Paths : p = a \o r  BY <2>1, PrefixIs DEF Begins
  <2>3. r # <<>>  BY <2>1, <2>2, Joined
  <2> QED BY <2>2, <2>3
<1>2. ASSUME NEW r \in Paths, r # <<>>, p = a \o r PROVE IsStrictPrefix(a, p)
  <2>1. IsPrefix(a, p)  BY <1>2, PrefixIs DEF Begins
  <2>2. a # p  BY <1>2, ConcatApart
  <2> QED BY <2>1, <2>2 DEF IsStrictPrefix
<1> QED BY <1>1, <1>2

\* The places below a that are on the way to c, the end of it among them.
OnWay(a, c, p) == \E r \in Paths, d \in Paths : c = r \o d /\ p = a \o r /\ r # <<>>

\* The way in the terms of the operators of the model.
LEMMA OnWayIs ==
    ASSUME NEW a \in Paths, NEW c \in Paths, c # <<>>, NEW p \in Paths
    PROVE  /\ OnWay(a, c, p) <=> IsStrictPrefix(a, p) /\ (IsStrictPrefix(p, a \o c) \/ p = a \o c)
<1>1. a \o c \in Paths  BY Joined
<1>2. ASSUME OnWay(a, c, p) PROVE IsStrictPrefix(a, p) /\ (IsStrictPrefix(p, a \o c) \/ p = a \o c)
  <2>1. PICK r \in Paths, d \in Paths : c = r \o d /\ p = a \o r /\ r # <<>>  BY <1>2 DEF OnWay
  <2>2. IsStrictPrefix(a, p)  BY <2>1, Strictly
  <2>3. a \o c = p \o d
    <3>g1. Regroup(a, r, d)  BY Assoc
    <3>1. (a \o r) \o d = a \o (r \o d)  BY <3>g1 DEF Regroup
    <3> QED BY <2>1, <3>1
  <2>4. IsPrefix(p, a \o c)  BY <1>1, <2>3, PrefixIs DEF Begins
  <2> QED BY <2>2, <2>4 DEF IsStrictPrefix
<1>3. ASSUME IsStrictPrefix(a, p), IsStrictPrefix(p, a \o c) \/ p = a \o c PROVE OnWay(a, c, p)
  <2>1. PICK r \in Paths : r # <<>> /\ p = a \o r  BY <1>3, Strictly
  <2>2. PICK d \in Paths : a \o c = p \o d
    <3>1. CASE IsStrictPrefix(p, a \o c)  BY <1>1, <3>1, Strictly
    <3>2. CASE p = a \o c
      <4>1. a \o c = p \o <<>>  BY <3>2, Joined
      <4> QED BY <4>1, Joined
    <3> QED BY <1>3, <3>1, <3>2
  <2>3. PICK z \in Paths : z = r \o d  BY Joined
  <2>4. a \o c = a \o z
    <3>g1. Regroup(a, r, d)  BY Assoc
    <3>1. (a \o r) \o d = a \o (r \o d)  BY <3>g1 DEF Regroup
    <3> QED BY <2>1, <2>2, <2>3, <3>1
  <2>5. c = z  BY <2>4, Cancel
  <2> QED BY <2>1, <2>3, <2>5 DEF OnWay
<1> QED BY <1>2, <1>3

\* Nothing is on the way yet, and above each is the next, or a itself.
LEMMA WayIsFree ==
    ASSUME NEW t \in Disks, NEW a \in Places, NEW c \in Paths, c # <<>>,
           On(t, Append(a, Head(c))).kind = "none", NEW p \in Places, OnWay(a, c, p)
    PROVE  /\ t[p].kind = "none" /\ p # <<>>
           /\ Front(p) = a \/ (OnWay(a, c, Front(p)) /\ Front(p) # a \o c)
<1>1. a \in Paths /\ p \in Paths  BY ContainmentAssumption
<1>2. PICK r \in Paths, d \in Paths : c = r \o d /\ p = a \o r /\ r # <<>>  BY DEF OnWay
<1>3. /\ p # <<>> /\ Front(p) = a \o Front(r) /\ Front(r) \in Paths
      /\ r = Front(r) \o <<Last(r)>> /\ <<Last(r)>> \in Paths /\ <<Last(r)>> # <<>>
  BY <1>1, <1>2, LastOf
<1>4. Head(c) = Head(r)
  <2>1. /\ r = <<Head(r)>> \o Tail(r) /\ <<Head(r)>> \in Paths /\ Tail(r) \in Paths
        /\ Head(r) \in STRING
    BY <1>2, HeadFirst
  <2>2. PICK h \in Paths, l \in Paths : h = <<Head(r)>> /\ l = Tail(r)  BY <2>1
  <2>3. c = h \o (l \o d)
    <3>g1. Regroup(h, l, d)  BY Assoc
    <3>1. (h \o l) \o d = h \o (l \o d)  BY <3>g1 DEF Regroup
    <3> QED BY <1>2, <2>1, <2>2, <3>1
  <2>4. PICK m \in Paths : m = l \o d  BY Joined
  <2>5. c = <<Head(r)>> \o m  BY <2>2, <2>3, <2>4
  <2>6. \A s \in STRING : Head(<<s>> \o m) = s
    <3> SUFFICES ASSUME NEW s \in STRING PROVE Head(<<s>> \o m) = s  OBVIOUS
    <3>1. <<s>> \in Seq(STRING) /\ m \in Seq(STRING)  BY DEF Paths
    <3>2. Len(<<s>>) = 1 /\ Len(m) \in Nat  BY <3>1, LenProperties
    <3>3. (<<s>> \o m)[1] = <<s>>[1]  BY <3>1, <3>2, ConcatProperties
    <3>4. <<s>> \o m \in Seq(STRING) /\ <<s>> \o m # <<>>
      <4>1. Len(<<s>> \o m) = 1 + Len(m)  BY <3>1, <3>2, ConcatProperties
      <4>2. <<s>> \o m \in Seq(STRING)  BY <3>1, ConcatProperties
      <4> QED BY <3>2, <4>1, <4>2, EmptySeq
    <3>5. Head(<<s>> \o m) = (<<s>> \o m)[1]  BY <3>4, HeadTailProperties
    <3> QED BY <3>3, <3>5
  <2> QED BY <2>1, <2>5, <2>6
<1>5. t[p].kind = "none"
  <2>1. SUFFICES ASSUME t[p].kind # "none" PROVE FALSE  OBVIOUS
  <2>2. PICK b \in Paths, l \in Paths : b = Append(a, Head(r)) /\ l = Tail(r)  BY <1>1, <1>2, HeadFirst
  <2>3. p = b \o l
    <3>1. Append(a, Head(r)) \o Tail(r) = a \o r  BY <1>1, <1>2, HeadFirst
    <3> QED BY <1>2, <2>2, <3>1
  <2>4. b \o l \in Places /\ t[b \o l].kind # "none"  BY <2>1, <2>3
  <2>5. b \in Places /\ (l # <<>> => t[b].kind = "dir")  BY <2>4, Chain
  <2>6. On(t, b).kind = "none"  BY <1>4, <2>2
  <2>7. t[b].kind = "none"  BY <2>5, <2>6 DEF On
  <2>8. l = <<>>  BY <2>5, <2>7
  <2>9. p = b  BY <2>3, <2>8, Joined
  <2> QED BY <2>1, <2>7, <2>9
<1>6. Front(p) = a \/ (OnWay(a, c, Front(p)) /\ Front(p) # a \o c)
  <2>1. CASE Front(r) = <<>>
    <3>1. Front(p) = a  BY <1>1, <1>3, <2>1, Joined
    <3> QED BY <3>1
  <2>2. CASE Front(r) # <<>>
    <3>1. PICK f \in Paths, e \in Paths, u \in Paths :
              f = Front(r) /\ e = <<Last(r)>> /\ u = e \o d  BY <1>3, Joined
    <3>2. c = f \o u
      <4>g1. Regroup(f, e, d)  BY Assoc
      <4>1. (f \o e) \o d = f \o (e \o d)  BY <4>g1 DEF Regroup
      <4> QED BY <1>2, <1>3, <3>1, <4>1
    <3>3. Front(p) = a \o f /\ f # <<>>  BY <1>3, <2>2, <3>1
    <3>4. OnWay(a, c, Front(p))  BY <3>2, <3>3 DEF OnWay
    <3>5. Front(p) # a \o c
      <4>1. SUFFICES ASSUME Front(p) = a \o c PROVE FALSE  OBVIOUS
      <4>2. a \o f = a \o c  BY <3>3, <4>1
      <4>3. f = c  BY <1>1, <4>2, Cancel
      <4>4. f \o u = f  BY <3>2, <4>3
      <4>5. u = <<>>  BY <4>4, ConcatApart
      <4>6. e \o d = <<>>  BY <3>1, <4>5
      <4>7. e = <<>>  BY <4>6, ConcatApart
      <4> QED BY <1>3, <3>1, <4>7
    <3> QED BY <3>4, <3>5
  <2> QED BY <2>1, <2>2
<1> QED BY <1>3, <1>5, <1>6

Versions == {"omm", "newer"}

\* The file of a release is one of the nodes.
LEMMA FileIs ==
    ASSUME version \in Versions
    PROVE  FileOf(version) \in Nodes /\ FileOf(version).kind = "file"
<1>1. PICK e \in Paths : e = <<>>  BY ContainmentAssumption
<1>2. "file" \in Kinds /\ version \in Contents  BY DEF Kinds, Contents, Versions
<1>3. [kind |-> "file", bytes |-> version, to |-> e] \in Nodes  BY <1>2 DEF Nodes
<1>4. FileOf(version) = [kind |-> "file", bytes |-> version, to |-> e]  BY <1>1 DEF FileOf, Node
<1>5. FileOf(version) \in Nodes  BY <1>3, <1>4
<1> QED BY <1>4, <1>5

\* The disk with a file at the end of a way and the directories above it.
Made(a, c) ==
    [p \in Places |->
        IF p = a \o c THEN FileOf(version)
        ELSE IF IsStrictPrefix(a, p) /\ IsStrictPrefix(p, a \o c) THEN Directory ELSE tree[p]]

\* The disk with the new file is a disk, has all that was there, and only
\* this file and directories more.
LEMMA MadeIs ==
    ASSUME tree \in Disks, version \in Versions,
           NEW a \in Places, NEW c \in Paths, c # <<>>, a \o c \in Places,
           tree[a].kind = "dir", On(tree, Append(a, Head(c))).kind = "none"
    PROVE  /\ Made(a, c) \in Disks /\ Grown(tree, Made(a, c))
           /\ tree[a \o c].kind = "none" /\ Made(a, c)[a \o c].kind = "file"
           /\ \A p \in Places : OnWay(a, c, p) /\ p # a \o c => Made(a, c)[p].kind = "dir"
           /\ \A p \in Places : p # a \o c /\ Made(a, c)[p] # tree[p] =>
                  tree[p].kind = "none" /\ Made(a, c)[p].kind = "dir"
<1> DEFINE u == Made(a, c)
           w == a \o c
<1>1. a \in Paths /\ w \in Paths  BY ContainmentAssumption
<1>2. OnWay(a, c, w)
  <2>1. c = c \o <<>> /\ <<>> \in Paths  BY Joined
  <2> QED BY <2>1 DEF OnWay
<1>3. u[w] = FileOf(version)  BY DEF Made
<1>4. \A p \in Places : OnWay(a, c, p) /\ p # w => u[p] = Directory
  <2> SUFFICES ASSUME NEW p \in Places, OnWay(a, c, p), p # w PROVE u[p] = Directory
    OBVIOUS
  <2>1. p \in Paths  BY ContainmentAssumption
  <2>2. IsStrictPrefix(a, p) /\ IsStrictPrefix(p, w)  BY <1>1, <2>1, OnWayIs
  <2> QED BY <2>2 DEF Made
<1>5. \A p \in Places : ~OnWay(a, c, p) => u[p] = tree[p]
  <2> SUFFICES ASSUME NEW p \in Places, ~OnWay(a, c, p) PROVE u[p] = tree[p]
    OBVIOUS
  <2>1. p \in Paths  BY ContainmentAssumption
  <2>2. ~(IsStrictPrefix(a, p) /\ IsStrictPrefix(p, w))  BY <1>1, <2>1, OnWayIs
  <2>3. p # w  BY <1>2
  <2> QED BY <2>2, <2>3 DEF Made
<1>6. \A p \in Places : OnWay(a, c, p) =>
          tree[p].kind = "none" /\ p # <<>>
          /\ (Front(p) = a \/ (OnWay(a, c, Front(p)) /\ Front(p) # w))
  BY WayIsFree
<1>7. Directory \in Nodes /\ Directory.kind = "dir" /\ FileOf(version) \in Nodes /\ FileOf(version).kind = "file"
  <2>1. PICK e \in Paths : e = <<>>  BY Joined
  <2>2. "dir" \in Kinds /\ "nothing" \in Contents  BY DEF Kinds, Contents
  <2>3. [kind |-> "dir", bytes |-> "nothing", to |-> e] \in Nodes  BY <2>2 DEF Nodes
  <2>4. Directory = [kind |-> "dir", bytes |-> "nothing", to |-> e]  BY <2>1 DEF Directory, Node
  <2>5. Directory \in Nodes  BY <2>3, <2>4
  <2> QED BY <2>4, <2>5, FileIs
<1>8. tree \in [Places -> Nodes] /\ tree[<<>>].kind = "dir" /\ <<>> \in Places
      /\ \A p \in Places \ {<<>>} : Front(p) \in Places /\ (tree[p].kind # "none" => tree[Front(p)].kind = "dir")
  BY ContainmentAssumption DEF Disks
<1>9. u \in [Places -> Nodes]
  <2>1. \A p \in Places : u[p] \in Nodes
    <3> SUFFICES ASSUME NEW p \in Places PROVE u[p] \in Nodes  OBVIOUS
    <3>1. CASE p = w  BY <1>3, <1>7, <3>1
    <3>2. CASE p # w /\ OnWay(a, c, p)  BY <1>4, <1>7, <3>2
    <3>3. CASE ~OnWay(a, c, p)  BY <1>5, <1>8, <3>3
    <3> QED BY <3>1, <3>2, <3>3
  <2>2. u = [p \in Places |-> u[p]]  BY DEF Made
  <2> HIDE DEF u
  <2> QED BY <2>1, <2>2
<1> HIDE DEF u, w
<1>10. ~OnWay(a, c, a)  BY <1>6, <1>8, ContainmentAssumption
<1>11. u[a] = tree[a]  BY <1>5, <1>10
<1>12. Grown(tree, u)
  <2> SUFFICES ASSUME NEW p \in Places, tree[p].kind # "none" PROVE u[p] = tree[p]  BY DEF Grown
  <2> QED BY <1>5, <1>6
<1>13. u \in Disks
  <2>1. u[<<>>].kind = "dir"  BY <1>5, <1>6, <1>8
  <2>2. ASSUME NEW p \in Places \ {<<>>}, u[p].kind # "none" PROVE u[Front(p)].kind = "dir"
    <3>1. CASE OnWay(a, c, p)
      <4>1. CASE Front(p) = a  BY <1>11, <4>1
      <4>2. CASE OnWay(a, c, Front(p)) /\ Front(p) # w
        <5>1. Front(p) \in Places  BY <1>8
        <5> QED BY <1>4, <1>7, <4>2, <5>1
      <4> QED BY <1>6, <3>1, <4>1, <4>2
    <3>2. CASE ~OnWay(a, c, p)
      <4>1. tree[p].kind # "none"  BY <1>5, <2>2, <3>2
      <4>2. tree[Front(p)].kind = "dir" /\ Front(p) \in Places  BY <1>8, <4>1
      <4> QED BY <1>12, <4>2 DEF Grown
    <3> QED BY <3>1, <3>2
  <2> QED BY <1>9, <2>1, <2>2 DEF Disks
<1>14. tree[w].kind = "none"
  <2>1. w \in Places  BY DEF w
  <2> QED BY <1>2, <1>6, <2>1
<1>15. \A p \in Places : OnWay(a, c, p) /\ p # w => u[p].kind = "dir"  BY <1>4, <1>7
<1>16. \A p \in Places : p # w /\ u[p] # tree[p] => tree[p].kind = "none" /\ u[p].kind = "dir"
  BY <1>4, <1>5, <1>6, <1>7
<1>17. u[w].kind = "file"  BY <1>3, <1>7
<1> QED BY <1>12, <1>13, <1>14, <1>15, <1>16, <1>17 DEF u, w

\* The file is made below the deepest beginning of its path that is there.
LEMMA WithFileIs ==
    ASSUME tree \in Disks, NEW path \in Paths, path # <<>>, NEW x \in WithFile(path)
    PROVE  \E b \in Paths, c \in Paths :
              /\ path = b \o c /\ c # <<>> /\ Found(b)
              /\ \A m \in Paths, n \in Paths :
                     path = m \o n /\ n # <<>> /\ Len(m) > Len(b) => ~Found(m)
              /\ Real(b) \in Places /\ Real(b) \o c \in Places /\ tree[Real(b)].kind = "dir"
              /\ On(tree, Append(Real(b), Head(c))).kind = "none"
              /\ x = Made(Real(b), c)
<1> DEFINE n == Len(path) - 1
           K == {k \in 0..n : Found(SubSeq(path, 1, k))}
           Good(k) == /\ Found(SubSeq(path, 1, k))
                      /\ \A j \in (k + 1)..(Len(path) - 1) : ~Found(SubSeq(path, 1, j))
           k == CHOOSE k \in 0..(Len(path) - 1) : Good(k)
<1>1. Len(path) \in Nat /\ n \in Nat /\ Len(path) > 0
  <2>1. Len(path) \in Nat /\ Len(path) > 0  BY Joined
  <2> QED BY <2>1
<1>2. \E i \in 0..(Len(path) - 1) : Good(i)
  <2>1. Found(<<>>)
    <3>1. Start(<<>>) \in Spots /\ Start(<<>>).todo = <<>>  BY ContainmentAssumption, StartIs
    <3>2. Follow(<<>>).fails = "nothing"  BY <3>1, FollowIs, Arrived
    <3> QED BY <3>2 DEF Found
  <2>2. K # {}
    <3>1. SubSeq(path, 1, 0) = <<>>  BY SubSeqEmpty
    <3>2. PICK z : z = 0  OBVIOUS
    <3>3. SubSeq(path, 1, z) = <<>>  BY <3>1, <3>2
    <3>4. z \in 0..n  BY <1>1, <3>2
    <3>5. Found(SubSeq(path, 1, z))  BY <2>1, <3>3
    <3>6. z \in K  BY <3>4, <3>5
    <3> QED BY <3>6
  <2>3. PICK i \in K : \A j \in K : j <= i
    <3>1. K \in SUBSET (0..n)  OBVIOUS
    <3> HIDE DEF K, n
    <3> QED BY <1>1, <2>2, <3>1, Greatest
  <2>4. i \in 0..(Len(path) - 1) /\ Found(SubSeq(path, 1, i))  BY <2>3
  <2>5. ASSUME NEW j \in (i + 1)..(Len(path) - 1) PROVE ~Found(SubSeq(path, 1, j))
    <3>1. j \in 0..n /\ ~(j <= i)  BY <1>1, <2>4, <2>5
    <3>2. j \notin K  BY <2>3, <3>1
    <3> QED BY <3>1, <3>2
  <2> QED BY <2>4, <2>5
<1>3. k \in 0..(Len(path) - 1) /\ Good(k)
  <2> HIDE DEF Good
  <2> QED BY <1>2
<1> DEFINE at == Real(SubSeq(path, 1, k))
           whole == at \o SubSeq(path, k + 1, Len(path))
           grown == [p \in Places |->
             IF p = whole THEN FileOf(version)
             ELSE IF IsStrictPrefix(at, p) /\ IsStrictPrefix(p, whole) THEN Directory ELSE tree[p]]
<1>4. /\ x = grown /\ whole \in Places /\ NodeAt(at).kind = "dir"
      /\ NodeAt(Append(at, path[k + 1])).kind = "none"
  BY DEF WithFile
<1> HIDE DEF k
<1>5. PICK b \in Paths, c \in Paths :
          b = SubSeq(path, 1, k) /\ c = SubSeq(path, k + 1, Len(path)) /\ path = b \o c
          /\ Len(c) > 0 /\ Len(b) = k
  <2>1. k \in 0..Len(path) /\ Len(path) - k > 0  BY <1>1, <1>3
  <2> QED BY <2>1, Cut
<1>6. c # <<>> /\ Head(c) = path[k + 1]
  <2>1. c # <<>>  BY <1>5, SomeNames
  <2>2. Head(c) = c[1]
    <3>1. c \in Seq(STRING)  BY DEF Paths
    <3> QED BY <2>1, <3>1, HeadTailProperties
  <2>3. k + 1 \in Int /\ Len(path) \in Int /\ k + 1 <= Len(path)  BY <1>1, <1>3
  <2>4. c[1] = path[k + 1]
    <3>1. PICK m \in Int, l \in Int : m = k + 1 /\ l = Len(path)  BY <2>3
    <3>2. \A i \in m..l : path[i] \in STRING
      <4>1. \A i \in 1..Len(path) : path[i] \in STRING  BY ElementOfSeq DEF Paths
      <4>2. \A i \in m..l : i \in 1..Len(path)  BY <1>3, <3>1
      <4> QED BY <4>1, <4>2
    <3>3. \A i \in 1..(l - m + 1) : SubSeq(path, m, l)[i] = path[m + i - 1]
      BY <3>2, SubSeqProperties
    <3>4. 1 \in 1..(l - m + 1) /\ m + 1 - 1 = m  BY <2>3, <3>1
    <3>5. SubSeq(path, m, l)[1] = path[m + 1 - 1]  BY <3>3, <3>4
    <3>6. SubSeq(path, m, l)[1] = path[m]  BY <3>4, <3>5
    <3> QED BY <1>5, <3>1, <3>6
  <2> QED BY <2>1, <2>2, <2>4
<1>7. Found(b)  BY <1>3, <1>5
<1>8. ASSUME NEW m \in Paths, NEW l \in Paths, path = m \o l, l # <<>>, Len(m) > Len(b)
      PROVE  ~Found(m)
  <2>1. Len(m) \in Nat /\ Len(l) \in Nat /\ Len(l) > 0 /\ Len(path) = Len(m) + Len(l)
    BY <1>8, Joined
  <2>2. Len(m) \in (k + 1)..(Len(path) - 1)
    <3>1. PICK i \in Nat, j \in Nat, h \in Nat : i = Len(m) /\ j = Len(l) /\ h = Len(path)
      BY <1>1, <2>1
    <3>2. k \in 0..(h - 1) /\ i > k /\ j > 0 /\ h = i + j  BY <1>3, <1>5, <1>8, <2>1, <3>1
    <3>3. i \in (k + 1)..(h - 1)  BY <3>2
    <3> QED BY <3>1, <3>3
  <2>3. ~Found(SubSeq(path, 1, Len(m)))  BY <1>3, <2>2
  <2>4. SubSeq(path, 1, Len(m)) = m
    <3>1. SubSeq(m \o l, 1, Len(m)) = m  BY CutOf
    <3> QED BY <1>8, <3>1
  <2> QED BY <2>3, <2>4
<1>9. at = Real(b) /\ whole = Real(b) \o c  BY <1>5
<1>10. Real(b) \in Places /\ tree[Real(b)].kind = "dir"
  <2>1. NodeAt(Real(b)).kind = "dir"  BY <1>4, <1>9
  <2>2. Vacant.kind = "none"  BY DEF Vacant, Node
  <2> QED BY <2>1, <2>2 DEF NodeAt
<1>11. Real(b) \o c \in Places  BY <1>4, <1>9
<1>12. On(tree, Append(Real(b), Head(c))).kind = "none"  BY <1>4, <1>6, <1>9 DEF On, NodeAt
<1>13. x = Made(Real(b), c)
  <2> HIDE DEF at, whole
  <2> QED BY <1>4, <1>9 DEF Made
<1> QED BY <1>5, <1>6, <1>7, <1>8, <1>10, <1>11, <1>12, <1>13

\* The file that comes or goes between two disks is this one only.
OnlyFile(t, u, w) ==
    \A p \in Places : "file" \in {t[p].kind, u[p].kind} /\ u[p] # t[p] => p = w

\* What is made comes below where that beginning leads.
LEMMA MadeOnly ==
    ASSUME tree \in Disks, version \in Versions, NEW path \in Paths, path # <<>>, NEW x \in WithFile(path)
    PROVE  \E b \in Paths, c \in Paths :
              /\ path = b \o c /\ c # <<>> /\ Found(b) /\ Real(b) \in Places
              /\ tree[Real(b)].kind = "dir" /\ Real(b) \o c \in Places
              /\ x \in Disks /\ Grown(tree, x) /\ x[Real(b) \o c].kind = "file"
              /\ OnlyFile(tree, x, Real(b) \o c)
<1>1. PICK b \in Paths, c \in Paths :
              /\ path = b \o c /\ c # <<>> /\ Found(b)
              /\ Real(b) \in Places /\ Real(b) \o c \in Places /\ tree[Real(b)].kind = "dir"
              /\ On(tree, Append(Real(b), Head(c))).kind = "none"
              /\ x = Made(Real(b), c)
  BY WithFileIs
<1>2. PICK a \in Places : a = Real(b)  BY <1>1
<1>3. /\ Made(a, c) \in Disks /\ Grown(tree, Made(a, c))
      /\ Made(a, c)[a \o c].kind = "file"
      /\ \A p \in Places : p # a \o c /\ Made(a, c)[p] # tree[p] =>
             tree[p].kind = "none" /\ Made(a, c)[p].kind = "dir"
  <2>1. /\ a \o c \in Places /\ tree[a].kind = "dir"
        /\ On(tree, Append(a, Head(c))).kind = "none"
    BY <1>1, <1>2
  <2> QED BY <1>1, <2>1, MadeIs
<1>4. PICK u : u = Made(a, c)  OBVIOUS
<1>5. \A p \in Places : p # a \o c /\ u[p] # tree[p] => tree[p].kind = "none" /\ u[p].kind = "dir"
  BY <1>3, <1>4
<1>6. OnlyFile(tree, u, a \o c)
  <2> SUFFICES ASSUME NEW p \in Places, "file" \in {tree[p].kind, u[p].kind}, u[p] # tree[p],
                      p # a \o c
               PROVE  FALSE
    BY DEF OnlyFile
  <2>1. tree[p].kind = "none" /\ u[p].kind = "dir"  BY <1>5
  <2>2. tree[p].kind = "file" \/ u[p].kind = "file"  OBVIOUS
  <2> QED BY <2>1, <2>2
<1>7. x = u /\ u \in Disks /\ Grown(tree, u) /\ u[a \o c].kind = "file"  BY <1>1, <1>2, <1>3, <1>4
<1>8. x \in Disks /\ Grown(tree, x) /\ x[Real(b) \o c].kind = "file" /\ OnlyFile(tree, x, Real(b) \o c)
  BY <1>2, <1>6, <1>7
<1> QED BY <1>1, <1>8

\* Where no link is above it, the file comes to be where its path says.
LEMMA MadeThere ==
    ASSUME tree \in Disks, version \in Versions,
           NEW path \in Paths, path # <<>>, Plain(tree, <<>>, Front(path)),
           NEW x \in WithFile(path)
    PROVE  /\ x \in Disks /\ Grown(tree, x) /\ OnlyFile(tree, x, path)
           /\ path \in Places /\ x[path].kind = "file"
<1>1. PICK b \in Paths, c \in Paths :
              /\ path = b \o c /\ c # <<>> /\ Found(b)
              /\ x \in Disks /\ Grown(tree, x)
              /\ Real(b) \o c \in Places /\ x[Real(b) \o c].kind = "file"
              /\ OnlyFile(tree, x, Real(b) \o c)
  BY MadeOnly
<1>2. Front(path) = b \o Front(c) /\ Front(c) \in Paths
  BY <1>1, LastOf
<1>3. PICK f \in Paths, e \in Paths : f = Front(c) /\ e = <<>>  BY <1>2, Joined
<1>4. Plain(tree, e, b \o f)  BY <1>2, <1>3
<1>5. Plain(tree, <<>>, b)  BY <1>3, <1>4, PlainBeginning
<1>6. Real(b) = b
  <2>1. Follow(b) = Walk(tree)[Start(b)]  BY FollowIs
  <2>2. Walk(tree)[Start(b)].fails = "nothing"  BY <1>1, <2>1 DEF Found
  <2>3. Walk(tree)[Start(b)].at = b  BY <1>5, <2>2, WalkPlain
  <2> QED BY <2>1, <2>3 DEF Real
<1>7. OnlyFile(tree, x, path) /\ path \in Places /\ x[path].kind = "file"  BY <1>1, <1>6
<1> QED BY <1>1, <1>7

\* Where there was no root, the file comes to be below the one that is made.
LEMMA MadeBelow ==
    ASSUME tree \in Disks, version \in Versions,
           NEW root \in Paths, NEW rel \in Paths, rel # <<>>, ~Found(root),
           NEW x \in WithFile(root \o rel)
    PROVE  x \in Disks /\ Grown(tree, x) /\ OnlyFile(tree, x, Walk(x)[Start(root)].at \o rel)
<1>0. PICK path \in Paths : path = root \o rel /\ path # <<>>  BY LastOf
<1>1. PICK b \in Paths, c \in Paths :
              /\ path = b \o c /\ c # <<>> /\ Found(b) /\ Real(b) \in Places
              /\ tree[Real(b)].kind = "dir" /\ Real(b) \o c \in Places
              /\ x \in Disks /\ Grown(tree, x) /\ x[Real(b) \o c].kind = "file"
              /\ OnlyFile(tree, x, Real(b) \o c)
  <2>1. x \in WithFile(path)  BY <1>0
  <2> QED BY <1>0, <2>1, MadeOnly
<1>2. ~GoesOn(b, c, root, rel)
  <2>1. SUFFICES ASSUME GoesOn(b, c, root, rel) PROVE FALSE  OBVIOUS
  <2>2. PICK y \in Paths : b = root \o y  BY <2>1 DEF GoesOn
  <2>3. Follow(b) = Walk(tree)[Start(b)] /\ Follow(root) = Walk(tree)[Start(root)]  BY FollowIs
  <2>4. Longer(Start(root), y) = Start(b) /\ Start(root) \in Spots
    <3>1. Longer(Start(root), y) = Start(root \o y) /\ Start(root) \in Spots  BY StartLonger
    <3> QED BY <2>2, <3>1
  <2>5. Walk(tree)[Longer(Start(root), y)].fails = "nothing"  BY <1>1, <2>3, <2>4 DEF Found
  <2>6. Walk(tree)[Start(root)].fails = "nothing"  BY <2>4, <2>5, BeginningFound
  <2> QED BY <2>3, <2>6 DEF Found
<1>3. PICK y \in Paths : root = b \o y /\ c = y \o rel
  <2>1. GoesOn(root, rel, b, c)  BY <1>0, <1>1, <1>2, Levi
  <2> QED BY <2>1 DEF GoesOn
<1>4. PICK a \in Places : a = Real(b)  BY <1>1
<1>5. a \in Paths  BY ContainmentAssumption
<1>6. PICK q \in Paths : q = a \o y  BY <1>5, Joined
<1>7. a \o c = q \o rel
  <2>g1. Regroup(a, y, rel)  BY <1>5, Assoc
  <2>1. (a \o y) \o rel = a \o (y \o rel)  BY <2>g1 DEF Regroup
  <2> QED BY <1>3, <1>6, <2>1
<1>8. q \in Places /\ x[q].kind = "dir"
  <2>1. q \o rel \in Places /\ x[q \o rel].kind = "file"  BY <1>1, <1>4, <1>7
  <2> QED BY <1>1, <2>1, Chain
<1>9. Walk(x)[Start(b)].at = a /\ Walk(x)[Start(b)].fails = "nothing" /\ On(x, a).kind = "dir"
  <2>1. Follow(b) = Walk(tree)[Start(b)]  BY FollowIs
  <2>2. Walk(tree)[Start(b)].fails = "nothing" /\ Walk(tree)[Start(b)].at = a
    BY <1>1, <1>4, <2>1 DEF Found, Real
  <2>3. Start(b) \in Spots  BY StartLonger
  <2>4. Walk(x)[Start(b)] = Walk(tree)[Start(b)]  BY <1>1, <2>2, <2>3, GrownOn
  <2>5. tree[a].kind = "dir"  BY <1>1, <1>4
  <2>6. x[a] = tree[a]  BY <1>1, <2>5 DEF Grown
  <2> QED BY <2>2, <2>4, <2>5, <2>6 DEF On
<1>10. PICK l \in 0..4 : Walk(x)[Longer(Start(b), y)] = Walk(x)[At(a, y, l)]
  <2>1. Start(b) \in Spots  BY StartLonger
  <2> QED BY <1>1, <1>9, <2>1, WalkGoesOn
<1>11. Walk(x)[At(a, y, l)] = Ends(q, "nothing")
  <2>1. At(a, y, l) \in Spots /\ At(a, y, l).at = a /\ At(a, y, l).todo = y  BY <1>5, AtParts
  <2>2. PICK s \in Spots : s = At(a, y, l)  BY <2>1
  <2>3. s.at = a /\ s.todo = y  BY <2>1, <2>2
  <2>4. s.at \o s.todo = q  BY <1>6, <2>3
  <2>5. Walk(x)[s] = Ends(q, "nothing")
    <3>1. s.at \o s.todo \in Places /\ x[s.at \o s.todo].kind \in {"dir", "file"}  BY <1>8, <2>4
    <3>2. Walk(x)[s] = Ends(s.at \o s.todo, "nothing")  BY <1>1, <3>1, RealIsItself
    <3> QED BY <2>4, <3>2
  <2> QED BY <2>2, <2>5
<1>12. Walk(x)[Start(root)].at = q
  <2>1. Longer(Start(b), y) = Start(root)
    <3>1. Longer(Start(b), y) = Start(b \o y)  BY StartLonger
    <3> QED BY <1>3, <3>1
  <2> QED BY <1>10, <1>11, <2>1, EndsIs
<1>13. OnlyFile(tree, x, q \o rel)  BY <1>1, <1>4, <1>7
<1>14. OnlyFile(tree, x, Walk(x)[Start(root)].at \o rel)  BY <1>12, <1>13
<1> QED BY <1>1, <1>14

Tasks == [rel : Wanted, path : Paths, bytes : Contents]
Goings == [on : BOOLEAN, root : Paths, todo : SUBSET Tasks, missing : SUBSET Wanted,
           left : SUBSET Wanted, touched : SUBSET Paths, failed : BOOLEAN]
Mergings == [on : BOOLEAN, todo : SUBSET Wanted, done : SUBSET Wanted]
CTypeOK ==
    /\ tree \in Disks /\ own \in SUBSET Wanted /\ entries \subseteq own
    /\ going \in Goings /\ swapped \in BOOLEAN /\ moves \in Nat
    /\ version \in Versions /\ merging \in Mergings

\* What the plan has in it is omm's, and is where its path says until the user
\* makes a link.
Task(t, s) == s.path = going.root \o s.rel /\ Plain(t, <<>>, Front(s.path))
PlanIsOwn ==
    /\ merging.on => ~going.on
    /\ going.todo # {} => going.on
    /\ going.left \subseteq own
    /\ \A s \in going.todo : s.path # <<>> /\ s.rel \in own /\ (swapped \/ Task(tree, s))
CInv == CTypeOK /\ PlanIsOwn

\* No uninstall is a state of one.
LEMMA NotGoingIs ==
    /\ NotGoing \in Goings /\ NotGoing.todo = {} /\ NotGoing.left = {} /\ NotGoing.on = FALSE
<1>1. PICK e \in Paths : e = <<>>  BY ContainmentAssumption
<1>2. [on |-> FALSE, root |-> e, todo |-> {}, missing |-> {},
       left |-> {}, touched |-> {}, failed |-> FALSE] \in Goings
  BY DEF Goings
<1>3. NotGoing = [on |-> FALSE, root |-> e, todo |-> {}, missing |-> {},
                  left |-> {}, touched |-> {}, failed |-> FALSE]
  BY <1>1 DEF NotGoing
<1>4. NotGoing \in Goings  BY <1>2, <1>3
<1> QED BY <1>3, <1>4

\* What canonicalize computes after a step is a walk over the next disk.
LEMMA FollowNext == \A path : Follow(path)' = Walk(tree')[Start(path)]
  BY DEF Follow, Walk, Strides, Spots, Start, Ends, Up, Into, Along, NodeAt, On

\* A file that is looked at only leaves the disk as it is.
LEMMA ProbeIs ==
    ASSUME CInv, NEW rel \in Wanted, Probe(rel).says = "ok", ~Probe(rel).via,
           Probe(rel).state = "missing", NEW x \in WithFile(Probe(rel).path)
    PROVE  x \in Disks /\ OnlyFile(tree, x, Walk(x)[Start(ConfigRoot)].at \o rel)
<1>1. /\ tree \in Disks /\ version \in Versions
      /\ rel \in Paths /\ Valid(rel) /\ rel # <<>> /\ ConfigRoot \in Paths
  BY ContainmentAssumption DEF CInv, CTypeOK, Valid
<1>2. CASE Found(ConfigRoot)
  <2>1. Probe(rel) = Resolve(rel)  BY <1>2 DEF Probe
  <2>2. /\ Resolve(rel).path = Real(ConfigRoot) \o rel
        /\ Plain(tree, <<>>, Front(Real(ConfigRoot) \o rel))
    BY <1>1, <2>1, ResolvedMissing
  <2>3. Real(ConfigRoot) \in Paths  BY <1>1, <1>2, RootIsPlace
  <2>4. PICK path \in Paths : path = Real(ConfigRoot) \o rel /\ path # <<>>  BY <1>1, <2>3, LastOf
  <2>5. x \in Disks /\ Grown(tree, x) /\ OnlyFile(tree, x, path)
    <3>1. Plain(tree, <<>>, Front(path)) /\ x \in WithFile(path)  BY <2>1, <2>2, <2>4
    <3> QED BY <1>1, <2>4, <3>1, MadeThere
  <2>6. Walk(x)[Start(ConfigRoot)].at = Real(ConfigRoot)
    <3>1. Follow(ConfigRoot) = Walk(tree)[Start(ConfigRoot)]  BY FollowIs
    <3>2. Start(ConfigRoot) \in Spots  BY <1>1, StartIs
    <3>3. Walk(tree)[Start(ConfigRoot)].fails = "nothing"  BY <1>2, <3>1 DEF Found
    <3>4. Walk(x)[Start(ConfigRoot)] = Walk(tree)[Start(ConfigRoot)]
      BY <1>1, <2>5, <3>2, <3>3, GrownOn
    <3> QED BY <3>1, <3>4 DEF Real
  <2> QED BY <2>4, <2>5, <2>6
<1>3. CASE ~Found(ConfigRoot)
  <2>1. Probe(rel).path = ConfigRoot \o rel  BY <1>3 DEF Probe, Answer
  <2>2. x \in WithFile(ConfigRoot \o rel)  BY <2>1
  <2> QED BY <1>1, <1>3, <2>2, MadeBelow
<1> QED BY <1>2, <1>3

\* A file that is overwritten is the only one that changes, and every path leads
\* where it led.
LEMMA Rewritten ==
    ASSUME tree \in Disks, version \in Versions, NEW p \in Places, tree[p].kind = "file",
           NEW x, x = [tree EXCEPT ![p] = FileOf(version)]
    PROVE  /\ x \in Disks /\ OnlyFile(tree, x, p)
           /\ \A path \in Paths : Walk(x)[Start(path)] = Walk(tree)[Start(path)]
<1>1. FileOf(version) \in Nodes /\ FileOf(version).kind = "file"  BY FileIs
<1>2. x \in [Places -> Nodes] /\ x[p] = FileOf(version) /\ \A q \in Places : q # p => x[q] = tree[q]
  BY <1>1 DEF Disks
<1>3. \A q \in Places : x[q].kind = tree[q].kind  BY <1>1, <1>2
<1>4. x \in Disks  BY <1>2, <1>3, ContainmentAssumption DEF Disks
<1>5. Alike(tree, x)  BY <1>2, <1>3 DEF Alike
<1>6. OnlyFile(tree, x, p)  BY <1>2 DEF OnlyFile
<1>7. \A s \in Spots : Walk(x)[s] = Walk(tree)[s]  BY <1>4, <1>5, AlikeOn
<1> QED BY <1>4, <1>6, <1>7, StartIs

\* A file that install overwrites is at its place under the root.
LEMMA ProbeFile ==
    ASSUME CInv, NEW rel \in Wanted, Probe(rel).says = "ok", ~Probe(rel).via,
           Probe(rel).state = "file", NEW x, x = [tree EXCEPT ![Probe(rel).path] = FileOf(version)]
    PROVE  x \in Disks /\ OnlyFile(tree, x, Walk(x)[Start(ConfigRoot)].at \o rel)
<1>1. /\ tree \in Disks /\ version \in Versions
      /\ rel \in Paths /\ Valid(rel) /\ rel # <<>> /\ ConfigRoot \in Paths
  BY ContainmentAssumption DEF CInv, CTypeOK, Valid
<1>2. Probe(rel) = Resolve(rel)
  <2>1. Answer("ok", ConfigRoot \o rel, "missing", FALSE).state = "missing"  BY DEF Answer
  <2> QED BY <2>1 DEF Probe
<1>3. /\ Found(ConfigRoot) /\ Resolve(rel).path = Real(ConfigRoot) \o rel
      /\ Plain(tree, <<>>, Front(Real(ConfigRoot) \o rel))
  BY <1>1, <1>2, ResolvedFile
<1>4. Real(ConfigRoot) \in Paths  BY <1>1, <1>3, RootIsPlace
<1>5. PICK path \in Paths : path = Real(ConfigRoot) \o rel /\ path # <<>>  BY <1>1, <1>4, LastOf
<1>6. Lstat(path) = "file"
  <2>1. Resolve(rel).state = Lstat(Real(ConfigRoot) \o rel)  BY <1>1, <1>2, Resolved
  <2> QED BY <1>2, <1>5, <2>1
<1>7. path \in Places /\ tree[path].kind = "file"
  <2>1. Plain(tree, <<>>, Front(path))  BY <1>3, <1>5
  <2> QED BY <1>1, <1>5, <1>6, <2>1, FileWhere
<1>8. x = [tree EXCEPT ![path] = FileOf(version)]  BY <1>2, <1>3, <1>5
<1>9. /\ x \in Disks /\ OnlyFile(tree, x, path)
      /\ Walk(x)[Start(ConfigRoot)] = Walk(tree)[Start(ConfigRoot)]
  BY <1>1, <1>7, <1>8, Rewritten
<1>10. Walk(x)[Start(ConfigRoot)].at = Real(ConfigRoot)
  <2>1. Follow(ConfigRoot) = Walk(tree)[Start(ConfigRoot)]  BY FollowIs
  <2> QED BY <1>9, <2>1 DEF Real
<1> QED BY <1>5, <1>9, <1>10

\* install makes or overwrites one file, at its place under the root there is
\* then.
LEMMA InstallKeeps ==
    ASSUME CInv, NEW rel \in Wanted, InstallFile(rel)
    PROVE  CInv' /\ OwnPlaces
<1>1. /\ ~going.on /\ ~merging.on /\ entries' = entries \cup {rel} /\ own' = own \cup {rel}
      /\ going' = going /\ merging' = merging /\ version' = version
      /\ swapped' = swapped /\ moves' = moves
  BY DEF InstallFile, Idle
<1>2. /\ tree \in Disks /\ own \in SUBSET Wanted /\ entries \subseteq own
      /\ going \in Goings /\ swapped \in BOOLEAN /\ moves \in Nat
      /\ version \in Versions /\ merging \in Mergings
      /\ going.todo = {} /\ going.left \subseteq own
  BY <1>1 DEF CInv, CTypeOK, PlanIsOwn
<1>3. tree' = tree \/ (tree' \in Disks /\ OnlyFile(tree, tree', Walk(tree')[Start(ConfigRoot)].at \o rel))
  <2>1. CASE tree' = tree  BY <2>1
  <2>2. CASE tree' # tree
    <3>1. PICK r : r = Probe(rel)  OBVIOUS
    <3>2. /\ r.says = "ok" /\ ~r.via
          /\ r.state \in {"missing", "file"} /\ tree' \in Written(r)
      BY <2>2, <3>1 DEF InstallFile
    <3>3. PICK x : x = tree'  OBVIOUS
    <3>4. CASE r.state = "missing"
      <4>1. x \in WithFile(Probe(rel).path)  BY <3>1, <3>2, <3>3, <3>4 DEF Written
      <4>2. x \in Disks /\ OnlyFile(tree, x, Walk(x)[Start(ConfigRoot)].at \o rel)
        BY <3>1, <3>2, <3>4, <4>1, ProbeIs
      <4> QED BY <3>3, <4>2
    <3>5. CASE r.state = "file"
      <4>1. x = [tree EXCEPT ![Probe(rel).path] = FileOf(version)]
        BY <3>1, <3>2, <3>3, <3>5 DEF Written
      <4>2. x \in Disks /\ OnlyFile(tree, x, Walk(x)[Start(ConfigRoot)].at \o rel)
        BY <3>1, <3>2, <3>5, <4>1, ProbeFile
      <4> QED BY <3>3, <4>2
    <3> QED BY <3>2, <3>4, <3>5
  <2> QED BY <2>1, <2>2
<1>4. CInv'
  <2>1. tree' \in Disks  BY <1>2, <1>3
  <2>2. own' \in SUBSET Wanted /\ entries' \subseteq own'  BY <1>1, <1>2
  <2>3. CTypeOK'  BY <1>1, <1>2, <2>1, <2>2 DEF CTypeOK
  <2>4. PlanIsOwn'  BY <1>1, <1>2 DEF PlanIsOwn
  <2> QED BY <2>3, <2>4 DEF CInv
<1>5. OwnPlaces
  <2> SUFFICES ASSUME tree' # tree, NEW p \in Places,
                      "file" \in {tree[p].kind, tree'[p].kind}, tree'[p] # tree[p]
               PROVE  \E e \in own' : p = Real(ConfigRoot)' \o e
    BY <1>1 DEF OwnPlaces
  <2>1. p = Walk(tree')[Start(ConfigRoot)].at \o rel  BY <1>3 DEF OnlyFile
  <2>2. Real(ConfigRoot)' = Walk(tree')[Start(ConfigRoot)].at
    <3>1. Real(ConfigRoot)' = Follow(ConfigRoot)'.at  BY DEF Real
    <3> QED BY <3>1, FollowNext
  <2>3. rel \in own'  BY <1>1
  <2> QED BY <2>1, <2>2, <2>3
<1> QED BY <1>4, <1>5

\* The plan of an update touches no file.
LEMMA PlanMergeKeeps ==
    ASSUME CInv, PlanMerge
    PROVE  CInv' /\ OwnPlaces
<1>1. PICK at : merging' = [on |-> TRUE,
                            todo |-> {e \in Wanted : Verdict(e, at[e]) = "overwrite"},
                            done |-> {e \in Wanted : Verdict(e, at[e]) = "adopt"}]
  BY DEF PlanMerge
<1>2. merging' \in Mergings  BY <1>1 DEF Mergings
<1>3. /\ ~going.on /\ tree' = tree /\ version' = version /\ entries' = entries /\ going' = going
      /\ own' = own /\ swapped' = swapped /\ moves' = moves
  BY DEF PlanMerge, Idle
<1>4. CTypeOK'  BY <1>2, <1>3 DEF CInv, CTypeOK
<1>5. PlanIsOwn'  BY <1>3 DEF CInv, PlanIsOwn, Task
<1> QED BY <1>3, <1>4, <1>5 DEF CInv, OwnPlaces

\* Where an entry leads after a step.
LEMMA LedNext ==
    \A e : LedTo(e)' = Walk(tree')[Start(Walk(tree')[Start(ConfigRoot)].at \o e)].at
  BY DEF LedTo, Real, Follow, Walk, Strides, Spots, Start, Ends, Up, Into, Along, NodeAt, On

\* The path that the resolver allows is strictly below the root.
LEMMA AllowedIs ==
    ASSUME NEW root, NEW path, Checked(root, path) = "ok"
    PROVE  IsStrictPrefix(root, path)
  BY DEF Checked, IsStrictPrefix

\* An update writes one file, where its path leads, and that is inside the root.
LEMMA MergedIs ==
    ASSUME tree \in Disks, version \in Versions, NEW rel \in Wanted,
           Resolve(rel).says = "ok", Resolve(rel).state \in {"missing", "file"},
           NEW x \in Written(Resolve(rel))
    PROVE  \E p \in Places :
              /\ x \in Disks /\ OnlyFile(tree, x, p)
              /\ IsStrictPrefix(Walk(x)[Start(ConfigRoot)].at, p)
              /\ p = Walk(x)[Start(Walk(x)[Start(ConfigRoot)].at \o rel)].at
<1>1. rel \in Paths /\ Valid(rel) /\ rel # <<>> /\ ConfigRoot \in Paths
  BY ContainmentAssumption DEF Valid
<1>2. /\ Found(ConfigRoot) /\ Resolve(rel).state = Lstat(Real(ConfigRoot) \o rel)
      /\ Resolve(rel).path = Aim(Real(ConfigRoot), rel, Resolve(rel).state).path
      /\ Aim(Real(ConfigRoot), rel, Resolve(rel).state).says = "ok"
  BY <1>1, Resolved
<1>3. PICK root \in Places : root = Real(ConfigRoot) /\ root \in Paths  BY <1>2, RootIsPlace
<1>4. PICK path \in Paths : path = root \o rel /\ path # <<>>  BY <1>1, <1>3, LastOf
<1>5. Follow(ConfigRoot) = Walk(tree)[Start(ConfigRoot)] /\ Start(ConfigRoot) \in Spots
      /\ Walk(tree)[Start(ConfigRoot)].fails = "nothing" /\ Walk(tree)[Start(ConfigRoot)].at = root
  BY <1>1, <1>2, <1>3, FollowIs, StartIs DEF Found, Real
<1>6. CASE Resolve(rel).state = "file"
  <2>1. Aim(root, rel, "file") = Judged(root, Real(path))  BY <1>4 DEF Aim
  <2>2. Resolve(rel).path = Real(path) /\ Checked(root, Real(path)) = "ok"
    <3>1. PICK q : q = Real(path)  OBVIOUS
    <3>2. Judged(root, q).path = q /\ Judged(root, q).says = Checked(root, q)  BY DEF Judged
    <3> QED BY <1>2, <1>3, <1>6, <2>1, <3>1, <3>2
  <2>3. Lstat(path) = "file"  BY <1>2, <1>3, <1>4, <1>6
  <2>4. PICK p \in Places : p = Real(path) /\ tree[p].kind = "file"  BY <1>4, <2>3, FileWhere
  <2>5. x = [tree EXCEPT ![p] = FileOf(version)]  BY <1>6, <2>2, <2>4 DEF Written
  <2>6. /\ x \in Disks /\ OnlyFile(tree, x, p)
        /\ \A y \in Paths : Walk(x)[Start(y)] = Walk(tree)[Start(y)]
    BY <2>4, <2>5, Rewritten
  <2>7. Walk(x)[Start(ConfigRoot)].at = root  BY <1>1, <1>5, <2>6
  <2>8. Walk(x)[Start(path)].at = p
    <3>1. Follow(path) = Walk(tree)[Start(path)]  BY FollowIs
    <3>2. Walk(x)[Start(path)] = Walk(tree)[Start(path)]  BY <2>6
    <3> QED BY <2>4, <3>1, <3>2 DEF Real
  <2>9. IsStrictPrefix(root, p)  BY <2>2, <2>4, AllowedIs
  <2>10. /\ IsStrictPrefix(Walk(x)[Start(ConfigRoot)].at, p)
         /\ p = Walk(x)[Start(Walk(x)[Start(ConfigRoot)].at \o rel)].at
    BY <1>4, <2>7, <2>8, <2>9
  <2> QED BY <2>6, <2>10
<1>7. CASE Resolve(rel).state = "missing"
  <2>1. PICK b \in Paths, c \in Paths :
              /\ rel = b \o c /\ c # <<>> /\ Found(root \o b) /\ root \o b \in Paths
              /\ Resolve(rel).path = Real(root \o b) \o c /\ Checked(root, Resolve(rel).path) = "ok"
              /\ Real(root \o b) \in Places /\ tree[Real(root \o b)].kind = "dir"
              /\ On(tree, Append(Real(root \o b), Head(c))).kind = "none"
    BY <1>1, <1>3, <1>7, MissingBelow
  <2>2. PICK f \in Paths, a \in Places : f = root \o b /\ a = Real(f)  BY <2>1
  <2>3. a \in Paths  BY ContainmentAssumption
  <2>4. Plain(tree, <<>>, Front(a \o c)) /\ a \o c \in Paths /\ a \o c # <<>>
    BY <1>1, <2>1, <2>2, PlainMissing
  <2>5. PICK p \in Paths : p = a \o c /\ p # <<>> /\ Plain(tree, <<>>, Front(p))  BY <2>4
  <2>6. Resolve(rel).path = p  BY <2>1, <2>2, <2>5
  <2>7. x \in WithFile(p)  BY <1>7, <2>6 DEF Written
  <2>8. x \in Disks /\ Grown(tree, x) /\ OnlyFile(tree, x, p) /\ p \in Places /\ x[p].kind = "file"
    BY <2>5, <2>7, MadeThere
  <2>9. Walk(x)[Start(ConfigRoot)].at = root
    <3>1. Walk(x)[Start(ConfigRoot)] = Walk(tree)[Start(ConfigRoot)]  BY <1>5, <2>8, GrownOn
    <3> QED BY <1>5, <3>1
  <2>10. Walk(x)[Start(f)].at = a /\ Walk(x)[Start(f)].fails = "nothing" /\ On(x, a).kind = "dir"
    <3>1. Follow(f) = Walk(tree)[Start(f)] /\ Start(f) \in Spots  BY FollowIs, StartIs
    <3>2. Walk(tree)[Start(f)].fails = "nothing" /\ Walk(tree)[Start(f)].at = a
      BY <2>1, <2>2, <3>1 DEF Found, Real
    <3>3. Walk(x)[Start(f)] = Walk(tree)[Start(f)]  BY <2>8, <3>1, <3>2, GrownOn
    <3>4. tree[a].kind = "dir"  BY <2>1, <2>2
    <3>5. x[a] = tree[a]  BY <2>8, <3>4 DEF Grown
    <3> QED BY <3>2, <3>3, <3>4, <3>5 DEF On
  <2>11. PICK l \in 0..4 : Walk(x)[Longer(Start(f), c)] = Walk(x)[At(a, c, l)]
    BY <2>8, <2>10, StartLonger, WalkGoesOn
  <2>12. Walk(x)[At(a, c, l)] = Ends(p, "nothing")
    <3>1. PICK s \in Spots : s = At(a, c, l) /\ s.at = a /\ s.todo = c  BY <2>3, AtParts
    <3>2. s.at \o s.todo \in Places /\ x[s.at \o s.todo].kind \in {"dir", "file"}
      BY <2>5, <2>8, <3>1
    <3>3. Walk(x)[s] = Ends(s.at \o s.todo, "nothing")  BY <2>8, <3>2, RealIsItself
    <3> QED BY <2>5, <3>1, <3>3
  <2>13. Walk(x)[Start(path)].at = p
    <3>1. f \o c = path
      <4>g1. Regroup(root, b, c)  BY <1>3, Assoc
      <4>1. (root \o b) \o c = root \o (b \o c)  BY <4>g1 DEF Regroup
      <4> QED BY <1>4, <2>1, <2>2, <4>1
    <3>2. Longer(Start(f), c) = Start(path)
      <4>1. Longer(Start(f), c) = Start(f \o c)  BY StartLonger
      <4> QED BY <3>1, <4>1
    <3> QED BY <2>11, <2>12, <3>2, EndsIs
  <2>14. IsStrictPrefix(root, p)  BY <2>1, <2>6, AllowedIs
  <2>15. /\ IsStrictPrefix(Walk(x)[Start(ConfigRoot)].at, p)
         /\ p = Walk(x)[Start(Walk(x)[Start(ConfigRoot)].at \o rel)].at
    BY <1>4, <2>9, <2>13, <2>14
  <2> QED BY <2>8, <2>15
<1> QED BY <1>6, <1>7

\* An update makes or overwrites one file, inside the root.
LEMMA MergeFileKeeps ==
    ASSUME CInv, NEW rel \in merging.todo, MergeFile(rel)
    PROVE  CInv' /\ OwnPlaces
<1>1. /\ merging.on /\ own' = own \cup {rel} /\ entries' = entries /\ going' = going
      /\ version' = version /\ swapped' = swapped /\ moves' = moves
      /\ merging' = [merging EXCEPT !.todo = @ \ {rel}, !.done = @ \cup {rel}]
  BY DEF MergeFile
<1>2. /\ tree \in Disks /\ own \in SUBSET Wanted /\ entries \subseteq own
      /\ going \in Goings /\ swapped \in BOOLEAN /\ moves \in Nat
      /\ version \in Versions /\ merging \in Mergings /\ ~going.on
      /\ going.todo = {} /\ going.left \subseteq own
  BY <1>1 DEF CInv, CTypeOK, PlanIsOwn
<1>3. rel \in Wanted  BY <1>2 DEF Mergings
<1>4. PICK x : x = tree'  OBVIOUS
<1>5. PICK r : r = Resolve(rel) /\ r.says = "ok" /\ r.state \in {"missing", "file"} /\ x \in Written(r)
  BY <1>4 DEF MergeFile
<1>6. PICK p \in Places :
          /\ x \in Disks /\ OnlyFile(tree, x, p)
          /\ IsStrictPrefix(Walk(x)[Start(ConfigRoot)].at, p)
          /\ p = Walk(x)[Start(Walk(x)[Start(ConfigRoot)].at \o rel)].at
  BY <1>2, <1>3, <1>5, MergedIs
<1>7. CInv'
  <2>1. merging' \in Mergings  BY <1>1, <1>2, <1>3 DEF Mergings
  <2>2. own' \in SUBSET Wanted /\ entries' \subseteq own'  BY <1>1, <1>2, <1>3
  <2>3. CTypeOK'  BY <1>1, <1>2, <1>4, <1>6, <2>1, <2>2 DEF CTypeOK
  <2>4. PlanIsOwn'  BY <1>1, <1>2 DEF PlanIsOwn
  <2> QED BY <2>3, <2>4 DEF CInv
<1>8. OwnPlaces
  <2>1. Real(ConfigRoot)' = Walk(x)[Start(ConfigRoot)].at
    <3>1. Real(ConfigRoot)' = Follow(ConfigRoot)'.at  BY DEF Real
    <3> QED BY <1>4, <3>1, FollowNext
  <2>2. LedTo(rel)' = p  BY <1>4, <1>6, LedNext
  <2> SUFFICES ASSUME NEW q \in Places, "file" \in {tree[q].kind, tree'[q].kind}, tree'[q] # tree[q]
               PROVE  IsStrictPrefix(Real(ConfigRoot)', q) /\ \E e \in own' : q = LedTo(e)'
    BY <1>1, <1>2 DEF OwnPlaces
  <2>3. q = p  BY <1>4, <1>6 DEF OnlyFile
  <2>4. IsStrictPrefix(Real(ConfigRoot)', q)  BY <1>6, <2>1, <2>3
  <2>5. rel \in own'  BY <1>1
  <2> QED BY <2>2, <2>3, <2>4, <2>5
<1> QED BY <1>7, <1>8

\* No update is a state of one.
LEMMA NotMergingIs == NotMerging \in Mergings /\ NotMerging.on = FALSE
  BY DEF NotMerging, Mergings

\* What an update records last it has written or adopted.
LEMMA EndMergeKeeps ==
    ASSUME CInv, EndMerge
    PROVE  CInv' /\ OwnPlaces
<1>1. /\ merging' = NotMerging /\ tree' = tree /\ entries' = entries \cup merging.done
      /\ own' = own \cup merging.done /\ version' = version /\ going' = going
      /\ swapped' = swapped /\ moves' = moves
  BY DEF EndMerge
<1>2. merging.done \in SUBSET Wanted  BY DEF CInv, CTypeOK, Mergings
<1>3. own' \in SUBSET Wanted /\ entries' \subseteq own'  BY <1>1, <1>2 DEF CInv, CTypeOK
<1>4. CTypeOK'  BY <1>1, <1>3, NotMergingIs DEF CInv, CTypeOK
<1>5. PlanIsOwn'  BY <1>1, NotMergingIs DEF CInv, PlanIsOwn, Task
<1> QED BY <1>1, <1>4, <1>5 DEF CInv, OwnPlaces

\* An update that stops touches no file, and neither does a release.
LEMMA MergeStopsKeeps ==
    ASSUME CInv, MergeStops \/ NewVersion
    PROVE  CInv' /\ OwnPlaces
<1>1. /\ merging' \in {NotMerging, merging} /\ version' \in {version, "newer"} /\ tree' = tree
      /\ entries' = entries /\ own' = own /\ going' = going /\ swapped' = swapped /\ moves' = moves
  BY DEF MergeStops, NewVersion
<1>2. CTypeOK'  BY <1>1, NotMergingIs DEF CInv, CTypeOK, Versions
<1>3. PlanIsOwn'  BY <1>1, NotMergingIs DEF CInv, PlanIsOwn, Task
<1> QED BY <1>1, <1>2, <1>3 DEF CInv, OwnPlaces

\* A kill touches no file.
LEMMA KillKeeps ==
    ASSUME CInv, KillUninstall
    PROVE  CInv' /\ OwnPlaces
<1>1. /\ going' = NotGoing /\ tree' = tree /\ entries' = entries /\ own' = own
      /\ swapped' = swapped /\ moves' = moves /\ version' = version /\ merging' = merging
  BY DEF KillUninstall
<1>2. CInv'
  <2>1. CTypeOK'  BY <1>1, NotGoingIs DEF CInv, CTypeOK
  <2>2. PlanIsOwn'  BY <1>1, NotGoingIs DEF PlanIsOwn
  <2> QED BY <2>1, <2>2 DEF CInv
<1>3. OwnPlaces  BY <1>1 DEF OwnPlaces
<1> QED BY <1>2, <1>3

\* Links that were not there before are on no path.
LEMMA StillPlain ==
    ASSUME NEW t, NEW u, \A q \in Paths : On(u, q).kind = "link" => On(t, q).kind = "link",
           NEW a \in Paths, NEW x \in Paths, Plain(t, a, x)
    PROVE  Plain(u, a, x)
<1> SUFFICES ASSUME NEW q \in Paths, NEW r \in Paths, x = q \o r, q # <<>>
             PROVE  Last(q) # ".." /\ On(u, a \o q).kind # "link"
  BY DEF Plain
<1>1. Last(q) # ".." /\ On(t, a \o q).kind # "link"  BY DEF Plain
<1>2. a \o q \in Paths  BY Joined
<1> QED BY <1>1, <1>2

\* The files and the empty directories of a set go; the disk stays one.
LEMMA Cleared ==
    ASSUME NEW t \in Disks, NEW G \in SUBSET Places, <<>> \notin G,
           \A q \in Places \ {<<>>} : t[q].kind # "none" /\ Front(q) \in G => q \in G,
           NEW u, u = [p \in Places |-> IF p \in G THEN Vacant ELSE t[p]]
    PROVE  /\ u \in Disks
           /\ \A q \in Paths : On(u, q).kind = "link" => On(t, q).kind = "link"
<1>1. u \in [Places -> Nodes]  BY VacantIs DEF Disks
<1>2. u[<<>>].kind = "dir"  BY ContainmentAssumption DEF Disks
<1>3. ASSUME NEW p \in Places \ {<<>>}, u[p].kind # "none" PROVE u[Front(p)].kind = "dir"
  <2>1. p \notin G  BY <1>3, VacantIs
  <2>2. t[p].kind # "none"  BY <1>3, <2>1
  <2>3. Front(p) \notin G  BY <2>1, <2>2
  <2>4. Front(p) \in Places /\ t[Front(p)].kind = "dir"  BY <2>2, ContainmentAssumption DEF Disks
  <2> QED BY <2>3, <2>4
<1>4. u \in Disks  BY <1>1, <1>2, <1>3 DEF Disks
<1>5. ASSUME NEW q \in Paths, On(u, q).kind = "link" PROVE On(t, q).kind = "link"
  <2>1. q \in Places  BY <1>5, VacantIs DEF On
  <2>2. u[q].kind = "link"  BY <1>5, <2>1 DEF On
  <2>3. q \notin G  BY <2>1, <2>2, VacantIs
  <2>4. t[q].kind = "link"  BY <2>1, <2>2, <2>3
  <2> QED BY <2>1, <2>4 DEF On
<1> QED BY <1>4, <1>5

\* uninstall takes the file of one entry, and from where the plan found it.
LEMMA TakeKeeps ==
    ASSUME CInv, NEW s \in going.todo, Take(s)
    PROVE  CInv' /\ OwnPlaces
<1> DEFINE place == Append(Real(Front(s.path)), Last(s.path))
           same == Lstat(s.path) = "file" /\ (NodeAt(place).bytes = s.bytes \/ s.bytes # hash[s.rel])
           refused == s.path \in RefusedRoots
           missing == Lstat(s.path) = "missing"
<1>1. /\ tree' = IF same /\ ~refused THEN [tree EXCEPT ![place] = Vacant] ELSE tree
      /\ going' =
             IF same /\ refused THEN NotGoing
             ELSE [going EXCEPT
                     !.todo = @ \ {s},
                     !.left = IF missing \/ same THEN @ \ {s.rel} ELSE @,
                     !.touched = IF same THEN @ \cup {Front(s.path)} ELSE @,
                     !.failed = @ \/ ~(missing \/ same)]
      /\ entries' = entries /\ own' = own /\ swapped' = swapped /\ moves' = moves
      /\ version' = version /\ merging' = merging
  BY DEF Take
<1>2. /\ tree \in Disks /\ own \in SUBSET Wanted /\ entries \subseteq own
      /\ going \in Goings /\ swapped \in BOOLEAN /\ moves \in Nat /\ going.on /\ going.left \subseteq own
      /\ version \in Versions /\ merging \in Mergings /\ ~merging.on
  BY DEF CInv, CTypeOK, PlanIsOwn
<1>3. s \in Tasks /\ s.path \in Paths /\ s.path # <<>> /\ s.rel \in own
  BY <1>2 DEF Goings, Tasks, CInv, PlanIsOwn
<1>4. Front(s.path) \in Paths  BY <1>3, FrontIs
<1>5. same => place \in Places /\ tree[place].kind = "file"
  <2>1. SUFFICES ASSUME same PROVE place \in Places /\ tree[place].kind = "file"  OBVIOUS
  <2>2. Lstat(s.path) = "file"  BY <2>1
  <2> HIDE DEF same
  <2>3. /\ Append(Real(Front(s.path)), Last(s.path)) \in Places
        /\ Lstat(s.path) = tree[Append(Real(Front(s.path)), Last(s.path))].kind
    BY <1>2, <1>3, <2>2, LstatPlain
  <2> QED BY <2>2, <2>3
<1>6. same /\ ~swapped => place = going.root \o s.rel
  <2>1. SUFFICES ASSUME same, ~swapped PROVE place = going.root \o s.rel  OBVIOUS
  <2>2. Lstat(s.path) = "file"  BY <2>1
  <2>3. Task(tree, s)  BY <2>1 DEF CInv, PlanIsOwn
  <2>4. s.path = going.root \o s.rel /\ Plain(tree, <<>>, Front(s.path))  BY <2>3 DEF Task
  <2> HIDE DEF same
  <2>5. Append(Real(Front(s.path)), Last(s.path)) = s.path
    BY <1>2, <1>3, <2>2, <2>4, LstatPlain
  <2> QED BY <2>4, <2>5
<1> HIDE DEF place, same, refused, missing
<1>7. /\ tree' \in Disks
      /\ \A q \in Paths : On(tree', q).kind = "link" => On(tree, q).kind = "link"
      /\ \A p \in Places : tree'[p] # tree[p] => same /\ p = place
  <2>1. CASE same /\ ~refused
    <3>1. tree \in [Places -> Nodes]  BY <1>2 DEF Disks
    <3>2. PICK G \in SUBSET Places : G = {place}  BY <1>5, <2>1
    <3>3. place # <<>>
      <4>1. tree[<<>>].kind = "dir"  BY <1>2 DEF Disks
      <4> QED BY <1>5, <2>1, <4>1
    <3>4. ASSUME NEW q \in Places \ {<<>>}, tree[q].kind # "none", Front(q) \in G PROVE q \in G
      <4>1. tree[Front(q)].kind = "dir"  BY <1>2, <3>4 DEF Disks
      <4>2. Front(q) = place  BY <3>2, <3>4
      <4> QED BY <1>5, <2>1, <4>1, <4>2
    <3>5. PICK u : u = [p \in Places |-> IF p \in G THEN Vacant ELSE tree[p]]  OBVIOUS
    <3>6. tree' = [tree EXCEPT ![place] = Vacant]  BY <1>1, <2>1
    <3>7. tree' = u  BY <3>1, <3>2, <3>5, <3>6
    <3>8. u \in Disks /\ \A q \in Paths : On(u, q).kind = "link" => On(tree, q).kind = "link"
      BY <1>2, <3>2, <3>3, <3>4, <3>5, Cleared
    <3>9. \A p \in Places : u[p] # tree[p] => p = place  BY <3>2, <3>5
    <3> QED BY <2>1, <3>7, <3>8, <3>9
  <2>2. CASE ~(same /\ ~refused)
    <3>1. tree' = tree  BY <1>1, <2>2
    <3> QED BY <1>2, <3>1
  <2> QED BY <2>1, <2>2
<1>8. CInv'
  <2>1. CASE same /\ refused
    <3>1. going' = NotGoing  BY <1>1, <2>1
    <3>2. CTypeOK'  BY <1>1, <1>2, <1>7, <3>1, NotGoingIs DEF CTypeOK
    <3>3. PlanIsOwn'  BY <1>1, <1>2, <3>1, NotGoingIs DEF PlanIsOwn
    <3> QED BY <3>2, <3>3 DEF CInv
  <2>2. CASE ~(same /\ refused)
    <3>1. going' = [going EXCEPT
                     !.todo = @ \ {s},
                     !.left = IF missing \/ same THEN @ \ {s.rel} ELSE @,
                     !.touched = IF same THEN @ \cup {Front(s.path)} ELSE @,
                     !.failed = @ \/ ~(missing \/ same)]
      BY <1>1, <2>2
    <3>2. /\ going'.on = going.on /\ going'.root = going.root /\ going'.missing = going.missing
          /\ going'.todo \subseteq going.todo /\ going'.left \subseteq going.left
          /\ going'.touched \subseteq going.touched \cup {Front(s.path)}
      BY <1>2, <3>1 DEF Goings
    <3>3. going' \in Goings
      <4>1. \A o, r, t, m, l, h, f :
               o \in BOOLEAN /\ r \in Paths /\ t \in SUBSET Tasks /\ m \in SUBSET Wanted
               /\ l \in SUBSET Wanted /\ h \in SUBSET Paths /\ f \in BOOLEAN =>
               [on |-> o, root |-> r, todo |-> t, missing |-> m, left |-> l,
                touched |-> h, failed |-> f] \in Goings
        BY DEF Goings
      <4>2. going' = [on |-> going'.on, root |-> going'.root, todo |-> going'.todo,
                      missing |-> going'.missing, left |-> going'.left,
                      touched |-> going'.touched, failed |-> going'.failed]
        BY <1>2, <3>1 DEF Goings
      <4>3. /\ going.on \in BOOLEAN /\ going.root \in Paths /\ going.todo \in SUBSET Tasks
            /\ going.missing \in SUBSET Wanted /\ going.left \in SUBSET Wanted
            /\ going.touched \in SUBSET Paths /\ going.failed \in BOOLEAN
        BY <1>2 DEF Goings
      <4>4. going'.failed \in BOOLEAN
        <5>1. going'.failed = (going.failed \/ ~(missing \/ same))  BY <1>2, <3>1 DEF Goings
        <5> QED BY <5>1
      <4>5. /\ going'.on \in BOOLEAN /\ going'.root \in Paths /\ going'.todo \in SUBSET Tasks
            /\ going'.missing \in SUBSET Wanted /\ going'.left \in SUBSET Wanted
            /\ going'.touched \in SUBSET Paths
        BY <1>4, <3>2, <4>3
      <4>6. PICK o, r, t, m, l, h, f :
               o = going'.on /\ r = going'.root /\ t = going'.todo /\ m = going'.missing
               /\ l = going'.left /\ h = going'.touched /\ f = going'.failed
        OBVIOUS
      <4>7. [on |-> o, root |-> r, todo |-> t, missing |-> m, left |-> l,
             touched |-> h, failed |-> f] \in Goings
        BY <4>1, <4>4, <4>5, <4>6
      <4> QED BY <4>2, <4>6, <4>7
    <3>4. CTypeOK'  BY <1>1, <1>2, <1>7, <3>3 DEF CTypeOK
    <3>5. PlanIsOwn'
      <4>1. (going.on)' /\ (going.left \subseteq own)' /\ ~(merging.on)'  BY <1>1, <1>2, <3>2
      <4>2. ASSUME NEW o \in going'.todo
            PROVE  o.path # <<>> /\ o.rel \in own' /\ (swapped' \/ Task(tree, o)')
        <5>1. o \in going.todo /\ o \in Tasks  BY <1>2, <3>2 DEF Goings
        <5>2. o.path # <<>> /\ o.rel \in own /\ (swapped \/ Task(tree, o)) /\ o.path \in Paths
          BY <5>1 DEF CInv, PlanIsOwn, Tasks
        <5>3. Task(tree, o) => Task(tree, o)'
          <6>1. SUFFICES ASSUME Task(tree, o) PROVE Task(tree, o)'  OBVIOUS
          <6>2. o.path = going.root \o o.rel /\ Plain(tree, <<>>, Front(o.path))
            BY <6>1 DEF Task
          <6>0. PICK u : u = tree'  OBVIOUS
          <6>3. PICK f \in Paths, e \in Paths : f = Front(o.path) /\ e = <<>>
            BY <5>2, FrontIs, ContainmentAssumption
          <6>4. \A q \in Paths : On(u, q).kind = "link" => On(tree, q).kind = "link"
            BY <1>7, <6>0
          <6>5. Plain(tree, e, f)  BY <6>2, <6>3
          <6>6. Plain(u, e, f)  BY <6>4, <6>5, StillPlain
          <6>7. Plain(tree', <<>>, Front(o.path))  BY <6>0, <6>3, <6>6
          <6>8. o.path = going'.root \o o.rel  BY <3>2, <6>2
          <6> QED BY <6>7, <6>8 DEF Task
        <5> QED BY <1>1, <5>2, <5>3
      <4> QED BY <4>1, <4>2 DEF PlanIsOwn
    <3> QED BY <3>4, <3>5 DEF CInv
  <2> QED BY <2>1, <2>2
<1>9. OwnPlaces
  <2> SUFFICES ASSUME NEW p \in Places, tree'[p] # tree[p], ~swapped
               PROVE  \E e \in own' : p = going.root \o e
    BY <1>2 DEF OwnPlaces
  <2>1. p = going.root \o s.rel  BY <1>6, <1>7
  <2> QED BY <1>1, <1>3, <2>1
<1> QED BY <1>8, <1>9

\* What the plan removes is where the names of the entries say.
LEMMA PlanKeeps ==
    ASSUME CInv, NEW force \in BOOLEAN, PlanRemoval(force)
    PROVE  CInv' /\ OwnPlaces
<1>0. PICK at \in {[e \in entries |-> Resolve(e)]} :
        going' = [NotGoing EXCEPT
            !.on = TRUE, !.root = Real(ConfigRoot), !.left = entries,
            !.todo = {[rel |-> e, path |-> at[e].path, bytes |-> NodeAt(at[e].path).bytes] :
                      e \in {f \in entries : Fate(f, at[f], force) = "goes"}},
            !.missing = {e \in entries : Fate(e, at[e], force) = "gone"}]
  BY DEF PlanRemoval
<1>1. at = [e \in entries |-> Resolve(e)]  BY <1>0
<1> DEFINE goes == {f \in entries : Fate(f, at[f], force) = "goes"}
           todo == {[rel |-> e, path |-> at[e].path, bytes |-> NodeAt(at[e].path).bytes] : e \in goes}
           missing == {e \in entries : Fate(e, at[e], force) = "gone"}
<1>2. /\ going' = [NotGoing EXCEPT
            !.on = TRUE, !.root = Real(ConfigRoot), !.left = entries, !.todo = todo, !.missing = missing]
      /\ swapped' = FALSE /\ tree' = tree /\ entries' = entries /\ own' = own /\ moves' = moves
      /\ version' = version /\ merging' = merging
  BY <1>0 DEF PlanRemoval
<1>3. /\ tree \in Disks /\ own \in SUBSET Wanted /\ entries \subseteq own /\ moves \in Nat
      /\ version \in Versions /\ merging \in Mergings /\ ~merging.on
  BY DEF CInv, CTypeOK, PlanRemoval, Idle
<1>4. Real(ConfigRoot) \in Paths
  <2>1. Start(ConfigRoot) \in Spots /\ Follow(ConfigRoot) = Walk(tree)[Start(ConfigRoot)]
    BY ContainmentAssumption, StartIs, FollowIs
  <2>2. EndsWell(tree, Start(ConfigRoot))  BY <1>3, <2>1, FailsAre
  <2> QED BY <2>1, <2>2 DEF EndsWell, Real
<1> HIDE DEF missing
<1>5. going' = [on |-> TRUE, root |-> Real(ConfigRoot), todo |-> todo, missing |-> missing,
                left |-> entries, touched |-> {}, failed |-> FALSE]
  <2> HIDE DEF todo
  <2> QED BY <1>2 DEF NotGoing
<1>6. ASSUME NEW e \in goes
      PROVE  /\ e \in own /\ e \in Wanted /\ e \in Paths /\ e # <<>>
             /\ at[e].path = Real(ConfigRoot) \o e
             /\ Plain(tree, <<>>, Front(Real(ConfigRoot) \o e))
             /\ Real(ConfigRoot) \o e \in Paths /\ Real(ConfigRoot) \o e # <<>>
             /\ NodeAt(at[e].path).bytes \in Contents
  <2>1. e \in entries /\ Fate(e, at[e], force) = "goes" /\ at[e] = Resolve(e)  BY <1>1
  <2>2. e \in own /\ e \in Wanted /\ e \in Paths /\ Valid(e)  BY <1>3, <2>1, ContainmentAssumption
  <2>3. e # <<>>  BY <2>2 DEF Valid
  <2>4. PICK r : r = Resolve(e)  OBVIOUS
  <2>5. Fate(e, r, force) = "goes"  BY <2>1, <2>4
  <2>6. r.says = "ok" /\ ~r.via /\ r.state = "file"
    <3>1. CASE r.says = "escape"  BY <2>5, <3>1 DEF Fate
    <3>2. CASE r.says = "refused"
      <4>1. Fate(e, r, force) \in {"gone", "refused"}  BY <3>2 DEF Fate
      <4> QED BY <2>5, <4>1
    <3>3. CASE r.says = "ok"  BY <2>5, <3>3 DEF Fate
    <3>4. r.says \in {"ok", "escape", "refused"}
      <4>1. \A root, path : Checked(root, path) \in {"ok", "escape", "refused"}  BY DEF Checked
      <4>2. \A says : Refusal(says).says = says  BY DEF Refusal, Answer
      <4>3. \A aim, state, via : aim.says \in {"ok", "escape", "refused"} =>
                Told(aim, state, via).says \in {"ok", "escape", "refused"}
        BY <4>2 DEF Told, Answer
      <4>4. \A root, path : Judged(root, path).says \in {"ok", "escape", "refused"}
        BY <4>1 DEF Judged
      <4>5. \A root, above, rest : Under(root, above, rest).says \in {"ok", "escape", "refused"}
        <5> SUFFICES ASSUME NEW root, NEW above, NEW rest
                     PROVE Under(root, above, rest).says \in {"ok", "escape", "refused"}
          OBVIOUS
        <5>1. CASE above.fails # "nothing"  BY <5>1 DEF Under
        <5>2. CASE above.fails = "nothing" /\ above.at # root /\ Checked(root, above.at) # "ok"
          BY <4>4, <5>2 DEF Under
        <5>3. CASE above.fails = "nothing" /\ ~(above.at # root /\ Checked(root, above.at) # "ok")
          BY <4>4, <5>3 DEF Under
        <5> QED BY <5>1, <5>2, <5>3
      <4>6. \A root, rel, state : Aim(root, rel, state).says \in {"ok", "escape", "refused"}
        <5> SUFFICES ASSUME NEW root, NEW rel, NEW state
                     PROVE Aim(root, rel, state).says \in {"ok", "escape", "refused"}
          OBVIOUS
        <5>1. CASE state = "missing"
          <6>1. Aim(root, rel, state) = Beneath(root, rel)  BY <5>1 DEF Aim
          <6> QED BY <4>5, <6>1 DEF Beneath
        <5>2. CASE state = "link"  BY <4>4, <5>2 DEF Aim
        <5>3. CASE state # "missing" /\ state # "link"  BY <4>4, <5>3 DEF Aim
        <5> QED BY <5>1, <5>2, <5>3
      <4>7. \A root, rel, state : ResolveIn(root, rel, state).says \in {"ok", "escape", "refused"}
        <5> SUFFICES ASSUME NEW root, NEW rel, NEW state
                     PROVE ResolveIn(root, rel, state).says \in {"ok", "escape", "refused"}
          OBVIOUS
        <5>1. CASE state = "other"  BY <4>2, <5>1 DEF ResolveIn
        <5>2. CASE state # "other"
          <6>1. PICK aim : aim = Aim(root, rel, state) /\ aim.says \in {"ok", "escape", "refused"}
            BY <4>6
          <6>2. PICK via : via = Via(root, rel)  OBVIOUS
          <6>3. ResolveIn(root, rel, state) = Told(aim, state, via)  BY <5>2, <6>1, <6>2 DEF ResolveIn
          <6> QED BY <4>3, <6>1, <6>3
        <5> QED BY <5>1, <5>2
      <4>8. r = ResolveFrom(Follow(ConfigRoot), e)  BY <2>4 DEF Resolve
      <4> QED BY <4>2, <4>7, <4>8 DEF ResolveFrom
    <3> QED BY <3>1, <3>2, <3>3, <3>4
  <2>7. /\ Resolve(e).path = Real(ConfigRoot) \o e
        /\ Plain(tree, <<>>, Front(Real(ConfigRoot) \o e))
    BY <1>3, <2>2, <2>4, <2>6, ResolvedFile
  <2>8. Real(ConfigRoot) \o e \in Paths /\ Real(ConfigRoot) \o e # <<>>  BY <1>4, <2>2, <2>3, LastOf
  <2>9. \A p : NodeAt(p).bytes \in Contents
    <3>1. \A n \in Nodes : n.bytes \in Contents  BY DEF Nodes
    <3>2. \A p : NodeAt(p) \in Nodes  BY <1>3, VacantIs DEF NodeAt, Disks
    <3> QED BY <3>1, <3>2
  <2> QED BY <2>1, <2>2, <2>3, <2>7, <2>8, <2>9
<1> HIDE DEF goes
<1>7. ASSUME NEW s \in todo
      PROVE  s \in Tasks /\ s.path # <<>> /\ s.rel \in own
             /\ s.path = Real(ConfigRoot) \o s.rel /\ Plain(tree, <<>>, Front(s.path))
  <2>1. PICK e \in goes : s = [rel |-> e, path |-> at[e].path, bytes |-> NodeAt(at[e].path).bytes]
    OBVIOUS
  <2>2. PICK b : b = NodeAt(at[e].path).bytes /\ b \in Contents  BY <1>6
  <2>3. PICK p : p = at[e].path /\ p = Real(ConfigRoot) \o e /\ p \in Paths /\ p # <<>>
                 /\ Plain(tree, <<>>, Front(p))
    BY <1>6
  <2>4. s = [rel |-> e, path |-> p, bytes |-> b]  BY <2>1, <2>2, <2>3
  <2>5. e \in own /\ e \in Wanted  BY <1>6
  <2>6. s \in Tasks  BY <2>2, <2>3, <2>4, <2>5 DEF Tasks
  <2>7. s.path = p /\ s.rel = e  BY <2>4
  <2> QED BY <2>3, <2>5, <2>6, <2>7
<1> HIDE DEF todo
<1>8. /\ going'.on = TRUE /\ going'.root = Real(ConfigRoot) /\ going'.todo = todo
      /\ going'.left = entries
  BY <1>5
<1>9. going' \in Goings
  <2>1. todo \in SUBSET Tasks /\ missing \in SUBSET Wanted /\ entries \in SUBSET Wanted
    <3>1. missing \subseteq entries  BY DEF missing
    <3> QED BY <1>3, <1>7, <3>1
  <2> QED BY <1>4, <1>5, <2>1 DEF Goings
<1>10. CTypeOK'  BY <1>2, <1>3, <1>9 DEF CTypeOK
<1>11. PlanIsOwn'
  <2>1. ASSUME NEW s \in going'.todo
        PROVE  s.path # <<>> /\ s.rel \in own' /\ (swapped' \/ Task(tree, s)')
    <3>1. s \in todo  BY <1>8
    <3>2. s.path = going'.root \o s.rel /\ Plain(tree, <<>>, Front(s.path))  BY <1>7, <1>8, <3>1
    <3>3. Plain(tree', <<>>, Front(s.path))  BY <1>2, <3>2
    <3>4. Task(tree, s)'  BY <3>2, <3>3 DEF Task
    <3> QED BY <1>2, <1>7, <3>1, <3>4
  <2>2. (going.left \subseteq own)' /\ (going.on)' /\ ~(merging.on)'  BY <1>2, <1>3, <1>8
  <2> QED BY <2>1, <2>2 DEF PlanIsOwn
<1>12. OwnPlaces  BY <1>2 DEF OwnPlaces
<1> QED BY <1>10, <1>11, <1>12 DEF CInv

\* What is above a path is a beginning of it.
LEMMA FrontBegins ==
    ASSUME NEW q \in Paths, q # <<>>
    PROVE  IsStrictPrefix(Front(q), q) /\ Front(q) \in Paths
<1>1. /\ Front(q) \in Paths /\ Last(q) \in STRING /\ q = Append(Front(q), Last(q))
  BY FrontIs
<1>2. PICK f \in Paths, e \in STRING : f = Front(q) /\ e = Last(q)  BY <1>1
<1>3. PICK r \in Paths : r = <<e>>  BY Joined
<1>4. r # <<>>
  <2>1. Append(<<>>, e) # <<>> /\ Append(<<>>, e) = <<>> \o r  BY <1>3, ContainmentAssumption, Joined
  <2>2. <<>> \o r = r  BY Joined
  <2> QED BY <2>1, <2>2
<1>5. q = f \o r
  <2>1. Append(f, e) = f \o <<e>>  BY Joined
  <2> QED BY <1>1, <1>2, <1>3, <2>1
<1>6. IsStrictPrefix(f, q)  BY <1>4, <1>5, Strictly
<1> QED BY <1>1, <1>2, <1>6

\* What is strictly below is so over more than one step.
LEMMA StrictlyOn ==
    ASSUME NEW a \in Paths, NEW p \in Paths, NEW q \in Paths,
           IsStrictPrefix(a, p), IsStrictPrefix(p, q)
    PROVE  IsStrictPrefix(a, q)
<1>1. PICK r \in Paths : r # <<>> /\ p = a \o r  BY Strictly
<1>2. PICK d \in Paths : d # <<>> /\ q = p \o d  BY Strictly
<1>3. PICK z \in Paths : z = r \o d  BY Joined
<1>4. q = a \o z
  <2>g1. Regroup(a, r, d)  BY Assoc
  <2>1. (a \o r) \o d = a \o (r \o d)  BY <2>g1 DEF Regroup
  <2> QED BY <1>1, <1>2, <1>3, <2>1
<1>5. z # <<>>  BY <1>1, <1>3, ConcatApart
<1> QED BY <1>4, <1>5, Strictly

\* Only directories are taken away as empty, and all that is in them with them.
LEMMA EmptiedAre ==
    ASSUME CInv
    PROVE  /\ Emptied \in SUBSET Places /\ <<>> \notin Emptied
           /\ \A p \in Emptied : tree[p].kind = "dir"
           /\ \A q \in Places \ {<<>>} : tree[q].kind # "none" /\ Front(q) \in Emptied => q \in Emptied
<1> DEFINE above == {p \in Places : /\ IsStrictPrefix(going.root, p) /\ p \notin RefusedRoots
                                 /\ \E t \in going.touched :
                                      /\ IsPrefix(p, t)
                                      /\ \A k \in Len(p)..Len(t) : Lstat(SubSeq(t, 1, k)) = "dir"}
           real == {Append(Real(Front(p)), Last(p)) : p \in above}
<1>1. Emptied = {p \in real : \A q \in Places :
                    IsStrictPrefix(p, q) /\ tree[q].kind # "none" => q \in real}
  BY DEF Emptied
<1>2. /\ tree \in Disks /\ going.touched \subseteq Paths /\ going.root \in Paths
  BY DEF CInv, CTypeOK, Goings
<1>3. ASSUME NEW p \in above
      PROVE  /\ Append(Real(Front(p)), Last(p)) \in Places
             /\ tree[Append(Real(Front(p)), Last(p))].kind = "dir"
             /\ Append(Real(Front(p)), Last(p)) # <<>>
  <2>1. /\ p \in Places /\ IsStrictPrefix(going.root, p)
        /\ \E t \in going.touched : /\ IsPrefix(p, t)
                                    /\ \A k \in Len(p)..Len(t) : Lstat(SubSeq(t, 1, k)) = "dir"
    OBVIOUS
  <2> HIDE DEF above, real
  <2>2. p \in Paths /\ p # <<>>
    <3>1. p \in Paths  BY <2>1, ContainmentAssumption
    <3>2. PICK r \in Paths : r # <<>> /\ p = going.root \o r  BY <1>2, <2>1, <3>1, Strictly
    <3> QED BY <1>2, <3>1, <3>2, LastOf
  <2>3. Lstat(p) = "dir"
    <3>1. PICK t \in Paths : IsPrefix(p, t) /\ \A k \in Len(p)..Len(t) : Lstat(SubSeq(t, 1, k)) = "dir"
      BY <1>2, <2>1
    <3>2. PICK r \in Paths : t = p \o r  BY <2>2, <3>1, PrefixIs DEF Begins
    <3>3. Len(p) \in Nat /\ Len(r) \in Nat /\ Len(t) = Len(p) + Len(r)  BY <2>2, <3>2, Joined
    <3>4. Len(p) \in Len(p)..Len(t)  BY <3>3
    <3>5. SubSeq(t, 1, Len(p)) = p
      <4>1. SubSeq(p \o r, 1, Len(p)) = p  BY <2>2, CutOf
      <4> QED BY <3>2, <4>1
    <3> QED BY <3>1, <3>4, <3>5
  <2>4. /\ Append(Real(Front(p)), Last(p)) \in Places
        /\ Lstat(p) = tree[Append(Real(Front(p)), Last(p))].kind
        /\ Real(Front(p)) \in Places
    BY <1>2, <2>2, <2>3, LstatPlain
  <2>5. Append(Real(Front(p)), Last(p)) # <<>>  BY <2>2, <2>4, ContainmentAssumption, FrontIs, Joined
  <2> QED BY <2>3, <2>4, <2>5
<1> HIDE DEF above
<1>4. \A p \in real : p \in Places /\ p # <<>> /\ tree[p].kind = "dir"  BY <1>3
<1> HIDE DEF real
<1>5. ASSUME NEW q \in Places \ {<<>>}, tree[q].kind # "none", Front(q) \in Emptied PROVE q \in Emptied
  <2>1. q \in Paths /\ q # <<>>  BY ContainmentAssumption
  <2>2. IsStrictPrefix(Front(q), q) /\ Front(q) \in Paths  BY <2>1, FrontBegins
  <2>3. q \in real  BY <1>1, <1>5, <2>2
  <2>4. ASSUME NEW x \in Places, IsStrictPrefix(q, x), tree[x].kind # "none" PROVE x \in real
    <3>1. x \in Paths  BY ContainmentAssumption
    <3>2. IsStrictPrefix(Front(q), x)  BY <2>1, <2>2, <2>4, <3>1, StrictlyOn
    <3> QED BY <1>1, <1>5, <2>4, <3>2
  <2> QED BY <1>1, <2>3, <2>4
<1> QED BY <1>1, <1>4, <1>5

\* What goes last is no file.
LEMMA EndKeeps ==
    ASSUME CInv, EndUninstall
    PROVE  CInv' /\ OwnPlaces
<1>1. /\ tree' = [p \in Places |-> IF p \in Emptied THEN Vacant ELSE tree[p]]
      /\ entries' = IF going.failed THEN going.left \ going.missing ELSE {}
      /\ going' = NotGoing /\ own' = own /\ swapped' = swapped /\ moves' = moves
      /\ version' = version /\ merging' = merging
  BY DEF EndUninstall
<1>2. /\ tree \in Disks /\ own \in SUBSET Wanted /\ swapped \in BOOLEAN /\ moves \in Nat /\ going.left \subseteq own
      /\ version \in Versions /\ merging \in Mergings
  BY DEF CInv, CTypeOK, PlanIsOwn
<1>3. PICK u : u = [p \in Places |-> IF p \in Emptied THEN Vacant ELSE tree[p]]  OBVIOUS
<1>4. u \in Disks  BY <1>2, <1>3, EmptiedAre, Cleared
<1>5. CTypeOK'
  <2>1. entries' \subseteq own  BY <1>1, <1>2
  <2> QED BY <1>1, <1>2, <1>3, <1>4, <2>1, NotGoingIs DEF CTypeOK
<1>6. PlanIsOwn'  BY <1>1, NotGoingIs DEF PlanIsOwn
<1>7. OwnPlaces
  <2> SUFFICES ASSUME NEW p \in Places, "file" \in {tree[p].kind, tree'[p].kind}, tree'[p] # tree[p]
               PROVE  FALSE
    BY DEF OwnPlaces
  <2>1. p \in Emptied  BY <1>1
  <2>2. tree[p].kind = "dir" /\ tree'[p] = Vacant  BY <1>1, <2>1, EmptiedAre
  <2>3. tree[p].kind = "file" \/ tree'[p].kind = "file"  OBVIOUS
  <2> QED BY <2>2, <2>3, VacantIs
<1> QED BY <1>5, <1>6, <1>7 DEF CInv

\* What the user puts somewhere is one of the nodes.
LEMMA ReplacementsAre == \A node \in Replacements : node \in Nodes
<1> SUFFICES ASSUME NEW node \in Replacements PROVE node \in Nodes  OBVIOUS
<1>1. PICK e \in Paths : e = <<>>  BY ContainmentAssumption
<1>2. /\ "dir" \in Kinds /\ "file" \in Kinds /\ "link" \in Kinds
      /\ "nothing" \in Contents /\ "omm" \in Contents /\ "mine" \in Contents
  BY DEF Kinds, Contents
<1>3. \A f \in Kinds, b \in Contents, to \in Paths : Node(f, b, to) \in Nodes
  BY DEF Node, Nodes
<1>4. CASE node = Vacant  BY <1>4, VacantIs
<1>5. CASE node = Directory
  <2>1. node = Node("dir", "nothing", e)  BY <1>1, <1>5 DEF Directory
  <2> QED BY <1>2, <1>3, <2>1
<1>6. CASE node = FileOf("omm")
  <2>1. node = Node("file", "omm", e)  BY <1>1, <1>6 DEF FileOf
  <2> QED BY <1>2, <1>3, <2>1
<1>7. CASE node = FileOf("mine")
  <2>1. node = Node("file", "mine", e)  BY <1>1, <1>7 DEF FileOf
  <2> QED BY <1>2, <1>3, <2>1
<1>8. CASE \E t \in Targets : node = LinkTo(t)
  <2>1. PICK t \in Paths : node = LinkTo(t)  BY <1>8, ContainmentAssumption
  <2>2. node = Node("link", "nothing", t)  BY <2>1 DEF LinkTo
  <2> QED BY <1>2, <1>3, <2>2
<1> QED BY <1>4, <1>5, <1>6, <1>7, <1>8 DEF Replacements

\* The user changes the disk into a disk, and without a link leaves the plan
\* right.
LEMMA ReplaceKeeps ==
    ASSUME CInv, NEW p \in Movable, NEW node \in Replacements, Replace(p, node)
    PROVE  CInv' /\ OwnPlaces
<1>1. /\ tree[Front(p)].kind = "dir"
      /\ tree' = [q \in Places |-> IF q = p THEN node
                                   ELSE IF IsStrictPrefix(p, q) THEN Vacant ELSE tree[q]]
      /\ moves' = moves + 1 /\ swapped' = (swapped \/ (going.on /\ node.kind = "link"))
      /\ entries' = entries /\ going' = going /\ own' = own /\ moves < MaxMoves
      /\ version' = version /\ merging' = merging
  BY DEF Replace
<1>2. /\ tree \in Disks /\ own \in SUBSET Wanted /\ entries \subseteq own
      /\ going \in Goings /\ swapped \in BOOLEAN /\ moves \in Nat
      /\ version \in Versions /\ merging \in Mergings
  BY DEF CInv, CTypeOK
<1>3. p \in Places /\ p \in Paths /\ p # <<>> /\ Front(p) \in Places /\ node \in Nodes
  BY ContainmentAssumption, ReplacementsAre
<1>4. IsStrictPrefix(Front(p), p) /\ Front(p) \in Paths  BY <1>3, FrontBegins
<1>5. \A a \in Paths : ~IsStrictPrefix(a, a)  BY DEF IsStrictPrefix
<1>6. Front(p) # p /\ ~IsStrictPrefix(p, Front(p))  BY <1>3, <1>4, <1>5, StrictlyOn
<1>7. tree'[Front(p)].kind = "dir"  BY <1>1, <1>3, <1>6
<1>8. tree' \in Disks
  <2>1. tree' \in [Places -> Nodes]  BY <1>1, <1>2, <1>3, VacantIs DEF Disks
  <2>2. tree'[<<>>].kind = "dir"
    <3>1. ~IsStrictPrefix(p, <<>>)
      <4>1. ASSUME IsStrictPrefix(p, <<>>) PROVE FALSE
        <5>1. PICK e \in Paths : e = <<>>  BY ContainmentAssumption
        <5>2. IsStrictPrefix(p, e)  BY <4>1, <5>1
        <5>3. PICK r \in Paths : r # <<>> /\ e = p \o r  BY <1>3, <5>2, Strictly
        <5> QED BY <1>3, <5>1, <5>3, ConcatApart
      <4> QED BY <4>1
    <3> QED BY <1>1, <1>2, <1>3, <3>1, ContainmentAssumption DEF Disks
  <2>3. ASSUME NEW q \in Places \ {<<>>}, tree'[q].kind # "none" PROVE tree'[Front(q)].kind = "dir"
    <3>1. q \in Paths /\ q # <<>> /\ Front(q) \in Places  BY ContainmentAssumption
    <3>2. IsStrictPrefix(Front(q), q) /\ Front(q) \in Paths  BY <3>1, FrontBegins
    <3>3. CASE q = p  BY <1>7, <3>3
    <3>4. CASE q # p
      <4>1. ~IsStrictPrefix(p, q)  BY <1>1, <2>3, <3>4, VacantIs
      <4>2. tree'[q] = tree[q]  BY <1>1, <3>4, <4>1
      <4>3. Front(q) # p  BY <3>2, <4>1
      <4>4. ~IsStrictPrefix(p, Front(q))  BY <1>3, <3>1, <3>2, <4>1, StrictlyOn
      <4>5. tree'[Front(q)] = tree[Front(q)]  BY <1>1, <3>1, <4>3, <4>4
      <4>6. tree[Front(q)].kind = "dir"  BY <1>2, <2>3, <4>2 DEF Disks
      <4> QED BY <4>5, <4>6
    <3> QED BY <3>3, <3>4
  <2> QED BY <2>1, <2>2, <2>3 DEF Disks
<1>9. CTypeOK'
  <2>1. swapped' \in BOOLEAN /\ moves' \in Nat  BY <1>1, <1>2
  <2> QED BY <1>1, <1>2, <1>8, <2>1 DEF CTypeOK
<1>10. PlanIsOwn'
  <2>1. (merging.on => ~going.on) /\ (going.todo # {} => going.on) /\ going.left \subseteq own
    BY DEF CInv, PlanIsOwn
  <2>2. ASSUME NEW s \in going.todo, ~swapped' PROVE Task(tree, s)'
    <3>1. going.on /\ node.kind # "link" /\ ~swapped  BY <1>1, <2>1, <2>2
    <3>2. s.path = going.root \o s.rel /\ Plain(tree, <<>>, Front(s.path)) /\ s.path # <<>>
      BY <3>1 DEF CInv, PlanIsOwn, Task
    <3>3. s.path \in Paths  BY <1>2 DEF Goings, Tasks
    <3>4. PICK u : u = tree'  OBVIOUS
    <3>5. \A q \in Paths : On(u, q).kind = "link" => On(tree, q).kind = "link"
      <4> SUFFICES ASSUME NEW q \in Paths, On(u, q).kind = "link" PROVE On(tree, q).kind = "link"
        OBVIOUS
      <4>1. q \in Places /\ u[q].kind = "link"  BY VacantIs DEF On
      <4>2. u[q] = tree[q]  BY <1>1, <3>1, <3>4, <4>1, VacantIs
      <4> QED BY <4>1, <4>2 DEF On
    <3>6. PICK f \in Paths, e \in Paths : f = Front(s.path) /\ e = <<>>  BY <3>2, <3>3, FrontIs, ContainmentAssumption
    <3>7. Plain(tree, e, f)  BY <3>2, <3>6
    <3>8. Plain(u, e, f)  BY <3>5, <3>7, StillPlain
    <3>9. Plain(tree', <<>>, Front(s.path))  BY <3>4, <3>6, <3>8
    <3> QED BY <1>1, <3>2, <3>9 DEF Task
  <2>3. \A s \in going.todo : s.path # <<>> /\ s.rel \in own  BY DEF CInv, PlanIsOwn
  <2> QED BY <1>1, <2>1, <2>2, <2>3 DEF PlanIsOwn
<1>11. OwnPlaces
  <2>1. moves' # moves
    <3>1. moves \in Nat /\ moves' = moves + 1  BY <1>1, <1>2
    <3> QED BY <3>1
  <2> QED BY <2>1 DEF OwnPlaces
<1> QED BY <1>9, <1>10, <1>11 DEF CInv

\* The invariant holds at the start, on any disk.
LEMMA CInitially == CInit(Disks) => CInv
<1> SUFFICES ASSUME CInit(Disks) PROVE CInv  OBVIOUS
<1>1. /\ tree \in Disks /\ entries = {} /\ going = NotGoing /\ own = {} /\ swapped = FALSE /\ moves = 0
      /\ version = "omm" /\ merging = NotMerging
  BY DEF CInit
<1>2. CTypeOK  BY <1>1, NotGoingIs, NotMergingIs DEF CTypeOK, Versions
<1>3. PlanIsOwn  BY <1>1, NotGoingIs DEF PlanIsOwn
<1> QED BY <1>2, <1>3 DEF CInv

\* Each step keeps the invariant, and files at omm's own places only.
LEMMA CNextKeeps == CInv /\ [CNext]_cVars => CInv' /\ [OwnPlaces]_cVars
<1> SUFFICES ASSUME CInv, [CNext]_cVars PROVE CInv' /\ [OwnPlaces]_cVars  OBVIOUS
<1>1. ASSUME NEW rel \in Wanted, InstallFile(rel) PROVE CInv' /\ OwnPlaces  BY <1>1, InstallKeeps
<1>2. ASSUME NEW force \in BOOLEAN, PlanRemoval(force) PROVE CInv' /\ OwnPlaces  BY <1>2, PlanKeeps
<1>3. ASSUME NEW s \in going.todo, Take(s) PROVE CInv' /\ OwnPlaces  BY <1>3, TakeKeeps
<1>4. ASSUME EndUninstall PROVE CInv' /\ OwnPlaces  BY <1>4, EndKeeps
<1>5. ASSUME KillUninstall PROVE CInv' /\ OwnPlaces  BY <1>5, KillKeeps
<1>6. ASSUME NEW p \in Movable, NEW node \in Replacements, Replace(p, node) PROVE CInv' /\ OwnPlaces
  BY <1>6, ReplaceKeeps
<1>7. ASSUME PlanMerge PROVE CInv' /\ OwnPlaces  BY <1>7, PlanMergeKeeps
<1>8. ASSUME NEW rel \in merging.todo, MergeFile(rel) PROVE CInv' /\ OwnPlaces  BY <1>8, MergeFileKeeps
<1>9. ASSUME EndMerge PROVE CInv' /\ OwnPlaces  BY <1>9, EndMergeKeeps
<1>10. ASSUME MergeStops \/ NewVersion PROVE CInv' /\ OwnPlaces  BY <1>10, MergeStopsKeeps
<1>11. CASE UNCHANGED cVars
  <2>1. /\ tree' = tree /\ entries' = entries /\ going' = going /\ own' = own /\ swapped' = swapped
        /\ moves' = moves /\ version' = version /\ merging' = merging
    BY <1>11 DEF cVars
  <2>2. CInv'  BY <2>1 DEF CInv, CTypeOK, PlanIsOwn, Task
  <2> QED BY <1>11, <2>2
<1> QED BY <1>1, <1>2, <1>3, <1>4, <1>5, <1>6, <1>7, <1>8, <1>9, <1>10, <1>11 DEF CNext

\* At every moment the disk is one, the ledger has only what omm wrote or
\* adopted, update and uninstall are never under way at once, and an uninstall
\* has in its plan only files of omm's, where their names say, until the user
\* makes a link.
THEOREM PlansOwnFiles == CSpec => []CInv
<1>1. CInit(Disks) => CInv  BY CInitially
<1>2. CInv /\ [CNext]_cVars => CInv'  BY CNextKeeps
<1> QED BY <1>1, <1>2, PTL DEF CSpec

\* install and uninstall make, overwrite and remove files at omm's own places
\* under the config root only, and update also where one of these leads, but
\* never outside the root: on every disk, for any places, links and files, and
\* however often the user changes it.
THEOREM OnlyOwnPlaces == CSpec => OwnPlacesOnly
<1>1. CInv /\ [CNext]_cVars => [OwnPlaces]_cVars  BY CNextKeeps
<1>2. OwnPlacesOnly <=> [][OwnPlaces]_cVars  BY DEF OwnPlacesOnly, OwnPlaces
<1> QED BY <1>1, <1>2, PlansOwnFiles, PTL DEF CSpec
=============================================================================
