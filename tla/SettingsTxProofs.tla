-------------------------- MODULE SettingsTxProofs --------------------------
(***************************************************************************)
(* What SettingsTx promises for every set of processes, keys, values and   *)
(* documents, and without the bounds of the model-checked instances.       *)
(***************************************************************************)
EXTENDS SettingsTx, TLAPS

-----------------------------------------------------------------------------
(* Facts about documents and transactions.                                 *)

\* The empty transaction is a transaction.
LEMMA NoTxIsTx == NoTx \in Tx
<1>1. NoPatch \in [{} -> Setting]
  BY DEF NoPatch
<1>2. NoPatch \in Patch
  BY <1>1 DEF Patch
<1> QED
  BY <1>2 DEF NoTx, Tx

\* A patch names typed keys, and gives each a value or removes it.
LEMMA PatchFacts ==
    ASSUME NEW sets \in Patch
    PROVE  /\ DOMAIN sets \subseteq TypedKeys
           /\ \A k \in DOMAIN sets : sets[k] \in Setting
  BY DEF Patch

\* The patch of a profile switch that puts back one key is a patch.
LEMMA RestorePatch ==
    ASSUME NEW sets \in Patch, NEW k \in TypedKeys, NEW v \in Setting
    PROVE  [j \in DOMAIN sets \cup {k} |-> IF j = k THEN v ELSE sets[j]] \in Patch
<1> DEFINE K == DOMAIN sets \cup {k}
<1>1. K \in SUBSET TypedKeys
  BY PatchFacts
<1>2. [j \in K |-> IF j = k THEN v ELSE sets[j]] \in [K -> Setting]
  BY PatchFacts
<1> QED
  BY <1>1, <1>2 DEF Patch

\* Whatever stands in a file's place, its content is a document.
LEMMA ContentIsDoc ==
    ASSUME NEW file \in File
    PROVE  Content(file) \in Doc
  BY DEF File, Doc, Content, EmptyDoc, Setting

\* A patched document is a document.
LEMMA PatchedIsDoc ==
    ASSUME NEW doc \in Doc, NEW sets \in Patch
    PROVE  Patched(doc, sets) \in Doc
  BY PatchFacts DEF Doc, Patched, Keys

\* The host's rewrite and omm's merge leave documents.
LEMMA RewritesAreDocs ==
    ASSUME NEW doc \in Doc, NEW now \in Doc
    PROVE  TypedPart(doc) \in Doc /\ MergedBack(doc, now) \in Doc
  BY DEF Doc, TypedPart, MergedBack, Setting

\* The keys a transaction changes are keys of its patch.
LEMMA ChangedAreTyped ==
    ASSUME NEW t \in Tx, NEW file
    PROVE  Changed(t, file) \subseteq DOMAIN t.sets /\ Changed(t, file) \subseteq TypedKeys
  BY PatchFacts DEF Tx, Changed

\* Recording keeps the registrations well formed.
LEMMA RecordedType ==
    ASSUME TypeOK, NEW p \in Procs
    PROVE  Recorded(registrations, p) \in [TypedKeys -> Reg \cup {NoReg}]
<1>1. tx[p] \in Tx /\ loaded[p] \in File /\ tx[p].sets \in Patch
  BY DEF TypeOK, Tx
<1>2. Content(loaded[p]) \in Doc
  BY <1>1, ContentIsDoc
<1>3. \A k \in ChangedBy(p) : /\ Content(loaded[p])[k] \in Setting
                              /\ tx[p].sets[k] \in Setting
  BY <1>1, <1>2, PatchFacts, ChangedAreTyped DEF ChangedBy, Doc, Keys
<1>4. registrations \in [TypedKeys -> Reg \cup {NoReg}]
  BY DEF TypeOK
<1> QED
  BY <1>3, <1>4 DEF Recorded, Reg

\* A step to a tuner's step, or between two steps of the installer's own,
\* keeps every process among its steps.
LEMMA GotoType ==
    ASSUME TypeOK, NEW p \in Procs, NEW step, Goto(p, step),
           \/ step \in TunerSteps
           \/ step \in InstallerSteps /\ p \notin Tuners
    PROVE  /\ pc' \in [Procs -> {"idle"} \cup InstallerSteps]
           /\ \A q \in Tuners : pc'[q] \in {"idle"} \cup TunerSteps
<1>1. TunerSteps \subseteq InstallerSteps
  BY DEF InstallerSteps
<1>2. pc \in [Procs -> {"idle"} \cup InstallerSteps]
  BY DEF TypeOK
<1>3. \A q \in Tuners : pc[q] \in {"idle"} \cup TunerSteps
  BY DEF TypeOK
<1> HIDE DEF TunerSteps, InstallerSteps
<1> QED
  BY <1>1, <1>2, <1>3 DEF Goto, Procs

\* A process at one of the installer's own steps is an installer.
LEMMA OwnStepIsInstallers ==
    ASSUME TypeOK, NEW p \in Procs,
           pc[p] \in {"session", "originals", "host", "seed", "approve",
                      "merge", "mergelock", "mergewrite", "close"}
    PROVE  p \notin Tuners
  BY DEF TypeOK, TunerSteps

\* A command that ends leaves every variable it resets in its set.
LEMMA ExitType ==
    ASSUME TypeOK, NEW p \in Procs, Exit(p)
    PROVE  /\ configLock' \in Procs \cup {NoProc}
           /\ ledgerLock' \in Procs \cup {NoProc}
           /\ pc' \in [Procs -> {"idle"} \cup InstallerSteps]
           /\ \A q \in Tuners : pc'[q] \in {"idle"} \cup TunerSteps
           /\ tx' \in [Procs -> Tx]
           /\ before' \in [Procs -> File]
           /\ loaded' \in [Procs -> File]
           /\ backup' \in [Procs -> File]
           /\ drifted' \in [Procs -> SUBSET Drift]
<1>1. NoFile \in File
  BY DEF File
<1> QED
  BY <1>1, NoTxIsTx DEF TypeOK, Exit, Goto, Procs

-----------------------------------------------------------------------------
(* Type correctness.                                                       *)

\* The initial state is well typed.
LEMMA TypeOKInit == Init => TypeOK
<1> SUFFICES ASSUME Init PROVE TypeOK
  OBVIOUS
<1>1. settings \in File /\ NoFile \in File
  BY ConstantsAssumption DEF Init, File
<1>2. NoEntry \in LedgerEntry
  BY <1>1 DEF NoEntry, LedgerEntry, Classes
<1> QED
  BY <1>1, <1>2, NoTxIsTx DEF Init, TypeOK, Procs

\* A begun command keeps the state well typed.
LEMMA TypeOKBegin ==
    ASSUME TypeOK, NEW p \in Procs, Begin(p)
    PROVE  TypeOK'
<1>1. CASE BeginSet(p)
  <2>1. PICK sets \in TunerPatches :
            tx' = [tx EXCEPT ![p] = [sets |-> sets, restores |-> {}]]
    BY <1>1 DEF BeginSet
  <2>2. [sets |-> sets, restores |-> {}] \in Tx
    BY ConstantsAssumption DEF Tx
  <2>3. tx' \in [Procs -> Tx]
    BY <2>1, <2>2 DEF TypeOK
  <2> QED
    BY <1>1, <2>3 DEF BeginSet, Goto, TypeOK, TunerSteps, InstallerSteps,
       disk, ledger, locks, history
<1>2. CASE BeginRestore(p)
  <2>1. PICK k \in TypedKeys, sets \in TunerPatches \cup {NoPatch} :
            /\ registrations[k] # NoReg
            /\ tx' = [tx EXCEPT ![p] =
                  [sets |-> [j \in DOMAIN sets \cup {k} |->
                              IF j = k THEN registrations[k].prior
                                       ELSE sets[j]],
                   restores |-> {k}]]
    BY <1>2 DEF BeginRestore
  <2>2. registrations[k].prior \in Setting
    BY <2>1 DEF TypeOK, Reg
  <2>3. sets \in Patch
    BY ConstantsAssumption, NoTxIsTx DEF NoTx, Tx
  <2>4. [j \in DOMAIN sets \cup {k} |->
            IF j = k THEN registrations[k].prior ELSE sets[j]] \in Patch
    BY <2>2, <2>3, RestorePatch
  <2>5. tx' \in [Procs -> Tx]
    BY <2>1, <2>4 DEF TypeOK, Tx
  <2> QED
    BY <1>2, <2>5 DEF BeginRestore, Goto, TypeOK, TunerSteps, InstallerSteps,
       disk, ledger, locks, history
<1>3. CASE BeginInstall(p)
  <2>1. [sets |-> ProfilePatch, restores |-> {}] \in Tx
    BY ConstantsAssumption DEF Tx
  <2>2. tx' \in [Procs -> Tx] /\ before' \in [Procs -> File]
    BY <1>3, <2>1 DEF BeginInstall, TypeOK
  <2>3. p \notin Tuners
    BY <1>3, ConstantsAssumption DEF BeginInstall
  <2> QED
    BY <1>3, <2>2, <2>3 DEF BeginInstall, Goto, TypeOK, TunerSteps, InstallerSteps,
       disk, ledger, locks, history
<1> QED
  BY <1>1, <1>2, <1>3 DEF Begin

\* A process that gives up leaves the state well typed.
LEMMA TypeOKGiveUp ==
    ASSUME TypeOK, NEW p \in Procs, GiveUp(p)
    PROVE  TypeOK'
<1>1. Exit(p)
  BY DEF GiveUp, Refuse, TimeoutConfig, TimeoutRecord, TimeoutSession, Kill
<1>2. ChangedBy(p) \subseteq TypedKeys
  BY ChangedAreTyped DEF ChangedBy, TypeOK
<1>3. CASE Refuse(p) \/ TimeoutConfig(p) \/ TimeoutSession(p)
  BY <1>1, <1>3, ExitType DEF Refuse, TimeoutConfig, TimeoutSession, TypeOK,
     disk, ledger, bounds
<1>4. CASE TimeoutRecord(p)
  BY <1>1, <1>2, <1>4, ExitType DEF TimeoutRecord, TypeOK, disk, ledger, bounds
<1>5. CASE Kill(p)
  BY <1>1, <1>2, <1>5, ExitType DEF Kill, TypeOK, disk, ledger
<1> QED
  BY <1>3, <1>4, <1>5 DEF GiveUp

\* A step of a command keeps the state well typed.
LEMMA TypeOKStep ==
    ASSUME TypeOK, NEW p \in Procs, Step(p)
    PROVE  TypeOK'
<1> USE DEF disk, ledger, locks, local, bounds, history
<1>0. /\ tx[p] \in Tx /\ tx[p].sets \in Patch
      /\ loaded[p] \in File /\ before[p] \in File
      /\ NoFile \in File
  BY DEF TypeOK, Tx, File
<1>1. CASE Load(p)
  <2>1. CASE Exit(p)
    BY <1>1, <2>1, ExitType DEF Load, TypeOK
  <2>2. CASE ~Exit(p)
    BY <1>1, <2>2, ConstantsAssumption DEF Load, Goto, TypeOK, TunerSteps,
       InstallerSteps, Procs
  <2> QED
    BY <2>1, <2>2
<1>2. CASE LockConfig(p)
  BY <1>2 DEF LockConfig, Goto, TypeOK, TunerSteps, InstallerSteps
<1>3. CASE Check(p)
  <2>1. CASE Exit(p)
    BY <1>3, <2>1, ExitType DEF Check, TypeOK
  <2>2. CASE ~Exit(p)
    <3>1. Goto(p, "rename") \/ Goto(p, "backup")
      BY <1>3, <2>2 DEF Check
    <3>2. /\ pc' \in [Procs -> {"idle"} \cup InstallerSteps]
          /\ \A q \in Tuners : pc'[q] \in {"idle"} \cup TunerSteps
      BY <3>1, GotoType DEF TunerSteps
    <3> QED
      BY <1>3, <2>2, <3>2 DEF Check, TypeOK
  <2> QED
    BY <2>1, <2>2
<1>4. CASE Backup(p)
  <2>1. CASE Exit(p)
    BY <1>4, <2>1, ExitType DEF Backup, TypeOK
  <2>2. CASE ~Exit(p)
    <3>1. Goto(p, "rename")
      BY <1>4, <2>2 DEF Backup
    <3>2. /\ pc' \in [Procs -> {"idle"} \cup InstallerSteps]
          /\ \A q \in Tuners : pc'[q] \in {"idle"} \cup TunerSteps
      BY <3>1, GotoType DEF TunerSteps
    <3> QED
      BY <1>4, <2>2, <3>2 DEF Backup, TypeOK
  <2> QED
    BY <2>1, <2>2
<1>5. CASE Rename(p)
  <2>1. settings' \in File
    BY <1>0, <1>5, ContentIsDoc, PatchedIsDoc DEF Rename, File
  <2>2. Content(loaded[p]) \in Doc
    BY <1>0, ContentIsDoc
  <2>3. \A k \in ChangedBy(p) : /\ Content(loaded[p])[k] \in Setting
                                /\ tx[p].sets[k] \in Setting
    BY <1>0, <2>2, PatchFacts, ChangedAreTyped DEF ChangedBy, Doc, Keys
  <2>4. written' \in [TypedKeys -> Reg \cup {NoReg}]
    BY <1>5, <2>3 DEF Rename, TypeOK, Reg
  <2>5. contested' \in SUBSET (TypedKeys \cup {TheEntry})
    BY <1>0, <1>5, ChangedAreTyped DEF Rename, TypeOK, ChangedBy
  <2> QED
    BY <1>5, <2>1, <2>4, <2>5 DEF Rename, Goto, TypeOK, TunerSteps,
       InstallerSteps
<1>6. CASE RecordTuner(p)
  <2>1. registrations' \in [TypedKeys -> Reg \cup {NoReg}]
    BY <1>6, RecordedType DEF RecordTuner
  <2>2. entry' \in LedgerEntry
    BY <1>0, <1>6 DEF RecordTuner, TunerClass, Attached, TypeOK, LedgerEntry,
       Classes
  <2> QED
    BY <1>6, <2>1, <2>2, ExitType DEF RecordTuner, TypeOK
<1>7. CASE OpenSession(p) \/ HostInstall(p) \/ HostCurrent(p)
           \/ HostApproved(p) \/ MergeLock(p)
  <2>1. p \notin Tuners
    BY <1>7, OwnStepIsInstallers
       DEF OpenSession, HostInstall, HostCurrent, HostApproved, MergeLock
  <2>2. \E step \in InstallerSteps : Goto(p, step)
    BY <1>7 DEF OpenSession, HostInstall, HostCurrent, HostApproved, MergeLock,
       InstallerSteps
  <2>3. /\ pc' \in [Procs -> {"idle"} \cup InstallerSteps]
        /\ \A q \in Tuners : pc'[q] \in {"idle"} \cup TunerSteps
    BY <2>1, <2>2, GotoType
  <2> QED
    BY <1>7, <2>3 DEF OpenSession, HostInstall, HostCurrent, HostApproved,
       MergeLock, TypeOK
<1>8. CASE RecordOriginals(p) \/ SeedEntry(p)
  <2>1. entry' \in LedgerEntry
    BY <1>8 DEF RecordOriginals, SeedEntry, TypeOK, LedgerEntry, Classes
  <2>2. p \notin Tuners
    BY <1>8, OwnStepIsInstallers DEF RecordOriginals, SeedEntry
  <2>3. contested' \in SUBSET (TypedKeys \cup {TheEntry})
    BY <1>8 DEF RecordOriginals, SeedEntry, TypeOK
  <2>4. \E step \in InstallerSteps : Goto(p, step)
    BY <1>8 DEF RecordOriginals, SeedEntry, InstallerSteps
  <2>5. /\ pc' \in [Procs -> {"idle"} \cup InstallerSteps]
        /\ \A q \in Tuners : pc'[q] \in {"idle"} \cup TunerSteps
    BY <2>2, <2>4, GotoType
  <2> QED
    BY <1>8, <2>1, <2>3, <2>5 DEF RecordOriginals, SeedEntry, TypeOK
<1>9. CASE HostApprove(p)
  <2>1. settings' \in File
    BY <1>9, ContentIsDoc, RewritesAreDocs DEF HostApprove, TypeOK, File
  <2>2. p \notin Tuners
    BY <1>9, OwnStepIsInstallers DEF HostApprove
  <2>3. Goto(p, "merge")
    BY <1>9 DEF HostApprove
  <2>4. /\ pc' \in [Procs -> {"idle"} \cup InstallerSteps]
        /\ \A q \in Tuners : pc'[q] \in {"idle"} \cup TunerSteps
    BY <2>2, <2>3, GotoType DEF InstallerSteps
  <2> QED
    BY <1>9, <2>1, <2>4 DEF HostApprove, Drifts, TypeOK
<1>10. CASE MergeRead(p)
  <2>1. p \notin Tuners
    BY <1>10, OwnStepIsInstallers DEF MergeRead
  <2>2. Goto(p, "load") \/ Goto(p, "mergelock")
    BY <1>10 DEF MergeRead
  <2>3. /\ pc' \in [Procs -> {"idle"} \cup InstallerSteps]
        /\ \A q \in Tuners : pc'[q] \in {"idle"} \cup TunerSteps
    BY <2>1, <2>2, GotoType DEF TunerSteps, InstallerSteps
  <2> QED
    BY <1>10, <2>3 DEF MergeRead, TypeOK
<1>11. CASE MergeWrite(p)
  <2>1. settings' \in File
    BY <1>0, <1>11, ContentIsDoc, RewritesAreDocs DEF MergeWrite, TypeOK, File
  <2>2. p \notin Tuners
    BY <1>11, OwnStepIsInstallers DEF MergeWrite
  <2> QED
    BY <1>11, <2>1, <2>2 DEF MergeWrite, Goto, TypeOK, TunerSteps,
       InstallerSteps
<1>12. CASE RecordInstall(p)
  <2>1. registrations' \in [TypedKeys -> Reg \cup {NoReg}]
    BY <1>12, RecordedType DEF RecordInstall
  <2>2. entry' \in LedgerEntry
    BY <1>0, <1>12 DEF RecordInstall, InstallerClass, Attached, TypeOK,
       LedgerEntry, Classes
  <2>3. p \notin Tuners
    BY <1>12, ConstantsAssumption DEF RecordInstall
  <2> QED
    BY <1>12, <2>1, <2>2, <2>3 DEF RecordInstall, Goto, TypeOK, InstallerSteps
<1>13. CASE CloseSession(p)
  BY <1>13, ExitType DEF CloseSession, TypeOK
<1> QED
  BY <1>1, <1>2, <1>3, <1>4, <1>5, <1>6, <1>7, <1>8, <1>9, <1>10, <1>11,
     <1>12, <1>13 DEF Step

\* Every reachable state is well typed: omm never stages, writes, backs up or
\* ledgers anything but documents, patches of typed keys and registrations.
THEOREM TypeCorrect == Spec => []TypeOK
<1>1. Init => TypeOK
  BY TypeOKInit
<1>2. TypeOK /\ [Next]_vars => TypeOK'
  <2> SUFFICES ASSUME TypeOK, [Next]_vars PROVE TypeOK'
    OBVIOUS
  <2>1. CASE UNCHANGED vars
    BY <2>1 DEF vars, disk, ledger, locks, local, bounds, history, TypeOK
  <2>2. CASE UserWrites
    BY <2>2, ConstantsAssumption DEF UserWrites, Drifts, TypeOK, ledger, locks,
       local
  <2>3. ASSUME NEW p \in Procs, Begin(p) \/ Step(p) \/ GiveUp(p) PROVE TypeOK'
    BY <2>3, TypeOKBegin, TypeOKStep, TypeOKGiveUp
  <2> QED
    BY <2>1, <2>2, <2>3 DEF Next
<1> QED
  BY <1>1, <1>2, PTL DEF Spec

-----------------------------------------------------------------------------
(* The two locks.                                                          *)

\* Where LocksMatchSteps holds, a process that ends leaves it holding: its
\* locks go with it.
LEMMA LocksExit ==
    ASSUME TypeOK, LocksMatchSteps, NEW p \in Procs, Exit(p)
    PROVE  LocksMatchSteps'
<1>1. NoProc \notin Procs
  BY ConstantsAssumption
<1>2. "idle" \notin HoldsConfig /\ "idle" \notin HoldsLedger
  BY DEF HoldsConfig, HoldsLedger, InstallerSteps, TunerSteps
<1>3. pc \in [Procs -> {"idle"} \cup InstallerSteps]
  BY DEF TypeOK
<1> HIDE DEF HoldsConfig, HoldsLedger
<1> QED
  BY <1>1, <1>2, <1>3 DEF LocksMatchSteps, Exit, Goto, Procs

\* A step that touches no lock, and neither enters nor leaves the steps one is
\* held in, leaves LocksMatchSteps holding.
LEMMA LocksGoto ==
    ASSUME TypeOK, LocksMatchSteps, NEW p \in Procs, NEW step, Goto(p, step),
           UNCHANGED locks,
           pc[p] \in HoldsConfig <=> step \in HoldsConfig,
           p \in Installers => (pc[p] \in HoldsLedger <=> step \in HoldsLedger)
    PROVE  LocksMatchSteps'
<1>1. pc \in [Procs -> {"idle"} \cup InstallerSteps]
  BY DEF TypeOK
<1> HIDE DEF HoldsConfig, HoldsLedger
<1> QED
  BY <1>1 DEF LocksMatchSteps, Goto, Procs, locks

\* Taking and releasing muse-config.lock.
LEMMA LocksConfig ==
    ASSUME TypeOK, LocksMatchSteps, NEW p \in Procs, NEW step, Goto(p, step),
           UNCHANGED ledgerLock,
           \/ configLock = NoProc /\ configLock' = p /\ step \in HoldsConfig
           \/ configLock = p /\ configLock' = NoProc /\ step \notin HoldsConfig,
           p \in Installers => (pc[p] \in HoldsLedger <=> step \in HoldsLedger)
    PROVE  LocksMatchSteps'
<1>1. pc \in [Procs -> {"idle"} \cup InstallerSteps] /\ NoProc \notin Procs
  BY ConstantsAssumption DEF TypeOK
<1> HIDE DEF HoldsConfig, HoldsLedger
<1> QED
  BY <1>1 DEF LocksMatchSteps, Goto, Procs

\* Each lock is held by exactly the process at the steps it protects: no two
\* commits overlap, and no two sessions.
LEMMA LocksStep ==
    ASSUME TypeOK, LocksMatchSteps, NEW p \in Procs, Step(p)
    PROVE  LocksMatchSteps'
<1> USE DEF HoldsConfig, HoldsLedger, InstallerSteps, TunerSteps
<1>1. CASE Exit(p)
  BY <1>1, LocksExit
<1>2. CASE ~Exit(p)
  <2>1. CASE Load(p)
    BY <1>2, <2>1, LocksGoto DEF Load, locks
  <2>2. CASE LockConfig(p)
    BY <2>2, LocksConfig DEF LockConfig
  <2>3. CASE Check(p)
    BY <1>2, <2>3, LocksGoto DEF Check, locks
  <2>4. CASE Backup(p)
    BY <1>2, <2>4, LocksGoto DEF Backup, locks
  <2>5. CASE Rename(p)
    <3>1. configLock = p
      BY <2>5 DEF Rename, LocksMatchSteps
    <3> QED
      BY <2>5, <3>1, LocksConfig DEF Rename
  <2>6. CASE RecordTuner(p) \/ CloseSession(p)
    BY <1>2, <2>6 DEF RecordTuner, CloseSession
  <2>7. CASE OpenSession(p)
    <3>1. NoProc \notin Procs /\ Tuners \cap Installers = {}
      BY ConstantsAssumption
    <3>2. p \in Installers
      BY <2>7, OwnStepIsInstallers DEF OpenSession, Procs
    <3>3. pc \in [Procs -> {"idle"} \cup InstallerSteps]
      BY DEF TypeOK
    <3> QED
      BY <2>7, <3>1, <3>2, <3>3 DEF OpenSession, Goto, LocksMatchSteps, Procs
  <2>8. CASE RecordOriginals(p) \/ HostInstall(p) \/ HostCurrent(p)
             \/ SeedEntry(p) \/ HostApprove(p) \/ HostApproved(p)
             \/ MergeRead(p) \/ RecordInstall(p)
    BY <2>8, LocksGoto DEF RecordOriginals, HostInstall, HostCurrent, SeedEntry,
       HostApprove, HostApproved, MergeRead, RecordInstall, locks
  <2>9. CASE MergeLock(p)
    BY <2>9, LocksConfig DEF MergeLock
  <2>10. CASE MergeWrite(p)
    <3>1. configLock = p
      BY <2>10 DEF MergeWrite, LocksMatchSteps
    <3> QED
      BY <2>10, <3>1, LocksConfig DEF MergeWrite
  <2> QED
    BY <2>1, <2>2, <2>3, <2>4, <2>5, <2>6, <2>7, <2>8, <2>9, <2>10 DEF Step
<1> QED
  BY <1>1, <1>2

\* No two processes are ever at the steps one lock protects: the commits of
\* settings.json exclude each other, and so do the sessions of the ledger.
THEOREM LocksCorrect == Spec => []LocksMatchSteps
<1>1. Init => LocksMatchSteps
  BY ConstantsAssumption DEF Init, LocksMatchSteps, HoldsConfig, HoldsLedger,
     InstallerSteps, TunerSteps, Procs
<1>2. TypeOK /\ LocksMatchSteps /\ [Next]_vars => LocksMatchSteps'
  <2> SUFFICES ASSUME TypeOK, LocksMatchSteps, [Next]_vars
               PROVE  LocksMatchSteps'
    OBVIOUS
  <2>1. CASE UNCHANGED vars
    BY <2>1 DEF vars, locks, LocksMatchSteps
  <2>2. CASE UserWrites
    BY <2>2 DEF UserWrites, locks, LocksMatchSteps
  <2>3. ASSUME NEW p \in Procs, Begin(p) PROVE LocksMatchSteps'
    <3>1. pc[p] = "idle" /\ UNCHANGED locks
      BY <2>3 DEF Begin, BeginSet, BeginRestore, BeginInstall
    <3>2. \/ Goto(p, "load") /\ p \notin Installers
          \/ Goto(p, "session")
      BY <2>3, ConstantsAssumption DEF Begin, BeginSet, BeginRestore, BeginInstall
    <3> QED
      BY <3>1, <3>2, LocksGoto
         DEF HoldsConfig, HoldsLedger, InstallerSteps, TunerSteps
  <2>4. ASSUME NEW p \in Procs, Step(p) PROVE LocksMatchSteps'
    BY <2>4, LocksStep
  <2>5. ASSUME NEW p \in Procs, GiveUp(p) PROVE LocksMatchSteps'
    BY <2>5, LocksExit DEF GiveUp, Refuse, TimeoutConfig, TimeoutRecord,
       TimeoutSession, Kill
  <2> QED
    BY <2>1, <2>2, <2>3, <2>4, <2>5 DEF Next
<1> QED
  BY <1>1, <1>2, TypeCorrect, PTL DEF Spec

-----------------------------------------------------------------------------
(* No update is lost, and what is replaced is backed up.                   *)

\* The strengthening of NoLostUpdate and BackedUp that a step preserves: from
\* its stale check to its rename, a commit looks at the document it loaded,
\* and from its backup on at the one it copied, unless a program that takes
\* no lock has written since.
CommitOverLoaded ==
    \A p \in Procs :
        /\ pc[p] \in {"backup", "rename"} /\ "loaded" \notin drifted[p]
              => settings \in {loaded[p], NoFile}
        /\ pc[p] = "rename" /\ "backup" \notin drifted[p]
              => settings \in {backup[p], NoFile}

\* Two processes are never both between a lock and an unlock of
\* muse-config.lock.
LEMMA ConfigExclusion ==
    ASSUME LocksMatchSteps, NEW p \in Procs, NEW q \in Procs,
           pc[p] \in HoldsConfig, pc[q] \in HoldsConfig
    PROVE  p = q
  BY DEF LocksMatchSteps

\* What a process's step does to the commits of the others: nothing, or it
\* marks them, or it writes while none is under way.
LEMMA OthersKeepCommit ==
    ASSUME TypeOK, LocksMatchSteps, CommitOverLoaded,
           NEW p \in Procs, Begin(p) \/ Step(p) \/ GiveUp(p),
           NEW q \in Procs, q # p
    PROVE  /\ pc'[q] \in {"backup", "rename"} /\ "loaded" \notin drifted'[q]
                 => settings' \in {loaded'[q], NoFile}
           /\ pc'[q] = "rename" /\ "backup" \notin drifted'[q]
                 => settings' \in {backup'[q], NoFile}
<1>1. /\ pc \in [Procs -> {"idle"} \cup InstallerSteps]
      /\ loaded \in [Procs -> File]
      /\ backup \in [Procs -> File]
      /\ drifted \in [Procs -> SUBSET Drift]
  BY DEF TypeOK
<1>2. pc'[q] = pc[q] /\ loaded'[q] = loaded[q] /\ backup'[q] = backup[q]
  BY <1>1 DEF Begin, BeginSet, BeginRestore, BeginInstall, Step, Load,
     LockConfig, Check, Backup, Rename, RecordTuner, OpenSession,
     RecordOriginals, HostInstall, HostCurrent, SeedEntry, HostApprove,
     HostApproved, MergeRead, MergeLock, MergeWrite, RecordInstall,
     CloseSession, GiveUp, Refuse, TimeoutConfig, TimeoutRecord,
     TimeoutSession, Kill, Exit, Goto, local
<1>3. CASE HostApprove(p)
  BY <1>3 DEF HostApprove, Drifts, Drift
<1>4. CASE Rename(p) \/ MergeWrite(p)
  <2>1. pc[p] \in HoldsConfig
    BY <1>4 DEF Rename, MergeWrite, HoldsConfig
  <2>2. pc[q] \notin HoldsConfig
    BY <2>1, ConfigExclusion
  <2> QED
    BY <1>2, <2>2 DEF HoldsConfig
<1>5. CASE ~(HostApprove(p) \/ Rename(p) \/ MergeWrite(p))
  <2>1. settings' = settings
    BY <1>5 DEF Begin, BeginSet, BeginRestore, BeginInstall, Step, Load,
       LockConfig, Check, Backup, RecordTuner, OpenSession,
       RecordOriginals, HostInstall, HostCurrent, SeedEntry,
       HostApproved, MergeRead, MergeLock, RecordInstall,
       CloseSession, GiveUp, Refuse, TimeoutConfig, TimeoutRecord,
       TimeoutSession, Kill, disk
  <2>2. drifted'[q] = drifted[q]
    BY <1>1, <1>5 DEF Begin, BeginSet, BeginRestore, BeginInstall, Step, Load,
       LockConfig, Check, Backup, RecordTuner, OpenSession,
       RecordOriginals, HostInstall, HostCurrent, SeedEntry,
       HostApproved, MergeRead, MergeLock, RecordInstall,
       CloseSession, GiveUp, Refuse, TimeoutConfig, TimeoutRecord,
       TimeoutSession, Kill, Exit, history
  <2> QED
    BY <1>2, <2>1, <2>2 DEF CommitOverLoaded
<1> QED
  BY <1>3, <1>4, <1>5

\* What a process's step does to its own commit.
LEMMA OwnCommit ==
    ASSUME TypeOK, CommitOverLoaded,
           NEW p \in Procs, Begin(p) \/ Step(p) \/ GiveUp(p)
    PROVE  /\ pc'[p] \in {"backup", "rename"} /\ "loaded" \notin drifted'[p]
                 => settings' \in {loaded'[p], NoFile}
           /\ pc'[p] = "rename" /\ "backup" \notin drifted'[p]
                 => settings' \in {backup'[p], NoFile}
<1>1. /\ pc \in [Procs -> {"idle"} \cup InstallerSteps]
      /\ loaded \in [Procs -> File]
      /\ backup \in [Procs -> File]
      /\ drifted \in [Procs -> SUBSET Drift]
  BY DEF TypeOK
<1>2. CASE Check(p)
  BY <1>1, <1>2 DEF Check, Exit, Goto, local, disk
<1>3. CASE Backup(p)
  BY <1>1, <1>3 DEF Backup, Exit, Goto, disk, CommitOverLoaded
<1>4. CASE ~(Check(p) \/ Backup(p))
  <2>1. pc'[p] \notin {"backup", "rename"}
    BY <1>1, <1>4 DEF Begin, BeginSet, BeginRestore, BeginInstall, Step, Load,
       LockConfig, Rename, RecordTuner, OpenSession,
       RecordOriginals, HostInstall, HostCurrent, SeedEntry, HostApprove,
       HostApproved, MergeRead, MergeLock, MergeWrite, RecordInstall,
       CloseSession, GiveUp, Refuse, TimeoutConfig, TimeoutRecord,
       TimeoutSession, Kill, Exit, Goto
  <2> QED
    BY <2>1
<1> QED
  BY <1>2, <1>3, <1>4

\* CommitOverLoaded holds of every reachable state.
THEOREM CommitsCorrect == Spec => []CommitOverLoaded
<1>1. Init => CommitOverLoaded
  BY DEF Init, CommitOverLoaded
<1>2. TypeOK /\ LocksMatchSteps /\ CommitOverLoaded /\ [Next]_vars
        => CommitOverLoaded'
  <2> SUFFICES ASSUME TypeOK, LocksMatchSteps, CommitOverLoaded, [Next]_vars
               PROVE  CommitOverLoaded'
    OBVIOUS
  <2>1. CASE UNCHANGED vars
    BY <2>1 DEF vars, disk, local, history, CommitOverLoaded
  <2>2. CASE UserWrites
    BY <2>2 DEF UserWrites, Drifts, Drift, CommitOverLoaded
  <2>3. ASSUME NEW p \in Procs, Begin(p) \/ Step(p) \/ GiveUp(p)
        PROVE  CommitOverLoaded'
    BY <2>3, OthersKeepCommit, OwnCommit DEF CommitOverLoaded
  <2> QED
    BY <2>1, <2>2, <2>3 DEF Next
<1> QED
  BY <1>1, <1>2, TypeCorrect, LocksCorrect, PTL DEF Spec

\* No commit overwrites another command's: whatever the commands and their
\* interleaving, the rename of replace_locked replaces the document its
\* patch was computed from, short of a foreign write after the stale check.
THEOREM NoUpdateLost == Spec => NoLostUpdate
<1>1. CommitOverLoaded =>
        [\A p \in Procs : Publishes(p) =>
            \/ settings \in {loaded[p], NoFile}
            \/ "loaded" \in drifted[p]]_vars
  BY DEF CommitOverLoaded, Publishes
<1> QED
  BY <1>1, CommitsCorrect, PTL DEF NoLostUpdate

\* Every document a commit replaces is in the snapshot it has just taken,
\* short of a foreign write after the copy.
THEOREM ReplacedIsBackedUp == Spec => BackedUp
<1>1. CommitOverLoaded =>
        [\A p \in Procs : Publishes(p) =>
            \/ settings \in {backup[p], NoFile}
            \/ "backup" \in drifted[p]]_vars
  BY DEF CommitOverLoaded, Publishes
<1> QED
  BY <1>1, CommitsCorrect, PTL DEF BackedUp

-----------------------------------------------------------------------------
(* The ledger follows the commits.                                         *)

\* The commands that have committed key k and not recorded it.
Outstanding(k) == {q \in Pending : k \in ChangedBy(q)}

\* The strengthening of LedgerExact: a key is at most one command's to record,
\* and that record will make the ledger agree with the commits.
LedgerKeepsUp ==
    \A k \in TypedKeys \ (unrecorded \cup contested) :
        /\ Outstanding(k) = {} => registrations[k] = written[k]
        /\ \A q \in Outstanding(k) :
              /\ Outstanding(k) = {q}
              /\ Recorded(registrations, q)[k] = written[k]

\* A command's step leaves the transactions of the others alone.
LEMMA OthersKeepTx ==
    ASSUME TypeOK, NEW p \in Procs, Begin(p) \/ Step(p) \/ GiveUp(p)
    PROVE  \A q \in Procs \ {p} :
              /\ pc'[q] = pc[q] /\ tx'[q] = tx[q] /\ loaded'[q] = loaded[q]
              /\ ChangedBy(q)' = ChangedBy(q)
<1>1. /\ pc \in [Procs -> {"idle"} \cup InstallerSteps]
      /\ tx \in [Procs -> Tx]
      /\ loaded \in [Procs -> File]
  BY DEF TypeOK
<1>2. \A q \in Procs \ {p} :
         pc'[q] = pc[q] /\ tx'[q] = tx[q] /\ loaded'[q] = loaded[q]
  BY <1>1 DEF Begin, BeginSet, BeginRestore, BeginInstall, Step, Load,
     LockConfig, Check, Backup, Rename, RecordTuner, OpenSession,
     RecordOriginals, HostInstall, HostCurrent, SeedEntry, HostApprove,
     HostApproved, MergeRead, MergeLock, MergeWrite, RecordInstall,
     CloseSession, GiveUp, Refuse, TimeoutConfig, TimeoutRecord,
     TimeoutSession, Kill, Exit, Goto, local
<1> QED
  BY <1>2 DEF ChangedBy

\* A step that neither commits nor ends a record changes nothing the ledger is
\* compared with.
LEMMA LedgerQuiet ==
    ASSUME TypeOK, LedgerKeepsUp, NEW p \in Procs,
           Begin(p) \/ Step(p) \/ GiveUp(p),
           pc[p] # "record", pc'[p] # "record",
           UNCHANGED <<registrations, written>>,
           unrecorded \subseteq unrecorded', contested \subseteq contested'
    PROVE  LedgerKeepsUp'
<1>1. Pending' = Pending
  BY OthersKeepTx DEF Pending
<1>2. \A q \in Pending : /\ ChangedBy(q)' = ChangedBy(q)
                         /\ tx'[q] = tx[q] /\ loaded'[q] = loaded[q]
  BY OthersKeepTx DEF Pending
<1>3. \A k : Outstanding(k)' = Outstanding(k)
  BY <1>1, <1>2 DEF Outstanding
<1>4. \A q \in Pending, k \in TypedKeys :
          Recorded(registrations, q)'[k] = Recorded(registrations, q)[k]
  BY <1>2 DEF Recorded
<1> QED
  BY <1>3, <1>4 DEF LedgerKeepsUp, Outstanding

\* A commit adds itself to the outstanding records of the keys it changes.
LEMMA LedgerRename ==
    ASSUME TypeOK, LedgerKeepsUp, NEW p \in Procs, Rename(p)
    PROVE  LedgerKeepsUp'
<1>1. /\ pc \in [Procs -> {"idle"} \cup InstallerSteps]
      /\ pc[p] = "rename" /\ pc' = [pc EXCEPT ![p] = "record"]
      /\ UNCHANGED <<registrations, unrecorded, tx, loaded>>
  BY DEF TypeOK, Rename, Goto, ledger, local
<1>2. Pending' = Pending \cup {p} /\ p \notin Pending
  BY <1>1 DEF Pending
<1>3. \A q : ChangedBy(q)' = ChangedBy(q)
  BY <1>1 DEF ChangedBy
<1>4. \A q, k : Recorded(registrations, q)'[k] = Recorded(registrations, q)[k]
  BY <1>1 DEF Recorded, ChangedBy
<1>5. contested \subseteq contested' /\ unrecorded' = unrecorded
  BY DEF Rename
<1> SUFFICES ASSUME NEW k \in TypedKeys \ (unrecorded' \cup contested')
             PROVE  /\ Outstanding(k)' = {} => registrations'[k] = written'[k]
                    /\ \A q \in Outstanding(k)' :
                          /\ Outstanding(k)' = {q}
                          /\ Recorded(registrations, q)'[k] = written'[k]
  BY DEF LedgerKeepsUp
<1>6. CASE k \in ChangedBy(p)
  <2>1. Outstanding(k) = {}
    BY <1>6 DEF Rename, Outstanding
  <2>2. registrations[k] = written[k]
    BY <1>5, <2>1 DEF LedgerKeepsUp
  <2>3. Outstanding(k)' = {p}
    BY <1>2, <1>3, <1>6, <2>1 DEF Outstanding
  <2>4. Recorded(registrations, p)[k] = written'[k]
    <3>1. registrations[k] # NoReg => registrations[k] \in Reg
      BY DEF TypeOK
    <3> QED
      BY <1>6, <2>2, <3>1 DEF Rename, Recorded, Reg
  <2> QED
    BY <1>4, <2>3, <2>4
<1>7. CASE k \notin ChangedBy(p)
  <2>1. Outstanding(k)' = Outstanding(k)
    BY <1>2, <1>3, <1>7 DEF Outstanding
  <2>2. written'[k] = written[k]
    BY <1>7 DEF Rename
  <2> QED
    BY <1>1, <1>4, <1>5, <2>1, <2>2 DEF LedgerKeepsUp
<1> QED
  BY <1>6, <1>7

\* A record that is made, or lost, settles the keys it is about.
LEMMA LedgerSettle ==
    ASSUME TypeOK, LedgerKeepsUp, NEW p \in Procs,
           Begin(p) \/ Step(p) \/ GiveUp(p),
           pc[p] = "record", pc'[p] # "record",
           UNCHANGED <<written, contested>>,
           \/ /\ registrations' = Recorded(registrations, p)
              /\ unrecorded' = unrecorded
           \/ /\ registrations' = registrations
              /\ ChangedBy(p) \cup unrecorded \subseteq unrecorded'
    PROVE  LedgerKeepsUp'
<1>1. Pending' = Pending \ {p} /\ p \in Pending
  BY OthersKeepTx DEF Pending
<1>2. \A q \in Pending' : /\ ChangedBy(q)' = ChangedBy(q)
                          /\ tx'[q] = tx[q] /\ loaded'[q] = loaded[q]
  BY <1>1, OthersKeepTx DEF Pending
<1>3. \A k : Outstanding(k)' = Outstanding(k) \ {p}
  BY <1>1, <1>2 DEF Outstanding
<1> SUFFICES ASSUME NEW k \in TypedKeys \ (unrecorded' \cup contested')
             PROVE  /\ Outstanding(k)' = {} => registrations'[k] = written'[k]
                    /\ \A q \in Outstanding(k)' :
                          /\ Outstanding(k)' = {q}
                          /\ Recorded(registrations, q)'[k] = written'[k]
  BY DEF LedgerKeepsUp
<1>4. k \in TypedKeys \ (unrecorded \cup contested)
  OBVIOUS
<1>5. CASE k \in ChangedBy(p)
  <2>1. registrations' = Recorded(registrations, p)
    BY <1>5
  <2>2. p \in Outstanding(k)
    BY <1>1, <1>5 DEF Outstanding
  <2>3. Outstanding(k) = {p} /\ Recorded(registrations, p)[k] = written[k]
    BY <1>4, <2>2 DEF LedgerKeepsUp
  <2> QED
    BY <1>3, <2>1, <2>3
<1>6. CASE k \notin ChangedBy(p)
  <2>1. Outstanding(k)' = Outstanding(k)
    BY <1>3, <1>6 DEF Outstanding
  <2>2. registrations'[k] = registrations[k]
    BY <1>6 DEF Recorded
  <2>3. \A q \in Outstanding(k) :
            Recorded(registrations, q)'[k] = Recorded(registrations, q)[k]
    BY <1>2, <2>1, <2>2 DEF Recorded, Outstanding
  <2> QED
    BY <1>4, <2>1, <2>2, <2>3 DEF LedgerKeepsUp
<1> QED
  BY <1>5, <1>6

\* LedgerKeepsUp holds of every reachable state.
THEOREM LedgerKept == Spec => []LedgerKeepsUp
<1>1. Init => LedgerKeepsUp
  BY DEF Init, LedgerKeepsUp, Outstanding, Pending
<1>2. TypeOK /\ LedgerKeepsUp /\ [Next]_vars => LedgerKeepsUp'
  <2> SUFFICES ASSUME TypeOK, LedgerKeepsUp, [Next]_vars
               PROVE  LedgerKeepsUp'
    OBVIOUS
  <2>1. CASE UNCHANGED vars \/ UserWrites
    <3>1. UNCHANGED <<pc, tx, loaded, registrations, written, unrecorded,
                      contested>>
      BY <2>1 DEF vars, UserWrites, ledger, local, history
    <3> QED
      BY <3>1 DEF LedgerKeepsUp, Outstanding, Pending, ChangedBy, Recorded
  <2>2. ASSUME NEW p \in Procs, Begin(p) \/ Step(p) \/ GiveUp(p)
        PROVE  LedgerKeepsUp'
    <3>1. pc \in [Procs -> {"idle"} \cup InstallerSteps]
      BY DEF TypeOK
    <3>2. CASE Rename(p)
      BY <3>2, LedgerRename
    <3>3. CASE pc[p] = "record"
      <4>1. \/ RecordTuner(p) \/ RecordInstall(p)
            \/ TimeoutRecord(p) \/ Kill(p)
        BY <2>2, <3>3 DEF Begin, BeginSet, BeginRestore, BeginInstall, Step,
           Load, LockConfig, Check, Backup, Rename, OpenSession,
           RecordOriginals, HostInstall, HostCurrent, SeedEntry, HostApprove,
           HostApproved, MergeRead, MergeLock, MergeWrite, CloseSession,
           GiveUp, Refuse, TimeoutConfig, TimeoutSession
      <4>2. pc'[p] # "record"
        BY <3>1, <4>1 DEF RecordTuner, RecordInstall, TimeoutRecord, Kill,
           Exit, Goto
      <4>3. UNCHANGED <<written, contested>>
        BY <4>1 DEF RecordTuner, RecordInstall, TimeoutRecord, Kill, history
      <4>4. \/ /\ registrations' = Recorded(registrations, p)
               /\ unrecorded' = unrecorded
            \/ /\ registrations' = registrations
               /\ ChangedBy(p) \cup unrecorded \subseteq unrecorded'
        BY <3>3, <4>1 DEF RecordTuner, RecordInstall, TimeoutRecord, Kill,
           history, ledger
      <4> QED
        BY <2>2, <3>3, <4>2, <4>3, <4>4, LedgerSettle
    <3>4. CASE pc[p] # "record" /\ ~Rename(p)
      <4>1. pc'[p] # "record"
        BY <2>2, <3>1, <3>4 DEF Begin, BeginSet, BeginRestore, BeginInstall,
           Step, Load, LockConfig, Check, Backup, RecordTuner, OpenSession,
           RecordOriginals, HostInstall, HostCurrent, SeedEntry, HostApprove,
           HostApproved, MergeRead, MergeLock, MergeWrite, RecordInstall,
           CloseSession, GiveUp, Refuse, TimeoutConfig, TimeoutRecord,
           TimeoutSession, Kill, Exit, Goto
      <4>2. /\ UNCHANGED <<registrations, written>>
            /\ unrecorded \subseteq unrecorded' /\ contested \subseteq contested'
        BY <2>2, <3>4 DEF Begin, BeginSet, BeginRestore, BeginInstall,
           Step, Load, LockConfig, Check, Backup, RecordTuner, OpenSession,
           RecordOriginals, HostInstall, HostCurrent, SeedEntry, HostApprove,
           HostApproved, MergeRead, MergeLock, MergeWrite, RecordInstall,
           CloseSession, GiveUp, Refuse, TimeoutConfig, TimeoutRecord,
           TimeoutSession, Kill, history, ledger
      <4> QED
        BY <2>2, <3>4, <4>1, <4>2, LedgerQuiet
    <3> QED
      BY <3>2, <3>3, <3>4
  <2> QED
    BY <2>1, <2>2 DEF Next
<1> QED
  BY <1>1, <1>2, TypeCorrect, PTL DEF Spec

\* The ledger is exact: whatever the commands, their interleaving and the
\* user's edits, a key with no record outstanding, lost or overtaken has in
\* the ledger the first prior and the last value omm committed, and a key put
\* back has none.
THEOREM LedgerIsExact == Spec => []LedgerExact
<1>1. LedgerKeepsUp => LedgerExact
  BY DEF LedgerKeepsUp, LedgerExact, LedgerFollowsCommits, Outstanding
<1> QED
  BY <1>1, LedgerKept, PTL

-----------------------------------------------------------------------------
(* The original the ledger keeps.                                          *)

\* Nothing has happened that OriginalIsPreOmm makes an exception of.
Quiet == edits = 0 /\ TheEntry \notin unrecorded \cup contested

\* An entry of a shared file has an original; without an entry there is none.
EntryShape ==
    /\ entry.class = "none" => entry.original = NoFile
    /\ entry.class = "shared-key" => entry.original # NoFile

\* Until the ledger has an entry, an installer has not let the host rewrite
\* the file, and gets past RecordOriginals only without a file ...
InstallersWait ==
    \A p \in Installers :
        /\ pc[p] \in {"idle", "session", "originals", "host", "seed"}
        /\ pc[p] \in {"host", "seed"} => before[p] = NoFile

\* ... a bundle is that of the installer about to make the entry ...
BundleIsNew == bundle => \E p \in Installers : pc[p] = "seed"

\* ... a commit yet to be recorded replaced the user's own document ...
CommitsReplaceTheUsers == \A q \in Pending : loaded[q] = preOmm

\* ... and while there is no such commit, the file, and what the commands
\* have read of it, is the user's.
Untouched ==
    Pending = {} =>
        /\ settings = preOmm
        /\ \A p \in Procs :
              pc[p] \in {"lock", "check", "backup", "rename"} =>
                  loaded[p] = preOmm
        /\ \A p \in Installers :
              pc[p] \in {"session", "originals"} => before[p] = preOmm

NothingRecorded ==
    Quiet /\ entry.class = "none" =>
        InstallersWait /\ BundleIsNew /\ CommitsReplaceTheUsers /\ Untouched

\* The strengthening of OriginalIsPreOmm.
OriginalKept == EntryShape /\ NothingRecorded /\ OriginalIsPreOmm

\* An entry, once made, keeps its original and is never unmade.
LEMMA EntryStays ==
    ASSUME TypeOK, EntryShape, NEW p \in Procs,
           Begin(p) \/ Step(p) \/ GiveUp(p)
    PROVE  /\ EntryShape'
           /\ entry.class # "none" =>
                 entry'.class # "none" /\ entry'.original = entry.original
<1>1. /\ entry \in LedgerEntry
      /\ entry.class \in Classes
  BY DEF TypeOK, LedgerEntry
<1>2. CASE RecordTuner(p)
  BY <1>1, <1>2 DEF RecordTuner, TunerClass, Attached, EntryShape, Classes
<1>3. CASE RecordInstall(p)
  BY <1>1, <1>3 DEF RecordInstall, InstallerClass, Attached, EntryShape, Classes
<1>4. CASE RecordOriginals(p)
  BY <1>1, <1>4 DEF RecordOriginals, EntryShape, Classes
<1>5. CASE SeedEntry(p)
  BY <1>1, <1>5 DEF SeedEntry, EntryShape, LedgerEntry, Classes
<1>6. CASE ~(RecordTuner(p) \/ RecordInstall(p) \/ RecordOriginals(p)
             \/ SeedEntry(p))
  <2>1. entry' = entry
    BY <1>6 DEF Begin, BeginSet, BeginRestore, BeginInstall, Step, Load,
       LockConfig, Check, Backup, Rename, OpenSession, HostInstall,
       HostCurrent, HostApprove, HostApproved, MergeRead, MergeLock,
       MergeWrite, CloseSession, GiveUp, Refuse, TimeoutConfig,
       TimeoutRecord, TimeoutSession, Kill, ledger
  <2> QED
    BY <2>1 DEF EntryShape
<1> QED
  BY <1>2, <1>3, <1>4, <1>5, <1>6

\* What ceases to be quiet stays so, and the user's document stays known.
LEMMA QuietBefore ==
    ASSUME TypeOK, NEW p \in Procs, Begin(p) \/ Step(p) \/ GiveUp(p), Quiet'
    PROVE  Quiet /\ preOmm' = preOmm
  BY DEF Quiet, Begin, BeginSet, BeginRestore, BeginInstall, Step, Load,
     LockConfig, Check, Backup, Rename, RecordTuner, OpenSession,
     RecordOriginals, HostInstall, HostCurrent, SeedEntry, HostApprove,
     HostApproved, MergeRead, MergeLock, MergeWrite, RecordInstall,
     CloseSession, GiveUp, Refuse, TimeoutConfig, TimeoutRecord,
     TimeoutSession, Kill, history, bounds

\* Until the ledger has an entry, a step is not one that makes it, ends a
\* commit unrecorded, or comes after the seed.
LEMMA StepsBeforeEntry ==
    ASSUME TypeOK, LocksMatchSteps, EntryShape, NothingRecorded,
           NEW p \in Procs, Begin(p) \/ Step(p) \/ GiveUp(p),
           Quiet', entry'.class = "none"
    PROVE  /\ Quiet /\ entry.class = "none" /\ preOmm' = preOmm
           /\ pc[p] \notin {"record", "seed"}
           /\ p \in Installers =>
                 \/ BeginInstall(p) \/ OpenSession(p) \/ TimeoutSession(p)
                 \/ RecordOriginals(p) \/ HostInstall(p) \/ Kill(p)
           /\ p \notin Installers =>
                 \/ BeginSet(p) \/ BeginRestore(p) \/ Load(p) \/ Refuse(p)
                 \/ LockConfig(p) \/ TimeoutConfig(p) \/ Check(p)
                 \/ Backup(p) \/ Rename(p) \/ Kill(p)
<1>1. Quiet /\ preOmm' = preOmm
  BY QuietBefore
<1>2. entry.class = "none"
  BY EntryStays
<1>3. InstallersWait /\ BundleIsNew
  BY <1>1, <1>2 DEF NothingRecorded
<1>4. ~HostCurrent(p)
  <2>1. SUFFICES ASSUME HostCurrent(p) PROVE FALSE
    OBVIOUS
  <2>2. p \in Installers /\ pc[p] = "host"
    BY <2>1, OwnStepIsInstallers DEF HostCurrent, Procs
  <2>3. PICK q \in Installers : pc[q] = "seed"
    BY <1>3, <2>1 DEF HostCurrent, BundleIsNew
  <2>4. ledgerLock = p /\ ledgerLock = q
    BY <2>2, <2>3 DEF LocksMatchSteps, HoldsLedger, InstallerSteps
  <2> QED
    BY <2>2, <2>3, <2>4
<1>5. pc[p] # "record"
  <2>1. SUFFICES ASSUME pc[p] = "record" PROVE FALSE
    OBVIOUS
  <2>2. \/ RecordTuner(p) \/ RecordInstall(p)
        \/ TimeoutRecord(p) \/ Kill(p)
    BY <2>1 DEF Begin, BeginSet, BeginRestore, BeginInstall, Step,
       Load, LockConfig, Check, Backup, Rename, OpenSession,
       RecordOriginals, HostInstall, HostCurrent, SeedEntry, HostApprove,
       HostApproved, MergeRead, MergeLock, MergeWrite, CloseSession,
       GiveUp, Refuse, TimeoutConfig, TimeoutSession
  <2>3. CASE RecordTuner(p)
    BY <2>3 DEF RecordTuner, TunerClass
  <2>4. CASE RecordInstall(p)
    BY <2>4 DEF RecordInstall, InstallerClass
  <2>5. CASE TimeoutRecord(p) \/ Kill(p)
    BY <2>1, <2>5 DEF TimeoutRecord, Kill, Quiet
  <2> QED
    BY <2>2, <2>3, <2>4, <2>5
<1>6. pc[p] # "seed"
  <2>1. SUFFICES ASSUME pc[p] = "seed" PROVE FALSE
    OBVIOUS
  <2>2. p \in Installers
    BY <2>1, OwnStepIsInstallers DEF Procs
  <2>3. SeedEntry(p) \/ Kill(p)
    BY <2>1 DEF Begin, BeginSet, BeginRestore, BeginInstall, Step,
       Load, LockConfig, Check, Backup, Rename, RecordTuner, OpenSession,
       RecordOriginals, HostInstall, HostCurrent, HostApprove,
       HostApproved, MergeRead, MergeLock, MergeWrite, RecordInstall,
       CloseSession, GiveUp, Refuse, TimeoutConfig, TimeoutRecord,
       TimeoutSession
  <2>4. CASE SeedEntry(p)
    <3>1. before[p] = NoFile
      BY <1>3, <2>1, <2>2 DEF InstallersWait
    <3>2. entry \in LedgerEntry
      BY DEF TypeOK
    <3> QED
      BY <1>2, <2>4, <3>1, <3>2 DEF SeedEntry, LedgerEntry
  <2>5. CASE Kill(p)
    BY <2>1, <2>5 DEF Kill, Quiet
  <2> QED
    BY <2>3, <2>4, <2>5
<1>7. ASSUME p \in Installers
      PROVE  \/ BeginInstall(p) \/ OpenSession(p) \/ TimeoutSession(p)
             \/ RecordOriginals(p) \/ HostInstall(p) \/ Kill(p)
  <2>1. pc[p] \in {"idle", "session", "originals", "host"} /\ p \notin Tuners
    BY <1>3, <1>6, <1>7, ConstantsAssumption DEF InstallersWait
  <2> QED
    BY <1>4, <2>1 DEF Begin, BeginSet, BeginRestore, Step,
       Load, LockConfig, Check, Backup, Rename, RecordTuner, SeedEntry,
       HostApprove, HostApproved, MergeRead, MergeLock, MergeWrite,
       RecordInstall, CloseSession, GiveUp, Refuse, TimeoutConfig,
       TimeoutRecord
<1>8. ASSUME p \notin Installers
      PROVE  \/ BeginSet(p) \/ BeginRestore(p) \/ Load(p) \/ Refuse(p)
             \/ LockConfig(p) \/ TimeoutConfig(p) \/ Check(p)
             \/ Backup(p) \/ Rename(p) \/ Kill(p)
  <2>1. pc[p] \notin {"session", "originals", "host", "seed", "approve",
                      "merge", "mergelock", "mergewrite", "close"}
    BY <1>8, OwnStepIsInstallers DEF Procs
  <2> QED
    BY <1>5, <1>8, <2>1 DEF Begin, BeginInstall, Step, RecordTuner,
       OpenSession, RecordOriginals, HostInstall, HostCurrent, SeedEntry,
       HostApprove, HostApproved, MergeRead, MergeLock, MergeWrite,
       RecordInstall, CloseSession, GiveUp, TimeoutRecord, TimeoutSession
<1> QED
  BY <1>1, <1>2, <1>5, <1>6, <1>7, <1>8

\* A step before the entry is made leaves what NothingRecorded says.
LEMMA BeforeEntry ==
    ASSUME TypeOK, LocksMatchSteps, EntryShape, NothingRecorded,
           NEW p \in Procs, Begin(p) \/ Step(p) \/ GiveUp(p)
    PROVE  NothingRecorded'
<1> SUFFICES ASSUME Quiet', entry'.class = "none"
             PROVE  (InstallersWait /\ BundleIsNew /\ CommitsReplaceTheUsers
                        /\ Untouched)'
  BY DEF NothingRecorded
<1>1. /\ pc \in [Procs -> {"idle"} \cup InstallerSteps]
      /\ loaded \in [Procs -> File]
      /\ before \in [Procs -> File]
  BY DEF TypeOK
<1>2. /\ Quiet /\ entry.class = "none" /\ preOmm' = preOmm
      /\ pc[p] \notin {"record", "seed"}
  BY StepsBeforeEntry
<1>3. InstallersWait /\ BundleIsNew /\ CommitsReplaceTheUsers /\ Untouched
  BY <1>2 DEF NothingRecorded
<1>4. \A q \in Procs \ {p} :
         /\ pc'[q] = pc[q] /\ loaded'[q] = loaded[q]
  BY OthersKeepTx
<1>5. CASE p \in Installers
  <2>1. \/ BeginInstall(p) \/ OpenSession(p) \/ TimeoutSession(p)
        \/ RecordOriginals(p) \/ HostInstall(p) \/ Kill(p)
    BY <1>5, StepsBeforeEntry
  <2>2. /\ settings' = settings
        /\ \A q \in Procs \ {p} : before'[q] = before[q]
    BY <1>1, <2>1 DEF BeginInstall, OpenSession, TimeoutSession,
       RecordOriginals, HostInstall, Kill, Exit, local, disk
  <2>3. /\ pc[p] \in {"idle", "session", "originals", "host"}
        /\ pc'[p] \in {"idle", "session", "originals", "host", "seed"}
    BY <1>1, <1>2, <1>3, <1>5, <2>1 DEF BeginInstall, OpenSession,
       TimeoutSession, RecordOriginals, HostInstall, Kill, Exit, Goto,
       InstallersWait
  <2>4. Pending' = Pending
    BY <1>4, <2>3 DEF Pending
  <2>5. pc'[p] \in {"session", "originals"} /\ Pending = {}
            => before'[p] = preOmm
    BY <1>1, <1>3, <1>5, <2>1 DEF BeginInstall, OpenSession,
       TimeoutSession, RecordOriginals, HostInstall, Kill, Exit, Goto, local,
       Untouched
  <2>6. pc'[p] \in {"host", "seed"} => before'[p] = NoFile
    <3>1. CASE RecordOriginals(p)
      <4>1. entry.original = NoFile
        BY <1>2 DEF EntryShape
      <4>2. settings = NoFile
        BY <1>2, <3>1, <4>1 DEF RecordOriginals
      <4>3. Pending = {}
        BY <3>1 DEF RecordOriginals, Quiet
      <4>4. settings = preOmm /\ before[p] = preOmm
        BY <1>3, <1>5, <3>1, <4>3 DEF Untouched, RecordOriginals
      <4> QED
        BY <3>1, <4>2, <4>4 DEF RecordOriginals, local
    <3>2. CASE ~RecordOriginals(p)
      BY <1>1, <1>3, <1>5, <2>1, <3>2 DEF BeginInstall, OpenSession,
         TimeoutSession, HostInstall, Kill, Exit, Goto, local, InstallersWait
    <3> QED
      BY <3>1, <3>2
  <2>7. InstallersWait'
    BY <1>3, <1>4, <2>2, <2>3, <2>6 DEF InstallersWait, Procs
  <2>8. BundleIsNew'
    <3>1. CASE HostInstall(p)
      BY <1>1, <1>5, <3>1 DEF HostInstall, Goto, BundleIsNew
    <3>2. CASE ~HostInstall(p)
      <4>1. bundle' = bundle
        BY <2>1, <3>2 DEF BeginInstall, OpenSession, TimeoutSession,
           RecordOriginals, Kill, disk
      <4> QED
        BY <1>2, <1>3, <1>4, <4>1 DEF BundleIsNew, Procs
    <3> QED
      BY <3>1, <3>2
  <2>9. CommitsReplaceTheUsers'
    BY <1>2, <1>3, <1>4, <2>4 DEF CommitsReplaceTheUsers, Pending
  <2>10. Untouched'
    BY <1>2, <1>3, <1>4, <2>2, <2>3, <2>4, <2>5 DEF Untouched, Procs
  <2> QED
    BY <2>7, <2>8, <2>9, <2>10
<1>6. CASE p \notin Installers
  <2>1. \/ BeginSet(p) \/ BeginRestore(p) \/ Load(p) \/ Refuse(p)
        \/ LockConfig(p) \/ TimeoutConfig(p) \/ Check(p)
        \/ Backup(p) \/ Rename(p) \/ Kill(p)
    BY <1>6, StepsBeforeEntry
  <2>2. /\ bundle' = bundle
        /\ \A q \in Procs \ {p} : before'[q] = before[q]
    BY <1>1, <2>1 DEF BeginSet, BeginRestore, Load, Refuse, LockConfig,
       TimeoutConfig, Check, Backup, Rename, Kill, Exit, local, disk
  <2>3. \A q \in Installers :
            q \in Procs /\ pc'[q] = pc[q] /\ before'[q] = before[q]
    BY <1>4, <1>6, <2>2 DEF Procs
  <2>4. InstallersWait' /\ BundleIsNew'
    BY <1>3, <2>2, <2>3 DEF InstallersWait, BundleIsNew
  <2>5. CASE Rename(p)
    <3>1. Pending = {}
      BY <2>5 DEF Rename, Quiet
    <3>2. loaded[p] = preOmm /\ loaded' = loaded
      BY <1>3, <2>5, <3>1 DEF Rename, Untouched, local
    <3>3. Pending' = {p}
      BY <1>1, <1>4, <2>5, <3>1 DEF Rename, Goto, Pending
    <3> QED
      BY <1>2, <2>4, <3>2, <3>3 DEF CommitsReplaceTheUsers, Untouched
  <2>6. CASE ~Rename(p)
    <3>1. settings' = settings /\ pc'[p] # "record"
      BY <1>1, <2>1, <2>6 DEF BeginSet, BeginRestore, Load, Refuse, LockConfig,
         TimeoutConfig, Check, Backup, Kill, Exit, Goto, disk
    <3>2. Pending' = Pending
      BY <1>2, <1>4, <3>1 DEF Pending
    <3>3. pc'[p] \in {"lock", "check", "backup", "rename"} /\ Pending = {}
            => loaded'[p] = preOmm
      BY <1>1, <1>3, <2>1, <2>6 DEF BeginSet, BeginRestore, Load, Refuse,
         LockConfig, TimeoutConfig, Check, Backup, Kill, Exit, Goto, local,
         Untouched
    <3>4. CommitsReplaceTheUsers'
      BY <1>2, <1>3, <1>4, <3>2 DEF CommitsReplaceTheUsers, Pending
    <3>5. Untouched'
      BY <1>2, <1>3, <1>4, <2>3, <3>1, <3>2, <3>3 DEF Untouched
    <3> QED
      BY <2>4, <3>4, <3>5
  <2> QED
    BY <2>5, <2>6
<1> QED
  BY <1>5, <1>6

\* The entry is made with the user's own document, or with none.
LEMMA EntryIsTheUsers ==
    ASSUME TypeOK, OriginalKept, NEW p \in Procs,
           Begin(p) \/ Step(p) \/ GiveUp(p)
    PROVE  OriginalIsPreOmm'
<1> SUFFICES ASSUME Quiet' PROVE entry'.original \in {preOmm', NoFile}
  BY DEF Quiet, OriginalIsPreOmm
<1>1. Quiet /\ preOmm' = preOmm
  BY QuietBefore
<1>2. entry.original \in {preOmm, NoFile}
  BY <1>1 DEF OriginalKept, OriginalIsPreOmm, Quiet
<1>3. CASE entry.class # "none"
  BY <1>1, <1>2, <1>3, EntryStays DEF OriginalKept
<1>4. CASE entry.class = "none"
  <2>1. InstallersWait /\ CommitsReplaceTheUsers /\ Untouched
    BY <1>1, <1>4 DEF OriginalKept, NothingRecorded
  <2>2. CASE RecordTuner(p)
    <3>1. loaded[p] = preOmm
      BY <2>1, <2>2 DEF RecordTuner, CommitsReplaceTheUsers, Pending
    <3> QED
      BY <1>1, <1>2, <2>2, <3>1 DEF RecordTuner, Attached
  <2>3. CASE RecordInstall(p)
    BY <2>1, <2>3 DEF RecordInstall, InstallersWait
  <2>4. CASE RecordOriginals(p)
    <3>1. Pending = {}
      BY <2>4 DEF RecordOriginals, Quiet
    <3>2. settings = preOmm
      BY <2>1, <3>1 DEF Untouched
    <3> QED
      BY <1>1, <1>2, <2>4, <3>2 DEF RecordOriginals
  <2>5. CASE SeedEntry(p)
    <3>1. entry \in LedgerEntry
      BY DEF TypeOK
    <3> QED
      BY <1>1, <1>2, <2>5, <3>1 DEF SeedEntry, LedgerEntry
  <2>6. CASE ~(RecordTuner(p) \/ RecordInstall(p) \/ RecordOriginals(p)
               \/ SeedEntry(p))
    <3>1. entry' = entry
      BY <2>6 DEF Begin, BeginSet, BeginRestore, BeginInstall, Step, Load,
         LockConfig, Check, Backup, Rename, OpenSession, HostInstall,
         HostCurrent, HostApprove, HostApproved, MergeRead, MergeLock,
         MergeWrite, CloseSession, GiveUp, Refuse, TimeoutConfig,
         TimeoutRecord, TimeoutSession, Kill, ledger
    <3> QED
      BY <1>1, <1>2, <3>1
  <2> QED
    BY <2>2, <2>3, <2>4, <2>5, <2>6
<1> QED
  BY <1>3, <1>4

\* OriginalKept holds of every reachable state.
THEOREM OriginalsKept == Spec => []OriginalKept
<1>1. Init => OriginalKept
  BY DEF Init, OriginalKept, EntryShape, NothingRecorded, OriginalIsPreOmm,
     NoEntry, InstallersWait, BundleIsNew, CommitsReplaceTheUsers, Untouched,
     Pending, Procs
<1>2. TypeOK /\ LocksMatchSteps /\ OriginalKept /\ [Next]_vars
        => OriginalKept'
  <2> SUFFICES ASSUME TypeOK, LocksMatchSteps, OriginalKept, [Next]_vars
               PROVE  OriginalKept'
    OBVIOUS
  <2>1. CASE UNCHANGED vars
    BY <2>1 DEF vars, disk, ledger, local, bounds, history, OriginalKept,
       Quiet, EntryShape, NothingRecorded, OriginalIsPreOmm, InstallersWait,
       BundleIsNew, CommitsReplaceTheUsers, Untouched, Pending
  <2>2. CASE UserWrites
    <3>1. edits' # 0 /\ entry' = entry
      BY <2>2 DEF UserWrites, TypeOK, ledger
    <3> QED
      BY <3>1 DEF OriginalKept, Quiet, EntryShape, NothingRecorded,
         OriginalIsPreOmm
  <2>3. ASSUME NEW p \in Procs, Begin(p) \/ Step(p) \/ GiveUp(p)
        PROVE  OriginalKept'
    BY <2>3, EntryStays, BeforeEntry, EntryIsTheUsers DEF OriginalKept
  <2> QED
    BY <2>1, <2>2, <2>3 DEF Next
<1> QED
  BY <1>1, <1>2, TypeCorrect, LocksCorrect, PTL DEF Spec

\* What uninstall would put back is the user's own file: whatever the
\* commands and their interleaving, the original in the ledger is the
\* settings.json of before omm, short of an edit of the user's, a lost record
\* and a commit made while another's record was outstanding.
THEOREM OriginalIsTheUsers == Spec => []OriginalIsPreOmm
<1>1. OriginalKept => OriginalIsPreOmm
  BY DEF OriginalKept
<1> QED
  BY <1>1, OriginalsKept, PTL
=============================================================================
