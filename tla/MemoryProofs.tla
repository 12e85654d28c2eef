---------------------------- MODULE MemoryProofs ----------------------------
(***************************************************************************)
(* Proofs about what omm keeps for the user.                               *)
(*                                                                         *)
(* Memory, of any number of commands, workspaces and edits: the            *)
(* directories of snapshots/memory are named and pruned without a lock, a  *)
(* number that pruning freed may be taken again by a command that chose it *)
(* before, and what `omm memory gc` removes is still in an archive until   *)
(* as many newer ones were made as are kept.                               *)
(*                                                                         *)
(* Rules, of any texts, templates, commands and edits: whatever a command  *)
(* writes into AGENTS.md has the user's words of the text it read, and     *)
(* what install and updates made of a file, uninstall undoes.              *)
(***************************************************************************)
EXTENDS Memory, Rules, SequenceTheorems, FiniteSetTheorems, WellFoundedInduction, TLAPS

-----------------------------------------------------------------------------
(* Directories: their order, the newest, the numbers they are given.       *)

SameSlot(d, e) == d.at = e.at /\ d.n = e.n
LaterThan(dirs, d) == {e \in dirs : Later(e, d)}
FromOn(dirs, d) == {e \in dirs : Later(e, d) \/ SameSlot(e, d)}

\* Records with a second and a number.
Dated(dirs) == \A d \in dirs : d.at \in Nat /\ d.n \in Nat

LEMMA LaterIsAnOrder ==
    ASSUME NEW dirs, Dated(dirs), NEW d \in dirs, NEW e \in dirs, NEW x, x.at \in Nat, x.n \in Nat
    PROVE  /\ ~Later(d, d)
           /\ Later(e, d) /\ Later(d, x) => Later(e, x)
           /\ Later(e, d) /\ SameSlot(d, x) => Later(e, x)
           /\ Later(e, x) /\ SameSlot(d, x) => Later(e, d)
           /\ SameSlot(d, x) => ~Later(d, x)
  BY DEF Dated, Later, SameSlot

\* Of some finitely many directories one is the newest.
LEMMA Newest ==
    ASSUME NEW dirs, IsFiniteSet(dirs), Dated(dirs), NEW some \in SUBSET dirs, some # {}
    PROVE  \E d \in some : \A e \in some : ~Later(e, d)
<1> DEFINE above == {LaterThan(dirs, d) : d \in some}
<1>1. IsWellFoundedOn(StrictSubsetOrdering(dirs), SUBSET dirs)
  BY FS_StrictSubsetOrderingWellFounded, FS_FiniteSubsetsOfFinite
<1>2. above \subseteq SUBSET dirs /\ above # {}
  BY DEF LaterThan
<1>3. \E x \in above : \A y \in above : ~(<<y, x>> \in StrictSubsetOrdering(dirs))
  <2> HIDE DEF above
  <2> QED BY <1>1, <1>2, WFMin
<1>4. PICK d \in some : \A e \in some :
        ~(<<LaterThan(dirs, e), LaterThan(dirs, d)>> \in StrictSubsetOrdering(dirs))
  BY <1>3
<1>5. ASSUME NEW e \in some, Later(e, d) PROVE FALSE
  <2>1. LaterThan(dirs, e) \subseteq LaterThan(dirs, d)
    BY <1>5, LaterIsAnOrder DEF LaterThan, Dated
  <2>2. e \in LaterThan(dirs, d) /\ e \notin LaterThan(dirs, e)
    BY <1>5, LaterIsAnOrder DEF LaterThan, Dated
  <2>3. <<LaterThan(dirs, e), LaterThan(dirs, d)>> \in StrictSubsetOrdering(dirs)
    BY <2>1, <2>2 DEF StrictSubsetOrdering, LaterThan
  <2> QED
    BY <1>4, <2>3
<1> QED
  BY <1>5

\* The number a command chooses is past those that its second has.
LEMMA FirstNumberIs ==
    ASSUME NEW dirs, IsFiniteSet(dirs), Dated(dirs), NEW at \in Nat
    PROVE  /\ FirstNumber(dirs, at) \in Nat
           /\ \A d \in dirs : d.at = at => d.n < FirstNumber(dirs, at)
<1> DEFINE now0 == {e \in dirs : e.at = at}
           taken == {d.n + 1 : d \in now0}
<1>1. CASE taken = {}
  BY <1>1 DEF FirstNumber
<1>2. CASE taken # {}
  <2>1. PICK d \in now0 : \A e \in now0 : ~Later(e, d)
    <3>1. now0 \in SUBSET dirs /\ now0 # {}
      BY <1>2
    <3> QED
      BY <3>1, Newest
  <2>2. d.n + 1 \in taken /\ \A y \in taken : d.n + 1 >= y
    BY <2>1 DEF Later, Dated
  <2>3. Max(taken) \in taken /\ \A y \in taken : Max(taken) >= y
    <3> HIDE DEF taken
    <3> QED BY <2>2 DEF Max
  <2>4. FirstNumber(dirs, at) = Max(taken)
    BY <1>2 DEF FirstNumber
  <2> DEFINE m == Max(taken)
  <2>5. m \in Nat /\ \A e \in now0 : e.n + 1 <= m
    BY <2>3 DEF Dated
  <2> HIDE DEF m
  <2>6. \A d0 \in dirs : d0.at = at => d0.n < m
    BY <2>5 DEF Dated
  <2> QED
    BY <2>4, <2>5, <2>6 DEF m
<1> QED
  BY <1>1, <1>2

\* A set of numbers has a least one.
LEMMA Least ==
    ASSUME NEW K \in SUBSET Nat, K # {}
    PROVE  \E k \in K : \A j \in K : k <= j
<1>1. PICK top \in K : TRUE
  OBVIOUS
<1> DEFINE low == {k \in K : k <= top}
           below == {0 .. k : k \in low}
<1>2. IsFiniteSet(0 .. top)
  BY <1>1, FS_Interval
<1>3. IsWellFoundedOn(StrictSubsetOrdering(0 .. top), SUBSET (0 .. top))
  BY <1>2, FS_StrictSubsetOrderingWellFounded, FS_FiniteSubsetsOfFinite
<1>4. below \subseteq SUBSET (0 .. top) /\ below # {}
  BY <1>1
<1>5. \E x \in below : \A y \in below : ~(<<y, x>> \in StrictSubsetOrdering(0 .. top))
  <2> HIDE DEF below
  <2> QED BY <1>3, <1>4, WFMin
<1>6. PICK k \in low : \A j \in low : ~(<<0 .. j, 0 .. k>> \in StrictSubsetOrdering(0 .. top))
  BY <1>5
<1>7. ASSUME NEW j \in low, j < k PROVE FALSE
  <2>1. 0 .. j \subseteq 0 .. k /\ k \in 0 .. k /\ k \notin 0 .. j
    BY <1>7
  <2>2. <<0 .. j, 0 .. k>> \in StrictSubsetOrdering(0 .. top)
    BY <2>1, <1>6, <1>7 DEF StrictSubsetOrdering
  <2> QED
    BY <1>6, <2>2
<1>8. ASSUME NEW j \in K PROVE k <= j
  <2>1. CASE j <= top
    BY <1>6, <1>7, <2>1
  <2>2. CASE ~(j <= top)
    BY <1>1, <1>6, <2>2
  <2> QED
    BY <2>1, <2>2
<1> QED
  BY <1>6, <1>8

\* From any number on some directory can be created, and it is a new one.
LEMMA CreatedIs ==
    ASSUME NEW dirs, IsFiniteSet(dirs), Dated(dirs), NEW at \in Nat, NEW n \in Nat
    PROVE  /\ Created(dirs, at, n) \in Nat /\ Created(dirs, at, n) >= n
           /\ \A d \in dirs : ~(d.at = at /\ d.n = Created(dirs, at, n))
<1> DEFINE free == {k \in Nat : k >= n /\ \A d \in dirs : ~(d.at = at /\ d.n = k)}
<1>1. \E k \in Nat : k \in free
  <2>1. FirstNumber(dirs, at) \in Nat /\ \A d \in dirs : d.at = at => d.n < FirstNumber(dirs, at)
    BY FirstNumberIs
  <2> DEFINE k == FirstNumber(dirs, at) + n
  <2>2. k \in free
    BY <2>1 DEF Dated
  <2> QED
    BY <2>2
<1>2. PICK k \in free : \A j \in free : k <= j
  <2>1. free \in SUBSET Nat /\ free # {}
    BY <1>1
  <2> HIDE DEF free
  <2> QED
    BY <2>1, Least
<1>3. \A j \in n .. k - 1 : \E d \in dirs : d.at = at /\ d.n = j
  BY <1>2
<1>4. k - n <= Cardinality(dirs)
  <2> DEFINE on == {d \in dirs : d.at = at /\ d.n \in n .. k - 1}
             f == [d \in on |-> d.n]
  <2>1. f \in Surjection(on, n .. k - 1)
    BY <1>3 DEF Surjection
  <2>2. IsFiniteSet(on) /\ Cardinality(on) <= Cardinality(dirs)
    BY FS_Subset
  <2>3. Cardinality(n .. k - 1) <= Cardinality(on)
    <3> HIDE DEF f, on
    <3> QED BY <2>1, <2>2, FS_Surjection
  <2>4. Cardinality(n .. k - 1) = k - n
    <3>1. n \in Int /\ k - 1 \in Int /\ k \in Int /\ n <= k
      BY <1>2
    <3> DEFINE c == Cardinality(n .. k - 1)
    <3>2. c = IF n > k - 1 THEN 0 ELSE (k - 1) - n + 1
      BY ONLY <3>1, FS_Interval, Zenon
    <3> HIDE DEF c
    <3>3. c = k - n
      BY ONLY <3>1, <3>2
    <3> QED
      BY <3>3 DEF c
  <2>5. Cardinality(on) \in Nat /\ Cardinality(dirs) \in Nat
    BY <2>2, FS_CardinalityType
  <2> HIDE DEF on
  <2> QED
    BY <2>2, <2>3, <2>4, <2>5, <1>2
<1> DEFINE OK(i) == /\ \A d \in dirs : <<d.at, d.n>> # <<at, i>>
                    /\ \A j \in n .. i - 1 : \E d \in dirs : <<d.at, d.n>> = <<at, j>>
<1>5. k \in n .. n + Cardinality(dirs) /\ OK(k)
  <2>1. Cardinality(dirs) \in Nat
    BY FS_CardinalityType
  <2> QED
    BY <1>2, <1>3, <1>4, <2>1
<1>6. Created(dirs, at, n) = CHOOSE i \in n .. n + Cardinality(dirs) : OK(i)
  BY DEF Created
<1>7. Created(dirs, at, n) \in n .. n + Cardinality(dirs) /\ OK(Created(dirs, at, n))
  <2> HIDE DEF OK
  <2> QED BY <1>5, <1>6
<1> QED
  BY <1>7, FS_CardinalityType

\* Pruning leaves the newest of any.
LEMMA NewestStays ==
    ASSUME NEW dirs, IsFiniteSet(dirs), Dated(dirs), NEW x, x.at \in Nat, x.n \in Nat,
           LaterThan(dirs, x) # {}
    PROVE  LaterThan(dirs \ RolledOff(dirs), x) # {}
<1>1. PICK d \in LaterThan(dirs, x) : \A e \in LaterThan(dirs, x) : ~Later(e, d)
  <2>1. LaterThan(dirs, x) \in SUBSET dirs
    BY DEF LaterThan
  <2> QED
    BY <2>1, Newest
<1>2. {e \in dirs : Later(e, d)} = {}
  BY <1>1, LaterIsAnOrder DEF LaterThan, Dated
<1>3. d \notin RolledOff(dirs)
  BY <1>2, FS_EmptySet, KeepIsPositive DEF RolledOff
<1> QED
  BY <1>1, <1>3 DEF LaterThan

\* One directory more makes one more at most.
LEMMA OneMore ==
    ASSUME NEW S, IsFiniteSet(S), NEW d, NEW T \in SUBSET (S \cup {d})
    PROVE  IsFiniteSet(T) /\ Cardinality(T) <= Cardinality(S) + 1
<1>0. Cardinality(S) \in Nat
  BY FS_CardinalityType
<1> DEFINE c == Cardinality(S \cup {d})
<1>1. IsFiniteSet(S \cup {d}) /\ c = IF d \in S THEN Cardinality(S) ELSE Cardinality(S) + 1
  BY FS_AddElement, Zenon
<1>2. IsFiniteSet(T) /\ Cardinality(T) <= c /\ Cardinality(T) \in Nat
  BY <1>1, FS_Subset, FS_CardinalityType
<1> HIDE DEF c
<1> QED
  BY <1>0, <1>1, <1>2

\* What is written into directories does not make them more.
LEMMA NoMore ==
    ASSUME NEW S, IsFiniteSet(S), NEW f, DOMAIN f = S
    PROVE  LET T == {f[d] : d \in S} IN IsFiniteSet(T) /\ Cardinality(T) <= Cardinality(S)
<1> DEFINE T == {f[d] : d \in S}
           g == [d \in S |-> f[d]]
<1>1. g \in Surjection(S, T)
  BY DEF Surjection
<1>2. IsFiniteSet(T) /\ Cardinality(T) <= Cardinality(S)
  <2> HIDE DEF g, T
  <2> QED BY <1>1, FS_Surjection
<1> QED
  BY <1>2

-----------------------------------------------------------------------------
(* Types.                                                                  *)

Slots    == [at : Nat, n : Nat, born : Nat]
Text     == {Seed, "own", "edited", "other", "bad"} \cup Written
Seeding  == {"seed memory", "seed sidecar", "note"}
Verdicts == {"write", "same", "adopt", "skip"}

SeedCommand ==
    [at : Seeding, work : Workspaces, late : BOOLEAN, stayed : SUBSET Workspaces,
     memory : Verdicts, sidecar : Verdicts]
BackupCommand ==
    [at : {"pick", "make", "archive", "prune"}, gc : {FALSE}, to : BOOLEAN, work : Workspaces,
     late : BOOLEAN, stayed : SUBSET Workspaces, dir : Slots \cup {None}]
GcCommand ==
    [at : {"gc", "pick", "make", "archive", "remove", "forget", "prune"}, gc : {TRUE}, to : {FALSE},
     work : Workspaces \cup {None}, late : BOOLEAN, todo : SUBSET Workspaces,
     named : SUBSET Workspaces, stayed : SUBSET Workspaces, dir : Slots \cup {None}]

\* A backup has a directory unless it goes outside; gc has one from its first
\* archive on. The root gc works on is not among those still to do.
BackupOK(c) ==
    /\ c \in BackupCommand
    /\ c.at = "pick" => c.dir = None /\ ~c.to
    /\ c.at = "make" => c.dir # None /\ ~c.to
    /\ c.at = "archive" => (c.dir = None <=> c.to)
    /\ c.at = "prune" => c.dir # None /\ ~c.to
GcOK(c) ==
    /\ c \in GcCommand
    /\ c.at = "pick" => c.dir = None
    /\ c.at \in {"make", "archive", "remove", "forget", "prune"} => c.dir # None
    /\ c.at \in {"pick", "make", "archive", "remove", "forget"} => c.work \in Workspaces \ c.todo
CommandOK(c) == c = Idle \/ c \in SeedCommand \/ BackupOK(c) \/ GcOK(c)

Directory == [at : Nat, n : Nat, born : Nat, tars : UNION {[W -> SUBSET Text] : W \in SUBSET Workspaces}]

TypeOK ==
    /\ now \in Nat
    /\ place \in [Workspaces -> {"there", "gone", "unreadable"}]
    /\ roots \in [Workspaces -> Root \cup {None}]
    /\ noted \in [Workspaces -> SUBSET {"memory", "sidecar"}]
    /\ archives \subseteq Directory /\ IsFiniteSet(archives)
    /\ outside \subseteq SUBSET Text
    /\ DOMAIN command = Procs /\ \A p \in Procs : CommandOK(command[p])
    /\ tally \in [edits : Nat, commands : Nat]
    /\ made \in Nat
    /\ dropped \subseteq [root : Workspaces, held : SUBSET Written, born : Nat, stayed : BOOLEAN]

\* The parts of the state that no command changes but through its own steps.
CommandsOK == DOMAIN command = Procs /\ \A p \in Procs : CommandOK(command[p])

LEMMA NoneApart ==
    /\ None \notin Root /\ None \notin Slots
    /\ Seed \notin Written /\ None \notin Written
  BY MemoryAssumption DEF Root, Slots

LEMMA GotoOK ==
    ASSUME CommandsOK, NEW p \in Procs, NEW c, CommandOK(c), Goto(p, c)
    PROVE  /\ CommandsOK'
           /\ command'[p] = c /\ \A q \in Procs : q # p => command'[q] = command[q]
  BY DEF CommandsOK, Goto

LEMMA StopOK ==
    ASSUME CommandsOK, NEW p \in Procs, Stop(p)
    PROVE  /\ CommandsOK'
           /\ command'[p] = Idle /\ \A q \in Procs : q # p => command'[q] = command[q]
<1>1. CommandOK(Idle)
  BY DEF CommandOK
<1> QED
  BY <1>1, GotoOK DEF Stop

\* What a command is when it is at a step.
LEMMA CommandAt ==
    ASSUME NEW c, CommandOK(c)
    PROVE  /\ c.at \in Seeding <=> c \in SeedCommand
           /\ c.at \in {"pick", "make", "archive", "prune"} => BackupOK(c) \/ GcOK(c)
           /\ c.at \in {"gc", "remove", "forget"} => GcOK(c)
           /\ c.at = "idle" <=> c = Idle
           /\ BackupOK(c) => c.gc = FALSE
           /\ GcOK(c) => c.gc = TRUE
<1>1. c = Idle => c.at = "idle"
  BY DEF Idle
<1>2. c \in SeedCommand => c.at \in Seeding
  BY DEF SeedCommand
<1>3. BackupOK(c) => c.at \in {"pick", "make", "archive", "prune"} /\ c.gc = FALSE
  BY DEF BackupOK, BackupCommand
<1>4. GcOK(c) =>
        c.at \in {"gc", "pick", "make", "archive", "remove", "forget", "prune"} /\ c.gc = TRUE
  BY DEF GcOK, GcCommand
<1> QED
  BY <1>1, <1>2, <1>3, <1>4 DEF CommandOK, Seeding

LEMMA ArchivesDated == TypeOK => Dated(archives)
  BY DEF TypeOK, Directory, Dated

LEMMA RootsOK ==
    ASSUME TypeOK, NEW w \in Workspaces, roots[w] # None
    PROVE  /\ roots[w] \in Root
           /\ \A x \in {None, Seed} \cup Written : [roots[w] EXCEPT !.memory = x] \in Root
           /\ \A s \in {None, "own", "edited", "other", "bad"} : [roots[w] EXCEPT !.sidecar = s] \in Root
           /\ [roots[w] EXCEPT !.link = TRUE] \in Root
           /\ Archived(roots[w]) \subseteq Text
<1>1. roots[w] \in Root
  BY DEF TypeOK
<1> QED
  BY <1>1 DEF Root, Archived, Text

LEMMA EmptyIsRoot ==
    EmptyRoot \in Root /\ \A x \in Written : [EmptyRoot EXCEPT !.memory = x] \in Root
  BY DEF EmptyRoot, Root

LEMMA TypeOKParts ==
    ASSUME TypeOK PROVE CommandsOK
  BY DEF TypeOK, CommandsOK

LEMMA StaleOK ==
    ASSUME CommandsOK, NEW w \in Workspaces, command' = Stale(w)
    PROVE  /\ CommandsOK'
           /\ \A p \in Procs :
                \/ command'[p] = command[p] /\ ~("work" \in DOMAIN command[p] /\ command[p].work = w)
                \/ /\ command[p].at # "idle" /\ command[p].work = w
                   /\ command'[p] = [command[p] EXCEPT !.late = TRUE]
<1>1. ASSUME NEW p \in Procs, "work" \in DOMAIN command[p], command[p].work = w
      PROVE  command[p].at # "idle" /\ CommandOK([command[p] EXCEPT !.late = TRUE])
  <2> DEFINE c == command[p]
  <2>1. c # Idle
    BY <1>1 DEF Idle
  <2>2. CASE c \in SeedCommand
    BY <2>2 DEF SeedCommand, CommandOK, Seeding
  <2>3. CASE BackupOK(c)
    BY <2>3 DEF BackupCommand, BackupOK, CommandOK
  <2>4. CASE GcOK(c)
    BY <2>4 DEF GcCommand, GcOK, CommandOK
  <2> QED
    BY <2>1, <2>2, <2>3, <2>4 DEF CommandsOK, CommandOK
<1> QED
  BY <1>1 DEF Stale, CommandsOK

LEMMA MovedOK ==
    ASSUME CommandsOK, NEW w \in Workspaces, NEW s,
           command' = [p \in Procs |->
               IF s # "there" /\ command[p].at # "idle"
               THEN [command[p] EXCEPT !.stayed = @ \ {w}] ELSE command[p]]
    PROVE  CommandsOK'
<1>1. ASSUME NEW p \in Procs, command[p].at # "idle"
      PROVE  CommandOK([command[p] EXCEPT !.stayed = @ \ {w}])
  <2> DEFINE c == command[p]
  <2>1. c # Idle
    BY <1>1 DEF Idle
  <2>2. CASE c \in SeedCommand
    BY <2>2 DEF SeedCommand, CommandOK, Seeding
  <2>3. CASE BackupOK(c)
    BY <2>3 DEF BackupCommand, BackupOK, CommandOK
  <2>4. CASE GcOK(c)
    BY <2>4 DEF GcCommand, GcOK, CommandOK
  <2> QED
    BY <2>1, <2>2, <2>3, <2>4 DEF CommandsOK, CommandOK
<1> QED
  BY <1>1 DEF CommandsOK

\* Each step of a command keeps it one.
LEMMA SeedCommands ==
    ASSUME TypeOK, NEW p \in Procs,
           \/ \E w \in Workspaces : SeedLook(p, w)
           \/ SeedMemory(p) \/ SeedSidecar(p) \/ SeedNote(p)
    PROVE  CommandsOK'
<1> USE TypeOKParts
<1>1. ASSUME NEW w \in Workspaces, SeedLook(p, w) PROVE CommandsOK'
  <2> DEFINE c == [at |-> "seed memory", work |-> w, late |-> FALSE, stayed |-> There,
                   memory |-> MemoryVerdict(w), sidecar |-> SidecarVerdict(w)]
  <2>1. MemoryVerdict(w) \in Verdicts /\ SidecarVerdict(w) \in Verdicts
    BY DEF MemoryVerdict, SidecarVerdict, Verdicts
  <2>2. CommandOK(c)
    BY <2>1 DEF CommandOK, SeedCommand, Seeding, There
  <2> QED
    BY <1>1, <2>2, GotoOK DEF SeedLook
<1>2. ASSUME command[p].at \in Seeding, NEW s \in Seeding
      PROVE  CommandOK([command[p] EXCEPT !.at = s])
  <2>1. command[p] \in SeedCommand
    BY <1>2, CommandAt DEF CommandsOK
  <2>2. [command[p] EXCEPT !.at = s] \in SeedCommand
    BY <2>1 DEF SeedCommand
  <2> QED
    BY <2>2 DEF CommandOK
<1>3. CASE SeedMemory(p)
  <2>1. command[p].at \in Seeding
    BY <1>3 DEF SeedMemory, Seeding
  <2>2. Stop(p) \/ Goto(p, [command[p] EXCEPT !.at = "seed sidecar"])
    BY <1>3 DEF SeedMemory
  <2> QED
    BY <1>2, <2>1, <2>2, GotoOK, StopOK DEF Seeding
<1>4. CASE SeedSidecar(p)
  <2>1. command[p].at \in Seeding
    BY <1>4 DEF SeedSidecar, Seeding
  <2>2. Stop(p) \/ Goto(p, [command[p] EXCEPT !.at = "note"])
    BY <1>4 DEF SeedSidecar
  <2> QED
    BY <1>2, <2>1, <2>2, GotoOK, StopOK DEF Seeding
<1>5. CASE SeedNote(p)
  BY <1>5, StopOK DEF SeedNote
<1> QED
  BY <1>1, <1>3, <1>4, <1>5

LEMMA DirCommands ==
    ASSUME TypeOK, NEW p \in Procs, Pick(p) \/ Make(p) \/ Archive(p) \/ Prune(p)
    PROVE  CommandsOK'
<1> DEFINE c == command[p]
<1>1. CommandsOK /\ CommandOK(c) /\ Dated(archives)
  BY TypeOKParts, ArchivesDated DEF CommandsOK
<1>2. CASE Pick(p)
  <2> DEFINE d == [at |-> now, n |-> FirstNumber(archives, now), born |-> made]
  <2>1. d \in Slots
    BY <1>1, FirstNumberIs DEF TypeOK, Slots
  <2>2. c.at = "pick" /\ (BackupOK(c) \/ GcOK(c))
    BY <1>1, <1>2, CommandAt DEF Pick
  <2>3. CommandOK([c EXCEPT !.at = "make", !.dir = d])
    <3> HIDE DEF d, c
    <3>1. CASE BackupOK(c)
      BY <2>1, <2>2, <3>1, NoneApart DEF BackupOK, BackupCommand, CommandOK
    <3>2. CASE GcOK(c)
      BY <2>1, <2>2, <3>2, NoneApart DEF GcOK, GcCommand, CommandOK
    <3> QED BY <2>2, <3>1, <3>2
  <2> QED
    BY <1>1, <1>2, <2>3, GotoOK DEF Pick
<1>3. CASE Make(p)
  <2> DEFINE d == [c.dir EXCEPT !.n = Created(archives, c.dir.at, c.dir.n)]
  <2>1. c.at = "make" /\ c.dir \in Slots /\ (BackupOK(c) \/ GcOK(c))
    BY <1>1, <1>3, CommandAt DEF Make, BackupOK, GcOK, BackupCommand, GcCommand
  <2>2. d \in Slots
    BY <1>1, <2>1, CreatedIs DEF Slots, TypeOK
  <2>3. CommandOK([c EXCEPT !.at = "archive", !.dir = d])
    <3> HIDE DEF d, c
    <3>1. CASE BackupOK(c)
      BY <2>1, <2>2, <3>1, NoneApart DEF BackupOK, BackupCommand, CommandOK
    <3>2. CASE GcOK(c)
      BY <2>1, <2>2, <3>2, NoneApart DEF GcOK, GcCommand, CommandOK
    <3> QED BY <2>1, <3>1, <3>2
  <2> QED
    BY <1>1, <1>3, <2>3, GotoOK DEF Make
<1>4. CASE Archive(p)
  <2>1. c.at = "archive" /\ (BackupOK(c) \/ GcOK(c))
    BY <1>1, <1>4, CommandAt DEF Archive
  <2>2. CASE Stop(p)
    BY <1>1, <2>2, StopOK
  <2>3. CASE Goto(p, IF c.gc THEN [c EXCEPT !.at = "remove", !.late = FALSE]
                     ELSE IF c.to THEN Idle ELSE [c EXCEPT !.at = "prune"])
    <3>1. CASE BackupOK(c)
      <4>1. c.gc = FALSE
        BY <3>1 DEF BackupOK, BackupCommand
      <4>2. CommandOK(Idle) /\ (~c.to => CommandOK([c EXCEPT !.at = "prune"]))
        BY <2>1, <3>1 DEF BackupOK, BackupCommand, CommandOK
      <4> QED
        BY <1>1, <2>3, <4>1, <4>2, GotoOK
    <3>2. CASE GcOK(c)
      <4>1. c.gc = TRUE
        BY <3>2 DEF GcOK, GcCommand
      <4>2. CommandOK([c EXCEPT !.at = "remove", !.late = FALSE])
        BY <2>1, <3>2 DEF GcOK, GcCommand, CommandOK
      <4> QED
        BY <1>1, <2>3, <4>1, <4>2, GotoOK
    <3> QED
      BY <2>1, <3>1, <3>2
  <2> QED
    BY <1>4, <2>2, <2>3 DEF Archive
<1>5. CASE Prune(p)
  BY <1>1, <1>5, StopOK DEF Prune
<1> QED
  BY <1>2, <1>3, <1>4, <1>5

LEMMA GcCommands ==
    ASSUME TypeOK, NEW p \in Procs,
           \/ \E w \in Workspaces : BeginBackup(p, w)
           \/ BeginGc(p) \/ GcNext(p) \/ GcRemove(p) \/ GcForget(p) \/ GcEnd(p)
    PROVE  CommandsOK'
<1> DEFINE c == command[p]
<1>1. CommandsOK /\ CommandOK(c)
  BY TypeOKParts DEF CommandsOK
<1>2. ASSUME NEW w \in Workspaces, BeginBackup(p, w) PROVE CommandsOK'
  <2>1. PICK to \in BOOLEAN :
        Goto(p, [at |-> IF to THEN "archive" ELSE "pick", gc |-> FALSE, to |-> to, work |-> w,
                 late |-> FALSE, stayed |-> There, dir |-> None])
    BY <1>2 DEF BeginBackup
  <2>2. CommandOK([at |-> IF to THEN "archive" ELSE "pick", gc |-> FALSE, to |-> to, work |-> w,
                 late |-> FALSE, stayed |-> There, dir |-> None])
    BY DEF CommandOK, BackupOK, BackupCommand, There
  <2> QED
    BY <1>1, <2>1, <2>2, GotoOK
<1>3. CASE BeginGc(p)
  <2>1. CommandOK([at |-> "gc", gc |-> TRUE, to |-> FALSE, work |-> None, late |-> FALSE,
                todo |-> {w \in Workspaces : roots[w] # None},
                named |-> {w \in Workspaces : NamedBySidecar(w)},
                stayed |-> There, dir |-> None])
    BY DEF CommandOK, GcOK, GcCommand, There
  <2> QED
    BY <1>1, <1>3, <2>1, GotoOK DEF BeginGc
<1>4. CASE GcNext(p)
  <2>1. PICK w \in c.todo :
          LET d == [c EXCEPT !.todo = @ \ {w}] IN
          \/ Goto(p, Idle) \/ Goto(p, d)
          \/ Goto(p, [d EXCEPT !.work = w, !.at = IF d.dir = None THEN "pick" ELSE "archive"])
    BY <1>4 DEF GcNext
  <2>2. c.at = "gc" /\ GcOK(c)
    BY <1>1, <1>4, CommandAt DEF GcNext
  <2>3. CommandOK(Idle) /\ CommandOK([c EXCEPT !.todo = @ \ {w}])
    BY <2>2 DEF GcOK, GcCommand, CommandOK
  <2>4. [c EXCEPT !.todo = @ \ {w}].dir = c.dir
    BY <2>2 DEF GcOK, GcCommand
  <2>5. ASSUME NEW s \in {"pick", "archive"}, s = IF c.dir = None THEN "pick" ELSE "archive"
        PROVE  CommandOK([[c EXCEPT !.todo = @ \ {w}] EXCEPT !.work = w, !.at = s])
    BY <2>2, <2>5 DEF GcOK, GcCommand, CommandOK
  <2> QED
    BY <1>1, <2>1, <2>3, <2>4, <2>5, GotoOK
<1>5. CASE GcRemove(p)
  <2>1. c.at = "remove" /\ GcOK(c)
    BY <1>1, <1>5, CommandAt DEF GcRemove
  <2>2. CommandOK([c EXCEPT !.at = "forget"])
    BY <2>1 DEF GcOK, GcCommand, CommandOK
  <2>3. Stop(p) \/ Goto(p, [c EXCEPT !.at = "forget"])
    BY <1>5 DEF GcRemove
  <2> QED
    BY <1>1, <2>2, <2>3, GotoOK, StopOK
<1>6. CASE GcForget(p)
  <2>1. c.at = "forget" /\ GcOK(c)
    BY <1>1, <1>6, CommandAt DEF GcForget
  <2>2. CommandOK([c EXCEPT !.at = "gc", !.work = None])
    BY <2>1 DEF GcOK, GcCommand, CommandOK
  <2> QED
    BY <1>1, <1>6, <2>2, GotoOK DEF GcForget
<1>7. CASE GcEnd(p)
  <2>1. c.at = "gc" /\ GcOK(c)
    BY <1>1, <1>7, CommandAt DEF GcEnd
  <2>2. CommandOK(Idle) /\ (c.dir # None => CommandOK([c EXCEPT !.at = "prune"]))
    BY <2>1 DEF GcOK, GcCommand, CommandOK
  <2> QED
    BY <1>1, <1>7, <2>2, GotoOK DEF GcEnd
<1> QED
  BY <1>2, <1>3, <1>4, <1>5, <1>6, <1>7

\* What is written into roots and archives.
LEMMA RootsStay ==
    ASSUME TypeOK,
           \/ UNCHANGED roots
           \/ \E w \in Workspaces, r \in Root \cup {None} : roots' = [roots EXCEPT ![w] = r]
    PROVE  roots' \in [Workspaces -> Root \cup {None}]
  BY DEF TypeOK

LEMMA TypeStep ==
    ASSUME TypeOK, [KNext]_kVars
    PROVE  TypeOK'
<1> USE TypeOKParts
<1>0. CASE UNCHANGED kVars
  BY <1>0 DEF TypeOK, kVars, CommandOK
<1>1. ASSUME NEW w \in Workspaces, WriteRoot(w) PROVE TypeOK'
  <2>1. PICK r \in {[EmptyRoot EXCEPT !.memory = x] : x \in Written} \cup
                (IF roots[w] = None THEN {}
                 ELSE {[roots[w] EXCEPT !.memory = x] : x \in {None} \cup Written} \cup
                      {[roots[w] EXCEPT !.sidecar = s] : s \in {None, "edited", "other", "bad"}} \cup
                      {[roots[w] EXCEPT !.link = TRUE]}) : roots' = [roots EXCEPT ![w] = r]
    BY <1>1 DEF WriteRoot
  <2>2. r \in Root
    BY RootsOK, EmptyIsRoot
  <2>3. roots' \in [Workspaces -> Root \cup {None}]
    BY <2>1, <2>2, RootsStay
  <2>4. CommandsOK'
    BY <1>1, StaleOK DEF WriteRoot
  <2>5. tally' \in [edits : Nat, commands : Nat]
    BY <1>1 DEF WriteRoot, Edit, TypeOK
  <2> QED
    BY <1>1, <2>3, <2>4, <2>5 DEF TypeOK, WriteRoot, CommandsOK
<1>2. ASSUME NEW w \in Workspaces, MoveWorkspace(w) PROVE TypeOK'
  <2>1. PICK s \in {"there", "gone", "unreadable"} :
           /\ place' = [place EXCEPT ![w] = s]
           /\ command' = [p \in Procs |->
               IF s # "there" /\ command[p].at # "idle"
               THEN [command[p] EXCEPT !.stayed = @ \ {w}] ELSE command[p]]
    BY <1>2 DEF MoveWorkspace
  <2>2. CommandsOK'
    BY <2>1, MovedOK
  <2>3. tally' \in [edits : Nat, commands : Nat]
    BY <1>2 DEF MoveWorkspace, Edit, TypeOK
  <2> QED
    BY <1>2, <2>1, <2>2, <2>3 DEF TypeOK, MoveWorkspace, CommandsOK
<1>3. CASE Tick
  BY <1>3 DEF Tick, TypeOK, CommandOK
<1>4. ASSUME NEW p \in Procs, KillCommand(p) PROVE TypeOK'
  <2>1. CommandsOK'
    BY <1>4, StopOK DEF KillCommand
  <2> QED
    BY <1>4, <2>1 DEF TypeOK, KillCommand, CommandsOK
<1>5. ASSUME NEW p \in Procs, NEW w \in Workspaces, SeedLook(p, w) PROVE TypeOK'
  <2>1. roots' = [roots EXCEPT ![w] = IF roots[w] = None THEN EmptyRoot ELSE roots[w]]
    BY <1>5 DEF SeedLook
  <2>2. (IF roots[w] = None THEN EmptyRoot ELSE roots[w]) \in Root
    BY RootsOK, EmptyIsRoot
  <2>3. roots' \in [Workspaces -> Root \cup {None}]
    BY <2>1, <2>2, RootsStay
  <2>4. tally' \in [edits : Nat, commands : Nat]
    <3>1. Start(p)
      BY <1>5 DEF SeedLook
    <3> QED
      BY <3>1 DEF Start, TypeOK
  <2>5. CommandsOK'
    BY <1>5, SeedCommands
  <2> QED
    BY <1>5, <2>3, <2>4, <2>5 DEF TypeOK, SeedLook, CommandsOK
<1>6. ASSUME NEW p \in Procs, SeedMemory(p) \/ SeedSidecar(p) PROVE TypeOK'
  <2> DEFINE w == command[p].work
  <2>1. command[p] \in SeedCommand /\ w \in Workspaces
    BY <1>6, CommandAt DEF SeedMemory, SeedSidecar, CommandsOK, SeedCommand, Seeding
  <2>2. \/ UNCHANGED roots
        \/ roots[w] # None /\ roots' = [roots EXCEPT ![w] = [roots[w] EXCEPT !.memory = Seed]]
        \/ roots[w] # None /\ roots' = [roots EXCEPT ![w] = [roots[w] EXCEPT !.sidecar = "own"]]
    BY <1>6 DEF SeedMemory, SeedSidecar, Writable
  <2>3. roots' \in [Workspaces -> Root \cup {None}]
    BY <2>1, <2>2, RootsStay, RootsOK
  <2>4. CommandsOK'
    BY <1>6, SeedCommands
  <2> QED
    BY <1>6, <2>3, <2>4 DEF TypeOK, SeedMemory, SeedSidecar, CommandsOK
<1>7. ASSUME NEW p \in Procs, SeedNote(p) PROVE TypeOK'
  <2>1. CommandsOK'
    BY <1>7, SeedCommands
  <2>2. noted' \in [Workspaces -> SUBSET {"memory", "sidecar"}]
    BY <1>7 DEF SeedNote, TypeOK
  <2> QED
    BY <1>7, <2>1, <2>2 DEF TypeOK, SeedNote, CommandsOK
<1>8. ASSUME NEW p \in Procs, Pick(p) PROVE TypeOK'
  <2>1. CommandsOK'
    BY <1>8, DirCommands
  <2> QED
    BY <1>8, <2>1 DEF TypeOK, Pick, CommandsOK
<1>9. ASSUME NEW p \in Procs, Make(p) PROVE TypeOK'
  <2>1. CommandsOK'
    BY <1>9, DirCommands
  <2> DEFINE d == command[p].dir
             k == Created(archives, d.at, d.n)
             new == [at |-> d.at, n |-> k, born |-> d.born, tars |-> <<>>]
  <2>2. d \in Slots
    BY <1>9, CommandAt DEF CommandsOK, Make, BackupOK, GcOK, BackupCommand, GcCommand
  <2>3. k \in Nat
    BY <2>2, CreatedIs, ArchivesDated DEF TypeOK, Slots
  <2>4. <<>> \in [{} -> SUBSET Text] /\ {} \in SUBSET Workspaces
    OBVIOUS
  <2>5. new \in Directory
    <3> HIDE DEF k, d
    <3> QED BY <2>2, <2>3, <2>4 DEF Slots, Directory
  <2>6. archives' = archives \cup {new}
    BY <1>9, <2>2 DEF Make, Slots
  <2>7. archives' \subseteq Directory /\ IsFiniteSet(archives')
    <3> HIDE DEF new
    <3> QED BY <2>5, <2>6, FS_AddElement DEF TypeOK
  <2> QED
    BY <1>9, <2>1, <2>7 DEF TypeOK, Make, CommandsOK
<1>10. ASSUME NEW p \in Procs, Archive(p) PROVE TypeOK'
  <2>1. CommandsOK'
    BY <1>10, DirCommands
  <2> DEFINE c == command[p]
             x == Archived(roots[c.work])
             f == [d \in archives |-> IF d \in Dir(p)
                      THEN [d EXCEPT !.tars = WithTar(@, c.work, x)] ELSE d]
  <2>2. c.at = "archive" /\ c.work \in Workspaces
    BY <1>10, CommandAt DEF CommandsOK, Archive, BackupOK, GcOK, BackupCommand, GcCommand
  <2>3. \/ UNCHANGED <<archives, outside>>
        \/ roots[c.work] # None /\ UNCHANGED archives /\ outside' = outside \cup {x}
        \/ roots[c.work] # None /\ UNCHANGED outside /\ archives' = {f[d] : d \in archives}
    BY <1>10 DEF Archive
  <2>4. ASSUME roots[c.work] # None PROVE x \in SUBSET Text
    BY <2>2, <2>4, RootsOK
  <2>5. ASSUME roots[c.work] # None, NEW d \in archives
        PROVE  [d EXCEPT !.tars = WithTar(@, c.work, x)] \in Directory
    <3>1. x \in SUBSET Text
      BY <2>4, <2>5
    <3>2. PICK W \in SUBSET Workspaces : d.tars \in [W -> SUBSET Text]
      BY DEF TypeOK, Directory
    <3>3. WithTar(d.tars, c.work, x) \in [W \cup {c.work} -> SUBSET Text]
      <4> DEFINE t == d.tars
                 w == c.work
      <4>1. t \in [W -> SUBSET Text] /\ w \in Workspaces
        BY <2>2, <3>2
      <4> HIDE DEF x, c, t, w
      <4>2. WithTar(t, w, x) = [v \in W \cup {w} |-> IF v = w THEN x ELSE t[v]]
        BY <4>1 DEF WithTar
      <4>3. WithTar(t, w, x) \in [W \cup {w} -> SUBSET Text]
        BY <3>1, <4>1, <4>2
      <4> QED
        BY <4>3 DEF t, w
    <3>4. W \cup {c.work} \in SUBSET Workspaces
      BY <2>2, <3>2
    <3>5. d \in Directory
      BY DEF TypeOK
    <3> HIDE DEF x, c
    <3> QED BY <3>3, <3>4, <3>5 DEF Directory
  <2>6. ASSUME roots[c.work] # None, archives' = {f[d] : d \in archives}
        PROVE  archives' \subseteq Directory /\ IsFiniteSet(archives')
    <3>1. IsFiniteSet({f[d] : d \in archives})
      <4>1. DOMAIN f = archives /\ IsFiniteSet(archives)
        BY DEF TypeOK
      <4> HIDE DEF f
      <4> QED BY <4>1, NoMore
    <3>2. \A d \in archives : f[d] \in Directory
      BY <2>5, <2>6 DEF TypeOK
    <3> HIDE DEF f
    <3> QED BY <2>6, <3>1, <3>2
  <2>7. /\ archives' \subseteq Directory /\ IsFiniteSet(archives')
        /\ outside' \subseteq SUBSET Text
    <3>1. CASE UNCHANGED <<archives, outside>>
      BY <3>1 DEF TypeOK
    <3>2. CASE roots[c.work] # None /\ UNCHANGED archives /\ outside' = outside \cup {x}
      <4> HIDE DEF x
      <4> QED BY <2>4, <3>2 DEF TypeOK
    <3>3. CASE roots[c.work] # None /\ UNCHANGED outside /\ archives' = {f[d] : d \in archives}
      <4> HIDE DEF f
      <4> QED BY <2>6, <3>3 DEF TypeOK
    <3> QED
      BY <2>3, <3>1, <3>2, <3>3
  <2> QED
    BY <1>10, <2>1, <2>7 DEF TypeOK, Archive, CommandsOK
<1>11. ASSUME NEW p \in Procs, Prune(p) PROVE TypeOK'
  <2>1. CommandsOK'
    BY <1>11, DirCommands
  <2>2. archives' \subseteq archives
    BY <1>11 DEF Prune
  <2>3. IsFiniteSet(archives') /\ archives' \subseteq Directory
    BY <2>2, FS_Subset DEF TypeOK
  <2> QED
    BY <1>11, <2>1, <2>3 DEF TypeOK, Prune, CommandsOK
<1>12. ASSUME NEW p \in Procs, BeginGc(p) \/ \E w \in Workspaces : BeginBackup(p, w) PROVE TypeOK'
  <2>1. CommandsOK'
    BY <1>12, GcCommands
  <2>2. tally' \in [edits : Nat, commands : Nat]
    BY <1>12 DEF BeginGc, BeginBackup, Start, TypeOK
  <2> QED
    BY <1>12, <2>1, <2>2 DEF TypeOK, BeginGc, BeginBackup, CommandsOK
<1>13. ASSUME NEW p \in Procs, GcNext(p) \/ GcEnd(p) PROVE TypeOK'
  <2>1. CommandsOK'
    BY <1>13, GcCommands
  <2> QED
    BY <1>13, <2>1 DEF TypeOK, GcNext, GcEnd, CommandsOK
<1>14. ASSUME NEW p \in Procs, GcRemove(p) PROVE TypeOK'
  <2> DEFINE c == command[p]
  <2>1. CommandsOK'
    BY <1>14, GcCommands
  <2>2. c.at = "remove" /\ GcOK(c) /\ c.work \in Workspaces /\ c.dir \in Slots
    BY <1>14, CommandAt DEF CommandsOK, GcRemove, GcOK, GcCommand
  <2>3. \/ UNCHANGED <<roots, dropped>>
        \/ /\ roots' = [roots EXCEPT ![c.work] = None]
           /\ dropped' = dropped \cup
                {[root |-> c.work, held |-> IF c.late THEN {} ELSE {roots[c.work].memory} \cap Written,
                  born |-> c.dir.born, stayed |-> c.work \in c.stayed]}
    BY <1>14 DEF GcRemove
  <2>4. roots' \in [Workspaces -> Root \cup {None}]
    BY <2>2, <2>3 DEF TypeOK
  <2> DEFINE held == IF c.late THEN {} ELSE {roots[c.work].memory} \cap Written
             gone == c.work \in c.stayed
  <2>5. dropped' \subseteq [root : Workspaces, held : SUBSET Written, born : Nat, stayed : BOOLEAN]
    <3>1. held \in SUBSET Written /\ gone \in BOOLEAN /\ c.dir.born \in Nat
      BY <2>2 DEF Slots
    <3>2. \/ UNCHANGED dropped
          \/ dropped' = dropped \cup
                {[root |-> c.work, held |-> held, born |-> c.dir.born, stayed |-> gone]}
      BY <2>3
    <3> HIDE DEF held, gone, c
    <3> QED
      BY <2>2, <3>1, <3>2 DEF TypeOK
  <2> QED
    BY <1>14, <2>1, <2>4, <2>5 DEF TypeOK, GcRemove, CommandsOK
<1>15. ASSUME NEW p \in Procs, GcForget(p) PROVE TypeOK'
  <2>1. CommandsOK'
    BY <1>15, GcCommands
  <2>2. noted' \in [Workspaces -> SUBSET {"memory", "sidecar"}]
    BY <1>15 DEF GcForget, TypeOK
  <2> QED
    BY <1>15, <2>1, <2>2 DEF TypeOK, GcForget, CommandsOK
<1> QED
  BY <1>0, <1>1, <1>2, <1>3, <1>4, <1>5, <1>6, <1>7, <1>8, <1>9, <1>10, <1>11, <1>12, <1>13,
     <1>14, <1>15 DEF KNext

\* The component alone, without the scene of the checked instance.
MemorySpec == KInit /\ [][KNext]_kVars

\* The types of the memory commands' state.
THEOREM TypeCorrect == MemorySpec => []TypeOK
<1>1. KInit => TypeOK
  <2> SUFFICES ASSUME KInit PROVE TypeOK
    OBVIOUS
  <2>1. SeededRoot \subseteq Root
    <3>1. ASSUME NEW x \in Written
          PROVE  [link |-> FALSE, memory |-> x, sidecar |-> "own"] \in Root
      BY DEF Root
    <3> QED
      BY <3>1 DEF SeededRoot
  <2>2. roots \in [Workspaces -> Root \cup {None}]
    BY <2>1 DEF KInit
  <2>3. noted \in [Workspaces -> SUBSET {"memory", "sidecar"}]
    BY DEF KInit
  <2>4. DOMAIN command = Procs /\ \A p \in Procs : CommandOK(command[p])
    BY DEF KInit, CommandOK
  <2> QED
    BY <2>2, <2>3, <2>4, FS_EmptySet DEF KInit, TypeOK
<1>2. TypeOK /\ [KNext]_kVars => TypeOK'
  BY TypeStep
<1> QED
  BY <1>1, <1>2, PTL DEF MemorySpec

-----------------------------------------------------------------------------
(* The directories of the commands that run.                               *)

Choosing(c) == c.at = "make"
Holding(c)  == c.at \in {"archive", "remove", "forget", "gc", "prune"} /\ c.dir # None
Stands(d)   == \E e \in archives : SameSlot(e, d)
Old(born)   == made > Keep + born

DatesPast ==
    /\ \A d \in archives : d.at <= now
    /\ \A p \in Procs : Choosing(command[p]) \/ Holding(command[p]) => command[p].dir.at <= now

OneEach == \A d, e \in archives : SameSlot(d, e) => d = e

\* Those newer than a command's directory were made after it chose its name.
Ranked ==
    \A p \in Procs :
        /\ Choosing(command[p]) =>
             Cardinality(FromOn(archives, command[p].dir)) + command[p].dir.born <= made
        /\ Holding(command[p]) =>
             Cardinality(LaterThan(archives, command[p].dir)) + command[p].dir.born < made

\* A directory that is gone was an old one, and a newer one is there.
StandsOrOld ==
    \A p \in Procs : Holding(command[p]) /\ ~Stands(command[p].dir) =>
        Old(command[p].dir.born) /\ LaterThan(archives, command[p].dir) # {}

\* Who can still take the place of one that is gone chose it long ago.
TakenByOld ==
    \A p, q \in Procs :
        /\ Holding(command[p]) /\ ~Stands(command[p].dir) /\ Choosing(command[q])
        /\ command[q].dir.at = command[p].dir.at /\ command[q].dir.n <= command[p].dir.n
        => made >= Keep + command[q].dir.born

\* So two share a directory only when both are old.
SharedByOld ==
    \A p, q \in Procs :
        /\ p # q /\ Holding(command[p]) /\ Holding(command[q])
        /\ SameSlot(command[p].dir, command[q].dir)
        => Old(command[p].dir.born)

Directories == DatesPast /\ OneEach /\ Ranked /\ StandsOrOld /\ TakenByOld /\ SharedByOld

\* What a step does that neither makes nor prunes directories: a command keeps
\* its own, or no longer has one.
KeepsDirs ==
    /\ UNCHANGED <<archives, made>> /\ now <= now' /\ now' \in Nat
    /\ \A p \in Procs :
        /\ Choosing(command[p])' => Choosing(command[p]) /\ command'[p].dir = command[p].dir
        /\ Holding(command[p])' => Holding(command[p]) /\ command'[p].dir = command[p].dir

LEMMA DirOfCommand ==
    ASSUME TypeOK, NEW p \in Procs
    PROVE  /\ Choosing(command[p]) \/ Holding(command[p]) => command[p].dir \in Slots
           /\ ~(Choosing(command[p]) /\ Holding(command[p]))
<1>1. CommandOK(command[p])
  BY DEF TypeOK
<1>2. command[p].at \in {"make", "archive", "remove", "forget", "gc", "prune"} =>
        command[p].dir \in Slots \cup {None}
  BY <1>1, CommandAt DEF BackupOK, GcOK, BackupCommand, GcCommand
<1>3. command[p].at = "make" => command[p].dir # None
  BY <1>1, CommandAt DEF BackupOK, GcOK
<1> QED
  BY <1>2, <1>3 DEF Choosing, Holding

LEMMA DirectoriesKept ==
    ASSUME TypeOK, Directories, KeepsDirs
    PROVE  Directories'
<1> USE DEF KeepsDirs
<1>1. DatesPast'
  <2>1. \A d \in archives : d.at \in Nat
    BY DEF TypeOK, Directory
  <2>2. \A p \in Procs : Choosing(command[p]) \/ Holding(command[p]) => command[p].dir.at \in Nat
    BY DirOfCommand DEF Slots
  <2> QED
    BY <2>1, <2>2 DEF Directories, DatesPast, TypeOK
<1>2. OneEach'
  BY DEF Directories, OneEach
<1>3. Ranked'
  BY DEF Directories, Ranked, LaterThan, FromOn
<1>4. StandsOrOld'
  BY DEF Directories, StandsOrOld, Stands, Old, LaterThan
<1>5. TakenByOld'
  BY DEF Directories, TakenByOld, Stands
<1>6. SharedByOld'
  BY DEF Directories, SharedByOld, Old
<1> QED
  BY <1>1, <1>2, <1>3, <1>4, <1>5, <1>6 DEF Directories

\* A command chooses a name: nothing in archives comes after it.
LEMMA PickDirectories ==
    ASSUME TypeOK, TypeOK', Directories, NEW p \in Procs, Pick(p)
    PROVE  Directories'
<1> DEFINE n == FirstNumber(archives, now)
           d == [at |-> now, n |-> n, born |-> made]
<1>1. /\ d \in Slots
      /\ \A e \in archives : e.at = now => e.n < n
  BY FirstNumberIs, ArchivesDated DEF TypeOK, Slots
<1>2. command[p].at = "pick" /\ (BackupOK(command[p]) \/ GcOK(command[p]))
  BY CommandAt DEF Pick, TypeOK
<1>3. command'[p].at = "make" /\ command'[p].dir = d
  <2>1. command'[p] = [command[p] EXCEPT !.at = "make", !.dir = d]
    BY DEF Pick, Goto, TypeOK
  <2> HIDE DEF d
  <2> QED
    BY <1>2, <2>1 DEF BackupOK, GcOK, BackupCommand, GcCommand
<1>4. \A q \in Procs : q # p => command'[q] = command[q]
  BY DEF Pick, Goto, TypeOK
<1>5. UNCHANGED <<archives, made, now>>
  BY DEF Pick
<1>6. Choosing(command[p])' /\ ~Holding(command[p])'
  BY <1>3 DEF Choosing, Holding
<1>7. /\ \A q \in Procs : q # p => (Choosing(command[q])' <=> Choosing(command[q]))
      /\ \A q \in Procs : q # p => (Holding(command[q])' <=> Holding(command[q]))
  BY <1>4 DEF Choosing, Holding
<1>8. FromOn(archives, d) = {}
  <2>1. \A e \in archives : e.at \in Nat /\ e.n \in Nat /\ e.at <= now
    BY ArchivesDated DEF Dated, Directories, DatesPast
  <2> HIDE DEF n
  <2> QED
    BY <1>1, <2>1 DEF FromOn, Later, SameSlot, Slots
<1>9. \A q \in Procs : Holding(command[q]) /\ command[q].dir.at = now /\ ~Stands(command[q].dir)
        => command[q].dir.n < n
  <2> SUFFICES ASSUME NEW q \in Procs, Holding(command[q]), command[q].dir.at = now,
                      ~Stands(command[q].dir)
               PROVE  command[q].dir.n < n
    OBVIOUS
  <2>1. PICK e \in archives : Later(e, command[q].dir)
    BY DEF Directories, StandsOrOld, LaterThan
  <2>2. command[q].dir \in Slots /\ e.at \in Nat /\ e.n \in Nat /\ e.at <= now /\ n \in Nat
    BY <1>1, DirOfCommand, ArchivesDated DEF Dated, Directories, DatesPast, Slots
  <2>3. e.at = now /\ e.n > command[q].dir.n
    BY <2>1, <2>2 DEF Later, Slots, TypeOK
  <2> QED
    BY <1>1, <2>2, <2>3 DEF Slots
<1> HIDE DEF d
<1>10. DatesPast'
  BY <1>1, <1>3, <1>4, <1>5, <1>6, <1>7 DEF Directories, DatesPast, TypeOK, d
<1>11. OneEach'
  BY <1>5 DEF Directories, OneEach
<1>12. Ranked'
  <2>1. Cardinality(FromOn(archives, d)) + d.born <= made
    <3>1. Cardinality(FromOn(archives, d)) = 0
      BY <1>8, FS_EmptySet
    <3> QED
      BY <3>1 DEF d, TypeOK
  <2> QED
    BY <2>1, <1>3, <1>4, <1>5, <1>6, <1>7 DEF Directories, Ranked, FromOn, LaterThan
<1>13. StandsOrOld'
  BY <1>4, <1>5, <1>6, <1>7 DEF Directories, StandsOrOld, Stands, Old, LaterThan
<1>14. TakenByOld'
  <2> SUFFICES ASSUME NEW q \in Procs, Holding(command[q])', ~Stands(command[q].dir)', NEW r \in Procs,
                      Choosing(command[r])', command'[r].dir.at = command'[q].dir.at,
                      command'[r].dir.n <= command'[q].dir.n
               PROVE  made' >= Keep + command'[r].dir.born
    BY DEF TakenByOld
  <2>1. q # p /\ Holding(command[q]) /\ command'[q] = command[q] /\ ~Stands(command[q].dir)
    BY <1>4, <1>5, <1>6, <1>7 DEF Stands
  <2>2. CASE r = p
    <3>1. command[q].dir.at = now /\ n <= command[q].dir.n
      BY <1>3, <2>1, <2>2 DEF d
    <3>2. command[q].dir.n < n /\ n \in Nat /\ command[q].dir.n \in Nat
      BY <1>1, <1>9, <2>1, <3>1, DirOfCommand DEF Slots, d
    <3> QED
      BY <3>1, <3>2
  <2>3. CASE r # p
    BY <1>4, <1>5, <1>7, <2>1, <2>3 DEF Directories, TakenByOld
  <2> QED
    BY <2>2, <2>3
<1>15. SharedByOld'
  BY <1>4, <1>5, <1>6, <1>7 DEF Directories, SharedByOld, Old
<1> QED
  BY <1>10, <1>11, <1>12, <1>13, <1>14, <1>15 DEF Directories

LEMMA CountsAreNumbers ==
    ASSUME TypeOK, NEW x
    PROVE  /\ IsFiniteSet(LaterThan(archives, x)) /\ Cardinality(LaterThan(archives, x)) \in Nat
           /\ IsFiniteSet(FromOn(archives, x)) /\ Cardinality(FromOn(archives, x)) \in Nat
<1>1. LaterThan(archives, x) \in SUBSET archives /\ FromOn(archives, x) \in SUBSET archives
  BY DEF LaterThan, FromOn
<1> QED
  BY <1>1, FS_Subset, FS_CardinalityType DEF TypeOK

\* A command creates its directory, at the number it chose or past it.
LEMMA MakeDirectories ==
    ASSUME TypeOK, TypeOK', Directories, NEW p \in Procs, Make(p)
    PROVE  Directories'
<1> DEFINE d == command[p].dir
           k == Created(archives, d.at, d.n)
           made1 == [d EXCEPT !.n = k]
           new == [at |-> d.at, n |-> k, born |-> d.born, tars |-> <<>>]
<1>1. command[p].at = "make" /\ (BackupOK(command[p]) \/ GcOK(command[p]))
  BY CommandAt DEF Make, TypeOK
<1>2. Choosing(command[p]) /\ d \in Slots
  BY <1>1, DirOfCommand DEF Choosing
<1>3. k \in Nat /\ k >= d.n /\ \A e \in archives : ~(e.at = d.at /\ e.n = k)
  BY <1>2, CreatedIs, ArchivesDated DEF TypeOK, Slots
<1>4. made1 \in Slots /\ made1.at = d.at /\ made1.n = k /\ made1.born = d.born
  <2> HIDE DEF k, d
  <2> QED BY <1>2, <1>3 DEF Slots
<1>5. command'[p].at = "archive" /\ command'[p].dir = made1
  <2>1. command'[p] = [command[p] EXCEPT !.at = "archive", !.dir = made1]
    BY DEF Make, Goto, TypeOK
  <2> HIDE DEF made1
  <2> QED
    BY <1>1, <2>1 DEF BackupOK, GcOK, BackupCommand, GcCommand
<1>6. \A q \in Procs : q # p => command'[q] = command[q]
  BY DEF Make, Goto, TypeOK
<1>7. archives' = archives \cup {new} /\ made' = made + 1 /\ now' = now
  BY <1>4 DEF Make
<1>8. new.at = d.at /\ new.n = k
  OBVIOUS
<1>9. Holding(command[p])' /\ ~Choosing(command[p])'
  BY <1>4, <1>5, NoneApart DEF Choosing, Holding
<1>10. /\ \A q \in Procs : q # p => (Choosing(command[q])' <=> Choosing(command[q]))
       /\ \A q \in Procs : q # p => (Holding(command[q])' <=> Holding(command[q]))
  BY <1>6 DEF Choosing, Holding
<1>11. made \in Nat /\ Keep \in Nat /\ IsFiniteSet(archives) /\ Dated(archives)
  BY KeepIsPositive, ArchivesDated DEF TypeOK
<1> HIDE DEF new, made1, k, d
<1>12. DatesPast'
  BY <1>2, <1>4, <1>5, <1>6, <1>7, <1>8, <1>9, <1>10 DEF Directories, DatesPast, d
<1>13. OneEach'
  BY <1>3, <1>7, <1>8 DEF Directories, OneEach, SameSlot
<1>14. Ranked'
  <2>1. ASSUME NEW x
        PROVE  /\ Cardinality(LaterThan(archives', x)) <= Cardinality(LaterThan(archives, x)) + 1
               /\ Cardinality(FromOn(archives', x)) <= Cardinality(FromOn(archives, x)) + 1
               /\ Cardinality(LaterThan(archives', x)) \in Nat /\ Cardinality(FromOn(archives', x)) \in Nat
    <3>1. /\ LaterThan(archives', x) \in SUBSET (LaterThan(archives, x) \cup {new})
          /\ FromOn(archives', x) \in SUBSET (FromOn(archives, x) \cup {new})
      BY <1>7 DEF LaterThan, FromOn
    <3>2. IsFiniteSet(LaterThan(archives, x)) /\ IsFiniteSet(FromOn(archives, x))
      BY CountsAreNumbers
    <3> QED
      BY <3>1, <3>2, OneMore, FS_CardinalityType
  <2>2. Cardinality(LaterThan(archives', made1)) + made1.born < made'
    <3>1. LaterThan(archives', made1) \in SUBSET FromOn(archives, d)
      BY <1>2, <1>3, <1>4, <1>7, <1>8, <1>11 DEF LaterThan, FromOn, Later, SameSlot, Dated, Slots
    <3>2. IsFiniteSet(FromOn(archives, d)) /\ Cardinality(FromOn(archives, d)) \in Nat
      BY CountsAreNumbers
    <3>3. Cardinality(LaterThan(archives', made1)) <= Cardinality(FromOn(archives, d))
      BY <3>1, <3>2, FS_Subset
    <3>4. Cardinality(FromOn(archives, d)) + d.born <= made
      BY <1>2 DEF Directories, Ranked, d
    <3> DEFINE a == Cardinality(LaterThan(archives', made1))
               b == Cardinality(FromOn(archives, d))
    <3>5. a \in Nat /\ b \in Nat /\ a <= b /\ b + d.born <= made /\ d.born \in Nat
      BY <1>2, <2>1, <3>2, <3>3, <3>4 DEF Slots
    <3> HIDE DEF a, b
    <3>6. a + made1.born < made'
      BY <1>4, <1>7, <1>11, <3>5
    <3> QED
      BY <3>6 DEF a
  <2>3. ASSUME NEW q \in Procs, q # p
        PROVE  /\ Choosing(command[q]) =>
                    Cardinality(FromOn(archives', command[q].dir)) + command[q].dir.born <= made'
               /\ Holding(command[q]) =>
                    Cardinality(LaterThan(archives', command[q].dir)) + command[q].dir.born < made'
    <3> DEFINE x == command[q].dir
               l0 == Cardinality(LaterThan(archives, x))
               l1 == Cardinality(LaterThan(archives', x))
               f0 == Cardinality(FromOn(archives, x))
               f1 == Cardinality(FromOn(archives', x))
    <3>1. l1 <= l0 + 1 /\ f1 <= f0 + 1 /\ l0 \in Nat /\ f0 \in Nat /\ l1 \in Nat /\ f1 \in Nat
      BY <2>1, CountsAreNumbers
    <3>2. /\ Choosing(command[q]) => f0 + x.born <= made
          /\ Holding(command[q]) => l0 + x.born < made
          /\ Choosing(command[q]) \/ Holding(command[q]) => x.born \in Nat
      BY DirOfCommand DEF Directories, Ranked, Slots
    <3> HIDE DEF x, l0, l1, f0, f1
    <3>3. /\ Choosing(command[q]) => f1 + x.born <= made'
          /\ Holding(command[q]) => l1 + x.born < made'
      BY <1>7, <1>11, <3>1, <3>2
    <3> QED
      BY <3>3 DEF x, l1, f1
  <2> QED
    BY <1>5, <1>6, <1>9, <1>10, <2>2, <2>3 DEF Ranked
<1>15. \A q \in Procs : Holding(command[q]) =>
         /\ Old(command[q].dir.born) => Old(command[q].dir.born)'
         /\ Stands(command[q].dir) => \E e \in archives' : SameSlot(e, command[q].dir)
  <2>1. \A q \in Procs : Holding(command[q]) => command[q].dir.born \in Nat
    BY DirOfCommand DEF Slots
  <2>2. \A q \in Procs : Holding(command[q]) => command'[q] = command[q]
    BY <1>2, <1>6, DirOfCommand
  <2> QED
    BY <1>7, <1>11, <2>1, <2>2 DEF Old, Stands
<1>16. Stands(command[p].dir)'
  BY <1>4, <1>5, <1>7, <1>8 DEF Stands, SameSlot
<1>17. StandsOrOld'
  BY <1>6, <1>7, <1>9, <1>10, <1>15, <1>16 DEF Directories, StandsOrOld, Stands, LaterThan
<1>18. TakenByOld'
  <2> SUFFICES ASSUME NEW q \in Procs, Holding(command[q])', ~Stands(command[q].dir)', NEW r \in Procs,
                      Choosing(command[r])', command'[r].dir.at = command'[q].dir.at,
                      command'[r].dir.n <= command'[q].dir.n
               PROVE  made' >= Keep + command'[r].dir.born
    BY DEF TakenByOld
  <2>1. q # p /\ r # p
    BY <1>9, <1>16
  <2>2. Holding(command[q]) /\ ~Stands(command[q].dir) /\ Choosing(command[r])
    BY <1>6, <1>7, <1>10, <2>1 DEF Stands
  <2>3. made >= Keep + command[r].dir.born /\ command[r].dir.born \in Nat
    BY <1>6, <2>1, <2>2, DirOfCommand DEF Directories, TakenByOld, Slots
  <2> QED
    BY <1>6, <1>7, <1>11, <2>1, <2>3
<1>19. SharedByOld'
  <2>1. ASSUME NEW q \in Procs, q # p, Holding(command[q]), SameSlot(command[q].dir, made1)
        PROVE  Old(command[q].dir.born) /\ made >= Keep + d.born
    <3>1. ~Stands(command[q].dir)
      BY <1>3, <1>4, <2>1 DEF Stands, SameSlot
    <3>2. d.at = command[q].dir.at /\ d.n <= command[q].dir.n
      BY <1>3, <1>4, <2>1 DEF SameSlot
    <3> QED
      BY <1>2, <2>1, <3>1, <3>2 DEF Directories, StandsOrOld, TakenByOld, d
  <2>2. ASSUME NEW q \in Procs, q # p, Holding(command[q])', SameSlot(command[q].dir, command[p].dir)'
        PROVE  Old(command[q].dir.born)' /\ Old(command[p].dir.born)'
    <3>1. Holding(command[q]) /\ SameSlot(command[q].dir, made1)
      BY <1>5, <1>6, <1>10, <2>2
    <3>2. made' > Keep + made1.born
      BY <1>2, <1>4, <1>7, <1>11, <2>1, <2>2, <3>1 DEF Slots
    <3>3. Old(command[q].dir.born)'
      BY <1>15, <2>1, <2>2, <3>1
    <3> QED
      BY <1>5, <3>2, <3>3 DEF Old
  <2>3. ASSUME NEW q \in Procs, NEW r \in Procs, q # r, q # p, r # p, Holding(command[q])',
               Holding(command[r])', SameSlot(command[q].dir, command[r].dir)'
        PROVE  Old(command[q].dir.born)'
    BY <1>6, <1>10, <1>15, <2>3 DEF Directories, SharedByOld
  <2> SUFFICES ASSUME NEW q \in Procs, NEW r \in Procs, q # r, Holding(command[q])',
                      Holding(command[r])', SameSlot(command[q].dir, command[r].dir)'
               PROVE  Old(command[q].dir.born)'
    BY DEF SharedByOld
  <2>4. SameSlot(command[r].dir, command[q].dir)'
    BY DEF SameSlot
  <2> QED
    BY <2>2, <2>3, <2>4
<1> QED
  BY <1>12, <1>13, <1>14, <1>17, <1>18, <1>19 DEF Directories

\* What pruning removes had as many newer ones as are kept.
LEMMA PruneDirectories ==
    ASSUME TypeOK, TypeOK', Directories, NEW p \in Procs, Prune(p)
    PROVE  /\ Directories'
           /\ \A d \in archives \ archives' : Cardinality(LaterThan(archives, d)) >= Keep
           /\ archives' \subseteq archives /\ UNCHANGED made
           /\ \A q \in Procs : Choosing(command[q])' \/ Holding(command[q])' =>
                q # p /\ command'[q] = command[q]
<1>1. archives' = archives \ RolledOff(archives) /\ UNCHANGED <<made, now>>
  BY DEF Prune
<1>2. \A d \in archives \ archives' : Cardinality(LaterThan(archives, d)) >= Keep
  BY <1>1 DEF RolledOff, LaterThan
<1>3. command'[p] = Idle /\ \A q \in Procs : q # p => command'[q] = command[q]
  BY DEF Prune, Stop, Goto, TypeOK
<1>4. \A q \in Procs : Choosing(command[q])' \/ Holding(command[q])' => q # p /\ command'[q] = command[q]
  BY <1>3 DEF Choosing, Holding, Idle
<1>5. /\ \A q \in Procs : Choosing(command[q])' => Choosing(command[q]) /\ command'[q] = command[q]
      /\ \A q \in Procs : Holding(command[q])' => Holding(command[q]) /\ command'[q] = command[q]
  BY <1>3, <1>4 DEF Choosing, Holding
<1>6. made \in Nat /\ Keep \in Nat \ {0} /\ IsFiniteSet(archives) /\ Dated(archives)
  BY KeepIsPositive, ArchivesDated DEF TypeOK
<1>7. \A x : /\ Cardinality(LaterThan(archives', x)) <= Cardinality(LaterThan(archives, x))
             /\ Cardinality(FromOn(archives', x)) <= Cardinality(FromOn(archives, x))
             /\ Cardinality(LaterThan(archives', x)) \in Nat /\ Cardinality(FromOn(archives', x)) \in Nat
  <2> TAKE x
  <2>1. /\ LaterThan(archives', x) \in SUBSET LaterThan(archives, x)
        /\ FromOn(archives', x) \in SUBSET FromOn(archives, x)
    BY <1>1 DEF LaterThan, FromOn
  <2>2. IsFiniteSet(LaterThan(archives, x)) /\ IsFiniteSet(FromOn(archives, x))
    BY CountsAreNumbers
  <2> QED
    BY <2>1, <2>2, FS_Subset, FS_CardinalityType
\* What is known of a directory that stood and is gone.
<1>8. ASSUME NEW q \in Procs, Holding(command[q]), Stands(command[q].dir),
             ~\E e \in archives' : SameSlot(e, command[q].dir)
      PROVE  Cardinality(LaterThan(archives, command[q].dir)) >= Keep
  <2>1. PICK e \in archives : SameSlot(e, command[q].dir)
    BY <1>8 DEF Stands
  <2>2. e \in archives \ archives'
    BY <1>8, <2>1
  <2>3. LaterThan(archives, e) = LaterThan(archives, command[q].dir)
    BY <2>1 DEF LaterThan, Later, SameSlot
  <2> QED
    BY <1>2, <2>2, <2>3
<1>9. DatesPast'
  BY <1>1, <1>5 DEF Directories, DatesPast
<1>10. OneEach'
  BY <1>1 DEF Directories, OneEach
<1>11. Ranked'
  <2> SUFFICES ASSUME NEW q \in Procs
               PROVE  /\ Choosing(command[q])' =>
                           Cardinality(FromOn(archives', command'[q].dir)) + command'[q].dir.born <= made
                      /\ Holding(command[q])' =>
                           Cardinality(LaterThan(archives', command'[q].dir)) + command'[q].dir.born < made
    BY <1>1 DEF Ranked
  <2> DEFINE x == command[q].dir
             l0 == Cardinality(LaterThan(archives, x))
             l1 == Cardinality(LaterThan(archives', x))
             f0 == Cardinality(FromOn(archives, x))
             f1 == Cardinality(FromOn(archives', x))
  <2>1. l1 <= l0 /\ f1 <= f0 /\ l0 \in Nat /\ f0 \in Nat /\ l1 \in Nat /\ f1 \in Nat
    BY <1>7, CountsAreNumbers
  <2>2. /\ Choosing(command[q]) => f0 + x.born <= made
        /\ Holding(command[q]) => l0 + x.born < made
        /\ Choosing(command[q]) \/ Holding(command[q]) => x.born \in Nat
    BY DirOfCommand DEF Directories, Ranked, Slots
  <2> HIDE DEF x, l0, l1, f0, f1
  <2>3. /\ Choosing(command[q]) => f1 + x.born <= made
        /\ Holding(command[q]) => l1 + x.born < made
    BY <1>6, <2>1, <2>2
  <2> QED
    BY <1>5, <2>3 DEF x, l1, f1
<1>12. StandsOrOld'
  <2> SUFFICES ASSUME NEW q \in Procs, Holding(command[q])', ~Stands(command[q].dir)'
               PROVE  Old(command[q].dir.born)' /\ LaterThan(archives', command'[q].dir) # {}
    BY DEF StandsOrOld
  <2> DEFINE x == command[q].dir
             l0 == Cardinality(LaterThan(archives, x))
  <2>1. Holding(command[q]) /\ command'[q].dir = x /\ x \in Slots
    BY <1>5, DirOfCommand
  <2>2. Old(x.born) /\ LaterThan(archives, x) # {}
    <3>1. CASE ~Stands(x)
      BY <2>1, <3>1 DEF Directories, StandsOrOld
    <3>2. CASE Stands(x)
      <4>1. l0 >= Keep
        BY <1>8, <2>1, <3>2 DEF Stands
      <4>2. l0 + x.born < made /\ l0 \in Nat /\ x.born \in Nat
        BY <2>1, CountsAreNumbers DEF Directories, Ranked, Slots
      <4>3. LaterThan(archives, x) # {}
        <5>1. l0 # 0
          BY <1>6, <4>1, <4>2
        <5> QED
          BY <5>1, FS_EmptySet
      <4> HIDE DEF l0, x
      <4> QED
        BY <1>6, <4>1, <4>2, <4>3 DEF Old
    <3> QED
      BY <3>1, <3>2
  <2>3. LaterThan(archives', x) # {}
    BY <1>1, <1>6, <2>1, <2>2, NewestStays DEF Slots
  <2> QED
    BY <1>1, <2>1, <2>2, <2>3 DEF Old
<1>13. TakenByOld'
  <2> SUFFICES ASSUME NEW q \in Procs, Holding(command[q])', ~Stands(command[q].dir)', NEW r \in Procs,
                      Choosing(command[r])', command'[r].dir.at = command'[q].dir.at,
                      command'[r].dir.n <= command'[q].dir.n
               PROVE  made >= Keep + command'[r].dir.born
    BY <1>1 DEF TakenByOld
  <2> DEFINE x == command[q].dir
             y == command[r].dir
             l0 == Cardinality(LaterThan(archives, x))
             f0 == Cardinality(FromOn(archives, y))
  <2>1. /\ Holding(command[q]) /\ command'[q].dir = x /\ x \in Slots
        /\ Choosing(command[r]) /\ command'[r].dir = y /\ y \in Slots
    BY <1>5, DirOfCommand
  <2>2. CASE ~Stands(x)
    BY <2>1, <2>2 DEF Directories, TakenByOld
  <2>3. CASE Stands(x)
    <3>1. l0 >= Keep
      BY <1>8, <2>1, <2>3 DEF Stands
    <3>2. LaterThan(archives, x) \in SUBSET FromOn(archives, y)
      BY <1>6, <2>1 DEF LaterThan, FromOn, Later, SameSlot, Dated, Slots
    <3>3. l0 <= f0 /\ l0 \in Nat /\ f0 \in Nat
      BY <3>2, CountsAreNumbers, FS_Subset
    <3>4. f0 + y.born <= made /\ y.born \in Nat
      BY <2>1 DEF Directories, Ranked, Slots
    <3> HIDE DEF l0, f0, x, y
    <3> QED
      BY <1>6, <2>1, <3>1, <3>3, <3>4
  <2> QED
    BY <2>2, <2>3
<1>14. SharedByOld'
  BY <1>1, <1>5 DEF Directories, SharedByOld, Old
<1> QED
  BY <1>1, <1>2, <1>4, <1>9, <1>10, <1>11, <1>12, <1>13, <1>14 DEF Directories

\* An archive is written into a directory, or outside all of them.
LEMMA ArchiveDirectories ==
    ASSUME TypeOK, TypeOK', Directories, NEW p \in Procs, Archive(p)
    PROVE  /\ Directories'
           /\ \A x : Cardinality(LaterThan(archives', x)) <= Cardinality(LaterThan(archives, x))
<1> DEFINE c == command[p]
           x0 == Archived(roots[c.work])
           g == [d \in archives |-> IF d \in Dir(p)
                    THEN [d EXCEPT !.tars = WithTar(@, c.work, x0)] ELSE d]
<1>1. UNCHANGED <<made, now>>
  BY DEF Archive
<1>2. PICK f : /\ DOMAIN f = archives /\ archives' = {f[d] : d \in archives}
               /\ \A d \in archives : f[d].at = d.at /\ f[d].n = d.n
  <2>1. CASE UNCHANGED archives
    <3> DEFINE h == [d \in archives |-> d]
    <3>1. DOMAIN h = archives /\ archives' = {h[d] : d \in archives} /\ \A d \in archives : h[d] = d
      BY <2>1
    <3> QED
      BY <3>1
  <2>2. CASE archives' = {g[d] : d \in archives}
    <3>1. \A d \in archives : g[d].at = d.at /\ g[d].n = d.n
      BY DEF TypeOK, Directory
    <3> QED
      BY <2>2, <3>1
  <2> QED
    BY <2>1, <2>2 DEF Archive
<1>3. /\ \A q \in Procs : q # p => command'[q] = command[q]
      /\ Choosing(command[p])' => FALSE
      /\ Holding(command[p])' => Holding(command[p]) /\ command'[p].dir = command[p].dir
  <2>1. command[p].at = "archive" /\ (BackupOK(command[p]) \/ GcOK(command[p]))
    BY CommandAt DEF Archive, TypeOK
  <2>2. \/ command'[p] = Idle
        \/ command'[p] = [command[p] EXCEPT !.at = "remove", !.late = FALSE]
        \/ command'[p] = [command[p] EXCEPT !.at = "prune"]
    BY DEF Archive, Goto, Stop, TypeOK
  <2>3. \/ command'[p] = Idle
        \/ command'[p].at \in {"remove", "prune"} /\ command'[p].dir = command[p].dir
    <3>1. CASE BackupOK(command[p])
      BY <2>2, <3>1 DEF BackupOK, BackupCommand
    <3>2. CASE GcOK(command[p])
      BY <2>2, <3>2 DEF GcOK, GcCommand
    <3> QED
      BY <2>1, <3>1, <3>2
  <2>4. \A q \in Procs : q # p => command'[q] = command[q]
    BY DEF Archive, Goto, Stop, TypeOK
  <2> QED
    BY <2>1, <2>3, <2>4 DEF Choosing, Holding, Idle
<1>4. /\ \A q \in Procs : Choosing(command[q])' => Choosing(command[q]) /\ command'[q].dir = command[q].dir
      /\ \A q \in Procs : Holding(command[q])' => Holding(command[q]) /\ command'[q].dir = command[q].dir
  BY <1>3 DEF Choosing, Holding
<1>5. made \in Nat /\ Keep \in Nat \ {0} /\ IsFiniteSet(archives) /\ Dated(archives)
  BY KeepIsPositive, ArchivesDated DEF TypeOK
<1>6. \A x : /\ LaterThan(archives', x) = {f[d] : d \in LaterThan(archives, x)}
             /\ FromOn(archives', x) = {f[d] : d \in FromOn(archives, x)}
  BY <1>2 DEF LaterThan, FromOn, Later, SameSlot
<1>7. \A x : /\ Cardinality(LaterThan(archives', x)) <= Cardinality(LaterThan(archives, x))
             /\ Cardinality(FromOn(archives', x)) <= Cardinality(FromOn(archives, x))
             /\ Cardinality(LaterThan(archives', x)) \in Nat /\ Cardinality(FromOn(archives', x)) \in Nat
  <2>1. ASSUME NEW S \in SUBSET archives
        PROVE  LET T == {f[d] : d \in S} IN IsFiniteSet(T) /\ Cardinality(T) <= Cardinality(S)
                                              /\ Cardinality(T) \in Nat
    <3> DEFINE h == [d \in S |-> f[d]]
    <3>1. {f[d] : d \in S} = {h[d] : d \in S} /\ DOMAIN h = S
      OBVIOUS
    <3>2. IsFiniteSet(S)
      BY <1>5, FS_Subset
    <3> HIDE DEF h
    <3>3. IsFiniteSet({h[d] : d \in S}) /\ Cardinality({h[d] : d \in S}) <= Cardinality(S)
      BY <3>1, <3>2, NoMore
    <3> QED
      BY <3>1, <3>3, FS_CardinalityType
  <2> TAKE x
  <2>2. LaterThan(archives, x) \in SUBSET archives /\ FromOn(archives, x) \in SUBSET archives
    BY DEF LaterThan, FromOn
  <2> QED
    BY <1>6, <2>1, <2>2
<1>8. \A x : (\E e \in archives' : SameSlot(e, x)) <=> (\E e \in archives : SameSlot(e, x))
  BY <1>2 DEF SameSlot
<1>9. DatesPast'
  BY <1>1, <1>2, <1>4 DEF Directories, DatesPast
<1>10. OneEach'
  BY <1>2 DEF Directories, OneEach, SameSlot
<1>11. Ranked'
  <2> SUFFICES ASSUME NEW q \in Procs
               PROVE  /\ Choosing(command[q])' =>
                           Cardinality(FromOn(archives', command'[q].dir)) + command'[q].dir.born <= made
                      /\ Holding(command[q])' =>
                           Cardinality(LaterThan(archives', command'[q].dir)) + command'[q].dir.born < made
    BY <1>1 DEF Ranked
  <2> DEFINE x == command[q].dir
             l0 == Cardinality(LaterThan(archives, x))
             l1 == Cardinality(LaterThan(archives', x))
             f0 == Cardinality(FromOn(archives, x))
             f1 == Cardinality(FromOn(archives', x))
  <2>1. l1 <= l0 /\ f1 <= f0 /\ l0 \in Nat /\ f0 \in Nat /\ l1 \in Nat /\ f1 \in Nat
    BY <1>7, CountsAreNumbers
  <2>2. /\ Choosing(command[q]) => f0 + x.born <= made
        /\ Holding(command[q]) => l0 + x.born < made
        /\ Choosing(command[q]) \/ Holding(command[q]) => x.born \in Nat
    BY DirOfCommand DEF Directories, Ranked, Slots
  <2> HIDE DEF x, l0, l1, f0, f1
  <2>3. /\ Choosing(command[q]) => f1 + x.born <= made
        /\ Holding(command[q]) => l1 + x.born < made
    BY <1>5, <2>1, <2>2
  <2> QED
    BY <1>4, <2>3 DEF x, l1, f1
<1>12. StandsOrOld'
  <2>1. ASSUME NEW x, LaterThan(archives, x) # {} PROVE LaterThan(archives', x) # {}
    <3>1. PICK d \in LaterThan(archives, x) : TRUE
      BY <2>1
    <3>2. f[d] \in LaterThan(archives', x)
      BY <1>6, <3>1
    <3> QED
      BY <3>2
  <2> QED
    BY <1>1, <1>4, <1>8, <2>1 DEF Directories, StandsOrOld, Stands, Old
<1>13. TakenByOld'
  BY <1>1, <1>4, <1>8 DEF Directories, TakenByOld, Stands
<1>14. SharedByOld'
  BY <1>1, <1>4 DEF Directories, SharedByOld, Old
<1> QED
  BY <1>7, <1>9, <1>10, <1>11, <1>12, <1>13, <1>14 DEF Directories

-----------------------------------------------------------------------------
(* What gc removes.                                                        *)

\* A workspace whose root is about to go was seen to be gone.
Stayed ==
    \A p \in Procs : command[p].at # "idle" =>
        /\ command[p].stayed \subseteq There
        /\ command[p].at \in {"pick", "make", "archive", "remove"} /\ command[p].gc =>
              command[p].work \notin command[p].stayed

Filed(d, w, x) == w \in DOMAIN d.tars /\ x \in d.tars[w]

\* Before a root goes, the words in it are in the archive just made, unless
\* they came later or the archive is an old one.
Filing ==
    \A p \in Procs :
        /\ command[p].at = "remove" /\ ~command[p].late
        /\ roots[command[p].work] # None /\ roots[command[p].work].memory \in Written
        => \/ Old(command[p].dir.born)
           \/ \E d \in archives : /\ SameSlot(d, command[p].dir)
                                  /\ Filed(d, command[p].work, roots[command[p].work].memory)

\* No command will write the archive of this root into that directory again.
Untouched(d, w) ==
    \A p \in Procs : Holding(command[p]) /\ SameSlot(command[p].dir, d) =>
        /\ command[p].at = "archive" => command[p].work # w
        /\ command[p].gc => w \notin command[p].todo

Kept ==
    \A e \in dropped :
        /\ ~e.stayed
        /\ \/ e.held = {}
           \/ Old(e.born)
           \/ \E d \in archives :
                /\ e.root \in DOMAIN d.tars /\ e.held \subseteq d.tars[e.root]
                /\ Cardinality(LaterThan(archives, d)) + e.born < made
                /\ Untouched(d, e.root)

\* What becomes of a command in a step that names, makes, writes and prunes no
\* directory.
Mild(c, d) ==
    /\ Choosing(d) => Choosing(c) /\ d.dir = c.dir
    /\ Holding(d) => Holding(c) /\ d.dir = c.dir
    /\ Holding(d) /\ d.at = "archive" =>
         \/ c.at = "archive" /\ d.work = c.work
         \/ c.gc /\ d.work \in c.todo
    /\ Holding(d) /\ d.gc => c.gc /\ d.todo \subseteq c.todo
    /\ d.at = "remove" => /\ c.at = "remove" /\ d.work = c.work /\ d.dir = c.dir
                          /\ d.late = c.late \/ d.late = TRUE

\* How the root it works on and the workspaces that stayed go on.
SameWork(c, d) ==
    d.at # "idle" =>
        /\ c.at # "idle" /\ d.stayed = c.stayed
        /\ d.at \in {"pick", "make", "archive", "remove"} /\ d.gc =>
             c.at \in {"pick", "make", "archive", "remove"} /\ c.gc /\ d.work = c.work

LEMMA MildSteps ==
    ASSUME NEW c, CommandOK(c)
    PROVE  /\ Mild(c, c) /\ Mild(c, Idle)
           /\ SameWork(c, c) /\ SameWork(c, Idle)
  BY DEF Mild, SameWork, Idle, Choosing, Holding

LEMMA LateIsMild ==
    ASSUME NEW c, CommandOK(c), c # Idle
    PROVE  /\ Mild(c, [c EXCEPT !.late = TRUE]) /\ SameWork(c, [c EXCEPT !.late = TRUE])
           /\ [c EXCEPT !.late = TRUE].at = "remove" => [c EXCEPT !.late = TRUE].late = TRUE
<1> DEFINE d == [c EXCEPT !.late = TRUE]
<1>1. CASE c \in SeedCommand
  <2>1. d.at = c.at /\ d.stayed = c.stayed /\ c.at \in Seeding
    BY <1>1 DEF SeedCommand
  <2> HIDE DEF d
  <2> QED
    BY <2>1 DEF Mild, SameWork, Choosing, Holding, Seeding, d
<1>2. CASE BackupOK(c)
  <2>1. /\ d.at = c.at /\ d.stayed = c.stayed /\ d.dir = c.dir /\ d.work = c.work /\ d.gc = FALSE
        /\ c.gc = FALSE /\ c.at \in {"pick", "make", "archive", "prune"} /\ d.late = TRUE
    BY <1>2 DEF BackupOK, BackupCommand
  <2> HIDE DEF d
  <2> QED
    BY <2>1 DEF Mild, SameWork, Choosing, Holding, d
<1>3. CASE GcOK(c)
  <2>1. /\ d.at = c.at /\ d.stayed = c.stayed /\ d.dir = c.dir /\ d.work = c.work /\ d.gc = TRUE
        /\ c.gc = TRUE /\ d.todo = c.todo /\ d.late = TRUE
        /\ c.at # "idle"
    BY <1>3 DEF GcOK, GcCommand
  <2> HIDE DEF d
  <2> QED
    BY <2>1 DEF Mild, SameWork, Choosing, Holding, d
<1> QED
  BY <1>1, <1>2, <1>3 DEF CommandOK

LEMMA MovedIsMild ==
    ASSUME NEW c, CommandOK(c), c # Idle, NEW w
    PROVE  LET d == [c EXCEPT !.stayed = @ \ {w}] IN
           /\ Mild(c, d)
           /\ d.at = c.at /\ d.stayed = c.stayed \ {w}
           /\ d.at \in {"pick", "make", "archive", "remove"} => d.work = c.work /\ d.gc = c.gc
<1> DEFINE d == [c EXCEPT !.stayed = @ \ {w}]
<1>1. CASE c \in SeedCommand
  <2>1. d.at = c.at /\ d.stayed = c.stayed \ {w} /\ c.at \in Seeding
    BY <1>1 DEF SeedCommand
  <2> HIDE DEF d
  <2> QED
    BY <2>1 DEF Mild, Choosing, Holding, Seeding, d
<1>2. CASE BackupOK(c)
  <2>1. /\ d.at = c.at /\ d.stayed = c.stayed \ {w} /\ d.dir = c.dir /\ d.work = c.work /\ d.gc = FALSE
        /\ c.gc = FALSE /\ c.at \in {"pick", "make", "archive", "prune"}
    BY <1>2 DEF BackupOK, BackupCommand
  <2> HIDE DEF d
  <2> QED
    BY <2>1 DEF Mild, Choosing, Holding, d
<1>3. CASE GcOK(c)
  <2>1. /\ d.at = c.at /\ d.stayed = c.stayed \ {w} /\ d.dir = c.dir /\ d.work = c.work /\ d.gc = TRUE
        /\ c.gc = TRUE /\ d.todo = c.todo /\ d.late = c.late
    BY <1>3 DEF GcOK, GcCommand
  <2> HIDE DEF d
  <2> QED
    BY <2>1 DEF Mild, Choosing, Holding, d
<1> QED
  BY <1>1, <1>2, <1>3 DEF CommandOK

\* The steps of a command within seed, backup and gc.
LEMMA CommandIsMild ==
    ASSUME TypeOK, NEW p \in Procs,
           \/ KillCommand(p) \/ SeedMemory(p) \/ SeedSidecar(p) \/ SeedNote(p)
           \/ GcRemove(p) \/ GcForget(p) \/ GcEnd(p)
    PROVE  \A q \in Procs : Mild(command[q], command'[q]) /\ SameWork(command[q], command'[q])
<1> DEFINE c == command[p]
           d == command'[p]
<1>1. (\A q \in Procs : CommandOK(command[q])) /\ DOMAIN command = Procs
  BY DEF TypeOK
<1>2. \A q \in Procs : q # p => command'[q] = command[q]
  BY <1>1 DEF KillCommand, SeedMemory, SeedSidecar, SeedNote, GcRemove, GcForget, GcEnd, Goto, Stop
<1>3. CASE d = Idle
  BY <1>1, <1>2, <1>3, MildSteps
<1>4. CASE d # Idle
  <2>1. \/ /\ SeedMemory(p) \/ SeedSidecar(p)
           /\ \E s \in Seeding : d = [c EXCEPT !.at = s]
        \/ GcRemove(p) /\ d = [c EXCEPT !.at = "forget"]
        \/ GcForget(p) /\ d = [c EXCEPT !.at = "gc", !.work = None]
        \/ GcEnd(p) /\ d = [c EXCEPT !.at = "prune"] /\ c.dir # None
    BY <1>1, <1>4 DEF KillCommand, SeedMemory, SeedSidecar, SeedNote, GcRemove, GcForget, GcEnd,
       Goto, Stop, Seeding
  <2>2. CASE SeedMemory(p) \/ SeedSidecar(p)
    <3>1. c \in SeedCommand
      BY <1>1, <2>2, CommandAt DEF SeedMemory, SeedSidecar, Seeding
    <3>2. PICK s \in Seeding : d = [c EXCEPT !.at = s]
      BY <2>1, <2>2, <3>1, CommandAt DEF GcRemove, GcForget, GcEnd, SeedMemory, SeedSidecar, Seeding
    <3>3. d.at = s /\ d.stayed = c.stayed /\ c.at \in Seeding
      BY <3>1, <3>2 DEF SeedCommand
    <3>4. Mild(c, d) /\ SameWork(c, d)
      BY <3>3 DEF Mild, SameWork, Choosing, Holding, Seeding
    <3> QED
      BY <1>1, <1>2, <3>4, MildSteps
  <2>3. CASE GcRemove(p) \/ GcForget(p) \/ GcEnd(p)
    <3>1. GcOK(c) /\ c.at \in {"remove", "forget", "gc"}
      BY <1>1, <2>3, CommandAt DEF GcRemove, GcForget, GcEnd
    <3>2. \/ d = [c EXCEPT !.at = "forget"]
          \/ d = [c EXCEPT !.at = "gc", !.work = None]
          \/ d = [c EXCEPT !.at = "prune"]
      BY <2>1, <2>3, <3>1 DEF GcRemove, GcForget, GcEnd, SeedMemory, SeedSidecar
    <3>3. /\ d.at \in {"forget", "gc", "prune"} /\ d.stayed = c.stayed /\ d.dir = c.dir /\ d.todo = c.todo
          /\ c.gc = TRUE
      <4> HIDE DEF c, d
      <4>1. c \in GcCommand
        BY <3>1 DEF GcOK
      <4>2. CASE d = [c EXCEPT !.at = "forget"]
        BY <4>1, <4>2 DEF GcCommand
      <4>3. CASE d = [c EXCEPT !.at = "gc", !.work = None]
        BY <4>1, <4>3 DEF GcCommand
      <4>4. CASE d = [c EXCEPT !.at = "prune"]
        BY <4>1, <4>4 DEF GcCommand
      <4> QED
        BY <3>2, <4>2, <4>3, <4>4
    <3>4. Mild(c, d) /\ SameWork(c, d)
      BY <3>1, <3>3 DEF Mild, SameWork, Choosing, Holding
    <3> QED
      BY <1>1, <1>2, <3>4, MildSteps
  <2> QED
    BY <2>1, <2>2, <2>3
<1> QED
  BY <1>3, <1>4

\* A command that begins holds no directory.
LEMMA BeginIsMild ==
    ASSUME TypeOK, NEW p \in Procs,
           \/ BeginGc(p) \/ \E w \in Workspaces : SeedLook(p, w) \/ BeginBackup(p, w)
    PROVE  /\ \A q \in Procs : Mild(command[q], command'[q])
           /\ \A q \in Procs : q # p => command'[q] = command[q]
           /\ command'[p].stayed = There
           /\ ~(command'[p].at \in {"pick", "make", "archive", "remove"} /\ command'[p].gc)
<1> DEFINE d == command'[p]
<1>1. (\A q \in Procs : CommandOK(command[q])) /\ DOMAIN command = Procs
  BY DEF TypeOK
<1>2. \A q \in Procs : q # p => command'[q] = command[q]
  BY <1>1 DEF BeginGc, SeedLook, BeginBackup, Goto
<1>3. /\ d.stayed = There
      /\ \/ d.at = "seed memory"
         \/ d.at \in {"pick", "archive"} /\ d.dir = None /\ d.gc = FALSE
         \/ d.at = "gc" /\ d.dir = None
  <2>1. CASE BeginGc(p)
    BY <1>1, <2>1 DEF BeginGc, Goto
  <2>2. ASSUME NEW w \in Workspaces, SeedLook(p, w) PROVE d.at = "seed memory" /\ d.stayed = There
    BY <1>1, <2>2 DEF SeedLook, Goto
  <2>3. ASSUME NEW w \in Workspaces, BeginBackup(p, w)
        PROVE  d.at \in {"pick", "archive"} /\ d.dir = None /\ d.gc = FALSE /\ d.stayed = There
    BY <1>1, <2>3 DEF BeginBackup, Goto
  <2> QED
    BY <2>1, <2>2, <2>3
<1>4. Mild(command[p], d)
  BY <1>3 DEF Mild, Choosing, Holding
<1> QED
  BY <1>1, <1>2, <1>3, <1>4, MildSteps

LEMMA GcNextIsMild ==
    ASSUME TypeOK, NEW p \in Procs, GcNext(p)
    PROVE  /\ \A q \in Procs : Mild(command[q], command'[q])
           /\ \A q \in Procs : q # p => command'[q] = command[q]
           /\ command[p].at # "idle"
           /\ \/ command'[p] = Idle
              \/ /\ command'[p].stayed = command[p].stayed
                 /\ command'[p].at \in {"pick", "archive"} => place[command'[p].work] = "gone"
                 /\ command'[p].at \in {"gc", "pick", "archive"}
<1> DEFINE c == command[p]
           d == command'[p]
<1>1. (\A q \in Procs : CommandOK(command[q])) /\ DOMAIN command = Procs
  BY DEF TypeOK
<1>2. \A q \in Procs : q # p => command'[q] = command[q]
  BY <1>1 DEF GcNext, Goto
<1>3. c.at = "gc" /\ GcOK(c)
  BY <1>1, CommandAt DEF GcNext
<1>4. PICK w \in c.todo :
        \/ d = Idle
        \/ d = [c EXCEPT !.todo = @ \ {w}]
        \/ /\ place[w] = "gone"
           /\ d = [[c EXCEPT !.todo = @ \ {w}] EXCEPT !.work = w,
                     !.at = IF [c EXCEPT !.todo = @ \ {w}].dir = None THEN "pick" ELSE "archive"]
  BY <1>1 DEF GcNext, Goto, Removable
<1>5. CASE d = Idle
  BY <1>1, <1>2, <1>3, <1>5, MildSteps
<1>6. CASE d = [c EXCEPT !.todo = @ \ {w}]
  <2>1. /\ d.at = "gc" /\ d.stayed = c.stayed /\ d.dir = c.dir /\ d.todo \subseteq c.todo
        /\ c.gc = TRUE
    <3>1. c \in GcCommand
      BY <1>3 DEF GcOK
    <3> HIDE DEF c, d
    <3> QED
      BY <1>3, <1>6, <3>1 DEF GcCommand
  <2>2. Mild(c, d)
    BY <1>3, <2>1 DEF Mild, Choosing, Holding
  <2> QED
    BY <1>1, <1>2, <1>3, <2>1, <2>2, MildSteps
<1>7. CASE d # Idle /\ d # [c EXCEPT !.todo = @ \ {w}]
  <2>1. [c EXCEPT !.todo = @ \ {w}].dir = c.dir
    BY <1>3 DEF GcOK, GcCommand
  <2>2. PICK s \in {"pick", "archive"} :
          /\ s = "pick" <=> c.dir = None
          /\ d = [[c EXCEPT !.todo = @ \ {w}] EXCEPT !.work = w, !.at = s]
    BY <1>4, <1>7, <2>1
  <2>3. /\ d.at = s /\ d.stayed = c.stayed /\ d.dir = c.dir /\ d.todo \subseteq c.todo
        /\ c.gc = TRUE /\ d.work = w /\ d.gc = TRUE
    <3>1. c \in GcCommand
      BY <1>3 DEF GcOK
    <3> HIDE DEF c, d
    <3> QED
      BY <2>2, <3>1 DEF GcCommand
  <2>4. Mild(c, d)
    BY <1>3, <2>2, <2>3 DEF Mild, Choosing, Holding
  <2>5. place[w] = "gone"
    BY <1>4, <1>7
  <2> QED
    BY <1>1, <1>2, <1>3, <2>3, <2>4, <2>5, MildSteps
<1> QED
  BY <1>4, <1>5, <1>6, <1>7

LEMMA DirStepWork ==
    ASSUME TypeOK, NEW p \in Procs, Pick(p) \/ Make(p) \/ Archive(p) \/ Prune(p)
    PROVE  /\ \A q \in Procs : SameWork(command[q], command'[q])
           /\ \A q \in Procs : q # p => command'[q] = command[q]
           /\ Pick(p) => command'[p].at = "make"
           /\ Make(p) => command'[p].at = "archive" /\ command'[p].work = command[p].work
                         /\ (command'[p].gc <=> command[p].gc)
                         /\ (command[p].gc => command'[p].todo = command[p].todo)
           /\ Prune(p) => command'[p] = Idle
<1> DEFINE c == command[p]
           d == command'[p]
<1>1. (\A q \in Procs : CommandOK(command[q])) /\ DOMAIN command = Procs
  BY DEF TypeOK
<1>2. \A q \in Procs : q # p => command'[q] = command[q]
  BY <1>1 DEF Pick, Make, Archive, Prune, Goto, Stop
<1>3. c.at \in {"pick", "make", "archive", "prune"} /\ (BackupOK(c) \/ GcOK(c))
  BY <1>1, CommandAt DEF Pick, Make, Archive, Prune
<1>4. CASE d = Idle
  <2>1. Archive(p) \/ Prune(p)
    <3>1. ASSUME Pick(p) \/ Make(p) PROVE d.at \in {"make", "archive"}
      <4>1. \E x : \/ d = [c EXCEPT !.at = "make", !.dir = x]
                   \/ d = [c EXCEPT !.at = "archive", !.dir = x]
        BY <1>1, <3>1 DEF Pick, Make, Goto
      <4>2. PICK x : \/ d = [c EXCEPT !.at = "make", !.dir = x]
                     \/ d = [c EXCEPT !.at = "archive", !.dir = x]
        BY <4>1
      <4>3. c \in BackupCommand \/ c \in GcCommand
        BY <1>3 DEF BackupOK, GcOK
      <4> HIDE DEF c, d
      <4> QED
        BY <4>2, <4>3 DEF BackupCommand, GcCommand
    <3> QED
      BY <1>4, <3>1 DEF Idle
  <2>2. ~Pick(p) /\ ~Make(p)
    BY <1>3, <2>1 DEF Pick, Make, Archive, Prune
  <2> QED
    BY <1>1, <1>2, <1>4, <2>2, MildSteps
<1>5. CASE d # Idle
  <2>1. \/ Pick(p) /\ \E x : d = [c EXCEPT !.at = "make", !.dir = x]
        \/ Make(p) /\ \E x : d = [c EXCEPT !.at = "archive", !.dir = x]
        \/ Archive(p) /\ d = [c EXCEPT !.at = "remove", !.late = FALSE]
        \/ Archive(p) /\ d = [c EXCEPT !.at = "prune"]
    BY <1>1, <1>5 DEF Pick, Make, Archive, Prune, Goto, Stop
  <2>2. /\ d.stayed = c.stayed /\ d.work = c.work /\ d.gc = c.gc
        /\ c.gc => d.todo = c.todo
        /\ Pick(p) => d.at = "make"
        /\ Make(p) => d.at = "archive"
    <3>1. (c \in BackupCommand /\ c.gc = FALSE) \/ c \in GcCommand
      BY <1>3 DEF BackupOK, GcOK, BackupCommand
    <3>2. ~(Pick(p) /\ Make(p)) /\ ~(Pick(p) /\ Archive(p)) /\ ~(Make(p) /\ Archive(p))
      BY DEF Pick, Make, Archive
    <3> HIDE DEF c, d
    <3>3. ASSUME NEW x, NEW s, d = [c EXCEPT !.at = s, !.dir = x]
          PROVE  /\ d.stayed = c.stayed /\ d.work = c.work /\ d.gc = c.gc /\ d.at = s
                 /\ c.gc => d.todo = c.todo
      BY <3>1, <3>3 DEF BackupCommand, GcCommand
    <3>4. CASE Archive(p)
      <4>1. d = [c EXCEPT !.at = "remove", !.late = FALSE] \/ d = [c EXCEPT !.at = "prune"]
        BY <2>1, <3>2, <3>4
      <4> QED
        BY <3>1, <3>2, <3>4, <4>1 DEF BackupCommand, GcCommand
    <3> QED
      BY <2>1, <3>2, <3>3, <3>4
  <2>3. SameWork(c, d)
    <3>1. d.at # "prune" \/ ~(d.at \in {"pick", "make", "archive", "remove"})
      OBVIOUS
    <3>2. d.at \in {"pick", "make", "archive", "remove"} => c.at \in {"pick", "make", "archive"}
      <4>1. CASE c.at = "prune"
        BY <2>1, <4>1 DEF Pick, Make, Archive
      <4> QED
        BY <1>3, <4>1
    <3> QED
      BY <1>3, <2>2, <3>2 DEF SameWork
  <2>4. ~Prune(p)
    BY <1>1, <1>5 DEF Prune, Stop, Goto
  <2> QED
    BY <1>1, <1>2, <2>2, <2>3, <2>4, MildSteps
<1> QED
  BY <1>4, <1>5

\* What the user and the agents do.
LEMMA UsersAreMild ==
    ASSUME TypeOK, NEW w \in Workspaces, WriteRoot(w) \/ MoveWorkspace(w)
    PROVE  \A q \in Procs : Mild(command[q], command'[q])
<1>1. (\A q \in Procs : CommandOK(command[q])) /\ DOMAIN command = Procs /\ CommandsOK
  BY DEF TypeOK, CommandsOK
<1>2. CASE WriteRoot(w)
  <2> SUFFICES ASSUME NEW q \in Procs PROVE Mild(command[q], command'[q])
    OBVIOUS
  <2>1. command' = Stale(w)
    BY <1>2 DEF WriteRoot
  <2>2. \/ command'[q] = command[q]
        \/ command[q].at # "idle" /\ command'[q] = [command[q] EXCEPT !.late = TRUE]
    BY <1>1, <2>1, StaleOK
  <2> QED
    BY <1>1, <2>2, MildSteps, LateIsMild DEF Idle
<1>3. CASE MoveWorkspace(w)
  <2> SUFFICES ASSUME NEW q \in Procs PROVE Mild(command[q], command'[q])
    OBVIOUS
  <2>1. \/ command'[q] = command[q]
        \/ command[q].at # "idle" /\ command'[q] = [command[q] EXCEPT !.stayed = @ \ {w}]
    BY <1>1, <1>3 DEF MoveWorkspace
  <2>2. command[q].at # "idle" => Mild(command[q], [command[q] EXCEPT !.stayed = @ \ {w}])
    <3>1. CommandOK(command[q]) /\ (command[q].at # "idle" => command[q] # Idle)
      BY <1>1 DEF Idle
    <3> QED
      BY <3>1, MovedIsMild
  <2> QED
    BY <1>1, <2>1, <2>2, MildSteps
<1> QED
  BY <1>2, <1>3

LEMMA StayedStep ==
    ASSUME TypeOK, Stayed, [KNext]_kVars
    PROVE  Stayed'
<1>1. (\A q \in Procs : CommandOK(command[q])) /\ DOMAIN command = Procs /\ CommandsOK
  BY DEF TypeOK, CommandsOK
<1>2. ASSUME UNCHANGED place, \A q \in Procs : SameWork(command[q], command'[q])
      PROVE  Stayed'
  BY <1>2 DEF Stayed, SameWork, There
<1>3. CASE UNCHANGED kVars \/ Tick
  <2>1. UNCHANGED <<place, command>>
    BY <1>3 DEF kVars, Tick
  <2> QED
    BY <2>1 DEF Stayed, There
<1>4. ASSUME NEW w \in Workspaces, WriteRoot(w) PROVE Stayed'
  <2>1. command' = Stale(w) /\ UNCHANGED place
    BY <1>4 DEF WriteRoot
  <2>2. ASSUME NEW q \in Procs PROVE SameWork(command[q], command'[q])
    <3>1. \/ command'[q] = command[q]
          \/ command[q].at # "idle" /\ command'[q] = [command[q] EXCEPT !.late = TRUE]
      BY <1>1, <2>1, StaleOK
    <3> QED
      BY <1>1, <3>1, MildSteps, LateIsMild DEF Idle
  <2> QED
    BY <1>2, <2>1, <2>2
<1>5. ASSUME NEW w \in Workspaces, MoveWorkspace(w) PROVE Stayed'
  <2>1. PICK s \in {"there", "gone", "unreadable"} :
           /\ place' = [place EXCEPT ![w] = s]
           /\ command' = [p \in Procs |->
               IF s # "there" /\ command[p].at # "idle"
               THEN [command[p] EXCEPT !.stayed = @ \ {w}] ELSE command[p]]
    BY <1>5 DEF MoveWorkspace
  <2>2. CASE s = "there"
    <3>1. (\A q \in Procs : command'[q] = command[q]) /\ There \subseteq There'
      BY <1>1, <2>1, <2>2 DEF There, TypeOK
    <3> QED
      BY <3>1 DEF Stayed
  <2>3. CASE s # "there"
    <3>1. There \ {w} \subseteq There'
      BY <2>1 DEF There, TypeOK
    <3>2. ASSUME NEW q \in Procs, command'[q].at # "idle"
          PROVE  /\ command[q].at = command'[q].at /\ command'[q].stayed = command[q].stayed \ {w}
                 /\ command'[q].at \in {"pick", "make", "archive", "remove"} =>
                        command'[q].work = command[q].work /\ command'[q].gc = command[q].gc
      <4>1. command[q].at # "idle" /\ command'[q] = [command[q] EXCEPT !.stayed = @ \ {w}]
        BY <2>1, <2>3, <3>2
      <4> QED
        BY <1>1, <4>1, MovedIsMild DEF Idle
    <3> QED
      BY <3>1, <3>2 DEF Stayed
  <2> QED
    BY <2>2, <2>3
<1>6. ASSUME NEW p \in Procs,
             \/ KillCommand(p) \/ SeedMemory(p) \/ SeedSidecar(p) \/ SeedNote(p)
             \/ GcRemove(p) \/ GcForget(p) \/ GcEnd(p)
      PROVE  Stayed'
  <2>1. UNCHANGED place
    BY <1>6 DEF KillCommand, SeedMemory, SeedSidecar, SeedNote, GcRemove, GcForget, GcEnd
  <2> QED
    BY <1>2, <1>6, <2>1, CommandIsMild
<1>7. ASSUME NEW p \in Procs, Pick(p) \/ Make(p) \/ Archive(p) \/ Prune(p) PROVE Stayed'
  <2>1. UNCHANGED place
    BY <1>7 DEF Pick, Make, Archive, Prune
  <2> QED
    BY <1>2, <1>7, <2>1, DirStepWork
<1>8. ASSUME NEW p \in Procs, BeginGc(p) \/ \E w \in Workspaces : SeedLook(p, w) \/ BeginBackup(p, w)
      PROVE  Stayed'
  <2>1. UNCHANGED place
    BY <1>8 DEF BeginGc, SeedLook, BeginBackup
  <2> QED
    BY <1>8, <2>1, BeginIsMild DEF Stayed, There
<1>9. ASSUME NEW p \in Procs, GcNext(p) PROVE Stayed'
  <2>1. UNCHANGED place
    BY <1>9 DEF GcNext
  <2>2. /\ \A q \in Procs : q # p => command'[q] = command[q]
        /\ command[p].at # "idle"
        /\ \/ command'[p] = Idle
           \/ /\ command'[p].stayed = command[p].stayed
              /\ command'[p].at \in {"pick", "archive"} => place[command'[p].work] = "gone"
              /\ command'[p].at \in {"gc", "pick", "archive"}
    BY <1>9, GcNextIsMild
  <2>3. command[p].stayed \subseteq There /\ There' = There
    BY <2>1, <2>2 DEF Stayed, There
  <2>4. command'[p].at # "idle" =>
          /\ command'[p].stayed \subseteq There
          /\ command'[p].at \in {"pick", "make", "archive", "remove"} =>
               command'[p].work \notin command'[p].stayed
    BY <2>2, <2>3 DEF There, Idle
  <2> QED
    BY <2>2, <2>3, <2>4 DEF Stayed
<1> QED
  BY <1>3, <1>4, <1>5, <1>6, <1>7, <1>8, <1>9 DEF KNext

\* Steps under which the archives stay as they are.
LEMMA MildKeeps ==
    ASSUME TypeOK, TypeOK', Directories, UNCHANGED <<archives, made>>, now <= now',
           \A q \in Procs : Mild(command[q], command'[q])
    PROVE  /\ Directories'
           /\ Kept /\ dropped' = dropped => Kept'
           /\ Filing /\ (\A q \in Procs :
                 /\ command'[q].at = "remove" /\ ~command'[q].late
                 /\ roots'[command'[q].work] # None /\ roots'[command'[q].work].memory \in Written
                 => /\ roots[command'[q].work] # None
                    /\ roots[command'[q].work].memory = roots'[command'[q].work].memory)
              => Filing'
<1>1. KeepsDirs
  BY DEF KeepsDirs, Mild, TypeOK
<1>2. ASSUME NEW d, NEW w, Untouched(d, w) PROVE Untouched(d, w)'
  BY <1>2 DEF Untouched, Mild
<1>3. ASSUME Kept, dropped' = dropped PROVE Kept'
  BY <1>2, <1>3 DEF Kept, Old
<1>4. ASSUME Filing, \A q \in Procs :
                 /\ command'[q].at = "remove" /\ ~command'[q].late
                 /\ roots'[command'[q].work] # None /\ roots'[command'[q].work].memory \in Written
                 => /\ roots[command'[q].work] # None
                    /\ roots[command'[q].work].memory = roots'[command'[q].work].memory
      PROVE  Filing'
  BY <1>4 DEF Filing, Mild, Old
<1> QED
  BY <1>1, <1>3, <1>4, DirectoriesKept

\* A root is removed while its words are in an archive.
LEMMA RemoveKept ==
    ASSUME TypeOK, TypeOK', Directories, Stayed, Filing, Kept, NEW p \in Procs, GcRemove(p)
    PROVE  Kept' /\ Filing'
<1> DEFINE c == command[p]
<1> PICK w : w = c.work
  OBVIOUS
<1> PICK e : e = [root |-> w, held |-> IF c.late THEN {} ELSE {roots[w].memory} \cap Written,
                  born |-> c.dir.born, stayed |-> w \in c.stayed]
  OBVIOUS
<1>1. c.at = "remove" /\ GcOK(c) /\ w \in Workspaces \ c.todo /\ c.gc = TRUE /\ Holding(c)
  BY CommandAt DEF GcRemove, TypeOK, GcOK, GcCommand, Holding
<1>2. UNCHANGED <<archives, made, now>>
  BY DEF GcRemove
<1>3. \A q \in Procs : Mild(command[q], command'[q])
  BY CommandIsMild
<1>4. now <= now' /\ now \in Nat
  BY <1>2 DEF TypeOK
<1>5. /\ Kept /\ dropped' = dropped => Kept'
      /\ (\A q \in Procs :
                 /\ command'[q].at = "remove" /\ ~command'[q].late
                 /\ roots'[command'[q].work] # None /\ roots'[command'[q].work].memory \in Written
                 => /\ roots[command'[q].work] # None
                    /\ roots[command'[q].work].memory = roots'[command'[q].work].memory)
              => Filing'
  BY <1>2, <1>3, <1>4, MildKeeps
<1>6. CASE roots[w] = None
  <2>1. UNCHANGED <<roots, dropped>>
    BY <1>6 DEF GcRemove
  <2> QED
    BY <1>5, <2>1
<1>7. CASE roots[w] # None
  <2>1. roots' = [roots EXCEPT ![w] = None] /\ dropped' = dropped \cup {e}
    BY <1>7 DEF GcRemove
  <2>2. command'[p].at = "forget" /\ command'[p].todo = c.todo
    <3>1. command'[p] = [c EXCEPT !.at = "forget"]
      BY <1>7 DEF GcRemove, Goto, TypeOK
    <3>2. c \in GcCommand
      BY <1>1 DEF GcOK
    <3> HIDE DEF c
    <3> QED
      BY <3>1, <3>2 DEF GcCommand
  <2>3. Filing'
    <3>1. \A v : v # w => roots'[v] = roots[v]
      BY <2>1 DEF TypeOK
    <3>2. roots'[w] = None
      BY <1>1, <2>1 DEF TypeOK
    <3> QED
      BY <1>5, <3>1, <3>2
  <2>4. ~e.stayed
    BY <1>1 DEF Stayed
  <2>5. \/ e.held = {}
        \/ Old(e.born)
        \/ \E d \in archives :
             /\ e.root \in DOMAIN d.tars /\ e.held \subseteq d.tars[e.root]
             /\ Cardinality(LaterThan(archives, d)) + e.born < made
             /\ Untouched(d, e.root)'
    <3>1. CASE e.held = {} \/ Old(c.dir.born)
      BY <3>1
    <3>2. CASE e.held # {} /\ ~Old(c.dir.born)
      <4>1. ~c.late /\ roots[w].memory \in Written /\ e.held = {roots[w].memory}
        BY <3>2
      <4>2. PICK d \in archives : SameSlot(d, c.dir) /\ Filed(d, w, roots[w].memory)
        BY <1>1, <1>7, <3>2, <4>1 DEF Filing
      <4>3. Cardinality(LaterThan(archives, d)) + c.dir.born < made
        <5>1. LaterThan(archives, d) = LaterThan(archives, c.dir)
          BY <4>2 DEF LaterThan, Later, SameSlot
        <5> QED
          BY <1>1, <5>1 DEF Directories, Ranked
      <4>4. ASSUME NEW q \in Procs, Holding(command'[q]), SameSlot(command'[q].dir, d)
            PROVE  q = p
        <5>1. Holding(command[q]) /\ SameSlot(command[p].dir, command[q].dir)
          BY <1>3, <4>2, <4>4 DEF Mild, SameSlot
        <5> QED
          BY <1>1, <3>2, <5>1 DEF Directories, SharedByOld
      <4>5. Untouched(d, w)'
        BY <1>1, <2>2, <4>4 DEF Untouched
      <4> QED
        BY <4>1, <4>2, <4>3, <4>5 DEF Filed
    <3> QED
      BY <3>1, <3>2
  <2>6. ASSUME NEW d, NEW v, Untouched(d, v) PROVE Untouched(d, v)'
    BY <1>3, <2>6 DEF Untouched, Mild
  <2> HIDE DEF c
  <2>7. Kept'
    <3> SUFFICES ASSUME NEW x \in dropped'
                 PROVE  /\ ~x.stayed
                        /\ \/ x.held = {}
                           \/ made > Keep + x.born
                           \/ \E d \in archives :
                                /\ x.root \in DOMAIN d.tars /\ x.held \subseteq d.tars[x.root]
                                /\ Cardinality(LaterThan(archives, d)) + x.born < made
                                /\ Untouched(d, x.root)'
      BY <1>2 DEF Kept, Old
    <3>1. CASE x = e
      BY <2>4, <2>5, <3>1 DEF Old
    <3>2. CASE x \in dropped
      BY <2>6, <3>2 DEF Kept, Old
    <3> QED
      BY <2>1, <3>1, <3>2
  <2> QED
    BY <2>3, <2>7
<1> QED
  BY <1>6, <1>7

LEMMA PickKept ==
    ASSUME TypeOK, Filing, Kept, NEW p \in Procs, Pick(p)
    PROVE  Kept' /\ Filing'
<1>1. UNCHANGED <<archives, made, roots, dropped>>
  BY DEF Pick
<1>2. command'[p].at = "make" /\ \A q \in Procs : q # p => command'[q] = command[q]
  BY DirStepWork
<1>3. ASSUME NEW d, NEW w, Untouched(d, w) PROVE Untouched(d, w)'
  BY <1>2, <1>3 DEF Untouched, Holding
<1> QED
  BY <1>1, <1>2, <1>3 DEF Kept, Filing, Old

LEMMA MakeKept ==
    ASSUME TypeOK, Directories, Filing, Kept, NEW p \in Procs, Make(p)
    PROVE  Kept' /\ Filing'
<1> DEFINE d0 == command[p].dir
           k == Created(archives, d0.at, d0.n)
           made1 == [d0 EXCEPT !.n = k]
           new == [at |-> d0.at, n |-> k, born |-> d0.born, tars |-> <<>>]
<1>1. command[p].at = "make" /\ d0 \in Slots
  BY DirOfCommand DEF Make, Choosing
<1>2. k \in Nat /\ \A e \in archives : ~(e.at = d0.at /\ e.n = k)
  BY <1>1, CreatedIs, ArchivesDated DEF TypeOK, Slots
<1>3. made1.at = d0.at /\ made1.n = k
  <2> HIDE DEF k, d0
  <2> QED BY <1>1 DEF Slots
<1>4. archives' = archives \cup {new} /\ made' = made + 1 /\ UNCHANGED <<roots, dropped>>
  BY <1>1 DEF Make, Slots
<1>5. command'[p].at = "archive" /\ \A q \in Procs : q # p => command'[q] = command[q]
  BY DirStepWork
<1>6. command'[p].dir = made1
  <2>1. command'[p] = [command[p] EXCEPT !.at = "archive", !.dir = made1]
    BY DEF Make, Goto, TypeOK
  <2>2. command[p] \in BackupCommand \/ command[p] \in GcCommand
    BY <1>1, CommandAt DEF TypeOK, BackupOK, GcOK
  <2> HIDE DEF made1
  <2> QED
    BY <2>1, <2>2 DEF BackupCommand, GcCommand
<1>7. made \in Nat /\ Keep \in Nat /\ IsFiniteSet(archives)
      /\ \A e \in dropped : e.born \in Nat
  BY KeepIsPositive DEF TypeOK
<1> HIDE DEF new, made1, k, d0
<1>8. ASSUME NEW d \in archives, NEW w, Untouched(d, w) PROVE Untouched(d, w)'
  <2>1. ~SameSlot(made1, d)
    BY <1>2, <1>3 DEF SameSlot
  <2> QED
    BY <1>5, <1>6, <1>8, <2>1 DEF Untouched
<1>9. \A x : /\ Cardinality(LaterThan(archives', x)) <= Cardinality(LaterThan(archives, x)) + 1
             /\ Cardinality(LaterThan(archives', x)) \in Nat /\ Cardinality(LaterThan(archives, x)) \in Nat
  <2> TAKE x
  <2>1. LaterThan(archives', x) \in SUBSET (LaterThan(archives, x) \cup {new})
    BY <1>4 DEF LaterThan
  <2> QED
    BY <2>1, CountsAreNumbers, OneMore, FS_CardinalityType
<1>10. Kept'
  <2> SUFFICES ASSUME NEW e \in dropped
               PROVE  /\ ~e.stayed
                      /\ \/ e.held = {}
                         \/ Old(e.born)'
                         \/ \E d \in archives' :
                              /\ e.root \in DOMAIN d.tars /\ e.held \subseteq d.tars[e.root]
                              /\ Cardinality(LaterThan(archives', d)) + e.born < made'
                              /\ Untouched(d, e.root)'
    BY <1>4 DEF Kept, Old
  <2>1. Old(e.born) => Old(e.born)'
    BY <1>4, <1>7 DEF Old
  <2>2. ASSUME NEW d \in archives, e.root \in DOMAIN d.tars, e.held \subseteq d.tars[e.root],
               Cardinality(LaterThan(archives, d)) + e.born < made, Untouched(d, e.root)
        PROVE  /\ d \in archives' /\ Cardinality(LaterThan(archives', d)) + e.born < made'
               /\ Untouched(d, e.root)'
    <3> DEFINE l0 == Cardinality(LaterThan(archives, d))
               l1 == Cardinality(LaterThan(archives', d))
    <3>1. l1 <= l0 + 1 /\ l0 \in Nat /\ l1 \in Nat /\ l0 + e.born < made /\ e.born \in Nat
      BY <1>7, <1>9, <2>2
    <3> HIDE DEF l0, l1
    <3>2. l1 + e.born < made'
      BY <1>4, <1>7, <3>1
    <3> QED
      BY <1>4, <1>8, <2>2, <3>2 DEF l1
  <2> QED
    BY <2>1, <2>2 DEF Kept
<1>11. Filing'
  <2> SUFFICES ASSUME NEW q \in Procs, command'[q].at = "remove", ~command'[q].late,
                      roots[command'[q].work] # None, roots[command'[q].work].memory \in Written
               PROVE  \/ made' > Keep + command'[q].dir.born
                      \/ \E d \in archives' : /\ SameSlot(d, command'[q].dir)
                                  /\ Filed(d, command'[q].work, roots[command'[q].work].memory)
    BY <1>4 DEF Filing, Old
  <2>1. q # p /\ command'[q] = command[q]
    BY <1>5
  <2>2. command[q].dir.born \in Nat
    BY <2>1, CommandAt DEF TypeOK, GcOK, GcCommand, Slots
  <2> QED
    BY <1>4, <1>7, <2>1, <2>2 DEF Filing, Old
<1> QED
  BY <1>10, <1>11

LEMMA PruneKept ==
    ASSUME TypeOK, TypeOK', Directories, Filing, Kept, NEW p \in Procs, Prune(p)
    PROVE  Kept' /\ Filing'
<1>1. UNCHANGED <<made, roots, dropped>> /\ archives' \subseteq archives
  BY DEF Prune
<1>2. command'[p] = Idle /\ \A q \in Procs : q # p => command'[q] = command[q]
  BY DirStepWork
<1>3. \A d \in archives \ archives' : Cardinality(LaterThan(archives, d)) >= Keep
  BY PruneDirectories
<1>4. made \in Nat /\ Keep \in Nat /\ \A e \in dropped : e.born \in Nat
  BY KeepIsPositive DEF TypeOK
<1>5. ASSUME NEW d, NEW w, Untouched(d, w) PROVE Untouched(d, w)'
  BY <1>2, <1>5 DEF Untouched, Holding, Idle
<1>6. \A x : /\ Cardinality(LaterThan(archives', x)) <= Cardinality(LaterThan(archives, x))
             /\ Cardinality(LaterThan(archives', x)) \in Nat /\ Cardinality(LaterThan(archives, x)) \in Nat
  <2> TAKE x
  <2>1. LaterThan(archives', x) \in SUBSET LaterThan(archives, x)
    BY <1>1 DEF LaterThan
  <2> QED
    BY <2>1, CountsAreNumbers, FS_Subset, FS_CardinalityType
<1>7. ASSUME NEW d \in archives, NEW born \in Nat,
             Cardinality(LaterThan(archives, d)) + born < made
      PROVE  \/ Old(born)
             \/ d \in archives' /\ Cardinality(LaterThan(archives', d)) + born < made
  <2> DEFINE l0 == Cardinality(LaterThan(archives, d))
             l1 == Cardinality(LaterThan(archives', d))
  <2>1. l1 <= l0 /\ l0 \in Nat /\ l1 \in Nat /\ l0 + born < made
    BY <1>6, <1>7
  <2>2. d \notin archives' => l0 >= Keep
    BY <1>3
  <2> HIDE DEF l0, l1
  <2>3. l1 + born < made /\ (l0 >= Keep => made > Keep + born)
    BY <1>4, <2>1
  <2> QED
    BY <2>2, <2>3 DEF l1, Old
<1>8. Kept'
  <2> SUFFICES ASSUME NEW e \in dropped
               PROVE  /\ ~e.stayed
                      /\ \/ e.held = {}
                         \/ Old(e.born)
                         \/ \E d \in archives' :
                              /\ e.root \in DOMAIN d.tars /\ e.held \subseteq d.tars[e.root]
                              /\ Cardinality(LaterThan(archives', d)) + e.born < made
                              /\ Untouched(d, e.root)'
    BY <1>1 DEF Kept, Old
  <2> QED
    BY <1>4, <1>5, <1>7 DEF Kept
<1>9. Filing'
  <2> SUFFICES ASSUME NEW q \in Procs, command'[q].at = "remove", ~command'[q].late,
                      roots[command'[q].work] # None, roots[command'[q].work].memory \in Written
               PROVE  \/ Old(command'[q].dir.born)
                      \/ \E d \in archives' : /\ SameSlot(d, command'[q].dir)
                                  /\ Filed(d, command'[q].work, roots[command'[q].work].memory)
    BY <1>1 DEF Filing, Old
  <2> DEFINE x == command[q].dir
  <2>1. command'[q] = command[q] /\ command[q].at = "remove"
    BY <1>2 DEF Idle
  <2>2. x \in Slots /\ Holding(command[q])
    BY <2>1, CommandAt DEF TypeOK, GcOK, GcCommand, Holding
  <2>3. CASE Old(x.born)
    BY <2>1, <2>3
  <2>4. CASE ~Old(x.born)
    <3>1. PICK d \in archives : SameSlot(d, x) /\ Filed(d, command[q].work, roots[command[q].work].memory)
      BY <2>1, <2>4 DEF Filing
    <3>2. LaterThan(archives, d) = LaterThan(archives, x)
      BY <3>1 DEF LaterThan, Later, SameSlot
    <3>3. Cardinality(LaterThan(archives, d)) + x.born < made
      BY <2>2, <3>2 DEF Directories, Ranked
    <3>4. d \in archives'
      BY <1>7, <2>2, <2>4, <3>3 DEF Slots
    <3> QED
      BY <2>1, <3>1, <3>4
  <2> QED
    BY <2>3, <2>4
<1> QED
  BY <1>8, <1>9

LEMMA ArchiveKept ==
    ASSUME TypeOK, TypeOK', Directories, Filing, Kept, NEW p \in Procs, Archive(p)
    PROVE  Kept' /\ Filing'
<1> DEFINE c == command[p]
           x0 == Archived(roots[c.work])
           f(d) == IF d \in Dir(p) THEN [d EXCEPT !.tars = WithTar(@, c.work, x0)] ELSE d
<1>1. UNCHANGED <<made, roots, dropped>>
  BY DEF Archive
<1>2. \A q \in Procs : q # p => command'[q] = command[q]
  BY DirStepWork
<1>3. c.at = "archive" /\ (BackupOK(c) \/ GcOK(c)) /\ CommandOK(c)
  BY CommandAt DEF Archive, TypeOK
<1>4. \/ archives' = archives
      \/ ~c.to /\ roots[c.work] # None /\ archives' = {f(d) : d \in archives}
  BY DEF Archive
<1>5. \A d \in archives :
        /\ f(d).at = d.at /\ f(d).n = d.n
        /\ SameSlot(d, c.dir) => f(d).tars = WithTar(d.tars, c.work, x0)
        /\ ~SameSlot(d, c.dir) => f(d).tars = d.tars
  BY DEF TypeOK, Directory, Dir, SameSlot
<1>6. /\ command'[p].at \in {"idle", "remove", "prune"}
      /\ command'[p].at # "idle" =>
           /\ command'[p].dir = c.dir /\ command'[p].gc = c.gc /\ command'[p].work = c.work
           /\ c.gc => command'[p].todo = c.todo
      /\ command'[p].at = "remove" => c.gc = TRUE
  <2>1. \/ command'[p] = Idle
        \/ c.gc /\ command'[p] = [c EXCEPT !.at = "remove", !.late = FALSE]
        \/ command'[p] = [c EXCEPT !.at = "prune"]
    BY DEF Archive, Goto, Stop, TypeOK
  <2>2. (c \in BackupCommand /\ c.gc = FALSE) \/ (c \in GcCommand /\ c.gc = TRUE)
    <3>1. c \in BackupCommand => c.gc = FALSE
      BY DEF BackupCommand
    <3>2. c \in GcCommand => c.gc = TRUE
      BY DEF GcCommand
    <3> QED
      BY <1>3, <3>1, <3>2 DEF BackupOK, GcOK
  <2>3. CASE command'[p] = Idle
    BY <2>3 DEF Idle
  <2> HIDE DEF c
  <2>4. CASE c.gc /\ command'[p] = [c EXCEPT !.at = "remove", !.late = FALSE]
    <3>1. c \in GcCommand /\ c.gc = TRUE
      BY <2>2, <2>4
    <3>2. /\ "at" \in DOMAIN c /\ "dir" \in DOMAIN c /\ "gc" \in DOMAIN c
          /\ "work" \in DOMAIN c /\ "todo" \in DOMAIN c
      BY <3>1 DEF GcCommand
    <3>3. command'[p].at = "remove" /\ command'[p].dir = c.dir /\ command'[p].gc = c.gc
          /\ command'[p].work = c.work /\ command'[p].todo = c.todo
      BY <2>4, <3>2
    <3> QED
      BY <3>1, <3>2, <3>3
  <2>5. CASE command'[p] = [c EXCEPT !.at = "prune"]
    BY <2>2, <2>5 DEF BackupCommand, GcCommand
  <2> QED
    BY <2>1, <2>3, <2>4, <2>5
<1>7. ~c.to => Holding(c)
  BY <1>3, NoneApart DEF Holding, BackupOK, GcOK
<1>8. \A x : Cardinality(LaterThan(archives', x)) <= Cardinality(LaterThan(archives, x))
  BY ArchiveDirectories
<1>9. /\ \A x : Cardinality(LaterThan(archives, x)) \in Nat
      /\ made \in Nat /\ \A e \in dropped : e.born \in Nat
      /\ \A x : Cardinality(LaterThan(archives', x)) \in Nat
  <2>1. \A x : LaterThan(archives', x) \in SUBSET archives'
    BY DEF LaterThan
  <2>2. IsFiniteSet(archives')
    BY DEF TypeOK
  <2> QED
    BY <2>1, <2>2, CountsAreNumbers, FS_Subset, FS_CardinalityType DEF TypeOK
<1>10. ASSUME NEW d \in archives, NEW w, Untouched(d, w)
       PROVE  \E d1 \in archives' :
                /\ SameSlot(d1, d) /\ Untouched(d1, w)'
                /\ w \in DOMAIN d.tars => w \in DOMAIN d1.tars /\ d1.tars[w] = d.tars[w]
  <2>1. ASSUME NEW d1, SameSlot(d1, d) PROVE Untouched(d1, w)'
    <3> SUFFICES ASSUME NEW q \in Procs, Holding(command'[q]), SameSlot(command'[q].dir, d1)
                 PROVE  /\ command'[q].at = "archive" => command'[q].work # w
                        /\ command'[q].gc => w \notin command'[q].todo
      BY DEF Untouched
    <3>1. CASE q # p
      BY <1>2, <1>10, <2>1, <3>1 DEF Untouched, SameSlot
    <3>2. CASE q = p
      <4>1. command'[p].at \in {"remove", "prune"} /\ command'[p].dir = c.dir
        BY <1>6, <3>2 DEF Holding
      <4>2. Holding(c)
        BY <1>3, <3>2, <4>1 DEF Holding
      <4>3. c.gc => w \notin c.todo
        BY <1>10, <2>1, <3>2, <4>1, <4>2 DEF Untouched, SameSlot
      <4> QED
        BY <1>6, <3>2, <4>1, <4>3
    <3> QED
      BY <3>1, <3>2
  <2>2. CASE archives' = archives
    BY <2>1, <2>2 DEF SameSlot
  <2>3. CASE ~c.to /\ roots[c.work] # None /\ archives' = {f(d1) : d1 \in archives}
    <3>1. f(d) \in archives' /\ SameSlot(f(d), d)
      BY <1>5, <2>3 DEF SameSlot
    <3>2. CASE SameSlot(d, c.dir)
      <4>1. c.work # w
        BY <1>3, <1>7, <1>10, <2>3, <3>2 DEF Untouched, SameSlot
      <4>2. f(d).tars = WithTar(d.tars, c.work, x0)
        BY <1>5, <3>2
      <4> HIDE DEF f, x0
      <4> QED
        BY <2>1, <3>1, <4>1, <4>2 DEF WithTar
    <3>3. CASE ~SameSlot(d, c.dir)
      <4>1. f(d).tars = d.tars
        BY <1>5, <3>3
      <4> HIDE DEF f
      <4> QED
        BY <2>1, <3>1, <4>1
    <3> QED
      BY <3>2, <3>3
  <2> QED
    BY <1>4, <2>2, <2>3
<1>11. Kept'
  <2> SUFFICES ASSUME NEW e \in dropped
               PROVE  /\ ~e.stayed
                      /\ \/ e.held = {}
                         \/ Old(e.born)
                         \/ \E d \in archives' :
                              /\ e.root \in DOMAIN d.tars /\ e.held \subseteq d.tars[e.root]
                              /\ Cardinality(LaterThan(archives', d)) + e.born < made
                              /\ Untouched(d, e.root)'
    BY <1>1 DEF Kept, Old
  <2>1. ASSUME NEW d \in archives, e.root \in DOMAIN d.tars, e.held \subseteq d.tars[e.root],
               Cardinality(LaterThan(archives, d)) + e.born < made, Untouched(d, e.root)
        PROVE  \E d1 \in archives' :
                              /\ e.root \in DOMAIN d1.tars /\ e.held \subseteq d1.tars[e.root]
                              /\ Cardinality(LaterThan(archives', d1)) + e.born < made
                              /\ Untouched(d1, e.root)'
    <3>1. PICK d1 \in archives' :
            /\ SameSlot(d1, d) /\ Untouched(d1, e.root)'
            /\ e.root \in DOMAIN d1.tars /\ d1.tars[e.root] = d.tars[e.root]
      BY <1>10, <2>1
    <3>2. LaterThan(archives', d1) = LaterThan(archives', d)
      BY <3>1 DEF LaterThan, Later, SameSlot
    <3> DEFINE l0 == Cardinality(LaterThan(archives, d))
               l1 == Cardinality(LaterThan(archives', d))
    <3>3. l1 <= l0 /\ l0 \in Nat /\ l1 \in Nat /\ l0 + e.born < made /\ made \in Nat /\ e.born \in Nat
      BY <1>8, <1>9, <2>1
    <3> HIDE DEF l0, l1
    <3>4. l1 + e.born < made
      BY <3>3
    <3>5. Cardinality(LaterThan(archives', d1)) + e.born < made
      BY <3>2, <3>4 DEF l1
    <3> QED
      BY <2>1, <3>1, <3>5
  <2> QED
    BY <2>1 DEF Kept
<1>12. Filing'
  <2> SUFFICES ASSUME NEW q \in Procs, command'[q].at = "remove", ~command'[q].late,
                      roots[command'[q].work] # None, roots[command'[q].work].memory \in Written,
                      ~Old(command'[q].dir.born)
               PROVE  \E d \in archives' : /\ SameSlot(d, command'[q].dir)
                                  /\ Filed(d, command'[q].work, roots[command'[q].work].memory)
    BY <1>1 DEF Filing, Old
  <2>1. CASE q = p
    <3>1. c.gc = TRUE /\ command'[p].dir = c.dir /\ command'[p].work = c.work
      BY <1>6, <2>1
    <3>2. GcOK(c) /\ c.to = FALSE
      BY <1>3, <3>1 DEF BackupOK, BackupCommand, GcOK, GcCommand
    <3>3. Dir(p) # {} /\ archives' = {f(d) : d \in archives}
      BY <2>1, <3>2 DEF Archive, Goto, Stop, Idle, TypeOK
    <3>4. PICK d \in archives : SameSlot(d, c.dir)
      BY <3>3 DEF Dir, SameSlot
    <3>5. roots[c.work].memory \in x0
      BY <2>1, <3>1, NoneApart DEF Archived
    <3>6. f(d).tars = WithTar(d.tars, c.work, x0) /\ SameSlot(f(d), c.dir) /\ f(d) \in archives'
      BY <1>5, <3>3, <3>4 DEF SameSlot
    <3>7. Filed(f(d), c.work, roots[c.work].memory)
      <4> HIDE DEF f, x0
      <4> QED BY <3>5, <3>6 DEF Filed, WithTar
    <3> QED
      BY <2>1, <3>1, <3>6, <3>7
  <2>2. CASE q # p
    <3> DEFINE y == command[q].dir
               m == roots[command[q].work].memory
    <3>1. command'[q] = command[q]
      BY <1>2, <2>2
    <3>2. Holding(command[q])
      BY <3>1, CommandAt DEF TypeOK, GcOK, Holding
    <3>3. PICK d \in archives : SameSlot(d, y) /\ Filed(d, command[q].work, m)
      BY <3>1 DEF Filing
    <3>4. CASE archives' = archives
      BY <3>1, <3>3, <3>4
    <3>5. CASE ~c.to /\ archives' = {f(d1) : d1 \in archives}
      <4>1. ~SameSlot(d, c.dir)
        <5>1. Holding(c) /\ ~Old(y.born)
          BY <1>7, <3>1, <3>5
        <5>2. ~SameSlot(y, c.dir)
          BY <2>2, <3>2, <5>1 DEF Directories, SharedByOld
        <5> QED
          BY <3>3, <5>2 DEF SameSlot
      <4>2. f(d) \in archives' /\ SameSlot(f(d), y) /\ f(d).tars = d.tars
        BY <1>5, <3>3, <3>5, <4>1 DEF SameSlot
      <4> HIDE DEF f
      <4> QED
        BY <3>1, <3>3, <4>2 DEF Filed
    <3> QED
      BY <1>4, <3>4, <3>5
  <2> QED
    BY <2>1, <2>2
<1> QED
  BY <1>11, <1>12

-----------------------------------------------------------------------------
(* The theorems.                                                           *)

\* The inductive invariant: the order of the directories of commands that run,
\* and an archive for each root removed or about to be.
MemoryKept == Directories /\ Stayed /\ Filing /\ Kept

LEMMA KeptStep ==
    ASSUME TypeOK, TypeOK', MemoryKept, [KNext]_kVars
    PROVE  MemoryKept'
<1> USE DEF MemoryKept
<1>1. Stayed'
  BY StayedStep
<1>2. ASSUME UNCHANGED <<archives, made, dropped>>, now <= now',
             \A q \in Procs : Mild(command[q], command'[q]),
             \A q \in Procs :
                 /\ command'[q].at = "remove" /\ ~command'[q].late
                 /\ roots'[command'[q].work] # None /\ roots'[command'[q].work].memory \in Written
                 => /\ roots[command'[q].work] # None
                    /\ roots[command'[q].work].memory = roots'[command'[q].work].memory
      PROVE  Directories' /\ Filing' /\ Kept'
  BY <1>2, MildKeeps
<1>0. ASSUME NEW q \in Procs, command'[q].at = "remove" PROVE command'[q].work \in Workspaces
  BY <1>0, CommandAt DEF TypeOK, GcOK
<1>3. \A q \in Procs : CommandOK(command[q])
  BY DEF TypeOK
<1>4. UNCHANGED now => now <= now'
  BY DEF TypeOK
<1>5. CASE UNCHANGED kVars \/ Tick
  <2>1. UNCHANGED <<archives, made, dropped, roots, command>> /\ now <= now'
    BY <1>4, <1>5 DEF kVars, Tick, TypeOK
  <2>2. \A q \in Procs : Mild(command[q], command'[q])
    BY <1>3, <2>1, MildSteps
  <2> QED
    BY <1>1, <1>2, <2>1, <2>2
<1>6. ASSUME NEW w \in Workspaces, WriteRoot(w) PROVE MemoryKept'
  <2>1. UNCHANGED <<archives, made, dropped, now>> /\ command' = Stale(w)
    BY <1>6 DEF WriteRoot
  <2>2. PICK r : roots' = [roots EXCEPT ![w] = r]
    BY <1>6 DEF WriteRoot
  <2>3. ASSUME NEW q \in Procs, command'[q].at = "remove", ~command'[q].late
        PROVE  roots'[command'[q].work] = roots[command'[q].work]
    <3>1. \/ command'[q] = command[q] /\ ~("work" \in DOMAIN command[q] /\ command[q].work = w)
          \/ command[q].at # "idle" /\ command'[q] = [command[q] EXCEPT !.late = TRUE]
      BY <2>1, StaleOK, TypeOKParts
    <3>2. ~(command[q].at # "idle" /\ command'[q] = [command[q] EXCEPT !.late = TRUE])
      <4>1. command[q].at # "idle" => command[q] # Idle
        BY DEF Idle
      <4> DEFINE e == [command[q] EXCEPT !.late = TRUE]
      <4>2. command[q] # Idle => (e.at = "remove" => e.late = TRUE)
        BY <1>3, LateIsMild
      <4> HIDE DEF e
      <4>3. ~(command[q].at # "idle" /\ command'[q] = e)
        BY <2>3, <4>1, <4>2
      <4> QED
        BY <4>3 DEF e
    <3>3. "work" \in DOMAIN command'[q]
      BY <2>3, CommandAt DEF TypeOK, GcOK, GcCommand
    <3> QED
      BY <2>2, <3>1, <3>2, <3>3 DEF TypeOK
  <2>4. \A q \in Procs : Mild(command[q], command'[q])
    BY <1>6, UsersAreMild
  <2> QED
    BY <1>1, <1>2, <1>4, <2>1, <2>3, <2>4
<1>7. ASSUME NEW w \in Workspaces, MoveWorkspace(w) PROVE MemoryKept'
  <2>1. UNCHANGED <<archives, made, dropped, now, roots>>
    BY <1>7 DEF MoveWorkspace
  <2>2. \A q \in Procs : Mild(command[q], command'[q])
    BY <1>7, UsersAreMild
  <2> QED
    BY <1>1, <1>2, <1>4, <2>1, <2>2
<1>8. ASSUME NEW p \in Procs, KillCommand(p) \/ SeedNote(p) \/ GcForget(p) \/ GcEnd(p)
      PROVE  MemoryKept'
  <2>1. UNCHANGED <<archives, made, dropped, now, roots>>
    BY <1>8 DEF KillCommand, SeedNote, GcForget, GcEnd
  <2>2. \A q \in Procs : Mild(command[q], command'[q])
    BY <1>8, CommandIsMild
  <2> QED
    BY <1>1, <1>2, <1>4, <2>1, <2>2
<1>9. ASSUME NEW p \in Procs, SeedMemory(p) \/ SeedSidecar(p) PROVE MemoryKept'
  <2>1. UNCHANGED <<archives, made, dropped, now>>
    BY <1>9 DEF SeedMemory, SeedSidecar
  <2>2. \A q \in Procs : Mild(command[q], command'[q])
    BY <1>9, CommandIsMild
  <2>3. \E w \in Workspaces :
          \/ UNCHANGED roots
          \/ roots[w] # None /\ roots' = [roots EXCEPT ![w] = [roots[w] EXCEPT !.memory = Seed]]
          \/ roots[w] # None /\ roots' = [roots EXCEPT ![w] = [roots[w] EXCEPT !.sidecar = "own"]]
    <3>1. command[p].work \in Workspaces
      BY <1>3, <1>9, CommandAt DEF SeedMemory, SeedSidecar, SeedCommand, Seeding
    <3> QED
      BY <1>9, <3>1 DEF SeedMemory, SeedSidecar, Writable
  <2>4. PICK w \in Workspaces :
          \/ UNCHANGED roots
          \/ roots[w] # None /\ roots' = [roots EXCEPT ![w] = [roots[w] EXCEPT !.memory = Seed]]
          \/ roots[w] # None /\ roots' = [roots EXCEPT ![w] = [roots[w] EXCEPT !.sidecar = "own"]]
    BY <2>3
  <2>5. \A v \in Workspaces : v # w => roots'[v] = roots[v]
    BY <2>4 DEF TypeOK
  <2>6. \/ UNCHANGED roots
        \/ roots[w] # None /\ roots'[w].memory = Seed
        \/ roots[w] # None /\ roots'[w].memory = roots[w].memory
    <3>1. roots[w] # None => roots[w] \in Root
      BY DEF TypeOK
    <3>2. DOMAIN roots = Workspaces
      BY DEF TypeOK
    <3> QED
      BY <2>4, <3>1, <3>2 DEF Root
  <2>7. ASSUME NEW v \in Workspaces, roots'[v] # None, roots'[v].memory \in Written
        PROVE  roots[v] # None /\ roots[v].memory = roots'[v].memory
    BY <2>5, <2>6, <2>7, NoneApart
  <2> QED
    BY <1>1, <1>2, <1>4, <1>0, <2>1, <2>2, <2>7
<1>10. ASSUME NEW p \in Procs, BeginGc(p) \/ \E w \in Workspaces : SeedLook(p, w) \/ BeginBackup(p, w)
       PROVE  MemoryKept'
  <2>1. UNCHANGED <<archives, made, dropped, now>>
    BY <1>10 DEF BeginGc, SeedLook, BeginBackup
  <2>2. \A q \in Procs : Mild(command[q], command'[q])
    BY <1>10, BeginIsMild
  <2>3. \/ UNCHANGED roots
        \/ \E w \in Workspaces : roots[w] = None /\ roots' = [roots EXCEPT ![w] = EmptyRoot]
    <3>1. CASE BeginGc(p) \/ \E w \in Workspaces : BeginBackup(p, w)
      BY <3>1 DEF BeginGc, BeginBackup
    <3>2. ASSUME NEW w \in Workspaces, SeedLook(p, w)
          PROVE  UNCHANGED roots \/ (roots[w] = None /\ roots' = [roots EXCEPT ![w] = EmptyRoot])
      <4>1. roots' = [roots EXCEPT ![w] = IF roots[w] = None THEN EmptyRoot ELSE roots[w]]
        BY <3>2 DEF SeedLook
      <4>2. CASE roots[w] = None
        BY <4>1, <4>2
      <4>3. CASE roots[w] # None
        BY <4>1, <4>3 DEF TypeOK
      <4> QED
        BY <4>2, <4>3
    <3> QED
      BY <1>10, <3>1, <3>2
  <2>4. ASSUME NEW v \in Workspaces, roots'[v] # None, roots'[v].memory \in Written
        PROVE  roots[v] # None /\ roots[v].memory = roots'[v].memory
    <3>1. CASE UNCHANGED roots
      BY <2>4, <3>1
    <3>2. ASSUME NEW w \in Workspaces, roots[w] = None, roots' = [roots EXCEPT ![w] = EmptyRoot]
          PROVE  roots[v] # None /\ roots[v].memory = roots'[v].memory
      <4>1. roots'[w] = EmptyRoot /\ (v # w => roots'[v] = roots[v])
        BY <3>2 DEF TypeOK
      <4>2. v # w
        BY <2>4, <4>1, NoneApart DEF EmptyRoot
      <4> QED
        BY <2>4, <4>1, <4>2
    <3> QED
      BY <2>3, <3>1, <3>2
  <2> QED
    BY <1>1, <1>2, <1>4, <1>0, <2>1, <2>2, <2>4
<1>11. ASSUME NEW p \in Procs, GcNext(p) PROVE MemoryKept'
  <2>1. UNCHANGED <<archives, made, dropped, now, roots>>
    BY <1>11 DEF GcNext
  <2>2. \A q \in Procs : Mild(command[q], command'[q])
    BY <1>11, GcNextIsMild
  <2> QED
    BY <1>1, <1>2, <1>4, <2>1, <2>2
<1>12. ASSUME NEW p \in Procs, GcRemove(p) PROVE MemoryKept'
  <2>1. UNCHANGED <<archives, made, now>>
    BY <1>12 DEF GcRemove
  <2>2. \A q \in Procs : Mild(command[q], command'[q])
    BY <1>12, CommandIsMild
  <2> QED
    BY <1>1, <1>4, <1>12, <2>1, <2>2, MildKeeps, RemoveKept
<1>13. ASSUME NEW p \in Procs, Pick(p) PROVE MemoryKept'
  BY <1>1, <1>13, PickDirectories, PickKept
<1>14. ASSUME NEW p \in Procs, Make(p) PROVE MemoryKept'
  BY <1>1, <1>14, MakeDirectories, MakeKept
<1>15. ASSUME NEW p \in Procs, Archive(p) PROVE MemoryKept'
  BY <1>1, <1>15, ArchiveDirectories, ArchiveKept
<1>16. ASSUME NEW p \in Procs, Prune(p) PROVE MemoryKept'
  BY <1>1, <1>16, PruneDirectories, PruneKept
<1> HIDE DEF MemoryKept
<1> QED
  BY <1>5, <1>6, <1>7, <1>8, <1>9, <1>10, <1>11, <1>12, <1>13, <1>14, <1>15, <1>16 DEF KNext

\* The inductive invariant holds throughout.
THEOREM MemoryStaysKept == MemorySpec => [](TypeOK /\ MemoryKept)
<1>1. KInit => MemoryKept
  BY DEF KInit, MemoryKept, Directories, DatesPast, OneEach, Ranked, StandsOrOld, TakenByOld,
     SharedByOld, Stayed, Filing, Kept, Choosing, Holding, Idle
<1>2. TypeOK /\ TypeOK' /\ MemoryKept /\ [KNext]_kVars => MemoryKept'
  BY KeptStep
<1> QED
  BY <1>1, <1>2, TypeCorrect, PTL DEF MemorySpec

\* A root that `omm memory gc` removed was one whose workspace had gone since
\* the command began, and the words in it are in an archive until as many newer
\* archives were made as are kept.
THEOREM MemoriesAreKept == MemorySpec => []MemoriesKept
<1>1. TypeOK /\ MemoryKept => MemoriesKept
  <2> SUFFICES ASSUME TypeOK, MemoryKept PROVE MemoriesKept
    OBVIOUS
  <2> SUFFICES ASSUME NEW e \in dropped
               PROVE  /\ ~e.stayed
                      /\ \/ e.held = {}
                         \/ made - e.born > Keep
                         \/ \E d \in archives : e.root \in DOMAIN d.tars /\ e.held \subseteq d.tars[e.root]
    BY DEF MemoriesKept
  <2>1. e.born \in Nat /\ made \in Nat /\ Keep \in Nat
    BY KeepIsPositive DEF TypeOK
  <2>2. Old(e.born) => made - e.born > Keep
    BY <2>1 DEF Old
  <2> QED
    BY <2>2 DEF MemoryKept, Kept
<1> QED
  BY <1>1, MemoryStaysKept, PTL

\* Induction, in the form in which the lemmas below need it: a set that has 0,
\* and with a number the next one, has all of them.
LEMMA Upward ==
    ASSUME NEW n \in Nat, NEW good \in SUBSET (0..n), 0 \in good,
           \A k \in 0..(n - 1) : k \in good => k + 1 \in good
    PROVE  good = 0..n
<1> DEFINE bad == (0..n) \ good
<1>1. SUFFICES ASSUME bad # {} PROVE FALSE  OBVIOUS
<1>2. PICK m \in bad : \A j \in bad : m <= j
  <2>1. bad \in SUBSET Nat  OBVIOUS
  <2> HIDE DEF bad
  <2> QED BY <1>1, <2>1, Least
<1>3. m # 0 /\ m \in 1..n  BY <1>2
<1>4. m - 1 \in 0..(n - 1) /\ m - 1 \notin bad  BY <1>2, <1>3
<1>5. (m - 1) + 1 \in good  BY <1>4
<1> QED BY <1>2, <1>3, <1>5

-----------------------------------------------------------------------------
(* Rules: the words of a text.                                             *)

\* The words up to a place of a text, from those up to the place before it.
SaidBody(t, f, k) ==
    IF k = 0 THEN <<>>
    ELSE IF t[k] \in {Mine, Former} THEN Append(f[k - 1], t[k]) ELSE f[k - 1]
\* A recursive function is a choice of one that satisfies its equation.
Saids(t) == CHOOSE f : f = [k \in 0..Len(t) |-> SaidBody(t, f, k)]

\* There is such a function: of each length that can be built up to.
LEMMA SaidsAre ==
    ASSUME NEW t \in Texts, NEW p \in 0..Len(t)
    PROVE  Saids(t)[p] = SaidBody(t, Saids(t), p)
<1> DEFINE n == Len(t)
           Part(k) == \E g : g = [i \in 0..k |-> SaidBody(t, g, i)]
           good == {j \in 0..n : Part(j)}
<1>0. n \in Nat  BY DEF Texts
<1>1. Part(0)
  <2>1. [i \in 0..0 |-> <<>>] = [i \in 0..0 |-> SaidBody(t, [j \in 0..0 |-> <<>>], i)]
    BY DEF SaidBody
  <2> QED BY <2>1
<1>2. ASSUME NEW k \in 0..(n - 1), Part(k) PROVE Part(k + 1)
  <2>1. PICK g : g = [i \in 0..k |-> SaidBody(t, g, i)]  BY <1>2
  <2> DEFINE h == [i \in 0..(k + 1) |-> IF i = k + 1 THEN SaidBody(t, g, k + 1) ELSE g[i]]
  <2>2. \A i \in 0..k : h[i] = g[i]  BY <1>0
  <2>3. \A i \in 0..(k + 1) : SaidBody(t, h, i) = SaidBody(t, g, i)
    <3>1. SUFFICES ASSUME NEW i \in 0..(k + 1) PROVE SaidBody(t, h, i) = SaidBody(t, g, i)
      OBVIOUS
    <3>2. i > 0 => h[i - 1] = g[i - 1]  BY <1>0, <2>2
    <3> HIDE DEF h
    <3> QED BY <1>0, <3>2 DEF SaidBody
  <2>4. \A i \in 0..(k + 1) : h[i] = SaidBody(t, g, i)
    <3>1. \A i \in 0..k : g[i] = SaidBody(t, g, i)  BY <2>1
    <3> QED BY <1>0, <2>2, <3>1
  <2>5. h = [i \in 0..(k + 1) |-> h[i]]  OBVIOUS
  <2> HIDE DEF h
  <2>6. h = [i \in 0..(k + 1) |-> SaidBody(t, h, i)]  BY <2>3, <2>4, <2>5
  <2> QED BY <2>6
<1>3. Part(n)
  <2>1. good \in SUBSET (0..n) /\ 0 \in good  BY <1>0, <1>1
  <2>2. \A k \in 0..(n - 1) : k \in good => k + 1 \in good  BY <1>0, <1>2
  <2>3. good = 0..n
    <3> HIDE DEF good, n
    <3> QED BY <1>0, <2>1, <2>2, Upward
  <2> QED BY <1>0, <2>3
<1>4. Saids(t) = CHOOSE g : g = [i \in 0..n |-> SaidBody(t, g, i)]
  BY DEF Saids
<1>5. Saids(t) = [i \in 0..n |-> SaidBody(t, Saids(t), i)]
  BY <1>3, <1>4, Zenon
<1> HIDE DEF n
<1>6. p \in 0..n  BY DEF n
<1> QED BY <1>5, <1>6

\* The words up to a place, one place after the other.
LEMMA SaidIs ==
    ASSUME NEW t \in Texts
    PROVE  /\ Said(t) = Saids(t)[Len(t)] /\ Len(t) \in Nat
           /\ Saids(t)[0] = <<>>
           /\ \A k \in 1..Len(t) :
                 Saids(t)[k] = IF t[k] \in {Mine, Former} THEN Append(Saids(t)[k - 1], t[k])
                               ELSE Saids(t)[k - 1]
           /\ \A k \in 0..Len(t) : Saids(t)[k] \in Texts
           /\ Said(t) \in Texts
<1>0. Len(t) \in Nat  BY DEF Texts
<1>1. Said(t) = Saids(t)[Len(t)]  BY DEF Said, Saids, SaidBody
<1>2. Saids(t)[0] = <<>>
  <2>1. 0 \in 0..Len(t)  BY <1>0
  <2> QED BY <2>1, SaidsAre DEF SaidBody
<1>3. ASSUME NEW k \in 1..Len(t)
      PROVE  Saids(t)[k] = IF t[k] \in {Mine, Former} THEN Append(Saids(t)[k - 1], t[k])
                           ELSE Saids(t)[k - 1]
  <2>1. k \in 0..Len(t) /\ k # 0  BY <1>0
  <2> QED BY <2>1, SaidsAre DEF SaidBody
<1>4. \A k \in 0..Len(t) : Saids(t)[k] \in Texts
  <2> DEFINE n == Len(t)
             good == {k \in 0..n : Saids(t)[k] \in Texts}
  <2>1. good \in SUBSET (0..n) /\ 0 \in good
    <3>1. <<>> \in Texts  BY EmptySeq DEF Texts
    <3>2. Saids(t)[0] \in Texts /\ 0 \in 0..n  BY <1>0, <1>2, <3>1
    <3> QED BY <3>2
  <2>2. ASSUME NEW k \in 0..(n - 1), k \in good PROVE k + 1 \in good
    <3>1. k + 1 \in 1..n /\ k + 1 \in 0..n /\ (k + 1) - 1 = k /\ Saids(t)[k] \in Texts  BY <1>0, <2>2
    <3>2. t[k + 1] \in Tokens  BY <3>1 DEF Texts
    <3>3. Append(Saids(t)[k], t[k + 1]) \in Texts  BY <3>1, <3>2 DEF Texts
    <3>4. Saids(t)[k + 1] \in Texts  BY <1>3, <3>1, <3>3
    <3> QED BY <3>1, <3>4
  <2> HIDE DEF n
  <2>3. good = 0..n
    <3>1. n \in Nat  BY <1>0 DEF n
    <3> HIDE DEF good
    <3> QED BY <2>1, <2>2, <3>1, Upward
  <2> QED BY <2>3 DEF n
<1>5. Said(t) \in Texts
  <2>1. Len(t) \in 0..Len(t)  BY <1>0
  <2> QED BY <1>1, <1>4, <2>1
<1> QED BY <1>0, <1>1, <1>2, <1>3, <1>4, <1>5

\* A text of which nothing is the user's has no words.
LEMMA SaidNothing ==
    ASSUME NEW t \in Texts, \A i \in 1..Len(t) : t[i] \notin {Mine, Former}
    PROVE  Said(t) = <<>>
<1> DEFINE n == Len(t)
           good == {k \in 0..n : Saids(t)[k] = <<>>}
<1>0. n \in Nat  BY SaidIs
<1>1. good \in SUBSET (0..n) /\ 0 \in good
  <2>1. Saids(t)[0] = <<>> /\ 0 \in 0..n  BY <1>0, SaidIs
  <2> QED BY <2>1
<1>2. ASSUME NEW k \in 0..(n - 1), k \in good PROVE k + 1 \in good
  <2>1. k + 1 \in 1..n /\ k + 1 \in 0..n /\ (k + 1) - 1 = k /\ Saids(t)[k] = <<>>  BY <1>0, <1>2
  <2>2. Saids(t)[k + 1] = Saids(t)[k]  BY <2>1, SaidIs
  <2> QED BY <2>1, <2>2
<1>3. good = 0..n
  <2> HIDE DEF good, n
  <2> QED BY <1>0, <1>1, <1>2, Upward
<1>4. n \in good  BY <1>0, <1>3
<1> QED BY <1>4, SaidIs

\* The words of two texts are those of the one, then those of the other.
LEMMA SaidConcat ==
    ASSUME NEW a \in Texts, NEW b \in Texts
    PROVE  a \o b \in Texts /\ Said(a \o b) = Said(a) \o Said(b)
<1> DEFINE c == a \o b
           n == Len(a)
           m == Len(b)
           low == {k \in 0..n : Saids(c)[k] = Saids(a)[k]}
           high == {k \in 0..m : Saids(c)[n + k] = Said(a) \o Saids(b)[k]}
<1>1. /\ c \in Texts /\ n \in Nat /\ m \in Nat /\ Len(c) = n + m
      /\ \A i \in 1..n : c[i] = a[i]
      /\ \A i \in 1..m : c[n + i] = b[i]
  <2>1. n \in Nat /\ m \in Nat  BY SaidIs
  <2>2. /\ c \in Texts /\ Len(c) = n + m
        /\ \A i \in 1..n + m : c[i] = IF i <= n THEN a[i] ELSE b[i - n]
    BY ConcatProperties DEF Texts
  <2> HIDE DEF c, n, m
  <2>3. \A i \in 1..n : c[i] = a[i]  BY <2>1, <2>2
  <2>4. ASSUME NEW i \in 1..m PROVE c[n + i] = b[i]
    <3>1. n + i \in 1..n + m /\ ~(n + i <= n) /\ (n + i) - n = i  BY <2>1
    <3> QED BY <2>2, <3>1
  <2> QED BY <2>1, <2>2, <2>3, <2>4
<1> HIDE DEF c
<1>a. /\ Saids(a)[0] = <<>> /\ Saids(b)[0] = <<>> /\ Saids(c)[0] = <<>>
      /\ \A k \in 1..n :
            Saids(a)[k] = IF a[k] \in {Mine, Former} THEN Append(Saids(a)[k - 1], a[k])
                          ELSE Saids(a)[k - 1]
  BY <1>1, SaidIs
<1>b. /\ \A k \in 1..m :
            Saids(b)[k] = IF b[k] \in {Mine, Former} THEN Append(Saids(b)[k - 1], b[k])
                          ELSE Saids(b)[k - 1]
  BY <1>1, SaidIs
<1>c. /\ \A k \in 1..n + m :
            Saids(c)[k] = IF c[k] \in {Mine, Former} THEN Append(Saids(c)[k - 1], c[k])
                          ELSE Saids(c)[k - 1]
      /\ Said(c) = Saids(c)[n + m]
  <2>1. /\ \A k \in 1..Len(c) :
              Saids(c)[k] = IF c[k] \in {Mine, Former} THEN Append(Saids(c)[k - 1], c[k])
                            ELSE Saids(c)[k - 1]
        /\ Said(c) = Saids(c)[Len(c)]
    BY <1>1, SaidIs
  <2>2. Len(c) = n + m  BY <1>1
  <2> HIDE DEF n, m
  <2> QED BY <2>1, <2>2
<1>d. Said(a) = Saids(a)[n] /\ Said(b) = Saids(b)[m]  BY SaidIs
<1> HIDE DEF n, m
<1>2. low = 0..n
  <2>1. low \in SUBSET (0..n) /\ 0 \in low  BY <1>1, <1>a
  <2>2. ASSUME NEW k \in 0..(n - 1), k \in low PROVE k + 1 \in low
    <3>1. /\ k + 1 \in 1..n /\ k + 1 \in 0..n /\ k + 1 \in 1..n + m /\ (k + 1) - 1 = k
          /\ Saids(c)[k] = Saids(a)[k] /\ c[k + 1] = a[k + 1]
      BY <1>1, <2>2
    <3>2. Saids(c)[k + 1] = Saids(a)[k + 1]  BY <1>a, <1>c, <3>1
    <3> QED BY <3>1, <3>2
  <2> HIDE DEF low
  <2> QED BY <1>1, <2>1, <2>2, Upward
<1>3. Saids(c)[n] = Said(a)
  <2>1. n \in low  BY <1>1, <1>2
  <2> QED BY <1>d, <2>1
<1>4. high = 0..m
  <2>1. 0 \in high
    <3>1. Said(a) \o Saids(b)[0] = Said(a)
      <4>1. Said(a) \in Seq(Tokens)  BY SaidIs DEF Texts
      <4> QED BY <1>a, <4>1, ConcatEmptySeq
    <3>2. n + 0 = n /\ 0 \in 0..m  BY <1>1
    <3> QED BY <1>3, <3>1, <3>2
  <2>2. ASSUME NEW k \in 0..(m - 1), k \in high PROVE k + 1 \in high
    <3>1. /\ k + 1 \in 1..m /\ k + 1 \in 0..m /\ k \in 0..m /\ (k + 1) - 1 = k
          /\ n + (k + 1) \in 1..n + m /\ (n + (k + 1)) - 1 = n + k
          /\ c[n + (k + 1)] = b[k + 1]
          /\ Saids(c)[n + k] = Said(a) \o Saids(b)[k]
      BY <1>1, <2>2
    <3>2. Said(a) \in Texts /\ Saids(b)[k] \in Texts  BY <3>1, SaidIs DEF m
    <3>3. b[k + 1] \in Tokens  BY <3>1 DEF Texts, m
    <3>4. Append(Said(a) \o Saids(b)[k], b[k + 1]) = Said(a) \o Append(Saids(b)[k], b[k + 1])
      <4> DEFINE x == Said(a)
                 y == Saids(b)[k]
                 e == b[k + 1]
      <4>1. x \in Seq(Tokens) /\ y \in Seq(Tokens) /\ <<e>> \in Seq(Tokens) /\ e \in Tokens
        BY <3>2, <3>3 DEF Texts
      <4> HIDE DEF x, y, e
      <4>2. x \o y \in Seq(Tokens)  BY <4>1
      <4>3. Append(x \o y, e) = (x \o y) \o <<e>> /\ Append(y, e) = y \o <<e>>
        BY <4>1, <4>2, AppendIsConcat
      <4>4. (x \o y) \o <<e>> = x \o (y \o <<e>>)  BY <4>1, ConcatAssociative
      <4> QED BY <4>3, <4>4 DEF x, y, e
    <3>5. Saids(c)[n + (k + 1)] = Said(a) \o Saids(b)[k + 1]
      <4>1. Saids(c)[n + (k + 1)] =
               IF b[k + 1] \in {Mine, Former} THEN Append(Saids(c)[n + k], b[k + 1])
               ELSE Saids(c)[n + k]
        BY <1>c, <3>1
      <4>2. Saids(b)[k + 1] =
               IF b[k + 1] \in {Mine, Former} THEN Append(Saids(b)[k], b[k + 1]) ELSE Saids(b)[k]
        BY <1>b, <3>1
      <4> QED BY <3>1, <3>4, <4>1, <4>2
    <3> QED BY <3>1, <3>5
  <2>3. high \in SUBSET (0..m)  OBVIOUS
  <2> HIDE DEF high
  <2> QED BY <1>1, <2>1, <2>2, <2>3, Upward
<1>5. Saids(c)[n + m] = Said(a) \o Saids(b)[m]
  <2>1. m \in high
    <3>1. m \in 0..m  BY <1>1
    <3> HIDE DEF high
    <3> QED BY <1>4, <3>1
  <2> QED BY <2>1
<1>6. Said(c) = Said(a) \o Said(b)  BY <1>c, <1>d, <1>5
<1> QED BY <1>1, <1>6 DEF c

-----------------------------------------------------------------------------
(* Rules: cutting a text.                                                  *)

\* A text has a length, and a place past its end.
LEMMA TextLen == ASSUME NEW t \in Texts PROVE Len(t) \in Nat /\ Past(t) = Len(t) + 1
  BY DEF Texts, Past

\* The first place of a token, or none.
LEMMA FindIs ==
    ASSUME NEW t \in Texts, NEW x, NEW i \in Nat \ {0}
    PROVE  \/ Find(t, x, i) = 0 /\ \A j \in i..Len(t) : t[j] # x
           \/ /\ Find(t, x, i) \in i..Len(t) /\ t[Find(t, x, i)] = x
              /\ \A j \in i..(Find(t, x, i) - 1) : t[j] # x
<1> DEFINE at == {j \in i..Len(t) : t[j] = x}
<1>1. Find(t, x, i) = IF at = {} THEN 0 ELSE Min(at)  BY DEF Find
<1>2. CASE at = {}  BY <1>1, <1>2
<1>3. CASE at # {}
  <2>1. at \in SUBSET Nat  BY TextLen
  <2>2. \E m \in at : \A k \in at : m <= k
    <3> HIDE DEF at
    <3> QED BY <1>3, <2>1, Least
  <2>3. Min(at) \in at /\ \A k \in at : Min(at) <= k
    <3> HIDE DEF at
    <3> QED BY <2>2, Zenon DEF Min
  <2> DEFINE m == Min(at)
  <2> HIDE DEF m
  <2>4. m \in i..Len(t) /\ t[m] = x /\ \A k \in i..Len(t) : t[k] = x => m <= k
    BY <2>3 DEF m
  <2>5. \A j \in i..(m - 1) : t[j] # x  BY <2>4, TextLen
  <2>6. Find(t, x, i) = m  BY <1>1, <1>3 DEF m
  <2> QED BY <2>4, <2>5, <2>6
<1> QED BY <1>2, <1>3

\* A token is found where it first stands.
LEMMA FindAt ==
    ASSUME NEW t \in Texts, NEW x, NEW i \in Nat \ {0}, NEW k \in i..Len(t), t[k] = x,
           \A j \in i..(k - 1) : t[j] # x
    PROVE  Find(t, x, i) = k
<1> DEFINE f == Find(t, x, i)
<1>1. \/ f = 0 /\ \A j \in i..Len(t) : t[j] # x
      \/ f \in i..Len(t) /\ t[f] = x /\ \A j \in i..(f - 1) : t[j] # x
  BY FindIs
<1> HIDE DEF f
<1>2. f \in i..Len(t) /\ t[f] = x /\ \A j \in i..(f - 1) : t[j] # x  BY <1>1
<1>3. ~(f < k) /\ ~(k < f)  BY <1>2, TextLen
<1>4. f = k  BY <1>2, <1>3, TextLen
<1> QED BY <1>4 DEF f

\* One that does not stand there is not found.
LEMMA FindNone ==
    ASSUME NEW t \in Texts, NEW x, NEW i \in Nat \ {0}, \A j \in i..Len(t) : t[j] # x
    PROVE  Find(t, x, i) = 0
  BY FindIs

\* The end of a line lies after the place, and within the text.
LEMMA LineEndIs ==
    ASSUME NEW t \in Texts, NEW i \in Nat \ {0}
    PROVE  /\ LineEnd(t, i) \in Nat /\ i <= LineEnd(t, i)
           /\ LineEnd(t, i) <= i \/ LineEnd(t, i) <= Len(t) + 1
<1>1. \/ Find(t, Newline, i) = 0
      \/ Find(t, Newline, i) \in i..Len(t)
  BY FindIs
<1> QED BY <1>1, TextLen DEF LineEnd

\* Between two markers there is a piece of the text, in front of the second.
LEMMA BetweenIs ==
    ASSUME NEW t \in Texts, NEW s, NEW e
    PROVE  \/ Between(t, s, e) = <<>>
           \/ \E a, z \in Nat : /\ Between(t, s, e) = <<a, z>>
                                /\ 2 <= a /\ a <= z /\ z <= Len(t) /\ t[z] = e
                                /\ Find(t, s, 1) \in 1..(a - 1)
                                /\ a = LineEnd(t, Find(t, s, 1) + 1)
                                /\ \A j \in a..(z - 1) : t[j] # e
<1> DEFINE f == Find(t, s, 1)
           a == LineEnd(t, f + 1)
           z == Find(t, e, a)
<1>1. f = 0 \/ f \in 1..Len(t)  BY FindIs
<1>2. CASE f = 0  BY <1>2 DEF Between, Behind
<1>3. CASE f \in 1..Len(t)
  <2>1. f # 0 /\ f + 1 \in Nat \ {0} /\ f \in Nat  BY <1>3, TextLen
  <2>2. a \in Nat /\ f + 1 <= a  BY <2>1, LineEndIs
  <2>3. Between(t, s, e) = IF z = 0 THEN <<>> ELSE <<a, z>>
    BY <2>1 DEF Between, Behind, UpTo
  <2> HIDE DEF a, f
  <2>4. a \in Nat \ {0}  BY <2>1, <2>2
  <2>5. z = 0 \/ (z \in a..Len(t) /\ t[z] = e /\ \A j \in a..(z - 1) : t[j] # e)  BY <2>4, FindIs
  <2> HIDE DEF z
  <2>6. CASE z = 0  BY <2>3, <2>6
  <2>7. CASE z # 0
    <3>1. /\ z \in Nat /\ 2 <= a /\ a <= z /\ z <= Len(t) /\ t[z] = e /\ f \in 1..(a - 1)
          /\ Between(t, s, e) = <<a, z>>
          /\ \A j \in a..(z - 1) : t[j] # e
      BY <1>3, <2>1, <2>2, <2>3, <2>4, <2>5, <2>7, TextLen
    <3> QED BY <2>2, <3>1 DEF a, f
  <2> QED BY <2>6, <2>7
<1> QED BY <1>1, <1>2, <1>3

\* A piece has the tokens between its ends.
LEMMA PieceIs ==
    ASSUME NEW t \in Texts, NEW i \in Nat \ {0}, NEW j \in Nat, j <= Len(t) + 1
    PROVE  /\ Piece(t, i, j) \in Texts
           /\ Len(Piece(t, i, j)) = IF i < j THEN j - i ELSE 0
           /\ \A k \in 1..(j - i) : Piece(t, i, j)[k] = t[i + k - 1]
<1>1. \A k \in i..(j - 1) : t[k] \in Tokens  BY TextLen DEF Texts
<1>2. i \in Int /\ j - 1 \in Int  OBVIOUS
<1>3. /\ SubSeq(t, i, j - 1) \in Seq(Tokens)
      /\ Len(SubSeq(t, i, j - 1)) = IF i <= j - 1 THEN (j - 1) - i + 1 ELSE 0
      /\ \A k \in 1..((j - 1) - i + 1) : SubSeq(t, i, j - 1)[k] = t[i + k - 1]
  BY <1>1, <1>2, SubSeqProperties
<1> DEFINE p == SubSeq(t, i, j - 1)
<1> HIDE DEF p
<1>4. p \in Seq(Tokens) /\ Len(p) = (IF i < j THEN j - i ELSE 0)
      /\ \A k \in 1..(j - i) : p[k] = t[i + k - 1]
  BY <1>3 DEF p
<1> QED BY <1>4 DEF Texts, Piece, p

\* A text is its two pieces at any place, and its three at any two.
LEMMA CutInTwo ==
    ASSUME NEW t \in Texts, NEW i \in 1..(Len(t) + 1)
    PROVE  t = Piece(t, 1, i) \o Piece(t, i, Past(t))
<1>1. Len(t) \in Nat /\ t \in Seq(Tokens)  BY TextLen DEF Texts
<1>2. 1 \in 1..Len(t) + 1 /\ i - 1 \in (1 - 1)..Len(t) /\ Len(t) \in (i - 1)..Len(t)
      /\ (i - 1) + 1 = i
  BY <1>1
<1>3. SubSeq(t, 1, i - 1) \o SubSeq(t, (i - 1) + 1, Len(t)) = SubSeq(t, 1, Len(t))
  BY <1>1, <1>2, ConcatAdjacentSubSeq
<1>4. SubSeq(t, 1, Len(t)) = t  BY <1>1, SubSeqFull
<1>5. Past(t) - 1 = Len(t)  BY <1>1, TextLen
<1> QED BY <1>2, <1>3, <1>4, <1>5 DEF Piece

\* The words of a text are those of its beginning, of a piece, and of the rest.
LEMMA SaidInThree ==
    ASSUME NEW t \in Texts, NEW i \in 1..(Len(t) + 1), NEW j \in i..(Len(t) + 1)
    PROVE  /\ Said(t) = Said(Piece(t, 1, i)) \o (Said(Piece(t, i, j)) \o Said(Piece(t, j, Past(t))))
           /\ Said(Piece(t, i, j)) = <<>> =>
                 Said(t) = Said(Piece(t, 1, i) \o Piece(t, j, Past(t)))
           /\ Piece(t, 1, i) \in Texts /\ Piece(t, i, j) \in Texts /\ Piece(t, j, Past(t)) \in Texts
<1>1. /\ Len(t) \in Nat /\ Past(t) = Len(t) + 1 /\ i \in Nat \ {0} /\ j \in Nat \ {0}
      /\ j \in 1..(Len(t) + 1)
  BY TextLen
<1>2. Piece(t, 1, i) \in Texts /\ Piece(t, i, j) \in Texts /\ Piece(t, j, Past(t)) \in Texts
      /\ Piece(t, i, Past(t)) \in Texts
  BY <1>1, PieceIs
<1>3. Piece(t, i, Past(t)) = Piece(t, i, j) \o Piece(t, j, Past(t))
  <2>1. t \in Seq(Tokens)  BY DEF Texts
  <2>2. i \in 1..Len(t) + 1 /\ j - 1 \in (i - 1)..Len(t) /\ Len(t) \in (j - 1)..Len(t)
        /\ (j - 1) + 1 = j /\ Past(t) - 1 = Len(t)
    BY <1>1
  <2>3. SubSeq(t, i, j - 1) \o SubSeq(t, (j - 1) + 1, Len(t)) = SubSeq(t, i, Len(t))
    BY <2>1, <2>2, ConcatAdjacentSubSeq
  <2> QED BY <2>2, <2>3 DEF Piece
<1>4. Said(t) = Said(Piece(t, 1, i)) \o Said(Piece(t, i, Past(t)))
  <2>1. t = Piece(t, 1, i) \o Piece(t, i, Past(t))  BY CutInTwo
  <2>2. Said(Piece(t, 1, i) \o Piece(t, i, Past(t))) = Said(Piece(t, 1, i)) \o Said(Piece(t, i, Past(t)))
    BY <1>2, SaidConcat
  <2> QED BY <2>1, <2>2
<1>5. Said(Piece(t, i, Past(t))) = Said(Piece(t, i, j)) \o Said(Piece(t, j, Past(t)))
  <2> DEFINE b == Piece(t, i, j)
             c == Piece(t, j, Past(t))
  <2>1. b \in Texts /\ c \in Texts /\ Piece(t, i, Past(t)) = b \o c  BY <1>2, <1>3
  <2> HIDE DEF b, c
  <2>2. Said(b \o c) = Said(b) \o Said(c)  BY <2>1, SaidConcat
  <2> QED BY <2>1, <2>2 DEF b, c
<1>6. ASSUME Said(Piece(t, i, j)) = <<>>
      PROVE  Said(t) = Said(Piece(t, 1, i) \o Piece(t, j, Past(t)))
  <2>1. Said(Piece(t, j, Past(t))) \in Seq(Tokens)  BY <1>2, SaidIs DEF Texts
  <2>2. <<>> \o Said(Piece(t, j, Past(t))) = Said(Piece(t, j, Past(t)))  BY <2>1, ConcatEmptySeq
  <2>3. Said(Piece(t, 1, i) \o Piece(t, j, Past(t))) = Said(Piece(t, 1, i)) \o Said(Piece(t, j, Past(t)))
    BY <1>2, SaidConcat
  <2>4. Said(Piece(t, i, Past(t))) = Said(Piece(t, j, Past(t)))  BY <1>5, <1>6, <2>2
  <2>5. Said(t) = Said(Piece(t, 1, i)) \o Said(Piece(t, j, Past(t)))  BY <1>4, <2>4, Zenon
  <2> QED BY <2>3, <2>5
<1>7. Said(t) = Said(Piece(t, 1, i)) \o (Said(Piece(t, i, j)) \o Said(Piece(t, j, Past(t))))
  BY <1>4, <1>5, Zenon
<1> QED BY <1>2, <1>6, <1>7

\* A piece of a text has no more words of the user's than the text: none, if
\* the text has none.
LEMMA SaidNoneParts ==
    ASSUME NEW t \in Texts, NEW i \in 1..(Len(t) + 1), NEW j \in i..(Len(t) + 1)
    PROVE  Said(Piece(t, i, j)) = <<>> =>
              Said(t) = Said(Piece(t, 1, i)) \o Said(Piece(t, j, Past(t)))
<1> DEFINE a == Piece(t, 1, i)
           c == Piece(t, j, Past(t))
<1>1. a \in Texts /\ c \in Texts  BY SaidInThree
<1>2. Said(Piece(t, i, j)) = <<>> => Said(t) = Said(a \o c)  BY SaidInThree
<1> HIDE DEF a, c
<1>3. Said(a \o c) = Said(a) \o Said(c)  BY <1>1, SaidConcat
<1> QED BY <1>2, <1>3 DEF a, c

\* The four parts of a text are texts, and the block is between its markers.
LEMMA PartsIs ==
    ASSUME NEW t \in Texts
    PROVE  \/ Between(t, ManagedStart, ManagedEnd) = <<>> /\ Parts(t) = Absent
           \/ /\ Parts(t) # Absent /\ Parts(t) \in Cuts
              /\ \E a, z \in Nat :
                    /\ Between(t, ManagedStart, ManagedEnd) = <<a, z>>
                    /\ 2 <= a /\ a <= z /\ z <= Len(t)
                    /\ Parts(t).managed = Piece(t, a, z)
<1>1. CASE Between(t, ManagedStart, ManagedEnd) = <<>>
  BY <1>1 DEF Parts, PartsAt
<1>2. CASE Between(t, ManagedStart, ManagedEnd) # <<>>
  <2>1. PICK a \in Nat, z \in Nat :
           /\ Between(t, ManagedStart, ManagedEnd) = <<a, z>>
           /\ 2 <= a /\ a <= z /\ z <= Len(t)
           /\ Find(t, ManagedStart, 1) \in 1..(a - 1)
    BY <1>2, BetweenIs
  <2> DEFINE m == <<a, z>>
             rest == Piece(t, z + 1, Past(t))
             u == UserAfter(rest, z)
             f == Find(t, ManagedStart, 1)
  <2>2. /\ Len(t) \in Nat /\ Past(t) = Len(t) + 1 /\ f \in Nat
        /\ rest \in Texts /\ Len(rest) = Len(t) - z
    <3>1. Len(t) \in Nat /\ Past(t) = Len(t) + 1 /\ f \in Nat  BY <2>1, TextLen
    <3>2. z + 1 \in Nat \ {0} /\ Past(t) \in Nat /\ Past(t) <= Len(t) + 1  BY <3>1
    <3>3. rest \in Texts /\ Len(rest) = IF z + 1 < Past(t) THEN Past(t) - (z + 1) ELSE 0
      BY <3>2, PieceIs
    <3>4. Len(rest) = Len(t) - z
      <4> HIDE DEF rest
      <4> QED BY <2>1, <3>1, <3>3
    <3> QED BY <3>1, <3>3, <3>4
  <2>3. \/ u = <<>>
        \/ \E x, y, w \in Nat : /\ u = <<z + x, z + y, z + w>> /\ 1 <= x /\ x <= y - 1
                                /\ y <= w /\ w <= Len(t) - z
    <3>1. CASE Between(rest, UserStart, UserEnd) = <<>>
      BY <3>1 DEF UserAfter, Counted
    <3>2. CASE Between(rest, UserStart, UserEnd) # <<>>
      <4>1. PICK y \in Nat, w \in Nat :
              /\ Between(rest, UserStart, UserEnd) = <<y, w>>
              /\ 2 <= y /\ y <= w /\ w <= Len(rest)
              /\ Find(rest, UserStart, 1) \in 1..(y - 1)
        <5>1. rest \in Texts  BY <2>2
        <5> HIDE DEF rest
        <5> QED BY <3>2, <5>1, BetweenIs
      <4>2. u = <<z + Find(rest, UserStart, 1), z + y, z + w>>
        BY <4>1 DEF UserAfter, Counted
      <4> DEFINE x == Find(rest, UserStart, 1)
      <4>3. x \in 1..(y - 1)  BY <4>1
      <4> HIDE DEF x
      <4>4. x \in Nat /\ 1 <= x /\ x <= y - 1 /\ y <= w /\ w <= Len(t) - z
        BY <2>2, <4>1, <4>3
      <4> QED BY <4>2, <4>4 DEF x
    <3> QED BY <3>1, <3>2
  <2>4. Parts(t) = Divided(t, m, u)
    BY <2>1 DEF Parts, PartsAt
  <2>5. Piece(t, 1, f) \in Texts /\ Piece(t, a, z) \in Texts
    BY <2>1, <2>2, PieceIs
  <2>6. Divided(t, m, u) \in Cuts /\ Divided(t, m, u).managed = Piece(t, a, z)
    <3>0. m[1] = a /\ m[2] = z /\ m[2] + 1 = z + 1  OBVIOUS
    <3>1. CASE u = <<>>
      <4>1. Divided(t, m, u) = [pre |-> Piece(t, 1, f), managed |-> Piece(t, a, z),
                                mid |-> rest, user |-> Absent, post |-> <<>>]
        BY <3>0, <3>1 DEF Divided
      <4>2. <<>> \in Texts  BY EmptySeq DEF Texts
      <4> QED BY <2>2, <2>5, <4>1, <4>2 DEF Cuts
    <3>2. CASE u # <<>>
      <4>1. PICK x \in Nat, y \in Nat, w \in Nat :
               /\ u = <<z + x, z + y, z + w>> /\ 1 <= x /\ x <= y - 1
               /\ y <= w /\ w <= Len(t) - z
        BY <2>3, <3>2
      <4> HIDE DEF u
      <4>2. Piece(t, z + 1, z + x) \in Texts /\ Piece(t, z + y, z + w) \in Texts
            /\ Piece(t, (z + w) + 1, Past(t)) \in Texts
        <5>1. /\ z + 1 \in Nat \ {0} /\ z + x \in Nat /\ z + x <= Len(t) + 1
              /\ z + y \in Nat \ {0} /\ z + w \in Nat /\ z + w <= Len(t) + 1
              /\ (z + w) + 1 \in Nat \ {0} /\ Past(t) \in Nat /\ Past(t) <= Len(t) + 1
          BY <2>1, <2>2, <4>1
        <5> QED BY <5>1, PieceIs
      <4>3. Divided(t, m, u) = [pre |-> Piece(t, 1, f), managed |-> Piece(t, a, z),
                                mid |-> Piece(t, z + 1, z + x), user |-> Piece(t, z + y, z + w),
                                post |-> Piece(t, (z + w) + 1, Past(t))]
        <5>1. u[1] = z + x /\ u[2] = z + y /\ u[3] = z + w  BY <4>1
        <5> QED BY <3>0, <3>2, <5>1 DEF Divided
      <4> QED BY <2>5, <4>2, <4>3 DEF Cuts
    <3> QED BY <3>1, <3>2
  <2>7. Parts(t) \in Cuts /\ Parts(t) # Absent
    BY <2>4, <2>6, RulesAssumption
  <2> QED BY <2>1, <2>4, <2>6, <2>7
<1> QED BY <1>1, <1>2

-----------------------------------------------------------------------------
(* Rules: what takes away, and keeps the words.                            *)

\* Where no token is the user's, a piece has no words.
LEMMA SilentPiece ==
    ASSUME NEW t \in Texts, NEW i \in 1..(Len(t) + 1), NEW j \in i..(Len(t) + 1),
           \A k \in i..(j - 1) : t[k] \notin {Mine, Former}
    PROVE  Piece(t, i, j) \in Texts /\ Said(Piece(t, i, j)) = <<>>
<1>0. Len(t) \in Nat /\ i \in Nat \ {0} /\ j \in Nat /\ j <= Len(t) + 1  BY TextLen
<1> DEFINE p == Piece(t, i, j)
<1>1. /\ p \in Texts /\ Len(p) = (IF i < j THEN j - i ELSE 0)
      /\ \A k \in 1..(j - i) : p[k] = t[i + k - 1]
  BY <1>0, PieceIs
<1> HIDE DEF p
<1>2. \A k \in 1..Len(p) : p[k] \notin {Mine, Former}
  <2>1. SUFFICES ASSUME NEW k \in 1..Len(p) PROVE p[k] \notin {Mine, Former}
    OBVIOUS
  <2>2. k \in 1..(j - i) /\ i + k - 1 \in i..(j - 1)  BY <1>0, <1>1
  <2> QED BY <1>1, <2>2
<1>3. p \in Texts /\ Said(p) = <<>>  BY <1>1, <1>2, SaidNothing
<1> QED BY <1>3 DEF p

\* Of what is blank nothing is the user's.
LEMMA BlankSays ==
    ASSUME NEW t \in Texts, Blank(t)
    PROVE  Said(t) = <<>>
<1>1. \A i \in 1..Len(t) : t[i] \notin {Mine, Former}
  BY DEF Blank, Texts, Newline, Mine, Former
<1> QED BY <1>1, SaidNothing

\* Silent texts around another add nothing.
LEMMA SaidAround ==
    ASSUME NEW a \in Texts, NEW b \in Texts, NEW c \in Texts, Said(a) = <<>>, Said(c) = <<>>
    PROVE  Said(a) \o (Said(b) \o Said(c)) = Said(b)
<1>1. Said(b) \in Seq(Tokens)  BY SaidIs DEF Texts
<1> QED BY <1>1, ConcatEmptySeq

\* normalise takes newlines away, and no words.
LEMMA NormalisedKeeps ==
    ASSUME NEW t \in Texts
    PROVE  Normalised(t) \in Texts /\ Said(Normalised(t)) = Said(t)
<1>1. CASE Blank(t)
  <2>1. Normalised(t) = <<>>  BY <1>1 DEF Normalised
  <2>2. <<>> \in Texts  BY EmptySeq DEF Texts
  <2>3. Said(<<>>) = <<>>  BY <2>2, SaidNothing
  <2> QED BY <1>1, <2>1, <2>2, <2>3, BlankSays
<1>2. CASE ~Blank(t)
  <2> DEFINE solid == {i \in DOMAIN t : t[i] # Newline}
             low == Min(solid)
             high == Max(solid)
             away == {Len(t) - i : i \in solid}
  <2>0. Len(t) \in Nat /\ DOMAIN t = 1..Len(t)  BY TextLen DEF Texts
  <2>1. solid \in SUBSET (1..Len(t)) /\ solid # {}  BY <1>2, <2>0 DEF Blank
  <2>2. low \in solid /\ \A k \in solid : low <= k
    <3> HIDE DEF solid
    <3>1. solid \in SUBSET Nat  BY <2>1
    <3>2. \E m \in solid : \A k \in solid : m <= k  BY <2>1, <3>1, Least
    <3> QED BY <3>2, Zenon DEF Min
  <2>3. high \in solid /\ \A k \in solid : high >= k
    <3> HIDE DEF solid
    <3>1. away \in SUBSET Nat /\ away # {}
      <4>1. \A k \in solid : Len(t) - k \in Nat  BY <2>0, <2>1
      <4>2. PICK k \in solid : TRUE  BY <2>1
      <4>3. Len(t) - k \in away  BY <4>2
      <4> QED BY <4>1, <4>3
    <3>2. \E m \in away : \A k \in away : m <= k
      <4> HIDE DEF away
      <4> QED BY <3>1, Least
    <3>3. PICK x \in solid : \A k \in solid : Len(t) - x <= Len(t) - k  BY <3>2
    <3>4. \A k \in solid : x >= k  BY <2>0, <2>1, <3>3
    <3> QED BY <3>4, Zenon DEF Max
  <2>4. Normalised(t) = Append(SubSeq(t, low, high), Newline)  BY <1>2 DEF Normalised
  <2>5. \A k \in 1..Len(t) : k < low \/ k > high => t[k] = Newline
    <3>1. \A k \in 1..Len(t) : k \notin solid => t[k] = Newline  BY <2>0
    <3>2. \A k \in 1..Len(t) : k < low => k \notin solid
      <4> HIDE DEF solid, low
      <4> QED BY <2>0, <2>1, <2>2
    <3>3. \A k \in 1..Len(t) : k > high => k \notin solid
      <4> HIDE DEF solid, high
      <4> QED BY <2>0, <2>1, <2>3
    <3> QED BY <3>1, <3>2, <3>3
  <2> HIDE DEF low, high
  <2>6. low \in 1..Len(t) /\ high \in low..Len(t)
    <3> HIDE DEF solid
    <3> QED BY <2>0, <2>1, <2>2, <2>3
  <2> HIDE DEF solid, away
  <2> DEFINE p == Piece(t, low, high + 1)
  <2>7. SubSeq(t, low, high) = p /\ p \in Texts
    <3>1. low \in Nat \ {0} /\ high + 1 \in Nat /\ high + 1 <= Len(t) + 1 /\ (high + 1) - 1 = high
      BY <2>0, <2>6
    <3>2. p \in Texts  BY <3>1, PieceIs
    <3> QED BY <3>1, <3>2 DEF Piece
  <2>8. Piece(t, 1, low) \in Texts /\ Said(Piece(t, 1, low)) = <<>>
    <3>1. 1 \in 1..(Len(t) + 1) /\ low \in 1..(Len(t) + 1)  BY <2>0, <2>6
    <3>2. \A k \in 1..(low - 1) : t[k] \notin {Mine, Former}
      BY <2>0, <2>5, <2>6 DEF Newline, Mine, Former
    <3> QED BY <3>1, <3>2, SilentPiece
  <2>9. Piece(t, high + 1, Past(t)) \in Texts /\ Said(Piece(t, high + 1, Past(t))) = <<>>
    <3>1. high + 1 \in 1..(Len(t) + 1) /\ Past(t) \in (high + 1)..(Len(t) + 1)
      BY <2>0, <2>6, TextLen
    <3>2. \A k \in (high + 1)..(Past(t) - 1) : t[k] \notin {Mine, Former}
      BY <2>0, <2>5, <2>6, TextLen DEF Newline, Mine, Former
    <3> QED BY <3>1, <3>2, SilentPiece
  <2>10. Said(t) = Said(Piece(t, 1, low)) \o (Said(p) \o Said(Piece(t, high + 1, Past(t))))
    <3>1. low \in 1..(Len(t) + 1) /\ high + 1 \in low..(Len(t) + 1)  BY <2>0, <2>6
    <3> QED BY <3>1, SaidInThree
  <2>11. Said(t) = Said(p)
    <3> HIDE DEF p
    <3> QED BY <2>7, <2>8, <2>9, <2>10, SaidAround
  <2>12. <<Newline>> \in Texts /\ Said(<<Newline>>) = <<>> /\ Newline \in Tokens
    <3>1. Newline \in Tokens /\ <<Newline>> \in Texts  BY DEF Tokens, Texts
    <3>2. \A i \in 1..Len(<<Newline>>) : <<Newline>>[i] \notin {Mine, Former}
      BY DEF Newline, Mine, Former
    <3> QED BY <3>1, <3>2, SaidNothing
  <2> HIDE DEF p
  <2>13. Append(p, Newline) = p \o <<Newline>>  BY <2>7, <2>12, AppendIsConcat DEF Texts
  <2>14. p \o <<Newline>> \in Texts /\ Said(p \o <<Newline>>) = Said(p) \o Said(<<Newline>>)
    BY <2>7, <2>12, SaidConcat
  <2>15. Said(p) \o <<>> = Said(p)
    <3>1. Said(p) \in Seq(Tokens)  BY <2>7, SaidIs DEF Texts
    <3> QED BY <3>1, ConcatEmptySeq
  <2> QED BY <2>4, <2>7, <2>11, <2>12, <2>13, <2>14, <2>15
<1> QED BY <1>1, <1>2

\* A silent prefix taken off takes no words with it,
LEMMA WithoutPrefixKeeps ==
    ASSUME NEW t \in Texts, NEW p \in Texts, Said(p) = <<>>
    PROVE  WithoutPrefix(t, p) \in Texts /\ Said(WithoutPrefix(t, p)) = Said(t)
<1>1. CASE ~IsPrefix(p, t)  BY <1>1 DEF WithoutPrefix
<1>2. CASE IsPrefix(p, t)
  <2> DEFINE n == Len(p)
             rest == Piece(t, n + 1, Past(t))
             first == Piece(t, 1, n + 1)
  <2>0. n \in Nat /\ Len(t) \in Nat /\ n <= Len(t) /\ Past(t) = Len(t) + 1
    BY <1>2, TextLen DEF IsPrefix
  <2>1. first = p
    <3>1. SubSeq(p, 1, Len(p)) = SubSeq(t, 1, Len(p))  BY <1>2 DEF IsPrefix
    <3>2. SubSeq(p, 1, Len(p)) = p  BY SubSeqFull DEF Texts
    <3>3. (n + 1) - 1 = n  BY <2>0
    <3> QED BY <3>1, <3>2, <3>3 DEF Piece
  <2>2. rest \in Texts /\ t = first \o rest
    <3>1. n + 1 \in 1..(Len(t) + 1) /\ n + 1 \in Nat \ {0} /\ Past(t) \in Nat
          /\ Past(t) <= Len(t) + 1
      BY <2>0
    <3> HIDE DEF n
    <3> QED BY <3>1, CutInTwo, PieceIs
  <2> HIDE DEF first, rest
  <2>3. Said(t) = Said(p) \o Said(rest)  BY <2>1, <2>2, SaidConcat
  <2>4. Said(p) \o Said(rest) = Said(rest)
    <3>1. Said(rest) \in Seq(Tokens)  BY <2>2, SaidIs DEF Texts
    <3> QED BY <3>1, ConcatEmptySeq
  <2>5. WithoutPrefix(t, p) = rest  BY <1>2 DEF WithoutPrefix, rest
  <2> QED BY <2>2, <2>3, <2>4, <2>5
<1> QED BY <1>1, <1>2

\* nor does a silent suffix.
LEMMA WithoutSuffixKeeps ==
    ASSUME NEW t \in Texts, NEW s \in Texts, Said(s) = <<>>
    PROVE  WithoutSuffix(t, s) \in Texts /\ Said(WithoutSuffix(t, s)) = Said(t)
<1>1. CASE ~IsSuffix(s, t)  BY <1>1 DEF WithoutSuffix
<1>2. CASE IsSuffix(s, t)
  <2> DEFINE n == Len(s)
             m == Len(t)
             i == Past(t) - n
             rest == Piece(t, 1, i)
             last == Piece(t, i, Past(t))
             rs == Reverse(s)
             rt == Reverse(t)
  <2>0. n \in Nat /\ m \in Nat /\ Past(t) = m + 1  BY TextLen
  <2>1. /\ rs = [k \in 1..n |-> s[(n - k) + 1]] /\ rt = [k \in 1..m |-> t[(m - k) + 1]]
    BY DEF Reverse
  <2>2. Len(rs) = n /\ Len(rt) = m
    <3> HIDE DEF n, m, rs, rt
    <3> QED BY <2>0, <2>1
  <2>3. n <= m /\ SubSeq(rs, 1, n) = SubSeq(rt, 1, n)
    BY <1>2, <2>2 DEF IsSuffix, IsPrefix
  <2>4. \A k \in 1..n : rs[k] \in Tokens
    <3>1. SUFFICES ASSUME NEW k \in 1..n PROVE rs[k] \in Tokens  OBVIOUS
    <3>2. (n - k) + 1 \in 1..Len(s)  BY <2>0
    <3>3. s[(n - k) + 1] \in Tokens  BY <3>2 DEF Texts
    <3> QED BY <2>1, <3>3
  <2>5. \A k \in 1..n : rt[k] \in Tokens
    <3>1. SUFFICES ASSUME NEW k \in 1..n PROVE rt[k] \in Tokens  OBVIOUS
    <3>2. (m - k) + 1 \in 1..Len(t) /\ k \in 1..m  BY <2>0, <2>3
    <3>3. t[(m - k) + 1] \in Tokens  BY <3>2 DEF Texts
    <3> QED BY <2>1, <3>2, <3>3
  <2> HIDE DEF rs, rt
  <2>6. \A k \in 1..n : rs[k] = rt[k]
    <3> HIDE DEF n
    <3>1. \A k \in 1..(n - 1 + 1) : SubSeq(rs, 1, n)[k] = rs[1 + k - 1]
      BY <2>0, <2>4, SubSeqProperties
    <3>2. \A k \in 1..(n - 1 + 1) : SubSeq(rt, 1, n)[k] = rt[1 + k - 1]
      BY <2>0, <2>5, SubSeqProperties
    <3>3. SUFFICES ASSUME NEW k \in 1..n PROVE rs[k] = rt[k]  OBVIOUS
    <3>4. k \in 1..(n - 1 + 1) /\ 1 + k - 1 = k  BY <2>0
    <3> QED BY <2>3, <3>1, <3>2, <3>4
  <2>7. i \in Nat \ {0} /\ i = (m + 1) - n /\ i <= m + 1  BY <2>0, <2>3
  <2>8. /\ last \in Texts /\ Len(last) = n
        /\ \A k \in 1..n : last[k] = t[i + k - 1]
    <3>1. /\ last \in Texts /\ Len(last) = (IF i < Past(t) THEN Past(t) - i ELSE 0)
          /\ \A k \in 1..(Past(t) - i) : last[k] = t[i + k - 1]
      <4>1. Past(t) \in Nat /\ Past(t) <= Len(t) + 1  BY <2>0
      <4> HIDE DEF i
      <4> QED BY <2>7, <4>1, PieceIs
    <3>2. Past(t) \in Nat /\ Past(t) - i = n /\ i <= Past(t) /\ n \in Nat /\ i \in Nat  BY <2>0, <2>7
    <3> HIDE DEF last, i, n
    <3>3. Len(last) = n  BY <3>1, <3>2
    <3> QED BY <3>1, <3>2, <3>3
  <2>9. \A k \in 1..n : last[k] = s[k]
    <3>1. SUFFICES ASSUME NEW k \in 1..n PROVE last[k] = s[k]  OBVIOUS
    <3> DEFINE j == (n + 1) - k
    <3>2. j \in 1..n /\ j \in 1..m /\ (n - j) + 1 = k /\ (m - j) + 1 = i + k - 1
      BY <2>0, <2>3, <2>7
    <3> HIDE DEF j, i, last
    <3>3. rs[j] = s[k] /\ rt[j] = t[i + k - 1]  BY <2>1, <3>2
    <3> QED BY <2>6, <2>8, <3>2, <3>3
  <2>10. last = s
    <3> HIDE DEF last
    <3>1. last \in Seq(Tokens) /\ s \in Seq(Tokens)  BY <2>8 DEF Texts
    <3> QED BY <2>8, <2>9, <3>1
  <2>11. rest \in Texts /\ t = rest \o last
    <3>1. i \in 1..(Len(t) + 1) /\ i \in Nat /\ i <= Len(t) + 1 /\ 1 \in Nat \ {0}  BY <2>0, <2>7
    <3> HIDE DEF i
    <3> QED BY <3>1, CutInTwo, PieceIs
  <2> HIDE DEF last, rest
  <2>12. Said(t) = Said(rest) \o Said(s)  BY <2>10, <2>11, SaidConcat
  <2>13. Said(rest) \o Said(s) = Said(rest)
    <3>1. Said(rest) \in Seq(Tokens)  BY <2>11, SaidIs DEF Texts
    <3> QED BY <3>1, ConcatEmptySeq
  <2>14. WithoutSuffix(t, s) = rest  BY <1>2 DEF WithoutSuffix, rest, i
  <2> QED BY <2>11, <2>12, <2>13, <2>14
<1> QED BY <1>1, <1>2

\* All of a text that is not between omm's markers nor on their lines.
Outer(p) == p.pre \o p.mid \o (IF p.user = Absent THEN <<>> ELSE p.user) \o p.post

\* Of what omm writes around its block nothing is the user's.
Silent(frame) ==
    /\ frame \in Outsides
    /\ Said(frame.pre) = <<>> /\ Said(frame.mid) = <<>>
    /\ Said(frame.post) = <<>> /\ Said(frame.user) = <<>>

\* The empty text, and none at all.
LEMMA NoText == <<>> \in Texts /\ Said(<<>>) = <<>> /\ Absent \notin Texts
<1>1. <<>> \in Texts  BY EmptySeq DEF Texts
<1>2. Said(<<>>) = <<>>
  <2>1. \A i \in 1..Len(<<>>) : <<>>[i] \notin {Mine, Former}  OBVIOUS
  <2> QED BY <1>1, <2>1, SaidNothing
<1> QED BY <1>1, <1>2, RulesAssumption

\* Four texts, one after the other.
Joined(a, b, c, d) == a \o b \o c \o d

\* The words of four texts are those of each, in order.
LEMMA SaidOfFour ==
    ASSUME NEW a \in Texts, NEW b \in Texts, NEW c \in Texts, NEW d \in Texts
    PROVE  /\ Joined(a, b, c, d) \in Texts
           /\ Said(Joined(a, b, c, d)) = Joined(Said(a), Said(b), Said(c), Said(d))
<1>1. a \o b \in Texts /\ Said(a \o b) = Said(a) \o Said(b)  BY SaidConcat
<1>2. a \o b \o c \in Texts /\ Said(a \o b \o c) = Said(a \o b) \o Said(c)  BY <1>1, SaidConcat
<1>3. a \o b \o c \o d \in Texts /\ Said(a \o b \o c \o d) = Said(a \o b \o c) \o Said(d)
  BY <1>2, SaidConcat
<1> QED BY <1>1, <1>2, <1>3, Zenon DEF Joined

\* Taking the block out keeps the user's words.
LEMMA WithoutBlockKeeps ==
    ASSUME NEW p \in Cuts, NEW frame, Silent(frame)
    PROVE  WithoutBlock(p, frame) \in Texts /\ Said(WithoutBlock(p, frame)) = Said(Outer(p))
<1>0. /\ p.pre \in Texts /\ p.mid \in Texts /\ p.post \in Texts
      /\ p.user \in Texts \cup {Absent}
      /\ frame.pre \in Texts /\ frame.mid \in Texts /\ frame.post \in Texts /\ frame.user \in Texts
      /\ Said(frame.pre) = <<>> /\ Said(frame.mid) = <<>>
      /\ Said(frame.post) = <<>> /\ Said(frame.user) = <<>>
  BY DEF Cuts, Silent, Outsides
<1> DEFINE words == IF p.user = Absent THEN <<>> ELSE p.user
           user == IF p.user = Absent THEN <<>> ELSE Normalised(p.user)
           mine == IF frame # Absent /\ frame.user # <<>> /\ Normalised(frame.user) = user
                   THEN <<>> ELSE user
           mid == IF IsPrefix(frame.mid, p.mid) THEN WithoutPrefix(p.mid, frame.mid)
                  ELSE WithoutSuffix(p.mid, frame.mid)
           pre == WithoutSuffix(p.pre, frame.pre)
           post == WithoutPrefix(p.post, frame.post)
<1>1. words \in Texts /\ user \in Texts /\ Said(user) = Said(words)
  BY <1>0, NormalisedKeeps, NoText
<1>2. mine \in Texts /\ Said(mine) = Said(words)
  <2> HIDE DEF user, words
  <2>1. CASE frame # Absent /\ frame.user # <<>> /\ Normalised(frame.user) = user
    <3>1. Said(user) = <<>>  BY <1>0, <2>1, NormalisedKeeps
    <3> QED BY <1>1, <2>1, <3>1, NoText
  <2>2. CASE ~(frame # Absent /\ frame.user # <<>> /\ Normalised(frame.user) = user)
    BY <1>1, <2>2
  <2> QED BY <2>1, <2>2
<1>3. mid \in Texts /\ Said(mid) = Said(p.mid)
  BY <1>0, WithoutPrefixKeeps, WithoutSuffixKeeps
<1>4. pre \in Texts /\ Said(pre) = Said(p.pre)  BY <1>0, WithoutSuffixKeeps
<1>5. post \in Texts /\ Said(post) = Said(p.post)  BY <1>0, WithoutPrefixKeeps
<1>6. /\ Said(Joined(p.pre, p.mid, words, p.post))
            = Joined(Said(p.pre), Said(p.mid), Said(words), Said(p.post))
      /\ Said(Joined(p.pre, p.mid, mine, p.post))
            = Joined(Said(p.pre), Said(p.mid), Said(mine), Said(p.post))
      /\ Joined(p.pre, p.mid, mine, p.post) \in Texts
      /\ Said(Joined(pre, mid, mine, post))
            = Joined(Said(pre), Said(mid), Said(mine), Said(post))
      /\ Joined(pre, mid, mine, post) \in Texts
  <2> HIDE DEF words, mine, pre, mid, post
  <2> DEFINE x == p.pre
             y == p.mid
             z == p.post
  <2>0. x \in Texts /\ y \in Texts /\ z \in Texts  BY <1>0
  <2> HIDE DEF x, y, z
  <2>1. Said(Joined(x, y, words, z))
           = Joined(Said(x), Said(y), Said(words), Said(z))
    BY <2>0, <1>1, SaidOfFour
  <2>2. /\ Said(Joined(x, y, mine, z))
              = Joined(Said(x), Said(y), Said(mine), Said(z))
        /\ Joined(x, y, mine, z) \in Texts
    BY <2>0, <1>2, SaidOfFour
  <2>3. /\ Said(Joined(pre, mid, mine, post)) = Joined(Said(pre), Said(mid), Said(mine), Said(post))
        /\ Joined(pre, mid, mine, post) \in Texts
    BY <1>2, <1>3, <1>4, <1>5, SaidOfFour
  <2> QED BY <2>1, <2>2, <2>3 DEF x, y, z
<1>7. WithoutBlock(p, frame) = IF frame = Absent THEN Joined(p.pre, p.mid, mine, p.post)
                               ELSE Joined(pre, mid, mine, post)
  BY Zenon DEF WithoutBlock, Joined
<1>8. Outer(p) = Joined(p.pre, p.mid, words, p.post)
  BY Zenon DEF Outer, Joined
<1> HIDE DEF words, mine, pre, mid, post, user
<1>9. CASE frame = Absent
  BY <1>2, <1>6, <1>7, <1>8, <1>9
<1>10. CASE frame # Absent
  BY <1>2, <1>3, <1>4, <1>5, <1>6, <1>7, <1>8, <1>10
<1> QED BY <1>9, <1>10

\* Texts with the same tokens are the same.
LEMMA SameText ==
    ASSUME NEW s \in Texts, NEW t \in Texts, Len(s) = Len(t), \A i \in 1..Len(s) : s[i] = t[i]
    PROVE  s = t
  BY DEF Texts

-----------------------------------------------------------------------------
(* Rules: the template.                                                    *)

\* A line of the template is neither a marker nor a word.
LEMMA VersionApart ==
    ASSUME NEW v \in Versions
    PROVE  /\ v \in Tokens
           /\ v \notin {ManagedStart, ManagedEnd, UserStart, UserEnd, Newline, Title,
                        Placeholder, Mine, Former}
  BY RulesAssumption DEF Tokens, Markers

\* The template has a block, and no words of the user.
LEMMA TemplateIs ==
    ASSUME NEW v \in Versions
    PROVE  /\ Template(v) \in Texts /\ Said(Template(v)) = <<>>
           /\ Between(Template(v), ManagedStart, ManagedEnd) = <<5, 7>>
           /\ Piece(Template(v), 8, Past(Template(v))) =
                 <<Newline, Newline, UserStart, Newline, Placeholder, Newline, UserEnd, Newline>>
<1> DEFINE t == Template(v)
<1>0. v \in Tokens /\ v # ManagedEnd /\ v # Mine /\ v # Former  BY VersionApart
<1>1. t \in Texts /\ Len(t) = 15
  BY <1>0 DEF Template, Texts, Tokens, Markers
<1>2. /\ t[1] = Title /\ t[2] = Newline /\ t[3] = ManagedStart /\ t[4] = Newline /\ t[5] = v
      /\ t[6] = Newline /\ t[7] = ManagedEnd /\ t[8] = Newline /\ t[9] = Newline
      /\ t[10] = UserStart /\ t[11] = Newline /\ t[12] = Placeholder /\ t[13] = Newline
      /\ t[14] = UserEnd /\ t[15] = Newline
  BY DEF Template
<1> HIDE DEF t
<1>3. Said(t) = <<>>
  <2>1. \A i \in 1..7 : t[i] \notin {Mine, Former}
    BY <1>0, <1>2 DEF ManagedStart, ManagedEnd, Newline, Title, Mine, Former
  <2>2. \A i \in 8..15 : t[i] \notin {Mine, Former}
    BY <1>2 DEF UserStart, UserEnd, Newline, Placeholder, Mine, Former
  <2>3. \A i \in 1..Len(t) : t[i] \notin {Mine, Former}
    <3> TAKE i \in 1..Len(t)
    <3>1. i \in 1..7 \/ i \in 8..15  BY <1>1
    <3> QED BY <2>1, <2>2, <3>1
  <2> QED BY <1>1, <2>3, SaidNothing
<1>4. Find(t, ManagedStart, 1) = 3
  <2>1. 3 \in 1..Len(t) /\ 1 \in Nat \ {0} /\ \A j \in 1..(3 - 1) : t[j] # ManagedStart
    BY <1>1, <1>2 DEF ManagedStart, Newline, Title
  <2>2. t[3] = ManagedStart  BY <1>2
  <2> QED BY <1>1, <2>1, <2>2, FindAt
<1>5. Find(t, Newline, 4) = 4
  <2>1. 4 \in 4..Len(t) /\ 4 \in Nat \ {0} /\ \A j \in 4..(4 - 1) : t[j] # Newline
    BY <1>1
  <2>2. t[4] = Newline  BY <1>2
  <2> QED BY <1>1, <2>1, <2>2, FindAt
<1>6. Find(t, ManagedEnd, 5) = 7
  <2>1. 7 \in 5..Len(t) /\ 5 \in Nat \ {0} /\ \A j \in 5..(7 - 1) : t[j] # ManagedEnd
    BY <1>0, <1>1, <1>2 DEF ManagedEnd, Newline
  <2>2. t[7] = ManagedEnd  BY <1>2
  <2> QED BY <1>1, <2>1, <2>2, FindAt
<1>7. Between(t, ManagedStart, ManagedEnd) = <<5, 7>>
  BY <1>4, <1>5, <1>6 DEF Between, Behind, LineEnd, UpTo
<1> DEFINE r == Piece(t, 8, Past(t))
           q == <<Newline, Newline, UserStart, Newline, Placeholder, Newline, UserEnd, Newline>>
<1>8. r = q
  <2>0. Past(t) = Len(t) + 1  BY <1>1, TextLen
  <2>1. Past(t) = 16 /\ 8 \in Nat \ {0} /\ 16 \in Nat /\ 16 <= Len(t) + 1  BY <1>1, <2>0
  <2>2. r \in Texts /\ Len(r) = 8 /\ \A k \in 1..8 : r[k] = t[8 + k - 1]
    <3>1. /\ Piece(t, 8, 16) \in Texts /\ Len(Piece(t, 8, 16)) = (IF 8 < 16 THEN 16 - 8 ELSE 0)
          /\ \A k \in 1..(16 - 8) : Piece(t, 8, 16)[k] = t[8 + k - 1]
      BY <1>1, <2>1, PieceIs
    <3> QED BY <2>1, <3>1
  <2>3. q \in Texts /\ Len(q) = 8
    BY DEF Texts, Tokens, Markers
  <2> HIDE DEF r
  <2>4. r[1] = q[1] /\ r[2] = q[2] /\ r[3] = q[3] /\ r[4] = q[4] /\ r[5] = q[5] /\ r[6] = q[6]
        /\ r[7] = q[7] /\ r[8] = q[8]
    BY <1>2, <2>2
  <2> HIDE DEF q
  <2>5. \A k \in 1..8 : r[k] = q[k]  BY <2>4
  <2> QED BY <2>2, <2>3, <2>5, SameText
<1> QED BY <1>1, <1>3, <1>7, <1>8 DEF t, r

\* What the template has around the block, and what is left of it, is the same
\* of every version.
Around0 == [pre |-> <<Title, Newline>>, mid |-> <<Newline, Newline>>, post |-> <<Newline>>,
            user |-> <<Placeholder, Newline>>]

\* Texts of a token or two.
LEMMA Bits ==
    /\ \A x \in Tokens : <<x>> \in Texts /\ Len(<<x>>) = 1
    /\ \A x, y \in Tokens : <<x, y>> \in Texts /\ Len(<<x, y>>) = 2
    /\ Newline \in Tokens /\ Title \in Tokens /\ Placeholder \in Tokens
    /\ ManagedStart \in Tokens /\ ManagedEnd \in Tokens
    /\ UserStart \in Tokens /\ UserEnd \in Tokens
  BY DEF Texts, Tokens, Markers

\* They have no words, when the tokens are not the user's.
LEMMA SilentBits ==
    ASSUME NEW x \in Tokens, NEW y \in Tokens, x \notin {Mine, Former}, y \notin {Mine, Former}
    PROVE  Said(<<x>>) = <<>> /\ Said(<<x, y>>) = <<>>
<1>1. \A i \in 1..1 : <<x>>[i] \notin {Mine, Former}  OBVIOUS
<1>2. \A i \in 1..2 : <<x, y>>[i] \notin {Mine, Former}  OBVIOUS
<1>3. <<x>> \in Texts /\ Len(<<x>>) = 1 /\ <<x, y>> \in Texts /\ Len(<<x, y>>) = 2  BY Bits
<1>4. Said(<<x>>) = <<>>
  <2> DEFINE t == <<x>>
  <2>1. t \in Texts /\ \A i \in 1..Len(t) : t[i] \notin {Mine, Former}  BY <1>1, <1>3
  <2> HIDE DEF t
  <2>2. Said(t) = <<>>  BY <2>1, SaidNothing
  <2> QED BY <2>2 DEF t
<1>5. Said(<<x, y>>) = <<>>
  <2> DEFINE t == <<x, y>>
  <2>1. t \in Texts /\ \A i \in 1..Len(t) : t[i] \notin {Mine, Former}  BY <1>2, <1>3
  <2> HIDE DEF t
  <2>2. Said(t) = <<>>  BY <2>1, SaidNothing
  <2> QED BY <2>2 DEF t
<1> QED BY <1>4, <1>5

\* The placeholder stands on one line already.
LEMMA OneBlank ==
    /\ Newline \notin {Mine, Former} /\ Title \notin {Mine, Former} /\ Placeholder \notin {Mine, Former}
    /\ Normalised(<<Placeholder, Newline>>) = <<Placeholder, Newline>>
    /\ Normalised(<<>>) = <<>>
<1>1. Newline \notin {Mine, Former} /\ Title \notin {Mine, Former} /\ Placeholder \notin {Mine, Former}
  BY DEF Newline, Title, Placeholder, Mine, Former
<1> DEFINE t == <<Placeholder, Newline>>
           solid == {i \in DOMAIN t : t[i] # Newline}
<1>2. DOMAIN t = 1..2 /\ t[1] = Placeholder /\ t[2] = Newline /\ Placeholder # Newline
  BY DEF Placeholder, Newline
<1>3. solid = {1} /\ ~Blank(t)
  <2> HIDE DEF t
  <2> QED BY <1>2 DEF Blank
<1>4. Min(solid) = 1 /\ Max(solid) = 1
  <2>1. Min({1}) = 1 /\ Max({1}) = 1  BY DEF Min, Max
  <2> HIDE DEF solid
  <2> QED BY <1>3, <2>1
<1>5. Normalised(t) = Append(SubSeq(t, 1, 1), Newline)
  <2> HIDE DEF t
  <2> QED BY <1>3, <1>4 DEF Normalised
<1>a. t = <<Placeholder>> \o <<Newline>>  OBVIOUS
<1>6. SubSeq(t, 1, 1) = <<Placeholder>>
  <2>1. t \in Seq(Tokens) /\ Len(t) = 2  BY Bits DEF Texts
  <2>3. <<Placeholder>> \in Seq(Tokens) /\ <<Newline>> \in Seq(Tokens) /\ Len(<<Placeholder>>) = 1
    BY Bits DEF Texts
  <2>4. SubSeq(<<Placeholder>> \o <<Newline>>, 1, 1) = SubSeq(<<Placeholder>>, 1, 1)
    <3>1. 1 \in 1..Len(<<Placeholder>>)  BY <2>3
    <3> QED BY <2>3, <3>1, SubSeqOfConcat1
  <2>5. SubSeq(<<Placeholder>>, 1, 1) = <<Placeholder>>  BY <2>3, SubSeqFull
  <2> QED BY <1>a, <2>4, <2>5
<1>7. Append(<<Placeholder>>, Newline) = <<Placeholder, Newline>>
  <2>1. <<Placeholder>> \in Seq(Tokens) /\ Newline \in Tokens  BY Bits DEF Texts
  <2>2. Append(<<Placeholder>>, Newline) = <<Placeholder>> \o <<Newline>>  BY <2>1, AppendIsConcat
  <2> QED BY <1>a, <2>2
<1>8. Normalised(<<>>) = <<>>
  <2>1. Blank(<<>>)  BY DEF Blank
  <2> QED BY <2>1 DEF Normalised
<1> QED BY <1>1, <1>5, <1>6, <1>7, <1>8

\* How the template is cut.
LEMMA TemplateParts ==
    ASSUME NEW v \in Versions
    PROVE  /\ Parts(Template(v)) =
                 [pre |-> <<Title, Newline>>, managed |-> Managed(v), mid |-> <<Newline, Newline>>,
                  user |-> <<Placeholder, Newline>>, post |-> <<Newline>>]
           /\ Parts(Template(v)) # Absent
           /\ TemplateFrame(v) = Around0
<1> DEFINE t == Template(v)
           r == Piece(t, 8, Past(t))
<1>1. /\ t \in Texts /\ Between(t, ManagedStart, ManagedEnd) = <<5, 7>>
      /\ r = <<Newline, Newline, UserStart, Newline, Placeholder, Newline, UserEnd, Newline>>
  BY TemplateIs
<1>2. /\ t[1] = Title /\ t[2] = Newline /\ t[3] = ManagedStart /\ t[4] = Newline /\ t[5] = v
      /\ t[6] = Newline /\ t[7] = ManagedEnd /\ t[8] = Newline /\ t[9] = Newline
      /\ t[10] = UserStart /\ t[11] = Newline /\ t[12] = Placeholder /\ t[13] = Newline
      /\ t[14] = UserEnd /\ t[15] = Newline /\ Len(t) = 15
  BY DEF Template
<1>3. Find(t, ManagedStart, 1) = 3
  <2>1. 3 \in 1..Len(t) /\ 1 \in Nat \ {0} /\ \A j \in 1..(3 - 1) : t[j] # ManagedStart
    BY <1>2 DEF ManagedStart, Newline, Title
  <2>2. t[3] = ManagedStart  BY <1>2
  <2> HIDE DEF t
  <2> QED BY <1>1, <2>1, <2>2, FindAt
<1>4. UserAfter(r, 7) = <<10, 12, 14>>
  <2>0. r \in Texts /\ Len(r) = 8
    <3> HIDE DEF r
    <3> QED BY <1>1, Bits DEF Texts
  <2>1. /\ r[1] = Newline /\ r[2] = Newline /\ r[3] = UserStart /\ r[4] = Newline
        /\ r[5] = Placeholder /\ r[6] = Newline /\ r[7] = UserEnd /\ r[8] = Newline
    <3> HIDE DEF r
    <3> QED BY <1>1
  <2> HIDE DEF r
  <2>2. Find(r, UserStart, 1) = 3
    <3>1. 3 \in 1..Len(r) /\ 1 \in Nat \ {0} /\ \A j \in 1..(3 - 1) : r[j] # UserStart
      BY <2>0, <2>1 DEF UserStart, Newline
    <3> QED BY <2>0, <2>1, <3>1, FindAt
  <2>3. Find(r, Newline, 4) = 4
    <3>1. 4 \in 4..Len(r) /\ 4 \in Nat \ {0} /\ \A j \in 4..(4 - 1) : r[j] # Newline
      BY <2>0, <2>1
    <3> QED BY <2>0, <2>1, <3>1, FindAt
  <2>4. Find(r, UserEnd, 5) = 7
    <3>1. 7 \in 5..Len(r) /\ 5 \in Nat \ {0} /\ \A j \in 5..(7 - 1) : r[j] # UserEnd
      BY <2>0, <2>1 DEF UserEnd, Newline, Placeholder
    <3> QED BY <2>0, <2>1, <3>1, FindAt
  <2>5. Between(r, UserStart, UserEnd) = <<5, 7>>
    BY <2>2, <2>3, <2>4 DEF Between, Behind, LineEnd, UpTo
  <2> QED BY <2>2, <2>5 DEF UserAfter, Counted
<1>5. Parts(t) = Divided(t, <<5, 7>>, <<10, 12, 14>>)
  <2>1. Parts(t) = Divided(t, <<5, 7>>, UserAfter(Piece(t, 7 + 1, Past(t)), 7))
    <3> HIDE DEF t
    <3> QED BY <1>1 DEF Parts, PartsAt
  <2>2. 7 + 1 = 8  OBVIOUS
  <2> QED BY <1>4, <2>1, <2>2
<1> HIDE DEF t
<1>6. v \in Tokens  BY VersionApart
<1>7. Past(t) = 16
  <2>1. Past(t) = Len(t) + 1  BY <1>1, TextLen
  <2> QED BY <1>2, <2>1
<1>8. /\ Piece(t, 1, 3) = <<Title, Newline>> /\ Piece(t, 5, 7) = <<v, Newline>>
      /\ Piece(t, 8, 10) = <<Newline, Newline>> /\ Piece(t, 12, 14) = <<Placeholder, Newline>>
  <2>1. ASSUME NEW i \in {1, 5, 8, 12} PROVE Piece(t, i, i + 2) = <<t[i], t[i + 1]>>
    <3>1. i \in Nat \ {0} /\ i + 2 \in Nat /\ i + 2 <= Len(t) + 1  BY <1>2
    <3> DEFINE p == Piece(t, i, i + 2)
               q == <<t[i], t[i + 1]>>
    <3>2. /\ p \in Texts /\ Len(p) = (IF i < i + 2 THEN (i + 2) - i ELSE 0)
          /\ \A k \in 1..((i + 2) - i) : p[k] = t[i + k - 1]
      BY <1>1, <3>1, PieceIs
    <3> HIDE DEF p
    <3>3. (i + 2) - i = 2 /\ i < i + 2 /\ i + 1 - 1 = i /\ i + 2 - 1 = i + 1  BY <3>1
    <3>4. Len(p) = 2 /\ p[1] = t[i] /\ p[2] = t[i + 1]  BY <3>2, <3>3
    <3>5. t[i] \in Tokens /\ t[i + 1] \in Tokens
      <4>1. i \in 1..Len(t) /\ i + 1 \in 1..Len(t)  BY <1>2
      <4> QED BY <1>1, <4>1 DEF Texts
    <3>6. q \in Texts /\ Len(q) = 2 /\ q[1] = t[i] /\ q[2] = t[i + 1]  BY <3>5, Bits
    <3> HIDE DEF q
    <3>7. \A k \in 1..Len(p) : p[k] = q[k]  BY <3>4, <3>6
    <3>8. p = q  BY <3>2, <3>4, <3>6, <3>7, SameText
    <3> QED BY <3>8 DEF p, q
  <2>2. /\ Piece(t, 1, 1 + 2) = <<t[1], t[1 + 1]>> /\ Piece(t, 5, 5 + 2) = <<t[5], t[5 + 1]>>
        /\ Piece(t, 8, 8 + 2) = <<t[8], t[8 + 1]>> /\ Piece(t, 12, 12 + 2) = <<t[12], t[12 + 1]>>
    BY <2>1
  <2> QED BY <1>2, <2>2
<1>9. Piece(t, 15, 16) = <<Newline>>
  <2> DEFINE p == Piece(t, 15, 16)
             q == <<Newline>>
  <2>1. /\ p \in Texts /\ Len(p) = (IF 15 < 16 THEN 16 - 15 ELSE 0)
        /\ \A k \in 1..(16 - 15) : p[k] = t[15 + k - 1]
    <3>1. 15 \in Nat \ {0} /\ 16 \in Nat /\ 16 <= Len(t) + 1  BY <1>2
    <3> QED BY <1>1, <3>1, PieceIs
  <2> HIDE DEF p
  <2>2. Len(p) = 1 /\ p[1] = Newline  BY <1>2, <2>1
  <2>3. q \in Texts /\ Len(q) = 1 /\ q[1] = Newline  BY Bits
  <2> HIDE DEF q
  <2>4. p = q  BY <2>1, <2>2, <2>3, SameText
  <2> QED BY <2>4 DEF p, q
<1>10. Parts(t) = [pre |-> <<Title, Newline>>, managed |-> Managed(v), mid |-> <<Newline, Newline>>,
                   user |-> <<Placeholder, Newline>>, post |-> <<Newline>>]
  <2> DEFINE m == <<5, 7>>
             u == <<10, 12, 14>>
  <2>1. m[1] = 5 /\ m[2] = 7 /\ m[2] + 1 = 8 /\ u # <<>> /\ u[1] = 10 /\ u[2] = 12
        /\ u[3] = 14 /\ u[3] + 1 = 15
    OBVIOUS
  <2> HIDE DEF m, u
  <2>2. Divided(t, m, u) = [pre |-> Piece(t, 1, 3), managed |-> Piece(t, 5, 7),
                            mid |-> Piece(t, 8, 10), user |-> Piece(t, 12, 14),
                            post |-> Piece(t, 15, 16)]
    BY <1>3, <1>7, <2>1, Zenon DEF Divided
  <2>3. Parts(t) = Divided(t, m, u)  BY <1>5 DEF m, u
  <2> QED BY <1>8, <1>9, <2>2, <2>3, Zenon DEF Managed
<1>11. Parts(t) # Absent
  BY <1>1, PartsIs, NoText
<1>12. TemplateFrame(v) = Around0
  <2> DEFINE p == Parts(t)
  <2>1. /\ p.pre = <<Title, Newline>> /\ p.mid = <<Newline, Newline>> /\ p.post = <<Newline>>
        /\ p.user = <<Placeholder, Newline>>
    BY <1>10
  <2>2. p.user # Absent  BY <2>1, Bits, NoText
  <2>3. TemplateFrame(v) = Frame(p)  BY Zenon DEF TemplateFrame, t
  <2> HIDE DEF p
  <2> QED BY <2>1, <2>2, <2>3, OneBlank DEF Frame, Around0
<1> QED BY <1>10, <1>11, <1>12 DEF t

\* Both frames that omm writes.
LEMMA FramesAreSilent == Silent(Around0) /\ Silent(InsertedFrame)
  BY Bits, SilentBits, OneBlank, NoText DEF Silent, Around0, InsertedFrame, Outsides

-----------------------------------------------------------------------------
(* Rules: the block is written, and the words around it stay.              *)

\* A text with a block of which nothing is the user's.
Fit(t) == t \in Texts /\ Parts(t) # Absent /\ Said(Parts(t).managed) = <<>>

\* A text whose block is silent is one that omm may have written.
LEMMA FitIs ==
    ASSUME NEW t \in Texts, NEW a \in Nat, NEW z \in Nat,
           Between(t, ManagedStart, ManagedEnd) = <<a, z>>, Said(Piece(t, a, z)) = <<>>
    PROVE  Fit(t)
<1>1. /\ Parts(t) # Absent
      /\ \E b, y \in Nat : /\ Between(t, ManagedStart, ManagedEnd) = <<b, y>>
                           /\ Parts(t).managed = Piece(t, b, y)
  BY PartsIs
<1>2. PICK b \in Nat, y \in Nat : /\ Between(t, ManagedStart, ManagedEnd) = <<b, y>>
                                  /\ Parts(t).managed = Piece(t, b, y)
  BY <1>1
<1>3. b = a /\ y = z  BY <1>2
<1> QED BY <1>1, <1>2, <1>3 DEF Fit

\* The words around a block are those before and those after it.
LEMMA AroundIs ==
    ASSUME NEW t \in Texts, NEW a \in Nat, NEW z \in Nat,
           Between(t, ManagedStart, ManagedEnd) = <<a, z>>, 2 <= a, a <= z, z <= Len(t)
    PROVE  /\ Around(t) = Said(Piece(t, 1, a)) \o Said(Piece(t, z, Past(t)))
           /\ Piece(t, 1, a) \in Texts /\ Piece(t, z, Past(t)) \in Texts
<1> DEFINE p == Piece(t, 1, a)
           s == Piece(t, z, Past(t))
<1>1. p \in Texts /\ s \in Texts
  <2>1. /\ 1 \in Nat \ {0} /\ a \in Nat /\ a <= Len(t) + 1
        /\ z \in Nat \ {0} /\ Past(t) \in Nat /\ Past(t) <= Len(t) + 1
    BY TextLen
  <2> QED BY <2>1, PieceIs
<1>2. Around(t) = Own(p \o s)
  <2>1. t # Absent  BY NoText
  <2> DEFINE r == <<a, z>>
  <2>2. r # <<>> /\ r[1] = a /\ r[2] = z  OBVIOUS
  <2> HIDE DEF r
  <2>3. Between(t, ManagedStart, ManagedEnd) = r  BY DEF r
  <2> QED BY <2>1, <2>2, <2>3, Zenon DEF Around
<1> HIDE DEF p, s
<1>3. p \o s \in Texts /\ Said(p \o s) = Said(p) \o Said(s)  BY <1>1, SaidConcat
<1>4. Own(p \o s) = Said(p \o s)  BY <1>3, NoText DEF Own
<1> QED BY <1>1, <1>2, <1>3, <1>4 DEF p, s

\* Where a block has no words, those around it are those of the text.
LEMMA FitSays ==
    ASSUME NEW t, Fit(t)
    PROVE  Around(t) = Own(t) /\ Own(t) = Said(t)
<1>1. t \in Texts /\ Parts(t) # Absent /\ t # Absent  BY NoText DEF Fit
<1>2. PICK a \in Nat, z \in Nat :
         /\ Between(t, ManagedStart, ManagedEnd) = <<a, z>>
         /\ 2 <= a /\ a <= z /\ z <= Len(t)
         /\ Parts(t).managed = Piece(t, a, z)
  BY <1>1, PartsIs
<1>3. Said(Piece(t, a, z)) = <<>>  BY <1>2 DEF Fit
<1>4. a \in 1..(Len(t) + 1) /\ z \in a..(Len(t) + 1)  BY <1>1, <1>2, TextLen
<1>5. Said(t) = Said(Piece(t, 1, a)) \o Said(Piece(t, z, Past(t)))
  BY <1>1, <1>3, <1>4, SaidNoneParts
<1>6. Around(t) = Said(Piece(t, 1, a)) \o Said(Piece(t, z, Past(t)))
  BY <1>1, <1>2, AroundIs
<1>7. Around(t) = Said(t)  BY <1>5, <1>6, Zenon
<1> QED BY <1>1, <1>7 DEF Own

\* What omm writes into its block has no words of the user.
LEMMA ManagedIs ==
    ASSUME NEW v \in Versions
    PROVE  /\ Managed(v) \in Texts /\ Len(Managed(v)) = 2 /\ Said(Managed(v)) = <<>>
           /\ Managed(v)[1] = v /\ Managed(v)[2] = Newline
  BY VersionApart, Bits, SilentBits, OneBlank DEF Managed

\* A text between two others.
Three(p, q, s) == p \o q \o s
\* A text that has the tokens of three, in their order.
ThreeOf(r, p, q, s) ==
    /\ r \in Texts /\ Len(r) = Len(p) + Len(q) + Len(s)
    /\ Len(p) \in Nat /\ Len(q) \in Nat /\ Len(s) \in Nat
    /\ \A i \in 1..Len(p) : r[i] = p[i]
    /\ \A i \in 1..Len(q) : r[Len(p) + i] = q[i]
    /\ \A i \in 1..Len(s) : r[Len(p) + Len(q) + i] = s[i]

\* So has their concatenation, and their words in order.
LEMMA ThreeIs ==
    ASSUME NEW p \in Texts, NEW q \in Texts, NEW s \in Texts
    PROVE  ThreeOf(Three(p, q, s), p, q, s) /\ Said(Three(p, q, s)) = Three(Said(p), Said(q), Said(s))
<1> DEFINE l == Len(p)
           m == Len(q)
           n == Len(s)
           b == p \o q
           c == b \o s
<1>1. l \in Nat /\ m \in Nat /\ n \in Nat  BY TextLen
<1>2. /\ b \in Texts /\ Len(b) = l + m
      /\ \A i \in 1..l + m : b[i] = IF i <= l THEN p[i] ELSE q[i - l]
  BY ConcatProperties DEF Texts
<1>3. Said(b) = Said(p) \o Said(q)  BY SaidConcat
<1> HIDE DEF b
<1>4. /\ c \in Texts /\ Len(c) = Len(b) + n
      /\ \A i \in 1..Len(b) + n : c[i] = IF i <= Len(b) THEN b[i] ELSE s[i - Len(b)]
  <2>1. b \in Seq(Tokens) /\ s \in Seq(Tokens)  BY <1>2 DEF Texts
  <2>2. /\ b \o s \in Seq(Tokens) /\ Len(b \o s) = Len(b) + Len(s)
        /\ \A i \in 1..Len(b) + Len(s) : (b \o s)[i] = IF i <= Len(b) THEN b[i] ELSE s[i - Len(b)]
    BY ONLY <2>1, ConcatProperties
  <2> QED BY ONLY <2>2 DEF Texts, n, c
<1>5. Said(c) = Said(b) \o Said(s)  BY <1>2, SaidConcat
<1> HIDE DEF c, l, m, n
<1>6. Len(c) = l + m + n  BY <1>1, <1>2, <1>4
<1>7. \A i \in 1..l : c[i] = p[i]
  <2>1. SUFFICES ASSUME NEW i \in 1..l PROVE c[i] = p[i]  OBVIOUS
  <2>2. i \in 1..l + m /\ i <= l /\ i \in 1..(l + m) + n /\ i <= l + m  BY <1>1
  <2> QED BY <1>2, <1>4, <2>2
<1>8. \A i \in 1..m : c[l + i] = q[i]
  <2>1. SUFFICES ASSUME NEW i \in 1..m PROVE c[l + i] = q[i]  OBVIOUS
  <2>2. /\ l + i \in 1..l + m /\ ~(l + i <= l) /\ l + i \in 1..(l + m) + n /\ l + i <= l + m
        /\ (l + i) - l = i
    BY <1>1
  <2> QED BY <1>2, <1>4, <2>2
<1>9. \A i \in 1..n : c[l + m + i] = s[i]
  <2>1. SUFFICES ASSUME NEW i \in 1..n PROVE c[l + m + i] = s[i]  OBVIOUS
  <2>2. l + m + i \in 1..(l + m) + n /\ ~(l + m + i <= l + m) /\ (l + m + i) - (l + m) = i
    BY <1>1
  <2> QED BY <1>2, <1>4, <2>2
<1>10. Said(c) = Three(Said(p), Said(q), Said(s))  BY <1>3, <1>5, Zenon DEF Three
<1>11. c = Three(p, q, s)  BY Zenon DEF Three, b, c
<1>12. ThreeOf(c, p, q, s)  BY <1>1, <1>4, <1>6, <1>7, <1>8, <1>9 DEF l, m, n, ThreeOf
<1> QED BY <1>10, <1>11, <1>12

\* The pieces of a text put together of three.
LEMMA PiecesBack ==
    ASSUME NEW p \in Texts, NEW q \in Texts, NEW s \in Texts
    PROVE  /\ Piece(Three(p, q, s), 1, Len(p) + 1) = p
           /\ Piece(Three(p, q, s), Len(p) + 1, Len(p) + Len(q) + 1) = q
           /\ Piece(Three(p, q, s), Len(p) + Len(q) + 1, Past(Three(p, q, s))) = s
<1> DEFINE l == Len(p)
           m == Len(q)
           n == Len(s)
           c == Three(p, q, s)
<1>1. /\ c \in Texts /\ Len(c) = l + m + n
      /\ l \in Nat /\ m \in Nat /\ n \in Nat
      /\ \A i \in 1..l : c[i] = p[i]
      /\ \A i \in 1..m : c[l + i] = q[i]
      /\ \A i \in 1..n : c[l + m + i] = s[i]
  BY ThreeIs DEF ThreeOf
<1> HIDE DEF c
<1>2. Past(c) = l + m + n + 1  BY <1>1, TextLen
<1>3. ASSUME NEW i \in Nat, NEW k \in Nat, i + k <= l + m + n, NEW w \in Texts, Len(w) = k,
             \A j \in 1..k : c[i + j] = w[j]
      PROVE  Piece(c, i + 1, i + k + 1) = w
  <2> HIDE DEF l, m, n
  <2> DEFINE x == Piece(c, i + 1, i + k + 1)
  <2>1. i + 1 \in Nat \ {0} /\ i + k + 1 \in Nat /\ i + k + 1 <= Len(c) + 1  BY <1>1, <1>3
  <2>2. /\ x \in Texts /\ Len(x) = (IF i + 1 < i + k + 1 THEN (i + k + 1) - (i + 1) ELSE 0)
        /\ \A j \in 1..((i + k + 1) - (i + 1)) : x[j] = c[i + 1 + j - 1]
    BY <1>1, <2>1, PieceIs
  <2>3. (i + k + 1) - (i + 1) = k  OBVIOUS
  <2> HIDE DEF x
  <2>4. Len(x) = k  BY <2>2, <2>3
  <2>5. \A j \in 1..k : x[j] = w[j]
    <3>1. SUFFICES ASSUME NEW j \in 1..k PROVE x[j] = w[j]  OBVIOUS
    <3>2. i + 1 + j - 1 = i + j  OBVIOUS
    <3> QED BY <1>3, <2>2, <2>3, <3>2
  <2>6. x = w  BY <1>3, <2>2, <2>4, <2>5, SameText
  <2> QED BY <2>6 DEF x
<1>4. Piece(c, 0 + 1, 0 + l + 1) = p
  <2> HIDE DEF l, m, n
  <2>1. 0 \in Nat /\ 0 + l <= l + m + n /\ \A j \in 1..l : c[0 + j] = p[j]  BY <1>1
  <2>2. Len(p) = l  BY DEF l
  <2> QED BY <1>1, <1>3, <2>1, <2>2
<1>5. Piece(c, l + 1, l + m + 1) = q
  <2>2. Len(q) = m  BY DEF m
  <2> HIDE DEF l, m, n
  <2>1. l + m <= l + m + n  BY <1>1
  <2> QED BY <1>1, <1>3, <2>1, <2>2
<1>6. Piece(c, (l + m) + 1, (l + m) + n + 1) = s
  <2>2. Len(s) = n  BY DEF n
  <2> HIDE DEF l, m, n
  <2>1. l + m \in Nat /\ (l + m) + n <= l + m + n  BY <1>1
  <2> QED BY <1>1, <1>3, <2>1, <2>2
<1>7. 0 + 1 = 1 /\ 0 + l + 1 = l + 1  BY <1>1
<1> QED BY <1>2, <1>4, <1>5, <1>6, <1>7 DEF c

\* Replacing the block: there is one again, without the user's words, and those
\* around it are those that were around it.
LEMMA ReplacedIs ==
    ASSUME NEW t \in Texts, NEW v \in Versions, Parts(t) # Absent
    PROVE  Fit(Replaced(t, v)) /\ Own(Replaced(t, v)) = Around(t)
<1>1. PICK a \in Nat, z \in Nat :
         /\ Between(t, ManagedStart, ManagedEnd) = <<a, z>>
         /\ 2 <= a /\ a <= z /\ z <= Len(t) /\ t[z] = ManagedEnd
         /\ Find(t, ManagedStart, 1) \in 1..(a - 1)
         /\ a = LineEnd(t, Find(t, ManagedStart, 1) + 1)
  <2>1. Between(t, ManagedStart, ManagedEnd) # <<>>
    <3>1. PICK a \in Nat, z \in Nat : Between(t, ManagedStart, ManagedEnd) = <<a, z>>
      BY PartsIs
    <3>2. <<a, z>> # <<>>  OBVIOUS
    <3> QED BY <3>1, <3>2
  <2> QED BY <2>1, BetweenIs
<1> DEFINE p == Piece(t, 1, a)
           q == Managed(v)
           s == Piece(t, z, Past(t))
           r == Three(p, q, s)
           f == Find(t, ManagedStart, 1)
<1>2. Replaced(t, v) = r
  <2> DEFINE m == <<a, z>>
  <2>1. m # <<>> /\ m[1] = a /\ m[2] = z  OBVIOUS
  <2> HIDE DEF m
  <2>2. Between(t, ManagedStart, ManagedEnd) = m  BY <1>1 DEF m
  <2> QED BY <2>1, <2>2, Zenon DEF Replaced, ReplacedAt, Three
<1>3. Len(t) \in Nat /\ Past(t) = Len(t) + 1  BY TextLen
<1>4. /\ p \in Texts /\ Len(p) = a - 1 /\ \A i \in 1..(a - 1) : p[i] = t[i]
  <2>1. 1 \in Nat \ {0} /\ a <= Len(t) + 1 /\ 1 < a  BY <1>1, <1>3
  <2>2. /\ p \in Texts /\ Len(p) = (IF 1 < a THEN a - 1 ELSE 0)
        /\ \A i \in 1..(a - 1) : p[i] = t[1 + i - 1]
    BY <2>1, PieceIs
  <2> HIDE DEF p
  <2> QED BY <2>1, <2>2
<1>5. /\ s \in Texts /\ Len(s) \in Nat /\ 1 <= Len(s) /\ s[1] = ManagedEnd
  <2>1. z \in Nat \ {0} /\ Past(t) \in Nat /\ Past(t) <= Len(t) + 1 /\ z < Past(t)  BY <1>1, <1>3
  <2>2. /\ s \in Texts /\ Len(s) = (IF z < Past(t) THEN Past(t) - z ELSE 0)
        /\ \A i \in 1..(Past(t) - z) : s[i] = t[z + i - 1]
    BY <2>1, PieceIs
  <2> HIDE DEF s
  <2>3. 1 \in 1..(Past(t) - z) /\ z + 1 - 1 = z  BY <1>1, <1>3
  <2> QED BY <1>1, <1>3, <2>1, <2>2, <2>3
<1>6. q \in Texts /\ Len(q) = 2 /\ q[1] = v /\ q[2] = Newline /\ Said(q) = <<>>
  BY ManagedIs
<1> HIDE DEF p, q, s
<1>7. /\ r \in Texts /\ Len(r) = (a - 1) + 2 + Len(s)
      /\ \A i \in 1..(a - 1) : r[i] = t[i]
      /\ r[a] = v /\ r[a + 1] = Newline /\ r[a + 2] = ManagedEnd
  <2>1. /\ r \in Texts /\ Len(r) = Len(p) + Len(q) + Len(s)
        /\ \A i \in 1..Len(p) : r[i] = p[i]
        /\ \A i \in 1..Len(q) : r[Len(p) + i] = q[i]
        /\ \A i \in 1..Len(s) : r[Len(p) + Len(q) + i] = s[i]
    <3>1. p \in Texts /\ q \in Texts /\ s \in Texts  BY <1>4, <1>5, <1>6
    <3>2. ThreeOf(r, p, q, s)  BY <3>1, ThreeIs
    <3> QED BY <3>2 DEF ThreeOf
  <2> HIDE DEF r
  <2>2. 1 \in 1..Len(q) /\ 2 \in 1..Len(q) /\ 1 \in 1..Len(s)  BY <1>5, <1>6
  <2>3. Len(p) + 1 = a /\ Len(p) + 2 = a + 1 /\ Len(p) + Len(q) + 1 = a + 2  BY <1>4, <1>6
  <2>4. r[a] = v /\ r[a + 1] = Newline /\ r[a + 2] = ManagedEnd
    BY <1>5, <1>6, <2>1, <2>2, <2>3
  <2> QED BY <1>4, <1>6, <2>1, <2>4
<1>8. Said(r) = Around(t)
  <2>1. Said(r) = Three(Said(p), Said(q), Said(s))  BY <1>4, <1>5, <1>6, ThreeIs
  <2>2. Said(p) \in Seq(Tokens)  BY <1>4, SaidIs DEF Texts
  <2>3. Said(p) \o <<>> = Said(p)  BY <2>2, ConcatEmptySeq
  <2>4. Said(r) = Said(p) \o Said(s)  BY <1>6, <2>1, <2>3, Zenon DEF Three
  <2>5. Around(t) = Said(p) \o Said(s)  BY <1>1, AroundIs DEF p, s
  <2> QED BY <2>4, <2>5, Zenon
<1>9. f \in 1..(a - 1) /\ t[f] = ManagedStart /\ \A j \in 1..(f - 1) : t[j] # ManagedStart
  <2>1. \/ f = 0
        \/ f \in 1..Len(t) /\ t[f] = ManagedStart /\ \A j \in 1..(f - 1) : t[j] # ManagedStart
    BY FindIs
  <2> QED BY <1>1, <2>1
<1> HIDE DEF r
<1>b. /\ a \in Nat /\ 2 <= a /\ Len(r) \in Nat /\ a + 2 <= Len(r) /\ Len(t) \in Nat /\ a <= Len(t)
      /\ f \in Nat /\ 1 <= f /\ f < a
  <2>1. f \in 1..(a - 1)  BY <1>9
  <2> HIDE DEF f
  <2>2. a \in Nat /\ 2 <= a /\ a <= Len(t)  BY <1>1, <1>3
  <2>3. a + 2 <= Len(r) /\ Len(r) \in Nat  BY <1>5, <1>7, <2>2
  <2> QED BY <1>3, <2>1, <2>2, <2>3
<1>10. Find(r, ManagedStart, 1) = f
  <2>1. f \in 1..Len(r) /\ 1 \in Nat \ {0} /\ r[f] = ManagedStart
        /\ \A j \in 1..(f - 1) : r[j] # ManagedStart
    <3> HIDE DEF f
    <3> QED BY <1>b, <1>7, <1>9
  <2> QED BY <1>7, <2>1, FindAt
<1>11. v # Newline /\ v # ManagedEnd /\ Newline # ManagedEnd
  BY VersionApart DEF Newline, ManagedEnd
<1> DEFINE n == Find(t, Newline, f + 1)
<1>12. \/ n = 0 /\ \A j \in (f + 1)..Len(t) : t[j] # Newline
       \/ n \in (f + 1)..Len(t) /\ t[n] = Newline /\ \A j \in (f + 1)..(n - 1) : t[j] # Newline
  <2>1. f + 1 \in Nat \ {0}  BY <1>1, <1>9
  <2> QED BY <2>1, FindIs
<1>13. a = IF n = 0 THEN f + 1 ELSE n + 1
  BY <1>1 DEF LineEnd
<1> HIDE DEF f, n
<1>14. ASSUME n = 0 PROVE Fit(r)
  <2>1. a = f + 1  BY <1>13, <1>14
  <2>2. Find(r, Newline, f + 1) = a + 1
    <3>1. a + 1 \in (f + 1)..Len(r) /\ f + 1 \in Nat \ {0}  BY <1>b, <2>1
    <3>2. \A j \in (f + 1)..((a + 1) - 1) : j = a  BY <1>b, <2>1
    <3>3. \A j \in (f + 1)..((a + 1) - 1) : r[j] # Newline  BY <1>7, <1>11, <3>2
    <3> QED BY <1>7, <3>1, <3>3, FindAt
  <2>3. LineEnd(r, f + 1) = a + 2  BY <1>1, <2>2 DEF LineEnd
  <2>4. Find(r, ManagedEnd, a + 2) = a + 2
    <3>1. a + 2 \in (a + 2)..Len(r) /\ a + 2 \in Nat \ {0}
          /\ \A j \in (a + 2)..((a + 2) - 1) : r[j] # ManagedEnd
      BY <1>b
    <3> QED BY <1>7, <3>1, FindAt
  <2>5. Between(r, ManagedStart, ManagedEnd) = <<a + 2, a + 2>>
    BY <1>1, <1>9, <1>10, <2>3, <2>4 DEF Between, Behind, UpTo
  <2>6. Said(Piece(r, a + 2, a + 2)) = <<>>
    <3>1. a + 2 \in 1..(Len(r) + 1) /\ a + 2 \in (a + 2)..(Len(r) + 1)
          /\ \A k \in (a + 2)..((a + 2) - 1) : r[k] \notin {Mine, Former}
      BY <1>b
    <3> QED BY <1>7, <3>1, SilentPiece
  <2>7. a + 2 \in Nat  BY <1>1
  <2> QED BY <1>7, <2>5, <2>6, <2>7, FitIs
<1>15. ASSUME n # 0 PROVE Fit(r)
  <2>1. /\ a = n + 1 /\ n \in (f + 1)..Len(t) /\ t[n] = Newline
        /\ \A j \in (f + 1)..(n - 1) : t[j] # Newline
    BY <1>12, <1>13, <1>15
  <2>2. Find(r, Newline, f + 1) = n
    <3>1. n \in (f + 1)..Len(r) /\ f + 1 \in Nat \ {0} /\ r[n] = Newline
          /\ \A j \in (f + 1)..(n - 1) : r[j] # Newline
      BY <1>b, <1>7, <2>1
    <3> QED BY <1>7, <3>1, FindAt
  <2>3. LineEnd(r, f + 1) = a  BY <1>15, <2>1, <2>2 DEF LineEnd
  <2>4. Find(r, ManagedEnd, a) = a + 2
    <3>1. a + 2 \in a..Len(r) /\ a \in Nat \ {0}
          /\ \A j \in a..((a + 2) - 1) : r[j] # ManagedEnd
      BY <1>b, <1>7, <1>11
    <3> QED BY <1>7, <3>1, FindAt
  <2>5. Between(r, ManagedStart, ManagedEnd) = <<a, a + 2>>
    BY <1>1, <1>9, <1>10, <2>3, <2>4 DEF Between, Behind, UpTo
  <2>6. Piece(r, a, a + 2) = q
    <3>1. Len(p) + 1 = a /\ Len(p) + Len(q) + 1 = a + 2  BY <1>1, <1>4, <1>6
    <3>2. Piece(Three(p, q, s), Len(p) + 1, Len(p) + Len(q) + 1) = q
      <4>1. p \in Texts /\ q \in Texts /\ s \in Texts  BY <1>4, <1>5, <1>6
      <4> QED BY ONLY <4>1, PiecesBack
    <3> QED BY <3>1, <3>2 DEF r
  <2>7. a + 2 \in Nat  BY <1>1
  <2> QED BY <1>1, <1>6, <1>7, <2>5, <2>6, <2>7, FitIs
<1>16. Fit(r)
  BY <1>14, <1>15
<1> QED BY <1>2, <1>7, <1>8, <1>16, NoText DEF Own

\* The block that is put above a file of the user.
Block(v) == <<ManagedStart, Newline>> \o Managed(v) \o <<ManagedEnd, Newline, Newline>>

\* Its tokens, of which none is a word of his.
LEMMA BlockIs ==
    ASSUME NEW v \in Versions
    PROVE  /\ Block(v) \in Texts /\ Len(Block(v)) = 7 /\ Said(Block(v)) = <<>>
           /\ Block(v)[1] = ManagedStart /\ Block(v)[2] = Newline /\ Block(v)[3] = v
           /\ Block(v)[4] = Newline /\ Block(v)[5] = ManagedEnd /\ Block(v)[6] = Newline
           /\ Block(v)[7] = Newline
<1> DEFINE p == <<ManagedStart, Newline>>
           q == Managed(v)
           s == <<ManagedEnd, Newline, Newline>>
           r == Three(p, q, s)
<1>1. p \in Texts /\ Len(p) = 2 /\ p[1] = ManagedStart /\ p[2] = Newline  BY Bits
<1>2. s \in Texts /\ Len(s) = 3 /\ s[1] = ManagedEnd /\ s[2] = Newline /\ s[3] = Newline
  BY Bits DEF Texts
<1>3. q \in Texts /\ Len(q) = 2 /\ q[1] = v /\ q[2] = Newline  BY ManagedIs
<1> HIDE DEF p, q, s
<1>4. /\ r \in Texts /\ Len(r) = Len(p) + Len(q) + Len(s)
      /\ \A i \in 1..Len(p) : r[i] = p[i]
      /\ \A i \in 1..Len(q) : r[Len(p) + i] = q[i]
      /\ \A i \in 1..Len(s) : r[Len(p) + Len(q) + i] = s[i]
  <2>1. p \in Texts /\ q \in Texts /\ s \in Texts  BY <1>1, <1>2, <1>3
  <2>2. ThreeOf(r, p, q, s)  BY <2>1, ThreeIs
  <2> QED BY <2>2 DEF ThreeOf
<1> HIDE DEF r
<1>5. /\ Len(r) = 7 /\ \A i \in 1..2 : r[i] = p[i]
      /\ \A i \in 1..2 : r[2 + i] = q[i] /\ \A j \in 1..3 : r[4 + j] = s[j]
  BY <1>1, <1>2, <1>3, <1>4
<1>6. r[1] = p[1] /\ r[2] = p[2] /\ r[2 + 1] = q[1] /\ r[2 + 2] = q[2] /\ r[4 + 1] = s[1]
      /\ r[4 + 2] = s[2] /\ r[4 + 3] = s[3]
  BY <1>5
<1>7. /\ r[1] = ManagedStart /\ r[2] = Newline /\ r[3] = v /\ r[4] = Newline
      /\ r[5] = ManagedEnd /\ r[6] = Newline /\ r[7] = Newline
  BY <1>1, <1>2, <1>3, <1>6
<1>8. Said(r) = <<>>
  <2>1. \A i \in 1..7 : r[i] \notin {Mine, Former}
    BY <1>7, VersionApart DEF ManagedStart, ManagedEnd, Newline, Mine, Former
  <2> QED BY <1>4, <1>5, <2>1, SaidNothing
<1>9. Block(v) = r  BY Zenon DEF Block, p, q, s, r, Three
<1> QED BY <1>4, <1>5, <1>7, <1>8, <1>9

\* Putting the block above a text: it is a block, and the words are the text's.
LEMMA InsertedIs ==
    ASSUME NEW t \in Texts, NEW v \in Versions
    PROVE  /\ Fit(Inserted(t, v)) /\ Own(Inserted(t, v)) = Own(t)
           /\ Inserted(t, v) = Block(v) \o t
           /\ Len(Inserted(t, v)) = 7 + Len(t)
           /\ Between(Inserted(t, v), ManagedStart, ManagedEnd) = <<3, 5>>
           /\ \A i \in 1..7 : Inserted(t, v)[i] = Block(v)[i]
           /\ \A i \in 1..Len(t) : Inserted(t, v)[7 + i] = t[i]
<1> DEFINE b == Block(v)
           r == b \o t
<1>1. /\ b \in Texts /\ Len(b) = 7 /\ Said(b) = <<>>
      /\ b[1] = ManagedStart /\ b[2] = Newline /\ b[3] = v
      /\ b[4] = Newline /\ b[5] = ManagedEnd /\ b[6] = Newline /\ b[7] = Newline
  BY BlockIs
<1>2. Inserted(t, v) = r  BY Zenon DEF Inserted, Block
<1>3. Len(t) \in Nat  BY TextLen
<1> HIDE DEF b
<1>4. /\ r \in Texts /\ Len(r) = 7 + Len(t)
      /\ \A i \in 1..7 : r[i] = b[i]
      /\ \A i \in 1..Len(t) : r[7 + i] = t[i]
  <2>1. b \in Seq(Tokens) /\ t \in Seq(Tokens)  BY <1>1 DEF Texts
  <2>2. /\ r \in Seq(Tokens) /\ Len(r) = Len(b) + Len(t)
        /\ \A i \in 1..Len(b) + Len(t) : r[i] = IF i <= Len(b) THEN b[i] ELSE t[i - Len(b)]
    BY <2>1, ConcatProperties
  <2> HIDE DEF r
  <2>3. \A i \in 1..Len(t) : 7 + i \in 1..7 + Len(t) /\ ~(7 + i <= 7) /\ (7 + i) - 7 = i
    BY <1>3
  <2>4. \A i \in 1..Len(t) : r[7 + i] = t[i]  BY <1>1, <2>2, <2>3
  <2>5. \A i \in 1..7 : r[i] = b[i]  BY <1>1, <1>3, <2>2
  <2> QED BY <1>1, <2>2, <2>4, <2>5 DEF Texts
<1>5. Said(r) = Said(t)
  <2>1. Said(r) = Said(b) \o Said(t)  BY <1>1, SaidConcat
  <2>2. Said(t) \in Seq(Tokens)  BY SaidIs DEF Texts
  <2>3. <<>> \o Said(t) = Said(t)  BY <2>2, ConcatEmptySeq
  <2> QED BY <1>1, <2>1, <2>3
<1> HIDE DEF r
<1>6. /\ r[1] = ManagedStart /\ r[2] = Newline /\ r[3] = v /\ r[4] = Newline /\ r[5] = ManagedEnd
  BY <1>1, <1>4
<1>7. v # ManagedEnd /\ v \notin {Mine, Former} /\ Newline # ManagedEnd /\ Newline \notin {Mine, Former}
  BY VersionApart DEF ManagedEnd, Newline, Mine, Former
<1>8. Find(r, ManagedStart, 1) = 1
  <2>1. 1 \in 1..Len(r) /\ 1 \in Nat \ {0} /\ \A j \in 1..(1 - 1) : r[j] # ManagedStart
    BY <1>3, <1>4
  <2> QED BY <1>4, <1>6, <2>1, FindAt
<1>9. Find(r, Newline, 2) = 2
  <2>1. 2 \in 2..Len(r) /\ 2 \in Nat \ {0} /\ \A j \in 2..(2 - 1) : r[j] # Newline
    BY <1>3, <1>4
  <2> QED BY <1>4, <1>6, <2>1, FindAt
<1>10. Find(r, ManagedEnd, 3) = 5
  <2>1. 5 \in 3..Len(r) /\ 3 \in Nat \ {0} /\ \A j \in 3..(5 - 1) : r[j] # ManagedEnd
    BY <1>3, <1>4, <1>6, <1>7
  <2> QED BY <1>4, <1>6, <2>1, FindAt
<1>11. Between(r, ManagedStart, ManagedEnd) = <<3, 5>>
  BY <1>8, <1>9, <1>10 DEF Between, Behind, LineEnd, UpTo
<1>12. Said(Piece(r, 3, 5)) = <<>>
  <2>1. 3 \in 1..(Len(r) + 1) /\ 5 \in 3..(Len(r) + 1)
        /\ \A k \in 3..(5 - 1) : r[k] \notin {Mine, Former}
    BY <1>3, <1>4, <1>6, <1>7
  <2> QED BY <1>4, <2>1, SilentPiece
<1>13. Fit(r)
  <2>1. 3 \in Nat /\ 5 \in Nat  OBVIOUS
  <2> QED BY <1>4, <1>11, <1>12, <2>1, FitIs
<1>14. Own(r) = Said(r) /\ Own(t) = Said(t)
  BY <1>4, NoText DEF Own
<1> QED BY <1>2, <1>4, <1>5, <1>11, <1>13, <1>14 DEF b, r

-----------------------------------------------------------------------------
(* Rules: the states.                                                      *)

\* What a command has decided, and what it knows of the file while it runs.
Plans == [write : BOOLEAN, new : Texts, stage : {Absent}, frame : Outsides,
          replaced : Texts \cup {Absent}]
Writing == [at : {"record", "write"}, v : Versions, d : Plans, read : Texts \cup {Absent},
            known : BOOLEAN]
Undoing == [at : {"undo"}, read : Texts \cup {Absent}, force : BOOLEAN,
            d : {Absent} \cup [to : Texts \cup {Absent}]]

\* A plan to write keeps the words of the text that was read.
GoodPlan(read, known, d) ==
    /\ Fit(d.new) /\ Silent(d.frame)
    /\ d.write => IF known THEN Own(d.new) = Own(read) ELSE Around(d.new) = Around(read)
GoodUndo(read, force, d) ==
    d # Absent => \/ Own(d.to) = OffMarkers(read)
                  \/ OffMarkers(read) = <<>>
                  \/ force /\ Parts(read) = Absent

\* Of each variable the values it takes.
RulesTypeOK ==
    /\ text \in Texts \cup {Absent}
    /\ entry \in Claims \cup {Absent}
    /\ run \in {NoRun} \cup Writing \cup Undoing
    /\ before \in Texts \cup {Absent}

\* Of the block as the ledger knows it nothing is the user's.
WordsInv ==
    /\ RulesTypeOK
    /\ entry # Absent => Fit(entry.sha) /\ Silent(entry.frame) /\ Said(entry.managed) = <<>>
    /\ run.at \in {"record", "write"} => GoodPlan(run.read, run.known, run.d)
    /\ run.at = "write" => run.d.write
    /\ run.at = "undo" => GoodUndo(run.read, run.force, run.d)

\* The template is a text of omm's, without words.
LEMMA TemplateFit ==
    ASSUME NEW v \in Versions
    PROVE  Fit(Template(v)) /\ Own(Template(v)) = <<>> /\ Around(Template(v)) = <<>>
<1>1. Template(v) \in Texts /\ Said(Template(v)) = <<>>  BY TemplateIs
<1>2. Parts(Template(v)) # Absent /\ Parts(Template(v)).managed = Managed(v)  BY TemplateParts
<1>3. Said(Managed(v)) = <<>>  BY ManagedIs
<1>4. Fit(Template(v))  BY <1>1, <1>2, <1>3 DEF Fit
<1> QED BY <1>1, <1>4, FitSays

\* No file has no words.
LEMMA NothingOwn == Own(Absent) = <<>> /\ Around(Absent) = <<>>
  BY DEF Own, Around

\* Without a block every word is outside of it.
LEMMA UnmarkedAround ==
    ASSUME NEW t \in Texts, Parts(t) = Absent
    PROVE  Around(t) = Own(t)
<1>1. Between(t, ManagedStart, ManagedEnd) = <<>>  BY PartsIs
<1>2. t # Absent  BY NoText
<1> QED BY <1>1, <1>2, Zenon DEF Around

\* The fields of a plan.
LEMMA WithIs ==
    ASSUME NEW d, NEW frame, NEW replaced
    PROVE  /\ With(d, frame, replaced).write = d.write /\ With(d, frame, replaced).new = d.new
           /\ With(d, frame, replaced).stage = d.stage
           /\ With(d, frame, replaced).frame = frame
           /\ With(d, frame, replaced).replaced = replaced
           /\ d.write \in BOOLEAN /\ d.new \in Texts /\ d.stage = Absent /\ frame \in Outsides
                 /\ replaced \in Texts \cup {Absent}
              => With(d, frame, replaced) \in Plans
  BY DEF With, Plans

\* What makes a plan a good one.
LEMMA PlanIs ==
    ASSUME NEW d, NEW frame, NEW replaced, NEW read, NEW known \in BOOLEAN,
           d.write \in BOOLEAN, Fit(d.new), d.stage = Absent, Silent(frame),
           replaced \in Texts \cup {Absent},
           d.write => IF known THEN Own(d.new) = Own(read) ELSE Around(d.new) = Around(read)
    PROVE  With(d, frame, replaced) \in Plans /\ GoodPlan(read, known, With(d, frame, replaced))
<1>1. d.new \in Texts /\ frame \in Outsides  BY DEF Fit, Silent
<1> DEFINE w == With(d, frame, replaced)
<1>2. /\ w.write = d.write /\ w.new = d.new /\ w.frame = frame /\ w \in Plans
  BY <1>1, WithIs
<1> HIDE DEF w
<1>3. GoodPlan(read, known, w)  BY <1>2 DEF GoodPlan
<1> QED BY <1>2, <1>3 DEF w

\* A file without an entry.
LEMMA FirstIs ==
    ASSUME NEW t \in Texts \cup {Absent}, NEW v \in Versions
    PROVE  First(t, v) \in Plans /\ GoodPlan(t, FALSE, First(t, v))
<1>0. /\ TemplateFrame(v) = Around0 /\ Silent(Around0) /\ Silent(InsertedFrame)
      /\ Around0 \in Outsides /\ InsertedFrame \in Outsides
  BY TemplateParts, FramesAreSilent DEF Silent
<1>1. CASE t = Absent
  <2> DEFINE d == Refresh(Template(v))
  <2>1. First(t, v) = With(d, Around0, Absent)  BY <1>0, <1>1 DEF First
  <2>2. d.write = TRUE /\ d.new = Template(v) /\ d.stage = Absent  BY DEF Refresh
  <2> HIDE DEF d
  <2>3. Template(v) \in Texts /\ Fit(Template(v)) /\ Around(Template(v)) = Around(t)
    BY <1>1, TemplateIs, TemplateFit, NothingOwn
  <2> QED BY <1>0, <2>1, <2>2, <2>3, PlanIs
<1>2. CASE t # Absent /\ Parts(t) = Absent
  <2> DEFINE d == Refresh(Inserted(t, v))
  <2>1. First(t, v) = With(d, InsertedFrame, t)  BY <1>2 DEF First
  <2>2. d.write = TRUE /\ d.new = Inserted(t, v) /\ d.stage = Absent  BY DEF Refresh
  <2> HIDE DEF d
  <2>3. Fit(Inserted(t, v)) /\ Own(Inserted(t, v)) = Own(t)  BY <1>2, InsertedIs
  <2>4. Inserted(t, v) \in Texts /\ Around(Inserted(t, v)) = Around(t)
    BY <1>2, <2>3, FitSays, UnmarkedAround DEF Fit
  <2> QED BY <1>0, <1>2, <2>1, <2>2, <2>3, <2>4, PlanIs
<1>3. CASE t # Absent /\ Parts(t) # Absent
  <2> DEFINE r == Replaced(t, v)
             d == Renewed(t, r)
  <2>1. First(t, v) = With(d, Around0, Absent)  BY <1>0, <1>3 DEF First
  <2>2. Fit(r) /\ Own(r) = Around(t)  BY <1>3, ReplacedIs
  <2>3. r \in Texts /\ r # Absent /\ Around(r) = Around(t)  BY <2>2, FitSays, NoText DEF Fit
  <2>4. d.new = r /\ d.write \in BOOLEAN /\ d.stage = Absent
    BY <2>3 DEF Renewed, AsIs, Refresh
  <2> HIDE DEF d, r
  <2> QED BY <1>0, <2>1, <2>2, <2>3, <2>4, PlanIs
<1> QED BY <1>1, <1>2, <1>3

\* A file with an entry.
LEMMA RefreshedIs ==
    ASSUME WordsInv, entry # Absent, NEW t \in Texts, NEW v \in Versions,
           Refreshed(t, v).new # Absent
    PROVE  Refreshed(t, v) \in Plans /\ GoodPlan(t, TRUE, Refreshed(t, v))
<1> DEFINE r == Replaced(t, v)
           d == RefreshedTo(t, v, r)
<1>1. Refreshed(t, v) = With(d, entry.frame, entry.replaced)  BY DEF Refreshed
<1>2. entry.frame \in Outsides /\ entry.replaced \in Texts \cup {Absent}
      /\ entry.managed \in Texts /\ Silent(entry.frame)
      /\ Fit(entry.sha) /\ Said(entry.managed) = <<>>
  BY DEF WordsInv, RulesTypeOK, Claims
<1>3. d.new # Absent  BY <1>1, WithIs
<1>4. t # Absent  BY NoText
<1>5. CASE Parts(t) = Absent
  <2>1. r = Absent
    <3>1. Between(t, ManagedStart, ManagedEnd) = <<>>  BY <1>5, PartsIs
    <3> QED BY <3>1 DEF Replaced, ReplacedAt
  <2>2. t # entry.sha  BY <1>2, <1>5 DEF Fit
  <2>3. d = Stage(Template(v))
    <3> HIDE DEF r
    <3> QED BY <1>4, <2>1, <2>2 DEF RefreshedTo
  <2> QED BY <1>3, <2>3 DEF Stage
<1>6. CASE Parts(t) # Absent
  <2>1. Fit(r) /\ Own(r) = Around(t)  BY <1>6, ReplacedIs
  <2>2. r \in Texts /\ r # Absent  BY <2>1, NoText DEF Fit
  <2> HIDE DEF r
  <2>3. \/ d = AsIs(t) /\ r = t
        \/ d = Refresh(r) /\ t = entry.sha
        \/ d = Refresh(r) /\ RegionOf(Parts(t)) = entry.managed
    <3>1. CASE t = entry.sha /\ r = t
      <4>1. d = [AsIs(t) EXCEPT !.new = Absent]  BY <2>2, <3>1 DEF RefreshedTo
      <4> QED BY <1>3, <4>1 DEF AsIs
    <3>2. CASE t = entry.sha /\ r # t
      BY <2>2, <3>2 DEF RefreshedTo
    <3>3. CASE t # entry.sha /\ r = t
      BY <2>2, <3>3 DEF RefreshedTo
    <3>4. CASE t # entry.sha /\ r # t /\ RegionOf(Parts(t)) = entry.managed
      BY <2>2, <3>4 DEF RefreshedTo
    <3>5. CASE t # entry.sha /\ r # t /\ RegionOf(Parts(t)) # entry.managed
      <4>1. d = Stage(IF r = Absent THEN Template(v) ELSE r)  BY <2>2, <3>5 DEF RefreshedTo
      <4> QED BY <1>3, <4>1 DEF Stage
    <3> QED BY <3>1, <3>2, <3>3, <3>4, <3>5
  <2> HIDE DEF d
  <2>4. d.new = r /\ d.stage = Absent /\ d.write \in BOOLEAN
    <3>1. CASE d = AsIs(t) /\ r = t  BY <3>1 DEF AsIs
    <3>2. CASE d = Refresh(r)  BY <3>2 DEF Refresh
    <3> QED BY <2>3, <3>1, <3>2
  <2>5. d.write => Own(r) = Own(t)
    <3>1. CASE d = AsIs(t) /\ r = t  BY <3>1 DEF AsIs
    <3>2. CASE t = entry.sha  BY <1>2, <2>1, <3>2, FitSays
    <3>3. CASE RegionOf(Parts(t)) = entry.managed
      <4>1. Fit(t)  BY <1>2, <1>6, <3>3 DEF Fit, RegionOf
      <4> QED BY <2>1, <4>1, FitSays
    <3> QED BY <2>3, <3>1, <3>2, <3>3
  <2> DEFINE frame == entry.frame
             replaced == entry.replaced
  <2>6. /\ d.write \in BOOLEAN /\ Fit(d.new) /\ d.stage = Absent
        /\ d.write => IF TRUE THEN Own(d.new) = Own(t) ELSE Around(d.new) = Around(t)
    BY <2>1, <2>4, <2>5
  <2>7. Silent(frame) /\ replaced \in Texts \cup {Absent}  BY <1>2
  <2> HIDE DEF frame, replaced
  <2>8. With(d, frame, replaced) \in Plans /\ GoodPlan(t, TRUE, With(d, frame, replaced))
    BY <2>6, <2>7, PlanIs
  <2> QED BY <1>1, <2>8 DEF frame, replaced
<1> QED BY <1>5, <1>6

\* Whatever install and update decide to write keeps the words of the text they read.
LEMMA DecisionIs ==
    ASSUME WordsInv, NEW v \in Versions, NEW update \in BOOLEAN,
           Decision(v, update).new # Absent
    PROVE  Decision(v, update) \in Plans /\ GoodPlan(text, entry # Absent, Decision(v, update))
<1>0. text \in Texts \cup {Absent}  BY DEF WordsInv, RulesTypeOK
<1>1. CASE entry = Absent
  <2>1. Decision(v, update) = First(text, v)  BY <1>1 DEF Decision
  <2>2. (entry # Absent) = FALSE  BY <1>1
  <2> QED BY <1>0, <2>1, <2>2, FirstIs
<1>2. CASE entry # Absent /\ text = Absent
  <2>1. Decision(v, update) = Lost(v, update)  BY <1>2 DEF Decision
  <2>2. ~update
    <3>1. SUFFICES ASSUME update PROVE FALSE  OBVIOUS
    <3>2. Lost(v, update) = With(Stage(Template(v)), entry.frame, entry.replaced)
      BY <3>1 DEF Lost
    <3> QED BY <2>1, <3>2, WithIs DEF Stage
  <2> DEFINE d == Refresh(Template(v))
  <2>3. Lost(v, update) = With(d, Around0, Absent)  BY <2>2, TemplateParts DEF Lost
  <2>4. d.write = TRUE /\ d.new = Template(v) /\ d.stage = Absent  BY DEF Refresh
  <2> HIDE DEF d
  <2>5. /\ Template(v) \in Texts /\ Fit(Template(v)) /\ Own(Template(v)) = Own(text)
        /\ Silent(Around0) /\ Around0 \in Outsides
    BY <1>2, TemplateIs, TemplateFit, NothingOwn, FramesAreSilent DEF Silent
  <2>6. (entry # Absent) = TRUE  BY <1>2
  <2> QED BY <2>1, <2>3, <2>4, <2>5, <2>6, PlanIs
<1>3. CASE entry # Absent /\ text # Absent
  <2>1. Decision(v, update) = Refreshed(text, v)  BY <1>3 DEF Decision
  <2>2. (entry # Absent) = TRUE  BY <1>3
  <2> QED BY <1>0, <1>3, <2>1, <2>2, RefreshedIs
<1> QED BY <1>1, <1>2, <1>3

\* Whatever uninstall decides leaves the words off the markers.
LEMMA DecideIs ==
    ASSUME WordsInv, entry # Absent, NEW t \in Texts, NEW force \in BOOLEAN
    PROVE  /\ Decide(t, force) \in {Absent} \cup [to : Texts \cup {Absent}]
           /\ GoodUndo(t, force, Decide(t, force))
<1> DEFINE p == Parts(t)
           known == t = entry.sha \/ force
<1>1. /\ entry.replaced \in Texts \cup {Absent} /\ entry.managed \in Texts
      /\ Silent(entry.frame) /\ Fit(entry.sha)
  BY DEF WordsInv, RulesTypeOK, Claims
<1>2. CASE ~known /\ RegionOf(p) # entry.managed
  <2>1. Decide(t, force) = Absent  BY <1>2 DEF Decide, DecideOn
  <2> QED BY <2>1 DEF GoodUndo
<1>3. CASE known /\ p = Absent
  <2>1. Decide(t, force) = [to |-> entry.replaced]  BY <1>3 DEF Decide, DecideOn
  <2>2. force  BY <1>1, <1>3 DEF Fit
  <2> QED BY <1>1, <1>3, <2>1, <2>2 DEF GoodUndo
<1>4. CASE ~(~known /\ RegionOf(p) # entry.managed) /\ ~(known /\ p = Absent)
  <2> DEFINE rest == WithoutBlock(p, entry.frame)
  <2>1. Decide(t, force) = Remains(rest)  BY <1>4 DEF Decide, DecideOn
  <2>2. p # Absent  BY <1>1, <1>4, NoText DEF RegionOf
  <2>3. p \in Cuts  BY <2>2, PartsIs
  <2>4. rest \in Texts /\ Said(rest) = Said(Outer(p))
    <3> HIDE DEF p
    <3> QED BY <1>1, <2>3, WithoutBlockKeeps
  <2>5. OffMarkers(t) = Own(Outer(p))
    <3>1. t # Absent  BY NoText
    <3>2. OffMarkers(t) = OutsideOf(t, p)  BY <3>1 DEF OffMarkers
    <3> HIDE DEF p
    <3> QED BY <2>2, <3>2, Zenon DEF OutsideOf, Outer
  <2>6. Own(Outer(p)) = Said(Outer(p))
    <3> DEFINE words == IF p.user = Absent THEN <<>> ELSE p.user
    <3>1. Outer(p) = Joined(p.pre, p.mid, words, p.post)  BY Zenon DEF Outer, Joined
    <3>2. p.pre \in Texts /\ p.mid \in Texts /\ words \in Texts /\ p.post \in Texts
      <4> HIDE DEF p
      <4> QED BY <2>3, NoText DEF Cuts
    <3> DEFINE x == p.pre
               y == p.mid
               z == p.post
    <3> HIDE DEF words, x, y, z
    <3>3. x \in Texts /\ y \in Texts /\ words \in Texts /\ z \in Texts
          /\ Outer(p) = Joined(x, y, words, z)
      BY <3>1, <3>2 DEF x, y, z
    <3>4. Joined(x, y, words, z) \in Texts  BY ONLY <3>3, SaidOfFour
    <3>5. Outer(p) \in Texts /\ Outer(p) # Absent  BY <3>3, <3>4, NoText
    <3> QED BY <3>5 DEF Own
  <2> HIDE DEF rest, p
  <2>7. CASE Blank(rest)
    <3>1. Decide(t, force) = [to |-> entry.replaced]  BY <2>1, <2>7 DEF Remains
    <3>2. OffMarkers(t) = <<>>  BY <2>4, <2>5, <2>6, <2>7, BlankSays
    <3> QED BY <1>1, <3>1, <3>2 DEF GoodUndo
  <2>8. CASE ~Blank(rest)
    <3>1. Decide(t, force) = [to |-> rest]  BY <2>1, <2>8 DEF Remains
    <3>2. Own(rest) = OffMarkers(t)  BY <2>4, <2>5, <2>6, NoText DEF Own
    <3> QED BY <2>4, <3>1, <3>2 DEF GoodUndo
  <2> QED BY <2>7, <2>8
<1> QED BY <1>2, <1>3, <1>4

\* The user makes texts of texts.
LEMMA EditedIs ==
    ASSUME NEW t \in Texts, NEW e \in Edited(t)
    PROVE  e \in Texts
<1>0. Len(t) \in Nat /\ t \in Seq(Tokens) /\ Past(t) = Len(t) + 1  BY TextLen DEF Texts
<1>a. \A i \in 1..Len(t) : t[i] \in Tokens  BY <1>0
<1>1. CASE \E i \in 1..Past(t) : e = InsertAt(t, i, Mine)
  <2>1. PICK i \in 1..Past(t) : e = InsertAt(t, i, Mine)  BY <1>1
  <2> DEFINE a == SubSeq(t, 1, i - 1)
             b == SubSeq(t, i, Len(t))
             c == <<Mine>>
  <2>2. a \in Seq(Tokens) /\ b \in Seq(Tokens)
    <3>1. /\ 1 \in Int /\ i - 1 \in Int /\ i \in Int /\ Len(t) \in Int
          /\ \A k \in 1..(i - 1) : t[k] \in Tokens
          /\ \A k \in i..Len(t) : t[k] \in Tokens
      BY <1>0, <1>a
    <3> QED BY <3>1, SubSeqProperties
  <2>3. c \in Seq(Tokens)  BY DEF Tokens
  <2> HIDE DEF a, b, c
  <2>4. (a \o c) \o b \in Seq(Tokens)  BY <2>2, <2>3, ConcatProperties
  <2> QED BY <2>1, <2>4, Zenon DEF InsertAt, a, b, c, Texts
<1>2. CASE \E i \in DOMAIN t : e = RemoveAt(t, i)
  <2>1. PICK i \in DOMAIN t : e = RemoveAt(t, i)  BY <1>2
  <2>0. i \in 1..Len(t)  BY <1>0, <2>1
  <2> DEFINE a == SubSeq(t, 1, i - 1)
             b == SubSeq(t, i + 1, Len(t))
  <2>2. a \in Seq(Tokens) /\ b \in Seq(Tokens)
    <3>1. /\ 1 \in Int /\ i - 1 \in Int /\ i + 1 \in Int /\ Len(t) \in Int
          /\ \A k \in 1..(i - 1) : t[k] \in Tokens
          /\ \A k \in (i + 1)..Len(t) : t[k] \in Tokens
      BY <1>0, <1>a, <2>0
    <3> QED BY <3>1, SubSeqProperties
  <2> HIDE DEF a, b
  <2>4. a \o b \in Seq(Tokens)  BY <2>2, ConcatProperties
  <2> QED BY <2>1, <2>4, Zenon DEF RemoveAt, a, b, Texts
<1> QED BY <1>1, <1>2 DEF Edited

\* Commands that write, commands that undo, and none.
LEMMA NoRunApart ==
    /\ NoRun \notin Writing /\ NoRun \notin Undoing
    /\ NoRun.at = "idle"
    /\ \A r \in Writing : r.at # "idle" /\ r.at # "undo" /\ r.at \in {"record", "write"}
    /\ \A r \in Undoing : r.at = "undo"
  BY DEF NoRun, Writing, Undoing

\* The invariant is inductive.
LEMMA WordsStep ==
    ASSUME WordsInv, [RNext]_rVars
    PROVE  WordsInv'
<1> USE NoRunApart
<1>0. /\ RulesTypeOK
      /\ entry # Absent => Fit(entry.sha) /\ Silent(entry.frame) /\ Said(entry.managed) = <<>>
      /\ run.at \in {"record", "write"} => GoodPlan(run.read, run.known, run.d)
      /\ run.at = "write" => run.d.write
      /\ run.at = "undo" => GoodUndo(run.read, run.force, run.d)
  BY DEF WordsInv
<1>1. ASSUME NEW v \in Versions, NEW update \in BOOLEAN, BeginRules(v, update) PROVE WordsInv'
  <2> DEFINE d == Decision(v, update)
  <2>1. /\ UNCHANGED <<text, entry, before>>
        /\ run' = IF d.new = Absent THEN NoRun
                  ELSE [at |-> "record", v |-> v, d |-> d, read |-> text, known |-> entry # Absent]
    BY <1>1 DEF BeginRules
  <2>2. d.new # Absent => d \in Plans /\ GoodPlan(text, entry # Absent, d)
    BY DecisionIs
  <2> HIDE DEF d
  <2>3. CASE d.new = Absent
    <3>1. run' = NoRun  BY <2>1, <2>3
    <3> QED BY <1>0, <2>1, <3>1 DEF WordsInv, RulesTypeOK
  <2>4. CASE d.new # Absent
    <3>1. run' = [at |-> "record", v |-> v, d |-> d, read |-> text, known |-> entry # Absent]
      BY <2>1, <2>4
    <3>2. text \in Texts \cup {Absent} /\ (entry # Absent) \in BOOLEAN  BY <1>0 DEF RulesTypeOK
    <3> DEFINE k == entry # Absent
    <3>3. k \in BOOLEAN  OBVIOUS
    <3> HIDE DEF k
    <3>4. run' = [at |-> "record", v |-> v, d |-> d, read |-> text, known |-> k]
      BY <3>1 DEF k
    <3>5. /\ run' \in Writing
          /\ run'.read = text /\ run'.known = k /\ run'.d = d /\ run'.at = "record"
      BY <2>2, <2>4, <3>2, <3>3, <3>4 DEF Writing
    <3>6. GoodPlan(text, k, d)  BY <2>2, <2>4 DEF k
    <3>7. GoodPlan(run'.read, run'.known, run'.d)  BY <3>5, <3>6
    <3> QED BY <1>0, <2>1, <3>5, <3>7 DEF WordsInv, RulesTypeOK
  <2> QED BY <2>3, <2>4
<1>2. ASSUME NEW force \in BOOLEAN, BeginUndoRules(force) PROVE WordsInv'
  <2> DEFINE d == IF text = Absent THEN Absent ELSE Decide(text, force)
  <2>1. /\ UNCHANGED <<text, entry, before>> /\ entry # Absent
        /\ run' = [at |-> "undo", read |-> text, force |-> force, d |-> d]
    BY <1>2 DEF BeginUndoRules
  <2>2. text \in Texts \cup {Absent}  BY <1>0 DEF RulesTypeOK
  <2>3. d \in {Absent} \cup [to : Texts \cup {Absent}] /\ GoodUndo(text, force, d)
    BY <2>1, <2>2, DecideIs DEF GoodUndo
  <2> HIDE DEF d
  <2>4. /\ run' \in Undoing
        /\ run'.read = text /\ run'.force = force /\ run'.d = d /\ run'.at = "undo"
    BY <2>1, <2>2, <2>3 DEF Undoing
  <2>5. GoodUndo(run'.read, run'.force, run'.d)  BY <2>3, <2>4
  <2> QED BY <1>0, <2>1, <2>4, <2>5 DEF WordsInv, RulesTypeOK
<1>3. CASE RecordRules
  <2>1. /\ run.at = "record" /\ UNCHANGED <<text, before>>
        /\ entry' = [sha |-> run.d.new, managed |-> Managed(run.v),
                     frame |-> run.d.frame, replaced |-> run.d.replaced]
        /\ run' = IF run.d.write THEN [run EXCEPT !.at = "write"] ELSE NoRun
    BY <1>3 DEF RecordRules
  <2>2. run \in Writing /\ GoodPlan(run.read, run.known, run.d)
    BY <1>0, <2>1 DEF RulesTypeOK
  <2>3. run.d \in Plans /\ run.v \in Versions  BY <2>2 DEF Writing
  <2>4. run.d.new \in Texts /\ run.d.frame \in Outsides /\ run.d.replaced \in Texts \cup {Absent}
    BY <2>3 DEF Plans
  <2>5. Managed(run.v) \in Texts /\ Said(Managed(run.v)) = <<>>  BY <2>3, ManagedIs
  <2>6. entry' \in Claims /\ entry'.sha = run.d.new /\ entry'.frame = run.d.frame
        /\ entry'.managed = Managed(run.v)
    BY <2>1, <2>4, <2>5 DEF Claims
  <2>7. Fit(entry'.sha) /\ Silent(entry'.frame) /\ Said(entry'.managed) = <<>>
    BY <2>2, <2>5, <2>6 DEF GoodPlan
  <2>8. CASE run.d.write
    <3>1. run' = [run EXCEPT !.at = "write"]  BY <2>1, <2>8
    <3>2. /\ run' \in Writing
          /\ run'.read = run.read /\ run'.known = run.known /\ run'.d = run.d /\ run'.at = "write"
          /\ run'.d.write
      BY <2>2, <2>8, <3>1 DEF Writing
    <3> QED BY <1>0, <2>1, <2>2, <2>6, <2>7, <3>2 DEF WordsInv, RulesTypeOK
  <2>9. CASE ~run.d.write
    <3>1. run' = NoRun  BY <2>1, <2>9
    <3> QED BY <1>0, <2>1, <2>6, <2>7, <3>1 DEF WordsInv, RulesTypeOK
  <2> QED BY <2>8, <2>9
<1>4. CASE WriteRules
  <2>1. /\ run.at = "write" /\ UNCHANGED <<entry, before>>
        /\ text' = run.d.new /\ run' = NoRun
    BY <1>4 DEF WriteRules
  <2>2. run \in Writing  BY <1>0, <2>1 DEF RulesTypeOK
  <2>3. run.d.new \in Texts  BY <2>2 DEF Writing, Plans
  <2> QED BY <1>0, <2>1, <2>3 DEF WordsInv, RulesTypeOK
<1>5. CASE UndoRules
  <2>1. run.at = "undo" /\ run' = NoRun  BY <1>5 DEF UndoRules
  <2>2. run \in Undoing  BY <1>0, <2>1 DEF RulesTypeOK
  <2>3. run.d \in {Absent} \cup [to : Texts \cup {Absent}]  BY <2>2 DEF Undoing
  <2>4. \/ UNCHANGED <<text, entry, before>>
        \/ /\ text' = (IF run.d = Absent THEN text ELSE run.d.to) /\ entry' = Absent
           /\ before' = IF run.d = Absent THEN before ELSE text'
    BY <1>5 DEF UndoRules
  <2>5. CASE UNCHANGED <<text, entry, before>>
    BY <1>0, <2>1, <2>5 DEF WordsInv, RulesTypeOK
  <2>6. CASE /\ text' = (IF run.d = Absent THEN text ELSE run.d.to) /\ entry' = Absent
             /\ before' = IF run.d = Absent THEN before ELSE text'
    <3>1. text' \in Texts \cup {Absent}  BY <1>0, <2>3, <2>6 DEF RulesTypeOK
    <3>2. before' \in Texts \cup {Absent}  BY <1>0, <2>6, <3>1 DEF RulesTypeOK
    <3> QED BY <2>1, <2>6, <3>1, <3>2 DEF WordsInv, RulesTypeOK
  <2> QED BY <2>4, <2>5, <2>6
<1>6. CASE EditText
  <2>1. /\ UNCHANGED <<entry, run>>
        /\ text' \in IF text = Absent THEN {<<Mine, Newline>>} ELSE {Absent} \cup Edited(text)
        /\ before' = before \/ before' = text'
    BY <1>6 DEF EditText
  <2>2. text' \in Texts \cup {Absent}
    <3>1. <<Mine, Newline>> \in Texts
      <4>1. Mine \in Tokens  BY DEF Tokens
      <4> QED BY <4>1, Bits
    <3> QED BY <1>0, <2>1, <3>1, EditedIs DEF RulesTypeOK
  <2>3. before' \in Texts \cup {Absent}  BY <1>0, <2>1, <2>2 DEF RulesTypeOK
  <2> QED BY <1>0, <2>1, <2>2, <2>3 DEF WordsInv, RulesTypeOK
<1>7. CASE KillRun
  <2>1. run' = NoRun /\ UNCHANGED <<text, entry, before>>  BY <1>7 DEF KillRun
  <2> QED BY <1>0, <2>1 DEF WordsInv, RulesTypeOK
<1>8. CASE LoseLedger
  <2>1. entry' = Absent /\ UNCHANGED <<text, run, before>>  BY <1>8 DEF LoseLedger
  <2> QED BY <1>0, <2>1 DEF WordsInv, RulesTypeOK
<1>9. CASE UNCHANGED rVars
  BY <1>0, <1>9 DEF WordsInv, RulesTypeOK, rVars
<1> QED BY <1>1, <1>2, <1>3, <1>4, <1>5, <1>6, <1>7, <1>8, <1>9 DEF RNext

\* What one write of a command keeps.
WriteKeeps ==
    run.at \in {"write", "undo"} /\ run' # run /\ text' # text /\ text = run.read
        => IF run.at = "write"
           THEN IF run.known THEN Own(text') = Own(text) ELSE Around(text') = Around(text)
           ELSE \/ Own(text') = OffMarkers(text)
                \/ OffMarkers(text) = <<>>
                \/ run.force /\ Parts(text) = Absent

\* In a state with the invariant, no step takes words out.
LEMMA WordsStepKeeps ==
    ASSUME WordsInv, RNext
    PROVE  WriteKeeps
<1> USE NoRunApart
<1>0. /\ RulesTypeOK
      /\ run.at \in {"record", "write"} => GoodPlan(run.read, run.known, run.d)
      /\ run.at = "write" => run.d.write
      /\ run.at = "undo" => GoodUndo(run.read, run.force, run.d)
  BY DEF WordsInv
<1>1. ASSUME NEW v \in Versions, NEW update \in BOOLEAN, BeginRules(v, update) PROVE WriteKeeps
  <2>1. run.at = "idle"  BY <1>1 DEF BeginRules
  <2> QED BY <2>1 DEF WriteKeeps
<1>2. ASSUME NEW force \in BOOLEAN, BeginUndoRules(force) PROVE WriteKeeps
  <2>1. run.at = "idle"  BY <1>2 DEF BeginUndoRules
  <2> QED BY <2>1 DEF WriteKeeps
<1>3. CASE RecordRules
  <2>1. text' = text  BY <1>3 DEF RecordRules
  <2> QED BY <2>1 DEF WriteKeeps
<1>4. CASE WriteRules
  <2>1. run.at = "write" /\ text' = run.d.new  BY <1>4 DEF WriteRules
  <2>2. GoodPlan(run.read, run.known, run.d) /\ run.d.write  BY <1>0, <2>1
  <2> QED BY <2>1, <2>2 DEF WriteKeeps, GoodPlan
<1>5. CASE UndoRules
  <2>1. run.at = "undo"  BY <1>5 DEF UndoRules
  <2>2. GoodUndo(run.read, run.force, run.d)  BY <1>0, <2>1
  <2>3. text' = text \/ (run.d # Absent /\ text' = run.d.to)
    BY <1>5 DEF UndoRules
  <2> QED BY <2>1, <2>2, <2>3 DEF WriteKeeps, GoodUndo
<1>6. CASE EditText
  <2>1. run' = run  BY <1>6 DEF EditText
  <2> QED BY <2>1 DEF WriteKeeps
<1>7. CASE KillRun
  <2>1. text' = text  BY <1>7 DEF KillRun
  <2> QED BY <2>1 DEF WriteKeeps
<1>8. CASE LoseLedger
  <2>1. text' = text  BY <1>8 DEF LoseLedger
  <2> QED BY <2>1 DEF WriteKeeps
<1> QED BY <1>1, <1>2, <1>3, <1>4, <1>5, <1>6, <1>7, <1>8 DEF RNext

\* It holds at first.
LEMMA WordsInit == RInit => WordsInv
<1> USE NoRunApart
<1>1. SUFFICES ASSUME RInit PROVE WordsInv  OBVIOUS
<1>2. entry = Absent /\ run = NoRun /\ text \in {Absent} \cup Originals /\ before = text
  BY <1>1 DEF RInit
<1>3. text \in Texts \cup {Absent}  BY <1>2, RulesAssumption
<1> QED BY <1>2, <1>3 DEF WordsInv, RulesTypeOK

\* omm never takes the user's words out of AGENTS.md (rules.rs, converge_rules,
\* decide_rules), of any templates, any text there before, any number of
\* commands, kills and edits: what a command writes over the text it read has
\* every word that was outside the block, in order, and those inside a block that
\* the ledger knows; an uninstall leaves out what stands on a marker's line.
THEOREM WordsAreKept == RulesSpec => []WordsInv /\ WordsKept
<1>1. RInit => WordsInv  BY WordsInit
<1>2. WordsInv /\ [RNext]_rVars => WordsInv'  BY WordsStep
<1>3. WordsInv /\ [RNext]_rVars => [WriteKeeps]_rVars
  <2>1. WordsInv /\ RNext => WriteKeeps  BY WordsStepKeeps
  <2> QED BY <2>1, Zenon
<1>4. RulesSpec => []WordsInv /\ [][WriteKeeps]_rVars
  BY <1>1, <1>2, <1>3, PTL DEF RulesSpec
<1> QED BY <1>4 DEF WordsKept, WriteKeeps

-----------------------------------------------------------------------------
(* Rules: what install puts in, uninstall takes out again.                 *)

\* A text that is another with so many tokens before it, and where a token is
\* in it.
Delayed(c, b, k) == Len(c) = k + Len(b) /\ \A j \in 1..Len(b) : c[k + j] = b[j]

LEMMA FindShift ==
    ASSUME NEW b \in Texts, NEW c \in Texts, NEW k \in Nat, Delayed(c, b, k),
           NEW x, NEW i \in Nat \ {0}
    PROVE  Find(c, x, k + i) = IF Find(b, x, i) = 0 THEN 0 ELSE k + Find(b, x, i)
<1>0. /\ Len(b) \in Nat /\ Len(c) \in Nat /\ k + i \in Nat \ {0}
      /\ Len(c) = k + Len(b) /\ \A j \in 1..Len(b) : c[k + j] = b[j]
  BY TextLen DEF Delayed
<1>a. \A j \in (k + 1)..Len(c) : c[j] = b[j - k]
  <2>1. SUFFICES ASSUME NEW j \in (k + 1)..Len(c) PROVE c[j] = b[j - k]  OBVIOUS
  <2>2. j - k \in 1..Len(b) /\ k + (j - k) = j  BY <1>0
  <2> QED BY <1>0, <2>2
<1> DEFINE f == Find(b, x, i)
<1>1. \/ f = 0 /\ \A j \in i..Len(b) : b[j] # x
      \/ f \in i..Len(b) /\ b[f] = x /\ \A j \in i..(f - 1) : b[j] # x
  BY FindIs
<1> HIDE DEF f
<1>2. CASE f = 0 /\ \A j \in i..Len(b) : b[j] # x
  <2>1. \A j \in (k + i)..Len(c) : c[j] # x
    <3>1. SUFFICES ASSUME NEW j \in (k + i)..Len(c) PROVE c[j] # x  OBVIOUS
    <3>2. j \in (k + 1)..Len(c) /\ j - k \in i..Len(b)  BY <1>0
    <3> QED BY <1>2, <1>a, <3>2
  <2>2. Find(c, x, k + i) = 0  BY <1>0, <2>1, FindNone
  <2> QED BY <1>2, <2>2 DEF f
<1>3. CASE f \in i..Len(b) /\ b[f] = x /\ \A j \in i..(f - 1) : b[j] # x
  <2>1. k + f \in (k + i)..Len(c) /\ k + f \in (k + 1)..Len(c) /\ (k + f) - k = f /\ f # 0
    BY <1>0, <1>3
  <2>2. c[k + f] = x  BY <1>3, <1>a, <2>1
  <2>3. \A j \in (k + i)..((k + f) - 1) : c[j] # x
    <3>1. SUFFICES ASSUME NEW j \in (k + i)..((k + f) - 1) PROVE c[j] # x  OBVIOUS
    <3>2. j \in (k + 1)..Len(c) /\ j - k \in i..(f - 1)  BY <1>0, <1>3, <2>1
    <3> QED BY <1>3, <1>a, <3>2
  <2>4. Find(c, x, k + i) = k + f  BY <1>0, <2>1, <2>2, <2>3, FindAt
  <2> QED BY <2>1, <2>4 DEF f
<1> QED BY <1>1, <1>2, <1>3

\* What was put in front of a text can be taken off it again.
LEMMA ConcatBack ==
    ASSUME NEW x \in Texts, NEW y \in Texts
    PROVE  /\ Piece(x \o y, 1, Len(x) + 1) = x
           /\ Piece(x \o y, Len(x) + 1, Past(x \o y)) = y
           /\ IsPrefix(x, x \o y) /\ WithoutPrefix(x \o y, x) = y
<1> DEFINE c == x \o y
<1>1. c \in Texts /\ Len(c) = Len(x) + Len(y) /\ Len(x) \in Nat /\ Len(y) \in Nat
  <2>1. x \in Seq(Tokens) /\ y \in Seq(Tokens)  BY DEF Texts
  <2>2. c \in Seq(Tokens) /\ Len(c) = Len(x) + Len(y)  BY <2>1, ConcatProperties
  <2> QED BY <2>2, TextLen DEF Texts
<1>2. Three(x, y, <<>>) = c
  <2> HIDE DEF c
  <2>1. c \in Seq(Tokens)  BY <1>1 DEF Texts
  <2>2. c \o <<>> = c  BY <2>1, ConcatEmptySeq
  <2> QED BY <2>2, Zenon DEF Three, c
<1> HIDE DEF c
<1>3. Past(c) = Len(x) + Len(y) + 1
  <2>1. Past(c) = Len(c) + 1  BY <1>1, TextLen
  <2> QED BY <1>1, <2>1
<1>4. Piece(c, 1, Len(x) + 1) = x /\ Piece(c, Len(x) + 1, Past(c)) = y
  <2>1. Piece(Three(x, y, <<>>), 1, Len(x) + 1) = x
        /\ Piece(Three(x, y, <<>>), Len(x) + 1, Len(x) + Len(y) + 1) = y
    BY NoText, PiecesBack
  <2> QED BY <1>2, <1>3, <2>1
<1>5. IsPrefix(x, c)
  <2>1. SubSeq(c, 1, Len(x)) = x
    <3>1. (Len(x) + 1) - 1 = Len(x)  BY <1>1
    <3> QED BY <1>4, <3>1 DEF Piece
  <2>2. SubSeq(x, 1, Len(x)) = x  BY SubSeqFull DEF Texts
  <2> QED BY <1>1, <2>1, <2>2 DEF IsPrefix
<1>6. WithoutPrefix(c, x) = y  BY <1>4, <1>5 DEF WithoutPrefix
<1> QED BY <1>4, <1>5, <1>6 DEF c

\* A piece that ends before it begins.
LEMMA EmptyPiece ==
    ASSUME NEW t, NEW i \in Nat, NEW j \in Int, j <= i
    PROVE  Piece(t, i, j) = <<>>
  BY SubSeqEmpty DEF Piece

\* A text without itself, and nothing without a text.
LEMMA GoneIs ==
    /\ \A x \in Texts : WithoutPrefix(x, x) = <<>> /\ IsPrefix(x, x)
    /\ \A x \in Texts : WithoutSuffix(x, x) = <<>>
    /\ \A x \in Texts : WithoutSuffix(<<>>, x) = <<>>
    /\ \A x \in Texts : WithoutPrefix(<<>>, x) = <<>>
<1>0. Len(<<>>) = 0 /\ Past(<<>>) = 1 /\ <<>> \in Texts
  BY NoText, TextLen
<1>1. ASSUME NEW x \in Texts PROVE WithoutPrefix(x, x) = <<>> /\ IsPrefix(x, x)
  <2>1. x \o <<>> = x
    <3>1. x \in Seq(Tokens)  BY DEF Texts
    <3> QED BY <3>1, ConcatEmptySeq
  <2>2. WithoutPrefix(x \o <<>>, x) = <<>> /\ IsPrefix(x, x \o <<>>)  BY <1>0, ConcatBack
  <2> QED BY <2>1, <2>2
<1>2. ASSUME NEW x \in Texts PROVE WithoutSuffix(x, x) = <<>>
  <2>1. Len(x) \in Nat /\ Past(x) = Len(x) + 1  BY TextLen
  <2>2. IsSuffix(x, x)
    <3>1. Len(Reverse(x)) = Len(x)  BY <2>1 DEF Reverse
    <3>2. Len(Reverse(x)) <= Len(Reverse(x))  BY <2>1, <3>1
    <3> QED BY <3>2 DEF IsSuffix, IsPrefix
  <2>3. Past(x) - Len(x) = 1  BY <2>1
  <2>4. Piece(x, 1, 1) = <<>>  BY EmptyPiece
  <2> QED BY <2>2, <2>3, <2>4 DEF WithoutSuffix
<1>3. ASSUME NEW x \in Texts PROVE WithoutSuffix(<<>>, x) = <<>>
  <2>1. Len(x) \in Nat  BY TextLen
  <2>2. Past(<<>>) - Len(x) \in Int /\ Past(<<>>) - Len(x) <= 1  BY <1>0, <2>1
  <2>3. Piece(<<>>, 1, Past(<<>>) - Len(x)) = <<>>  BY <2>2, EmptyPiece
  <2> QED BY <2>3 DEF WithoutSuffix
<1>4. ASSUME NEW x \in Texts PROVE WithoutPrefix(<<>>, x) = <<>>
  <2>1. Len(x) \in Nat  BY TextLen
  <2>2. Piece(<<>>, Len(x) + 1, Past(<<>>)) = <<>>
    <3>1. Len(x) + 1 \in Nat /\ Past(<<>>) \in Int /\ Past(<<>>) <= Len(x) + 1  BY <1>0, <2>1
    <3> QED BY <3>1, EmptyPiece
  <2> QED BY <2>2 DEF WithoutPrefix
<1> QED BY <1>1, <1>2, <1>3, <1>4

\* A text that is another but for the block's line is that one with the block replaced.
LEMMA ReplacedSame ==
    ASSUME NEW t \in Texts, NEW u \in Texts, NEW v \in Versions, NEW a \in Nat, 2 <= a,
           a + 2 <= Len(t), Between(t, ManagedStart, ManagedEnd) = <<a, a + 2>>,
           Len(u) = Len(t), u[a] = v, u[a + 1] = Newline,
           \A i \in 1..(a - 1) : u[i] = t[i],
           \A i \in (a + 2)..Len(t) : u[i] = t[i]
    PROVE  Replaced(t, v) = u
<1> DEFINE p == Piece(t, 1, a)
           q == Managed(v)
           s == Piece(t, a + 2, Past(t))
           r == Three(p, q, s)
           m == <<a, a + 2>>
           n == Len(t) - (a + 1)
<1>1. Replaced(t, v) = r
  <2>1. m # <<>> /\ m[1] = a /\ m[2] = a + 2 /\ Between(t, ManagedStart, ManagedEnd) = m  OBVIOUS
  <2> HIDE DEF m
  <2> QED BY <2>1, Zenon DEF Replaced, ReplacedAt, Three
<1>2. Len(t) \in Nat /\ Past(t) = Len(t) + 1 /\ n \in Nat  BY TextLen
<1>3. p \in Texts /\ Len(p) = a - 1 /\ \A i \in 1..(a - 1) : p[i] = t[i]
  <2>1. 1 \in Nat \ {0} /\ a <= Len(t) + 1 /\ 1 < a  BY <1>2
  <2>2. /\ p \in Texts /\ Len(p) = (IF 1 < a THEN a - 1 ELSE 0)
        /\ \A i \in 1..(a - 1) : p[i] = t[1 + i - 1]
    BY <2>1, PieceIs
  <2> HIDE DEF p
  <2> QED BY <2>1, <2>2
<1>4. s \in Texts /\ Len(s) = n /\ \A i \in 1..n : s[i] = t[a + 1 + i]
  <2>1. a + 2 \in Nat \ {0} /\ Past(t) \in Nat /\ Past(t) <= Len(t) + 1 /\ a + 2 < Past(t)
        /\ Past(t) - (a + 2) = n
    BY <1>2
  <2>2. /\ s \in Texts /\ Len(s) = (IF a + 2 < Past(t) THEN Past(t) - (a + 2) ELSE 0)
        /\ \A i \in 1..(Past(t) - (a + 2)) : s[i] = t[(a + 2) + i - 1]
    BY <2>1, PieceIs
  <2> HIDE DEF s, n
  <2>3. \A i \in 1..n : (a + 2) + i - 1 = a + 1 + i  BY <1>2
  <2> QED BY <2>1, <2>2, <2>3
<1>5. q \in Texts /\ Len(q) = 2 /\ q[1] = v /\ q[2] = Newline  BY ManagedIs
<1> HIDE DEF p, q, s
<1>6. /\ r \in Texts /\ Len(r) = Len(p) + Len(q) + Len(s)
      /\ \A i \in 1..Len(p) : r[i] = p[i]
      /\ \A i \in 1..Len(q) : r[Len(p) + i] = q[i]
      /\ \A i \in 1..Len(s) : r[Len(p) + Len(q) + i] = s[i]
  <2>1. p \in Texts /\ q \in Texts /\ s \in Texts  BY <1>3, <1>4, <1>5
  <2>2. ThreeOf(r, p, q, s)  BY <2>1, ThreeIs
  <2> QED BY <2>2 DEF ThreeOf
<1> HIDE DEF r
<1>7. Len(r) = Len(u)  BY <1>2, <1>3, <1>4, <1>5, <1>6 DEF n
<1>8. \A i \in 1..(a - 1) : r[i] = u[i]  BY <1>3, <1>6
<1>9. r[a] = u[a] /\ r[a + 1] = u[a + 1]
  <2>1. 1 \in 1..Len(q) /\ 2 \in 1..Len(q) /\ Len(p) + 1 = a /\ Len(p) + 2 = a + 1
    BY <1>3, <1>5
  <2> QED BY <1>5, <1>6, <2>1
<1>10. \A i \in (a + 2)..Len(t) : r[i] = u[i]
  <2>1. SUFFICES ASSUME NEW i \in (a + 2)..Len(t) PROVE r[i] = u[i]  OBVIOUS
  <2> DEFINE j == i - (a + 1)
  <2>2. j \in 1..n /\ Len(p) + Len(q) + j = i /\ a + 1 + j = i
    BY <1>2, <1>3, <1>5 DEF n
  <2> HIDE DEF j
  <2>3. r[i] = s[j] /\ s[j] = t[i]  BY <1>4, <1>6, <2>2
  <2> QED BY <2>3
<1>11. \A i \in 1..Len(r) : r[i] = u[i]
  <2>1. SUFFICES ASSUME NEW i \in 1..Len(r) PROVE r[i] = u[i]  OBVIOUS
  <2>2. i \in 1..(a - 1) \/ i = a \/ i = a + 1 \/ i \in (a + 2)..Len(t)  BY <1>2, <1>7
  <2> QED BY <1>8, <1>9, <1>10, <2>2
<1> QED BY <1>1, <1>6, <1>7, <1>11, SameText

\* The text as install writes it, of the text before.
WithBlock(b, v) == IF b = Absent THEN Template(v) ELSE Inserted(b, v)

\* What install makes of a file has a block, and a refresh of it is what
\* install would have made with the other template.
LEMMA WithBlockIs ==
    ASSUME NEW b \in Texts \cup {Absent}, NEW v \in Versions
    PROVE  /\ WithBlock(b, v) \in Texts /\ Parts(WithBlock(b, v)) # Absent
           /\ WithBlock(b, v) # Absent
           /\ \A w \in Versions : Replaced(WithBlock(b, v), w) = WithBlock(b, w)
<1>1. CASE b = Absent
  <2>1. ASSUME NEW w \in Versions PROVE Replaced(Template(v), w) = Template(w)
    <3> DEFINE t == Template(v)
               u == Template(w)
    <3>1. t \in Texts /\ u \in Texts /\ Between(t, ManagedStart, ManagedEnd) = <<5, 7>>  BY TemplateIs
    <3>2. Len(t) = 15 /\ Len(u) = 15 /\ u[5] = w /\ u[6] = Newline
      BY DEF Template
    <3>3. /\ u[1] = t[1] /\ u[2] = t[2] /\ u[3] = t[3] /\ u[4] = t[4]
          /\ u[7] = t[7] /\ u[8] = t[8] /\ u[9] = t[9] /\ u[10] = t[10] /\ u[11] = t[11]
          /\ u[12] = t[12] /\ u[13] = t[13] /\ u[14] = t[14] /\ u[15] = t[15]
      BY DEF Template
    <3> HIDE DEF t, u
    <3>4. (\A i \in 1..(5 - 1) : u[i] = t[i]) /\ (\A i \in (5 + 2)..Len(t) : u[i] = t[i])
      BY <3>2, <3>3
    <3>5. 5 \in Nat /\ 2 <= 5 /\ 5 + 2 <= Len(t) /\ 5 + 2 = 7 /\ 5 + 1 = 6  BY <3>2
    <3>6. Replaced(t, w) = u
      <4>1. /\ Between(t, ManagedStart, ManagedEnd) = <<5, 5 + 2>> /\ u[5 + 1] = Newline
            /\ Len(u) = Len(t)
        BY <3>1, <3>2, <3>5
      <4> QED BY <3>1, <3>2, <3>4, <3>5, <4>1, ReplacedSame
    <3> QED BY <3>6 DEF t, u
  <2>2. \A w \in Versions : WithBlock(b, w) = Template(w)  BY <1>1 DEF WithBlock
  <2>3. Template(v) \in Texts /\ Template(v) # Absent /\ Parts(Template(v)) # Absent
    BY TemplateIs, TemplateParts, NoText
  <2> QED BY <2>1, <2>2, <2>3
<1>2. CASE b # Absent
  <2>0. b \in Texts  BY <1>2
  <2>1. ASSUME NEW w \in Versions PROVE Replaced(Inserted(b, v), w) = Inserted(b, w)
    <3> DEFINE t == Inserted(b, v)
               u == Inserted(b, w)
               x == Block(v)
               y == Block(w)
    <3>1. /\ t \in Texts /\ u \in Texts /\ Between(t, ManagedStart, ManagedEnd) = <<3, 5>>
          /\ Len(t) = 7 + Len(b) /\ Len(u) = 7 + Len(b)
          /\ \A i \in 1..7 : t[i] = x[i]
          /\ \A i \in 1..Len(b) : t[7 + i] = b[i]
          /\ \A i \in 1..7 : u[i] = y[i]
          /\ \A i \in 1..Len(b) : u[7 + i] = b[i]
      BY <2>0, InsertedIs DEF Fit
    <3>2. /\ x[1] = ManagedStart /\ x[2] = Newline /\ x[5] = ManagedEnd /\ x[6] = Newline
          /\ x[7] = Newline
          /\ y[1] = ManagedStart /\ y[2] = Newline /\ y[3] = w /\ y[4] = Newline
          /\ y[5] = ManagedEnd /\ y[6] = Newline /\ y[7] = Newline
      BY BlockIs
    <3> HIDE DEF t, u, x, y
    <3>3. Len(b) \in Nat  BY <2>0, TextLen
    <3>4. \A i \in 1..(3 - 1) : u[i] = t[i]  BY <3>1, <3>2
    <3>5. \A i \in (3 + 2)..Len(t) : u[i] = t[i]
      <4>1. SUFFICES ASSUME NEW i \in (3 + 2)..Len(t) PROVE u[i] = t[i]  OBVIOUS
      <4>2. i = 5 \/ i = 6 \/ i = 7 \/ (i - 7 \in 1..Len(b) /\ 7 + (i - 7) = i)
        BY <3>1, <3>3
      <4>3. u[5] = t[5] /\ u[6] = t[6] /\ u[7] = t[7]  BY <3>1, <3>2
      <4>4. ASSUME i - 7 \in 1..Len(b) /\ 7 + (i - 7) = i PROVE u[i] = t[i]
        <5>1. u[7 + (i - 7)] = b[i - 7] /\ t[7 + (i - 7)] = b[i - 7]  BY <3>1, <4>4
        <5> QED BY <4>4, <5>1
      <4> QED BY <4>2, <4>3, <4>4
    <3>6. /\ 3 \in Nat /\ 2 <= 3 /\ 3 + 2 <= Len(t) /\ Len(u) = Len(t)
          /\ Between(t, ManagedStart, ManagedEnd) = <<3, 3 + 2>>
          /\ u[3] = w /\ u[3 + 1] = Newline
      BY <3>1, <3>2, <3>3
    <3>7. Replaced(t, w) = u  BY <3>1, <3>4, <3>5, <3>6, ReplacedSame
    <3> QED BY <3>7 DEF t, u
  <2>2. \A w \in Versions : WithBlock(b, w) = Inserted(b, w)  BY <1>2 DEF WithBlock
  <2>3. Inserted(b, v) \in Texts /\ Inserted(b, v) # Absent /\ Parts(Inserted(b, v)) # Absent
    BY <2>0, InsertedIs, NoText DEF Fit
  <2> QED BY <2>1, <2>2, <2>3
<1> QED BY <1>1, <1>2

\* Two newlines in front of a text without the user's markers make no pair.
LEMMA NoPairBefore ==
    ASSUME NEW b \in Texts, Between(b, UserStart, UserEnd) = <<>>
    PROVE  /\ <<Newline, Newline>> \o b \in Texts
           /\ Between(<<Newline, Newline>> \o b, UserStart, UserEnd) = <<>>
<1> DEFINE x == <<Newline, Newline>>
           c == x \o b
           f == Find(b, UserStart, 1)
<1>1. x \in Texts /\ Len(x) = 2 /\ x[1] = Newline /\ x[2] = Newline  BY Bits
<1> HIDE DEF x
<1>2. /\ c \in Texts /\ Len(c) = 2 + Len(b) /\ Len(b) \in Nat
      /\ \A i \in 1..Len(b) : c[2 + i] = b[i]
      /\ c[1] = Newline /\ c[2] = Newline
  <2>1. x \in Seq(Tokens) /\ b \in Seq(Tokens) /\ Len(b) \in Nat  BY <1>1, TextLen DEF Texts
  <2>2. /\ c \in Seq(Tokens) /\ Len(c) = Len(x) + Len(b)
        /\ \A i \in 1..Len(x) + Len(b) : c[i] = IF i <= Len(x) THEN x[i] ELSE b[i - Len(x)]
    BY <2>1, ConcatProperties
  <2> HIDE DEF c
  <2>3. \A i \in 1..Len(b) : 2 + i \in 1..2 + Len(b) /\ ~(2 + i <= 2) /\ (2 + i) - 2 = i
    BY <2>1
  <2>4. \A i \in 1..Len(b) : c[2 + i] = b[i]  BY <1>1, <2>2, <2>3
  <2>5. c[1] = Newline /\ c[2] = Newline  BY <1>1, <2>1, <2>2
  <2> QED BY <1>1, <2>1, <2>2, <2>4, <2>5 DEF Texts
<1> HIDE DEF c
<1>3. \A y, i : i \in Nat \ {0} =>
         Find(c, y, 2 + i) = IF Find(b, y, i) = 0 THEN 0 ELSE 2 + Find(b, y, i)
  <2> TAKE y, i
  <2> HAVE i \in Nat \ {0}
  <2> DEFINE k == 2
  <2>1. c \in Texts /\ k \in Nat /\ Delayed(c, b, k)  BY <1>2 DEF Delayed
  <2> HIDE DEF k
  <2>2. Find(c, y, k + i) = IF Find(b, y, i) = 0 THEN 0 ELSE k + Find(b, y, i)
    BY <2>1, FindShift
  <2> QED BY <2>2 DEF k
<1>4. Find(c, UserStart, 1) = IF f = 0 THEN 0 ELSE 2 + f
  <2>1. Find(c, UserStart, 2 + 1) = IF f = 0 THEN 0 ELSE 2 + f
    <3>1. 1 \in Nat \ {0}  OBVIOUS
    <3> QED BY <1>3, <3>1
  <2> DEFINE g == Find(c, UserStart, 3)
  <2>2. g = IF f = 0 THEN 0 ELSE 2 + f
    <3>1. 2 + 1 = 3  OBVIOUS
    <3> QED BY <2>1, <3>1
  <2>3. \/ g = 0 /\ \A j \in 3..Len(c) : c[j] # UserStart
        \/ g \in 3..Len(c) /\ c[g] = UserStart /\ \A j \in 3..(g - 1) : c[j] # UserStart
    <3>1. 3 \in Nat \ {0}  OBVIOUS
    <3> QED BY <1>2, <3>1, FindIs
  <2> HIDE DEF g, f
  <2>4. c[1] # UserStart /\ c[2] # UserStart  BY <1>2 DEF Newline, UserStart
  <2>5. Find(c, UserStart, 1) = g
    <3>1. CASE g = 0 /\ \A j \in 3..Len(c) : c[j] # UserStart
      <4>1. \A j \in 1..Len(c) : c[j] # UserStart  BY <1>2, <2>4, <3>1
      <4>2. 1 \in Nat \ {0}  OBVIOUS
      <4> QED BY <1>2, <3>1, <4>1, <4>2, FindNone
    <3>2. CASE g \in 3..Len(c) /\ c[g] = UserStart /\ \A j \in 3..(g - 1) : c[j] # UserStart
      <4>1. g \in 1..Len(c) /\ 1 \in Nat \ {0} /\ \A j \in 1..(g - 1) : c[j] # UserStart
        BY <1>2, <2>4, <3>2
      <4> QED BY <1>2, <3>2, <4>1, FindAt
    <3> QED BY <2>3, <3>1, <3>2
  <2> QED BY <2>2, <2>5
<1>5. f = 0 \/ f \in 1..Len(b)  BY FindIs
<1>6. CASE f = 0
  <2>1. Find(c, UserStart, 1) = 0  BY <1>4, <1>6
  <2>2. Between(c, UserStart, UserEnd) = <<>>  BY <2>1 DEF Between, Behind
  <2> QED BY <1>2, <2>2 DEF c, x
<1>7. CASE f # 0
  <2> DEFINE a == LineEnd(b, f + 1)
             n == Find(b, Newline, f + 1)
  <2>0. f \in Nat /\ 1 <= f /\ f + 1 \in Nat \ {0}
    <3> HIDE DEF f
    <3> QED BY <1>2, <1>5, <1>7
  <2>1. Between(b, UserStart, UserEnd) = UpTo(b, UserEnd, a)
    BY <1>7 DEF Between, Behind
  <2>2. Find(b, UserEnd, a) = 0
    <3> DEFINE e == Find(b, UserEnd, a)
    <3>1. UpTo(b, UserEnd, a) = IF e = 0 THEN <<>> ELSE <<a, e>>  BY DEF UpTo
    <3>2. <<a, e>> # <<>>  OBVIOUS
    <3> HIDE DEF e, a
    <3>3. e = 0  BY <2>1, <3>1, <3>2
    <3> QED BY <3>3 DEF e
  <2>3. a \in Nat \ {0}  BY <2>0, LineEndIs
  <2>4. LineEnd(c, 2 + f + 1) = 2 + a
    <3>1. Find(c, Newline, 2 + (f + 1)) = IF n = 0 THEN 0 ELSE 2 + n  BY <1>3, <2>0
    <3>2. n = 0 \/ n \in (f + 1)..Len(b)  BY <2>0, FindIs
    <3>3. 2 + f + 1 = 2 + (f + 1)  BY <2>0
    <3>4. a = IF n = 0 THEN f + 1 ELSE n + 1  BY DEF LineEnd
    <3>5. LineEnd(c, 2 + f + 1) =
             IF Find(c, Newline, 2 + f + 1) = 0 THEN 2 + f + 1 ELSE Find(c, Newline, 2 + f + 1) + 1
      BY DEF LineEnd
    <3> HIDE DEF a, n, f
    <3> QED BY <1>2, <2>0, <3>1, <3>2, <3>3, <3>4, <3>5
  <2>5. Find(c, UserEnd, 2 + a) = 0  BY <1>3, <2>2, <2>3
  <2>6. Between(c, UserStart, UserEnd) = <<>>
    <3>1. Find(c, UserStart, 1) = 2 + f /\ 2 + f # 0  BY <1>4, <1>7, <2>0
    <3> HIDE DEF a, f
    <3> QED BY <2>4, <2>5, <3>1 DEF Between, Behind, UpTo
  <2> QED BY <1>2, <2>6 DEF c, x
<1> QED BY <1>6, <1>7

\* How a text with the block above it is cut.
LEMMA InsertedParts ==
    ASSUME NEW b \in Texts, NEW v \in Versions, Between(b, UserStart, UserEnd) = <<>>
    PROVE  /\ Parts(Inserted(b, v)).pre = <<>> /\ Parts(Inserted(b, v)).post = <<>>
           /\ Parts(Inserted(b, v)).mid = <<Newline, Newline>> \o b
           /\ Parts(Inserted(b, v)).user = Absent
<1> DEFINE t == Inserted(b, v)
           k == Block(v)
           h == <<ManagedStart, Newline>> \o Managed(v) \o <<ManagedEnd>>
           c == <<Newline, Newline>> \o b
           rest == Piece(t, 6, Past(t))
           m == <<3, 5>>
<1>1. /\ t \in Texts /\ Between(t, ManagedStart, ManagedEnd) = m /\ Len(t) = 7 + Len(b)
      /\ \A i \in 1..7 : t[i] = k[i]
      /\ \A i \in 1..Len(b) : t[7 + i] = b[i]
  BY InsertedIs DEF Fit
<1>2. k[1] = ManagedStart /\ k[6] = Newline /\ k[7] = Newline  BY BlockIs
<1> HIDE DEF t, k
<1>3. Len(b) \in Nat /\ Past(t) = Len(t) + 1  BY <1>1, TextLen
<1>4. rest = c
  <2> DEFINE x == <<Newline, Newline>>
  <2>1. x \in Texts /\ Len(x) = 2 /\ x[1] = Newline /\ x[2] = Newline  BY Bits
  <2> HIDE DEF x
  <2>2. /\ c \in Seq(Tokens) /\ Len(c) = Len(x) + Len(b)
        /\ \A i \in 1..Len(x) + Len(b) : c[i] = IF i <= Len(x) THEN x[i] ELSE b[i - Len(x)]
    <3>1. x \in Seq(Tokens) /\ b \in Seq(Tokens) /\ c = x \o b  BY <2>1 DEF Texts, x
    <3> HIDE DEF c
    <3> QED BY <3>1, ConcatProperties
  <2>3. /\ rest \in Texts /\ Len(rest) = (IF 6 < Past(t) THEN Past(t) - 6 ELSE 0)
        /\ \A i \in 1..(Past(t) - 6) : rest[i] = t[6 + i - 1]
    <3>1. 6 \in Nat \ {0} /\ Past(t) \in Nat /\ Past(t) <= Len(t) + 1  BY <1>1, <1>3
    <3> QED BY <1>1, <3>1, PieceIs
  <2> HIDE DEF c, rest
  <2>4. Len(rest) = 2 + Len(b) /\ Past(t) - 6 = 2 + Len(b)  BY <1>1, <1>3, <2>3
  <2>5. \A i \in 1..Len(rest) : rest[i] = c[i]
    <3>1. SUFFICES ASSUME NEW i \in 1..Len(rest) PROVE rest[i] = c[i]  OBVIOUS
    <3>2. i \in 1..2 + Len(b) /\ 6 + i - 1 = 5 + i /\ rest[i] = t[5 + i]  BY <2>3, <2>4
    <3>3. CASE i <= 2
      <4>1. i = 1 \/ i = 2  BY <1>3, <3>2, <3>3
      <4>2. t[6] = Newline /\ t[7] = Newline  BY <1>1, <1>2
      <4>3. t[5 + i] = Newline  BY <4>1, <4>2
      <4>4. c[i] = x[i]  BY <2>1, <2>2, <3>2, <3>3
      <4> QED BY <2>1, <3>2, <4>1, <4>3, <4>4
    <3>4. CASE ~(i <= 2)
      <4>1. i - 2 \in 1..Len(b) /\ 7 + (i - 2) = 5 + i  BY <1>3, <3>2, <3>4
      <4>2. t[5 + i] = b[i - 2]  BY <1>1, <4>1
      <4>3. c[i] = b[i - 2]  BY <2>1, <2>2, <3>2, <3>4
      <4> QED BY <3>2, <4>2, <4>3
    <3> QED BY <3>3, <3>4
  <2>6. c \in Texts /\ Len(c) = Len(rest)  BY <2>1, <2>2, <2>4 DEF Texts
  <2>7. rest = c  BY <2>3, <2>5, <2>6, SameText
  <2> QED BY <2>7
<1>5. UserAfter(rest, 5) = <<>>
  <2>1. Between(c, UserStart, UserEnd) = <<>>  BY NoPairBefore
  <2> HIDE DEF c, rest
  <2> QED BY <1>4, <2>1 DEF UserAfter, Counted
<1>6. m # <<>> /\ m[1] = 3 /\ m[2] = 5 /\ m[2] + 1 = 6  OBVIOUS
<1> HIDE DEF m
<1>7. Parts(t) = Divided(t, m, <<>>)
  <2>1. Parts(t) = Divided(t, m, UserAfter(Piece(t, m[2] + 1, Past(t)), m[2]))
    BY <1>1, <1>6 DEF Parts, PartsAt
  <2> QED BY <1>5, <1>6, <2>1
<1>8. Find(t, ManagedStart, 1) = 1
  <2>1. 1 \in 1..Len(t) /\ 1 \in Nat \ {0} /\ t[1] = ManagedStart
        /\ \A j \in 1..(1 - 1) : t[j] # ManagedStart
    BY <1>1, <1>2, <1>3
  <2> QED BY <1>1, <2>1, FindAt
<1>9. Piece(t, 1, 1) = <<>>  BY EmptyPiece
<1>10. Divided(t, m, <<>>) = [pre |-> <<>>, managed |-> Piece(t, 3, 5), mid |-> rest,
                              user |-> Absent, post |-> <<>>]
  BY <1>6, <1>8, <1>9 DEF Divided
<1> HIDE DEF rest, c
<1>11. Parts(t).pre = <<>> /\ Parts(t).post = <<>> /\ Parts(t).mid = rest /\ Parts(t).user = Absent
  BY <1>7, <1>10
<1> QED BY <1>4, <1>11 DEF t, c

\* Nothing but one of four texts.
LEMMA JoinedIs == \A x \in Texts : Joined(<<>>, x, <<>>, <<>>) = x
<1>1. SUFFICES ASSUME NEW x \in Texts PROVE Joined(<<>>, x, <<>>, <<>>) = x  OBVIOUS
<1>2. x \in Seq(Tokens)  BY DEF Texts
<1>3. <<>> \o x = x /\ x \o <<>> = x  BY <1>2, ConcatEmptySeq
<1> QED BY <1>3 DEF Joined

\* Taking the block out of what install wrote leaves what was there before.
LEMMA TakenOut ==
    ASSUME NEW b \in Texts \cup {Absent}, Unmarked(b), NEW v \in Versions,
           NEW frame \in {Around0, InsertedFrame}, b = Absent => frame = Around0
    PROVE  WithoutBlock(Parts(WithBlock(b, v)), frame) = IF b = Absent THEN <<>> ELSE b
<1> DEFINE p == Parts(WithBlock(b, v))
           user == IF p.user = Absent THEN <<>> ELSE Normalised(p.user)
           mine == IF frame # Absent /\ frame.user # <<>> /\ Normalised(frame.user) = user
                   THEN <<>> ELSE user
           mid == IF IsPrefix(frame.mid, p.mid) THEN WithoutPrefix(p.mid, frame.mid)
                  ELSE WithoutSuffix(p.mid, frame.mid)
           pre == WithoutSuffix(p.pre, frame.pre)
           post == WithoutPrefix(p.post, frame.post)
<1>1. WithoutBlock(p, frame) = IF frame = Absent THEN Joined(p.pre, p.mid, mine, p.post)
                               ELSE Joined(pre, mid, mine, post)
  BY Zenon DEF WithoutBlock, Joined
<1>2. frame # Absent /\ frame.mid = <<Newline, Newline>>
  <2>1. frame \in Outsides  BY FramesAreSilent DEF Silent
  <2>2. frame # Absent  BY <2>1, RulesAssumption
  <2> QED BY <2>2 DEF Around0, InsertedFrame
<1>3. /\ <<Newline, Newline>> \in Texts /\ <<Newline>> \in Texts /\ <<Title, Newline>> \in Texts
      /\ <<Placeholder, Newline>> \in Texts /\ <<>> \in Texts
  BY Bits, NoText
<1>4. CASE b = Absent
  <2>1. p = Parts(Template(v)) /\ frame = Around0  BY <1>4 DEF WithBlock
  <2>2. /\ p.pre = <<Title, Newline>> /\ p.mid = <<Newline, Newline>> /\ p.post = <<Newline>>
        /\ p.user = <<Placeholder, Newline>>
    <3> HIDE DEF p
    <3> QED BY <2>1, TemplateParts
  <2>3. /\ frame.pre = <<Title, Newline>> /\ frame.post = <<Newline>>
        /\ frame.user = <<Placeholder, Newline>> /\ frame.user # <<>>
    BY <2>1 DEF Around0
  <2> HIDE DEF p
  <2>4. mine = <<>>
    <3>1. user = Normalised(frame.user)  BY <1>3, <2>2, <2>3, NoText
    <3> HIDE DEF user
    <3> QED BY <1>2, <2>3, <3>1
  <2>5. pre = <<>> /\ mid = <<>> /\ post = <<>>
    BY <1>2, <1>3, <2>2, <2>3, GoneIs
  <2> HIDE DEF pre, mid, post, mine
  <2> QED BY <1>1, <1>2, <1>3, <1>4, <2>4, <2>5, JoinedIs DEF p
<1>5. CASE b # Absent
  <2>0. b \in Texts /\ Between(b, UserStart, UserEnd) = <<>>  BY <1>5 DEF Unmarked
  <2>1. p = Parts(Inserted(b, v))  BY <1>5 DEF WithBlock
  <2>2. /\ p.pre = <<>> /\ p.post = <<>> /\ p.user = Absent
        /\ p.mid = <<Newline, Newline>> \o b
    <3> HIDE DEF p
    <3> QED BY <2>0, <2>1, InsertedParts
  <2>3. frame.pre \in Texts /\ frame.post \in Texts
    BY <1>3 DEF Around0, InsertedFrame
  <2> HIDE DEF p
  <2>4. mine = <<>>
    <3>1. user = <<>>  BY <2>2
    <3> HIDE DEF user
    <3> QED BY <3>1
  <2>5. pre = <<>> /\ post = <<>>  BY <2>2, <2>3, GoneIs
  <2>6. mid = b
    <3> DEFINE x == <<Newline, Newline>>
    <3>1. x \in Texts /\ frame.mid = x /\ p.mid = x \o b  BY <1>2, <1>3, <2>2
    <3> HIDE DEF x
    <3>2. IsPrefix(x, x \o b) /\ WithoutPrefix(x \o b, x) = b  BY <2>0, <3>1, ConcatBack
    <3> QED BY <3>1, <3>2
  <2> HIDE DEF pre, mid, post, mine
  <2> QED BY <1>1, <1>2, <1>5, <2>0, <2>4, <2>5, <2>6, JoinedIs DEF p
<1> QED BY <1>4, <1>5

\* The user left the file alone, and no command was killed before it wrote.
Clean == ~touched /\ "torn" \notin mishaps /\ Unmarked(before)
\* The ledger was lost since omm first wrote the file.
Mislaid == "lost" \in mishaps

\* The frame and the original of the file before.
KnownFrame(frame, replaced) ==
    /\ frame \in {Around0, InsertedFrame}
    /\ before = Absent => frame = Around0
    /\ replaced = before \/ (Mislaid /\ replaced = Absent)

\* What the file holds between two commands.
Settled ==
    /\ entry = Absent =>
          text = before \/ (Mislaid /\ \E v \in Versions : text = WithBlock(before, v))
    /\ entry # Absent =>
          /\ text = entry.sha /\ \E v \in Versions : text = WithBlock(before, v)
          /\ KnownFrame(entry.frame, entry.replaced)

\* And while one runs.
OnWay ==
    /\ run.at # "write" => Settled
    /\ run.at \in {"record", "write"} =>
          /\ run.d.new = WithBlock(before, run.v)
          /\ KnownFrame(run.d.frame, run.d.replaced)
    /\ run.at = "record" /\ ~run.d.write => run.d.new = text
    /\ run.at = "write" =>
          entry # Absent /\ entry.sha = run.d.new /\ KnownFrame(entry.frame, entry.replaced)
    /\ run.at = "undo" =>
          /\ text = run.read /\ run.d # Absent
          /\ run.d.to = before \/ (Mislaid /\ run.d.to = Absent /\ Blank(before))

TripInv == (run.at = "undo" => entry # Absent) /\ (Clean => OnWay)

\* What install and update write into a file the user left alone is the file of
\* before with the block.
LEMMA DecisionTrip ==
    ASSUME WordsInv, Clean, Settled, NEW v \in Versions, NEW update \in BOOLEAN,
           Decision(v, update).new # Absent
    PROVE  /\ Decision(v, update).new = WithBlock(before, v)
           /\ KnownFrame(Decision(v, update).frame, Decision(v, update).replaced)
           /\ ~Decision(v, update).write => Decision(v, update).new = text
<1> DEFINE d == Decision(v, update)
<1>0. before \in Texts \cup {Absent} /\ Unmarked(before)
  BY DEF WordsInv, RulesTypeOK, Clean
<1>a. TemplateFrame(v) = Around0  BY TemplateParts
<1>1. CASE entry = Absent /\ text = before /\ before = Absent
  <2> DEFINE x == Refresh(Template(v))
  <2>1. d = With(x, Around0, Absent)  BY <1>1, <1>a DEF Decision, First
  <2>2. x.new = Template(v) /\ x.write = TRUE  BY DEF Refresh
  <2> HIDE DEF x, d
  <2>3. d.new = Template(v) /\ d.write = TRUE /\ d.frame = Around0 /\ d.replaced = Absent
    BY <2>1, <2>2, WithIs
  <2> QED BY <1>1, <2>3 DEF WithBlock, KnownFrame, d
<1>2. CASE entry = Absent /\ text = before /\ before # Absent
  <2>0. Parts(before) = Absent
    <3>1. before \in Texts /\ Between(before, ManagedStart, ManagedEnd) = <<>>
      BY <1>0, <1>2 DEF Unmarked
    <3> QED BY <3>1 DEF Parts, PartsAt
  <2> DEFINE x == Refresh(Inserted(before, v))
  <2>1. d = With(x, InsertedFrame, before)  BY <1>2, <2>0 DEF Decision, First
  <2>2. x.new = Inserted(before, v) /\ x.write = TRUE  BY DEF Refresh
  <2> HIDE DEF x, d
  <2>3. /\ d.new = Inserted(before, v) /\ d.write = TRUE /\ d.frame = InsertedFrame
        /\ d.replaced = before
    BY <2>1, <2>2, WithIs
  <2> QED BY <1>2, <2>3 DEF WithBlock, KnownFrame, d
<1>3. CASE entry = Absent /\ Mislaid /\ \E w \in Versions : text = WithBlock(before, w)
  <2>1. PICK w \in Versions : text = WithBlock(before, w)  BY <1>3
  <2> DEFINE r == Replaced(text, v)
             x == Renewed(text, r)
  <2>2. text # Absent /\ Parts(text) # Absent /\ r = WithBlock(before, v) /\ r # Absent
    BY <1>0, <2>1, WithBlockIs
  <2>3. d = With(x, Around0, Absent)  BY <1>3, <1>a, <2>2 DEF Decision, First
  <2> HIDE DEF r
  <2>4. x.new = r /\ (~x.write => r = text)
    <3>1. CASE r = text  BY <3>1 DEF Renewed, AsIs
    <3>2. CASE r # text  BY <2>2, <3>2 DEF Renewed, Refresh
    <3> QED BY <3>1, <3>2
  <2> HIDE DEF x, d
  <2>5. d.new = r /\ d.write = x.write /\ d.frame = Around0 /\ d.replaced = Absent
    BY <2>3, <2>4, WithIs
  <2> QED BY <1>3, <2>2, <2>4, <2>5 DEF KnownFrame, d
<1>4. CASE entry # Absent
  <2>0. text = entry.sha /\ KnownFrame(entry.frame, entry.replaced)  BY <1>4 DEF Settled
  <2>1. PICK w \in Versions : text = WithBlock(before, w)  BY <1>4 DEF Settled
  <2> DEFINE r == Replaced(text, v)
             x == RefreshedTo(text, v, r)
  <2>2. text # Absent /\ r = WithBlock(before, v) /\ r # Absent
    BY <1>0, <2>1, WithBlockIs
  <2>3. d = With(x, entry.frame, entry.replaced)  BY <1>4, <2>2 DEF Decision, Refreshed
  <2>4. x.new # Absent
    <3>1. d.new # Absent  OBVIOUS
    <3> HIDE DEF d, x
    <3> QED BY <2>3, <3>1, WithIs
  <2> HIDE DEF r
  <2>5. x = Refresh(r)
    <3>1. r # text
      <4>1. SUFFICES ASSUME r = text PROVE FALSE  OBVIOUS
      <4>2. x = [AsIs(text) EXCEPT !.new = Absent]  BY <2>0, <4>1 DEF RefreshedTo
      <4> HIDE DEF x
      <4> QED BY <2>4, <4>2 DEF AsIs
    <3> QED BY <2>0, <2>2, <3>1 DEF RefreshedTo
  <2>6. x.new = r /\ x.write = TRUE
    <3> HIDE DEF x
    <3> QED BY <2>5 DEF Refresh
  <2> HIDE DEF x, d
  <2>7. /\ d.new = r /\ d.write = TRUE /\ d.frame = entry.frame /\ d.replaced = entry.replaced
    BY <2>3, <2>6, WithIs
  <2> QED BY <2>0, <2>2, <2>7 DEF d
<1> QED BY <1>1, <1>2, <1>3, <1>4 DEF Settled

\* What uninstall makes of it is the file of before.
LEMMA DecideTrip ==
    ASSUME WordsInv, Clean, Settled, entry # Absent, NEW force \in BOOLEAN
    PROVE  /\ text # Absent /\ Decide(text, force) # Absent
           /\ \/ Decide(text, force).to = before
              \/ Mislaid /\ Decide(text, force).to = Absent /\ Blank(before)
<1>0. before \in Texts \cup {Absent} /\ Unmarked(before) /\ entry.replaced \in Texts \cup {Absent}
  BY DEF WordsInv, RulesTypeOK, Clean, Claims
<1>1. text = entry.sha /\ KnownFrame(entry.frame, entry.replaced)  BY DEF Settled
<1>2. PICK v \in Versions : text = WithBlock(before, v)  BY DEF Settled
<1>3. text # Absent /\ Parts(text) # Absent  BY <1>0, <1>2, WithBlockIs
<1> DEFINE rest == WithoutBlock(Parts(text), entry.frame)
<1>4. Decide(text, force) = Remains(rest)  BY <1>1, <1>3 DEF Decide, DecideOn
<1>5. rest = IF before = Absent THEN <<>> ELSE before
  BY <1>0, <1>1, <1>2, TakenOut DEF KnownFrame
<1> HIDE DEF rest
<1>6. rest \in Texts  BY <1>0, <1>5, NoText
<1>7. Remains(rest) = [to |-> IF Blank(rest) THEN entry.replaced ELSE rest]  BY DEF Remains
<1> DEFINE y == IF Blank(rest) THEN entry.replaced ELSE rest
<1>8. y \in Texts \cup {Absent}  BY <1>0, <1>6
<1>9. y = before \/ (Mislaid /\ y = Absent /\ Blank(before))
  <2>1. CASE before = Absent
    <3>1. Blank(<<>>)  BY DEF Blank
    <3>2. y = entry.replaced  BY <1>5, <2>1, <3>1
    <3> QED BY <1>1, <2>1, <3>2 DEF KnownFrame
  <2>2. CASE before # Absent
    <3>1. rest = before  BY <1>5, <2>2
    <3>2. CASE Blank(before)  BY <1>1, <3>1, <3>2 DEF KnownFrame
    <3>3. CASE ~Blank(before)  BY <3>1, <3>3
    <3> QED BY <3>2, <3>3
  <2> QED BY <2>1, <2>2
<1> HIDE DEF y
<1>10. Decide(text, force) = [to |-> y]  BY <1>4, <1>7 DEF y
<1>11. [to |-> y] # Absent /\ [to |-> y].to = y
  <2>1. [to |-> y] \in [to : Texts \cup {Absent}]  BY <1>8
  <2> QED BY <2>1, RulesAssumption
<1> QED BY <1>3, <1>9, <1>10, <1>11

\* The invariant is inductive, given that of the words.
LEMMA TripStep ==
    ASSUME WordsInv, TripInv, [RNext]_rVars
    PROVE  TripInv'
<1> USE NoRunApart
<1>0. /\ RulesTypeOK /\ (run.at = "undo" => entry # Absent) /\ (Clean => OnWay)
  BY DEF WordsInv, TripInv
<1>1. ASSUME NEW v \in Versions, NEW update \in BOOLEAN, BeginRules(v, update) PROVE TripInv'
  <2> DEFINE d == Decision(v, update)
  <2>1. /\ run.at = "idle" /\ UNCHANGED <<text, entry, before, touched, mishaps>>
        /\ run' = IF d.new = Absent THEN NoRun
                  ELSE [at |-> "record", v |-> v, d |-> d, read |-> text, known |-> entry # Absent]
    BY <1>1 DEF BeginRules
  <2>2. Clean' = Clean /\ Settled' = Settled /\ Mislaid' = Mislaid
    BY <2>1 DEF Clean, Settled, KnownFrame, Mislaid
  <2>3. Clean /\ d.new # Absent =>
           /\ d.new = WithBlock(before, v) /\ KnownFrame(d.frame, d.replaced)
           /\ ~d.write => d.new = text
    BY <1>0, <2>1, DecisionTrip DEF OnWay
  <2> HIDE DEF d
  <2>4. CASE d.new = Absent
    <3>1. run' = NoRun  BY <2>1, <2>4
    <3> QED BY <1>0, <2>1, <2>2, <3>1 DEF TripInv, OnWay
  <2>5. CASE d.new # Absent
    <3>1. run'.at = "record" /\ run'.d = d /\ run'.v = v  BY <2>1, <2>5
    <3>2. Clean => OnWay'
      <4>1. SUFFICES ASSUME Clean PROVE OnWay'  OBVIOUS
      <4>2. Settled /\ Settled'  BY <1>0, <2>1, <2>2, <4>1 DEF OnWay
      <4>3. run'.d.new = WithBlock(before', run'.v)  BY <2>1, <2>3, <2>5, <3>1, <4>1
      <4>4. KnownFrame(run.d.frame, run.d.replaced)'
        <5>1. KnownFrame(d.frame, d.replaced)  BY <2>3, <2>5, <4>1
        <5> QED BY <2>1, <3>1, <5>1 DEF KnownFrame, Mislaid
      <4>5. ~run'.d.write => run'.d.new = text'  BY <2>1, <2>3, <2>5, <3>1, <4>1
      <4> QED BY <3>1, <4>2, <4>3, <4>4, <4>5 DEF OnWay
    <3> QED BY <2>2, <3>1, <3>2 DEF TripInv
  <2> QED BY <2>4, <2>5
<1>2. ASSUME NEW force \in BOOLEAN, BeginUndoRules(force) PROVE TripInv'
  <2> DEFINE d == IF text = Absent THEN Absent ELSE Decide(text, force)
  <2>1. /\ run.at = "idle" /\ entry # Absent /\ UNCHANGED <<text, entry, before, touched, mishaps>>
        /\ run' = [at |-> "undo", read |-> text, force |-> force, d |-> d]
    BY <1>2 DEF BeginUndoRules
  <2>2. Clean' = Clean /\ Settled' = Settled /\ Mislaid' = Mislaid
    BY <2>1 DEF Clean, Settled, KnownFrame, Mislaid
  <2>3. Clean => d # Absent /\ (d.to = before \/ (Mislaid /\ d.to = Absent /\ Blank(before)))
    BY <1>0, <2>1, DecideTrip DEF OnWay
  <2> HIDE DEF d
  <2>4. run'.at = "undo" /\ run'.read = text /\ run'.d = d  BY <2>1
  <2>5. Clean => Settled  BY <1>0, <2>1 DEF OnWay
  <2>6. Clean => OnWay'  BY <2>1, <2>2, <2>3, <2>4, <2>5 DEF OnWay
  <2> QED BY <2>1, <2>2, <2>4, <2>6 DEF TripInv
<1>3. CASE RecordRules
  <2>1. /\ run.at = "record" /\ UNCHANGED <<text, before, touched, mishaps>>
        /\ entry' = [sha |-> run.d.new, managed |-> Managed(run.v),
                     frame |-> run.d.frame, replaced |-> run.d.replaced]
        /\ run' = IF run.d.write THEN [run EXCEPT !.at = "write"] ELSE NoRun
    BY <1>3 DEF RecordRules
  <2>2. run \in Writing  BY <1>0, <2>1 DEF RulesTypeOK
  <2>3. /\ run.d.new \in Texts /\ run.d.frame \in Outsides /\ run.d.replaced \in Texts \cup {Absent}
        /\ run.v \in Versions
    BY <2>2 DEF Writing, Plans
  <2>4. /\ entry' # Absent /\ entry'.sha = run.d.new /\ entry'.frame = run.d.frame
        /\ entry'.replaced = run.d.replaced
    <3>1. Managed(run.v) \in Texts  BY <2>3, ManagedIs
    <3>2. entry' \in Claims  BY <2>1, <2>3, <3>1 DEF Claims
    <3> QED BY <2>1, <3>2, RulesAssumption
  <2>5. Clean' = Clean /\ Mislaid' = Mislaid  BY <2>1 DEF Clean, Mislaid
  <2>6. Clean => /\ run.d.new = WithBlock(before, run.v)
                 /\ KnownFrame(run.d.frame, run.d.replaced)
                 /\ ~run.d.write => run.d.new = text
    BY <1>0, <2>1 DEF OnWay
  <2>7. Clean => KnownFrame(entry.frame, entry.replaced)'
    BY <2>1, <2>4, <2>6 DEF KnownFrame, Mislaid
  <2>8. CASE run.d.write
    <3>1. run' = [run EXCEPT !.at = "write"]  BY <2>1, <2>8
    <3>2. run'.at = "write" /\ run'.d = run.d /\ run'.v = run.v  BY <2>2, <3>1 DEF Writing
    <3>3. Clean => KnownFrame(run.d.frame, run.d.replaced)'
      BY <2>1, <2>6, <3>2 DEF KnownFrame, Mislaid
    <3>4. Clean => OnWay'  BY <2>1, <2>4, <2>6, <2>7, <3>2, <3>3 DEF OnWay
    <3> QED BY <2>5, <3>2, <3>4 DEF TripInv
  <2>9. CASE ~run.d.write
    <3>1. run' = NoRun  BY <2>1, <2>9
    <3>2. Clean => text' = entry'.sha /\ text' = WithBlock(before', run.v)
      BY <2>1, <2>4, <2>6, <2>9
    <3>3. Clean => Settled'  BY <2>3, <2>4, <2>7, <3>2 DEF Settled
    <3> QED BY <2>5, <3>1, <3>3 DEF TripInv, OnWay
  <2> QED BY <2>8, <2>9
<1>4. CASE WriteRules
  <2>1. /\ run.at = "write" /\ UNCHANGED <<entry, before, touched, mishaps>>
        /\ text' = run.d.new /\ run' = NoRun
    BY <1>4 DEF WriteRules
  <2>2. run.v \in Versions  BY <1>0, <2>1 DEF RulesTypeOK, Writing
  <2>3. Clean' = Clean /\ Mislaid' = Mislaid  BY <2>1 DEF Clean, Mislaid
  <2>4. Clean => /\ run.d.new = WithBlock(before, run.v) /\ entry # Absent
                 /\ entry.sha = run.d.new /\ KnownFrame(entry.frame, entry.replaced)
    BY <1>0, <2>1 DEF OnWay
  <2>5. Clean => KnownFrame(entry.frame, entry.replaced)'
    BY <2>1, <2>4 DEF KnownFrame, Mislaid
  <2>6. Clean => Settled'  BY <2>1, <2>2, <2>4, <2>5 DEF Settled
  <2> QED BY <2>1, <2>3, <2>6 DEF TripInv, OnWay
<1>5. CASE UndoRules
  <2>1. run.at = "undo" /\ run' = NoRun  BY <1>5 DEF UndoRules
  <2>2. \/ UNCHANGED <<text, entry, before, touched, mishaps>>
        \/ entry' = Absent /\ run.d # Absent /\ before' = text'
        \/ entry' = Absent /\ run.d = Absent /\ UNCHANGED <<text, before, touched, mishaps>>
    BY <1>5 DEF UndoRules
  <2>3. CASE UNCHANGED <<text, entry, before, touched, mishaps>>
    <3>1. Clean' = Clean /\ Settled' = Settled
      BY <2>3 DEF Clean, Settled, KnownFrame, Mislaid
    <3>2. Clean => Settled  BY <1>0, <2>1 DEF OnWay
    <3> QED BY <2>1, <3>1, <3>2 DEF TripInv, OnWay
  <2>4. CASE entry' = Absent /\ run.d # Absent /\ before' = text'
    <3>1. Settled'  BY <2>4 DEF Settled
    <3> QED BY <2>1, <3>1 DEF TripInv, OnWay
  <2>5. CASE entry' = Absent /\ run.d = Absent /\ UNCHANGED <<text, before, touched, mishaps>>
    <3>1. Clean' = Clean  BY <2>5 DEF Clean
    <3>2. ~Clean  BY <1>0, <2>1, <2>5 DEF OnWay
    <3> QED BY <2>1, <3>1, <3>2 DEF TripInv
  <2> QED BY <2>2, <2>3, <2>4, <2>5
<1>6. CASE EditText
  <2>1. /\ UNCHANGED <<entry, run, mishaps>>
        /\ \/ entry = Absent /\ run = NoRun /\ before' = text'
           \/ touched' = TRUE
    BY <1>6 DEF EditText
  <2>2. CASE entry = Absent /\ run = NoRun /\ before' = text'
    <3>1. Settled'  BY <2>1, <2>2 DEF Settled
    <3> QED BY <2>1, <2>2, <3>1 DEF TripInv, OnWay
  <2>3. CASE touched' = TRUE
    <3>1. ~Clean'  BY <2>3 DEF Clean
    <3> QED BY <1>0, <2>1, <3>1 DEF TripInv
  <2> QED BY <2>1, <2>2, <2>3
<1>7. CASE KillRun
  <2>1. /\ run' = NoRun /\ UNCHANGED <<text, entry, before, touched>>
        /\ mishaps' = mishaps \cup (IF run.at = "write" THEN {"torn"} ELSE {})
    BY <1>7 DEF KillRun
  <2>2. CASE run.at = "write"
    <3>1. ~Clean'  BY <2>1, <2>2 DEF Clean
    <3> QED BY <2>1, <3>1 DEF TripInv
  <2>3. CASE run.at # "write"
    <3>1. mishaps' = mishaps  BY <2>1, <2>3
    <3>2. Clean' = Clean /\ Settled' = Settled
      BY <2>1, <3>1 DEF Clean, Settled, KnownFrame, Mislaid
    <3>3. Clean => Settled  BY <1>0, <2>3 DEF OnWay
    <3> QED BY <2>1, <3>2, <3>3 DEF TripInv, OnWay
  <2> QED BY <2>2, <2>3
<1>8. CASE LoseLedger
  <2>1. /\ run = NoRun /\ entry # Absent /\ entry' = Absent
        /\ mishaps' = mishaps \cup {"lost"} /\ UNCHANGED <<text, run, before, touched>>
    BY <1>8 DEF LoseLedger
  <2>2. Clean' => Clean  BY <2>1 DEF Clean
  <2>3. Mislaid'  BY <2>1 DEF Mislaid
  <2>4. Clean => \E v \in Versions : text = WithBlock(before, v)
    BY <1>0, <2>1 DEF OnWay, Settled
  <2>5. Clean => Settled'  BY <2>1, <2>3, <2>4 DEF Settled
  <2> QED BY <2>1, <2>2, <2>5 DEF TripInv, OnWay
<1>9. CASE UNCHANGED rVars
  <2>1. UNCHANGED <<text, entry, run, before, touched, mishaps>>  BY <1>9 DEF rVars
  <2> QED BY <1>0, <2>1 DEF TripInv, Clean, OnWay, Settled, KnownFrame, Mislaid
<1> QED BY <1>1, <1>2, <1>3, <1>4, <1>5, <1>6, <1>7, <1>8, <1>9 DEF RNext

\* What the last step of an uninstall leaves.
TripOfStep ==
    run.at = "undo" /\ run' # run /\ entry' = Absent /\ ~touched /\ "torn" \notin mishaps
          /\ Unmarked(before)
        => \/ text' = before
           \/ "lost" \in mishaps /\ text' = Absent /\ Blank(before)

\* A step from a state with the invariant undoes all or nothing.
LEMMA TripStepHolds ==
    ASSUME TripInv, RNext
    PROVE  TripOfStep
<1> USE NoRunApart
<1>0. SUFFICES ASSUME run.at = "undo", run' # run, entry' = Absent, Clean
               PROVE  text' = before \/ (Mislaid /\ text' = Absent /\ Blank(before))
  BY DEF TripOfStep, Clean, Mislaid
<1>1. entry # Absent /\ OnWay  BY <1>0 DEF TripInv
<1>2. ASSUME NEW v \in Versions, NEW update \in BOOLEAN, BeginRules(v, update) PROVE FALSE
  BY <1>0, <1>2 DEF BeginRules
<1>3. ASSUME NEW force \in BOOLEAN, BeginUndoRules(force) PROVE FALSE
  BY <1>0, <1>3 DEF BeginUndoRules
<1>4. ~RecordRules /\ ~WriteRules
  BY <1>0 DEF RecordRules, WriteRules
<1>5. CASE UndoRules
  <2>1. text' = run.d.to \/ entry' = entry
    BY <1>1, <1>0, <1>5 DEF UndoRules, OnWay
  <2> QED BY <1>0, <1>1, <2>1 DEF OnWay
<1>6. ~EditText  BY <1>0 DEF EditText
<1>7. ~KillRun  BY <1>0, <1>1 DEF KillRun
<1>8. ~LoseLedger  BY <1>0 DEF LoseLedger
<1> QED BY <1>2, <1>3, <1>4, <1>5, <1>6, <1>7, <1>8 DEF RNext

\* It holds at first.
LEMMA TripInit == RInit => TripInv
<1> USE NoRunApart
<1>1. SUFFICES ASSUME RInit PROVE TripInv  OBVIOUS
<1>2. entry = Absent /\ run = NoRun /\ before = text  BY <1>1 DEF RInit
<1> QED BY <1>2 DEF TripInv, OnWay, Settled

\* Install, any number of updates to any templates, and uninstall leave
\* AGENTS.md as it was before omm came, byte for byte, or none where there was
\* none, if the user left it alone: `without_managed` (rules.rs) takes out what
\* `insert_managed` and `replace_managed` put in.
THEOREM RoundTripHolds == RulesSpec => []TripInv /\ RoundTrip
<1>1. RInit => WordsInv /\ TripInv  BY WordsInit, TripInit
<1>2. WordsInv /\ TripInv /\ [RNext]_rVars => WordsInv' /\ TripInv'  BY WordsStep, TripStep
<1>3. TripInv /\ [RNext]_rVars => [TripOfStep]_rVars
  <2>1. TripInv /\ RNext => TripOfStep  BY TripStepHolds
  <2> QED BY <2>1, Zenon
<1>4. RulesSpec => []TripInv /\ [][TripOfStep]_rVars
  BY <1>1, <1>2, <1>3, PTL DEF RulesSpec
<1> QED BY <1>4 DEF RoundTrip, TripOfStep
=============================================================================
