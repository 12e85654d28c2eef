---------------------------- MODULE BundleProofs ----------------------------
(***************************************************************************)
(* What Bundle promises for every set of checkouts, packages and           *)
(* capabilities, and without the bounds of the model-checked instances:    *)
(* its types, that the ledger knows the bundle that is on the host, and    *)
(* that it implements BundlePromise.                                       *)
(***************************************************************************)
EXTENDS Bundle, TLAPS

-----------------------------------------------------------------------------
(* The host's verbs keep the host's types.                                 *)

\* A refreshed marketplace keeps at most two generations.
LEMMA RefreshTyped ==
    ASSUME HostOK, market # None, Refreshed
    PROVE  HostOK'
<1>1. market \in Market /\ market.src \in Sources
  BY DEF HostOK, Market
<1>2. content[market.src] \in Digests /\ content[Git] \in Digests
  BY <1>1 DEF HostOK, Sources
<1>3. market' \in Market
  BY <1>1, <1>2 DEF Refreshed, Listing, Market
<1>4. gens' \in Seq(Digests) /\ Len(gens') <= 2
  <2>1. CASE market.src = Git
    <3>1. gens \in Seq(Digests) /\ Len(gens) <= 2
      BY DEF HostOK
    <3>2. CASE gens # <<>> /\ gens[Len(gens)] = content[Git]
      BY <2>1, <3>1, <3>2 DEF Refreshed, Kept
    <3>3. CASE ~(gens # <<>> /\ gens[Len(gens)] = content[Git]) /\ Len(gens) < 2
      BY <2>1, <3>1, <3>3, <1>2 DEF Refreshed, Kept
    <3>4. CASE ~(gens # <<>> /\ gens[Len(gens)] = content[Git]) /\ Len(gens) >= 2
      <4>1. gens' = <<gens[2], content[Git]>>
        BY <2>1, <3>1, <3>4 DEF Refreshed, Kept
      <4>2. gens[2] \in Digests
        BY <3>1, <3>4
      <4> QED
        BY <4>1, <4>2, <1>2
    <3> QED
      BY <3>1, <3>2, <3>3, <3>4
  <2>2. CASE market.src # Git
    BY <2>2 DEF Refreshed, HostOK
  <2> QED
    BY <2>1, <2>2
<1> QED
  BY <1>3, <1>4 DEF Refreshed, HostOK

\* What is installed has a digest.
LEMMA InstallTyped ==
    ASSUME HostOK, NEW p \in Paths, Installs(p)
    PROVE  HostOK' /\ bundle' \in OnHost /\ bundle'.path = p
<1>1. ContentAt(p) \in Digests
  BY DEF HostOK, ContentAt, Paths, Sources
<1> QED
  BY <1>1 DEF Installs, HostOK, OnHost

LEMMA RemoveTyped ==
    ASSUME HostOK, Removes
    PROVE  HostOK'
  BY DEF HostOK, Removes

LEMMA AddTyped ==
    ASSUME HostOK, NEW s \in Sources, AddsMarket(s)
    PROVE  HostOK'
  BY DEF HostOK, AddsMarket, Listing, Market

LEMMA DropTyped ==
    ASSUME HostOK, DropsMarket
    PROVE  HostOK'
  BY DEF HostOK, DropsMarket

LEMMA SameHostTyped ==
    ASSUME HostOK, UNCHANGED hostVars
    PROVE  HostOK'
  BY DEF HostOK, hostVars

\* The marketplace names a directory or a generation.
LEMMA PackagePathTyped ==
    ASSUME HostOK, market # None
    PROVE  PackagePath \in Paths /\ market.src \in Sources /\ market.digest \in Digests
  BY DEF HostOK, PackagePath, Market, Paths, Sources

\* A working ledger is a ledger.
LEMMA KnownTyped ==
    ASSUME saved \in Ledger \cup {NoLedger}
    PROVE  /\ Known \in Ledger
           /\ Known.market \in Sources \cup {None}
           /\ Known.bundle \in Reg \cup {None}
  BY DEF Known, Empty, Ledger

\* Own and faulty steps keep the counters.
LEMMA OwnTyped ==
    ASSUME CountersOK, Own, orphaned' \in SUBSET Things
    PROVE  CountersOK'
  BY DEF CountersOK, Own, Forgotten, envVars

LEMMA FaultTyped ==
    ASSUME CountersOK, Fault, orphaned' \in SUBSET Things
    PROVE  CountersOK'
<1>1. MaxFaults \in Nat
  BY BundleAssumption
<1>2. faults' \in 0 .. MaxFaults /\ kills' = kills /\ edits' = edits
  BY <1>1 DEF Fault, CountersOK
<1> QED
  BY <1>2 DEF CountersOK, Fault, Forgotten

\* A command that ends leaves nothing behind.
LEMMA EndTyped ==
    ASSUME Ends
    PROVE  CommandOK'
  BY DEF Ends, CommandOK, Labels

-----------------------------------------------------------------------------
(* Commands, and what happens to them on the way.                          *)

LEMMA CommandFields ==
    ASSUME NEW c \in Command
    PROVE  /\ c # None
           /\ c.src \in Dirs /\ c.src \in Sources /\ c.src # None
           /\ c.skip \in SUBSET Caps
           /\ c.mkt \in Sources \cup {None}
           /\ c.avail \in Digests \cup {None}
           /\ c.at \in Paths \cup {None}
           /\ c.todo \in SUBSET Things /\ c.left \in SUBSET Things
<1>1. c # None
  BY BundleAssumption
<1>2. c.src # None
  BY BundleAssumption DEF Command, Sources
<1> QED
  BY <1>1, <1>2 DEF Command, Sources

\* The marketplace's source is reported.
LEMMA CommandReports ==
    ASSUME NEW c \in Command, NEW m \in Sources
    PROVE  LET d == [c EXCEPT !.mkt = m] IN
           d \in Command /\ d.kind = c.kind /\ d.mkt = m /\ d.mkt # None
<1>1. m # None
  BY BundleAssumption
<1> QED
  BY <1>1 DEF Command

LEMMA CommandFollows ==
    ASSUME NEW c \in Command
    PROVE  LET d == [c EXCEPT !.follow = TRUE] IN
           d \in Command /\ d.kind = c.kind /\ d.mkt = c.mkt
  BY DEF Command

\* What is offered and installed is seen.
LEMMA CommandLooks ==
    ASSUME NEW c \in Command, NEW a \in Digests, NEW p \in BOOLEAN, NEW t \in Paths \cup {None}
    PROVE  LET d == [c EXCEPT !.avail = a, !.present = p, !.at = t] IN
           /\ d \in Command /\ d.kind = c.kind /\ d.mkt = c.mkt
           /\ d.avail = a /\ d.avail # None /\ d.at = t
<1>1. a # None
  BY BundleAssumption
<1> QED
  BY <1>1 DEF Command

LEMMA CommandInstalls ==
    ASSUME NEW c \in Command, NEW t \in Paths
    PROVE  LET d == [c EXCEPT !.at = t] IN
           /\ d \in Command /\ d.kind = c.kind /\ d.mkt = c.mkt
           /\ d.avail = c.avail /\ d.at = t /\ d.at # None
<1>1. t # None
  BY BundleAssumption DEF Paths, Sources
<1> QED
  BY <1>1 DEF Command

\* An uninstall's steps are planned, done, or left.
LEMMA CommandUndoes ==
    ASSUME NEW c \in Command, NEW t \in SUBSET Things, NEW l \in SUBSET Things
    PROVE  /\ LET d == [c EXCEPT !.todo = t] IN
              d \in Command /\ d.kind = c.kind /\ d.todo = t /\ d.left = c.left
           /\ LET d == [c EXCEPT !.todo = t, !.left = l] IN
              d \in Command /\ d.kind = c.kind /\ d.todo = t /\ d.left = l
  BY DEF Command

-----------------------------------------------------------------------------
(* Types.                                                                  *)

LEMMA InitTyped == Init => TypeOK
<1> SUFFICES ASSUME Init PROVE TypeOK
  OBVIOUS
<1>1. gens \in Seq(Digests) /\ Len(gens) <= 2
  <2>1. CASE market # None /\ market.src = Git
    <3>1. market.digest \in Digests
      BY <2>1, BundleAssumption DEF Init, Market
    <3> QED
      BY <2>1, <3>1 DEF Init
  <2>2. CASE ~(market # None /\ market.src = Git)
    BY <2>2 DEF Init
  <2> QED
    BY <2>1, <2>2
<1>2. HostOK
  BY <1>1, BundleAssumption DEF Init, HostOK
<1>3. CommandOK
  BY DEF Init, CommandOK, Labels
<1>4. CountersOK
  BY BundleAssumption DEF Init, CountersOK
<1> QED
  BY <1>2, <1>3, <1>4 DEF Init, TypeOK

LEMMA BeginTyped ==
    ASSUME TypeOK, NEW k \in {"install", "update", "uninstall"}, NEW s \in Dirs,
           NEW f \in BOOLEAN, NEW g \in BOOLEAN, Begin(k, s, f, g),
           k = "update" => Known.bundle # None,
           pc' \in {"add", "undo"} \/ (pc' = "refresh" /\ k = "update")
    PROVE  TypeOK'
<1>1. HostOK'
  BY SameHostTyped DEF TypeOK, Begin
<1>2. Off[content[s]] \in SUBSET Caps
  BY BundleAssumption DEF TypeOK, HostOK, Sources
<1>3. cmd' \in Command /\ cmd'.kind = k
  BY <1>2 DEF Begin, Command
<1>4. None \notin Command
  BY BundleAssumption
<1>5. Known' = Known
  BY DEF Begin, Known
<1>6. CommandOK'
  BY <1>3, <1>4, <1>5 DEF CommandOK, Begin, Labels
<1>7. CountersOK'
  BY DEF TypeOK, CountersOK, HostOK, Begin, envVars
<1> QED
  BY <1>1, <1>6, <1>7 DEF TypeOK, Begin

\* A working ledger after a save is what was saved.
LEMMA SavedKnown ==
    ASSUME saved' \in Ledger
    PROVE  Known' = saved'
  BY BundleAssumption DEF Known

LEMMA SameKnown ==
    ASSUME saved' = saved
    PROVE  Known' = Known
  BY DEF Known

\* What is recorded is a ledger with a bundle.
LEMMA RecordedTyped ==
    ASSUME cmd \in Command, cmd.mkt # None, cmd.avail # None, cmd.at # None,
           NEW a \in SUBSET Caps
    PROVE  Recorded(a) \in Ledger /\ Recorded(a).bundle # None
<1>1. [digest |-> cmd.avail, path |-> cmd.at, approved |-> a] \in Reg
  BY CommandFields DEF Reg
<1>2. None \notin Reg
  BY BundleAssumption
<1> QED
  BY <1>1, <1>2, CommandFields DEF Recorded, Ledger

\* What an uninstall leaves is a ledger, if it leaves one.
LEMMA RemainingTyped ==
    ASSUME saved \in Ledger \cup {NoLedger}
    PROVE  Remaining \in Ledger \cup {NoLedger}
<1>1. CASE saved = NoLedger \/ cmd.left = {}
  BY <1>1 DEF Remaining
<1>2. CASE ~(saved = NoLedger \/ cmd.left = {})
  <2> DEFINE r == [t \in Things |-> IF t \in cmd.left THEN saved[t] ELSE None]
  <2>1. saved \in Ledger
    BY <1>2
  <2>2. r = [market |-> r["market"], bundle |-> r["bundle"]]
    BY DEF Things
  <2>3. r["market"] \in Sources \cup {None} /\ r["bundle"] \in Reg \cup {None}
    BY <2>1 DEF Ledger, Things
  <2> QED
    BY <1>2, <2>2, <2>3 DEF Remaining, Ledger
<1> QED
  BY <1>1, <1>2

\* Every step of a command keeps the types.
LEMMA StepTyped == TypeOK /\ Step => TypeOK'
<1> SUFFICES ASSUME TypeOK, Step
             PROVE  TypeOK'
  OBVIOUS
<1> USE DEF TypeOK
<1>n. /\ cmd \in Command \cup {None} /\ None \notin Command
      /\ pc # "idle" => cmd \in Command
  BY BundleAssumption DEF CommandOK
<1>c. \A c \in Command : c # None
  BY CommandFields
<1>a. Known.bundle \in Reg \cup {None} /\ Known.market \in Sources \cup {None} /\ Known \in Ledger
  BY KnownTyped
<1>1. CASE MarketAdd
  <2>1. cmd \in Command /\ cmd.src \in Sources
    BY <1>1, <1>n, CommandFields DEF MarketAdd
  <2>2. HostOK'
    BY <1>1, <2>1, AddTyped, SameHostTyped DEF MarketAdd
  <2>3. Known' = Known
    BY <1>1, SameKnown DEF MarketAdd
  <2>4. CommandOK'
    <3>1. CASE Reported(cmd.src, Ensured)
      BY <1>1, <2>1, <2>3, <3>1, <1>n, CommandReports
      DEF CommandOK, MarketAdd, Reported, Ensured, Labels
    <3>2. CASE Goto("again")
      BY <1>1, <2>1, <2>3, <3>2 DEF CommandOK, MarketAdd, Goto, Labels
    <3> QED
      BY <1>1, <3>1, <3>2 DEF MarketAdd
  <2>5. CountersOK'
    BY <1>1, OwnTyped DEF MarketAdd, CountersOK
  <2> QED
    BY <1>1, <2>2, <2>4, <2>5 DEF MarketAdd
<1>2. CASE MarketAgain
  <2>2. HostOK'
    BY <1>2, RefreshTyped DEF MarketAgain
  <2>3. Known' = Known /\ saved' \in Ledger \cup {NoLedger}
    BY <1>2, SameKnown DEF MarketAgain
  <2>4. CommandOK'
    <3>1. CASE Ends
      BY <3>1, EndTyped
    <3>2. CASE Reported(market.src, Ensured)
      BY <1>2, <1>n, <2>3, <3>2, PackagePathTyped, CommandReports
      DEF CommandOK, MarketAgain, Reported, Ensured, Labels
    <3> QED
      BY <1>2, <3>1, <3>2 DEF MarketAgain
  <2>5. CountersOK'
    BY <1>2, OwnTyped DEF MarketAgain, CountersOK
  <2> QED
    BY <2>2, <2>3, <2>4, <2>5
<1>3. CASE MarketRefresh
  <2>2. HostOK'
    BY <1>3, RefreshTyped, SameHostTyped DEF MarketRefresh
  <2>3. Known' = Known /\ saved' \in Ledger \cup {NoLedger}
    BY <1>3, SameKnown DEF MarketRefresh
  <2>4. CommandOK'
    <3>1. CASE market = None /\ Goto("add")
      BY <1>3, <1>n, <2>3, <3>1 DEF CommandOK, MarketRefresh, Goto, Labels
    <3>2. CASE market # None /\ Reported(market.src, IF Elsewhere THEN "unmarket" ELSE "look")
                 /\ cmd.kind = "update"
      BY <1>3, <1>n, <2>3, <3>2, PackagePathTyped, CommandReports
      DEF CommandOK, MarketRefresh, Reported, Labels
    <3> QED
      BY <1>3, <3>1, <3>2 DEF MarketRefresh, CommandOK
  <2>5. CountersOK'
    BY <1>3, OwnTyped DEF MarketRefresh, CountersOK
  <2> QED
    BY <2>2, <2>3, <2>4, <2>5
<1>4. CASE MarketRemove
  <2>2. HostOK'
    BY <1>4, DropTyped DEF MarketRemove
  <2>3. Known' = Known /\ saved' \in Ledger \cup {NoLedger}
    BY <1>4, SameKnown DEF MarketRemove
  <2>4. CommandOK'
    BY <1>4, <1>n, <2>3 DEF CommandOK, MarketRemove, Goto, Labels
  <2>5. CountersOK'
    BY <1>4, OwnTyped DEF MarketRemove, CountersOK
  <2> QED
    BY <2>2, <2>3, <2>4, <2>5
<1>5. CASE ForgetMarket
  <2>1. cmd' \in Command /\ cmd'.kind = cmd.kind /\ cmd'.mkt = cmd.mkt
    BY <1>5, <1>n, CommandFollows DEF ForgetMarket
  <2>2. HostOK'
    BY <1>5, SameHostTyped DEF ForgetMarket
  <2>3. saved' \in Ledger /\ Known' = saved' /\ saved'.bundle = Known.bundle
    BY <1>5, <1>a, SavedKnown DEF ForgetMarket, Ledger
  <2>4. CommandOK'
    BY <1>5, <1>n, <2>3, <2>1 DEF CommandOK, ForgetMarket, Labels
  <2>5. CountersOK'
    BY <1>5, OwnTyped DEF ForgetMarket, CountersOK
  <2> QED
    BY <2>2, <2>3, <2>4, <2>5
<1>6. CASE RegisterMarket
  <2>2. HostOK'
    BY <1>6, SameHostTyped DEF RegisterMarket
  <2>3. saved' \in Ledger /\ Known' = saved' /\ saved'.bundle = Known.bundle
    <3>1. cmd.mkt \in Sources \cup {None}
      BY <1>6, <1>n, CommandFields DEF RegisterMarket
    <3>2. saved' = [Known EXCEPT !.market = cmd.mkt]
      BY <1>6 DEF RegisterMarket
    <3> QED
      BY <1>a, <3>1, <3>2, SavedKnown DEF Ledger
  <2>4. CommandOK'
    BY <1>6, <1>n, <2>3 DEF CommandOK, RegisterMarket, Goto, Labels
  <2>5. CountersOK'
    BY <1>6, OwnTyped DEF RegisterMarket, CountersOK
  <2> QED
    BY <2>2, <2>3, <2>4, <2>5
<1>7. CASE Look
  <2>1. market.digest \in Digests /\ (bundle # None => bundle.path \in Paths)
    BY <1>7, PackagePathTyped DEF Look, HostOK, OnHost
  <2>2. HostOK'
    BY <1>7, SameHostTyped DEF Look
  <2>3. Known' = Known /\ saved' \in Ledger \cup {NoLedger}
    BY <1>7, SameKnown DEF Look
  <2>4. CommandOK'
    <3>1. /\ cmd \in Command /\ cmd' \in Command
          /\ cmd'.avail # None /\ cmd'.kind = cmd.kind /\ cmd'.mkt = cmd.mkt
          /\ cmd'.at = IF bundle # None THEN bundle.path ELSE None
      <4> DEFINE t == IF bundle # None THEN bundle.path ELSE None
      <4> DEFINE b == bundle # None
      <4>1. cmd \in Command /\ market.digest \in Digests /\ b \in BOOLEAN
        BY <1>7, <1>n, <2>1 DEF Look
      <4>2. t \in Paths \cup {None}
        BY <2>1
      <4>3. cmd' = [cmd EXCEPT !.avail = market.digest, !.present = b, !.at = t]
        BY <1>7 DEF Look
      <4>4. cmd'.at = t
        <5> HIDE DEF t, b
        <5> QED
          BY <4>1, <4>2, <4>3 DEF Command
      <4>5. /\ cmd' \in Command /\ cmd'.avail # None
            /\ cmd'.kind = cmd.kind /\ cmd'.mkt = cmd.mkt
        <5> HIDE DEF t, b
        <5> QED
          BY <4>1, <4>2, <4>3, BundleAssumption DEF Command
      <4> QED
        BY <4>1, <4>4, <4>5
    <3>3. UpToDate => cmd'.at # None
      BY <3>1, <2>1, BundleAssumption DEF UpToDate, Paths, Sources
    <3>4. pc = "look" /\ pc' = IF UpToDate THEN "approve"
             ELSE IF cmd.kind = "update" THEN "preflight"
             ELSE IF bundle # None THEN "remove" ELSE "install"
      BY <1>7 DEF Look
    <3> QED
      BY <3>1, <3>3, <3>4, <1>c, <2>3 DEF CommandOK, Labels
  <2>5. CountersOK'
    BY <1>7, OwnTyped DEF Look, CountersOK
  <2> QED
    BY <2>2, <2>3, <2>4, <2>5
<1>8. CASE Preflight
  <2>2. HostOK'
    BY <1>8, SameHostTyped DEF Preflight
  <2>3. Known' = Known /\ saved' \in Ledger \cup {NoLedger}
    BY <1>8, SameKnown DEF Preflight
  <2>4. CommandOK'
    BY <1>8, <1>n, <2>3 DEF CommandOK, Preflight, Goto, Labels
  <2>5. CountersOK'
    BY <1>8, OwnTyped DEF Preflight, CountersOK
  <2> QED
    BY <2>2, <2>3, <2>4, <2>5
<1>9. CASE RemoveBundle
  <2>2. HostOK'
    BY <1>9, RemoveTyped DEF RemoveBundle
  <2>3. Known' = Known /\ saved' \in Ledger \cup {NoLedger}
    BY <1>9, SameKnown DEF RemoveBundle
  <2>4. CommandOK'
    BY <1>9, <1>n, <2>3 DEF CommandOK, RemoveBundle, Goto, Labels
  <2>5. CountersOK'
    BY <1>9, OwnTyped DEF RemoveBundle, CountersOK
  <2> QED
    BY <2>2, <2>3, <2>4, <2>5
<1>10. CASE InstallBundle
  <2>2. HostOK'
    BY <1>10, InstallTyped, PackagePathTyped DEF InstallBundle
  <2>3. Known' = Known /\ saved' \in Ledger \cup {NoLedger}
    BY <1>10, SameKnown DEF InstallBundle
  <2>4. CommandOK'
    <3>1. cmd' \in Command /\ cmd'.at # None /\ cmd'.kind = cmd.kind
          /\ cmd'.mkt = cmd.mkt /\ cmd'.avail = cmd.avail
      BY <1>10, <1>n, PackagePathTyped, CommandInstalls DEF InstallBundle
    <3>2. pc = "install" /\ pc' \in {"record", "cleanup"}
      BY <1>10 DEF InstallBundle
    <3> QED
      BY <3>1, <3>2, <1>c, <2>3 DEF CommandOK, Labels
  <2>5. CountersOK'
    BY <1>10, OwnTyped DEF InstallBundle, CountersOK
  <2> QED
    BY <2>2, <2>3, <2>4, <2>5
<1>11. CASE Cleanup
  <2>2. HostOK'
    BY <1>11, RemoveTyped, SameHostTyped DEF Cleanup
  <2>3. Known' = Known /\ saved' \in Ledger \cup {NoLedger}
    BY <1>11, SameKnown DEF Cleanup
  <2>4. CommandOK'
    BY <1>11, <1>n, <2>3, EndTyped DEF CommandOK, Cleanup, Goto, Labels, GotoOrEnd, AfterFailure
  <2>5. CountersOK'
    BY <1>11, OwnTyped, FaultTyped DEF Cleanup, CountersOK, Things
  <2> QED
    BY <2>2, <2>3, <2>4, <2>5
<1>12. CASE RecordBundle
  <2>2. HostOK'
    BY <1>12, SameHostTyped DEF RecordBundle
  <2>3. saved' \in Ledger /\ Known' = saved' /\ saved'.bundle # None
    BY <1>12, <1>n, SavedKnown, RecordedTyped, CommandFields DEF RecordBundle, CommandOK
  <2>4. CommandOK'
    BY <1>12, <1>n, <2>3 DEF CommandOK, RecordBundle, Goto, Labels
  <2>5. CountersOK'
    BY <1>12, OwnTyped DEF RecordBundle, CountersOK
  <2> QED
    BY <2>2, <2>3, <2>4, <2>5
<1>13. CASE Rollback
  <2>2. HostOK'
    <3>1. OldPath \in Paths
      BY <1>13, <1>a, <1>n DEF Rollback, CommandOK, OldPath, Reg
    <3> QED
      BY <1>13, <3>1, InstallTyped DEF Rollback
  <2>3. Known' = Known /\ saved' \in Ledger \cup {NoLedger}
    BY <1>13, SameKnown DEF Rollback
  <2>4. CommandOK'
    BY <1>13, <1>n, <2>3 DEF CommandOK, Rollback, Goto, Labels
  <2>5. CountersOK'
    BY <1>13, OwnTyped DEF Rollback, CountersOK
  <2> QED
    BY <2>2, <2>3, <2>4, <2>5
<1>14. CASE \E c \in Caps : Approve(c)
  <2>2. HostOK'
    BY <1>14, <1>n, CommandFields DEF Approve, Trusts, HostOK, Wanted
  <2>3. Known' = Known /\ saved' \in Ledger \cup {NoLedger}
    BY <1>14, SameKnown DEF Approve
  <2>4. CommandOK'
    BY <1>14, <1>n, <2>3 DEF CommandOK, Approve, Goto, Labels
  <2>5. CountersOK'
    BY <1>14, OwnTyped DEF Approve, CountersOK
  <2> QED
    BY <2>2, <2>3, <2>4, <2>5
<1>15. CASE Verify
  <2>2. HostOK'
    BY <1>15, SameHostTyped DEF Verify
  <2>3. Known' = Known /\ saved' \in Ledger \cup {NoLedger}
    BY <1>15, SameKnown DEF Verify
  <2>4. CommandOK'
    BY <1>15, <1>n, <2>3, EndTyped DEF CommandOK, Verify, Goto, Labels, GotoOrEnd
  <2>5. CountersOK'
    BY <1>15, OwnTyped DEF Verify, CountersOK
  <2> QED
    BY <2>2, <2>3, <2>4, <2>5
<1>16. CASE Finish
  <2>2. HostOK'
    BY <1>16, SameHostTyped DEF Finish
  <2>3. saved' \in Ledger
    BY <1>16, <1>n, RecordedTyped, CommandFields DEF Finish, CommandOK, Wanted
  <2>4. CommandOK'
    BY <1>16, EndTyped DEF Finish
  <2>5. CountersOK'
    BY <1>16, OwnTyped DEF Finish, CountersOK
  <2> QED
    BY <2>2, <2>3, <2>4, <2>5
<1>17. CASE \E b \in BOOLEAN : PlanUndo(b)
  <2>2. HostOK'
    BY <1>17, SameHostTyped DEF PlanUndo
  <2>3. Known' = Known /\ saved' \in Ledger \cup {NoLedger}
    BY <1>17, SameKnown DEF PlanUndo
  <2>4. CommandOK'
    <3>1. CASE Ends
      BY <3>1, EndTyped
    <3>2. PICK b \in BOOLEAN : PlanUndo(b)
      BY <1>17
    <3>3. CASE ~Ends
      <4>1. /\ cmd' = [cmd EXCEPT !.todo = Undoes(b)]
            /\ pc' = "undoing" /\ pc = "undo"
        BY <3>2, <3>3 DEF PlanUndo
      <4>2. Undoes(b) \in SUBSET Things
        BY DEF Undoes, Registered, Held
      <4>3. cmd' \in Command /\ cmd'.kind = cmd.kind
        BY <4>1, <4>2, <1>n, CommandUndoes
      <4> QED
        BY <4>1, <4>3, <1>n, <2>3 DEF CommandOK, Labels
    <3> QED
      BY <3>1, <3>3
  <2>5. CountersOK'
    BY <1>17, OwnTyped, FaultTyped DEF PlanUndo, CountersOK
  <2> QED
    BY <2>2, <2>3, <2>4, <2>5
<1>18. CASE UndoStep
  <2>2. HostOK'
    BY <1>18, RemoveTyped, DropTyped DEF UndoStep, Undo
  <2>3. Known' = Known /\ saved' \in Ledger \cup {NoLedger}
    BY <1>18, SameKnown DEF UndoStep
  <2>4. CommandOK'
    <3>1. cmd \in Command /\ cmd.todo \ {NextUndo} \in SUBSET Things
      BY <1>18, <1>n, CommandFields DEF UndoStep
    <3>2. cmd' = [cmd EXCEPT !.todo = cmd.todo \ {NextUndo}]
      BY <1>18 DEF UndoStep
    <3>3. cmd' \in Command /\ cmd'.kind = cmd.kind
      BY <3>1, <3>2, CommandUndoes
    <3> QED
      BY <1>18, <1>n, <2>3, <3>3 DEF CommandOK, UndoStep
  <2>5. CountersOK'
    BY <1>18, OwnTyped DEF UndoStep, CountersOK
  <2> QED
    BY <2>2, <2>3, <2>4, <2>5
<1>19. CASE EndUndo
  <2>2. HostOK'
    BY <1>19, SameHostTyped DEF EndUndo
  <2>3. saved' \in Ledger \cup {NoLedger}
    BY <1>19, RemainingTyped DEF EndUndo
  <2>4. CommandOK'
    BY <1>19, EndTyped DEF EndUndo
  <2>5. CountersOK'
    BY <1>19, OwnTyped DEF EndUndo, CountersOK
  <2> QED
    BY <2>2, <2>3, <2>4, <2>5
<1> QED
  BY <1>1, <1>2, <1>3, <1>4, <1>5, <1>6, <1>7, <1>8, <1>9, <1>10, <1>11, <1>12, <1>13, <1>14, <1>15, <1>16, <1>17, <1>18, <1>19 DEF Step

\* Every failure keeps the types.
LEMMA FailureTyped == TypeOK /\ Failure => TypeOK'
<1> SUFFICES ASSUME TypeOK, Failure
             PROVE  TypeOK'
  OBVIOUS
<1> USE DEF TypeOK
<1>n. /\ pc # "idle" => cmd \in Command /\ cmd.src \in Sources
      /\ \A c \in Command : c # None
  BY CommandFields DEF CommandOK
<1>a. Known.bundle \in Reg \cup {None}
  BY KnownTyped
<1>1. CASE MarketAddFails
  <2>1. HostOK'
    BY <1>1, <1>n, SameHostTyped, AddTyped DEF MarketAddFails
  <2>2. CountersOK'
    BY <1>1, FaultTyped, OwnTyped DEF MarketAddFails, CountersOK, Things
  <2> QED
    BY <1>1, <2>1, <2>2, EndTyped DEF MarketAddFails
<1>2. CASE MarketRefreshFails
  <2>1. HostOK'
    BY <1>2, <1>n, SameHostTyped DEF MarketRefreshFails
  <2>2. CountersOK'
    BY <1>2, FaultTyped, OwnTyped DEF MarketRefreshFails, CountersOK, Things
  <2> QED
    BY <1>2, <2>1, <2>2, EndTyped DEF MarketRefreshFails
<1>3. CASE MarketRemoveFails
  <2>1. HostOK'
    BY <1>3, <1>n, SameHostTyped, DropTyped DEF MarketRemoveFails
  <2>2. CountersOK'
    BY <1>3, FaultTyped, OwnTyped DEF MarketRemoveFails, CountersOK, Things
  <2> QED
    BY <1>3, <2>1, <2>2, EndTyped DEF MarketRemoveFails
<1>4. CASE LookFails
  <2>1. HostOK'
    BY <1>4, <1>n, SameHostTyped DEF LookFails
  <2>2. CountersOK'
    BY <1>4, FaultTyped, OwnTyped DEF LookFails, CountersOK, Things
  <2> QED
    BY <1>4, <2>1, <2>2, EndTyped DEF LookFails
<1>5. CASE PreflightFails
  <2>1. HostOK'
    BY <1>5, <1>n, SameHostTyped DEF PreflightFails
  <2>2. CountersOK'
    BY <1>5, FaultTyped, OwnTyped DEF PreflightFails, CountersOK, Things
  <2> QED
    BY <1>5, <2>1, <2>2, EndTyped DEF PreflightFails
<1>6. CASE RemoveBundleFails
  <2>1. HostOK'
    BY <1>6, <1>n, SameHostTyped, RemoveTyped DEF RemoveBundleFails
  <2>2. CountersOK'
    BY <1>6, FaultTyped, OwnTyped DEF RemoveBundleFails, CountersOK, Things
  <2> QED
    BY <1>6, <2>1, <2>2, EndTyped DEF RemoveBundleFails
<1>7. CASE InstallBundleFails
  <2>1. HostOK'
    BY <1>7, SameHostTyped, InstallTyped, PackagePathTyped DEF InstallBundleFails
  <2>2. CountersOK'
    BY <1>7, FaultTyped, OwnTyped DEF InstallBundleFails, CountersOK, Things
  <2>3. Known' = Known
    BY <1>7, SameKnown DEF InstallBundleFails
  <2>4. CommandOK'
    BY <1>7, <1>n, <2>3, EndTyped
    DEF InstallBundleFails, CommandOK, GotoOrEnd, Goto, AfterFailure, Labels
  <2> QED
    BY <1>7, <2>1, <2>2, <2>4 DEF InstallBundleFails
<1>8. CASE RollbackFails
  <2>1. OldPath \in Paths
    BY <1>8, <1>a, <1>n DEF RollbackFails, CommandOK, OldPath, Reg
  <2>2. HostOK'
    BY <1>8, <2>1, SameHostTyped, InstallTyped DEF RollbackFails
  <2>3. CountersOK'
    BY <1>8, FaultTyped, OwnTyped DEF RollbackFails, CountersOK
  <2> QED
    BY <1>8, <2>2, <2>3, EndTyped DEF RollbackFails
<1>9. CASE ApproveFails
  <2>1. HostOK'
    BY <1>9, SameHostTyped DEF ApproveFails, Trusts, HostOK
  <2>2. CountersOK'
    BY <1>9, FaultTyped, OwnTyped DEF ApproveFails, CountersOK
  <2> QED
    BY <1>9, <2>1, <2>2, EndTyped DEF ApproveFails
<1>10. CASE UndoStepFails
  <2>1. HostOK'
    BY <1>10, SameHostTyped, RemoveTyped, DropTyped DEF UndoStepFails, Undo
  <2>2. CountersOK'
    BY <1>10, FaultTyped DEF UndoStepFails, CountersOK
  <2>3. Known' = Known
    BY <1>10, SameKnown DEF UndoStepFails
  <2>4. CommandOK'
    <3>1. CASE Ends
      BY <3>1, EndTyped
    <3>2. CASE ~Ends
      <4>1. cmd' = Failed(cmd) /\ pc' = pc /\ cmd \in Command /\ pc = "undoing"
        BY <1>10, <3>2, <1>n DEF UndoStepFails
      <4>2. /\ cmd.todo \ {NextUndo} \in SUBSET Things
            /\ cmd.left \cup {NextUndo} \in SUBSET Things
        BY <4>1, CommandFields DEF NextUndo, Things
      <4>3. cmd' = [cmd EXCEPT !.todo = cmd.todo \ {NextUndo},
                               !.left = cmd.left \cup {NextUndo}]
        BY <4>1 DEF Failed
      <4>4. cmd' \in Command /\ cmd'.kind = cmd.kind
        BY <4>1, <4>2, <4>3 DEF Command
      <4> QED
        BY <4>1, <4>4, <1>n, <2>3 DEF CommandOK
    <3> QED
      BY <3>1, <3>2
  <2> QED
    BY <1>10, <2>1, <2>2, <2>4 DEF UndoStepFails
<1> QED
  BY <1>1, <1>2, <1>3, <1>4, <1>5, <1>6, <1>7, <1>8, <1>9, <1>10 DEF Failure

\* The environment, and the commands' beginnings.
LEMMA OtherTyped ==
    ASSUME TypeOK,
           \/ Kill \/ Reconcile \/ UserRemoves
           \/ \E s \in Dirs, f \in BOOLEAN : BeginInstall(s, f) \/ BeginUpdate(s, f)
           \/ \E f \in BOOLEAN : BeginUninstall(f)
           \/ \E s \in Sources, d \in Digests : ContentMoves(s, d)
    PROVE  TypeOK'
<1>b. MaxKills \in Nat /\ MaxEdits \in Nat
  BY BundleAssumption
<1>1. CASE Kill
  <2>1. HostOK'
    BY <1>1, SameHostTyped DEF Kill, TypeOK
  <2>2. CountersOK'
    BY <1>1, <1>b DEF Kill, TypeOK, CountersOK, Forgotten, Unrecorded, Things
  <2> QED
    BY <1>1, <2>1, <2>2, EndTyped DEF Kill, TypeOK
<1>2. CASE Reconcile
  <2>1. saved' \in Ledger
    BY <1>2 DEF Reconcile, TypeOK, HostOK, Market, OnHost, Reg, Ledger
  <2>2. HostOK' /\ CountersOK'
    BY <1>2, SameHostTyped DEF Reconcile, TypeOK, CountersOK, envVars
  <2>3. pc' = "idle" /\ cmd' = cmd /\ pc = "idle"
    BY <1>2 DEF Reconcile
  <2>4. cmd = None
    BY <2>3 DEF TypeOK, CommandOK
  <2> QED
    BY <2>1, <2>2, <2>3, <2>4 DEF TypeOK, CommandOK
<1>3. CASE UserRemoves
  <2>1. HostOK'
    BY <1>3, RemoveTyped, DropTyped DEF UserRemoves, TypeOK
  <2>2. CountersOK'
    BY <1>3, <1>b DEF UserRemoves, User, TypeOK, CountersOK
  <2>3. Known' = Known
    BY <1>3, SameKnown DEF UserRemoves, User
  <2> QED
    BY <1>3, <2>1, <2>2, <2>3 DEF UserRemoves, User, TypeOK, CommandOK
<1>4. CASE \E s \in Dirs, f \in BOOLEAN : BeginInstall(s, f) \/ BeginUpdate(s, f)
  BY <1>4, BeginTyped DEF BeginInstall, BeginUpdate
<1>5. CASE \E f \in BOOLEAN : BeginUninstall(f)
  <2>1. (CHOOSE s \in Dirs : TRUE) \in Dirs
    BY BundleAssumption
  <2> QED
    BY <1>5, <2>1, BeginTyped DEF BeginUninstall
<1>6. CASE \E s \in Sources, d \in Digests : ContentMoves(s, d)
  <2>1. HostOK'
    BY <1>6 DEF ContentMoves, TypeOK, HostOK
  <2>2. CountersOK'
    BY <1>6, <1>b DEF ContentMoves, User, TypeOK, CountersOK
  <2>3. Known' = Known
    BY <1>6, SameKnown DEF ContentMoves, User
  <2> QED
    BY <1>6, <2>1, <2>2, <2>3 DEF ContentMoves, User, TypeOK, CommandOK
<1> QED
  BY <1>1, <1>2, <1>3, <1>4, <1>5, <1>6

\* TypeOK holds in every reachable state: what a step reads of its command has
\* been seen before, and a command that updates always has a registration to go
\* back to.
THEOREM TypeCorrect == Spec => []TypeOK
<1>1. TypeOK /\ [Next]_vars => TypeOK'
  <2>1. TypeOK /\ Next => TypeOK'
    BY StepTyped, FailureTyped, OtherTyped DEF Next
  <2>2. TypeOK /\ UNCHANGED vars => TypeOK'
    BY DEF TypeOK, HostOK, CommandOK, CountersOK, vars, hostVars, envVars, Known
  <2> QED
    BY <2>1, <2>2
<1> QED
  BY InitTyped, <1>1, PTL DEF Spec

-----------------------------------------------------------------------------
(* The ledger and the bundle.  Two facts carry it: a command that is about *)
(* to record has, unless someone meddled, the bundle it will record; and   *)
(* an uninstall that has no step left for the bundle has none to take.     *)

SeenIsThere ==
    quiet /\ pc \in {"record", "approve", "finish"} =>
        bundle # None /\ bundle.digest = cmd.avail

PlanCovers ==
    pc = "undoing" /\ "bundle" \notin cmd.todo \cup cmd.left =>
        bundle = None \/ Known.bundle = None

KnowsInv == TypeOK /\ SeenIsThere /\ PlanCovers /\ LedgerKnowsBundle

\* What a step may do to the bundle and its registration.
Untouched == bundle' = bundle /\ Known'.bundle = Known.bundle
Taken == bundle' = None /\ Known'.bundle = Known.bundle
Given == bundle = None /\ bundle' \in OnHost /\ Known'.bundle = Known.bundle

\* An action on the marketplace alone, or on nothing, leaves both.
LEMMA KeepingSteps ==
    ASSUME TypeOK, TypeOK',
           \/ MarketAdd \/ MarketAgain \/ MarketRefresh \/ MarketRemove \/ Look
           \/ Preflight \/ Verify \/ (\E b \in BOOLEAN : PlanUndo(b))
           \/ (\E c \in Caps : Approve(c)) \/ ForgetMarket \/ RegisterMarket
           \/ MarketAddFails \/ MarketRefreshFails \/ MarketRemoveFails
           \/ LookFails \/ PreflightFails \/ ApproveFails \/ Kill
           \/ (\E s \in Sources, d \in Digests : ContentMoves(s, d))
           \/ (\E s \in Dirs, f \in BOOLEAN : BeginInstall(s, f) \/ BeginUpdate(s, f))
           \/ (\E f \in BOOLEAN : BeginUninstall(f))
    PROVE  Untouched
<1>1. CASE ForgetMarket \/ RegisterMarket
  <2>1. saved' \in Ledger /\ saved'.bundle = Known.bundle
    <3>1. Known \in Ledger
      BY KnownTyped DEF TypeOK
    <3>2. cmd.mkt \in Sources \cup {None} \/ ForgetMarket
      BY <1>1, CommandFields, BundleAssumption DEF RegisterMarket, TypeOK, CommandOK
    <3> QED
      BY <1>1, <3>1, <3>2 DEF ForgetMarket, RegisterMarket, Ledger
  <2> QED
    BY <1>1, <2>1, SavedKnown DEF ForgetMarket, RegisterMarket, hostVars, Untouched
<1>2. CASE ~(ForgetMarket \/ RegisterMarket)
  <2>1. saved' = saved
    BY <1>2
    DEF MarketAdd, MarketAgain, MarketRefresh, MarketRemove, Look, Preflight, Verify,
        PlanUndo, Approve, MarketAddFails, MarketRefreshFails, MarketRemoveFails,
        LookFails, PreflightFails, ApproveFails, Kill, ContentMoves, User,
        BeginInstall, BeginUpdate, BeginUninstall, Begin
  <2>2. bundle' = bundle
    BY <1>2
    DEF MarketAdd, MarketAgain, MarketRefresh, MarketRemove, Look, Preflight, Verify,
        PlanUndo, Approve, MarketAddFails, MarketRefreshFails, MarketRemoveFails,
        LookFails, PreflightFails, ApproveFails, Kill, ContentMoves, User,
        BeginInstall, BeginUpdate, BeginUninstall, Begin, hostVars,
        AddsMarket, DropsMarket, Refreshed, Trusts
  <2> QED
    BY <2>1, <2>2, SameKnown DEF Untouched
<1> QED
  BY <1>1, <1>2

\* The steps that touch the bundle.
LEMMA BundleSteps ==
    ASSUME TypeOK, TypeOK',
           \/ RemoveBundle \/ RemoveBundleFails \/ UndoStep \/ UndoStepFails
           \/ UserRemoves \/ Cleanup \/ InstallBundle \/ InstallBundleFails
           \/ Rollback \/ RollbackFails
    PROVE  Untouched \/ Taken \/ Given
<1>1. Known' = Known
  BY SameKnown
  DEF RemoveBundle, RemoveBundleFails, UndoStep, UndoStepFails, UserRemoves, User,
      Cleanup, InstallBundle, InstallBundleFails, Rollback, RollbackFails
<1>2. bundle' = bundle \/ bundle' = None \/ (bundle = None /\ bundle' # None)
  BY DEF RemoveBundle, RemoveBundleFails, UndoStep, UndoStepFails, UserRemoves, User,
      Cleanup, InstallBundle, InstallBundleFails, Rollback, RollbackFails,
      Removes, DropsMarket, Undo, Installs, hostVars
<1>3. bundle' \in OnHost \cup {None}
  BY DEF TypeOK, HostOK
<1> QED
  BY <1>1, <1>2, <1>3 DEF Untouched, Taken, Given

\* The actions that save what they have just put there, or looked up.
LEMMA RecordingSteps ==
    ASSUME TypeOK, TypeOK', RecordBundle \/ Finish \/ Reconcile
    PROVE  /\ bundle' = bundle
           /\ Known' = saved'
           /\ RecordBundle \/ Finish => Known'.bundle # None /\ Known'.bundle.digest = cmd.avail
           /\ Reconcile => Know' = Have
<1>1. bundle' = bundle
  BY DEF RecordBundle, Finish, Reconcile, hostVars
<1>2. CASE RecordBundle \/ Finish
  <2>1. PICK a \in SUBSET Caps : saved' = Recorded(a)
    BY <1>2 DEF RecordBundle, Finish, Wanted
  <2>2. /\ cmd \in Command /\ cmd.mkt # None /\ cmd.avail # None /\ cmd.at # None
        /\ pc # "idle"
    BY <1>2 DEF RecordBundle, Finish, TypeOK, CommandOK
  <2>3. saved' \in Ledger /\ saved'.bundle # None
    BY <2>1, <2>2, RecordedTyped
  <2>4. saved'.bundle.digest = cmd.avail
    BY <2>1 DEF Recorded
  <2> QED
    BY <1>1, <1>2, <2>2, <2>3, <2>4, SavedKnown DEF RecordBundle, Finish, Reconcile
<1>3. CASE Reconcile
  <2>1. saved' \in Ledger
    BY <1>3 DEF Reconcile, TypeOK, HostOK, Market, OnHost, Reg, Ledger
  <2>2. Known' = saved'
    BY <2>1, SavedKnown
  <2>3. bundle = None => saved'.bundle = None
    BY <1>3 DEF Reconcile
  <2>4. bundle # None => saved'.bundle # None /\ saved'.bundle.digest = bundle.digest
    <3>1. SUFFICES ASSUME bundle # None
                   PROVE  saved'.bundle # None /\ saved'.bundle.digest = bundle.digest
      OBVIOUS
    <3>2. saved'.bundle = [digest |-> bundle.digest, path |-> bundle.path, approved |-> trusted]
      BY <1>3, <3>1 DEF Reconcile
    <3>3. saved'.bundle \in Reg
      BY <3>1, <3>2 DEF TypeOK, HostOK, OnHost, Reg
    <3> QED
      BY <3>2, <3>3, BundleAssumption
  <2> QED
    BY <1>1, <1>3, <2>2, <2>3, <2>4 DEF Know, Have, RecordBundle, Finish, Reconcile
<1> QED
  BY <1>2, <1>3

\* The end of an uninstall keeps the registration of a bundle whose step failed.
LEMMA UndoEnds ==
    ASSUME TypeOK, TypeOK', EndUndo
    PROVE  /\ bundle' = bundle
           /\ Known'.bundle = IF "bundle" \in cmd.left THEN Known.bundle ELSE None
<1>1. bundle' = bundle /\ saved' = Remaining
  BY DEF EndUndo, hostVars
<1>2. CASE saved = NoLedger \/ cmd.left = {}
  <2>1. saved' = NoLedger /\ Known'.bundle = None
    BY <1>1, <1>2 DEF Remaining, Known, Empty
  <2> QED
    BY <1>1, <1>2, <2>1 DEF Known, Empty
<1>3. CASE ~(saved = NoLedger \/ cmd.left = {})
  <2>1. saved' = [t \in Things |-> IF t \in cmd.left THEN saved[t] ELSE None]
    BY <1>1, <1>3 DEF Remaining
  <2>2. saved' \in Ledger
    <3>2. saved \in Ledger
      BY <1>3 DEF TypeOK
    <3>3. saved' = [market |-> saved'["market"], bundle |-> saved'["bundle"]]
      BY <2>1 DEF Things
    <3>4. saved'["market"] \in Sources \cup {None} /\ saved'["bundle"] \in Reg \cup {None}
      BY <2>1, <3>2 DEF Ledger, Things
    <3> QED
      BY <3>3, <3>4 DEF Ledger
  <2>3. Known' = saved'
    BY <2>2, SavedKnown
  <2>4. saved'["bundle"] = IF "bundle" \in cmd.left THEN saved["bundle"] ELSE None
    BY <2>1 DEF Things
  <2>5. saved'["bundle"] = saved'.bundle /\ saved["bundle"] = saved.bundle /\ Known = saved
    BY <1>3 DEF Known
  <2> QED
    BY <1>1, <2>3, <2>4, <2>5
<1> QED
  BY <1>2, <1>3

\* A command about to record has seen what it records.
LEMMA SeenKept == TypeOK /\ TypeOK' /\ SeenIsThere /\ Next => SeenIsThere'
<1> SUFFICES ASSUME TypeOK, TypeOK', SeenIsThere, Next,
                    quiet', pc' \in {"record", "approve", "finish"}
             PROVE  bundle' # None /\ bundle'.digest = cmd'.avail
  BY DEF SeenIsThere
<1>1. pc # "idle" => cmd \in Command
  BY DEF TypeOK, CommandOK
<1>2. CASE Look
  <2>1. UpToDate /\ bundle' = bundle /\ cmd \in Command /\ cmd'.avail = market.digest
    BY <1>1, <1>2 DEF Look, hostVars, Command
  <2> QED
    BY <2>1 DEF UpToDate
<1>3. CASE InstallBundle
  <2>1. pc' = "record" /\ Accepted /\ cmd \in Command
    BY <1>1, <1>3 DEF InstallBundle
  <2>2. cmd'.avail = cmd.avail
    BY <1>3, <2>1 DEF InstallBundle, Command
  <2>3. bundle' # None
    BY <1>3, BundleAssumption, InstallTyped, PackagePathTyped DEF InstallBundle, TypeOK
  <2> QED
    BY <2>1, <2>2, <2>3 DEF Accepted
<1>4. CASE RecordBundle
  BY <1>4 DEF RecordBundle, SeenIsThere, Goto, Own, hostVars
<1>5. CASE \E c \in Caps : Approve(c)
  <2>1. pc' = pc /\ cmd' = cmd /\ bundle' = bundle /\ quiet' = quiet
    BY <1>5 DEF Approve, Trusts, Goto, Own, TypeOK, CommandOK
  <2> QED
    BY <2>1 DEF SeenIsThere
<1>6. CASE Verify
  <2>1. pc = "approve" /\ cmd' = cmd /\ bundle' = bundle /\ quiet' = quiet
    BY <1>6 DEF Verify, GotoOrEnd, Goto, Ends, Own, hostVars
  <2> QED
    BY <2>1 DEF SeenIsThere
<1>7. CASE \E s \in Sources, d \in Digests : ContentMoves(s, d)
  BY <1>7 DEF ContentMoves, User, SeenIsThere
<1>8. CASE UserRemoves
  <2>1. pc = "idle"
    BY <1>8 DEF UserRemoves
  <2> QED
    BY <1>8, <2>1 DEF UserRemoves, User
<1>9. CASE Reconcile
  BY <1>9 DEF Reconcile
<1>10. CASE Failure \/ Kill
  BY <1>10
  DEF Failure, Kill, MarketAddFails, MarketRefreshFails, MarketRemoveFails, LookFails,
      PreflightFails, RemoveBundleFails, InstallBundleFails, RollbackFails,
      ApproveFails, UndoStepFails, Ends, Goto, GotoOrEnd, AfterFailure
<1>11. CASE \/ \E s \in Dirs, f \in BOOLEAN : BeginInstall(s, f) \/ BeginUpdate(s, f)
            \/ \E f \in BOOLEAN : BeginUninstall(f)
  BY <1>11 DEF BeginInstall, BeginUpdate, BeginUninstall
<1>12. CASE \/ MarketAdd \/ MarketAgain \/ MarketRefresh \/ MarketRemove \/ ForgetMarket
            \/ RegisterMarket \/ Preflight \/ RemoveBundle \/ Cleanup \/ Rollback
            \/ Finish \/ (\E b \in BOOLEAN : PlanUndo(b)) \/ UndoStep \/ EndUndo
  BY <1>12
  DEF MarketAdd, MarketAgain, MarketRefresh, MarketRemove, ForgetMarket,
      RegisterMarket, Preflight, RemoveBundle, Cleanup, Rollback, Finish, PlanUndo,
      UndoStep, EndUndo, Goto, GotoOrEnd, Ends, Reported, Ensured, AfterFailure
<1> QED
  BY <1>2, <1>3, <1>4, <1>5, <1>6, <1>7, <1>8, <1>9, <1>10, <1>11, <1>12 DEF Next, Step

\* An uninstall never drops the registration of a bundle it has not undone.
LEMMA PlanKept == TypeOK /\ TypeOK' /\ PlanCovers /\ Next => PlanCovers'
<1> SUFFICES ASSUME TypeOK, TypeOK', PlanCovers, Next,
                    pc' = "undoing", "bundle" \notin cmd'.todo \cup cmd'.left
             PROVE  bundle' = None \/ Known'.bundle = None
  BY DEF PlanCovers
<1>1. pc # "idle" => cmd \in Command
  BY DEF TypeOK, CommandOK
<1>2. CASE \E b \in BOOLEAN : PlanUndo(b)
  <2>1. PICK b \in BOOLEAN : PlanUndo(b)
    BY <1>2
  <2>2. cmd \in Command /\ cmd' = [cmd EXCEPT !.todo = Undoes(b)]
    BY <1>1, <2>1 DEF PlanUndo, Ends
  <2>3. "bundle" \notin Undoes(b)
    BY <2>2 DEF Command
  <2>4. bundle = None \/ Known.bundle = None
    BY <2>3 DEF Undoes, Registered, Held, Things
  <2> QED
    BY <1>2, <2>4, KeepingSteps DEF Untouched
<1>3. CASE UndoStep
  <2>1. cmd \in Command /\ pc = "undoing" /\ cmd' = [cmd EXCEPT !.todo = cmd.todo \ {NextUndo}]
    BY <1>1, <1>3 DEF UndoStep
  <2>2. cmd'.todo = cmd.todo \ {NextUndo} /\ cmd'.left = cmd.left
    BY <2>1 DEF Command
  <2>3. CASE NextUndo = "bundle"
    BY <1>3, <2>3 DEF UndoStep, Undo, Removes
  <2>4. CASE NextUndo # "bundle"
    <3>1. "bundle" \notin cmd.todo \cup cmd.left
      BY <2>2, <2>4
    <3>2. bundle' = bundle /\ Known' = Known
      BY <1>3, <2>4, SameKnown DEF UndoStep, Undo, DropsMarket
    <3> QED
      BY <2>1, <3>1, <3>2 DEF PlanCovers
  <2> QED
    BY <2>3, <2>4
<1>4. CASE UndoStepFails
  <2>1. cmd \in Command /\ pc = "undoing" /\ cmd' = Failed(cmd)
    BY <1>1, <1>4 DEF UndoStepFails, Ends
  <2>2. cmd'.todo = cmd.todo \ {NextUndo} /\ cmd'.left = cmd.left \cup {NextUndo}
    BY <2>1 DEF Command, Failed
  <2>3. NextUndo # "bundle" /\ "bundle" \notin cmd.todo \cup cmd.left
    BY <2>2
  <2>4. bundle' = bundle /\ Known' = Known
    BY <1>4, <2>3, SameKnown DEF UndoStepFails, Undo, DropsMarket, hostVars
  <2> QED
    BY <2>1, <2>3, <2>4 DEF PlanCovers
<1>5. CASE UserRemoves
  <2>1. pc = "undoing" /\ cmd' = cmd /\ Known' = Known
    BY <1>5, SameKnown DEF UserRemoves, User
  <2>2. bundle' = bundle \/ bundle' = None
    BY <1>5 DEF UserRemoves, Removes, DropsMarket
  <2> QED
    BY <2>1, <2>2 DEF PlanCovers
<1>6. CASE \E s \in Sources, d \in Digests : ContentMoves(s, d)
  BY <1>6, SameKnown DEF ContentMoves, User, PlanCovers
<1>7. CASE Reconcile \/ Kill
  BY <1>7 DEF Reconcile, Kill, Ends
<1>8. CASE \/ MarketAddFails \/ MarketRefreshFails \/ MarketRemoveFails \/ LookFails
           \/ PreflightFails \/ RemoveBundleFails \/ InstallBundleFails \/ RollbackFails
           \/ ApproveFails
  BY <1>8
  DEF MarketAddFails, MarketRefreshFails, MarketRemoveFails, LookFails,
      PreflightFails, RemoveBundleFails, InstallBundleFails, RollbackFails,
      ApproveFails, Ends, Goto, GotoOrEnd, AfterFailure
<1>9. CASE \/ \E s \in Dirs, f \in BOOLEAN : BeginInstall(s, f) \/ BeginUpdate(s, f)
           \/ \E f \in BOOLEAN : BeginUninstall(f)
  BY <1>9 DEF BeginInstall, BeginUpdate, BeginUninstall
<1>10. CASE \/ MarketAdd \/ MarketAgain \/ MarketRefresh \/ MarketRemove \/ ForgetMarket
            \/ RegisterMarket \/ Look \/ Preflight \/ RemoveBundle \/ InstallBundle
            \/ Cleanup \/ RecordBundle \/ Rollback \/ (\E c \in Caps : Approve(c))
            \/ Verify \/ Finish \/ EndUndo
  BY <1>10
  DEF MarketAdd, MarketAgain, MarketRefresh, MarketRemove, ForgetMarket,
      RegisterMarket, Look, Preflight, RemoveBundle, InstallBundle, Cleanup,
      RecordBundle, Rollback, Approve, Verify, Finish, EndUndo, Goto, GotoOrEnd, Ends,
      Reported, Ensured, AfterFailure
<1> QED
  BY <1>2, <1>3, <1>4, <1>5, <1>6, <1>7, <1>8, <1>9, <1>10 DEF Next, Step, Failure

\* A bundle on the host is registered, about to be, or orphaned.
LEMMA KnowsKept == TypeOK /\ TypeOK' /\ PlanCovers /\ LedgerKnowsBundle /\ Next => LedgerKnowsBundle'
<1> SUFFICES ASSUME TypeOK, TypeOK', PlanCovers, LedgerKnowsBundle, Next, bundle' # None
             PROVE  \/ Known'.bundle # None
                    \/ pc' \in Unledgered
                    \/ "bundle" \in orphaned'
  BY DEF LedgerKnowsBundle
<1>1. CASE RecordBundle \/ Finish
  BY <1>1, RecordingSteps
<1>2. CASE Reconcile
  BY <1>2, RecordingSteps, BundleAssumption DEF Know, Have, TypeOK, HostOK, OnHost
<1>3. CASE EndUndo
  <2>1. pc = "undoing" /\ cmd.todo = {} /\ orphaned' = orphaned
    BY <1>3 DEF EndUndo
  <2> QED
    BY <1>3, <2>1, UndoEnds DEF LedgerKnowsBundle, PlanCovers, Unledgered
<1>4. CASE \/ MarketAdd \/ MarketAgain \/ MarketRefresh \/ MarketRemove \/ Look
           \/ Preflight \/ Verify \/ (\E b \in BOOLEAN : PlanUndo(b))
           \/ (\E c \in Caps : Approve(c)) \/ ForgetMarket \/ RegisterMarket
           \/ MarketAddFails \/ MarketRefreshFails \/ MarketRemoveFails
           \/ LookFails \/ PreflightFails \/ ApproveFails \/ Kill
           \/ (\E s \in Dirs, f \in BOOLEAN : BeginInstall(s, f) \/ BeginUpdate(s, f))
           \/ (\E f \in BOOLEAN : BeginUninstall(f))
  <2>1. Untouched
    BY <1>4, KeepingSteps
  <2>2. "bundle" \in orphaned => "bundle" \in orphaned'
    BY <1>4
    DEF MarketAdd, MarketAgain, MarketRefresh, MarketRemove, Look, Preflight, Verify,
        PlanUndo, Approve, MarketAddFails, MarketRefreshFails, MarketRemoveFails,
        LookFails, PreflightFails, ApproveFails, Kill, ForgetMarket, RegisterMarket,
        BeginInstall, BeginUpdate, BeginUninstall, Begin
  <2>3. pc \in Unledgered => "bundle" \in orphaned'
    BY <1>4
    DEF MarketAdd, MarketAgain, MarketRefresh, MarketRemove, Look, Preflight, Verify,
        PlanUndo, Approve, MarketAddFails, MarketRefreshFails, MarketRemoveFails,
        LookFails, PreflightFails, ApproveFails, Kill, ForgetMarket, RegisterMarket,
        BeginInstall, BeginUpdate, BeginUninstall, Begin, Unledgered, Unrecorded
  <2> QED
    BY <2>1, <2>2, <2>3 DEF Untouched, LedgerKnowsBundle
<1>5. CASE \E s \in Sources, d \in Digests : ContentMoves(s, d)
  BY <1>5, SameKnown DEF ContentMoves, User, LedgerKnowsBundle
<1>6. CASE InstallBundle
  BY <1>6 DEF InstallBundle, Unledgered
<1>7. CASE InstallBundleFails
  <2>1. Known' = Known /\ pc = "install"
    BY <1>7, SameKnown DEF InstallBundleFails
  <2> QED
    BY <1>7, <2>1 DEF InstallBundleFails, LedgerKnowsBundle, Unledgered, hostVars
<1>8. CASE Cleanup
  BY <1>8 DEF Cleanup, Removes
<1>9. CASE Rollback \/ RollbackFails
  <2>1. Known' = Known /\ pc = "rollback"
    BY <1>9, SameKnown DEF Rollback, RollbackFails
  <2>2. Known.bundle # None
    BY <2>1 DEF TypeOK, CommandOK
  <2> QED
    BY <2>1, <2>2
<1>10. CASE \/ RemoveBundle \/ RemoveBundleFails \/ UndoStep \/ UndoStepFails \/ UserRemoves
  <2>1. Known' = Known /\ orphaned' = orphaned /\ bundle' \in {bundle, None}
    BY <1>10, SameKnown
    DEF RemoveBundle, RemoveBundleFails, UndoStep, UndoStepFails, UserRemoves, User,
        Removes, DropsMarket, Undo, hostVars
  <2>2. pc \in Unledgered => pc' = pc
    BY <1>10
    DEF RemoveBundle, RemoveBundleFails, UndoStep, UndoStepFails, UserRemoves, User,
        Unledgered
  <2> QED
    BY <2>1, <2>2 DEF LedgerKnowsBundle
<1> QED
  BY <1>1, <1>2, <1>3, <1>4, <1>5, <1>6, <1>7, <1>8, <1>9, <1>10 DEF Next, Step, Failure

LEMMA KnowsInductive ==
    /\ Init => KnowsInv
    /\ KnowsInv /\ [Next]_vars => KnowsInv'
<1>1. Init => KnowsInv
  BY InitTyped DEF Init, KnowsInv, SeenIsThere, PlanCovers, LedgerKnowsBundle
<1>2. ASSUME KnowsInv, Next
      PROVE  KnowsInv'
  <2>1. TypeOK'
    BY <1>2, StepTyped, FailureTyped, OtherTyped DEF KnowsInv, Next
  <2> QED
    BY <1>2, <2>1, SeenKept, PlanKept, KnowsKept DEF KnowsInv
<1>3. ASSUME KnowsInv, UNCHANGED vars
      PROVE  KnowsInv'
  BY <1>3
  DEF KnowsInv, SeenIsThere, PlanCovers, LedgerKnowsBundle, TypeOK, HostOK, CommandOK,
      CountersOK, vars, hostVars, envVars, Known
<1> QED
  BY <1>1, <1>2, <1>3

\* A bundle on the host is one the ledger registers, but for the windows named.
THEOREM KnowsTheBundle == Spec => []LedgerKnowsBundle
<1>1. KnowsInv => LedgerKnowsBundle
  BY DEF KnowsInv
<1> QED
  BY KnowsInductive, <1>1, PTL DEF Spec

-----------------------------------------------------------------------------
(* The refinement: what the detailed steps do to the bundle on the host    *)
(* and to the one in the ledger is a step of BundlePromise.                *)

LEMMA PromiseInit == Init => Promise!Init
  BY DEF Init, Promise!Init, Have, Know, Known, Empty

LEMMA PromiseStep == KnowsInv /\ KnowsInv' /\ Next => Promise!Next
<1> SUFFICES ASSUME KnowsInv, KnowsInv', Next
             PROVE  Promise!Next
  OBVIOUS
<1> USE DEF Promise!Next
<1>1. quiet' \in BOOLEAN /\ TypeOK /\ TypeOK'
  BY DEF KnowsInv, TypeOK, CountersOK
<1>2. ASSUME Untouched PROVE Promise!Next
  BY <1>1, <1>2 DEF Untouched, Promise!Turn, Have, Know
<1>3. ASSUME Taken PROVE Promise!Next
  BY <1>1, <1>3 DEF Taken, Promise!Remove, Have, Know
<1>4. ASSUME Given PROVE Promise!Next
  <2>1. bundle'.digest \in Digests /\ bundle' # None
    BY <1>4, BundleAssumption DEF Given, OnHost
  <2> QED
    BY <1>1, <1>4, <2>1 DEF Given, Promise!Put, Have, Know
<1>5. ASSUME bundle' = bundle, quiet => Know' = Have PROVE Promise!Next
  <2>1. Know' \in Promise!Bundles
    BY <1>1, KnownTyped DEF Know, Known, TypeOK, Reg, Promise!Bundles, Ledger, Empty
  <2> QED
    BY <1>1, <1>5, <2>1 DEF Promise!Learn, Have
<1>6. CASE \/ MarketAdd \/ MarketAgain \/ MarketRefresh \/ MarketRemove \/ Look
           \/ Preflight \/ Verify \/ (\E b \in BOOLEAN : PlanUndo(b))
           \/ (\E c \in Caps : Approve(c)) \/ ForgetMarket \/ RegisterMarket
           \/ MarketAddFails \/ MarketRefreshFails \/ MarketRemoveFails
           \/ LookFails \/ PreflightFails \/ ApproveFails \/ Kill
           \/ (\E s \in Sources, d \in Digests : ContentMoves(s, d))
           \/ (\E s \in Dirs, f \in BOOLEAN : BeginInstall(s, f) \/ BeginUpdate(s, f))
           \/ (\E f \in BOOLEAN : BeginUninstall(f))
  BY <1>1, <1>2, <1>6, KeepingSteps
<1>7. CASE \/ RemoveBundle \/ RemoveBundleFails \/ UndoStep \/ UndoStepFails
           \/ UserRemoves \/ Cleanup \/ InstallBundle \/ InstallBundleFails
           \/ Rollback \/ RollbackFails
  BY <1>1, <1>2, <1>3, <1>4, <1>7, BundleSteps
<1>8. CASE RecordBundle \/ Finish \/ Reconcile
  <2>1. bundle' = bundle
    BY <1>1, <1>8, RecordingSteps
  <2>2. quiet => Know' = Have
    <3>1. CASE Reconcile
      BY <1>1, <3>1, RecordingSteps
    <3>2. CASE RecordBundle \/ Finish
      <4>1. pc \in {"record", "finish"}
        BY <3>2 DEF RecordBundle, Finish
      <4>2. quiet => bundle # None /\ bundle.digest = cmd.avail
        BY <4>1 DEF KnowsInv, SeenIsThere
      <4> QED
        BY <1>1, <3>2, <4>2, RecordingSteps DEF Know, Have
    <3> QED
      BY <1>8, <3>1, <3>2
  <2> QED
    BY <1>5, <2>1, <2>2
<1>9. CASE EndUndo
  <2>1. bundle' = bundle
    BY <1>1, <1>9, UndoEnds
  <2>2. CASE "bundle" \in cmd.left \/ Known.bundle = None
    BY <1>1, <1>2, <1>9, <2>2, UndoEnds DEF Untouched
  <2>3. CASE ~("bundle" \in cmd.left \/ Known.bundle = None)
    <3>1. Known'.bundle = None
      BY <1>1, <1>9, <2>3, UndoEnds
    <3>2. bundle = None
      BY <1>9, <2>3 DEF KnowsInv, PlanCovers, EndUndo
    <3> QED
      BY <1>5, <2>1, <3>1, <3>2 DEF Know, Have
  <2> QED
    BY <2>2, <2>3
<1> QED
  BY <1>6, <1>7, <1>8, <1>9 DEF Next, Step, Failure

\* The ledger's bundle follows the host's: the detailed commands, with all their
\* failures, implement the promise.
THEOREM PromiseKept == Spec => KeepsPromise
<1>1. KnowsInv /\ KnowsInv' /\ [Next]_vars => [Promise!Next]_(Promise!vars)
  <2>1. ASSUME UNCHANGED vars PROVE UNCHANGED Promise!vars
    BY <2>1 DEF vars, hostVars, Promise!vars, Have, Know, Known
  <2> QED
    BY <2>1, PromiseStep
<1> QED
  BY KnowsInductive, PromiseInit, <1>1, PTL DEF Spec, KeepsPromise, Promise!Spec

-----------------------------------------------------------------------------
(* What an uninstall leaves.                                               *)

\* Whatever the host holds and the ledger registers is a step to take or one
\* that failed; while nothing has failed, so is all the host holds.
UndoCovers ==
    /\ pc = "undo" => cmd.left = {}
    /\ pc = "undoing" =>
        /\ Held \cap Registered \subseteq cmd.todo \cup cmd.left
        /\ saved = NoLedger => cmd.left = {}
        /\ clean => Held \subseteq cmd.todo /\ cmd.left = {}

LEMMA UndoKept == TypeOK /\ TypeOK' /\ UndoCovers /\ Next => UndoCovers'
<1> SUFFICES ASSUME TypeOK, TypeOK', UndoCovers, Next, pc' \in {"undo", "undoing"}
             PROVE  UndoCovers'
  BY DEF UndoCovers
<1>1. pc # "idle" => cmd \in Command
  BY DEF TypeOK, CommandOK
<1>2. CASE \E b \in BOOLEAN : PlanUndo(b)
  <2>1. PICK b \in BOOLEAN : PlanUndo(b)
    BY <1>2
  <2>2. /\ cmd \in Command /\ cmd' = [cmd EXCEPT !.todo = Undoes(b)]
        /\ pc' = "undoing" /\ cmd.left = {}
        /\ UNCHANGED <<market, bundle, saved>>
    BY <1>1, <2>1 DEF PlanUndo, Ends, UndoCovers, hostVars
  <2>3. cmd'.todo = Undoes(b) /\ cmd'.left = {}
    BY <2>2 DEF Command
  <2>4. clean' => ~b
    BY <2>1, <2>2 DEF PlanUndo, Fault
  <2>5. Held' = Held /\ Registered' = Registered
    BY <2>2, SameKnown DEF Held, Registered
  <2> QED
    BY <2>2, <2>3, <2>4, <2>5 DEF UndoCovers, Undoes
<1>3. CASE UndoStep \/ UndoStepFails
  <2>1. /\ cmd \in Command /\ pc = "undoing" /\ pc' = "undoing" /\ saved' = saved
        /\ NextUndo \in cmd.todo
    BY <1>1, <1>3 DEF UndoStep, UndoStepFails, Ends, NextUndo, Command, Things
  <2>2. Registered' = Registered
    BY <2>1, SameKnown DEF Registered
  <2>3. CASE UndoStep
    <3>1. cmd'.todo = cmd.todo \ {NextUndo} /\ cmd'.left = cmd.left
      <4>1. cmd' = [cmd EXCEPT !.todo = cmd.todo \ {NextUndo}]
        BY <2>3 DEF UndoStep
      <4> QED
        BY <2>1, <4>1 DEF Command
    <3>2. Held' \subseteq Held \ {NextUndo}
      BY <2>3 DEF UndoStep, Undo, Removes, DropsMarket, NextUndo, Held, Things
    <3>3. clean' = clean
      BY <2>1, <2>3 DEF UndoStep, Own
    <3> QED
      BY <2>1, <2>2, <3>1, <3>2, <3>3 DEF UndoCovers
  <2>4. CASE UndoStepFails
    <3>1. /\ cmd'.todo = cmd.todo \ {NextUndo} /\ cmd'.left = cmd.left \cup {NextUndo}
          /\ saved # NoLedger
      <4>1. cmd' = Failed(cmd) /\ saved # NoLedger
        BY <2>1, <2>4 DEF UndoStepFails, Ends
      <4> QED
        BY <2>1, <4>1 DEF Command, Failed
    <3>2. Held' \subseteq Held
      BY <2>4 DEF UndoStepFails, Undo, Removes, DropsMarket, Held, hostVars
    <3>3. ~clean'
      BY <2>1, <2>4 DEF UndoStepFails, Fault
    <3> QED
      BY <2>1, <2>2, <3>1, <3>2, <3>3 DEF UndoCovers
  <2> QED
    BY <1>3, <2>3, <2>4
<1>4. CASE UserRemoves \/ (\E s \in Sources, d \in Digests : ContentMoves(s, d))
  <2>1. pc' = pc /\ cmd' = cmd /\ saved' = saved /\ ~clean'
    BY <1>4 DEF UserRemoves, ContentMoves, User
  <2>2. Held' \subseteq Held /\ Registered' = Registered
    BY <1>4, <2>1, SameKnown
    DEF UserRemoves, ContentMoves, Removes, DropsMarket, Held, Registered
  <2> QED
    BY <2>1, <2>2 DEF UndoCovers
<1>5. CASE Reconcile \/ Kill
  BY <1>5 DEF Reconcile, Kill, Ends
<1>6. CASE \E f \in BOOLEAN : BeginUninstall(f)
  BY <1>6 DEF BeginUninstall, Begin, UndoCovers
<1>7. CASE \E s \in Dirs, f \in BOOLEAN : BeginInstall(s, f) \/ BeginUpdate(s, f)
  BY <1>7 DEF BeginInstall, BeginUpdate
<1>8. CASE \/ MarketAddFails \/ MarketRefreshFails \/ MarketRemoveFails \/ LookFails
           \/ PreflightFails \/ RemoveBundleFails \/ InstallBundleFails \/ RollbackFails
           \/ ApproveFails
  BY <1>8
  DEF MarketAddFails, MarketRefreshFails, MarketRemoveFails, LookFails,
      PreflightFails, RemoveBundleFails, InstallBundleFails, RollbackFails,
      ApproveFails, Ends, Goto, GotoOrEnd, AfterFailure
<1>9. CASE \/ MarketAdd \/ MarketAgain \/ MarketRefresh \/ MarketRemove \/ ForgetMarket
           \/ RegisterMarket \/ Look \/ Preflight \/ RemoveBundle \/ InstallBundle
           \/ Cleanup \/ RecordBundle \/ Rollback \/ (\E c \in Caps : Approve(c))
           \/ Verify \/ Finish \/ EndUndo
  BY <1>9
  DEF MarketAdd, MarketAgain, MarketRefresh, MarketRemove, ForgetMarket,
      RegisterMarket, Look, Preflight, RemoveBundle, InstallBundle, Cleanup,
      RecordBundle, Rollback, Approve, Verify, Finish, EndUndo, Goto, GotoOrEnd, Ends,
      Reported, Ensured, AfterFailure
<1> QED
  BY <1>2, <1>3, <1>4, <1>5, <1>6, <1>7, <1>8, <1>9 DEF Next, Step, Failure

LEMMA UndoInductive ==
    /\ Init => TypeOK /\ UndoCovers
    /\ TypeOK /\ UndoCovers /\ [Next]_vars => (TypeOK /\ UndoCovers)'
<1>1. Init => UndoCovers
  BY DEF Init, UndoCovers
<1>2. ASSUME TypeOK, UndoCovers, Next PROVE (TypeOK /\ UndoCovers)'
  <2>1. TypeOK'
    BY <1>2, StepTyped, FailureTyped, OtherTyped DEF Next
  <2> QED
    BY <1>2, <2>1, UndoKept
<1>3. ASSUME TypeOK, UndoCovers, UNCHANGED vars PROVE (TypeOK /\ UndoCovers)'
  BY <1>3
  DEF UndoCovers, Held, Registered, TypeOK, HostOK, CommandOK, CountersOK, vars,
      hostVars, envVars, Known
<1> QED
  BY InitTyped, <1>1, <1>2, <1>3

\* What an uninstall leaves on the host and the ledger knew of stays in the
\* ledger, and one in which nothing failed leaves neither
\* (UninstallLeavesNothing).
THEOREM UninstallIsComplete == Spec => UninstallLeavesNothing
<1>1. TypeOK /\ UndoCovers =>
        [EndUndo /\ quiet =>
            /\ clean => Held = {} /\ saved' = NoLedger
            /\ \A t \in Held \cap Registered : saved' # NoLedger /\ saved'[t] # None]_vars
  <2> SUFFICES ASSUME TypeOK, UndoCovers, EndUndo
               PROVE  /\ clean => Held = {} /\ saved' = NoLedger
                      /\ \A t \in Held \cap Registered :
                            saved' # NoLedger /\ saved'[t] # None
    OBVIOUS
  <2>1. pc = "undoing" /\ cmd.todo = {} /\ saved' = Remaining
    BY DEF EndUndo
  <2>2. clean => Held = {} /\ saved' = NoLedger
    BY <2>1 DEF UndoCovers, Remaining
  <2>3. ASSUME NEW t \in Held \cap Registered
        PROVE  saved' # NoLedger /\ saved'[t] # None
    <3>1. t \in cmd.left /\ saved # NoLedger /\ t \in Things
      BY <2>1 DEF UndoCovers, Held
    <3>2. saved[t] # None
      BY <3>1 DEF Registered, Known
    <3>3. saved' = [u \in Things |-> IF u \in cmd.left THEN saved[u] ELSE None]
      BY <2>1, <3>1 DEF Remaining
    <3>4. saved'["market"] = saved'.market /\ saved'[t] # None
      BY <3>1, <3>2, <3>3
    <3>5. saved' # NoLedger
      <4>1. saved \in Ledger
        BY <3>1 DEF TypeOK
      <4>2. saved' = [market |-> saved'["market"], bundle |-> saved'["bundle"]]
        BY <3>3 DEF Things
      <4>3. saved'["market"] \in Sources \cup {None} /\ saved'["bundle"] \in Reg \cup {None}
        BY <3>3, <4>1 DEF Ledger, Things
      <4>4. saved' \in Ledger
        BY <4>2, <4>3 DEF Ledger
      <4> QED
        BY <4>4, BundleAssumption
    <3> QED
      BY <3>4, <3>5
  <2> QED
    BY <2>2, <2>3
<1> QED
  BY UndoInductive, <1>1, PTL DEF Spec, UninstallLeavesNothing

-----------------------------------------------------------------------------
(* What an update leaves.                                                  *)

\* An update of an installed bundle in which nothing has failed or changed.
Smooth == cmd # None /\ cmd.kind = "update" /\ clean /\ before # None

\* The steps up to the removal of the old bundle.
NotYet == {"refresh", "add", "again", "unmarket", "dropped", "register", "look",
           "preflight", "remove"}

\* It has the old bundle until it knows that the offered one installs and is
\* native, from a marketplace it has the source of; and so never needs the
\* rollback.
OldOrOffered ==
    /\ pc \notin {"cleanup", "rollback", "reapprove", "undo", "undoing"}
    /\ pc \in NotYet => bundle = before
    /\ pc \in {"register", "look", "preflight", "remove", "install"} =>
          market # None /\ market.src = cmd.mkt
    /\ pc \in {"preflight", "remove", "install"} => market.digest = cmd.avail
    /\ pc = "preflight" => cmd.present
    /\ pc \in {"remove", "install"} => Proven
    /\ pc = "install" => bundle = None
    /\ pc \in {"record", "approve", "finish"} =>
          bundle # None /\ bundle.digest = cmd.avail /\ Native(cmd.avail)

SmoothKeeps == Smooth => OldOrOffered

\* What a marketplace lists is a marketplace.
LEMMA ListingIsMarket ==
    ASSUME HostOK, NEW s \in Sources
    PROVE  Listing(s) # None /\ Listing(s).src = s
<1>1. Listing(s) \in Market
  BY DEF HostOK, Listing, Market
<1> QED
  BY <1>1, BundleAssumption DEF Listing

\* The step that goes on smoothly is the command's own, or its first.
LEMMA SmoothBefore ==
    ASSUME TypeOK, TypeOK', Next, Smooth'
    PROVE  \/ \E s \in Dirs, f \in BOOLEAN : BeginUpdate(s, f)
           \/ Step /\ Own /\ Smooth /\ before' = before /\ pc # "idle"
           \/ InstallBundleFails /\ Own /\ Smooth
<1>1. pc' # "idle" /\ cmd' # None
  BY DEF Smooth, TypeOK, CommandOK
<1>2. pc # "idle" => cmd \in Command /\ cmd # None
  BY DEF TypeOK, CommandOK
<1>3. CASE Step
  <2>1. pc # "idle"
    BY <1>3
    DEF Step, MarketAdd, MarketAgain, MarketRefresh, MarketRemove, ForgetMarket,
        RegisterMarket, Look, Preflight, RemoveBundle, InstallBundle, Cleanup,
        RecordBundle, Rollback, Approve, Verify, Finish, PlanUndo, UndoStep, EndUndo
  <2>2. Own \/ Fault
    BY <1>3
    DEF Step, MarketAdd, MarketAgain, MarketRefresh, MarketRemove, ForgetMarket,
        RegisterMarket, Look, Preflight, RemoveBundle, InstallBundle, Cleanup,
        RecordBundle, Rollback, Approve, Verify, Finish, PlanUndo, UndoStep, EndUndo
  <2>3. Own /\ clean /\ before' = before
    BY <1>1, <2>2 DEF Own, Fault, Smooth
  <2>4. cmd'.kind = cmd.kind
    <3>1. cmd \in Command
      BY <1>2, <2>1
    <3> QED
      BY <1>1, <1>3, <3>1
      DEF Step, MarketAdd, MarketAgain, MarketRefresh, MarketRemove, ForgetMarket,
          RegisterMarket, Look, Preflight, RemoveBundle, InstallBundle, Cleanup,
          RecordBundle, Rollback, Approve, Verify, Finish, PlanUndo, UndoStep, EndUndo,
          Goto, GotoOrEnd, Ends, Reported, Command
  <2> QED
    BY <1>2, <1>3, <2>1, <2>3, <2>4 DEF Smooth
<1>4. CASE Failure
  <2>1. CASE InstallBundleFails
    <3>1. pc = "install" /\ cmd' = cmd /\ (Own \/ Fault)
      BY <1>1, <2>1 DEF InstallBundleFails, GotoOrEnd, Goto, Ends
    <3> QED
      BY <1>1, <2>1, <3>1 DEF Own, Fault, Smooth
  <2>2. CASE UndoStepFails
    BY <1>1, <2>2 DEF UndoStepFails, Fault, Smooth
  <2> QED
    BY <1>1, <1>4, <2>1, <2>2
    DEF Failure, MarketAddFails, MarketRefreshFails, MarketRemoveFails, LookFails,
        PreflightFails, RemoveBundleFails, RollbackFails, ApproveFails, Ends
<1>5. CASE Kill \/ Reconcile
  BY <1>1, <1>5 DEF Kill, Reconcile, Ends, TypeOK, CommandOK
<1>6. CASE UserRemoves \/ (\E s \in Sources, d \in Digests : ContentMoves(s, d))
  BY <1>1, <1>6 DEF UserRemoves, ContentMoves, User, Smooth
<1>7. ASSUME NEW s \in Dirs, NEW f \in BOOLEAN, BeginInstall(s, f)
      PROVE  FALSE
  <2>1. cmd'.kind = "install"
    BY <1>7 DEF BeginInstall, Begin
  <2> QED
    BY <2>1 DEF Smooth
<1>8. ASSUME NEW f \in BOOLEAN, BeginUninstall(f)
      PROVE  FALSE
  <2>1. PICK s, flag, follow : Begin("uninstall", s, flag, follow)
    BY <1>8 DEF BeginUninstall
  <2>2. cmd'.kind = "uninstall"
    BY <2>1 DEF Begin
  <2> QED
    BY <2>2 DEF Smooth
<1> QED
  BY <1>3, <1>4, <1>5, <1>6, <1>7, <1>8 DEF Next

\* Every step keeps what a smooth update has.
LEMMA SmoothKept == TypeOK /\ TypeOK' /\ SmoothKeeps /\ Next => SmoothKeeps'
<1> SUFFICES ASSUME TypeOK, TypeOK', SmoothKeeps, Next, Smooth'
             PROVE  OldOrOffered'
  BY DEF SmoothKeeps
<1>1. /\ pc # "idle" => cmd \in Command
      /\ cmd' \in Command /\ HostOK
  BY DEF TypeOK, CommandOK, Smooth
<1>2. ASSUME NEW s \in Dirs, NEW f \in BOOLEAN, BeginUpdate(s, f)
      PROVE  OldOrOffered'
  BY <1>2 DEF BeginUpdate, Begin, OldOrOffered, NotYet, hostVars
<1>3. ASSUME InstallBundleFails, Own, Smooth PROVE FALSE
  <2>1. pc = "install" /\ market # None /\ bundle = None
    BY <1>3 DEF InstallBundleFails, SmoothKeeps, OldOrOffered
  <2>2. ~Fault
    BY <1>1, <1>3 DEF Own, Fault, envVars, TypeOK, CountersOK
  <2> QED
    BY <1>3, <2>1, <2>2 DEF InstallBundleFails
<1>4. ASSUME Step, Own, Smooth, before' = before, pc # "idle"
      PROVE  OldOrOffered'
  <2>1. OldOrOffered /\ cmd \in Command /\ cmd' # None /\ cmd.kind = "update"
        /\ pc' # "idle"
    BY <1>1, <1>4 DEF SmoothKeeps, Smooth, TypeOK, CommandOK
  <2>2. CASE MarketAdd
    <3>1. bundle' = before'
      BY <1>4, <2>1, <2>2 DEF MarketAdd, OldOrOffered, NotYet, AddsMarket, hostVars
    <3>2. CASE AddsMarket(cmd.src) /\ Reported(cmd.src, Ensured)
      <4>1. market' # None /\ market'.src = cmd.src
        BY <1>1, <2>1, <3>2, CommandFields, ListingIsMarket DEF AddsMarket
      <4>2. cmd'.mkt = cmd.src /\ pc' \in {"register", "look"}
        BY <2>1, <3>2 DEF Reported, Ensured, Command
      <4> QED
        BY <3>1, <4>1, <4>2 DEF OldOrOffered
    <3>3. CASE pc' = "again"
      BY <3>1, <3>3 DEF OldOrOffered
    <3> QED
      BY <2>2, <3>2, <3>3 DEF MarketAdd, Goto
  <2>3. CASE MarketAgain \/ MarketRefresh
    <3>1. bundle' = before'
      BY <1>4, <2>1, <2>3 DEF MarketAgain, MarketRefresh, OldOrOffered, NotYet, Refreshed,
         hostVars
    <3>2. CASE pc' \in {"add", "unmarket"}
      BY <3>1, <3>2 DEF OldOrOffered
    <3>3. CASE pc' \notin {"add", "unmarket"}
      <4>1. /\ market # None /\ Refreshed
            /\ cmd' = [cmd EXCEPT !.mkt = market.src] /\ pc' \in {"register", "look"}
        BY <2>1, <2>3, <3>3
        DEF MarketAgain, MarketRefresh, Reported, Goto, Ends, Ensured
      <4>2. cmd'.mkt = market.src
        BY <2>1, <4>1 DEF Command
      <4>3. market' # None /\ market'.src = market.src
        BY <1>1, <4>1, PackagePathTyped, ListingIsMarket DEF Refreshed
      <4> QED
        BY <3>1, <4>1, <4>2, <4>3 DEF OldOrOffered
    <3> QED
      BY <3>2, <3>3
  <2>4. CASE MarketRemove \/ ForgetMarket
    <3>1. bundle' = before' /\ pc' \in {"dropped", "add"}
      BY <1>4, <2>1, <2>4 DEF MarketRemove, ForgetMarket, OldOrOffered, NotYet,
         DropsMarket, hostVars, Goto
    <3> QED
      BY <3>1 DEF OldOrOffered
  <2>5. CASE RegisterMarket
    BY <1>4, <2>1, <2>5 DEF RegisterMarket, OldOrOffered, NotYet, Goto, hostVars
  <2>6. CASE Look
    <3>1. /\ pc = "look" /\ bundle = before /\ before # None /\ bundle # None
          /\ market # None /\ market.src = cmd.mkt
          /\ UNCHANGED <<market, bundle>>
      BY <1>4, <2>1, <2>6 DEF Look, OldOrOffered, NotYet, Smooth, hostVars
    <3> DEFINE b == bundle # None
               t == IF b THEN bundle.path ELSE None
    <3>2. cmd' = [cmd EXCEPT !.avail = market.digest, !.present = b, !.at = t]
      BY <2>6 DEF Look
    <3>3. cmd'.avail = market.digest /\ cmd'.present = b /\ cmd'.mkt = cmd.mkt
      <4> HIDE DEF b, t
      <4> QED
        BY <2>1, <3>2 DEF Command
    <3>4. CASE UpToDate
      <4>1. pc' = "approve"
        BY <2>6, <3>4 DEF Look
      <4>2. bundle'.digest = cmd'.avail /\ Native(cmd'.avail)
        BY <3>1, <3>3, <3>4 DEF UpToDate
      <4> QED
        BY <3>1, <4>1, <4>2 DEF OldOrOffered, NotYet
    <3>5. CASE ~UpToDate
      <4>1. pc' = "preflight"
        BY <2>1, <2>6, <3>5 DEF Look
      <4> QED
        BY <1>4, <3>1, <3>3, <4>1 DEF OldOrOffered
    <3> QED
      BY <3>4, <3>5
  <2>7. CASE Preflight
    <3>1. /\ pc' = "remove" /\ cmd' = cmd /\ UNCHANGED <<market, bundle, content>>
          /\ Proven /\ pc = "preflight"
      BY <2>1, <2>7 DEF Preflight, OldOrOffered, Goto, hostVars
    <3>2. Proven'
      BY <3>1 DEF Proven
    <3> QED
      BY <1>4, <2>1, <3>1, <3>2 DEF OldOrOffered, NotYet
  <2>8. CASE RemoveBundle
    <3>1. /\ pc' = "install" /\ cmd' = cmd /\ UNCHANGED <<market, content>>
          /\ bundle' = None /\ pc = "remove"
      BY <2>8 DEF RemoveBundle, Removes, Goto
    <3>2. Proven'
      BY <2>1, <3>1 DEF Proven, OldOrOffered
    <3> QED
      BY <2>1, <3>1, <3>2 DEF OldOrOffered, NotYet
  <2>9. CASE InstallBundle
    <3>1. /\ pc = "install" /\ market # None /\ market.src = cmd.mkt
          /\ market.digest = cmd.avail /\ Proven
          /\ bundle' = [digest |-> ContentAt(PackagePath), path |-> PackagePath]
          /\ cmd' = [cmd EXCEPT !.at = PackagePath]
      BY <2>1, <2>9 DEF InstallBundle, OldOrOffered, Installs
    <3>2. market.src \in Sources /\ market.digest \in Digests
      BY <1>1, <3>1, PackagePathTyped
    <3>3. ContentAt(PackagePath) = cmd.avail
      <4>1. CASE market.src \in Dirs
        BY <3>1, <4>1 DEF PackagePath, ContentAt, Proven
      <4>2. CASE market.src \notin Dirs
        BY <3>1, <3>2, <4>2, BundleAssumption DEF PackagePath, ContentAt, Sources
      <4> QED
        BY <4>1, <4>2
    <3>4. bundle'.digest = cmd.avail /\ Native(cmd.avail) /\ pc' = "record"
      BY <2>9, <3>1, <3>3 DEF InstallBundle, Accepted, Proven
    <3>5. cmd'.avail = cmd.avail
      BY <2>1, <3>1 DEF Command
    <3>6. bundle' # None
      <4>1. PackagePath \in Paths /\ HostOK
        BY <1>1, <3>1, PackagePathTyped
      <4>2. bundle' \in OnHost
        BY <2>9, <4>1, InstallTyped DEF InstallBundle
      <4> QED
        BY <4>2, BundleAssumption
    <3> QED
      BY <3>4, <3>5, <3>6 DEF OldOrOffered, NotYet
  <2>10. CASE RecordBundle \/ (\E c \in Caps : Approve(c)) \/ Verify
    <3>1. /\ pc \in {"record", "approve"} /\ pc' \in {"approve", "finish"}
          /\ bundle' = bundle /\ cmd' = cmd
      BY <2>1, <2>10 DEF RecordBundle, Approve, Verify, OldOrOffered, Goto, GotoOrEnd,
         Trusts, hostVars
    <3> QED
      BY <2>1, <3>1 DEF OldOrOffered, NotYet
  <2>11. CASE Finish
    BY <2>1, <2>11 DEF Finish, Ends
  <2>12. CASE Cleanup \/ Rollback \/ UndoStep \/ EndUndo \/ (\E b \in BOOLEAN : PlanUndo(b))
    BY <2>1, <2>12 DEF Cleanup, Rollback, UndoStep, EndUndo, PlanUndo, OldOrOffered
  <2> QED
    BY <1>4, <2>2, <2>3, <2>4, <2>5, <2>6, <2>7, <2>8, <2>9, <2>10, <2>11, <2>12 DEF Step
<1> QED
  BY <1>2, <1>3, <1>4, SmoothBefore

LEMMA SmoothInductive ==
    /\ Init => TypeOK /\ SmoothKeeps
    /\ TypeOK /\ SmoothKeeps /\ [Next]_vars => (TypeOK /\ SmoothKeeps)'
<1>1. Init => SmoothKeeps
  BY DEF Init, SmoothKeeps, Smooth
<1>2. ASSUME TypeOK, SmoothKeeps, Next PROVE (TypeOK /\ SmoothKeeps)'
  <2>1. TypeOK'
    BY <1>2, StepTyped, FailureTyped, OtherTyped DEF Next
  <2> QED
    BY <1>2, <2>1, SmoothKept
<1>3. ASSUME TypeOK, SmoothKeeps, UNCHANGED vars PROVE (TypeOK /\ SmoothKeeps)'
  BY <1>3
  DEF SmoothKeeps, Smooth, OldOrOffered, Proven, TypeOK, HostOK, CommandOK, CountersOK,
      vars, hostVars, envVars, Known
<1> QED
  BY InitTyped, <1>1, <1>2, <1>3

\* An update in which no verb fails and nobody interferes leaves the old
\* bundle, or the one offered: it removes nothing it has not seen the
\* replacement of (NeverStranded).
THEOREM NeverLeftWithout == Spec => NeverStranded
<1>1. ASSUME TypeOK, TypeOK', SmoothKeeps, Next,
             pc # "idle", pc' = "idle", envVars' = envVars,
             cmd.kind = "update", clean, before # None
      PROVE  \/ bundle' = before
             \/ bundle' # None /\ bundle'.digest = cmd.avail /\ Native(cmd.avail)
  <2>1. OldOrOffered /\ ~Fault
    BY <1>1 DEF SmoothKeeps, Smooth, TypeOK, CommandOK, CountersOK, Fault, envVars
  <2>2. CASE MarketAgain \/ MarketRefreshFails \/ LookFails \/ PreflightFails
    <3>1. pc \in NotYet /\ bundle' = bundle
      BY <2>2 DEF MarketAgain, MarketRefreshFails, LookFails, PreflightFails,
         Refreshed, NotYet, hostVars
    <3> QED
      BY <2>1, <3>1 DEF OldOrOffered
  <2>3. CASE Finish
    BY <2>1, <2>3 DEF Finish, OldOrOffered, hostVars
  <2>4. CASE ApproveFails
    BY <2>1, <2>4 DEF ApproveFails, OldOrOffered
  <2>5. CASE \/ MarketAddFails \/ MarketRemoveFails \/ RemoveBundleFails
             \/ UndoStepFails
    BY <2>1, <2>5 DEF MarketAddFails, MarketRemoveFails, RemoveBundleFails, UndoStepFails
  <2>6. CASE InstallBundleFails
    BY <1>1, <2>6 DEF InstallBundleFails, AfterFailure, GotoOrEnd, Goto
  <2>7. CASE \/ RollbackFails \/ Cleanup \/ Rollback \/ UndoStep \/ EndUndo
             \/ (\E b \in BOOLEAN : PlanUndo(b))
    BY <2>1, <2>7 DEF RollbackFails, Cleanup, Rollback, UndoStep, EndUndo, PlanUndo,
       OldOrOffered
  <2>8. CASE \/ MarketAdd \/ MarketRefresh \/ MarketRemove \/ ForgetMarket
             \/ RegisterMarket \/ Look \/ Preflight \/ RemoveBundle \/ InstallBundle
             \/ RecordBundle \/ (\E c \in Caps : Approve(c)) \/ Verify
    BY <1>1, <2>1, <2>8
    DEF MarketAdd, MarketRefresh, MarketRemove, ForgetMarket, RegisterMarket, Look,
        Preflight, RemoveBundle, InstallBundle, RecordBundle, Approve, Verify, Goto,
        GotoOrEnd, Reported, Ensured, OldOrOffered
  <2>9. CASE Kill \/ Reconcile
    <3>1. CASE Kill
      <4>1. kills \in Nat /\ kills' = kills
        BY <1>1, BundleAssumption DEF envVars, TypeOK, CountersOK
      <4>2. kills' = kills + 1
        BY <3>1 DEF Kill
      <4> QED
        BY <4>1, <4>2
    <3>2. CASE Reconcile
      BY <1>1, <3>2 DEF Reconcile
    <3> QED
      BY <2>9, <3>1, <3>2
  <2>10. CASE UserRemoves \/ (\E s \in Sources, d \in Digests : ContentMoves(s, d))
    BY <1>1, <2>10 DEF UserRemoves, ContentMoves, User
  <2>11. CASE \/ \E s \in Dirs, f \in BOOLEAN : BeginInstall(s, f) \/ BeginUpdate(s, f)
              \/ \E f \in BOOLEAN : BeginUninstall(f)
    BY <1>1, <2>11 DEF BeginInstall, BeginUpdate, BeginUninstall, Begin
  <2> QED
    BY <1>1, <2>2, <2>3, <2>4, <2>5, <2>6, <2>7, <2>8, <2>9, <2>10, <2>11
    DEF Next, Step, Failure
<1>2. TypeOK /\ TypeOK' /\ SmoothKeeps /\ [Next]_vars =>
        [pc # "idle" /\ pc' = "idle" /\ envVars' = envVars
            /\ cmd.kind = "update" /\ clean /\ before # None =>
            \/ bundle' = before
            \/ bundle' # None /\ bundle'.digest = cmd.avail /\ Native(cmd.avail)]_vars
  BY <1>1
<1> QED
  BY SmoothInductive, <1>2, PTL DEF Spec, NeverStranded
=============================================================================
