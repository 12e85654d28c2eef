----------------------------- MODULE TuningProofs -----------------------------
(***************************************************************************)
(* Proofs about the commands that tune a session, of any number of them,   *)
(* of edits and of kills.                                                  *)
(*                                                                         *)
(* Module Profiles: what the user put under a key can be got back, a       *)
(* switch leaves one profile on, and a repair loses nothing.               *)
(*                                                                         *)
(* Module Routing: an enable of skill-routing takes no hook of the user's  *)
(* out of hooks.json, and a disable puts back what was there before omm,   *)
(* whatever releases and kills came between; what the router prints fits.  *)
(***************************************************************************)
EXTENDS Profiles, Routing, SequenceTheorems, FiniteSetTheorems, WellFoundedInduction, TLAPS


\* The tuning commands by themselves: nothing of fairness is needed.
ProfilesSpec == PInit /\ [][PNext]_pVars

-----------------------------------------------------------------------------
(* Types.                                                                  *)

\* The ops of a command: keys and stores, never the servers.
OpPaths == Keys \cup Stores \cup {"plugins.enabled"}

OpsOK(ops) ==
    /\ DOMAIN ops \subseteq OpPaths
    /\ \A k \in DOMAIN ops \cap Keys : ops[k] \in Setting
    /\ \A path \in DOMAIN ops \ Keys : ops[path] \in Flags

\* A command that carries out ops, and the one that repairs the servers.
Carries ==
    /\ tune.at \in {"entry", "apply", "record", "config"}
    /\ DOMAIN tune = {"at", "ops", "restores", "tag", "force", "priors"}
    /\ OpsOK(tune.ops)
    /\ tune.restores \subseteq Keys
    /\ tune.tag \in Profiles \cup {Absent}
    /\ tune.at = "entry" => tune.tag = Absent
    /\ tune.at = "config" => tune.tag # Absent
    /\ tune.at = "record" =>
          /\ DOMAIN tune.priors \subseteq DOMAIN tune.ops
          /\ \A k \in DOMAIN tune.priors \cap Keys : tune.priors[k] \in Setting
Replaces ==
    /\ tune.at = "replace"
    /\ Mergeable(tune.loaded["mcpServers"], tune.loaded["mcp_servers"])

PTypeOK ==
    /\ WellFormed(settings)
    /\ DOMAIN regs = RegPaths
    /\ \A k \in Keys : regs[k] \in Registration \cup {Absent}
    /\ DOMAIN users = Keys
    /\ by \in [Keys -> Profiles \cup {Absent}]
    /\ DOMAIN slice = Profiles /\ active \in Profiles \cup {Absent}
    /\ \A p \in Profiles : slice[p] \in {Absent, Slices[p]}
    /\ tune = Rest \/ Carries \/ Replaces

\* Keys, servers and stores are members of their own, and paths of their own.
LEMMA KeysApart ==
    ASSUME NEW k \in Keys
    PROVE  /\ k \notin Mcp /\ k \notin Stores /\ k # "plugins.enabled"
           /\ k \in Members /\ k \in RegPaths /\ k \in OpPaths
           /\ Member(k) = k
  BY ProfilesAssumption DEF Mcp, Stores, Members, RegPaths, OpPaths, Member

\* A member is set by the op of its path.
LEMMA MemberOf ==
    ASSUME NEW path \in OpPaths, NEW k \in Keys, Member(path) = k
    PROVE  path = k
  BY KeysApart DEF Member, Stores

LEMMA StagedKey ==
    ASSUME NEW ops, OpsOK(ops), NEW k \in Keys
    PROVE  Staged(ops)[k] = IF k \in DOMAIN ops THEN ops[k] ELSE settings[k]
<1>1. k \in Members /\ Member(k) = k
  BY KeysApart
<1>2. \A path \in DOMAIN ops : Member(path) = k => path = k
  BY MemberOf DEF OpsOK
<1> QED
  BY <1>1, <1>2 DEF Staged

LEMMA StagedServers ==
    ASSUME NEW ops, OpsOK(ops), NEW s \in Mcp
    PROVE  Staged(ops)[s] = settings[s]
<1>1. s \in Members
  BY DEF Members
<1>2. \A path \in DOMAIN ops : Member(path) # s
  BY KeysApart DEF OpsOK, OpPaths, Member, Mcp, Stores
<1> QED
  BY <1>1, <1>2 DEF Staged

LEMMA StagedStore ==
    ASSUME NEW ops, OpsOK(ops), NEW s \in Stores, settings[s] \in Flags
    PROVE  /\ Staged(ops)[s] \in Flags
           /\ s = "runtime_capabilities" =>
                 Staged(ops)[s] = IF s \in DOMAIN ops THEN ops[s] ELSE settings[s]
<1>1. s \in Members
  BY DEF Members
<1>2. \A path \in DOMAIN ops : Member(path) = s => ops[path] \in Flags
  BY KeysApart DEF OpsOK, OpPaths
<1>3. s = "runtime_capabilities" =>
        \A path \in DOMAIN ops : (Member(path) = s) <=> (path = s)
  BY KeysApart DEF OpsOK, OpPaths, Member, Stores
<1> QED
  BY <1>1, <1>2, <1>3 DEF Staged

\* The document a transaction writes is well formed.
LEMMA StagedWell ==
    ASSUME NEW ops, OpsOK(ops), WellFormed(settings)
    PROVE  WellFormed(Staged(ops))
<1>1. DOMAIN Staged(ops) = Members
  BY DEF Staged
<1>2. ASSUME NEW k \in Keys PROVE Staged(ops)[k] \in Values \cup {Absent}
  BY StagedKey DEF OpsOK, WellFormed, Setting
<1>3. ASSUME NEW s \in Mcp PROVE Staged(ops)[s] \in Maps
  BY StagedServers DEF WellFormed
<1>4. ASSUME NEW s \in Stores PROVE Staged(ops)[s] \in Flags
  BY StagedStore DEF WellFormed
<1> QED
  BY <1>1, <1>2, <1>3, <1>4 DEF WellFormed

\* A document with one member changed is well formed if the new value is.
LEMMA EditedWell ==
    ASSUME WellFormed(settings), NEW m \in Members, NEW v,
           m \in Keys => v \in Setting, m \in Mcp => v \in Maps,
           m \in Stores => v \in Flags
    PROVE  WellFormed([settings EXCEPT ![m] = v])
  BY DEF WellFormed, Setting

\* The servers of both spellings are a map of servers.
LEMMA UnionIsMap ==
    ASSUME NEW a \in Maps, NEW b \in Maps, Mergeable(a, b)
    PROVE  /\ Union(a, b) \in Maps
           /\ \A id \in Servers :
                 /\ a # Absent /\ a[id] # Absent => Union(a, b)[id] = a[id]
                 /\ b[id] # Absent => Union(a, b)[id] = b[id]
<1>1. b \in [Servers -> Defs \cup {Absent}]
      /\ (a # Absent => a \in [Servers -> Defs \cup {Absent}])
  BY DEF Maps, Mergeable
<1>2. Union(a, b) \in [Servers -> Defs \cup {Absent}]
  BY <1>1 DEF Union
<1> QED
  BY <1>1, <1>2 DEF Union, Maps, Mergeable

\* A command that is carried out, is one.
LEMMA CarryCarries ==
    ASSUME NEW ops, OpsOK(ops), NEW restores \in SUBSET Keys,
           NEW tag \in Profiles \cup {Absent}, NEW force,
           tune' = Carry(ops, restores, tag, force)
    PROVE  Carries'
  BY DEF Carry, Carries

\* What is left of the ops is of their kind.
LEMMA OpsLeft ==
    ASSUME Carries
    PROVE  /\ OpsOK(Ops) /\ DOMAIN Ops \subseteq DOMAIN tune.ops
           /\ \A path \in DOMAIN Ops : Ops[path] = tune.ops[path]
           /\ DOMAIN tune.ops \ DOMAIN Ops \subseteq {Required}
  BY DEF Carries, Ops, OpsOK, KeptStructural

\* A profile that is not named by an unreadable slice is as it was.
LEMMA SlicesRead ==
    ASSUME PTypeOK, NEW p \in Profiles, slice[p] # Absent
    PROVE  DOMAIN slice[p] \subseteq Keys /\ \A k \in DOMAIN slice[p] : slice[p][k] \in Setting
  BY ProfilesAssumption DEF PTypeOK, Setting

LEMMA TypeInit == PInit => PTypeOK
  BY ProfilesAssumption
  DEF PInit, PTypeOK, WellFormed, RegPaths, Members, Profiles

LEMMA TypeKept == PTypeOK /\ [PNext]_pVars => PTypeOK'
<1> SUFFICES ASSUME PTypeOK, [PNext]_pVars PROVE PTypeOK'
  OBVIOUS
<1>1. CASE UNCHANGED pVars
  BY <1>1 DEF pVars, PTypeOK, Carries, Replaces
<1>2. ASSUME NEW p \in Profiles, NEW force \in BOOLEAN, UseProfile(p, force)
      PROVE  PTypeOK'
  <2> DEFINE kept == DOMAIN slice[p] \ IncomingEdits(p, force)
             back == Restorable(p, kept)
             ops  == [k \in kept \cup back |->
                         IF k \in kept THEN slice[p][k] ELSE regs[k].prior]
  <2>1. kept \subseteq Keys /\ \A k \in kept : slice[p][k] \in Setting
    BY <1>2, SlicesRead DEF UseProfile
  <2>2. back \subseteq Keys /\ \A k \in back : regs[k].prior \in Setting
    <3>1. Outgoing(p) \subseteq Keys
      BY SlicesRead DEF Outgoing, PTypeOK
    <3> QED
      BY <3>1 DEF Restorable, PTypeOK, Registration
  <2>3. OpsOK(ops)
    BY <2>1, <2>2 DEF OpsOK, OpPaths
  <2>4. tune' = Carry(ops, back, p, force)
    BY <1>2 DEF UseProfile
  <2>5. Carries'
    BY <2>2, <2>3, <2>4, CarryCarries
  <2> QED
    BY <1>2, <2>5 DEF UseProfile, PTypeOK
<1>3. ASSUME NEW k \in Keys, NEW v \in Values \cup {Absent}, SetKey(k, v)
      PROVE  PTypeOK'
  <2>1. OpsOK([path \in {k} |-> v])
    BY DEF OpsOK, OpPaths, Setting
  <2>2. Carries'
    BY <1>3, <2>1, CarryCarries DEF SetKey
  <2> QED
    BY <1>3, <2>2 DEF SetKey, PTypeOK
<1>4. CASE BeginTheme
  <2> DEFINE ops == [path \in {ThemeKey} |-> ThemeValue]
  <2>1. OpsOK(ops)
    BY ProfilesAssumption DEF OpsOK, OpPaths, Setting
  <2>2. \E at \in {"entry", "apply"} :
           tune' = [Carry(ops, {}, Absent, FALSE) EXCEPT !.at = at]
    BY <1>4 DEF BeginTheme
  <2>3. Carries'
    BY <2>1, <2>2 DEF Carry, Carries
  <2> QED
    BY <1>4, <2>3 DEF BeginTheme, PTypeOK
<1>5. CASE RecordTheme
  BY <1>5 DEF RecordTheme, TuneAt, PTypeOK, Carries, Replaces, Rest
<1>6. CASE LintFix
  <2> DEFINE malformed == {s \in Stores : Linted(settings[s]) # settings[s]}
             ops == [s \in malformed |-> Linted(settings[s])]
  <2>1. \A s \in Stores : Linted(settings[s]) \in Flags
    BY DEF PTypeOK, WellFormed, Linted, Flags
  <2>2. OpsOK(ops)
    BY <2>1, KeysApart DEF OpsOK, OpPaths
  <2>3. Carries'
    BY <1>6, <2>2, CarryCarries DEF LintFix
  <2> QED
    BY <1>6, <2>3 DEF LintFix, PTypeOK
<1>7. CASE ReconcileReminders
  <2>1. OpsOK([path \in {"plugins.enabled"} |-> settings["runtime_capabilities"]])
    BY KeysApart DEF OpsOK, OpPaths, PTypeOK, WellFormed, Stores
  <2>2. Carries'
    BY <1>7, <2>1, CarryCarries DEF ReconcileReminders
  <2> QED
    BY <1>7, <2>2 DEF ReconcileReminders, PTypeOK
<1>8. CASE FixMcp
  <2>1. Replaces'
    BY <1>8 DEF FixMcp, Replaces
  <2>2. \A k \in Keys : regs'[k] = regs[k]
    BY <1>8, KeysApart DEF FixMcp, Mcp, PTypeOK
  <2> QED
    BY <1>8, <2>1, <2>2 DEF FixMcp, PTypeOK
<1>9. CASE FixMcpReplaces
  <2>1. WellFormed(settings')
    <3>1. CASE settings # tune.loaded
      BY <1>9, <3>1 DEF FixMcpReplaces, PTypeOK
    <3>2. CASE settings = tune.loaded
      <4>1. Mergeable(settings["mcpServers"], settings["mcp_servers"])
        BY <1>9, <3>2 DEF FixMcpReplaces, PTypeOK, Carries, Replaces, Rest
      <4>2. Union(settings["mcpServers"], settings["mcp_servers"]) \in Maps
        BY <4>1, UnionIsMap DEF PTypeOK, WellFormed, Mcp
      <4> QED
        BY <1>9, <3>2, <4>2, KeysApart
        DEF FixMcpReplaces, PTypeOK, WellFormed, Mcp, Stores, Members, Maps
    <3> QED
      BY <3>1, <3>2
  <2> QED
    BY <1>9, <2>1 DEF FixMcpReplaces, PTypeOK
<1>10. CASE TxRefused
  BY <1>10 DEF TxRefused, PTypeOK
<1>11. CASE Apply
  <2>1. Carries
    BY <1>11 DEF Apply, PTypeOK, Replaces, Rest
  <2>2. WellFormed(settings')
    BY <1>11, <2>1, OpsLeft, StagedWell DEF Apply, PTypeOK
  <2>3. tune' = Rest \/ Carries'
    <3>1. CASE Changed = {}
      BY <1>11, <2>1, <3>1 DEF Apply, Recorded, Carries
    <3>2. CASE Changed # {}
      <4>1. tune' = [tune EXCEPT !.at = "record", !.ops = Ops,
                        !.priors = [path \in Changed |-> settings[Member(path)]]]
        BY <1>11, <3>2 DEF Apply
      <4>2. /\ Changed \subseteq DOMAIN Ops
            /\ \A k \in Changed \cap Keys : settings[Member(k)] \in Setting
        BY KeysApart DEF Changed, PTypeOK, WellFormed, Setting
      <4> QED
        BY <2>1, <4>1, <4>2, OpsLeft DEF Carries
    <3> QED
      BY <3>1, <3>2
  <2>4. by' \in [Keys -> Profiles \cup {Absent}]
    BY <1>11, <2>1 DEF Apply, PTypeOK, Carries
  <2> QED
    BY <1>11, <2>2, <2>3, <2>4 DEF Apply, PTypeOK
<1>12. CASE RecordKeys
  <2>1. Carries
    BY <1>12 DEF RecordKeys, PTypeOK, Replaces, Rest
  <2>2. tune' = Rest \/ Carries'
    BY <1>12, <2>1 DEF RecordKeys, Recorded, Carries
  <2>3. ASSUME NEW k \in Keys PROVE regs'[k] \in Registration \cup {Absent}
    <3>1. k \in RegPaths
      BY KeysApart
    <3>2. CASE k \in DOMAIN tune.priors /\ k \notin tune.restores
      <4>1. regs'[k] = RecordedKey(k, tune.priors[k], tune.ops[k], tune.tag)
        BY <1>12, <3>1, <3>2 DEF RecordKeys
      <4>2. /\ tune.priors[k] \in Setting /\ tune.ops[k] \in Setting
            /\ tune.tag \in Profiles \cup {Absent}
        BY <1>12, <2>1, <3>2 DEF RecordKeys, Carries, OpsOK
      <4>3. CASE regs[k] = Absent
        BY <4>1, <4>2, <4>3 DEF RecordedKey, Registration
      <4>4. CASE regs[k] \in Registration
        <5>1. [regs[k] EXCEPT !.value = tune.ops[k], !.tag = tune.tag] \in Registration
          BY <4>2, <4>4 DEF Registration
        <5>2. regs[k] # Absent
          BY <4>4, ProfilesAssumption
        <5> QED
          BY <4>1, <5>1, <5>2 DEF RecordedKey
      <4> QED
        BY <4>3, <4>4 DEF PTypeOK
    <3>3. CASE ~(k \in DOMAIN tune.priors /\ k \notin tune.restores)
      BY <1>12, <3>1, <3>3 DEF RecordKeys, PTypeOK
    <3> QED
      BY <3>2, <3>3
  <2> QED
    BY <1>12, <2>2, <2>3 DEF RecordKeys, PTypeOK
<1>13. CASE SaveProfile
  <2>1. tune.tag \in Profiles \cup {Absent}
    BY <1>13 DEF SaveProfile, PTypeOK, Carries, Replaces, Rest
  <2> QED
    BY <1>13, <2>1 DEF SaveProfile, PTypeOK
<1>14. CASE KillTune
  BY <1>14 DEF KillTune, PTypeOK
<1>15. CASE EditTheme
  BY <1>15 DEF EditTheme, PTypeOK, Carries, Replaces
<1>16. ASSUME NEW k \in Keys, NEW v \in Values \cup {Absent}, EditKey(k, v)
       PROVE  PTypeOK'
  <2>1. WellFormed(settings')
    BY <1>16, KeysApart, EditedWell DEF EditKey, PTypeOK, Setting
  <2> QED
    BY <1>16, <2>1 DEF EditKey, PTypeOK, Carries, Replaces
<1>17. ASSUME NEW m \in Mcp \cup Stores, NEW v,
              (m \in Mcp /\ v \in Maps) \/ (m \in Stores /\ v \in Flags), EditMember(m, v)
       PROVE  PTypeOK'
  <2>1. m \in Members /\ m \notin Keys /\ (m \in Mcp <=> m \notin Stores)
    BY KeysApart DEF Members, Mcp, Stores
  <2>2. WellFormed(settings')
    BY <1>17, <2>1, EditedWell DEF EditMember, PTypeOK
  <2> QED
    BY <1>17, <2>2 DEF EditMember, PTypeOK, Carries, Replaces
<1>18. ASSUME NEW p \in Profiles, SpoilSlice(p) PROVE PTypeOK'
  BY <1>18 DEF SpoilSlice, PTypeOK, Carries, Replaces
<1> QED
  BY <1>1, <1>2, <1>3, <1>4, <1>5, <1>6, <1>7, <1>8, <1>9, <1>10, <1>11, <1>12, <1>13,
     <1>14, <1>15, <1>16, <1>17, <1>18
  DEF PNext, TuneStep, WorldStep

\* The tuning commands keep their types, whatever the profiles and the values.
THEOREM TypeCorrect == ProfilesSpec => []PTypeOK
  BY TypeInit, TypeKept, PTL DEF ProfilesSpec

-----------------------------------------------------------------------------
(* What the user put under a key.                                          *)

\* The key has been committed and is still to be recorded.
Pending(k) == tune.at = "record" /\ k \in DOMAIN tune.priors

\* The user's value is there and is not taken for omm's, or it is the prior.
SafeKey(k) ==
    IF Pending(k)
    THEN \/ settings[k] = users[k] /\ (k \in tune.restores \/ settings[k] # tune.ops[k])
         \/ k \notin tune.restores /\ PriorOf(k) = users[k]
    ELSE \/ regs[k] # Absent /\ regs[k].prior = users[k]
         \/ /\ settings[k] = users[k]
            /\ regs[k] = Absent \/ settings[k] # regs[k].value

\* What a switch has decided still stands for a key nobody has edited since.
Decided(k) ==
    /\ k \in DOMAIN tune.ops /\ k \notin late
    /\ k \in tune.restores \/ (tune.tag # Absent /\ ~tune.force)
DecisionStands ==
    tune.at \in {"entry", "apply"} =>
        \A k \in Keys : Decided(k) =>
            /\ regs[k] # Absent => regs[k].value \in {Absent, settings[k]}
            /\ k \in tune.restores =>
                  regs[k] # Absent /\ tune.ops[k] = regs[k].prior

KeysSafe == DecisionStands /\ \A k \in Keys \ excused : SafeKey(k)

\* What holds of a key goes on to hold while nothing happens to it.
LEMMA SafeStays ==
    ASSUME NEW k \in Keys, SafeKey(k), ~Pending(k), ~Pending(k)',
           settings'[k] = settings[k], regs'[k] = regs[k], users'[k] = users[k]
    PROVE  SafeKey(k)'
  BY DEF SafeKey

\* A command that begins decides; there is nothing to record yet.
LEMMA BeginSafe ==
    ASSUME KeysSafe, Starting, tune'.at # "record", DecisionStands',
           \A k \in Keys : settings'[k] = settings[k] /\ regs'[k] = regs[k],
           users' = users, excused' = excused
    PROVE  KeysSafe'
<1>1. ASSUME NEW k \in Keys \ excused PROVE SafeKey(k)'
  <2>1. ~Pending(k) /\ ~Pending(k)'
    BY DEF Starting, Pending
  <2> QED
    BY <2>1, SafeStays DEF KeysSafe
<1> QED
  BY <1>1 DEF KeysSafe

\* A step of a command that neither decides nor commits nor records.
LEMMA PassSafe ==
    ASSUME KeysSafe, tune.at # "record", tune'.at \notin {"entry", "apply", "record"},
           \A k \in Keys : settings'[k] = settings[k] /\ regs'[k] = regs[k],
           users' = users, excused' = excused
    PROVE  KeysSafe'
<1>1. ASSUME NEW k \in Keys \ excused PROVE SafeKey(k)'
  <2>1. ~Pending(k) /\ ~Pending(k)'
    BY DEF Pending
  <2> QED
    BY <2>1, SafeStays DEF KeysSafe
<1> QED
  BY <1>1 DEF KeysSafe, DecisionStands

\* A step beside the commands that leaves the keys and the ledger alone.
LEMMA BesideSafe ==
    ASSUME KeysSafe, tune' = tune, late \subseteq late', regs' = regs,
           \A k \in Keys : settings'[k] = settings[k],
           users' = users, excused' = excused
    PROVE  KeysSafe'
  BY DEF KeysSafe, DecisionStands, Decided, SafeKey, Pending, PriorOf

\* The ops of a switch: what it puts back it has compared with the ledger, and
\* so has it, unless it is forced, what it sets.
LEMMA SwitchDecides ==
    ASSUME PTypeOK, NEW p \in Profiles, NEW force \in BOOLEAN, UseProfile(p, force)
    PROVE  DecisionStands'
<1> DEFINE kept == DOMAIN slice[p] \ IncomingEdits(p, force)
           back == Restorable(p, kept)
           ops  == [k \in kept \cup back |->
                       IF k \in kept THEN slice[p][k] ELSE regs[k].prior]
<1>1. tune' = Carry(ops, back, p, force)
  BY <1>1 DEF UseProfile
<1>2. settings' = settings /\ regs' = regs /\ back \cap kept = {}
  BY DEF UseProfile, Restorable
<1>3. ASSUME NEW k \in Keys, Decided(k)'
      PROVE  /\ regs[k] # Absent => regs[k].value \in {Absent, settings[k]}
             /\ k \in back => regs[k] # Absent /\ ops[k] = regs[k].prior
  <2>1. k \in kept \cup back /\ (k \in back \/ ~force)
    BY <1>1, <1>3 DEF Decided, Carry
  <2>2. CASE k \in back
    BY <1>2, <2>2 DEF Restorable
  <2>3. CASE k \notin back
    BY <2>1, <2>3 DEF IncomingEdits
  <2> QED
    BY <2>2, <2>3
<1> QED
  BY <1>1, <1>2, <1>3 DEF DecisionStands, Carry

\* What any other command carries out, it does for the user.
LEMMA SetDecides ==
    ASSUME NEW ops, NEW force,
           tune' = Carry(ops, {}, Absent, force)
              \/ tune' = [Carry(ops, {}, Absent, force) EXCEPT !.at = "entry"]
    PROVE  DecisionStands' /\ tune'.at # "record"
  BY DEF DecisionStands, Decided, Carry

LEMMA ApplySafe ==
    ASSUME PTypeOK, PTypeOK', KeysSafe, Apply
    PROVE  KeysSafe'
<1>1. Carries /\ tune.at = "apply"
  BY DEF Apply, PTypeOK, Replaces, Rest
<1>2. /\ OpsOK(Ops) /\ \A k \in DOMAIN Ops : k \in DOMAIN tune.ops /\ Ops[k] = tune.ops[k]
  BY <1>1, OpsLeft
<1>3. tune'.at \in {"record", "config", "rest"}
      /\ \A k : Pending(k)' <=> (tune'.at = "record" /\ k \in Changed)
  <2>1. CASE Changed = {}
    BY <1>1, <2>1 DEF Apply, Recorded, Rest, Carries, Pending
  <2>2. CASE Changed # {}
    BY <1>1, <2>2 DEF Apply, Carries, Pending
  <2> QED
    BY <2>1, <2>2
<1>4. ASSUME NEW k \in Keys, k \notin excused', k \in Changed
      PROVE  SafeKey(k)'
  <2>1. /\ tune' = [tune EXCEPT !.at = "record", !.ops = Ops,
                        !.priors = [path \in Changed |-> settings[Member(path)]]]
        /\ Member(k) = k
    BY <1>4, KeysApart DEF Apply
  <2>2. /\ Pending(k)' /\ tune'.restores = tune.restores
        /\ tune'.priors[k] = settings[k] /\ tune'.ops[k] = tune.ops[k]
    BY <1>1, <1>2, <1>4, <2>1 DEF Carries, Pending, Changed
  <2>3. /\ k \notin excused /\ k \notin late /\ tune.tag # Absent
        /\ k \in tune.restores \/ ~tune.force
        /\ regs[k] # Absent => regs[k].value # Absent
    BY <1>4 DEF Apply
  <2>4. /\ regs[k] # Absent => regs[k].value = settings[k]
        /\ k \in tune.restores => regs[k] # Absent /\ tune.ops[k] = regs[k].prior
    BY <1>1, <1>2, <1>4, <2>3 DEF KeysSafe, DecisionStands, Decided, Changed
  <2>5. /\ regs[k] # Absent => regs[k].prior = users[k]
        /\ regs[k] = Absent => settings[k] = users[k]
    BY <1>1, <2>3, <2>4 DEF KeysSafe, SafeKey, Pending
  <2>6. /\ users' = users /\ regs' = regs
        /\ settings'[k] = tune.ops[k]
    BY <1>2, <1>4, StagedKey DEF Apply, Changed
  <2>7. CASE k \in tune.restores
    BY <2>2, <2>4, <2>5, <2>6, <2>7 DEF SafeKey
  <2>8. CASE k \notin tune.restores
    BY <2>2, <2>5, <2>6, <2>8 DEF SafeKey, PriorOf
  <2> QED
    BY <2>7, <2>8
<1>5. ASSUME NEW k \in Keys, k \notin excused', k \notin Changed
      PROVE  SafeKey(k)'
  <2>1. settings'[k] = settings[k]
    BY <1>2, <1>5, StagedKey, KeysApart DEF Apply, Changed
  <2>2. ~Pending(k) /\ ~Pending(k)' /\ SafeKey(k)
    BY <1>1, <1>3, <1>5 DEF Pending, KeysSafe, Apply
  <2> QED
    BY <2>1, <2>2, SafeStays DEF Apply
<1> QED
  BY <1>3, <1>4, <1>5 DEF KeysSafe, DecisionStands

LEMMA RecordSafe ==
    ASSUME PTypeOK, PTypeOK', KeysSafe, RecordKeys
    PROVE  KeysSafe'
<1>1. Carries /\ tune.at = "record"
  BY DEF RecordKeys, PTypeOK, Replaces, Rest
<1>2. tune'.at \in {"config", "rest"}
  BY <1>1 DEF RecordKeys, Recorded, Carries, Rest
<1>3. ASSUME NEW k \in Keys \ excused PROVE SafeKey(k)'
  <2>1. k \in RegPaths /\ ~Pending(k)' /\ SafeKey(k)
    BY <1>2, KeysApart DEF Pending, KeysSafe
  <2>2. settings' = settings /\ users' = users
    BY DEF RecordKeys
  <2>3. CASE k \notin DOMAIN tune.priors
    <3>1. ~Pending(k) /\ regs'[k] = regs[k]
      BY <2>1, <2>3 DEF RecordKeys, Pending
    <3> QED
      BY <2>1, <2>2, <3>1, SafeStays
  <2>4. CASE k \in DOMAIN tune.priors /\ k \in tune.restores
    <3>1. Pending(k) /\ regs'[k] = Absent
      BY <1>1, <2>1, <2>4 DEF RecordKeys, Pending
    <3> QED
      BY <2>1, <2>2, <2>4, <3>1 DEF SafeKey
  <2>5. CASE k \in DOMAIN tune.priors /\ k \notin tune.restores
    <3>1. Pending(k) /\ regs'[k] = RecordedKey(k, tune.priors[k], tune.ops[k], tune.tag)
      BY <1>1, <2>1, <2>5 DEF RecordKeys, Pending
    <3>2. /\ tune.priors[k] \in Setting /\ tune.ops[k] \in Setting
          /\ tune.tag \in Profiles \cup {Absent}
      BY <1>1, <2>5 DEF Carries, OpsOK
    <3>3. regs'[k] # Absent /\ regs'[k].prior = PriorOf(k) /\ regs'[k].value = tune.ops[k]
      <4>1. CASE regs[k] = Absent
        <5>1. regs'[k] = [prior |-> tune.priors[k], value |-> tune.ops[k], tag |-> tune.tag]
          BY <3>1, <4>1 DEF RecordedKey
        <5>2. regs'[k] \in Registration
          BY <3>2, <5>1 DEF Registration
        <5> QED
          BY <4>1, <5>1, <5>2, ProfilesAssumption DEF PriorOf
      <4>2. CASE regs[k] # Absent
        <5>1. regs[k] \in Registration
          BY <4>2 DEF PTypeOK
        <5>2. regs'[k] = [regs[k] EXCEPT !.value = tune.ops[k], !.tag = tune.tag]
          BY <3>1, <4>2 DEF RecordedKey
        <5>3. regs'[k] \in Registration /\ regs'[k].prior = regs[k].prior
              /\ regs'[k].value = tune.ops[k]
          BY <3>2, <5>1, <5>2 DEF Registration
        <5> QED
          BY <4>2, <5>3, ProfilesAssumption DEF PriorOf
      <4> QED
        BY <4>1, <4>2
    <3> QED
      BY <2>1, <2>2, <2>5, <3>1, <3>3 DEF SafeKey
  <2> QED
    BY <2>3, <2>4, <2>5
<1> QED
  BY <1>2, <1>3 DEF KeysSafe, DecisionStands, RecordKeys

LEMMA KillSafe ==
    ASSUME KeysSafe, KillTune
    PROVE  KeysSafe'
<1>1. ASSUME NEW k \in Keys, k \notin excused' PROVE SafeKey(k)'
  <2>1. ~Pending(k) /\ ~Pending(k)' /\ SafeKey(k)
    BY <1>1 DEF KillTune, Pending, Rest, KeysSafe
  <2> QED
    BY <2>1, SafeStays DEF KillTune
<1> QED
  BY <1>1 DEF KeysSafe, DecisionStands, KillTune, Rest

LEMMA EditSafe ==
    ASSUME PTypeOK, KeysSafe, NEW j \in Keys, NEW v \in Setting, EditKey(j, v)
    PROVE  KeysSafe'
<1>1. /\ settings'[j] = v /\ (\A k \in Keys : k # j => settings'[k] = settings[k])
      /\ users'[j] = (IF OmmsValue(j, v) THEN PriorOf(j) ELSE v)
      /\ \A k \in Keys : k # j => users'[k] = users[k]
      /\ regs' = regs /\ tune' = tune /\ late' = late \cup {j}
  BY KeysApart DEF EditKey, PTypeOK, WellFormed
<1>2. ASSUME NEW k \in Keys, k \notin excused' PROVE SafeKey(k)'
  <2>1. CASE k # j
    <3>1. SafeKey(k)
      BY <1>2, <2>1 DEF KeysSafe, EditKey
    <3> QED
      BY <1>1, <2>1, <3>1 DEF SafeKey, Pending, PriorOf
  <2>2. CASE k = j
    BY <1>1, <2>2 DEF SafeKey, Pending, PriorOf, OmmsValue
  <2> QED
    BY <2>1, <2>2
<1>3. DecisionStands'
  BY <1>1 DEF KeysSafe, DecisionStands, Decided
<1> QED
  BY <1>2, <1>3 DEF KeysSafe

\* Every step keeps the keys safe.
LEMMA SafeKept == PTypeOK /\ PTypeOK' /\ KeysSafe /\ [PNext]_pVars => KeysSafe'
<1> SUFFICES ASSUME PTypeOK, PTypeOK', KeysSafe, [PNext]_pVars PROVE KeysSafe'
  OBVIOUS
<1>1. CASE UNCHANGED pVars
  BY <1>1, BesideSafe DEF pVars
<1>2. ASSUME NEW p \in Profiles, NEW force \in BOOLEAN, UseProfile(p, force)
      PROVE  KeysSafe'
  <2>1. tune'.at = "apply"
    BY <1>2 DEF UseProfile, Carry
  <2> QED
    BY <1>2, <2>1, SwitchDecides, BeginSafe DEF UseProfile
<1>3. ASSUME NEW k \in Keys, NEW v \in Values \cup {Absent}, SetKey(k, v)
      PROVE  KeysSafe'
  BY <1>3, SetDecides, BeginSafe DEF SetKey
<1>4. CASE BeginTheme
  <2>1. \E at \in {"entry", "apply"} :
           tune' = [Carry([path \in {ThemeKey} |-> ThemeValue], {}, Absent, FALSE)
                       EXCEPT !.at = at]
    BY <1>4 DEF BeginTheme
  <2>2. DecisionStands' /\ tune'.at # "record"
    BY <2>1 DEF DecisionStands, Decided, Carry
  <2> QED
    BY <1>4, <2>2, BeginSafe DEF BeginTheme
<1>5. CASE RecordTheme
  <2>1. Carries /\ tune.at = "entry" /\ tune' = [tune EXCEPT !.at = "apply"]
    BY <1>5 DEF RecordTheme, TuneAt, PTypeOK, Replaces, Rest
  <2>2. /\ tune'.at = "apply" /\ tune'.ops = tune.ops /\ tune'.tag = tune.tag
        /\ tune'.restores = tune.restores /\ tune'.force = tune.force
    BY <2>1 DEF Carries
  <2>3. DecisionStands'
    BY <1>5, <2>1, <2>2 DEF RecordTheme, KeysSafe, DecisionStands, Decided
  <2>4. ASSUME NEW k \in Keys \ excused PROVE SafeKey(k)'
    BY <1>5, <2>1, <2>2, SafeStays DEF RecordTheme, KeysSafe, Pending
  <2> QED
    BY <1>5, <2>3, <2>4 DEF RecordTheme, KeysSafe
<1>6. CASE LintFix
  BY <1>6, SetDecides, BeginSafe DEF LintFix
<1>7. CASE ReconcileReminders
  BY <1>7, SetDecides, BeginSafe DEF ReconcileReminders
<1>8. CASE FixMcp
  <2>1. \A k \in Keys : regs'[k] = regs[k]
    BY <1>8, KeysApart DEF FixMcp, Mcp, PTypeOK
  <2>2. tune'.at = "replace" /\ tune.at = "rest"
    BY <1>8 DEF FixMcp, Starting
  <2> QED
    BY <1>8, <2>1, <2>2, PassSafe DEF FixMcp
<1>9. CASE FixMcpReplaces
  <2>1. \A k \in Keys : settings'[k] = settings[k]
    BY <1>9, KeysApart DEF FixMcpReplaces, Mcp, PTypeOK, WellFormed
  <2>2. tune'.at = "rest" /\ tune.at = "replace"
    BY <1>9 DEF FixMcpReplaces, Rest
  <2> QED
    BY <1>9, <2>1, <2>2, PassSafe DEF FixMcpReplaces
<1>10. CASE TxRefused
  BY <1>10, PassSafe DEF TxRefused, Rest
<1>11. CASE SaveProfile
  BY <1>11, PassSafe DEF SaveProfile, Rest
<1>12. CASE EditTheme
  BY <1>12, BesideSafe DEF EditTheme
<1>13. ASSUME NEW k \in Keys, NEW v \in Values \cup {Absent}, EditKey(k, v)
       PROVE  KeysSafe'
  BY <1>13, EditSafe DEF Setting
<1>14. ASSUME NEW m \in Mcp \cup Stores, NEW v, EditMember(m, v)
       PROVE  KeysSafe'
  <2>1. \A k \in Keys : settings'[k] = settings[k]
    BY <1>14, KeysApart DEF EditMember, PTypeOK, WellFormed
  <2> QED
    BY <1>14, <2>1, BesideSafe DEF EditMember
<1>15. ASSUME NEW p \in Profiles, SpoilSlice(p) PROVE KeysSafe'
  BY <1>15, BesideSafe DEF SpoilSlice
<1> QED
  BY <1>1, <1>2, <1>3, <1>4, <1>5, <1>6, <1>7, <1>8, <1>9, <1>10, <1>11, <1>12, <1>13,
     <1>14, <1>15, ApplySafe, RecordSafe, KillSafe
  DEF PNext, TuneStep, WorldStep

\* What the user put under a key is kept through every switch and repair, with
\* the decisions that still stand.
THEOREM KeysStaySafe == ProfilesSpec => [](PTypeOK /\ KeysSafe)
<1>1. PInit => KeysSafe
  BY DEF PInit, KeysSafe, DecisionStands, SafeKey, Pending, Rest, RegPaths, Members
<1> QED
  BY <1>1, SafeKept, TypeInit, TypeKept, PTL DEF ProfilesSpec

\* What the user last put under a key is there or is its prior, whatever the
\* profiles and however often they are switched (Recoverable).
THEOREM UsersValuesKept == ProfilesSpec => []Recoverable
<1>1. KeysSafe => Recoverable
  BY DEF KeysSafe, SafeKey, Recoverable, Pending
<1> QED
  BY <1>1, KeysStaySafe, PTL

-----------------------------------------------------------------------------
(* One profile.                                                            *)

\* A key a switch has last written has what the ledger says, under its tag.
TaggedKey(k) ==
    by[k] # Absent =>
        IF Pending(k)
        THEN k \notin tune.restores /\ by[k] = tune.tag /\ settings[k] = tune.ops[k]
        ELSE regs[k] # Absent /\ regs[k].tag = by[k] /\ regs[k].value = settings[k]

\* A key of another profile goes, or has what it should have anyway.
OtherGoes(k) ==
    \/ settings[k] = regs[k].prior
    \/ k \in DOMAIN slice[tune.tag] /\ settings[k] = slice[tune.tag][k]
    \/ /\ tune.at = "apply" /\ k \in DOMAIN tune.ops
       /\ \/ k \in DOMAIN slice[tune.tag] /\ tune.ops[k] = slice[tune.tag][k]
          \/ tune.ops[k] = regs[k].prior

Switching == tune.at \in {"apply", "record", "config"} /\ tune.tag # Absent

OthersGo ==
    /\ \A k \in Keys : TaggedKey(k)
    /\ Switching =>
          \A k \in Keys \ {Required} : by[k] \notin {Absent, tune.tag} => OtherGoes(k)

\* The tag of a key nothing happens to, under a ledger that has it.
LEMMA TagStays ==
    ASSUME NEW k \in Keys, TaggedKey(k), ~Pending(k), ~Pending(k)',
           settings'[k] = settings[k], regs'[k] = regs[k], by'[k] = by[k]
    PROVE  TaggedKey(k)'
  BY DEF TaggedKey

\* A step that leaves every key, and is not one of a switch afterwards.
LEMMA PassTagged ==
    ASSUME OthersGo, tune.at # "record", tune'.at # "record", ~Switching',
           \A k \in Keys : settings'[k] = settings[k] /\ regs'[k] = regs[k], by' = by
    PROVE  OthersGo'
<1>1. ASSUME NEW k \in Keys PROVE TaggedKey(k)'
  BY TagStays DEF OthersGo, Pending
<1> QED
  BY <1>1 DEF OthersGo

LEMMA BesideTagged ==
    ASSUME OthersGo, tune' = tune, slice' = slice \/ tune.at = "rest", regs' = regs,
           \A k \in Keys : by'[k] = Absent \/ (by'[k] = by[k] /\ settings'[k] = settings[k])
    PROVE  OthersGo'
  BY DEF OthersGo, TaggedKey, Pending, Switching, OtherGoes

\* A command that carries out something of its own tags nothing.
LEMMA SetsUntagged ==
    ASSUME NEW ops, NEW force,
           tune' = Carry(ops, {}, Absent, force)
    PROVE  ~Switching' /\ tune'.at # "record"
  BY DEF Switching, Carry

LEMMA SwitchTagged ==
    ASSUME PTypeOK, OthersGo, NEW p \in Profiles, NEW force \in BOOLEAN,
           UseProfile(p, force)
    PROVE  OthersGo'
<1> DEFINE kept == DOMAIN slice[p] \ IncomingEdits(p, force)
           back == Restorable(p, kept)
           ops  == [k \in kept \cup back |->
                       IF k \in kept THEN slice[p][k] ELSE regs[k].prior]
<1>1. tune' = Carry(ops, back, p, force)
  BY DEF UseProfile
<1>2. /\ settings' = settings /\ regs' = regs /\ by' = by /\ slice' = slice
      /\ tune.at = "rest"
  BY DEF UseProfile, Starting
<1>3. /\ tune'.at = "apply" /\ tune'.ops = ops /\ tune'.tag = p
  BY <1>1 DEF Carry
<1>4. ASSUME NEW k \in Keys PROVE TaggedKey(k)'
  BY <1>2, <1>3, TagStays DEF OthersGo, Pending
<1>5. ASSUME NEW k \in Keys \ {Required}, by[k] \notin {Absent, p}
      PROVE  OtherGoes(k)'
  <2>1. regs[k] # Absent /\ regs[k].tag = by[k] /\ regs[k].value = settings[k]
    BY <1>2, <1>5 DEF OthersGo, TaggedKey, Pending
  <2>2. k \in Outgoing(p)
    BY <1>5, <2>1 DEF Outgoing
  <2>3. CASE k \in kept
    BY <1>2, <1>3, <2>3 DEF OtherGoes
  <2>4. CASE k \notin kept /\ settings[k] = regs[k].prior
    BY <1>2, <2>4 DEF OtherGoes
  <2>5. CASE k \notin kept /\ settings[k] # regs[k].prior
    <3>1. k \in back
      BY <2>1, <2>2, <2>5 DEF Restorable
    <3> QED
      BY <1>2, <1>3, <2>5, <3>1 DEF OtherGoes
  <2> QED
    BY <2>3, <2>4, <2>5
<1> QED
  BY <1>2, <1>3, <1>4, <1>5 DEF OthersGo

LEMMA ApplyTagged ==
    ASSUME PTypeOK, OthersGo, Apply
    PROVE  OthersGo'
<1>1. Carries /\ tune.at = "apply"
  BY DEF Apply, PTypeOK, Replaces, Rest
<1>2. /\ OpsOK(Ops) /\ \A k \in DOMAIN Ops : k \in DOMAIN tune.ops /\ Ops[k] = tune.ops[k]
      /\ DOMAIN tune.ops \ DOMAIN Ops \subseteq {Required}
  BY <1>1, OpsLeft
<1>3. \/ tune' = Rest /\ tune.tag = Absent /\ Changed = {}
      \/ /\ tune'.at = "config" /\ tune'.tag = tune.tag /\ Changed = {}
      \/ /\ tune'.at = "record" /\ tune'.tag = tune.tag /\ DOMAIN tune'.priors = Changed
         /\ tune'.restores = tune.restores /\ tune'.ops = Ops
  <2>1. CASE Changed = {}
    BY <1>1, <2>1 DEF Apply, Recorded, Carries
  <2>2. CASE Changed # {}
    BY <1>1, <2>2 DEF Apply, Carries
  <2> QED
    BY <2>1, <2>2
<1>4. regs' = regs /\ slice' = slice
  BY DEF Apply
<1>5. ASSUME NEW k \in Keys
      PROVE  /\ k \in Changed => settings'[k] = Ops[k]
             /\ k \notin Changed => /\ settings'[k] = settings[k] /\ by'[k] = by[k]
                                    /\ k \in DOMAIN Ops => settings[k] = Ops[k]
  BY <1>2, StagedKey, KeysApart DEF Apply, Changed
<1>6. ASSUME NEW k \in Keys PROVE TaggedKey(k)'
  <2>1. CASE k \in Changed
    <3>1. by'[k] = IF k \in tune.restores THEN Absent ELSE tune.tag
      BY <2>1 DEF Apply
    <3>2. Pending(k)' /\ tune'.tag = tune.tag /\ tune'.ops = Ops
          /\ tune'.restores = tune.restores
      BY <1>3, <2>1 DEF Pending
    <3> QED
      BY <1>5, <2>1, <3>1, <3>2 DEF TaggedKey
  <2>2. CASE k \notin Changed
    <3>1. ~Pending(k) /\ ~Pending(k)'
      BY <1>1, <1>3, <2>2 DEF Pending, Rest
    <3> QED
      BY <1>4, <1>5, <2>2, <3>1, TagStays DEF OthersGo
  <2> QED
    BY <2>1, <2>2
<1>7. ASSUME NEW k \in Keys \ {Required}, Switching', by'[k] \notin {Absent, tune'.tag}
      PROVE  OtherGoes(k)'
  <2>1. tune'.tag = tune.tag /\ tune.tag # Absent
    BY <1>3, <1>7 DEF Switching, Rest
  <2>2. k \notin Changed
    BY <1>7, <2>1 DEF Apply
  <2>3. OtherGoes(k)
    BY <1>1, <1>5, <1>7, <2>1, <2>2 DEF OthersGo, Switching
  <2>4. k \in DOMAIN tune.ops => settings[k] = tune.ops[k]
    BY <1>2, <1>5, <1>7, <2>2
  <2> QED
    BY <1>4, <1>5, <2>1, <2>2, <2>3, <2>4 DEF OtherGoes
<1> QED
  BY <1>6, <1>7 DEF OthersGo

LEMMA RecordTagged ==
    ASSUME PTypeOK, OthersGo, RecordKeys
    PROVE  OthersGo'
<1>1. Carries /\ tune.at = "record"
  BY DEF RecordKeys, PTypeOK, Replaces, Rest
<1>2. \/ tune' = Rest
      \/ tune'.at = "config" /\ tune'.tag = tune.tag /\ tune.tag # Absent
  BY <1>1 DEF RecordKeys, Recorded, Carries
<1>3. settings' = settings /\ by' = by /\ slice' = slice
  BY DEF RecordKeys
<1>4. ASSUME NEW k \in Keys, k \notin DOMAIN tune.priors PROVE regs'[k] = regs[k]
  BY <1>4, KeysApart DEF RecordKeys
<1>5. ASSUME NEW k \in Keys PROVE TaggedKey(k)'
  <2>1. ~Pending(k)'
    BY <1>2 DEF Pending, Rest
  <2>2. CASE k \notin DOMAIN tune.priors
    BY <1>3, <1>4, <2>1, <2>2, TagStays DEF OthersGo, Pending
  <2>3. CASE k \in DOMAIN tune.priors /\ by[k] # Absent
    <3>1. k \notin tune.restores /\ by[k] = tune.tag /\ settings[k] = tune.ops[k]
      BY <1>1, <2>3 DEF OthersGo, TaggedKey, Pending
    <3>2. regs'[k] = RecordedKey(k, tune.priors[k], tune.ops[k], tune.tag)
      BY <2>3, <3>1, KeysApart DEF RecordKeys
    <3>3. /\ tune.priors[k] \in Setting /\ tune.ops[k] \in Setting
          /\ tune.tag \in Profiles \cup {Absent}
      BY <1>1, <2>3 DEF Carries, OpsOK
    <3>4. regs'[k] \in Registration /\ regs'[k].tag = tune.tag /\ regs'[k].value = tune.ops[k]
      <4>1. CASE regs[k] = Absent
        BY <3>2, <3>3, <4>1 DEF RecordedKey, Registration
      <4>2. CASE regs[k] # Absent
        <5>1. regs[k] \in Registration
          BY <4>2 DEF PTypeOK
        <5>2. regs'[k] = [regs[k] EXCEPT !.value = tune.ops[k], !.tag = tune.tag]
          BY <3>2, <4>2 DEF RecordedKey
        <5> QED
          BY <3>3, <5>1, <5>2 DEF Registration
      <4> QED
        BY <4>1, <4>2
    <3> QED
      BY <1>3, <2>1, <3>1, <3>4, ProfilesAssumption DEF TaggedKey
  <2>4. CASE by[k] = Absent
    BY <1>3, <2>4 DEF TaggedKey
  <2> QED
    BY <2>2, <2>3, <2>4
<1>6. ASSUME NEW k \in Keys \ {Required}, Switching', by'[k] \notin {Absent, tune'.tag}
      PROVE  OtherGoes(k)'
  <2>1. tune'.at = "config" /\ tune'.tag = tune.tag /\ tune.tag # Absent
    BY <1>2, <1>6 DEF Switching, Rest
  <2>2. k \notin DOMAIN tune.priors
    BY <1>1, <1>3, <1>6, <2>1 DEF OthersGo, TaggedKey, Pending
  <2>3. OtherGoes(k)
    BY <1>1, <1>3, <1>6, <2>1 DEF OthersGo, Switching
  <2> QED
    BY <1>1, <1>3, <1>4, <2>1, <2>2, <2>3 DEF OtherGoes
<1> QED
  BY <1>5, <1>6 DEF OthersGo

\* Every step keeps the tags, and what a switch has to take back.
LEMMA OthersKept == PTypeOK /\ OthersGo /\ [PNext]_pVars => OthersGo'
<1> SUFFICES ASSUME PTypeOK, OthersGo, [PNext]_pVars PROVE OthersGo'
  OBVIOUS
<1>1. CASE UNCHANGED pVars
  BY <1>1, BesideTagged DEF pVars
<1>2. ASSUME NEW k \in Keys, NEW v \in Values \cup {Absent}, SetKey(k, v)
      PROVE  OthersGo'
  BY <1>2, SetsUntagged, PassTagged DEF SetKey, Starting
<1>3. CASE BeginTheme
  <2>1. \E at \in {"entry", "apply"} :
           tune' = [Carry([path \in {ThemeKey} |-> ThemeValue], {}, Absent, FALSE)
                       EXCEPT !.at = at]
    BY <1>3 DEF BeginTheme
  <2>2. ~Switching' /\ tune'.at # "record" /\ tune.at = "rest"
    BY <1>3, <2>1 DEF Switching, Carry, BeginTheme, Starting
  <2> QED
    BY <1>3, <2>2, PassTagged DEF BeginTheme
<1>4. CASE RecordTheme
  <2>1. Carries /\ tune.at = "entry" /\ tune' = [tune EXCEPT !.at = "apply"]
    BY <1>4 DEF RecordTheme, TuneAt, PTypeOK, Replaces, Rest
  <2>2. tune'.at = "apply" /\ tune'.tag = tune.tag
    BY <2>1 DEF Carries
  <2>3. tune.tag = Absent
    BY <2>1 DEF Carries
  <2> QED
    BY <1>4, <2>1, <2>2, <2>3, PassTagged DEF RecordTheme, Switching
<1>5. CASE LintFix
  BY <1>5, SetsUntagged, PassTagged DEF LintFix, Starting
<1>6. CASE ReconcileReminders
  BY <1>6, SetsUntagged, PassTagged DEF ReconcileReminders, Starting
<1>7. CASE FixMcp
  <2>1. \A k \in Keys : regs'[k] = regs[k]
    BY <1>7, KeysApart DEF FixMcp, Mcp, PTypeOK
  <2> QED
    BY <1>7, <2>1, PassTagged DEF FixMcp, Starting, Switching
<1>8. CASE FixMcpReplaces
  <2>1. \A k \in Keys : settings'[k] = settings[k]
    BY <1>8, KeysApart DEF FixMcpReplaces, Mcp, PTypeOK, WellFormed
  <2> QED
    BY <1>8, <2>1, PassTagged DEF FixMcpReplaces, Switching, Rest
<1>9. CASE TxRefused
  BY <1>9, PassTagged DEF TxRefused, Switching, Rest
<1>10. CASE SaveProfile
  BY <1>10, PassTagged DEF SaveProfile, Switching, Rest
<1>11. CASE KillTune
  <2>1. ASSUME NEW k \in Keys PROVE TaggedKey(k)'
    BY <1>11 DEF KillTune, TaggedKey, Pending, Rest, OthersGo
  <2> QED
    BY <1>11, <2>1 DEF KillTune, OthersGo, Switching, Rest
<1>12. CASE EditTheme
  BY <1>12, BesideTagged DEF EditTheme
<1>13. ASSUME NEW j \in Keys, NEW v \in Values \cup {Absent}, EditKey(j, v)
       PROVE  OthersGo'
  <2>1. \A k \in Keys : by'[k] = Absent \/ (by'[k] = by[k] /\ settings'[k] = settings[k])
    BY <1>13 DEF EditKey, PTypeOK
  <2> QED
    BY <1>13, <2>1, BesideTagged DEF EditKey
<1>14. ASSUME NEW m \in Mcp \cup Stores, NEW v, EditMember(m, v)
       PROVE  OthersGo'
  <2>1. \A k \in Keys : settings'[k] = settings[k]
    BY <1>14, KeysApart DEF EditMember, PTypeOK, WellFormed
  <2> QED
    BY <1>14, <2>1, BesideTagged DEF EditMember
<1>15. ASSUME NEW p \in Profiles, SpoilSlice(p) PROVE OthersGo'
  BY <1>15, BesideTagged DEF SpoilSlice, Rest
<1> QED
  BY <1>1, <1>2, <1>3, <1>4, <1>5, <1>6, <1>7, <1>8, <1>9, <1>10, <1>11, <1>12, <1>13,
     <1>14, <1>15, SwitchTagged, ApplyTagged, RecordTagged
  DEF PNext, TuneStep, WorldStep

\* What a switch has not taken back when it is through is of its own profile,
\* or has the prior (OneProfile).
THEOREM OneProfileOn == ProfilesSpec => OneProfile
<1>1. PInit => OthersGo
  BY DEF PInit, OthersGo, TaggedKey, Switching, Rest
<1>2. PTypeOK /\ OthersGo /\ [PNext]_pVars =>
        [SaveProfile =>
            \A k \in Keys \ {Required} :
                by[k] \notin {Absent, tune.tag} =>
                    \/ k \in DOMAIN slice[tune.tag] /\ slice[tune.tag][k] = settings[k]
                    \/ regs[k] # Absent /\ regs[k].prior = settings[k]]_pVars
  <2> SUFFICES ASSUME PTypeOK, OthersGo, SaveProfile,
                      NEW k \in Keys \ {Required}, by[k] \notin {Absent, tune.tag}
               PROVE  \/ k \in DOMAIN slice[tune.tag] /\ slice[tune.tag][k] = settings[k]
                      \/ regs[k] # Absent /\ regs[k].prior = settings[k]
    OBVIOUS
  <2>1. regs[k] # Absent /\ tune.at = "config"
    BY DEF SaveProfile, OthersGo, TaggedKey, Pending
  <2>2. tune.tag # Absent
    BY <2>1 DEF PTypeOK, Carries, Replaces, Rest
  <2> QED
    BY <2>1, <2>2 DEF OthersGo, Switching, OtherGoes
<1> QED
  BY <1>1, <1>2, OthersKept, TypeInit, TypeKept, PTL DEF ProfilesSpec, OneProfile

-----------------------------------------------------------------------------
(* Repairs.                                                                *)

\* Lint sets only what was malformed when it looked.
LintsMalformed ==
    (tune.at \in {"entry", "apply"} /\ "runtime_capabilities" \in DOMAIN tune.ops) =>
        \/ "runtime_capabilities" \in late
        \/ settings["runtime_capabilities"] \notin {"on", "off"}

\* A step under which the store and what is to be done about it stay.
LEMMA LintStays ==
    ASSUME LintsMalformed, tune'.at \in {"entry", "apply"} =>
                tune.at \in {"entry", "apply"} /\ tune'.ops = tune.ops,
           late \subseteq late', tune.at \in {"entry", "apply"} =>
                \/ settings'["runtime_capabilities"] = settings["runtime_capabilities"]
                \/ "runtime_capabilities" \in late'
    PROVE  LintsMalformed'
  BY DEF LintsMalformed

LEMMA SetsOthers ==
    ASSUME NEW ops, "runtime_capabilities" \notin DOMAIN ops,
           NEW restores, NEW tag, NEW force,
           tune' = Carry(ops, restores, tag, force)
    PROVE  LintsMalformed'
  BY DEF Carry, LintsMalformed

\* Every step keeps it.
LEMMA LintKept == PTypeOK /\ LintsMalformed /\ [PNext]_pVars => LintsMalformed'
<1> SUFFICES ASSUME PTypeOK, LintsMalformed, [PNext]_pVars PROVE LintsMalformed'
  OBVIOUS
<1> DEFINE rc == "runtime_capabilities"
<1>0. rc \notin Keys /\ rc \in Members
  BY KeysApart DEF Stores, Members
<1>1. CASE UNCHANGED pVars
  BY <1>1, LintStays DEF pVars
<1>2. ASSUME NEW p \in Profiles, NEW force \in BOOLEAN, UseProfile(p, force)
      PROVE  LintsMalformed'
  <2> DEFINE kept == DOMAIN slice[p] \ IncomingEdits(p, force)
             back == Restorable(p, kept)
             ops  == [k \in kept \cup back |->
                         IF k \in kept THEN slice[p][k] ELSE regs[k].prior]
  <2>1. tune' = Carry(ops, back, p, force)
    BY <1>2 DEF UseProfile
  <2>2. kept \subseteq Keys
    BY <1>2, SlicesRead DEF UseProfile
  <2>3. Outgoing(p) \subseteq Keys
    BY SlicesRead DEF Outgoing, PTypeOK
  <2>4. rc \notin DOMAIN ops
    BY <1>0, <2>2, <2>3 DEF Restorable
  <2> QED
    BY <2>1, <2>4, SetsOthers
<1>3. ASSUME NEW k \in Keys, NEW v \in Values \cup {Absent}, SetKey(k, v)
      PROVE  LintsMalformed'
  BY <1>0, <1>3, SetsOthers DEF SetKey
<1>4. CASE BeginTheme
  <2>1. \E at \in {"entry", "apply"} :
           tune' = [Carry([path \in {ThemeKey} |-> ThemeValue], {}, Absent, FALSE)
                       EXCEPT !.at = at]
    BY <1>4 DEF BeginTheme
  <2>2. DOMAIN tune'.ops = {ThemeKey}
    BY <2>1 DEF Carry
  <2> QED
    BY <1>0, <2>2, ProfilesAssumption DEF LintsMalformed
<1>5. CASE RecordTheme
  <2>1. Carries /\ tune.at = "entry" /\ tune' = [tune EXCEPT !.at = "apply"]
    BY <1>5 DEF RecordTheme, TuneAt, PTypeOK, Replaces, Rest
  <2>2. tune'.ops = tune.ops
    BY <2>1 DEF Carries
  <2> QED
    BY <1>5, <2>1, <2>2, LintStays DEF RecordTheme
<1>6. CASE LintFix
  <2> DEFINE malformed == {s \in Stores : Linted(settings[s]) # settings[s]}
             ops == [s \in malformed |-> Linted(settings[s])]
  <2>1. DOMAIN tune'.ops = malformed /\ settings' = settings
    BY <1>6 DEF LintFix, Carry
  <2>2. rc \in malformed => settings[rc] \notin {"on", "off"}
    BY ProfilesAssumption DEF Linted
  <2> QED
    BY <2>1, <2>2 DEF LintsMalformed
<1>7. CASE ReconcileReminders
  BY <1>7, SetsOthers DEF ReconcileReminders
<1>8. CASE FixMcp
  BY <1>8 DEF FixMcp, LintsMalformed
<1>9. CASE FixMcpReplaces \/ TxRefused \/ SaveProfile \/ KillTune
  BY <1>9 DEF FixMcpReplaces, TxRefused, SaveProfile, KillTune, Rest, LintsMalformed
<1>10. CASE Apply
  <2>1. Carries
    BY <1>10 DEF Apply, PTypeOK, Replaces, Rest
  <2>2. tune'.at \notin {"entry", "apply"}
    BY <1>10, <2>1 DEF Apply, Recorded, Rest, Carries
  <2> QED
    BY <2>2 DEF LintsMalformed
<1>11. CASE RecordKeys
  <2>1. Carries
    BY <1>11 DEF RecordKeys, PTypeOK, Replaces, Rest
  <2>2. tune'.at \notin {"entry", "apply"}
    BY <1>11, <2>1 DEF RecordKeys, Recorded, Rest, Carries
  <2> QED
    BY <2>2 DEF LintsMalformed
<1>12. CASE EditTheme
  BY <1>12, LintStays DEF EditTheme
<1>13. ASSUME NEW k \in Keys, NEW v \in Values \cup {Absent}, EditKey(k, v)
       PROVE  LintsMalformed'
  BY <1>0, <1>13, LintStays DEF EditKey, PTypeOK, WellFormed
<1>14. ASSUME NEW m \in Mcp \cup Stores, NEW v, EditMember(m, v)
       PROVE  LintsMalformed'
  BY <1>0, <1>14, LintStays DEF EditMember, PTypeOK, WellFormed
<1>15. ASSUME NEW p \in Profiles, SpoilSlice(p) PROVE LintsMalformed'
  BY <1>15, LintStays DEF SpoilSlice
<1> QED
  BY <1>1, <1>2, <1>3, <1>4, <1>5, <1>6, <1>7, <1>8, <1>9, <1>10, <1>11, <1>12, <1>13,
     <1>14, <1>15
  DEF PNext, TuneStep, WorldStep

\* What a repair loses: no server, and no store that is well formed.
Lossless ==
    /\ \A s \in Mcp : settings[s] \notin {Absent, Misshapen, settings'[s]} =>
          \A id \in Servers : settings[s][id] # Absent =>
              settings'["mcpServers"][id] = settings[s][id]
    /\ settings["runtime_capabilities"] \in {"on", "off"} =>
          \/ settings'["runtime_capabilities"] = settings["runtime_capabilities"]
          \/ "runtime_capabilities" \in late

LEMMA StepLossless == PTypeOK /\ LintsMalformed /\ TuneStep => Lossless
<1> SUFFICES ASSUME PTypeOK, LintsMalformed, TuneStep PROVE Lossless
  OBVIOUS
<1>1. CASE settings' = settings
  BY <1>1 DEF Lossless
<1>2. CASE Apply
  <2>1. Carries /\ tune.at = "apply"
    BY <1>2 DEF Apply, PTypeOK, Replaces, Rest
  <2>2. OpsOK(Ops) /\ DOMAIN Ops \subseteq DOMAIN tune.ops
    BY <2>1, OpsLeft
  <2>3. \A s \in Mcp : settings'[s] = settings[s]
    BY <1>2, <2>2, StagedServers DEF Apply
  <2>4. settings["runtime_capabilities"] \in Flags /\ "runtime_capabilities" \in Stores
    BY DEF PTypeOK, WellFormed, Stores
  <2>5. "runtime_capabilities" \notin DOMAIN tune.ops =>
           settings'["runtime_capabilities"] = settings["runtime_capabilities"]
    BY <1>2, <2>2, <2>4, StagedStore DEF Apply
  <2> QED
    BY <2>1, <2>3, <2>5 DEF Lossless, LintsMalformed
<1>3. CASE FixMcpReplaces /\ settings = tune.loaded
  <2> DEFINE a == settings["mcpServers"]
             b == settings["mcp_servers"]
  <2>1. Mergeable(a, b)
    BY <1>3 DEF FixMcpReplaces, PTypeOK, Carries, Replaces, Rest
  <2>2. a \in Maps /\ b \in Maps
    BY DEF PTypeOK, WellFormed, Mcp
  <2>3. settings' = [settings EXCEPT !["mcpServers"] = Union(@, b), !["mcp_servers"] = Absent]
    BY <1>3 DEF FixMcpReplaces
  <2>4. settings'["mcpServers"] = Union(a, b)
        /\ settings'["runtime_capabilities"] = settings["runtime_capabilities"]
    BY <2>3 DEF PTypeOK, WellFormed, Members, Mcp, Stores
  <2>5. \A id \in Servers :
           /\ a # Absent /\ a[id] # Absent => Union(a, b)[id] = a[id]
           /\ b[id] # Absent => Union(a, b)[id] = b[id]
    BY <2>1, <2>2, UnionIsMap
  <2> QED
    BY <2>4, <2>5 DEF Lossless, Mcp
<1> QED
  BY <1>1, <1>2, <1>3
  DEF TuneStep, UseProfile, SetKey, BeginTheme, RecordTheme, LintFix, ReconcileReminders,
      FixMcp, FixMcpReplaces, TxRefused, RecordKeys, SaveProfile

\* No repair loses a server of either spelling, or a reminder's switch that was
\* well formed when lint looked (RepairsKeep).
THEOREM RepairsLoseNothing == ProfilesSpec => RepairsKeep
<1>1. PInit => LintsMalformed
  BY DEF PInit, LintsMalformed, Rest
<1>2. PTypeOK /\ LintsMalformed /\ [PNext]_pVars => [TuneStep => Lossless]_pVars
  BY StepLossless
<1> QED
  BY <1>1, <1>2, LintKept, TypeInit, TypeKept, PTL
  DEF ProfilesSpec, RepairsKeep, Lossless

-----------------------------------------------------------------------------
\* Routing: types.

Marks      == {None, Edited, Garbled, Odd}
FileValues == Marks \cup Nat \cup StateDocs
HookValues == {None, Garbled, Odd} \cup HookDocs
Outcomes   == {"stage", "noop", "overwrite", "adopt"}
Plans      == [bytes : HookDocs \cup {None}, entry : Merges \cup {None}]

\* An enable and a disable under way.
Enables(over) == [at : {"record", "files", "config"}, want : [over -> FileValues],
                  todo : [over -> Outcomes], stale : SUBSET Skills, hooks : Plans,
                  seen : HookValues]
Disables == [at : {"remove", "drop", "unset"}, todo : SUBSET Paths, drop : SUBSET Paths,
             undone : BOOLEAN, seen : HookValues]
JobType ==
    \/ job = Idle
    \/ \E over \in SUBSET Paths :
          job \in Enables(over) /\ StateFile \in over /\ job.want[StateFile] \in StateDocs
    \/ job \in Disables

FileType   == file \in [Paths -> FileValues] /\ file[StateFile] \in StateDocs \cup {None}
EntryType  == entry \in [Paths -> FileValues]
              /\ entry[StateFile] \in StateDocs \cup {None}
MergedType == merged \in Merges \cup {None}
ConfigType == config \in [exists : BOOLEAN, other : BOOLEAN, routing : Records \cup {None}]
WorldType  == world \in [release : Releases, program : Programs, size : Sizes, trusted : BOOLEAN]
CountType  == count \in [runs : Nat, edits : Nat, kills : Nat, prompts : Nat]
BeforeType == before \in [hooks : {None} \cup {d \in HookDocs : d.omm = None}, config : BOOLEAN,
                          touched : SUBSET Paths, hooksTouched : BOOLEAN]
RTypeOK == /\ FileType /\ hooks \in HookValues /\ EntryType /\ MergedType /\ ConfigType
           /\ WorldType /\ JobType /\ CountType /\ BeforeType /\ absorbed \in BOOLEAN

-----------------------------------------------------------------------------
\* Routing: what is so between any two steps.

\* A file nobody touched is what the ledger says or not there, but for what an
\* enable still has to write or to drop, and what a disable is done with.
FilesAreKnown ==
    /\ job.at = "files" => \A p \in Writes : entry[p] = job.want[p]
    /\ \A p \in Paths \ before.touched :
        /\ \/ file[p] \in {None, entry[p]}
           \/ job.at = "files" /\ p \in Writes \cup job.stale
        /\ job.at = "record" =>
              (p \in DOMAIN job.todo /\ job.todo[p] = "adopt" => file[p] = job.want[p])
        /\ job.at = "remove" => /\ file[p] = None \/ p \in job.todo
                                /\ entry[p] = None \/ p \in job.todo \cup job.drop
        /\ job.at = "drop" => file[p] = None /\ (entry[p] = None \/ p \in job.drop)
        /\ job.at = "unset" => file[p] = None /\ entry[p] = None

\* An entry of hooks.json that leads back to the file from before omm: a file
\* omm made, where there was none; or the one that was there, with its hooks.
LeadsBack(e) ==
    /\ e.mech = "copy" => e.original = None /\ before.hooks = None
    /\ e.mech = "merge" => /\ e.original = before.hooks /\ before.hooks # None
                           /\ hooks \in HookDocs /\ hooks.user = before.hooks.user

\* hooks.json, while the user leaves it alone.
HooksAreKnown ==
    ~before.hooksTouched =>
        /\ merged = None => hooks = before.hooks
        /\ merged # None => LeadsBack(merged)
        /\ merged # None /\ merged.mech = "copy" =>
              \/ hooks \in {None, merged.sha}
              \/ job.at = "files" /\ job.hooks.bytes # None
        /\ job.at = "record" =>
              /\ job.hooks.entry = None => job.hooks.bytes = None
              /\ job.hooks.entry # None => LeadsBack(job.hooks.entry)
              /\ job.hooks.bytes = None => job.hooks.entry = merged
              /\ job.hooks.bytes # None => job.hooks.entry.sha = job.hooks.bytes
        /\ job.at \in {"record", "files"} /\ job.hooks.bytes # None
              /\ job.hooks.entry.mech = "merge" => job.hooks.bytes.user = before.hooks.user
        /\ job.at = "files" /\ job.hooks.bytes # None =>
              merged = job.hooks.entry /\ merged # None /\ merged.sha = job.hooks.bytes
        /\ job.at = "drop" => hooks = before.hooks /\ (merged = None \/ job.undone)
        /\ job.at = "unset" => hooks = before.hooks /\ merged = None

\* What omm writes has the hooks the enable found; a file omm made holds none
\* of the user's, until one with his is recorded again as made.
HooksAreCarried ==
    /\ job.at \in {"record", "files"} /\ job.hooks.bytes # None =>
          job.hooks.bytes.user = HooksOf(job.seen)
    /\ ~absorbed =>
          /\ merged # None /\ merged.mech = "copy" => merged.sha.user = {}
          /\ job.at = "record" /\ job.hooks.entry # None /\ job.hooks.entry.mech = "copy" =>
                job.hooks.entry.sha.user = {}

\* config.json: it is there if it was before omm, or the user put a key into
\* it; else enable made it, and says so.
ConfigIsKnown ==
    /\ config.other => before.config /\ config.exists
    /\ config.routing = None => config.exists = before.config
    /\ config.routing # None =>
          /\ config.exists
          /\ ~before.config => config.routing.created
          /\ config.routing.created /\ before.config => config.other

RoutingInv == RTypeOK /\ FilesAreKnown /\ HooksAreKnown /\ HooksAreCarried /\ ConfigIsKnown

-----------------------------------------------------------------------------
\* Routing: lemmas about the plan of an enable.

\* A set of numbers has a least one.
LEMMA Least ==
    ASSUME NEW some \in SUBSET Nat, some # {}
    PROVE  \E m \in some : \A k \in some : m <= k
<1>1. PICK n \in some : TRUE  OBVIOUS
<1> DEFINE low == {k \in some : k <= n}
           below == {0..k : k \in low}
<1>2. n \in Nat /\ IsFiniteSet(0..n)  BY <1>1, FS_Interval
<1>3. IsWellFoundedOn(StrictSubsetOrdering(0..n), SUBSET (0..n))
  BY <1>2, FS_StrictSubsetOrderingWellFounded, FS_FiniteSubsetsOfFinite
<1>4. below \subseteq SUBSET (0..n) /\ below # {}
  BY <1>1
<1>5. \E x \in below : \A y \in below : ~(<<y, x>> \in StrictSubsetOrdering(0..n))
  <2> HIDE DEF below
  <2> QED BY <1>3, <1>4, WFMin
<1>6. PICK m \in low : \A k \in low : ~(<<0..k, 0..m>> \in StrictSubsetOrdering(0..n))
  BY <1>5
<1>7. ASSUME NEW k \in some, ~(m <= k) PROVE FALSE
  <2>1. k \in Nat /\ m \in Nat /\ k < m /\ k \in low  BY <1>2, <1>6, <1>7
  <2>2. 0..k \subseteq 0..m /\ 0..k # 0..m /\ 0..m \subseteq 0..n  BY <1>2, <1>6, <2>1
  <2>3. <<0..k, 0..m>> \in StrictSubsetOrdering(0..n)
    BY <2>2 DEF StrictSubsetOrdering
  <2> QED BY <1>6, <2>1, <2>3
<1> QED BY <1>6, <1>7

LEMMA LeastOf ==
    ASSUME NEW some \in SUBSET Nat, some # {}
    PROVE  Min(some) \in some
<1>1. \E x \in some : \A k \in some : x <= k  BY Least
<1> QED BY <1>1, Zenon DEF Min

\* The next file is one of those there are.
LEMMA NextIsOne == ASSUME NEW set \in SUBSET Paths, set # {} PROVE NextOf(set) \in set
<1>1. CASE set \cap Skills # {}
  <2>1. set \cap Skills \in SUBSET Nat  BY RoutingAssumption
  <2>2. Min(set \cap Skills) \in set \cap Skills  BY <1>1, <2>1, LeastOf
  <2> QED BY <1>1, <2>2 DEF NextOf
<1>2. CASE set \cap Skills = {}
  <2>1. StateFile \in set  BY <1>2 DEF Paths
  <2> QED BY <1>2, <2>1 DEF NextOf
<1> QED BY <1>1, <1>2

LEMMA StateIsNoSkill == StateFile \notin Skills /\ StateFile \in Paths /\ Skills \subseteq Paths
BY RoutingAssumption DEF Paths

\* What the catalog is budgeted at is a number.
LEMMA OrderIsNat == ASSUME RTypeOK PROVE Order200 \in Nat
<1> DEFINE recorded == {config.routing.size : r \in {config.routing} \ {None}}
           inState == IF file[StateFile] \in {None, Edited, Garbled, Odd} THEN {}
                      ELSE {file[StateFile].size}
<1>1. recorded \subseteq Nat
  <2>1. config.routing \in Records \cup {None}  BY DEF RTypeOK, ConfigType
  <2> QED BY <2>1 DEF Records
<1>2. inState \subseteq Nat  BY DEF RTypeOK, FileType, StateDocs
<1>3. \A a, b \in recorded : a = b  OBVIOUS
<1>4. \A a, b \in inState : a = b  OBVIOUS
<1>5. Order200 = IF recorded \cup inState = {} THEN Builtins ELSE Max(recorded \cup inState)
  BY DEF Order200
<1> HIDE DEF recorded, inState
<1>6. CASE recorded \cup inState = {}  BY <1>5, <1>6, RoutingAssumption
<1>7. CASE recorded \cup inState # {}
  <2>1. \E x \in recorded \cup inState : \A y \in recorded \cup inState : x >= y
    <3>1. CASE recorded = {} \/ inState = {}
      <4>1. PICK x \in recorded \cup inState : TRUE  BY <1>7
      <4>2. x \in Nat /\ \A y \in recorded \cup inState : y = x
        BY <1>1, <1>2, <1>3, <1>4, <3>1
      <4> QED BY <4>2
    <3>2. CASE recorded # {} /\ inState # {}
      <4>1. PICK a \in recorded, b \in inState : TRUE  BY <3>2
      <4>2. a \in Nat /\ b \in Nat /\ \A y \in recorded \cup inState : y = a \/ y = b
        BY <1>1, <1>2, <1>3, <1>4
      <4>3. CASE a >= b  BY <4>1, <4>2, <4>3
      <4>4. CASE ~(a >= b)  BY <4>1, <4>2, <4>4
      <4> QED BY <4>3, <4>4
    <3> QED BY <3>1, <3>2
  <2>2. Max(recorded \cup inState) \in recorded \cup inState  BY <2>1, Zenon DEF Max
  <2> QED BY <1>1, <1>2, <1>5, <1>7, <2>2
<1> QED BY <1>6, <1>7

LEMMA WantedIs ==
    ASSUME RTypeOK, NEW size \in Nat
    PROVE  \E over \in SUBSET Paths :
              /\ Wanted(size) \in [over -> FileValues] /\ StateFile \in over
              /\ Wanted(size)[StateFile] \in StateDocs
<1> DEFINE over == {StateFile} \cup Carried
<1>1. over \in SUBSET Paths  BY StateIsNoSkill DEF Carried
<1>2. StateDoc(size) \in StateDocs
  BY DEF StateDoc, StateDocs, Command, RTypeOK, WorldType
<1>3. Library[world.release] \in [Skills -> Nat]  BY RoutingAssumption DEF RTypeOK, WorldType
<1>4. \A s \in Carried : Library[world.release][s] \in Nat  BY <1>3 DEF Carried
<1>5. Wanted(size) \in [over -> FileValues]
  BY <1>2, <1>4, StateIsNoSkill DEF Wanted, FileValues
<1>6. Wanted(size)[StateFile] = StateDoc(size)  BY DEF Wanted
<1> QED BY <1>1, <1>2, <1>5, <1>6

\* The plan for hooks.json: the hooks that are there, with omm's handler.
LEMMA PlanIs ==
    ASSUME RTypeOK, hooks \notin {Garbled, Odd}
    PROVE  LET plan == HooksPlan(Command) IN
              /\ plan \in Plans
              /\ plan.entry = None => plan.bytes = None
              /\ plan.bytes = None => plan.entry = merged /\ hooks # None
              /\ plan.bytes # None =>
                    /\ plan.entry # None /\ plan.entry.sha = plan.bytes
                    /\ plan.bytes.user = HooksOf(hooks)
                    /\ hooks = None => plan.entry.mech = "copy" /\ plan.entry.original = None
                    /\ hooks # None /\ merged # None =>
                          plan.entry.mech = merged.mech /\ plan.entry.original = merged.original
                    /\ hooks # None /\ merged = None =>
                          plan.entry.mech = "merge" /\ plan.entry.original = hooks
<1> DEFINE base == IF hooks = None THEN [user |-> {}, omm |-> None, pretty |-> TRUE] ELSE hooks
           doc == MergedDoc(base, Command)
           new == IF hooks = None THEN [sha |-> doc, mech |-> "copy", original |-> None]
                  ELSE IF merged # None THEN [merged EXCEPT !.sha = doc]
                  ELSE [sha |-> doc, mech |-> "merge", original |-> hooks]
           same == hooks # None /\ hooks.omm = Command
<1>1. hooks = None \/ hooks \in HookDocs  BY DEF RTypeOK, HookValues
<1>2. base \in HookDocs /\ base.user = HooksOf(hooks)
  <2>1. CASE hooks = None  BY <2>1 DEF HookDocs, HooksOf
  <2>2. CASE hooks \in HookDocs
    <3>1. hooks \notin {None, Garbled, Odd}  BY <2>2, RoutingAssumption
    <3> QED BY <2>2, <3>1 DEF HooksOf
  <2> QED BY <1>1, <2>1, <2>2
<1>3. Command \in Programs  BY DEF Command, RTypeOK, WorldType
<1>4. doc \in HookDocs /\ doc.user = HooksOf(hooks)
  <2> HIDE DEF base
  <2> QED BY <1>2, <1>3 DEF MergedDoc, HookDocs
<1>5. merged \in Merges \cup {None} /\ None \notin Merges /\ None \notin HookDocs
  BY RoutingAssumption DEF RTypeOK, MergedType
<1> HIDE DEF doc, base
<1>6. /\ new \in Merges /\ new # None /\ new.sha = doc
      /\ hooks = None => new.mech = "copy" /\ new.original = None
      /\ hooks # None /\ merged # None => new.mech = merged.mech /\ new.original = merged.original
      /\ hooks # None /\ merged = None => new.mech = "merge" /\ new.original = hooks
  <2>1. CASE hooks = None  BY <1>4, <1>5, <2>1 DEF Merges
  <2>2. CASE hooks # None /\ merged # None  BY <1>4, <1>5, <2>2 DEF Merges
  <2>3. CASE hooks # None /\ merged = None  BY <1>1, <1>4, <1>5, <2>3 DEF Merges
  <2> QED BY <2>1, <2>2, <2>3
<1>7. HooksPlan(Command) = IF same THEN [bytes |-> None, entry |-> merged]
                           ELSE [bytes |-> doc, entry |-> new]
  BY DEF HooksPlan, doc, base
<1> HIDE DEF new
<1>8. CASE same
  <2>1. HooksPlan(Command) = [bytes |-> None, entry |-> merged] /\ hooks # None  BY <1>7, <1>8
  <2>2. [bytes |-> None, entry |-> merged] \in Plans  BY <1>5 DEF Plans
  <2> HIDE DEF same
  <2> QED BY <2>1, <2>2
<1>9. CASE ~same
  <2>1. HooksPlan(Command) = [bytes |-> doc, entry |-> new]  BY <1>7, <1>9
  <2>2. [bytes |-> doc, entry |-> new] \in Plans /\ doc # None  BY <1>4, <1>5, <1>6 DEF Plans
  <2> HIDE DEF same
  <2> QED BY <1>4, <1>6, <2>1, <2>2
<1> QED BY <1>8, <1>9

LEMMA OutcomeIs ==
    ASSUME NEW a, NEW b, NEW c
    PROVE  Outcome(a, b, c) \in Outcomes /\ (Outcome(a, b, c) = "adopt" => c = b)
BY DEF Outcome, Outcomes

\* What a job is, by the step it is at.
LEMMA JobIs ==
    ASSUME JobType
    PROVE  /\ job.at \in {"idle", "record", "files", "config", "remove", "drop", "unset"}
           /\ job.at = "idle" <=> job = Idle
           /\ job.at \in {"record", "files", "config"} =>
                 \E over \in SUBSET Paths :
                    job \in Enables(over) /\ StateFile \in over /\ job.want[StateFile] \in StateDocs
           /\ job.at \in {"remove", "drop", "unset"} => job \in Disables
<1>1. CASE job = Idle  BY <1>1 DEF Idle
<1>2. ASSUME NEW over \in SUBSET Paths, job \in Enables(over), StateFile \in over,
             job.want[StateFile] \in StateDocs
      PROVE  job.at \in {"record", "files", "config"}
  BY <1>2 DEF Enables
<1>3. CASE job \in Disables
  <2>1. job.at \in {"remove", "drop", "unset"}  BY <1>3 DEF Disables
  <2> QED BY <1>3, <2>1 DEF Idle
<1>4. CASE \E over \in SUBSET Paths :
              job \in Enables(over) /\ StateFile \in over /\ job.want[StateFile] \in StateDocs
  <2>1. job.at \in {"record", "files", "config"}  BY <1>2, <1>4
  <2> QED BY <1>4, <2>1 DEF Idle
<1> QED BY <1>1, <1>3, <1>4 DEF JobType

-----------------------------------------------------------------------------
\* Routing: every step keeps it.

LEMMA InitRouting == RInit => RoutingInv
<1> SUFFICES ASSUME RInit PROVE RoutingInv  OBVIOUS
<1>1. /\ file = [p \in Paths |-> None] /\ entry = [p \in Paths |-> None] /\ merged = None
      /\ job = Idle /\ absorbed = FALSE
      /\ before = [hooks |-> hooks, config |-> config.exists, touched |-> {}, hooksTouched |-> FALSE]
      /\ count = [runs |-> 0, edits |-> 0, kills |-> 0, prompts |-> 0]
  BY DEF RInit
<1>2. hooks \in {None} \cup {d \in HookDocs : d.omm = None}
  <2>1. \A u \in SUBSET UserHooks :
            [user |-> u, omm |-> None, pretty |-> FALSE] \in {d \in HookDocs : d.omm = None}
    BY DEF HookDocs
  <2>2. hooks = None \/ \E u \in SUBSET UserHooks : hooks = [user |-> u, omm |-> None, pretty |-> FALSE]
    BY DEF RInit
  <2> QED BY <2>1, <2>2
<1>3. config.routing = None /\ config.other = config.exists /\ config.exists \in BOOLEAN
      /\ config \in [exists : BOOLEAN, other : BOOLEAN, routing : Records \cup {None}]
  BY DEF RInit
<1>4. job.at = "idle"  BY <1>1 DEF Idle
<1>5. RTypeOK
  <2>1. FileType /\ EntryType  BY <1>1, StateIsNoSkill DEF FileType, EntryType, FileValues, Marks
  <2>2. hooks \in HookValues  BY <1>2 DEF HookValues
  <2>3. WorldType
    <3>1. (CHOOSE p \in Programs : TRUE) \in Programs  BY RoutingAssumption
    <3> QED BY <3>1, RoutingAssumption DEF RInit, WorldType
  <2>4. BeforeType  BY <1>1, <1>2, <1>3 DEF BeforeType
  <2>5. JobType /\ MergedType /\ ConfigType /\ CountType
    BY <1>1, <1>3 DEF JobType, MergedType, ConfigType, CountType
  <2> QED BY <1>1, <2>1, <2>2, <2>3, <2>4, <2>5 DEF RTypeOK
<1>6. FilesAreKnown  BY <1>1, <1>4 DEF FilesAreKnown
<1>7. HooksAreKnown  BY <1>1, <1>4 DEF HooksAreKnown
<1>8. HooksAreCarried  BY <1>1, <1>4 DEF HooksAreCarried
<1>9. ConfigIsKnown  BY <1>1, <1>3 DEF ConfigIsKnown
<1> QED BY <1>5, <1>6, <1>7, <1>8, <1>9 DEF RoutingInv

\* Of a step that is the host's, or the world's.
LEMMA AsideKeeps ==
    ASSUME RoutingInv, UNCHANGED <<file, hooks, entry, merged, config, job, before, absorbed>>,
           CountType', WorldType'
    PROVE  RoutingInv'
<1>1. RTypeOK'
  BY DEF RoutingInv, RTypeOK, FileType, EntryType, MergedType, ConfigType, BeforeType, JobType
<1>2. FilesAreKnown'  BY DEF RoutingInv, FilesAreKnown, Writes
<1>3. HooksAreKnown'  BY DEF RoutingInv, HooksAreKnown, LeadsBack
<1>4. HooksAreCarried'  BY DEF RoutingInv, HooksAreCarried
<1>5. ConfigIsKnown'  BY DEF RoutingInv, ConfigIsKnown
<1> QED BY <1>1, <1>2, <1>3, <1>4, <1>5 DEF RoutingInv

LEMMA StutterRouting == RoutingInv /\ UNCHANGED rVars => RoutingInv'
<1> SUFFICES ASSUME RoutingInv, UNCHANGED rVars PROVE RoutingInv'  OBVIOUS
<1>1. CountType' /\ WorldType'  BY DEF rVars, RoutingInv, RTypeOK, CountType, WorldType
<1> QED BY <1>1, AsideKeeps DEF rVars

LEMMA PromptRouting == ASSUME RoutingInv, NEW p \in Prompts, Prompt(p) PROVE RoutingInv'
<1>1. CountType /\ WorldType  BY DEF RoutingInv, RTypeOK
<1>2. count' = [count EXCEPT !.prompts = @ + 1] /\ UNCHANGED world  BY DEF Prompt
<1>3. CountType' /\ WorldType'  BY <1>1, <1>2 DEF CountType, WorldType
<1> QED BY <1>3, AsideKeeps DEF Prompt

LEMMA RoutesRouting == ASSUME RoutingInv, NEW r, Routes(r) PROVE RoutingInv'
<1>1. CountType' /\ WorldType'  BY DEF Routes, RoutingInv, RTypeOK, CountType, WorldType
<1> QED BY <1>1, AsideKeeps DEF Routes

LEMMA ChangeCounts == ASSUME CountType, Change PROVE CountType' /\ count'.edits # count.edits
BY DEF Change, CountType

LEMMA WorldRouting ==
    ASSUME RoutingInv, NEW w \in [release : Releases, program : Programs, size : Sizes,
                                  trusted : BOOLEAN],
           TheWorld(w)
    PROVE  RoutingInv'
<1>1. CountType'  BY ChangeCounts DEF RoutingInv, RTypeOK, TheWorld
<1>2. WorldType'  BY DEF TheWorld, WorldType
<1> QED BY <1>1, <1>2, AsideKeeps DEF TheWorld, Change

LEMMA TouchIs ==
    ASSUME BeforeType, NEW p \in Paths, before' = [before EXCEPT !.touched = @ \cup {p}]
    PROVE  BeforeType' /\ before'.touched = before.touched \cup {p} /\ before'.hooks = before.hooks
           /\ before'.config = before.config /\ before'.hooksTouched = before.hooksTouched
BY DEF BeforeType

LEMMA EditFileRouting ==
    ASSUME RoutingInv, NEW p \in Skills, NEW c \in {None, Edited, Garbled, Odd}, EditFile(p, c)
    PROVE  RoutingInv'
<1>0. RTypeOK /\ FilesAreKnown /\ HooksAreKnown /\ HooksAreCarried /\ ConfigIsKnown
  BY DEF RoutingInv
<1>1. /\ file' = [file EXCEPT ![p] = c]
      /\ before' = [before EXCEPT !.touched = @ \cup {p}]
      /\ UNCHANGED <<entry, merged, job, absorbed, hooks, config, world>>
  BY DEF EditFile, Change
<1>2. p \in Paths /\ p # StateFile  BY StateIsNoSkill
<1>3. BeforeType' /\ before'.touched = before.touched \cup {p} /\ before'.hooks = before.hooks
      /\ before'.config = before.config /\ before'.hooksTouched = before.hooksTouched
  BY <1>0, <1>1, <1>2, TouchIs DEF RTypeOK
<1>4. CountType'  BY <1>0, ChangeCounts DEF EditFile, RTypeOK
<1>5. FileType' /\ \A q \in Paths \ {p} : file'[q] = file[q]
  BY <1>0, <1>1, <1>2 DEF RTypeOK, FileType, FileValues, Marks
<1>6. RTypeOK'
  BY <1>0, <1>1, <1>3, <1>4, <1>5 DEF RTypeOK, EntryType, MergedType, ConfigType, WorldType, JobType
<1>7. FilesAreKnown'  BY <1>0, <1>1, <1>3, <1>5 DEF FilesAreKnown, Writes
<1>8. HooksAreKnown'  BY <1>0, <1>1, <1>3 DEF HooksAreKnown, LeadsBack
<1>9. HooksAreCarried'  BY <1>0, <1>1 DEF HooksAreCarried
<1>10. ConfigIsKnown'  BY <1>0, <1>1, <1>3 DEF ConfigIsKnown
<1> QED BY <1>6, <1>7, <1>8, <1>9, <1>10 DEF RoutingInv

LEMMA UserDocsAreDocs == ASSUME WorldType, NEW d \in UserDocs \cup {None, Garbled, Odd} PROVE d \in HookValues
<1>1. CASE d \in UserDocs
  <2>1. PICK u \in SUBSET UserHooks, o \in {None, world.program} :
            d = [user |-> u, omm |-> o, pretty |-> FALSE]
    BY <1>1 DEF UserDocs
  <2>2. o \in Programs \cup {None}  BY DEF WorldType
  <2>3. d \in HookDocs  BY <2>1, <2>2 DEF HookDocs
  <2> QED BY <2>3 DEF HookValues
<1>2. CASE d \notin UserDocs  BY <1>2 DEF HookValues
<1> QED BY <1>1, <1>2

LEMMA EditHooksRouting ==
    ASSUME RoutingInv, NEW d \in UserDocs \cup {None, Garbled, Odd}, EditHooks(d)
    PROVE  RoutingInv'
<1>0. RTypeOK /\ FilesAreKnown /\ HooksAreKnown /\ HooksAreCarried /\ ConfigIsKnown
  BY DEF RoutingInv
<1>1. /\ hooks' = d
      /\ before' = [before EXCEPT !.hooksTouched = TRUE]
      /\ UNCHANGED <<entry, merged, job, absorbed, file, config, world>>
  BY DEF EditHooks, Change
<1>2. BeforeType' /\ before'.touched = before.touched /\ before'.config = before.config
      /\ before'.hooksTouched = TRUE
  BY <1>0, <1>1 DEF RTypeOK, BeforeType
<1>3. CountType'  BY <1>0, ChangeCounts DEF EditHooks, RTypeOK
<1>4. RTypeOK'
  <2>1. hooks' \in HookValues  BY <1>0, <1>1, UserDocsAreDocs DEF RTypeOK
  <2> QED BY <1>0, <1>1, <1>2, <1>3, <2>1
          DEF RTypeOK, FileType, EntryType, MergedType, ConfigType, WorldType, JobType
<1>5. FilesAreKnown'  BY <1>0, <1>1, <1>2 DEF FilesAreKnown, Writes
<1>6. HooksAreKnown'  BY <1>2 DEF HooksAreKnown
<1>7. HooksAreCarried'  BY <1>0, <1>1 DEF HooksAreCarried
<1>8. ConfigIsKnown'  BY <1>0, <1>1, <1>2 DEF ConfigIsKnown
<1> QED BY <1>4, <1>5, <1>6, <1>7, <1>8 DEF RoutingInv

LEMMA AddKeyRouting == RoutingInv /\ AddKey => RoutingInv'
<1> SUFFICES ASSUME RoutingInv, AddKey PROVE RoutingInv'  OBVIOUS
<1>0. RTypeOK /\ FilesAreKnown /\ HooksAreKnown /\ HooksAreCarried /\ ConfigIsKnown
  BY DEF RoutingInv
<1>1. /\ config' = [config EXCEPT !.exists = TRUE, !.other = TRUE]
      /\ before' = [before EXCEPT !.config = TRUE]
      /\ UNCHANGED <<entry, merged, job, absorbed, file, hooks, world>>
  BY DEF AddKey, Change
<1>2. BeforeType' /\ before'.touched = before.touched /\ before'.config = TRUE
      /\ before'.hooksTouched = before.hooksTouched /\ before'.hooks = before.hooks
  BY <1>0, <1>1 DEF RTypeOK, BeforeType
<1>3. CountType'  BY <1>0, ChangeCounts DEF AddKey, RTypeOK
<1>4. ConfigType' /\ config'.exists = TRUE /\ config'.other = TRUE /\ config'.routing = config.routing
  BY <1>0, <1>1 DEF RTypeOK, ConfigType
<1>5. RTypeOK'
  BY <1>0, <1>1, <1>2, <1>3, <1>4 DEF RTypeOK, FileType, EntryType, MergedType, WorldType, JobType
<1>6. FilesAreKnown'  BY <1>0, <1>1, <1>2 DEF FilesAreKnown, Writes
<1>7. HooksAreKnown'  BY <1>0, <1>1, <1>2 DEF HooksAreKnown, LeadsBack
<1>8. HooksAreCarried'  BY <1>0, <1>1 DEF HooksAreCarried
<1>9. ConfigIsKnown'  BY <1>2, <1>4 DEF ConfigIsKnown
<1> QED BY <1>5, <1>6, <1>7, <1>8, <1>9 DEF RoutingInv

LEMMA BeginEnableRouting ==
    ASSUME RoutingInv, NEW measured \in BOOLEAN, BeginEnable(measured)
    PROVE  RoutingInv'
<1>0. RTypeOK /\ FilesAreKnown /\ HooksAreKnown /\ HooksAreCarried /\ ConfigIsKnown
  BY DEF RoutingInv
<1> DEFINE size == IF measured THEN world.size ELSE Order200
           want == Wanted(size)
           todo == [p \in DOMAIN want |-> Outcome(entry[p], want[p], file[p])]
           plan == HooksPlan(Command)
           stale == Stale
           mixed == plan.bytes # None /\ hooks # None /\ merged # None /\ merged.mech = "copy"
                    /\ hooks.user # {}
           runs == count.runs + 1
<1>1. /\ job = Idle /\ hooks \notin {Garbled, Odd}
      /\ job' = [at |-> "record", want |-> want, todo |-> todo, stale |-> stale,
                 hooks |-> plan, seen |-> hooks]
      /\ absorbed' = (absorbed \/ mixed)
      /\ count' = [count EXCEPT !.runs = runs]
      /\ UNCHANGED <<file, hooks, entry, merged, config, world, router, before>>
  BY DEF BeginEnable
<1>2. size \in Nat  BY <1>0, OrderIsNat, RoutingAssumption DEF RTypeOK, WorldType
<1> HIDE DEF size
<1>3. PICK over \in SUBSET Paths :
          want \in [over -> FileValues] /\ StateFile \in over /\ want[StateFile] \in StateDocs
  BY <1>0, <1>2, WantedIs
<1> HIDE DEF want
<1>4. todo \in [over -> Outcomes] /\ \A p \in over : todo[p] = "adopt" => file[p] = want[p]
  BY <1>3, OutcomeIs
<1>5. /\ plan \in Plans
      /\ plan.entry = None => plan.bytes = None
      /\ plan.bytes = None => plan.entry = merged /\ hooks # None
      /\ plan.bytes # None =>
            /\ plan.entry # None /\ plan.entry.sha = plan.bytes
            /\ plan.bytes.user = HooksOf(hooks)
            /\ hooks = None => plan.entry.mech = "copy" /\ plan.entry.original = None
            /\ hooks # None /\ merged # None =>
                  plan.entry.mech = merged.mech /\ plan.entry.original = merged.original
            /\ hooks # None /\ merged = None =>
                  plan.entry.mech = "merge" /\ plan.entry.original = hooks
  BY <1>0, <1>1, PlanIs
<1>6. stale \in SUBSET Skills /\ hooks \in HookValues  BY <1>0 DEF Stale, RTypeOK
<1>7. runs \in Nat /\ mixed \in BOOLEAN /\ absorbed \in BOOLEAN  BY <1>0 DEF RTypeOK, CountType
<1> HIDE DEF todo, plan, stale, runs
<1>8. job' \in Enables(over)' /\ job'.want[StateFile] \in StateDocs'
      /\ job'.at = "record" /\ job'.todo = todo /\ job'.want = want
      /\ job'.hooks = plan /\ job'.seen = hooks
  BY <1>1, <1>3, <1>4, <1>5, <1>6 DEF Enables
<1>9. RTypeOK'
  <2>1. JobType'  BY <1>3, <1>8 DEF JobType
  <2>2. CountType'  BY <1>0, <1>1, <1>7 DEF RTypeOK, CountType
  <2>3. absorbed' \in BOOLEAN  BY <1>1, <1>7
  <2> QED BY <1>0, <1>1, <2>1, <2>2, <2>3
          DEF RTypeOK, FileType, EntryType, MergedType, ConfigType, WorldType, BeforeType
<1>10. job.at = "idle"  BY <1>1 DEF Idle
<1>11. FilesAreKnown'
  <2>1. DOMAIN todo = over  BY <1>4
  <2> QED BY <1>0, <1>1, <1>4, <1>8, <1>10, <2>1 DEF FilesAreKnown
<1>12. HooksAreKnown'
  <2>1. SUFFICES ASSUME ~before.hooksTouched PROVE HooksAreKnown'  BY <1>1 DEF HooksAreKnown
  <2>2. /\ merged = None => hooks = before.hooks
        /\ merged # None => LeadsBack(merged)
        /\ merged # None /\ merged.mech = "copy" => hooks \in {None, merged.sha}
    BY <1>0, <1>10, <2>1 DEF HooksAreKnown
  <2>3. hooks # None => hooks \in HookDocs
    BY <1>1, <1>6 DEF HookValues
  <2>4. None \notin HookDocs  BY RoutingAssumption
  <2>5. plan.bytes # None => /\ LeadsBack(plan.entry)
                             /\ plan.entry.mech = "merge" => plan.bytes.user = before.hooks.user
    <3>1. CASE hooks = None
      <4>0. merged # None => merged.mech \in {"copy", "merge"}
        BY <1>0 DEF RTypeOK, MergedType, Merges
      <4>1. before.hooks = None  BY <2>2, <2>4, <3>1, <4>0 DEF LeadsBack
      <4> QED BY <1>5, <3>1, <4>1 DEF LeadsBack
    <3>2. CASE hooks # None
      <4>1. HooksOf(hooks) = hooks.user
        BY <2>3, <3>2, RoutingAssumption DEF HooksOf
      <4> QED BY <1>5, <2>2, <2>3, <3>2, <4>1 DEF LeadsBack
    <3> QED BY <3>1, <3>2
  <2>6. plan.entry # None => LeadsBack(plan.entry)  BY <1>5, <2>2, <2>5
  <2>7. \A e : LeadsBack(e)' = LeadsBack(e)  BY <1>1 DEF LeadsBack
  <2> QED BY <1>1, <1>5, <1>8, <2>2, <2>5, <2>6, <2>7 DEF HooksAreKnown
<1>13. HooksAreCarried'
  <2>1. plan.bytes # None => plan.bytes.user = HooksOf(hooks)  BY <1>5
  <2>2. merged # None /\ merged.mech = "copy" /\ ~absorbed' => merged.sha.user = {}
    BY <1>0, <1>1, <1>7 DEF HooksAreCarried
  <2>3. ~absorbed' /\ plan.entry # None /\ plan.entry.mech = "copy" => plan.entry.sha.user = {}
    <3>1. SUFFICES ASSUME ~absorbed', plan.entry # None, plan.entry.mech = "copy"
                   PROVE  plan.entry.sha.user = {}
      OBVIOUS
    <3>2. CASE plan.bytes = None  BY <1>5, <2>2, <3>1, <3>2
    <3>3. CASE plan.bytes # None /\ hooks = None  BY <1>5, <3>3 DEF HooksOf
    <3>4. CASE plan.bytes # None /\ hooks # None
      <4>1. merged # None /\ merged.mech = "copy"  BY <1>5, <3>1, <3>4
      <4>2. hooks.user = {}  BY <1>1, <3>1, <3>4, <4>1
      <4>3. HooksOf(hooks) = {}  BY <4>2 DEF HooksOf
      <4> QED BY <1>5, <3>4, <4>3
    <3> QED BY <3>2, <3>3, <3>4
  <2> QED BY <1>1, <1>8, <2>1, <2>2, <2>3 DEF HooksAreCarried, HooksOf
<1>14. ConfigIsKnown'  BY <1>0, <1>1 DEF ConfigIsKnown
<1> QED BY <1>9, <1>11, <1>12, <1>13, <1>14 DEF RoutingInv

LEMMA EnableRecordsRouting == RoutingInv /\ EnableRecords => RoutingInv'
<1> SUFFICES ASSUME RoutingInv, EnableRecords PROVE RoutingInv'  OBVIOUS
<1>0. RTypeOK /\ FilesAreKnown /\ HooksAreKnown /\ HooksAreCarried /\ ConfigIsKnown /\ JobType
  BY DEF RoutingInv, RTypeOK
<1>1. /\ job.at = "record"
      /\ entry' = [p \in Paths |->
            IF p \in DOMAIN job.todo /\ job.todo[p] \in {"overwrite", "adopt"} THEN job.want[p]
            ELSE IF p \in job.stale THEN None ELSE entry[p]]
      /\ merged' = IF job.hooks.entry # None THEN job.hooks.entry ELSE merged
      /\ job' = [job EXCEPT !.at = "files"]
      /\ UNCHANGED <<file, hooks, config, world, router, count, before, absorbed>>
  BY DEF EnableRecords, Goto
<1>2. PICK over \in SUBSET Paths :
          job \in Enables(over) /\ StateFile \in over /\ job.want[StateFile] \in StateDocs
  BY <1>0, <1>1, JobIs
<1>3. job' \in Enables(over) /\ job'.at = "files" /\ job'.todo = job.todo /\ job'.want = job.want
      /\ job'.stale = job.stale /\ job'.hooks = job.hooks /\ job'.seen = job.seen
  BY <1>1, <1>2 DEF Enables
<1>4. job.todo \in [over -> Outcomes] /\ job.want \in [over -> FileValues] /\ job.stale \subseteq Skills
      /\ job.hooks \in Plans
  BY <1>2 DEF Enables
<1>5. Writes' = Writes /\ Writes = {p \in over : job.todo[p] = "overwrite"}
  BY <1>3, <1>4 DEF Writes
<1>6. RTypeOK'
  <2>1. JobType'  BY <1>2, <1>3 DEF JobType, Enables
  <2>2. EntryType'
    <3>1. \A p \in Paths : entry[p] \in FileValues  BY <1>0 DEF RTypeOK, EntryType
    <3>2. entry' \in [Paths -> FileValues]
      BY <1>1, <1>4, <3>1 DEF FileValues, Marks
    <3>3. entry'[StateFile] \in StateDocs \cup {None}
      BY <1>0, <1>1, <1>2, StateIsNoSkill DEF RTypeOK, EntryType
    <3> QED BY <3>2, <3>3 DEF EntryType
  <2>3. MergedType'  BY <1>0, <1>1, <1>4 DEF MergedType, Plans, RTypeOK
  <2> QED BY <1>0, <1>1, <2>1, <2>2, <2>3
          DEF RTypeOK, FileType, ConfigType, WorldType, BeforeType, CountType
<1>7. FilesAreKnown'
  <2>1. \A p \in Writes : entry'[p] = job.want[p]  BY <1>1, <1>4, <1>5
  <2>2. ASSUME NEW p \in Paths \ before.touched
        PROVE  file[p] \in {None, entry'[p]} \/ p \in Writes \cup job.stale
    <3>1. file[p] \in {None, entry[p]}
          /\ (p \in DOMAIN job.todo /\ job.todo[p] = "adopt" => file[p] = job.want[p])
      BY <1>0, <1>1 DEF FilesAreKnown
    <3>2. entry'[p] = IF p \in DOMAIN job.todo /\ job.todo[p] \in {"overwrite", "adopt"}
                      THEN job.want[p] ELSE IF p \in job.stale THEN None ELSE entry[p]
      BY <1>1
    <3> QED BY <1>4, <1>5, <3>1, <3>2
  <2> QED BY <1>1, <1>3, <1>5, <2>1, <2>2 DEF FilesAreKnown
<1>8. HooksAreKnown'
  <2>1. SUFFICES ASSUME ~before.hooksTouched PROVE HooksAreKnown'  BY <1>1 DEF HooksAreKnown
  <2>2. /\ merged = None => hooks = before.hooks
        /\ merged # None => LeadsBack(merged)
        /\ merged # None /\ merged.mech = "copy" => hooks \in {None, merged.sha}
        /\ job.hooks.entry = None => job.hooks.bytes = None
        /\ job.hooks.entry # None => LeadsBack(job.hooks.entry)
        /\ job.hooks.bytes = None => job.hooks.entry = merged
        /\ job.hooks.bytes # None => job.hooks.entry.sha = job.hooks.bytes
        /\ job.hooks.bytes # None /\ job.hooks.entry.mech = "merge" =>
              job.hooks.bytes.user = before.hooks.user
    BY <1>0, <1>1, <2>1 DEF HooksAreKnown
  <2>3. \A e : LeadsBack(e)' = LeadsBack(e)  BY <1>1 DEF LeadsBack
  <2>4. merged' = job.hooks.entry  BY <1>1, <2>2
  <2> QED BY <1>1, <1>3, <2>2, <2>3, <2>4 DEF HooksAreKnown
<1>9. HooksAreCarried'  BY <1>0, <1>1, <1>3 DEF HooksAreCarried
<1>10. ConfigIsKnown'  BY <1>0, <1>1 DEF ConfigIsKnown
<1> QED BY <1>6, <1>7, <1>8, <1>9, <1>10 DEF RoutingInv

LEMMA EnableWritesRouting == RoutingInv /\ EnableWrites => RoutingInv'
<1> SUFFICES ASSUME RoutingInv, EnableWrites PROVE RoutingInv'  OBVIOUS
<1>0. RTypeOK /\ FilesAreKnown /\ HooksAreKnown /\ HooksAreCarried /\ ConfigIsKnown /\ JobType
  BY DEF RoutingInv, RTypeOK
<1> DEFINE p == NextOf(Writes)
           value == job.want[p]
<1>1. /\ job.at = "files" /\ Writes # {}
      /\ file' = [file EXCEPT ![p] = value]
      /\ job' = [job EXCEPT !.todo[p] = "noop"]
      /\ UNCHANGED <<hooks, entry, merged, config, world, router, count, before, absorbed>>
  BY DEF EnableWrites
<1>2. PICK over \in SUBSET Paths :
          job \in Enables(over) /\ StateFile \in over /\ job.want[StateFile] \in StateDocs
  BY <1>0, <1>1, JobIs
<1>3. job.todo \in [over -> Outcomes] /\ job.want \in [over -> FileValues] /\ job.stale \subseteq Skills
      /\ job.hooks \in Plans
  BY <1>2 DEF Enables
<1>4. Writes = {q \in over : job.todo[q] = "overwrite"}  BY <1>3 DEF Writes
<1>5. p \in Writes /\ p \in over /\ p \in Paths
  <2>1. Writes \in SUBSET Paths  BY <1>2, <1>4
  <2> QED BY <1>1, <1>2, <1>4, <2>1, NextIsOne
<1>6. value \in FileValues /\ (p = StateFile => value \in StateDocs) /\ value = entry[p]
  BY <1>0, <1>1, <1>2, <1>3, <1>5 DEF FilesAreKnown
<1> HIDE DEF p, value
<1>7. job' \in Enables(over) /\ job'.at = "files" /\ job'.want = job.want
      /\ job'.stale = job.stale /\ job'.hooks = job.hooks /\ job'.seen = job.seen
      /\ job'.todo = [job.todo EXCEPT ![p] = "noop"]
  BY <1>1, <1>2, <1>3, <1>5 DEF Enables, Outcomes
<1>8. Writes' = Writes \ {p}
  <2>1. DOMAIN job'.todo = over /\ \A q \in over : job'.todo[q] = IF q = p THEN "noop" ELSE job.todo[q]
    BY <1>3, <1>7
  <2>2. Writes' = {q \in over : job'.todo[q] = "overwrite"}  BY <2>1 DEF Writes
  <2> QED BY <1>4, <2>1, <2>2
<1>9. FileType' /\ file'[p] = entry[p] /\ \A q \in Paths \ {p} : file'[q] = file[q]
  BY <1>0, <1>1, <1>5, <1>6 DEF RTypeOK, FileType
<1>10. RTypeOK'
  <2>1. JobType'  BY <1>2, <1>7 DEF JobType, Enables
  <2> QED BY <1>0, <1>1, <1>9, <2>1
          DEF RTypeOK, EntryType, MergedType, ConfigType, WorldType, BeforeType, CountType
<1>11. FilesAreKnown'  BY <1>0, <1>1, <1>7, <1>8, <1>9 DEF FilesAreKnown
<1>12. HooksAreKnown'  BY <1>0, <1>1, <1>7 DEF HooksAreKnown, LeadsBack
<1>13. HooksAreCarried'  BY <1>0, <1>1, <1>7 DEF HooksAreCarried
<1>14. ConfigIsKnown'  BY <1>0, <1>1 DEF ConfigIsKnown
<1> QED BY <1>10, <1>11, <1>12, <1>13, <1>14 DEF RoutingInv

LEMMA EnableDropsRouting == RoutingInv /\ EnableDrops => RoutingInv'
<1> SUFFICES ASSUME RoutingInv, EnableDrops PROVE RoutingInv'  OBVIOUS
<1>0. RTypeOK /\ FilesAreKnown /\ HooksAreKnown /\ HooksAreCarried /\ ConfigIsKnown /\ JobType
  BY DEF RoutingInv, RTypeOK
<1> DEFINE p == Min(job.stale)
<1>1. /\ job.at = "files" /\ job.stale # {}
      /\ file' = [file EXCEPT ![p] = None]
      /\ job' = [job EXCEPT !.stale = @ \ {p}]
      /\ UNCHANGED <<hooks, entry, merged, config, world, router, count, before, absorbed>>
  BY DEF EnableDrops
<1>2. PICK over \in SUBSET Paths :
          job \in Enables(over) /\ StateFile \in over /\ job.want[StateFile] \in StateDocs
  BY <1>0, <1>1, JobIs
<1>3. job.todo \in [over -> Outcomes] /\ job.stale \in SUBSET Skills  BY <1>2 DEF Enables
<1>4. p \in job.stale /\ p \in Paths
  <2>1. job.stale \in SUBSET Nat  BY <1>3, RoutingAssumption
  <2> QED BY <1>1, <1>3, <2>1, LeastOf, StateIsNoSkill
<1> HIDE DEF p
<1>5. job' \in Enables(over) /\ job'.at = "files" /\ job'.want = job.want
      /\ job'.stale = job.stale \ {p} /\ job'.hooks = job.hooks /\ job'.seen = job.seen
      /\ job'.todo = job.todo
  BY <1>1, <1>2, <1>3 DEF Enables
<1>6. Writes' = Writes  BY <1>5 DEF Writes
<1>7. FileType' /\ file'[p] = None /\ \A q \in Paths \ {p} : file'[q] = file[q]
  BY <1>0, <1>1, <1>4 DEF RTypeOK, FileType, FileValues, Marks
<1>8. RTypeOK'
  <2>1. JobType'  BY <1>2, <1>5 DEF JobType, Enables
  <2> QED BY <1>0, <1>1, <1>7, <2>1
          DEF RTypeOK, EntryType, MergedType, ConfigType, WorldType, BeforeType, CountType
<1>9. FilesAreKnown'  BY <1>0, <1>1, <1>5, <1>6, <1>7 DEF FilesAreKnown
<1>10. HooksAreKnown'  BY <1>0, <1>1, <1>5 DEF HooksAreKnown, LeadsBack
<1>11. HooksAreCarried'  BY <1>0, <1>1, <1>5 DEF HooksAreCarried
<1>12. ConfigIsKnown'  BY <1>0, <1>1 DEF ConfigIsKnown
<1> QED BY <1>8, <1>9, <1>10, <1>11, <1>12 DEF RoutingInv

LEMMA EnableHooksRouting == RoutingInv /\ EnableHooks => RoutingInv'
<1> SUFFICES ASSUME RoutingInv, EnableHooks PROVE RoutingInv'  OBVIOUS
<1>0. RTypeOK /\ FilesAreKnown /\ HooksAreKnown /\ HooksAreCarried /\ ConfigIsKnown /\ JobType
  BY DEF RoutingInv, RTypeOK
<1>1. /\ job.at = "files" /\ Writes = {} /\ job.stale = {}
      /\ hooks' = IF job.hooks.bytes = None THEN hooks ELSE job.hooks.bytes
      /\ job' = [job EXCEPT !.at = "config"]
      /\ UNCHANGED <<file, entry, merged, config, world, router, count, before, absorbed>>
  BY DEF EnableHooks, Goto
<1>2. PICK over \in SUBSET Paths :
          job \in Enables(over) /\ StateFile \in over /\ job.want[StateFile] \in StateDocs
  BY <1>0, <1>1, JobIs
<1>3. job' \in Enables(over) /\ job'.at = "config" /\ job'.want = job.want
  BY <1>1, <1>2 DEF Enables
<1>4. job.hooks \in Plans  BY <1>2 DEF Enables
<1>5. RTypeOK'
  <2>1. JobType'  BY <1>2, <1>3 DEF JobType, Enables
  <2>2. hooks' \in HookValues  BY <1>0, <1>1, <1>4 DEF RTypeOK, HookValues, Plans
  <2> QED BY <1>0, <1>1, <2>1, <2>2
          DEF RTypeOK, FileType, EntryType, MergedType, ConfigType, WorldType, BeforeType, CountType
<1>6. FilesAreKnown'  BY <1>0, <1>1, <1>3 DEF FilesAreKnown
<1>7. HooksAreKnown'
  <2>1. SUFFICES ASSUME ~before.hooksTouched PROVE HooksAreKnown'  BY <1>1 DEF HooksAreKnown
  <2>2. CASE job.hooks.bytes = None
    <3>1. UNCHANGED hooks  BY <1>1, <2>2
    <3> QED BY <1>0, <1>1, <1>3, <2>2, <3>1 DEF HooksAreKnown, LeadsBack
  <2>3. CASE job.hooks.bytes # None
    <3>1. merged # None /\ merged = job.hooks.entry /\ merged.sha = job.hooks.bytes
          /\ LeadsBack(merged) /\ (merged.mech = "merge" => job.hooks.bytes.user = before.hooks.user)
      BY <1>0, <1>1, <2>1, <2>3 DEF HooksAreKnown
    <3>2. hooks' = merged.sha /\ hooks' \in HookDocs  BY <1>1, <1>4, <2>3, <3>1 DEF Plans
    <3> QED BY <1>1, <1>3, <3>1, <3>2 DEF HooksAreKnown, LeadsBack
  <2> QED BY <2>2, <2>3
<1>8. HooksAreCarried'  BY <1>0, <1>1, <1>3 DEF HooksAreCarried
<1>9. ConfigIsKnown'  BY <1>0, <1>1 DEF ConfigIsKnown
<1> QED BY <1>5, <1>6, <1>7, <1>8, <1>9 DEF RoutingInv

LEMMA EnableConfigRouting == RoutingInv /\ EnableConfig => RoutingInv'
<1> SUFFICES ASSUME RoutingInv, EnableConfig PROVE RoutingInv'  OBVIOUS
<1>0. RTypeOK /\ FilesAreKnown /\ HooksAreKnown /\ HooksAreCarried /\ ConfigIsKnown /\ JobType
  BY DEF RoutingInv, RTypeOK
<1> DEFINE old == config.routing
           made == IF old # None THEN old.created ELSE ~config.exists
           record == [size |-> job.want[StateFile].size, skills |-> job.want[StateFile].skills,
                      command |-> job.want[StateFile].command, created |-> made]
<1>1. /\ job.at = "config" /\ job' = Idle
      /\ config' = [config EXCEPT !.exists = TRUE, !.routing = record]
      /\ UNCHANGED <<file, hooks, entry, merged, world, router, count, before, absorbed>>
  BY DEF EnableConfig
<1>2. job.want[StateFile] \in StateDocs  BY <1>0, <1>1, JobIs
<1>3. ConfigType /\ made \in BOOLEAN  BY <1>0 DEF RTypeOK, ConfigType, Records
<1> HIDE DEF made
<1>4. record \in Records /\ record.created = made /\ record # None
  <2>1. record \in Records  BY <1>2, <1>3 DEF Records, StateDocs
  <2> QED BY <2>1, RoutingAssumption
<1> HIDE DEF record
<1>5. ConfigType' /\ config'.exists = TRUE /\ config'.other = config.other /\ config'.routing = record
  BY <1>1, <1>3, <1>4 DEF ConfigType
<1>6. job'.at = "idle"  BY <1>1 DEF Idle
<1>7. RTypeOK'
  <2>1. JobType'  BY <1>1 DEF JobType
  <2> QED BY <1>0, <1>1, <1>5, <2>1
          DEF RTypeOK, FileType, EntryType, MergedType, WorldType, BeforeType, CountType
<1>8. FilesAreKnown'  BY <1>0, <1>1, <1>6 DEF FilesAreKnown
<1>9. HooksAreKnown'  BY <1>0, <1>1, <1>6 DEF HooksAreKnown, LeadsBack
<1>10. HooksAreCarried'  BY <1>0, <1>1, <1>6 DEF HooksAreCarried
<1>11. ConfigIsKnown'
  <2>1. before' = before  BY <1>1
  <2> QED BY <1>0, <1>3, <1>4, <1>5, <2>1 DEF ConfigIsKnown, made, ConfigType
<1> QED BY <1>7, <1>8, <1>9, <1>10, <1>11 DEF RoutingInv

LEMMA BeginDisableRouting == RoutingInv /\ BeginDisable => RoutingInv'
<1> SUFFICES ASSUME RoutingInv, BeginDisable PROVE RoutingInv'  OBVIOUS
<1>0. RTypeOK /\ FilesAreKnown /\ HooksAreKnown /\ HooksAreCarried /\ ConfigIsKnown
  BY DEF RoutingInv
<1> DEFINE runs == count.runs + 1
           todo == {p \in Paths : entry[p] # None}
<1>1. /\ job = Idle
      /\ job' = [at |-> "remove", todo |-> todo, drop |-> {}, undone |-> FALSE, seen |-> hooks]
      /\ count' = [count EXCEPT !.runs = runs]
      /\ UNCHANGED <<file, hooks, entry, merged, config, world, router, before, absorbed>>
  BY DEF BeginDisable
<1>2. runs \in Nat /\ todo \in SUBSET Paths  BY <1>0 DEF RTypeOK, CountType
<1>3. \A p \in Paths : p \in todo <=> entry[p] # None  OBVIOUS
<1> HIDE DEF runs, todo
<1>4. job' \in Disables /\ job'.at = "remove" /\ job'.todo = todo /\ job'.drop = {}
  BY <1>0, <1>1, <1>2 DEF Disables, RTypeOK
<1>5. RTypeOK'
  <2>1. JobType'  BY <1>4 DEF JobType, Disables, HookValues, HookDocs
  <2>2. CountType'  BY <1>0, <1>1, <1>2 DEF RTypeOK, CountType
  <2> QED BY <1>0, <1>1, <2>1, <2>2
          DEF RTypeOK, FileType, EntryType, MergedType, ConfigType, WorldType, BeforeType
<1>6. job.at = "idle"  BY <1>1 DEF Idle
<1>7. FilesAreKnown'  BY <1>0, <1>1, <1>3, <1>4, <1>6 DEF FilesAreKnown
<1>8. HooksAreKnown'  BY <1>0, <1>1, <1>4, <1>6 DEF HooksAreKnown, LeadsBack
<1>9. HooksAreCarried'  BY <1>0, <1>1, <1>4 DEF HooksAreCarried
<1>10. ConfigIsKnown'  BY <1>0, <1>1 DEF ConfigIsKnown
<1> QED BY <1>5, <1>7, <1>8, <1>9, <1>10 DEF RoutingInv

LEMMA DisableFileRouting == RoutingInv /\ DisableFile => RoutingInv'
<1> SUFFICES ASSUME RoutingInv, DisableFile PROVE RoutingInv'  OBVIOUS
<1>0. RTypeOK /\ FilesAreKnown /\ HooksAreKnown /\ HooksAreCarried /\ ConfigIsKnown /\ JobType
  BY DEF RoutingInv, RTypeOK
<1> DEFINE p == NextOf(job.todo)
           drop == IF file[p] \in {entry[p], None} THEN job.drop \cup {p} ELSE job.drop
<1>1. /\ job.at = "remove" /\ job.todo # {}
      /\ file' = IF file[p] = entry[p] THEN [file EXCEPT ![p] = None] ELSE file
      /\ job' = [job EXCEPT !.todo = @ \ {p}, !.drop = drop]
      /\ UNCHANGED <<hooks, entry, merged, config, world, router, count, before, absorbed>>
  BY DEF DisableFile
<1>2. job \in Disables  BY <1>0, <1>1, JobIs
<1>3. p \in job.todo /\ p \in Paths /\ job.todo \in SUBSET Paths
  <2>1. job.todo \in SUBSET Paths  BY <1>2 DEF Disables
  <2> QED BY <1>1, <2>1, NextIsOne
<1> HIDE DEF p
<1>4. drop \in SUBSET Paths  BY <1>2, <1>3 DEF Disables
<1>5. /\ file[p] \in {entry[p], None} => drop = job.drop \cup {p}
      /\ job.drop \subseteq drop
  OBVIOUS
<1> HIDE DEF drop
<1>6. job' \in Disables /\ job'.at = "remove" /\ job'.todo = job.todo \ {p} /\ job'.drop = drop
  BY <1>1, <1>2, <1>3, <1>4 DEF Disables
<1>7. FileType' /\ (file[p] = entry[p] => file'[p] = None) /\ (file[p] # entry[p] => file'[p] = file[p])
      /\ \A q \in Paths \ {p} : file'[q] = file[q]
  BY <1>0, <1>1, <1>3 DEF RTypeOK, FileType, FileValues, Marks
<1>8. RTypeOK'
  <2>1. JobType'  BY <1>6 DEF JobType, Disables, HookValues, HookDocs
  <2> QED BY <1>0, <1>1, <1>7, <2>1
          DEF RTypeOK, EntryType, MergedType, ConfigType, WorldType, BeforeType, CountType
<1>9. FilesAreKnown'
  <2>1. ASSUME NEW q \in Paths \ before.touched
        PROVE  /\ file'[q] \in {None, entry[q]}
               /\ file'[q] = None \/ q \in job.todo \ {p}
               /\ entry[q] = None \/ q \in (job.todo \ {p}) \cup drop
    <3>1. /\ file[q] \in {None, entry[q]} /\ (file[q] = None \/ q \in job.todo)
          /\ (entry[q] = None \/ q \in job.todo \cup job.drop)
      BY <1>0, <1>1 DEF FilesAreKnown
    <3>2. CASE q = p  BY <1>3, <1>5, <1>7, <3>1, <3>2
    <3>3. CASE q # p  BY <1>5, <1>7, <3>1, <3>3
    <3> QED BY <3>2, <3>3
  <2> QED BY <1>1, <1>6, <2>1 DEF FilesAreKnown
<1>10. HooksAreKnown'  BY <1>0, <1>1, <1>6 DEF HooksAreKnown, LeadsBack
<1>11. HooksAreCarried'  BY <1>0, <1>1, <1>6 DEF HooksAreCarried
<1>12. ConfigIsKnown'  BY <1>0, <1>1 DEF ConfigIsKnown
<1> QED BY <1>8, <1>9, <1>10, <1>11, <1>12 DEF RoutingInv

\* Taking the handler out leaves a hooks file, or none, and of the user's hooks
\* only a file omm made and nobody touched takes any with it.
LEMMA UndoneIs ==
    ASSUME NEW e \in Merges, hooks \in HookValues
    PROVE  /\ Undone(e).file \in HookValues /\ Undone(e).drop \in BOOLEAN
           /\ ~(e.mech = "copy" /\ hooks = e.sha) => HooksOf(Undone(e).file) = HooksOf(hooks)
<1> DEFINE doc == [hooks EXCEPT !.omm = None, !.pretty = TRUE]
<1>0. None \notin HookDocs /\ Garbled \notin HookDocs /\ Odd \notin HookDocs  BY RoutingAssumption
<1>1. CASE hooks = None
  <2>1. Undone(e) = [file |-> None, drop |-> TRUE]  BY <1>1, RoutingAssumption DEF Undone
  <2> QED BY <1>1, <2>1 DEF HookValues
<1>2. CASE hooks # None /\ hooks \in {Odd, Garbled}
  <2>1. Undone(e) = [file |-> hooks, drop |-> FALSE]  BY <1>2 DEF Undone
  <2> QED BY <2>1
<1>3. CASE hooks \in HookDocs
  <2>1. hooks \notin {None, Odd, Garbled}  BY <1>0, <1>3
  <2>2. Undone(e) = IF e.mech = "copy" /\ hooks = e.sha THEN [file |-> None, drop |-> TRUE]
                    ELSE IF e.original # None /\ SameDoc(e.original, doc)
                    THEN [file |-> e.original, drop |-> TRUE]
                    ELSE IF hooks.omm # None THEN [file |-> doc, drop |-> TRUE]
                    ELSE [file |-> hooks, drop |-> TRUE]
    BY <2>1 DEF Undone
  <2>3. doc \in HookDocs /\ doc.user = hooks.user  BY <1>3 DEF HookDocs
  <2>4. HooksOf(hooks) = hooks.user /\ HooksOf(doc) = hooks.user
    BY <1>0, <1>3, <2>3 DEF HooksOf
  <2>5. e.original \in HookDocs \cup {None}  BY DEF Merges
  <2>6. CASE e.mech = "copy" /\ hooks = e.sha  BY <2>2, <2>6 DEF HookValues
  <2>7. CASE ~(e.mech = "copy" /\ hooks = e.sha) /\ e.original # None /\ SameDoc(e.original, doc)
    <3>1. Undone(e) = [file |-> e.original, drop |-> TRUE]  BY <2>2, <2>7
    <3>2. HooksOf(e.original) = hooks.user
      BY <1>0, <2>3, <2>5, <2>7 DEF HooksOf, SameDoc
    <3> QED BY <2>4, <2>5, <2>7, <3>1, <3>2 DEF HookValues
  <2>8. CASE /\ ~(e.mech = "copy" /\ hooks = e.sha) /\ ~(e.original # None /\ SameDoc(e.original, doc))
             /\ hooks.omm # None
    <3>1. Undone(e) = [file |-> doc, drop |-> TRUE]  BY <2>2, <2>8
    <3> HIDE DEF doc
    <3> QED BY <2>3, <2>4, <3>1 DEF HookValues
  <2>9. CASE /\ ~(e.mech = "copy" /\ hooks = e.sha) /\ ~(e.original # None /\ SameDoc(e.original, doc))
             /\ ~(hooks.omm # None)
    <3>1. Undone(e) = [file |-> hooks, drop |-> TRUE]  BY <2>2, <2>9
    <3> QED BY <3>1
  <2> QED BY <2>6, <2>7, <2>8, <2>9
<1> QED BY <1>1, <1>2, <1>3 DEF HookValues

\* What leads back does.
LEMMA UndoneLeadsBack ==
    ASSUME NEW e \in Merges, hooks \in HookValues, BeforeType, LeadsBack(e),
           e.mech = "copy" => hooks \in {None, e.sha}
    PROVE  Undone(e).file = before.hooks /\ Undone(e).drop
<1> DEFINE doc == [hooks EXCEPT !.omm = None, !.pretty = TRUE]
<1>0. None \notin HookDocs /\ Garbled \notin HookDocs /\ Odd \notin HookDocs  BY RoutingAssumption
<1>1. e.mech \in {"copy", "merge"} /\ e.sha \in HookDocs  BY DEF Merges
<1>2. CASE e.mech = "copy" /\ hooks = None
  <2>1. Undone(e) = [file |-> None, drop |-> TRUE]  BY <1>2, RoutingAssumption DEF Undone
  <2> QED BY <1>2, <2>1 DEF LeadsBack
<1>3. CASE e.mech = "copy" /\ hooks # None
  <2>1. hooks = e.sha /\ hooks \notin {None, Odd, Garbled}  BY <1>0, <1>1, <1>3
  <2>2. Undone(e) = [file |-> None, drop |-> TRUE]  BY <1>3, <2>1 DEF Undone
  <2> QED BY <1>3, <2>2 DEF LeadsBack
<1>4. CASE e.mech = "merge"
  <2>1. e.original = before.hooks /\ before.hooks # None /\ hooks \in HookDocs
        /\ hooks.user = before.hooks.user
    BY <1>4 DEF LeadsBack
  <2>2. before.hooks.omm = None  BY <2>1 DEF BeforeType
  <2>3. hooks \notin {None, Odd, Garbled}  BY <1>0, <2>1
  <2>4. doc.user = hooks.user /\ doc.omm = None  BY <2>1 DEF HookDocs
  <2>5. SameDoc(e.original, doc)
    <3> HIDE DEF doc
    <3> QED BY <2>1, <2>2, <2>4 DEF SameDoc
  <2>6. Undone(e) = [file |-> e.original, drop |-> TRUE]  BY <1>4, <2>1, <2>3, <2>5 DEF Undone
  <2> QED BY <2>1, <2>6
<1> QED BY <1>1, <1>2, <1>3, <1>4

LEMMA DisableHooksRouting == RoutingInv /\ DisableHooks => RoutingInv'
<1> SUFFICES ASSUME RoutingInv, DisableHooks PROVE RoutingInv'  OBVIOUS
<1>0. RTypeOK /\ FilesAreKnown /\ HooksAreKnown /\ HooksAreCarried /\ ConfigIsKnown /\ JobType
  BY DEF RoutingInv, RTypeOK
<1>1. /\ job.at = "remove" /\ job.todo = {}
      /\ UNCHANGED <<file, entry, merged, config, world, router, count, before, absorbed>>
  BY DEF DisableHooks
<1>2. job \in Disables  BY <1>0, <1>1, JobIs
<1>3. merged = None => hooks' = hooks /\ job' = [job EXCEPT !.at = "drop"]
  BY DEF DisableHooks, Goto
<1>4. merged # None => hooks' = Undone(merged).file
                       /\ job' = [job EXCEPT !.at = "drop", !.undone = Undone(merged).drop]
  BY DEF DisableHooks
<1>5. /\ hooks' \in HookValues /\ job' \in Disables /\ job'.at = "drop" /\ job'.drop = job.drop
      /\ merged # None => job'.undone = Undone(merged).drop
  <2>1. CASE merged = None  BY <1>0, <1>2, <1>3, <2>1 DEF RTypeOK, Disables
  <2>2. CASE merged # None
    <3>1. merged \in Merges  BY <1>0, <2>2 DEF RTypeOK, MergedType
    <3>2. Undone(merged).file \in HookValues /\ Undone(merged).drop \in BOOLEAN
      BY <1>0, <3>1, UndoneIs DEF RTypeOK
    <3> QED BY <1>2, <1>4, <2>2, <3>2 DEF Disables
  <2> QED BY <2>1, <2>2
<1>6. RTypeOK'
  <2>1. JobType'  BY <1>5 DEF JobType, Disables, HookValues, HookDocs
  <2> QED BY <1>0, <1>1, <1>5, <2>1
          DEF RTypeOK, FileType, EntryType, MergedType, ConfigType, WorldType, BeforeType, CountType
<1>7. FilesAreKnown'  BY <1>0, <1>1, <1>5 DEF FilesAreKnown
<1>8. HooksAreKnown'
  <2>1. SUFFICES ASSUME ~before.hooksTouched PROVE HooksAreKnown'  BY <1>1 DEF HooksAreKnown
  <2>2. CASE merged = None
    <3>1. hooks' = before.hooks  BY <1>0, <1>3, <2>1, <2>2 DEF HooksAreKnown
    <3> QED BY <1>1, <1>5, <2>2, <3>1 DEF HooksAreKnown
  <2>3. CASE merged # None
    <3>1. merged \in Merges  BY <1>0, <2>3 DEF RTypeOK, MergedType
    <3>2. LeadsBack(merged) /\ (merged.mech = "copy" => hooks \in {None, merged.sha})
      BY <1>0, <1>1, <2>1, <2>3 DEF HooksAreKnown
    <3>3. hooks \in HookValues /\ BeforeType  BY <1>0 DEF RTypeOK
    <3>4. Undone(merged).file = before.hooks /\ Undone(merged).drop
      BY <3>1, <3>2, <3>3, UndoneLeadsBack
    <3>5. hooks' = before.hooks /\ job'.undone  BY <1>4, <1>5, <2>3, <3>4
    <3>6. LeadsBack(merged)'
      <4>1. merged.mech = "merge" => before.hooks \in HookDocs
        BY <3>2, <3>3 DEF LeadsBack, BeforeType
      <4> QED BY <1>1, <3>2, <3>5, <4>1 DEF LeadsBack
    <3>7. merged.mech = "copy" => hooks' = None  BY <3>2, <3>5 DEF LeadsBack
    <3> QED BY <1>1, <1>5, <2>3, <3>5, <3>6, <3>7 DEF HooksAreKnown
  <2> QED BY <2>2, <2>3
<1>9. HooksAreCarried'  BY <1>0, <1>1, <1>5 DEF HooksAreCarried
<1>10. ConfigIsKnown'  BY <1>0, <1>1 DEF ConfigIsKnown
<1> QED BY <1>6, <1>7, <1>8, <1>9, <1>10 DEF RoutingInv

LEMMA DisableRecordsRouting == RoutingInv /\ DisableRecords => RoutingInv'
<1> SUFFICES ASSUME RoutingInv, DisableRecords PROVE RoutingInv'  OBVIOUS
<1>0. RTypeOK /\ FilesAreKnown /\ HooksAreKnown /\ HooksAreCarried /\ ConfigIsKnown /\ JobType
  BY DEF RoutingInv, RTypeOK
<1>1. /\ job.at = "drop"
      /\ entry' = [p \in Paths |-> IF p \in job.drop THEN None ELSE entry[p]]
      /\ merged' = IF job.undone THEN None ELSE merged
      /\ job' = [job EXCEPT !.at = "unset"]
      /\ UNCHANGED <<file, hooks, config, world, router, count, before, absorbed>>
  BY DEF DisableRecords, Goto
<1>2. job \in Disables  BY <1>0, <1>1, JobIs
<1>3. job' \in Disables /\ job'.at = "unset"  BY <1>1, <1>2 DEF Disables
<1>4. RTypeOK'
  <2>1. JobType'  BY <1>3 DEF JobType, Disables, HookValues, HookDocs
  <2>2. EntryType'
    BY <1>0, <1>1, StateIsNoSkill DEF RTypeOK, EntryType, FileValues, Marks
  <2>3. MergedType'  BY <1>0, <1>1 DEF RTypeOK, MergedType
  <2> QED BY <1>0, <1>1, <2>1, <2>2, <2>3
          DEF RTypeOK, FileType, ConfigType, WorldType, BeforeType, CountType
<1>5. FilesAreKnown'
  <2>1. ASSUME NEW p \in Paths \ before.touched PROVE file[p] = None /\ entry'[p] = None
    BY <1>0, <1>1 DEF FilesAreKnown
  <2> QED BY <1>1, <1>3, <2>1 DEF FilesAreKnown
<1>6. HooksAreKnown'
  <2>1. SUFFICES ASSUME ~before.hooksTouched PROVE HooksAreKnown'  BY <1>1 DEF HooksAreKnown
  <2>2. hooks = before.hooks /\ merged' = None  BY <1>0, <1>1, <2>1 DEF HooksAreKnown
  <2> QED BY <1>1, <1>3, <2>2 DEF HooksAreKnown
<1>7. HooksAreCarried'  BY <1>0, <1>1, <1>3 DEF HooksAreCarried
<1>8. ConfigIsKnown'  BY <1>0, <1>1 DEF ConfigIsKnown
<1> QED BY <1>4, <1>5, <1>6, <1>7, <1>8 DEF RoutingInv

LEMMA DisableConfigRouting == RoutingInv /\ DisableConfig => RoutingInv' /\ config'.exists = before.config
<1> SUFFICES ASSUME RoutingInv, DisableConfig PROVE RoutingInv' /\ config'.exists = before.config
  OBVIOUS
<1>0. RTypeOK /\ FilesAreKnown /\ HooksAreKnown /\ HooksAreCarried /\ ConfigIsKnown /\ JobType
  BY DEF RoutingInv, RTypeOK
<1>1. /\ job.at = "unset" /\ job' = Idle
      /\ config' = IF config.routing # None /\ config.routing.created /\ ~config.other
                   THEN [config EXCEPT !.exists = FALSE, !.routing = None]
                   ELSE [config EXCEPT !.routing = None]
      /\ UNCHANGED <<file, hooks, entry, merged, world, router, count, before, absorbed>>
  BY DEF DisableConfig
<1>2. job'.at = "idle"  BY <1>1 DEF Idle
<1>3. /\ ConfigType' /\ config'.routing = None /\ config'.other = config.other
      /\ config'.exists = IF config.routing # None /\ config.routing.created /\ ~config.other
                          THEN FALSE ELSE config.exists
  BY <1>0, <1>1 DEF RTypeOK, ConfigType
<1>4. config'.exists = before.config
  <2>1. config.exists \in BOOLEAN /\ before.config \in BOOLEAN
    BY <1>0 DEF RTypeOK, ConfigType, BeforeType
  <2>2. CASE config.routing = None  BY <1>0, <1>3, <2>2 DEF ConfigIsKnown
  <2>3. CASE config.routing # None
    <3>0. config.routing.created \in BOOLEAN  BY <1>0, <2>3 DEF RTypeOK, ConfigType, Records
    <3>1. CASE before.config  BY <1>0, <1>3, <2>1, <2>3, <3>0, <3>1 DEF ConfigIsKnown
    <3>2. CASE ~before.config  BY <1>0, <1>3, <2>1, <2>3, <3>0, <3>2 DEF ConfigIsKnown
    <3> QED BY <3>1, <3>2
  <2> QED BY <2>2, <2>3
<1>5. RTypeOK'
  <2>1. JobType'  BY <1>1 DEF JobType
  <2> QED BY <1>0, <1>1, <1>3, <2>1
          DEF RTypeOK, FileType, EntryType, MergedType, WorldType, BeforeType, CountType
<1>6. FilesAreKnown'  BY <1>0, <1>1, <1>2 DEF FilesAreKnown
<1>7. HooksAreKnown'  BY <1>0, <1>1, <1>2 DEF HooksAreKnown, LeadsBack
<1>8. HooksAreCarried'  BY <1>0, <1>1, <1>2 DEF HooksAreCarried
<1>9. ConfigIsKnown'  BY <1>0, <1>1, <1>3, <1>4 DEF ConfigIsKnown
<1> QED BY <1>4, <1>5, <1>6, <1>7, <1>8, <1>9 DEF RoutingInv

LEMMA KillRouting == RoutingInv /\ Kill => RoutingInv'
<1> SUFFICES ASSUME RoutingInv, Kill PROVE RoutingInv'  OBVIOUS
<1>0. RTypeOK /\ FilesAreKnown /\ HooksAreKnown /\ HooksAreCarried /\ ConfigIsKnown /\ JobType
  BY DEF RoutingInv, RTypeOK
<1> DEFINE kills == count.kills + 1
           torn == {p \in Writes : file[p] # None} \cup job.stale
           tornHooks == job.hooks.bytes # None /\ hooks # None /\ hooks # before.hooks
<1>1. /\ job # Idle /\ job' = Idle
      /\ count' = [count EXCEPT !.kills = kills]
      /\ before' = IF job.at # "files" THEN before
                   ELSE [before EXCEPT !.touched = @ \cup torn, !.hooksTouched = @ \/ tornHooks]
      /\ UNCHANGED <<file, hooks, entry, merged, config, world, router, absorbed>>
  <2>1. before' = IF job.at # "files" THEN before
                 ELSE [before EXCEPT !.touched = @ \cup {p \in Writes : file[p] # None} \cup job.stale,
                          !.hooksTouched = @ \/ tornHooks]
    BY DEF Kill
  <2>2. before.touched \cup {p \in Writes : file[p] # None} \cup job.stale = before.touched \cup torn
    OBVIOUS
  <2> QED BY <2>1, <2>2 DEF Kill
<1>2. kills \in Nat  BY <1>0 DEF RTypeOK, CountType
<1>3. job'.at = "idle" /\ job.at # "idle"  BY <1>0, <1>1, JobIs DEF Idle
<1>4. job.at = "files" => torn \in SUBSET Paths
  <2>1. SUFFICES ASSUME job.at = "files" PROVE torn \in SUBSET Paths  OBVIOUS
  <2>2. PICK over \in SUBSET Paths : job \in Enables(over)  BY <1>0, <2>1, JobIs
  <2>3. job.todo \in [over -> Outcomes] /\ job.stale \in SUBSET Skills  BY <2>2 DEF Enables
  <2> QED BY <2>3, StateIsNoSkill DEF Writes
<1>5. tornHooks \in BOOLEAN  OBVIOUS
<1>6. job.at = "files" => \A p \in Writes \cup job.stale : file[p] = None \/ p \in torn
  OBVIOUS
<1>7. job.at = "files" => \A p \in Paths : p \in Writes => p \in torn \/ file[p] = None
  OBVIOUS
<1> HIDE DEF kills, torn, tornHooks
<1>8. /\ BeforeType' /\ before'.hooks = before.hooks /\ before'.config = before.config
      /\ before.touched \subseteq before'.touched /\ (before.hooksTouched => before'.hooksTouched)
      /\ job.at = "files" => torn \subseteq before'.touched /\ (tornHooks => before'.hooksTouched)
  <2>1. CASE job.at # "files"  BY <1>0, <1>1, <2>1 DEF RTypeOK, BeforeType
  <2>2. CASE job.at = "files"
    <3>1. before' = [before EXCEPT !.touched = @ \cup torn, !.hooksTouched = @ \/ tornHooks]
      BY <1>1, <2>2
    <3> QED BY <1>0, <1>4, <1>5, <2>2, <3>1 DEF RTypeOK, BeforeType
  <2> QED BY <2>1, <2>2
<1>9. RTypeOK'
  <2>1. JobType'  BY <1>1 DEF JobType
  <2>2. CountType'  BY <1>0, <1>1, <1>2 DEF RTypeOK, CountType
  <2> QED BY <1>0, <1>1, <1>8, <2>1, <2>2
          DEF RTypeOK, FileType, EntryType, MergedType, ConfigType, WorldType
<1>10. FilesAreKnown'
  <2>1. ASSUME NEW p \in Paths \ before'.touched PROVE file[p] \in {None, entry[p]}
    BY <1>0, <1>6, <1>8 DEF FilesAreKnown
  <2> QED BY <1>1, <1>3, <2>1 DEF FilesAreKnown
<1>11. HooksAreKnown'
  <2>1. SUFFICES ASSUME ~before'.hooksTouched PROVE HooksAreKnown'  BY DEF HooksAreKnown
  <2>2. ~before.hooksTouched  BY <1>8, <2>1
  <2>3. /\ merged = None => hooks = before.hooks
        /\ merged # None => LeadsBack(merged)
        /\ merged # None /\ merged.mech = "copy" =>
              hooks \in {None, merged.sha} \/ (job.at = "files" /\ job.hooks.bytes # None)
    BY <1>0, <2>2 DEF HooksAreKnown
  <2>4. merged # None /\ merged.mech = "copy" => hooks \in {None, merged.sha}
    BY <1>8, <2>1, <2>3 DEF LeadsBack, tornHooks
  <2> QED BY <1>1, <1>3, <1>8, <2>3, <2>4 DEF HooksAreKnown, LeadsBack
<1>12. HooksAreCarried'  BY <1>0, <1>1, <1>3 DEF HooksAreCarried
<1>13. ConfigIsKnown'  BY <1>0, <1>1, <1>8 DEF ConfigIsKnown
<1> QED BY <1>9, <1>10, <1>11, <1>12, <1>13 DEF RoutingInv

LEMMA StepRouting == RoutingInv /\ [RNext]_rVars => RoutingInv'
<1> SUFFICES ASSUME RoutingInv, [RNext]_rVars PROVE RoutingInv'  OBVIOUS
<1>1. CASE RStep
  <2>1. CASE EnableRecords  BY <2>1, EnableRecordsRouting
  <2>2. CASE EnableWrites  BY <2>2, EnableWritesRouting
  <2>3. CASE EnableDrops  BY <2>3, EnableDropsRouting
  <2>4. CASE EnableHooks  BY <2>4, EnableHooksRouting
  <2>5. CASE EnableConfig  BY <2>5, EnableConfigRouting
  <2>6. CASE DisableFile  BY <2>6, DisableFileRouting
  <2>7. CASE DisableHooks  BY <2>7, DisableHooksRouting
  <2>8. CASE DisableRecords  BY <2>8, DisableRecordsRouting
  <2>9. CASE DisableConfig  BY <2>9, DisableConfigRouting
  <2> QED BY <1>1, <2>1, <2>2, <2>3, <2>4, <2>5, <2>6, <2>7, <2>8, <2>9 DEF RStep
<1>2. ASSUME NEW measured \in BOOLEAN, BeginEnable(measured) PROVE RoutingInv'
  BY <1>2, BeginEnableRouting
<1>3. CASE BeginDisable  BY <1>3, BeginDisableRouting
<1>4. CASE Kill  BY <1>4, KillRouting
<1>5. ASSUME NEW p \in Prompts, Prompt(p) PROVE RoutingInv'  BY <1>5, PromptRouting
<1>6. CASE Budget \/ Squeeze \/ Answer
  BY <1>6, RoutesRouting DEF Budget, Squeeze, Answer
<1>7. ASSUME NEW p \in Skills, NEW c \in {None, Edited, Garbled, Odd}, EditFile(p, c)
      PROVE  RoutingInv'
  BY <1>7, EditFileRouting
<1>8. ASSUME NEW d \in UserDocs \cup {None, Garbled, Odd}, EditHooks(d) PROVE RoutingInv'
  BY <1>8, EditHooksRouting
<1>9. CASE AddKey  BY <1>9, AddKeyRouting
<1> DEFINE Worlds == [release : Releases, program : Programs, size : Sizes, trusted : BOOLEAN]
<1>10. world \in Worlds  BY DEF RoutingInv, RTypeOK, WorldType
<1>11. CASE Upgrade
  <2> DEFINE r == world.release + 1
  <2>1. r \in Releases /\ TheWorld([world EXCEPT !.release = r])  BY <1>11 DEF Upgrade
  <2> HIDE DEF r
  <2>2. [world EXCEPT !.release = r] \in Worlds  BY <1>10, <2>1
  <2> QED BY <2>1, <2>2, WorldRouting
<1>12. CASE Retrust
  <2> DEFINE t == ~world.trusted
  <2>1. TheWorld([world EXCEPT !.trusted = t])  BY <1>12 DEF Retrust
  <2>2. t \in BOOLEAN  BY <1>10
  <2> HIDE DEF t
  <2>3. [world EXCEPT !.trusted = t] \in Worlds  BY <1>10, <2>2
  <2> QED BY <2>1, <2>3, WorldRouting
<1>13. ASSUME NEW p \in Programs, Move(p) PROVE RoutingInv'
  <2>1. TheWorld([world EXCEPT !.program = p])  BY <1>13 DEF Move
  <2>2. [world EXCEPT !.program = p] \in Worlds  BY <1>10
  <2> QED BY <2>1, <2>2, WorldRouting
<1>14. ASSUME NEW n \in Sizes, Resize(n) PROVE RoutingInv'
  <2>1. TheWorld([world EXCEPT !.size = n])  BY <1>14 DEF Resize
  <2>2. [world EXCEPT !.size = n] \in Worlds  BY <1>10
  <2> QED BY <2>1, <2>2, WorldRouting
<1>15. CASE UNCHANGED rVars  BY <1>15, StutterRouting
<1> QED
  BY <1>1, <1>2, <1>3, <1>4, <1>5, <1>6, <1>7, <1>8, <1>9, <1>11, <1>12, <1>13, <1>14, <1>15
  DEF RNext

-----------------------------------------------------------------------------
\* Routing: the theorems.

\* Between any two steps of enable and disable, whatever releases, edits and
\* kills came before, the ledger knows every file of the library that nobody
\* touched, its entry of hooks.json leads back to the file from before omm, and
\* config.json says whether enable made it (routing_enable.rs).
THEOREM RoutingIsKnown == RoutingSpec => []RoutingInv
<1>1. RInit => RoutingInv  BY InitRouting
<1>2. RoutingInv /\ [RNext]_rVars => RoutingInv'  BY StepRouting
<1> QED BY <1>1, <1>2, PTL DEF RoutingSpec

\* Which steps of a command change hooks.json.
LEMMA HooksMove ==
    ASSUME RoutingInv, [RNext]_rVars, job # Idle, hooks' # hooks, count.edits = count'.edits
    PROVE  EnableHooks \/ DisableHooks
<1>0. CountType  BY DEF RoutingInv, RTypeOK
<1>1. ASSUME NEW d \in UserDocs \cup {None, Garbled, Odd}, EditHooks(d) PROVE FALSE
  BY <1>0, <1>1, ChangeCounts DEF EditHooks
<1>2. ~UNCHANGED hooks  OBVIOUS
<1>3. ASSUME RStep PROVE EnableHooks \/ DisableHooks
  BY <1>2, <1>3 DEF RStep, EnableRecords, EnableWrites, EnableDrops, EnableConfig, DisableFile,
                    DisableRecords, DisableConfig
<1>4. ASSUME NEW measured \in BOOLEAN, BeginEnable(measured) PROVE FALSE
  BY <1>2, <1>4 DEF BeginEnable
<1>5. ~BeginDisable /\ ~Kill /\ ~Budget /\ ~Squeeze /\ ~Answer /\ ~AddKey
  BY <1>2 DEF BeginDisable, Kill, Budget, Squeeze, Answer, Routes, AddKey
<1>6. ASSUME NEW p \in Prompts, Prompt(p) PROVE FALSE  BY <1>2, <1>6 DEF Prompt
<1>7. ASSUME NEW p \in Skills, NEW c \in {None, Edited, Garbled, Odd}, EditFile(p, c) PROVE FALSE
  BY <1>2, <1>7 DEF EditFile
<1>8. \A w : ~TheWorld(w)  BY <1>2 DEF TheWorld
<1>9. ~Upgrade /\ ~Retrust /\ (\A p : ~Move(p)) /\ (\A n : ~Resize(n))
  BY <1>8 DEF Upgrade, Retrust, Move, Resize
<1>10. ~UNCHANGED rVars  BY <1>2 DEF rVars
<1> QED BY <1>1, <1>3, <1>4, <1>5, <1>6, <1>7, <1>9, <1>10 DEF RNext

\* No enable and no disable takes a hook of the user's out of hooks.json that
\* was there when it began, short of a file omm made and recorded again as its
\* own with the user's hooks in it (routing_enable.rs, hooks_plan and undo).
THEOREM HooksAreSpared == RoutingSpec => HooksSurvive
<1>1. ASSUME RoutingInv, [RNext]_rVars, job # Idle, ~absorbed, hooks' # hooks,
             count.edits = count'.edits
      PROVE  HooksOf(job.seen) \cap HooksOf(hooks) \subseteq HooksOf(hooks')
  <2>0. RTypeOK /\ HooksAreCarried /\ JobType  BY <1>1 DEF RoutingInv, RTypeOK
  <2>1. EnableHooks \/ DisableHooks  BY <1>1, HooksMove
  <2>2. CASE EnableHooks
    <3>1. job.at = "files" /\ job.hooks.bytes # None /\ hooks' = job.hooks.bytes
      BY <1>1, <2>2 DEF EnableHooks
    <3>2. job.hooks \in Plans  BY <2>0, <3>1, JobIs DEF Enables
    <3>3. hooks' \in HookDocs /\ hooks'.user = HooksOf(job.seen)
      BY <2>0, <3>1, <3>2 DEF HooksAreCarried, Plans
    <3>4. HooksOf(hooks') = hooks'.user  BY <3>3, RoutingAssumption DEF HooksOf
    <3> QED BY <3>3, <3>4
  <2>3. CASE DisableHooks
    <3>1. merged # None /\ hooks' = Undone(merged).file
      BY <1>1, <2>3 DEF DisableHooks
    <3>2. merged \in Merges /\ hooks \in HookValues  BY <2>0, <3>1 DEF RTypeOK, MergedType
    <3>3. CASE merged.mech = "copy" /\ hooks = merged.sha
      <4>1. hooks.user = {}  BY <1>1, <2>0, <3>1, <3>3 DEF HooksAreCarried
      <4>2. HooksOf(hooks) = {}  BY <4>1 DEF HooksOf
      <4> QED BY <4>2
    <3>4. CASE ~(merged.mech = "copy" /\ hooks = merged.sha)
      <4>1. HooksOf(hooks') = HooksOf(hooks)  BY <3>1, <3>2, <3>4, UndoneIs
      <4> QED BY <4>1
    <3> QED BY <3>3, <3>4
  <2> QED BY <2>1, <2>2, <2>3
<1>2. RoutingInv /\ [RNext]_rVars =>
          [job # Idle /\ ~absorbed /\ hooks' # hooks /\ count.edits = count'.edits
             => HooksOf(job.seen) \cap HooksOf(hooks) \subseteq HooksOf(hooks')]_rVars
  BY <1>1
<1>3. RoutingSpec => []RoutingInv  BY RoutingIsKnown
<1> QED BY <1>2, <1>3, PTL DEF RoutingSpec, HooksSurvive

\* A disable that ends, rather than being killed, ends in its last step.
LEMMA UnsetEnds ==
    ASSUME RoutingInv, [RNext]_rVars, job.at = "unset", job' = Idle, count.kills = count'.kills
    PROVE  DisableConfig
<1>0. CountType /\ job # Idle  BY DEF RoutingInv, RTypeOK, Idle
<1>1. ~UNCHANGED job  BY <1>0
<1>2. ASSUME RStep PROVE DisableConfig
  BY <1>2 DEF RStep, EnableRecords, EnableWrites, EnableDrops, EnableHooks, EnableConfig, DisableFile,
              DisableHooks, DisableRecords
<1>3. ~Kill
  <2>1. ASSUME Kill PROVE FALSE
    <3> DEFINE kills == count.kills + 1
    <3>1. count' = [count EXCEPT !.kills = kills] /\ count.kills \in Nat
      BY <1>0, <2>1 DEF Kill, CountType
    <3>2. kills # count.kills  BY <3>1
    <3> HIDE DEF kills
    <3>3. count'.kills = kills  BY <1>0, <3>1 DEF CountType
    <3> QED BY <3>2, <3>3
  <2> QED BY <2>1
<1>4. ASSUME NEW measured \in BOOLEAN, BeginEnable(measured) PROVE FALSE
  BY <1>0, <1>4 DEF BeginEnable
<1>5. ~BeginDisable /\ ~Budget /\ ~Squeeze /\ ~Answer
  BY <1>0, <1>1 DEF BeginDisable, Budget, Squeeze, Answer, Routes
<1>6. ~Change  BY <1>1 DEF Change
<1>7. \A w : ~TheWorld(w)  BY <1>6 DEF TheWorld
<1>8. ~Upgrade /\ ~Retrust /\ (\A p : ~Move(p)) /\ (\A n : ~Resize(n)) /\ ~AddKey
      /\ (\A p : ~Prompt(p))
  BY <1>1, <1>6, <1>7 DEF Upgrade, Retrust, Move, Resize, AddKey, Prompt
<1>9. (\A p, c : ~EditFile(p, c)) /\ (\A d : ~EditHooks(d))
  BY <1>6 DEF EditFile, EditHooks
<1>10. ~UNCHANGED rVars  BY <1>1 DEF rVars
<1> QED BY <1>2, <1>3, <1>4, <1>5, <1>8, <1>9, <1>10 DEF RNext

\* A disable that ends leaves hooks.json and config.json as they were before
\* omm came, and none of its files, whatever releases and kills came between,
\* except for what the user touched and what a kill tore (routing_enable.rs,
\* disable).
THEOREM DisablePutsBack == RoutingSpec => DisableRestores
<1>1. ASSUME RoutingInv, [RNext]_rVars, job.at = "unset", job' = Idle, count.kills = count'.kills
      PROVE  /\ ~before.hooksTouched => hooks = before.hooks
             /\ config'.exists = before.config
             /\ \A p \in Paths \ before.touched : file[p] = None
  <2>1. DisableConfig  BY <1>1, UnsetEnds
  <2>2. config'.exists = before.config  BY <1>1, <2>1, DisableConfigRouting
  <2>3. ~before.hooksTouched => hooks = before.hooks  BY <1>1 DEF RoutingInv, HooksAreKnown
  <2>4. \A p \in Paths \ before.touched : file[p] = None  BY <1>1 DEF RoutingInv, FilesAreKnown
  <2> QED BY <2>2, <2>3, <2>4
<1>2. RoutingInv /\ [RNext]_rVars =>
          [job.at = "unset" /\ job' = Idle /\ count.kills = count'.kills =>
             /\ ~before.hooksTouched => hooks = before.hooks
             /\ config'.exists = before.config
             /\ \A p \in Paths \ before.touched : file[p] = None]_rVars
  BY <1>1
<1>3. RoutingSpec => []RoutingInv  BY RoutingIsKnown
<1> QED BY <1>2, <1>3, PTL DEF RoutingSpec, DisableRestores

-----------------------------------------------------------------------------
(* Routing: sums.                                                          *)

SumsBody(ns, f, k) == IF k = 0 THEN 0 ELSE f[k - 1] + ns[k]

\* Induction, in the form in which the lemmas below need it: a set that has 0,
\* and with a number the next one, has all of them.
LEMMA Upward ==
    ASSUME NEW n \in Nat, NEW good \in SUBSET (0..n), 0 \in good,
           \A k \in 0..(n - 1) : k \in good => k + 1 \in good
    PROVE  good = 0..n
<1> DEFINE bad == (0..n) \ good
<1>1. SUFFICES ASSUME bad # {} PROVE FALSE  OBVIOUS
<1>2. PICK m \in bad : \A j \in bad : m <= j
  <2>1. bad \in SUBSET Nat  OBVIOUS
  <2> HIDE DEF bad
  <2> QED BY <1>1, <2>1, Least
<1>3. m # 0 /\ m \in 1..n  BY <1>2
<1>4. m - 1 \in 0..(n - 1) /\ m - 1 \notin bad  BY <1>2, <1>3
<1>5. (m - 1) + 1 \in good  BY <1>4
<1> QED BY <1>2, <1>3, <1>5

\* Sums are what their recursion says.
LEMMA SumsAre ==
    ASSUME NEW ns, NEW n \in Nat, NEW p \in 0..n
    PROVE  Sums(ns, n)[p] = SumsBody(ns, Sums(ns, n), p)
<1> DEFINE Part(k) == \E g : g = [i \in 0..k |-> SumsBody(ns, g, i)]
           good == {j \in 0..n : Part(j)}
<1>1. Part(0)
  <2>1. [i \in 0..0 |-> 0] = [i \in 0..0 |-> SumsBody(ns, [j \in 0..0 |-> 0], i)]
    BY DEF SumsBody
  <2> QED BY <2>1
<1>2. ASSUME NEW k \in 0..(n - 1), Part(k) PROVE Part(k + 1)
  <2>1. PICK g : g = [i \in 0..k |-> SumsBody(ns, g, i)]  BY <1>2
  <2> DEFINE h == [i \in 0..(k + 1) |-> IF i = k + 1 THEN SumsBody(ns, g, k + 1) ELSE g[i]]
  <2>2. \A i \in 0..k : h[i] = g[i]  OBVIOUS
  <2>3. \A i \in 0..(k + 1) : SumsBody(ns, h, i) = SumsBody(ns, g, i)
    <3>1. SUFFICES ASSUME NEW i \in 0..(k + 1) PROVE SumsBody(ns, h, i) = SumsBody(ns, g, i)
      OBVIOUS
    <3>2. i > 0 => h[i - 1] = g[i - 1]  BY <2>2
    <3> HIDE DEF h
    <3> QED BY <3>2 DEF SumsBody
  <2>4. \A i \in 0..(k + 1) : h[i] = SumsBody(ns, g, i)
    <3>1. \A i \in 0..k : g[i] = SumsBody(ns, g, i)  BY <2>1
    <3> QED BY <2>2, <3>1
  <2>5. h = [i \in 0..(k + 1) |-> h[i]]  OBVIOUS
  <2> HIDE DEF h
  <2>6. h = [i \in 0..(k + 1) |-> SumsBody(ns, h, i)]  BY <2>3, <2>4, <2>5
  <2> QED BY <2>6
<1>3. Part(n)
  <2>1. good \in SUBSET (0..n) /\ 0 \in good  BY <1>1
  <2>2. \A k \in 0..(n - 1) : k \in good => k + 1 \in good  BY <1>2
  <2>3. good = 0..n
    <3> HIDE DEF good
    <3> QED BY <2>1, <2>2, Upward
  <2> QED BY <2>3
<1>4. Sums(ns, n) = CHOOSE g : g = [i \in 0..n |-> SumsBody(ns, g, i)]
  BY DEF Sums, SumsBody
<1>5. Sums(ns, n) = [i \in 0..n |-> SumsBody(ns, Sums(ns, n), i)]
  BY <1>3, <1>4, Zenon
<1> QED BY <1>5

\* The next sum has one number more.
LEMMA SumsStep ==
    ASSUME NEW ns, NEW n \in Nat
    PROVE  /\ Sums(ns, n)[0] = 0
           /\ \A k \in 1..n : Sums(ns, n)[k] = Sums(ns, n)[k - 1] + ns[k]
<1>1. Sums(ns, n)[0] = 0  BY SumsAre DEF SumsBody
<1>2. ASSUME NEW k \in 1..n PROVE Sums(ns, n)[k] = Sums(ns, n)[k - 1] + ns[k]
  <2>1. k \in 0..n /\ k # 0  OBVIOUS
  <2> QED BY <2>1, SumsAre DEF SumsBody
<1> QED BY <1>1, <1>2

\* Sums of numbers are numbers, and grow.
LEMMA SumsRise ==
    ASSUME NEW ns, NEW n \in Nat, \A i \in 1..n : ns[i] \in Nat
    PROVE  /\ \A k \in 0..n : Sums(ns, n)[k] \in Nat
           /\ \A k, j \in 0..n : j <= k => Sums(ns, n)[j] <= Sums(ns, n)[k]
           /\ Total(ns, n) \in Nat
<1> DEFINE u == Sums(ns, n)
           good == {k \in 0..n : u[k] \in Nat}
           high == {k \in 0..n : \A j \in 0..k : u[j] <= u[k]}
<1>1. u[0] = 0 /\ \A k \in 1..n : u[k] = u[k - 1] + ns[k]  BY SumsStep
<1> HIDE DEF u
<1>2. good = 0..n
  <2>1. good \in SUBSET (0..n) /\ 0 \in good  BY <1>1
  <2>2. ASSUME NEW k \in 0..(n - 1), k \in good PROVE k + 1 \in good
    <3>1. u[k + 1] = u[k] + ns[k + 1] /\ k + 1 \in 1..n  BY <1>1
    <3> QED BY <2>2, <3>1
  <2> HIDE DEF good
  <2> QED BY <2>1, <2>2, Upward
<1>3. \A k \in 0..n : u[k] \in Nat  BY <1>2
<1>4. high = 0..n
  <2>1. high \in SUBSET (0..n) /\ 0 \in high  BY <1>1
  <2>2. ASSUME NEW k \in 0..(n - 1), k \in high PROVE k + 1 \in high
    <3>1. u[k + 1] = u[k] + ns[k + 1] /\ k + 1 \in 1..n /\ k \in 0..n  BY <1>1
    <3>2. u[k] \in Nat /\ u[k + 1] \in Nat /\ u[k] <= u[k + 1]  BY <1>3, <3>1
    <3>3. ASSUME NEW j \in 0..(k + 1) PROVE u[j] <= u[k + 1]
      <4>1. CASE j = k + 1  BY <3>2, <4>1
      <4>2. CASE j \in 0..k
        <5>1. u[j] <= u[k] /\ j \in 0..n  BY <2>2, <4>2
        <5> QED BY <1>3, <3>2, <5>1
      <4> QED BY <4>1, <4>2
    <3> QED BY <3>1, <3>3
  <2> HIDE DEF high
  <2> QED BY <2>1, <2>2, Upward
<1>5. ASSUME NEW k \in 0..n, NEW j \in 0..n, j <= k PROVE u[j] <= u[k]
  <2>1. k \in high /\ j \in 0..k  BY <1>4, <1>5
  <2> QED BY <2>1
<1> QED BY <1>3, <1>5 DEF u, Total

\* Sums of the same numbers are the same.
LEMMA SumsAgree ==
    ASSUME NEW ns, NEW ms, NEW n \in Nat, NEW m \in Nat, NEW k \in Nat, k <= n, k <= m,
           \A i \in 1..k : ns[i] = ms[i]
    PROVE  Sums(ns, n)[k] = Sums(ms, m)[k]
<1> DEFINE u == Sums(ns, n)
           v == Sums(ms, m)
           good == {i \in 0..k : u[i] = v[i]}
<1>1. /\ u[0] = 0 /\ \A i \in 1..n : u[i] = u[i - 1] + ns[i]
      /\ v[0] = 0 /\ \A i \in 1..m : v[i] = v[i - 1] + ms[i]
  BY SumsStep
<1> HIDE DEF u, v
<1>2. good \in SUBSET (0..k) /\ 0 \in good  BY <1>1
<1>3. ASSUME NEW i \in 0..(k - 1), i \in good PROVE i + 1 \in good
  <2>1. i + 1 \in 1..k /\ i + 1 \in 1..n /\ i + 1 \in 1..m  OBVIOUS
  <2>2. u[i + 1] = u[i] + ns[i + 1] /\ v[i + 1] = v[i] + ms[i + 1]
    <3>1. (i + 1) - 1 = i  OBVIOUS
    <3> QED BY <1>1, <2>1, <3>1
  <2> QED BY <1>3, <2>1, <2>2
<1>4. good = 0..k
  <2> HIDE DEF good
  <2> QED BY <1>2, <1>3, Upward
<1> QED BY <1>4 DEF u, v

\* One number replaced: the sum moves by the difference.
LEMMA SumsReplace ==
    ASSUME NEW ns, NEW ms, NEW n \in Nat, NEW p \in 1..n,
           \A i \in 1..n : ns[i] \in Nat, \A i \in 1..n : ms[i] \in Nat,
           \A i \in 1..n : i # p => ms[i] = ns[i]
    PROVE  Total(ms, n) + ns[p] = Total(ns, n) + ms[p]
<1> DEFINE u == Sums(ns, n)
           v == Sums(ms, n)
           good == {i \in 0..(n - p) : v[p + i] + ns[p] = u[p + i] + ms[p]}
<1>1. /\ \A i \in 1..n : u[i] = u[i - 1] + ns[i]
      /\ \A i \in 1..n : v[i] = v[i - 1] + ms[i]
  BY SumsStep
<1>2. \A i \in 0..n : u[i] \in Nat /\ v[i] \in Nat  BY SumsRise
<1>3. u[p - 1] = v[p - 1]
  <2>1. p - 1 \in Nat /\ p - 1 <= n /\ \A i \in 1..(p - 1) : ns[i] = ms[i]  OBVIOUS
  <2> QED BY <2>1, SumsAgree
<1> HIDE DEF u, v
<1>4. p - 1 \in 0..n /\ n - p \in Nat /\ ns[p] \in Nat /\ ms[p] \in Nat  OBVIOUS
<1>5. good \in SUBSET (0..(n - p)) /\ 0 \in good
  <2>1. p + 0 = p  OBVIOUS
  <2>2. v[p] + ns[p] = u[p] + ms[p]  BY <1>1, <1>2, <1>3, <1>4
  <2> QED BY <1>4, <2>1, <2>2
<1>6. ASSUME NEW i \in 0..(n - p - 1), i \in good PROVE i + 1 \in good
  <2> DEFINE q == p + i
  <2>1. q + 1 \in 1..n /\ q \in 0..n /\ q + 1 # p /\ i + 1 \in 0..(n - p) /\ p + (i + 1) = q + 1
    OBVIOUS
  <2>2. u[q + 1] = u[q] + ns[q + 1] /\ v[q + 1] = v[q] + ms[q + 1]
    <3>1. (q + 1) - 1 = q  OBVIOUS
    <3> QED BY <1>1, <2>1, <3>1
  <2>3. ms[q + 1] = ns[q + 1] /\ ns[q + 1] \in Nat  BY <2>1
  <2>4. v[q] + ns[p] = u[q] + ms[p]  BY <1>6
  <2>5. u[q] \in Nat /\ v[q] \in Nat  BY <1>2, <2>1
  <2> HIDE DEF q
  <2>6. v[q + 1] + ns[p] = u[q + 1] + ms[p]  BY <1>4, <2>2, <2>3, <2>4, <2>5
  <2> QED BY <2>1, <2>6
<1>7. good = 0..(n - p)
  <2> HIDE DEF good
  <2> QED BY <1>4, <1>5, <1>6, Upward
<1>8. n - p \in good /\ p + (n - p) = n  BY <1>4, <1>7
<1> QED BY <1>8 DEF u, v, Total

-----------------------------------------------------------------------------
(* Routing: the bytes of descriptions and blocks.                          *)

Texts == Seq(Words)
Entries == [id : Skills, desc : Texts]

\* Every word has bytes and a cost.
LEMMA WordIs == ASSUME NEW w \in Words PROVE w.bytes \in Nat /\ w.bytes * w.weight \in Nat
<1>1. w.bytes \in Nat /\ w.weight \in Nat  BY DEF Words
<1>2. \A a, b \in Nat : a * b \in Nat  OBVIOUS
<1> QED BY <1>1, <1>2, Zenon

LEMMA TextIs ==
    ASSUME NEW d \in Texts
    PROVE  RawBytes(d) \in Nat /\ Cost(d) \in Nat /\ EntryBytes(d) \in Nat
<1> DEFINE bytes == [i \in DOMAIN d |-> d[i].bytes]
           costs == [i \in DOMAIN d |-> d[i].bytes * d[i].weight]
           n == Len(d)
<1>1. n \in Nat /\ DOMAIN d = 1..n /\ \A i \in 1..n : d[i] \in Words  BY DEF Texts
<1>2. \A i \in 1..n : bytes[i] \in Nat /\ costs[i] \in Nat  BY <1>1, WordIs
<1>3. Blanks(d) \in Nat
  <2>1. d # <<>> => n # 0  BY DEF Texts
  <2> QED BY <1>1, <2>1 DEF Blanks
<1> HIDE DEF bytes, costs, n
<1>4. Total(bytes, n) \in Nat /\ Total(costs, n) \in Nat  BY <1>1, <1>2, SumsRise
<1>5. RawBytes(d) = Total(bytes, n) + Blanks(d) /\ Cost(d) = Total(costs, n) + Blanks(d)
  BY DEF RawBytes, Cost, bytes, costs, n
<1>6. RawBytes(d) \in Nat /\ Cost(d) \in Nat  BY <1>3, <1>4, <1>5
<1> QED BY <1>6, BudgetAssumption DEF EntryBytes

\* The costs of the entries of a selection.
Costs(sel) == [i \in DOMAIN sel |-> EntryBytes(sel[i].desc)]

LEMMA CostsAre ==
    ASSUME NEW sel \in Seq(Entries)
    PROVE  Len(sel) \in Nat /\ \A i \in 1..Len(sel) : Costs(sel)[i] \in Nat
<1>1. SUFFICES ASSUME NEW i \in 1..Len(sel) PROVE Costs(sel)[i] \in Nat  OBVIOUS
<1>2. sel[i] \in Entries /\ i \in DOMAIN sel  OBVIOUS
<1>3. sel[i].desc \in Texts  BY <1>2 DEF Entries
<1> QED BY <1>2, <1>3, TextIs DEF Costs

LEMMA BlockIs ==
    ASSUME NEW sel \in Seq(Entries)
    PROVE  /\ Block(sel) \in Nat
           /\ sel # <<>> => Block(sel) > 0 /\ Block(sel) = Frame + Total(Costs(sel), Len(sel))
<1>1. Total(Costs(sel), Len(sel)) \in Nat  BY CostsAre, SumsRise
<1>2. Frame \in Nat \ {0}  BY BudgetAssumption
<1>3. Block(sel) = IF sel = <<>> THEN 0 ELSE Frame + Total(Costs(sel), Len(sel))
  BY DEF Block, Costs
<1> QED BY <1>1, <1>2, <1>3

\* Of a number of positions one is the last.
LEMMA LastOf ==
    ASSUME NEW n \in Nat, NEW some \in SUBSET (0..n), some # {}
    PROVE  Max(some) \in some
<1> DEFINE back == {n - i : i \in some}
<1>1. back \in SUBSET Nat /\ back # {}
  <2>1. \A i \in some : n - i \in Nat  OBVIOUS
  <2> QED BY <2>1
<1>2. PICK b \in back : \A c \in back : b <= c
  <2> HIDE DEF back
  <2> QED BY <1>1, Least
<1>3. PICK m \in some : b = n - m  BY <1>2
<1>4. \A i \in some : m >= i
  <2>1. SUFFICES ASSUME NEW i \in some PROVE m >= i  OBVIOUS
  <2>2. n - m <= n - i  BY <1>2, <1>3
  <2> QED BY <2>2
<1>5. \E x \in some : \A y \in some : x >= y  BY <1>4
<1> QED BY <1>5, Zenon DEF Max

\* A description that is cut is one still.
LEMMA TrimmedIs ==
    ASSUME NEW d \in Texts, NEW max \in Nat
    PROVE  Trimmed(d, max) \in Texts \cup {None}
<1> DEFINE whole  == {j \in 0 .. Len(d) - 1 : RawBytes(SubSeq(d, 1, j)) < max}
           j      == Max(whole)
           prefix == SubSeq(d, 1, j)
           rest   == max - RawBytes(prefix) - (IF j = 0 THEN 0 ELSE 1)
           cut    == IF RawBytes(prefix) >= DescMin \/ rest = 0 THEN prefix
                     ELSE Append(prefix, [d[j + 1] EXCEPT !.bytes = rest])
<1>1. Trimmed(d, max) = IF RawBytes(d) <= max THEN d
                        ELSE IF max < DescMin \/ RawBytes(cut) < DescMin THEN None ELSE cut
  BY DEF Trimmed
<1>2. SUFFICES ASSUME ~(RawBytes(d) <= max), ~(max < DescMin) PROVE cut \in Texts
  <2> HIDE DEF cut
  <2> QED BY <1>1, <1>2
<1>3. max \in Nat \ {0}  BY <1>2, BudgetAssumption
<1>4. Len(d) \in Nat /\ d # <<>> /\ \A i \in 1..Len(d) : d[i] \in Words
  <2>1. Len(d) \in Nat /\ \A i \in 1..Len(d) : d[i] \in Words  BY DEF Texts
  <2>2. ASSUME d = <<>> PROVE FALSE
    <3>1. RawBytes(d) = 0
      <4>1. Len(d) = 0 /\ Blanks(d) = 0  BY <2>2 DEF Blanks
      <4> DEFINE bytes == [i \in DOMAIN d |-> d[i].bytes]
      <4>2. RawBytes(d) = Total(bytes, Len(d)) + Blanks(d)  BY DEF RawBytes
      <4> HIDE DEF bytes
      <4>3. Total(bytes, 0) = 0  BY SumsStep DEF Total
      <4> QED BY <4>1, <4>2, <4>3
    <3> QED BY <1>2, <3>1
  <2> QED BY <2>1, <2>2
<1>5. 0 \in whole
  <2>1. SubSeq(d, 1, 0) = <<>>  BY SubSeqEmpty
  <2> DEFINE bytes == [i \in DOMAIN <<>> |-> <<>>[i].bytes]
  <2>2. RawBytes(<<>>) = Total(bytes, Len(<<>>)) + Blanks(<<>>)  BY DEF RawBytes
  <2> HIDE DEF bytes
  <2>3. Total(bytes, 0) = 0  BY SumsStep DEF Total
  <2>4. RawBytes(<<>>) = 0
    <3>1. Len(<<>>) = 0 /\ Blanks(<<>>) = 0  BY DEF Blanks
    <3> QED BY <2>2, <2>3, <3>1
  <2>5. 0 \in 0 .. Len(d) - 1  BY <1>4 DEF Texts
  <2>6. RawBytes(SubSeq(d, 1, 0)) < max
    <3>1. RawBytes(SubSeq(d, 1, 0)) = 0  BY ONLY <2>1, <2>4, Zenon
    <3> HIDE DEF whole, j, prefix, rest, cut
    <3> QED BY ONLY <1>3, <3>1
  <2> HIDE DEF j, prefix, rest, cut
  <2> QED BY ONLY <2>5, <2>6, Zenon
<1>6. j \in whole
  <2>1. Len(d) - 1 \in Nat /\ whole \in SUBSET (0 .. Len(d) - 1)  BY <1>4 DEF Texts
  <2> HIDE DEF whole
  <2> QED BY <1>5, <2>1, LastOf
<1> HIDE DEF j
<1>7. j \in Nat /\ j + 1 \in 1 .. Len(d) /\ RawBytes(prefix) < max  BY <1>4, <1>6
<1>8. prefix \in Texts
  <2>1. \A i \in 1..j : d[i] \in Words  BY <1>4, <1>7
  <2> QED BY <1>7, <2>1, SubSeqProperties DEF Texts
<1>9. RawBytes(prefix) \in Nat  BY <1>8, TextIs
<1> HIDE DEF prefix
<1>10. rest \in Nat  BY <1>7, <1>9
<1> HIDE DEF rest
<1>11. [d[j + 1] EXCEPT !.bytes = rest] \in Words  BY <1>4, <1>7, <1>10 DEF Words
<1> QED BY <1>8, <1>11 DEF Texts

\* What is squeezed is a selection still.
LEMMA SqueezedIs ==
    ASSUME NEW sel \in Seq(Entries), NEW room \in Nat, ~Fits(sel, room)
    PROVE  Squeezed(sel, room) \in Seq(Entries)
<1> DEFINE over   == Block(sel) - room
           cut(i) == Trimmed(sel[i].desc, Monus(Cost(sel[i].desc), over))
           able   == {i \in DOMAIN sel : cut(i) # None /\ RawBytes(cut(i)) < RawBytes(sel[i].desc)}
<1>1. Squeezed(sel, room) =
        IF able = {} THEN Front(sel) ELSE [sel EXCEPT ![Max(able)].desc = cut(Max(able))]
  BY DEF Squeezed
<1>2. sel # <<>> /\ over \in Nat  BY BlockIs DEF Fits
<1>3. Front(sel) \in Seq(Entries)
  <2>1. Len(sel) - 1 \in Int /\ \A i \in 1 .. Len(sel) - 1 : sel[i] \in Entries  OBVIOUS
  <2> QED BY <2>1, SubSeqProperties DEF Front
<1>4. ASSUME able # {} PROVE [sel EXCEPT ![Max(able)].desc = cut(Max(able))] \in Seq(Entries)
  <2>1. Len(sel) \in Nat /\ able \in SUBSET (0 .. Len(sel))  OBVIOUS
  <2>2. Max(able) \in able
    <3> HIDE DEF able
    <3> QED BY <1>4, <2>1, LastOf
  <2>3. PICK m \in 1 .. Len(sel) : m = Max(able) /\ cut(m) # None
    <3>1. \A i \in able : i \in 1 .. Len(sel) /\ cut(i) # None  OBVIOUS
    <3> HIDE DEF able, cut
    <3> QED BY <2>2, <3>1
  <2>4. sel[m] \in Entries /\ sel[m].desc \in Texts
    <3>1. sel[m] \in Entries  BY ElementOfSeq
    <3> QED BY ONLY <3>1 DEF Entries
  <2>5. Monus(Cost(sel[m].desc), over) \in Nat
    <3> HIDE DEF over
    <3>1. Cost(sel[m].desc) \in Nat  BY <2>4, TextIs
    <3> QED BY <1>2, <3>1 DEF Monus
  <2>6. cut(m) \in Texts
    <3>1. cut(m) \in Texts \cup {None}
      <4> HIDE DEF over
      <4> QED BY <2>4, <2>5, TrimmedIs
    <3> HIDE DEF cut
    <3> QED BY <2>3, <3>1
  <2> HIDE DEF cut, able
  <2>7. [sel[m] EXCEPT !.desc = cut(m)] \in Entries  BY <2>4, <2>6 DEF Entries
  <2>8. [sel EXCEPT ![m].desc = cut(m)] \in Seq(Entries)  BY <2>3, <2>7
  <2> QED BY <2>3, <2>8
<1> HIDE DEF able, cut
<1> QED BY <1>1, <1>3, <1>4

TakenBody(sel, f, k) ==
    IF k = 0 THEN <<>>
    ELSE IF file[sel[k].id] \in {None, Odd} THEN f[k - 1] ELSE Append(f[k - 1], sel[k])
Takes(sel) == CHOOSE f : f = [k \in 0..Len(sel) |-> TakenBody(sel, f, k)]

LEMMA TakesAre ==
    ASSUME NEW sel, Len(sel) \in Nat, NEW p \in 0..Len(sel)
    PROVE  Takes(sel)[p] = TakenBody(sel, Takes(sel), p)
<1> DEFINE n == Len(sel)
           Part(k) == \E g : g = [i \in 0..k |-> TakenBody(sel, g, i)]
           good == {j \in 0..n : Part(j)}
<1>1. Part(0)
  <2>1. [i \in 0..0 |-> <<>>] = [i \in 0..0 |-> TakenBody(sel, [j \in 0..0 |-> <<>>], i)]
    BY DEF TakenBody
  <2> QED BY <2>1
<1>2. ASSUME NEW k \in 0..(n - 1), Part(k) PROVE Part(k + 1)
  <2>1. PICK g : g = [i \in 0..k |-> TakenBody(sel, g, i)]  BY <1>2
  <2> DEFINE h == [i \in 0..(k + 1) |-> IF i = k + 1 THEN TakenBody(sel, g, k + 1) ELSE g[i]]
  <2>2. \A i \in 0..k : h[i] = g[i]  OBVIOUS
  <2>3. \A i \in 0..(k + 1) : TakenBody(sel, h, i) = TakenBody(sel, g, i)
    <3>1. SUFFICES ASSUME NEW i \in 0..(k + 1) PROVE TakenBody(sel, h, i) = TakenBody(sel, g, i)
      OBVIOUS
    <3>2. i > 0 => h[i - 1] = g[i - 1]  BY <2>2
    <3> HIDE DEF h
    <3> QED BY <3>2 DEF TakenBody
  <2>4. \A i \in 0..(k + 1) : h[i] = TakenBody(sel, g, i)
    <3>1. \A i \in 0..k : g[i] = TakenBody(sel, g, i)  BY <2>1
    <3> QED BY <2>2, <3>1
  <2>5. h = [i \in 0..(k + 1) |-> h[i]]  OBVIOUS
  <2> HIDE DEF h
  <2>6. h = [i \in 0..(k + 1) |-> TakenBody(sel, h, i)]  BY <2>3, <2>4, <2>5
  <2> QED BY <2>6
<1>3. Part(n)
  <2>1. good \in SUBSET (0..n) /\ 0 \in good  BY <1>1
  <2>2. \A k \in 0..(n - 1) : k \in good => k + 1 \in good  BY <1>2
  <2>3. good = 0..n
    <3> HIDE DEF good
    <3> QED BY <2>1, <2>2, Upward
  <2> QED BY <2>3
<1>4. Takes(sel) = CHOOSE g : g = [i \in 0..n |-> TakenBody(sel, g, i)]
  BY DEF Takes
<1>5. Takes(sel) = [i \in 0..n |-> TakenBody(sel, Takes(sel), i)]
  BY <1>3, <1>4, Zenon
<1> HIDE DEF n
<1>6. p \in 0..n  BY DEF n
<1> QED BY <1>5, <1>6

\* The cost of one more entry.
LEMMA OneMore ==
    ASSUME NEW sel \in Seq(Entries), NEW e \in Entries
    PROVE  /\ Append(sel, e) \in Seq(Entries)
           /\ Total(Costs(Append(sel, e)), Len(Append(sel, e)))
                = Total(Costs(sel), Len(sel)) + EntryBytes(e.desc)
<1> DEFINE n == Len(sel)
           more == Append(sel, e)
<1>1. /\ more \in Seq(Entries) /\ Len(more) = n + 1 /\ n \in Nat
      /\ \A i \in 1..n : more[i] = sel[i]
      /\ more[n + 1] = e
  BY AppendProperties
<1> HIDE DEF more, n
<1>2. n + 1 \in 1..(n + 1) /\ (n + 1) - 1 = n /\ n + 1 \in Nat /\ n <= n + 1  BY <1>1
<1>3. Sums(Costs(more), n + 1)[n + 1] = Sums(Costs(more), n + 1)[n] + Costs(more)[n + 1]
  BY <1>2, SumsStep
<1>4. Costs(more)[n + 1] = EntryBytes(e.desc)
  <2>1. n + 1 \in DOMAIN more  BY <1>1, <1>2
  <2> QED BY <1>1, <2>1 DEF Costs
<1>5. \A i \in 1..n : Costs(more)[i] = Costs(sel)[i]
  <2>1. \A i \in 1..n : i \in DOMAIN more /\ i \in DOMAIN sel  BY <1>1 DEF n
  <2> QED BY <1>1, <2>1 DEF Costs
<1>6. Sums(Costs(more), n + 1)[n] = Sums(Costs(sel), n)[n]
  BY <1>1, <1>2, <1>5, SumsAgree
<1> QED BY <1>1, <1>3, <1>4, <1>6 DEF Total, more, n

\* What is taken costs no more than what was selected.
LEMMA TakenIs ==
    ASSUME NEW sel \in Seq(Entries)
    PROVE  Taken(sel) \in Seq(Entries) /\ Block(Taken(sel)) <= Block(sel)
<1> DEFINE n == Len(sel)
           t == Takes(sel)
           u == Sums(Costs(sel), n)
           good == {k \in 0..n : t[k] \in Seq(Entries) /\ Total(Costs(t[k]), Len(t[k])) <= u[k]}
<1>1. n \in Nat /\ \A i \in 1..n : Costs(sel)[i] \in Nat  BY CostsAre
<1>2. \A k \in 0..n : t[k] = TakenBody(sel, t, k)  BY <1>1, TakesAre
<1>3. u[0] = 0 /\ \A k \in 1..n : u[k] = u[k - 1] + Costs(sel)[k]  BY <1>1, SumsStep
<1>4. \A k \in 0..n : u[k] \in Nat  BY <1>1, SumsRise
<1>5. \A k \in 1..n : sel[k] \in Entries /\ Costs(sel)[k] = EntryBytes(sel[k].desc)
  BY DEF Costs
<1>6. Taken(sel) = t[n]  BY DEF Taken, Takes, TakenBody
<1> HIDE DEF n, t, u
<1>7. 0 \in good
  <2>1. t[0] = <<>>  BY <1>1, <1>2 DEF TakenBody
  <2>2. Total(Costs(<<>>), 0) = 0  BY SumsStep DEF Total
  <2>3. <<>> \in Seq(Entries) /\ Len(<<>>) = 0  BY EmptySeq
  <2>4. 0 \in 0..n /\ Total(Costs(t[0]), Len(t[0])) = 0 /\ t[0] \in Seq(Entries)
    BY <1>1, <2>1, <2>2, <2>3
  <2> QED BY <1>3, <2>4
<1>8. ASSUME NEW k \in 0..(n - 1), k \in good PROVE k + 1 \in good
  <2>1. k + 1 \in 1..n /\ k + 1 \in 0..n /\ (k + 1) - 1 = k /\ k + 1 # 0 /\ k \in 0..n  BY <1>1
  <2>2. t[k + 1] = IF file[sel[k + 1].id] \in {None, Odd} THEN t[k] ELSE Append(t[k], sel[k + 1])
    BY <1>2, <2>1 DEF TakenBody
  <2>3. u[k + 1] = u[k] + EntryBytes(sel[k + 1].desc)  BY <1>3, <1>5, <2>1
  <2>4. t[k] \in Seq(Entries) /\ Total(Costs(t[k]), Len(t[k])) <= u[k]  BY <1>8
  <2>5. sel[k + 1] \in Entries /\ EntryBytes(sel[k + 1].desc) \in Nat
    <3>1. sel[k + 1] \in Entries  BY <1>5, <2>1
    <3>2. sel[k + 1].desc \in Texts  BY ONLY <3>1 DEF Entries
    <3> QED BY <3>1, <3>2, TextIs
  <2>6. Total(Costs(t[k]), Len(t[k])) \in Nat  BY <2>4, CostsAre, SumsRise
  <2>7. u[k] \in Nat  BY <1>4, <2>1
  <2> HIDE DEF good
  <2>8. CASE t[k + 1] = t[k]
    <3>1. Total(Costs(t[k + 1]), Len(t[k + 1])) <= u[k + 1]
      BY <2>3, <2>4, <2>5, <2>6, <2>7, <2>8
    <3> QED BY <2>1, <2>4, <2>8, <3>1 DEF good
  <2>9. CASE t[k + 1] = Append(t[k], sel[k + 1])
    <3>1. /\ t[k + 1] \in Seq(Entries)
          /\ Total(Costs(t[k + 1]), Len(t[k + 1]))
               = Total(Costs(t[k]), Len(t[k])) + EntryBytes(sel[k + 1].desc)
      BY <2>4, <2>5, <2>9, OneMore
    <3>2. Total(Costs(t[k + 1]), Len(t[k + 1])) <= u[k + 1]
      BY <2>3, <2>4, <2>5, <2>6, <2>7, <3>1
    <3> QED BY <2>1, <3>1, <3>2 DEF good
  <2> QED BY <2>2, <2>8, <2>9
<1>9. good = 0..n
  <2>1. good \in SUBSET (0..n)  OBVIOUS
  <2> HIDE DEF good
  <2> QED BY <1>1, <1>7, <1>8, <2>1, Upward
<1>10. Taken(sel) \in Seq(Entries) /\ Total(Costs(Taken(sel)), Len(Taken(sel))) <= u[n]
  <2>1. n \in good  BY <1>1, <1>9
  <2> QED BY <1>6, <2>1
<1>11. CASE Taken(sel) = <<>>
  <2>1. Block(Taken(sel)) = 0  BY <1>11 DEF Block
  <2> QED BY <1>10, <2>1, BlockIs
<1>12. CASE Taken(sel) # <<>>
  <2>1. sel # <<>>
    <3>1. SUFFICES ASSUME sel = <<>> PROVE FALSE  OBVIOUS
    <3>2. n = 0  BY <3>1 DEF n
    <3>3. t[n] = <<>>  BY <1>2, <3>2 DEF TakenBody
    <3> QED BY <1>6, <1>12, <3>3
  <2>2. Block(sel) = Frame + u[n]  BY <2>1, BlockIs DEF Total, u, n
  <2>3. Block(Taken(sel)) = Frame + Total(Costs(Taken(sel)), Len(Taken(sel)))
    BY <1>10, <1>12, BlockIs
  <2>4. Frame \in Nat /\ u[n] \in Nat  BY <1>1, <1>4, BudgetAssumption
  <2>5. Total(Costs(Taken(sel)), Len(Taken(sel))) \in Nat  BY <1>10, CostsAre, SumsRise
  <2> QED BY <1>10, <2>2, <2>3, <2>4, <2>5
<1> QED BY <1>10, <1>11, <1>12

-----------------------------------------------------------------------------
(* Routing: the skills in the order of their keys.                         *)

\* A set of skills, or of others that are numbers, with a key for each.
Keyed(set, key) == /\ set \in SUBSET Nat /\ IsFiniteSet(set)
                   /\ \A s \in set : key[s] \in Nat
Ahead(key, s, t) == key[s] > key[t] \/ (key[s] = key[t] /\ s < t)

LEMMA ForemostIs ==
    ASSUME NEW set, NEW key, Keyed(set, key), set # {}
    PROVE  /\ Foremost(set, key) \in set
           /\ \A t \in set : key[t] <= key[Foremost(set, key)]
<1> DEFINE above(s) == {t \in set : Ahead(key, t, s)}
           aboves == {above(s) : s \in set}
<1>1. IsWellFoundedOn(StrictSubsetOrdering(set), SUBSET set)
  BY FS_StrictSubsetOrderingWellFounded, FS_FiniteSubsetsOfFinite DEF Keyed
<1>2. aboves \subseteq SUBSET set /\ aboves # {}  OBVIOUS
<1>3. \E x \in aboves : \A y \in aboves : ~(<<y, x>> \in StrictSubsetOrdering(set))
  <2> HIDE DEF aboves
  <2> QED BY <1>1, <1>2, WFMin
<1>4. PICK s \in set : \A t \in set : ~(<<above(t), above(s)>> \in StrictSubsetOrdering(set))
  BY <1>3
<1>5. ASSUME NEW t \in set, Ahead(key, t, s) PROVE FALSE
  <2>1. \A r \in above(t) : r \in above(s)
    <3>1. SUFFICES ASSUME NEW r \in set, Ahead(key, r, t) PROVE Ahead(key, r, s)  OBVIOUS
    <3>2. /\ r \in Nat /\ s \in Nat /\ t \in Nat
          /\ key[r] \in Nat /\ key[s] \in Nat /\ key[t] \in Nat  BY DEF Keyed
    <3> QED BY <1>5, <3>1, <3>2 DEF Ahead
  <2>2. t \in above(s)  BY <1>5
  <2>3. t \notin above(t)
    <3>1. t \in Nat /\ key[t] \in Nat  BY DEF Keyed
    <3> QED BY <3>1 DEF Ahead
  <2>4. above(t) \in SUBSET set /\ above(s) \in SUBSET set  OBVIOUS
  <2> HIDE DEF above
  <2>5. <<above(t), above(s)>> \in StrictSubsetOrdering(set)
    BY <2>1, <2>2, <2>3, <2>4 DEF StrictSubsetOrdering
  <2> QED BY <1>4, <2>5
<1>6. ASSUME NEW t \in set \ {s} PROVE key[s] > key[t] \/ (key[s] = key[t] /\ s < t)
  <2>1. /\ s \in Nat /\ t \in Nat /\ s # t /\ key[s] \in Nat /\ key[t] \in Nat  BY DEF Keyed
  <2>2. ~Ahead(key, t, s)  BY <1>5
  <2> QED BY <2>1, <2>2 DEF Ahead
<1>7. /\ Foremost(set, key) \in set
      /\ \A t \in set \ {Foremost(set, key)} :
            \/ key[Foremost(set, key)] > key[t]
            \/ key[Foremost(set, key)] = key[t] /\ Foremost(set, key) < t
  BY <1>6, Zenon DEF Foremost
<1>8. ASSUME NEW t \in set PROVE key[t] <= key[Foremost(set, key)]
  <2>1. key[t] \in Nat /\ key[Foremost(set, key)] \in Nat  BY <1>7 DEF Keyed
  <2>2. CASE t = Foremost(set, key)  BY <2>1, <2>2
  <2>3. CASE t # Foremost(set, key)  BY <1>7, <2>1, <2>3
  <2> QED BY <2>2, <2>3
<1> QED BY <1>7, <1>8

LeftBody(set, key, f, k) == IF k = 0 THEN set ELSE f[k - 1] \ {Foremost(f[k - 1], key)}

LEMMA LeftAre ==
    ASSUME NEW set, NEW key, Cardinality(set) \in Nat, NEW p \in 0..Cardinality(set)
    PROVE  Left(set, key)[p] = LeftBody(set, key, Left(set, key), p)
<1> DEFINE n == Cardinality(set)
           Part(k) == \E g : g = [i \in 0..k |-> LeftBody(set, key, g, i)]
           good == {j \in 0..n : Part(j)}
<1>1. Part(0)
  <2>1. [i \in 0..0 |-> set] = [i \in 0..0 |-> LeftBody(set, key, [j \in 0..0 |-> set], i)]
    BY DEF LeftBody
  <2> QED BY <2>1
<1>2. ASSUME NEW k \in 0..(n - 1), Part(k) PROVE Part(k + 1)
  <2>1. PICK g : g = [i \in 0..k |-> LeftBody(set, key, g, i)]  BY <1>2
  <2> DEFINE h == [i \in 0..(k + 1) |-> IF i = k + 1 THEN LeftBody(set, key, g, k + 1) ELSE g[i]]
  <2>2. \A i \in 0..k : h[i] = g[i]  OBVIOUS
  <2>3. \A i \in 0..(k + 1) : LeftBody(set, key, h, i) = LeftBody(set, key, g, i)
    <3>1. SUFFICES ASSUME NEW i \in 0..(k + 1)
                   PROVE  LeftBody(set, key, h, i) = LeftBody(set, key, g, i)
      OBVIOUS
    <3>2. i > 0 => h[i - 1] = g[i - 1]  BY <2>2
    <3> HIDE DEF h
    <3> QED BY <3>2 DEF LeftBody
  <2>4. \A i \in 0..(k + 1) : h[i] = LeftBody(set, key, g, i)
    <3>1. \A i \in 0..k : g[i] = LeftBody(set, key, g, i)  BY <2>1
    <3> QED BY <2>2, <3>1
  <2>5. h = [i \in 0..(k + 1) |-> h[i]]  OBVIOUS
  <2> HIDE DEF h
  <2>6. h = [i \in 0..(k + 1) |-> LeftBody(set, key, h, i)]  BY <2>3, <2>4, <2>5
  <2> QED BY <2>6
<1>3. Part(n)
  <2>1. good \in SUBSET (0..n) /\ 0 \in good  BY <1>1
  <2>2. \A k \in 0..(n - 1) : k \in good => k + 1 \in good  BY <1>2
  <2>3. good = 0..n
    <3> HIDE DEF good
    <3> QED BY <2>1, <2>2, Upward
  <2> QED BY <2>3
<1>4. Left(set, key) = CHOOSE g : g = [i \in 0..n |-> LeftBody(set, key, g, i)]
  BY DEF Left, LeftBody
<1>5. Left(set, key) = [i \in 0..n |-> LeftBody(set, key, Left(set, key), i)]
  BY <1>3, <1>4, Zenon
<1> HIDE DEF n
<1>6. p \in 0..n  BY DEF n
<1> QED BY <1>5, <1>6

\* Who comes at a place.
Placed(set, key, i) == Foremost(Left(set, key)[i - 1], key)

\* One after the other is taken, a different one at each place, and none that
\* is left has a larger key.
LEMMA PlacesAre ==
    ASSUME NEW set, NEW key, Keyed(set, key), NEW n \in Nat, n = Cardinality(set)
    PROVE  /\ \A k \in 0..n : /\ Left(set, key)[k] \in SUBSET set
                              /\ Cardinality(set \ Left(set, key)[k]) = k
           /\ \A k \in 1..n : /\ Placed(set, key, k) \in set
                              /\ Placed(set, key, k) \notin Left(set, key)[k]
                              /\ Placed(set, key, k) \in Left(set, key)[k - 1]
                              /\ \A t \in Left(set, key)[k - 1] : key[t] <= key[Placed(set, key, k)]
<1> DEFINE left == Left(set, key)
           good == {k \in 0..n : left[k] \in SUBSET set /\ Cardinality(set \ left[k]) = k}
<1>1. left[0] = set /\ \A k \in 1..n : left[k] = left[k - 1] \ {Placed(set, key, k)}
  <2>1. left[0] = set
    <3>1. 0 \in 0..Cardinality(set)  OBVIOUS
    <3>2. Left(set, key)[0] = LeftBody(set, key, Left(set, key), 0)  BY <3>1, LeftAre
    <3> QED BY <3>2 DEF LeftBody
  <2>2. ASSUME NEW k \in 1..n PROVE left[k] = left[k - 1] \ {Placed(set, key, k)}
    <3>1. k \in 0..n /\ k # 0  OBVIOUS
    <3> QED BY <3>1, LeftAre DEF LeftBody, Placed
  <2> QED BY <2>1, <2>2
<1> HIDE DEF left
<1>2. ASSUME NEW k \in 0..(n - 1), left[k] \in SUBSET set, Cardinality(set \ left[k]) = k
      PROVE  /\ Placed(set, key, k + 1) \in left[k]
             /\ \A t \in left[k] : key[t] <= key[Placed(set, key, k + 1)]
  <2>1. left[k] # {}
    <3>1. SUFFICES ASSUME left[k] = {} PROVE FALSE  OBVIOUS
    <3>2. set \ left[k] = set  BY <3>1
    <3> QED BY <1>2, <3>2
  <2>2. Keyed(left[k], key)  BY <1>2, FS_Subset DEF Keyed
  <2>3. Placed(set, key, k + 1) = Foremost(left[k], key)
    <3>1. (k + 1) - 1 = k  OBVIOUS
    <3> QED BY <3>1 DEF Placed, left
  <2> QED BY <2>1, <2>2, <2>3, ForemostIs
<1>3. 0 \in good
  <2>1. set \ left[0] = {}  BY <1>1
  <2>2. Cardinality(set \ left[0]) = 0  BY <2>1, FS_EmptySet
  <2>3. left[0] \in SUBSET set /\ 0 \in 0..n  BY <1>1
  <2> QED BY <2>2, <2>3
<1>4. ASSUME NEW k \in 0..(n - 1), k \in good PROVE k + 1 \in good
  <2> DEFINE s == Placed(set, key, k + 1)
  <2>1. left[k] \in SUBSET set /\ Cardinality(set \ left[k]) = k  BY <1>4
  <2>2. s \in left[k]  BY <1>2, <2>1
  <2>3. left[k + 1] = left[k] \ {s}
    <3>1. k + 1 \in 1..n /\ (k + 1) - 1 = k  OBVIOUS
    <3> QED BY <1>1, <3>1
  <2> HIDE DEF s
  <2>4. set \ left[k + 1] = (set \ left[k]) \cup {s} /\ s \notin set \ left[k]
    BY <2>1, <2>2, <2>3
  <2>5. IsFiniteSet(set \ left[k])  BY FS_Subset DEF Keyed
  <2>6. Cardinality(set \ left[k + 1]) = k + 1  BY <2>1, <2>4, <2>5, FS_AddElement
  <2>7. left[k + 1] \in SUBSET set /\ k + 1 \in 0..n  BY <2>1, <2>3
  <2> QED BY <2>6, <2>7
<1>5. good = 0..n
  <2>1. good \in SUBSET (0..n)  OBVIOUS
  <2> HIDE DEF good
  <2> QED BY <1>3, <1>4, <2>1, Upward
<1>6. \A k \in 0..n : left[k] \in SUBSET set /\ Cardinality(set \ left[k]) = k  BY <1>5
<1>7. ASSUME NEW k \in 1..n
      PROVE  /\ Placed(set, key, k) \in set
             /\ Placed(set, key, k) \notin left[k]
             /\ Placed(set, key, k) \in left[k - 1]
             /\ \A t \in left[k - 1] : key[t] <= key[Placed(set, key, k)]
  <2>1. k - 1 \in 0..(n - 1) /\ k - 1 \in 0..n /\ (k - 1) + 1 = k  OBVIOUS
  <2>2. left[k - 1] \in SUBSET set /\ Cardinality(set \ left[k - 1]) = k - 1  BY <1>6, <2>1
  <2>3. /\ Placed(set, key, k) \in left[k - 1]
        /\ \A t \in left[k - 1] : key[t] <= key[Placed(set, key, k)]
    BY <1>2, <2>1, <2>2
  <2> QED BY <1>1, <2>2, <2>3
<1> QED BY <1>6, <1>7 DEF left

\* No different ones have keys that add up to more than those of the first.
LEMMA FirstAreDearest ==
    ASSUME NEW set, NEW key, Keyed(set, key), NEW n \in Nat, n = Cardinality(set),
           NEW k \in 0..n, NEW q \in Injection(1..k, set)
    PROVE  Total([i \in 1..k |-> key[q[i]]], k)
             <= Total([i \in 1..k |-> key[Placed(set, key, i)]], k)
<1> DEFINE Added(j, r) == Total([i \in 1..j |-> key[r[i]]], j)
           Top(j) == Total([i \in 1..j |-> key[Placed(set, key, i)]], j)
           good == {j \in 0..n : \A r \in Injection(1..j, set) : Added(j, r) <= Top(j)}
<1>1. \A j \in 0..n : \A r \in Injection(1..j, set) :
         \A i \in 1..j : r[i] \in set /\ key[r[i]] \in Nat
  BY DEF Injection, Keyed
<1>2. \A i \in 1..n : key[Placed(set, key, i)] \in Nat  BY PlacesAre DEF Keyed
<1>3. 0 \in good
  <2>1. ASSUME NEW r PROVE Added(0, r) <= Top(0)
    <3>1. Added(0, r) = 0 /\ Top(0) = 0  BY SumsStep DEF Total
    <3> QED BY <3>1
  <2> HIDE DEF Added, Top
  <2> QED BY <2>1
<1>4. ASSUME NEW j \in 0..(n - 1), j \in good PROVE j + 1 \in good
  <2>1. SUFFICES ASSUME NEW r \in Injection(1..(j + 1), set) PROVE Added(j + 1, r) <= Top(j + 1)
    <3> HIDE DEF Added, Top
    <3> QED BY <2>1
  <2>2. r \in [1..(j + 1) -> set] /\ \A a, b \in 1..(j + 1) : r[a] = r[b] => a = b
    BY DEF Injection, IsInjective
  <2>3. j + 1 \in 0..n /\ j \in 0..n /\ j \in Nat /\ j + 1 \in 1..n /\ (j + 1) - 1 = j  OBVIOUS
  \* One of them is left when j were taken.
  <2>4. PICK p \in 1..(j + 1) : r[p] \in Left(set, key)[j]
    <3>1. SUFFICES ASSUME \A p \in 1..(j + 1) : r[p] \notin Left(set, key)[j] PROVE FALSE
      OBVIOUS
    <3> DEFINE gone == set \ Left(set, key)[j]
    <3>2. IsFiniteSet(gone) /\ Cardinality(gone) = j
      <4>1. Cardinality(gone) = j  BY <2>3, PlacesAre
      <4>2. IsFiniteSet(gone)  BY FS_Subset DEF Keyed
      <4> QED BY <4>1, <4>2
    <3>3. IsFiniteSet(1..(j + 1)) /\ Cardinality(1..(j + 1)) = j + 1  BY <2>3, FS_Interval
    <3>4. r \in [1..(j + 1) -> gone]  BY <2>2, <3>1
    <3> HIDE DEF gone
    <3>5. Cardinality(gone) < Cardinality(1..(j + 1))  BY <2>3, <3>2, <3>3
    <3>6. \E x, y \in 1..(j + 1) : x # y /\ r[x] = r[y]
      BY <3>2, <3>3, <3>4, <3>5, FS_PigeonHole
    <3> QED BY <2>2, <3>6
  <2>5. key[r[p]] <= key[Placed(set, key, j + 1)]
    <3>1. \A t \in Left(set, key)[(j + 1) - 1] : key[t] <= key[Placed(set, key, j + 1)]
      BY <2>3, PlacesAre
    <3> QED BY <2>3, <2>4, <3>1
  \* The others are j different ones, once the last has its place.
  <2> DEFINE others == [i \in 1..j |-> IF i = p THEN r[j + 1] ELSE r[i]]
             ks == [i \in 1..(j + 1) |-> key[r[i]]]
             os == [i \in 1..j |-> key[others[i]]]
             ts == [i \in 1..(j + 1) |-> key[Placed(set, key, i)]]
  <2>6. others \in Injection(1..j, set)
    <3>1. others \in [1..j -> set]  BY <2>2, <2>3
    <3>2. ASSUME NEW a \in 1..j, NEW b \in 1..j, others[a] = others[b] PROVE a = b
      <4>1. /\ a \in 1..(j + 1) /\ b \in 1..(j + 1) /\ j + 1 \in 1..(j + 1)
            /\ a # j + 1 /\ b # j + 1  BY <2>3
      <4>2. others[a] = r[IF a = p THEN j + 1 ELSE a] /\ others[b] = r[IF b = p THEN j + 1 ELSE b]
        BY <2>3
      <4> HIDE DEF others
      <4> QED BY <2>2, <3>2, <4>1, <4>2
    <3> HIDE DEF others
    <3> QED BY <3>1, <3>2 DEF Injection, IsInjective
  <2>7. \A i \in 1..(j + 1) : ks[i] \in Nat /\ ts[i] \in Nat  BY <1>1, <1>2, <2>3
  <2>8. \A i \in 1..j : os[i] \in Nat
    <3> HIDE DEF others
    <3> QED BY <1>1, <2>3, <2>6
  <2>9. Added(j, others) <= Top(j)
    <3> HIDE DEF Added, Top, others
    <3> QED BY <1>4, <2>6
  <2>10. Sums(ts, j + 1)[j + 1] = Sums(ts, j + 1)[j] + ts[j + 1]
    <3> HIDE DEF ts
    <3> QED BY <2>3, SumsStep
  <2>11. Sums(ks, j + 1)[j + 1] = Sums(ks, j + 1)[j] + ks[j + 1]
    <3> HIDE DEF ks
    <3> QED BY <2>3, SumsStep
  <2>12. Top(j) = Sums(ts, j + 1)[j]
    <3> DEFINE us == [i \in 1..j |-> key[Placed(set, key, i)]]
    <3>1. \A i \in 1..j : us[i] = ts[i]  BY <2>3
    <3>2. Top(j) = Sums(us, j)[j]  BY DEF Total
    <3> HIDE DEF us, ts, Top
    <3>3. j <= j /\ j <= j + 1 /\ j + 1 \in Nat  BY <2>3
    <3>4. Sums(us, j)[j] = Sums(ts, j + 1)[j]  BY ONLY <2>3, <3>1, <3>3, SumsAgree
    <3> QED BY <3>2, <3>4
  \* What is taken out is at most what the next place adds.
  <2>13. Added(j + 1, r) = Added(j, others) + key[r[p]]
    <3>1. Added(j + 1, r) = Sums(ks, j + 1)[j] + key[r[j + 1]]
      <4>1. Added(j + 1, r) = Sums(ks, j + 1)[j + 1] /\ ks[j + 1] = key[r[j + 1]]
        BY <2>3 DEF Total
      <4> QED BY <2>11, <4>1
    <3> DEFINE hs == [i \in 1..j |-> key[r[i]]]
    <3>2. Sums(ks, j + 1)[j] = Total(hs, j)
      <4>1. \A i \in 1..j : ks[i] = hs[i]  BY <2>3
      <4> HIDE DEF ks, hs
      <4>2. j <= j /\ j <= j + 1 /\ j + 1 \in Nat  BY <2>3
      <4>3. Sums(ks, j + 1)[j] = Sums(hs, j)[j]  BY ONLY <2>3, <4>1, <4>2, SumsAgree
      <4> QED BY <4>3 DEF Total
    <3>3. Added(j, others) = Total(os, j)  OBVIOUS
    <3>4. \A i \in 1..j : hs[i] \in Nat  BY <1>1, <2>3
    <3>5. CASE p = j + 1
      <4>1. \A i \in 1..j : hs[i] = os[i]  BY <2>3, <3>5
      <4> HIDE DEF hs, os, Added
      <4>2. Sums(hs, j)[j] = Sums(os, j)[j]
        <5>1. j <= j  BY <2>3
        <5> QED BY ONLY <2>3, <4>1, <5>1, SumsAgree
      <4> QED BY <3>1, <3>2, <3>3, <3>5, <4>2 DEF Total
    <3>6. CASE p \in 1..j
      <4>1. /\ \A i \in 1..j : i # p => os[i] = hs[i]
            /\ os[p] = key[r[j + 1]] /\ hs[p] = key[r[p]]
        BY <2>3, <3>6
      <4> HIDE DEF hs, os, Added, others
      <4>2. Total(os, j) + hs[p] = Total(hs, j) + os[p]
        BY ONLY <2>3, <2>8, <3>4, <3>6, <4>1, SumsReplace
      <4>3. Total(os, j) \in Nat /\ Total(hs, j) \in Nat
        BY <2>3, <2>8, <3>4, SumsRise
      <4>4. hs[p] \in Nat /\ os[p] \in Nat  BY <2>8, <3>4, <3>6
      <4> QED BY <3>1, <3>2, <3>3, <4>1, <4>2, <4>3, <4>4
    <3> HIDE DEF Added
    <3> QED BY <2>3, <3>5, <3>6
  <2>14. Top(j + 1) = Top(j) + key[Placed(set, key, j + 1)]
    <3>1. Top(j + 1) = Sums(ts, j + 1)[j + 1] /\ ts[j + 1] = key[Placed(set, key, j + 1)]
      BY <2>3 DEF Total
    <3> HIDE DEF Top, ts
    <3> QED BY <2>10, <2>12, <3>1
  <2>15. /\ Added(j, others) \in Nat /\ Top(j) \in Nat
         /\ key[r[p]] \in Nat /\ key[Placed(set, key, j + 1)] \in Nat
    <3>1. Added(j, others) \in Nat
      <4> HIDE DEF os
      <4>1. Total(os, j) \in Nat  BY <2>3, <2>8, SumsRise
      <4> QED BY <4>1 DEF os
    <3>2. Top(j) \in Nat
      <4> DEFINE us == [i \in 1..j |-> key[Placed(set, key, i)]]
      <4>1. \A i \in 1..j : us[i] \in Nat  BY <1>2, <2>3
      <4> HIDE DEF us
      <4>2. Total(us, j) \in Nat  BY <2>3, <4>1, SumsRise
      <4> QED BY <4>2 DEF us
    <3> HIDE DEF Added, Top
    <3> QED BY <1>1, <1>2, <2>3, <3>1, <3>2
  <2> HIDE DEF Added, Top, others
  <2> QED BY <2>5, <2>9, <2>13, <2>14, <2>15
<1>5. good = 0..n
  <2>1. good \in SUBSET (0..n)  OBVIOUS
  <2> HIDE DEF good
  <2> QED BY <1>3, <1>4, <2>1, Upward
<1>6. Added(k, q) <= Top(k)
  <2>1. k \in good  BY <1>5
  <2> HIDE DEF Added, Top
  <2> QED BY <2>1
<1> QED BY <1>6

\* No two places have the same one.
LEMMA PlacesDiffer ==
    ASSUME NEW set, NEW key, Keyed(set, key), NEW n \in Nat, n = Cardinality(set),
           NEW j \in 1..n, NEW k \in 1..n, j # k
    PROVE  Placed(set, key, j) # Placed(set, key, k)
<1> DEFINE left == Left(set, key)
<1>1. \A i \in 0..(n - 1) : left[i + 1] \subseteq left[i]
  <2>1. SUFFICES ASSUME NEW i \in 0..(n - 1) PROVE left[i + 1] \subseteq left[i]  OBVIOUS
  <2>2. i + 1 \in 0..n /\ i + 1 # 0 /\ (i + 1) - 1 = i  OBVIOUS
  <2>3. left[i + 1] = LeftBody(set, key, left, i + 1)  BY <2>2, LeftAre
  <2> HIDE DEF left
  <2> QED BY <2>2, <2>3 DEF LeftBody
<1> HIDE DEF left
<1>2. ASSUME NEW a \in 1..n, NEW b \in 1..n, a < b PROVE Placed(set, key, a) # Placed(set, key, b)
  <2> DEFINE m == b - 1 - a
             good == {i \in 0..m : left[a + i] \subseteq left[a]}
  <2>1. m \in Nat /\ a + m = b - 1 /\ a \in Nat  BY <1>2
  <2>2. good = 0..m
    <3>1. good \in SUBSET (0..m) /\ 0 \in good  BY <2>1
    <3>2. ASSUME NEW i \in 0..(m - 1), i \in good PROVE i + 1 \in good
      <4>1. a + i \in 0..(n - 1) /\ (a + i) + 1 = a + (i + 1) /\ i + 1 \in 0..m  BY <1>2, <2>1
      <4> QED BY <1>1, <3>2, <4>1
    <3> HIDE DEF good, m
    <3> QED BY <2>1, <3>1, <3>2, Upward
  <2>3. left[b - 1] \subseteq left[a]
    <3>1. m \in good  BY <2>1, <2>2
    <3> QED BY <2>1, <3>1
  <2>4. Placed(set, key, a) \notin left[a] /\ Placed(set, key, b) \in left[b - 1]
    BY PlacesAre DEF left
  <2> QED BY <2>3, <2>4
<1>3. j < k \/ k < j  OBVIOUS
<1> QED BY <1>2, <1>3

LEMMA MinOf ==
    ASSUME NEW a \in Nat, NEW b \in Nat
    PROVE  Min({a, b}) = IF a <= b THEN a ELSE b
<1> DEFINE m == IF a <= b THEN a ELSE b
<1>1. m \in {a, b} /\ \A y \in {a, b} : m <= y  OBVIOUS
<1>2. \A x \in {a, b} : (\A y \in {a, b} : x <= y) => x = m  OBVIOUS
<1> HIDE DEF m
<1>3. Min({a, b}) = m  BY <1>1, <1>2 DEF Min
<1> QED BY <1>3 DEF m

\* The best are the first, as many as are routed.
LEMMA BestIs ==
    ASSUME NEW set \in SUBSET Skills, NEW key, Keyed(set, key), NEW n \in Nat, n = Cardinality(set),
           NEW m \in Nat, m = IF n <= MaxSelected THEN n ELSE MaxSelected
    PROVE  /\ Best(set, key) \in Seq(Entries) /\ Len(Best(set, key)) = m
           /\ \A i \in 1..m : Costs(Best(set, key))[i] = EntryBytes(Desc[Placed(set, key, i)])
<1> DEFINE entry1(i) == [id |-> Placed(set, key, i), desc |-> Desc[Placed(set, key, i)]]
<1>1. Min({n, MaxSelected}) = m /\ m <= n  BY MinOf, BudgetAssumption
<1>2. Best(set, key) = [i \in 1..m |-> entry1(i)]  BY <1>1 DEF Best, Placed
<1>3. ASSUME NEW i \in 1..m PROVE entry1(i) \in Entries
  <2>1. Placed(set, key, i) \in set
    <3>1. i \in 1..n  BY <1>1
    <3> QED BY <3>1, PlacesAre
  <2>2. Desc[Placed(set, key, i)] \in Texts  BY <2>1, BudgetAssumption DEF Texts
  <2> QED BY <2>1, <2>2 DEF Entries
<1> HIDE DEF entry1
<1>4. Best(set, key) \in Seq(Entries) /\ Len(Best(set, key)) = m  BY <1>2, <1>3
<1>5. ASSUME NEW i \in 1..m PROVE Costs(Best(set, key))[i] = EntryBytes(Desc[Placed(set, key, i)])
  <2>1. i \in DOMAIN Best(set, key) /\ Best(set, key)[i] = entry1(i)  BY <1>2
  <2> QED BY <2>1 DEF Costs, entry1
<1> QED BY <1>4, <1>5

\* No prompt brings about a larger block than the dearest entries.
LEMMA WorstIsWorst ==
    ASSUME NEW lib \in SUBSET Skills, NEW p \in Prompts
    PROVE  /\ Select(p, lib) \in Seq(Entries)
           /\ WorstCase(lib) \in Nat
           /\ Block(Select(p, lib)) \in Nat
           /\ Block(Select(p, lib)) <= WorstCase(lib)
<1> DEFINE match == {s \in lib : p[s] > 0}
           c == [s \in lib |-> EntryBytes(Desc[s])]
           n == Cardinality(match)
           w == Cardinality(lib)
           Few(i) == IF i <= MaxSelected THEN i ELSE MaxSelected
           sel == Best(match, p)
           dear == Best(lib, c)
<1>1. Select(p, lib) = sel /\ WorstCase(lib) = Block(dear)  BY DEF Select, WorstCase
<1>2. /\ match \in SUBSET Skills /\ IsFiniteSet(match) /\ IsFiniteSet(lib)
      /\ n \in Nat /\ w \in Nat /\ n <= w
  <2>1. IsFiniteSet(lib)  BY BudgetAssumption, FS_Subset
  <2> QED BY <2>1, FS_Subset, FS_CardinalityType
<1>3. Keyed(match, p)
  <2>1. p \in [Skills -> Nat]  BY BudgetAssumption
  <2> QED BY <1>2, <2>1, RoutingAssumption DEF Keyed
<1>4. Keyed(lib, c)
  <2>1. \A s \in lib : c[s] \in Nat
    <3>1. SUFFICES ASSUME NEW s \in lib PROVE EntryBytes(Desc[s]) \in Nat  OBVIOUS
    <3>2. Desc[s] \in Texts  BY BudgetAssumption DEF Texts
    <3> QED BY <3>2, TextIs
  <2> HIDE DEF c
  <2> QED BY <1>2, <2>1, RoutingAssumption DEF Keyed
<1>5. \A s \in lib : c[s] = EntryBytes(Desc[s])  OBVIOUS
<1> HIDE DEF c, n, w, match
<1>6. MaxSelected \in Nat  BY BudgetAssumption
<1>7. /\ Few(n) \in Nat /\ Few(w) \in Nat /\ Few(n) <= Few(w)
      /\ Few(n) <= n /\ Few(w) <= w
  BY <1>2, <1>6
<1>8. /\ sel \in Seq(Entries) /\ Len(sel) = Few(n)
      /\ \A i \in 1..Few(n) : Costs(sel)[i] = EntryBytes(Desc[Placed(match, p, i)])
  BY <1>2, <1>3, <1>7, BestIs DEF n
<1>9. /\ dear \in Seq(Entries) /\ Len(dear) = Few(w)
      /\ \A i \in 1..Few(w) : Costs(dear)[i] = EntryBytes(Desc[Placed(lib, c, i)])
  BY <1>2, <1>4, <1>7, BestIs DEF w
<1> HIDE DEF sel, dear
<1>10. Block(sel) \in Nat /\ Block(dear) \in Nat  BY <1>8, <1>9, BlockIs
<1>11. CASE sel = <<>>
  <2>1. Block(sel) = 0  BY <1>11 DEF Block
  <2> QED BY <1>1, <1>8, <1>10, <2>1
<1>12. CASE sel # <<>>
  <2> DEFINE k == Few(n)
             q == [i \in 1..k |-> Placed(match, p, i)]
             ks == [i \in 1..k |-> c[q[i]]]
             ts == [i \in 1..k |-> c[Placed(lib, c, i)]]
  <2>0. k \in 0..w /\ k \in 0..Few(w) /\ k \in Nat
    <3> HIDE DEF Few
    <3> QED BY <1>2, <1>7
  <2>1. \A i \in 1..k : i \in 1..n /\ i \in 1..w /\ i \in 1..Few(w)  BY <1>2, <1>7
  <2> HIDE DEF k
  <2>2. q \in Injection(1..k, lib)
    <3>1. \A i \in 1..k : Placed(match, p, i) \in lib
      <4>1. \A i \in 1..k : Placed(match, p, i) \in match  BY <1>2, <1>3, <2>1, PlacesAre DEF n
      <4> QED BY <4>1 DEF match
    <3>2. \A a, b \in 1..k : Placed(match, p, a) = Placed(match, p, b) => a = b
      BY <1>2, <1>3, <2>1, PlacesDiffer DEF n
    <3> QED BY <3>1, <3>2 DEF Injection, IsInjective
  <2>3. Total(ks, k) <= Total(ts, k)
    <3> HIDE DEF q
    <3> QED BY <1>2, <1>4, <2>0, <2>2, FirstAreDearest DEF w
  <2>4. \A i \in 1..k : ks[i] = Costs(sel)[i]
    <3>1. SUFFICES ASSUME NEW i \in 1..k PROVE ks[i] = Costs(sel)[i]  OBVIOUS
    <3>2. q[i] \in lib /\ q[i] = Placed(match, p, i)
      <4>1. q[i] = Placed(match, p, i)  OBVIOUS
      <4> HIDE DEF q
      <4> QED BY <2>2, <4>1 DEF Injection
    <3>3. Costs(sel)[i] = EntryBytes(Desc[Placed(match, p, i)])  BY <1>8 DEF k
    <3>4. ks[i] = c[q[i]]  OBVIOUS
    <3> HIDE DEF q, ks
    <3> QED BY <1>5, <3>2, <3>3, <3>4
  <2>5. \A i \in 1..k : ts[i] = Costs(dear)[i]
    <3>1. SUFFICES ASSUME NEW i \in 1..k PROVE ts[i] = Costs(dear)[i]  OBVIOUS
    <3>2. Placed(lib, c, i) \in lib  BY <1>2, <1>4, <2>1, PlacesAre DEF w
    <3>3. Costs(dear)[i] = EntryBytes(Desc[Placed(lib, c, i)])  BY <1>9, <2>1
    <3> QED BY <1>5, <3>2, <3>3
  <2> HIDE DEF ks, ts
  <2>6. Total(ks, k) = Total(Costs(sel), k)
    <3>1. k <= k  BY <2>0
    <3>2. Sums(ks, k)[k] = Sums(Costs(sel), k)[k]  BY ONLY <2>0, <2>4, <3>1, SumsAgree
    <3> QED BY <3>2 DEF Total
  <2>7. Total(ts, k) = Sums(Costs(dear), Few(w))[k]
    <3>1. k <= k /\ k <= Few(w) /\ Few(w) \in Nat  BY <1>7, <2>0
    <3> HIDE DEF Few
    <3>2. Sums(ts, k)[k] = Sums(Costs(dear), Few(w))[k]  BY ONLY <2>0, <2>5, <3>1, SumsAgree
    <3> QED BY <3>2 DEF Total
  <2>8. /\ Sums(Costs(dear), Few(w))[k] <= Total(Costs(dear), Few(w))
        /\ Sums(Costs(dear), Few(w))[k] \in Nat /\ Total(Costs(dear), Few(w)) \in Nat
    <3>1. \A i \in 1..Few(w) : Costs(dear)[i] \in Nat  BY <1>9, CostsAre
    <3>2. Few(w) \in 0..Few(w) /\ k <= Few(w) /\ Few(w) \in Nat  BY <1>7, <2>0
    <3> HIDE DEF Few
    <3> QED BY <2>0, <3>1, <3>2, SumsRise DEF Total
  <2>9. Total(Costs(sel), k) \in Nat
    <3>1. \A i \in 1..k : Costs(sel)[i] \in Nat  BY <1>8, CostsAre DEF k
    <3> QED BY <2>0, <3>1, SumsRise
  <2>10. Block(sel) = Frame + Total(Costs(sel), k)  BY <1>8, <1>12, BlockIs DEF k
  <2>11. Block(dear) = Frame + Total(Costs(dear), Few(w))
    <3>1. dear # <<>>
      <4>1. Len(sel) # 0  BY <1>8, <1>12
      <4>2. Few(w) # 0  BY <1>7, <1>8, <4>1
      <4>3. Len(dear) # 0  BY <1>9, <4>2
      <4> QED BY <4>3
    <3> QED BY <1>9, <3>1, BlockIs
  <2>12. Frame \in Nat  BY BudgetAssumption
  <2>13. Block(sel) <= Block(dear)
    <3> HIDE DEF Few
    <3> QED BY <2>3, <2>6, <2>7, <2>8, <2>9, <2>10, <2>11, <2>12
  <2> QED BY <1>1, <1>8, <1>10, <2>13
<1> QED BY <1>11, <1>12

-----------------------------------------------------------------------------
\* Routing: what the router prints.

RouterType == router \in [at : {"idle", "selected", "fitting", "answered"},
                          sel : Seq(Entries), size : Nat]
Printed == router.at = "answered" /\ router.sel # <<>> =>
              Block(router.sel) + router.size + Margin <= Cap
RouterOK == RouterType /\ Printed

\* A block that fits has its place between the catalog and the cap.
LEMMA FitsIs ==
    ASSUME NEW sel \in Seq(Entries), NEW size \in Nat, Fits(sel, Available(size)), sel # <<>>
    PROVE  Block(sel) + size + Margin <= Cap
<1>1. Block(sel) \in Nat /\ Block(sel) > 0 /\ Block(sel) <= Available(size)  BY BlockIs DEF Fits
<1>2. Cap \in Nat /\ Margin \in Nat  BY BudgetAssumption
<1> QED BY <1>1, <1>2 DEF Available, Monus

LEMMA AvailableIs == ASSUME NEW size \in Nat PROVE Available(size) \in Nat
<1>1. Cap \in Nat /\ Margin \in Nat  BY BudgetAssumption
<1> QED BY <1>1 DEF Available, Monus

LEMMA InitRouter == RInit => RouterOK
<1> SUFFICES ASSUME RInit PROVE RouterOK  OBVIOUS
<1>1. router = [at |-> "idle", sel |-> <<>>, size |-> 0]  BY DEF RInit
<1> QED BY <1>1 DEF RouterOK, RouterType, Printed

LEMMA StepRouter == RoutingInv /\ RouterOK /\ [RNext]_rVars => RouterOK'
<1> SUFFICES ASSUME RoutingInv, RouterOK, [RNext]_rVars PROVE RouterOK'  OBVIOUS
<1>0. router.sel \in Seq(Entries) /\ router.size \in Nat /\ RouterType  BY DEF RouterOK, RouterType
<1>1. CASE UNCHANGED router
  BY <1>1 DEF RouterOK, RouterType, Printed
<1>2. ASSUME NEW p \in Prompts, Prompt(p) PROVE RouterOK'
  <2>1. Loaded \in SUBSET Skills  BY DEF Loaded
  <2>2. Select(p, Loaded) \in Seq(Entries)  BY <2>1, WorstIsWorst
  <2>3. router' = router \/ router' = [at |-> "selected", sel |-> Select(p, Loaded), size |-> 0]
    BY <1>2 DEF Prompt
  <2>4. CASE router' = router  BY <1>1, <2>4
  <2>5. CASE router' = [at |-> "selected", sel |-> Select(p, Loaded), size |-> 0]
    BY <2>2, <2>5 DEF RouterOK, RouterType, Printed
  <2> QED BY <2>3, <2>4, <2>5
<1>3. CASE Budget
  <2>1. Order200 \in Nat  BY OrderIsNat DEF RoutingInv
  <2>2. router' = [router EXCEPT !.at = "fitting", !.size = Order200]  BY <1>3 DEF Budget, Routes
  <2> QED BY <1>0, <2>1, <2>2 DEF RouterOK, RouterType, Printed
<1>4. CASE Squeeze
  <2> DEFINE room == Available(router.size)
             less == Squeezed(router.sel, room)
  <2>1. room \in Nat  BY <1>0, AvailableIs
  <2>2. ~Fits(router.sel, room) /\ router.at = "fitting"
        /\ router' = [router EXCEPT !.sel = less]
    BY <1>4 DEF Squeeze, Routes
  <2>3. less \in Seq(Entries)
    <3> HIDE DEF room
    <3> QED BY <1>0, <2>1, <2>2, SqueezedIs
  <2> HIDE DEF less, room
  <2> QED BY <1>0, <2>2, <2>3 DEF RouterOK, RouterType, Printed
<1>5. CASE Answer
  <2> DEFINE taken == Taken(router.sel)
             room == Available(router.size)
  <2>1. Fits(router.sel, room) /\ router' = [router EXCEPT !.at = "answered", !.sel = taken]
    BY <1>5 DEF Answer, Routes
  <2>2. taken \in Seq(Entries) /\ Block(taken) <= Block(router.sel)  BY <1>0, TakenIs
  <2>3. taken # <<>> => Fits(taken, room)
    <3>1. SUFFICES ASSUME taken # <<>> PROVE Fits(taken, room)  OBVIOUS
    <3>2. Block(taken) \in Nat /\ Block(taken) > 0 /\ Block(router.sel) \in Nat
      BY <1>0, <2>2, <3>1, BlockIs
    <3>3. router.sel # <<>>
      <4>1. Block(router.sel) # 0
        <5> HIDE DEF taken
        <5> QED BY <2>2, <3>2
      <4> QED BY <4>1 DEF Block
    <3>4. Block(router.sel) <= room  BY <2>1, <3>3 DEF Fits
    <3>5. room \in Nat  BY <1>0, AvailableIs
    <3> HIDE DEF taken, room
    <3>6. Block(taken) <= room  BY <2>2, <3>2, <3>4, <3>5
    <3> QED BY <3>6 DEF Fits
  <2>4. taken # <<>> => Block(taken) + router.size + Margin <= Cap
    <3> HIDE DEF taken
    <3> QED BY <1>0, <2>2, <2>3, FitsIs
  <2> HIDE DEF taken, room
  <2>5. RouterType'  BY <1>0, <2>1, <2>2 DEF RouterType
  <2>6. router'.sel = taken /\ router'.size = router.size  BY <1>0, <2>1 DEF RouterType
  <2> QED BY <2>4, <2>5, <2>6 DEF RouterOK, Printed
<1>6. ASSUME ~Budget, ~Squeeze, ~Answer, \A p \in Prompts : ~Prompt(p) PROVE UNCHANGED router
  <2>1. CASE UNCHANGED rVars  BY <2>1 DEF rVars
  <2>2. CASE RStep
    BY <2>2 DEF RStep, EnableRecords, EnableWrites, EnableDrops, EnableHooks, EnableConfig,
                DisableFile, DisableHooks, DisableRecords, DisableConfig
  <2>3. ASSUME NEW measured \in BOOLEAN, BeginEnable(measured) PROVE UNCHANGED router
    BY <2>3 DEF BeginEnable
  <2>4. BeginDisable \/ Kill => UNCHANGED router  BY DEF BeginDisable, Kill
  <2>5. Change => UNCHANGED router  BY DEF Change
  <2>6. /\ \A p, c : EditFile(p, c) => Change
        /\ \A d : EditHooks(d) => Change
        /\ AddKey => Change
        /\ \A w : TheWorld(w) => Change
    BY DEF EditFile, EditHooks, AddKey, TheWorld
  <2>7. /\ Upgrade => Change
        /\ Retrust => Change
        /\ \A p : Move(p) => Change
        /\ \A n : Resize(n) => Change
    BY <2>6 DEF Upgrade, Retrust, Move, Resize
  <2> QED BY <1>6, <2>1, <2>2, <2>3, <2>4, <2>5, <2>6, <2>7 DEF RNext
<1> QED BY <1>1, <1>2, <1>3, <1>4, <1>5, <1>6

\* Where D16 finds nothing wrong, the dearest block has its place.
LEMMA SoundIsWhole ==
    ASSUME RoutingInv, config.routing # None, Problems(world.size) = {},
           Order200 = config.routing.size, NEW p \in Prompts
    PROVE  Block(Select(p, Loaded)) <= Available(Order200)
<1>1. Cap - Basis(world.size) - WorstCase(Loaded) >= Margin
      /\ config.routing.size <= Basis(world.size) /\ Basis(world.size) \in Nat
  <2>1. config.routing.size \in Nat /\ world.size \in Nat
    <3>1. config.routing \in Records  BY DEF RoutingInv, RTypeOK, ConfigType
    <3>2. world.size \in Nat  BY RoutingAssumption DEF RoutingInv, RTypeOK, WorldType
    <3> QED BY <3>1, <3>2 DEF Records
  <2>2. Basis(world.size) \in Nat /\ config.routing.size <= Basis(world.size)
    BY <2>1 DEF Basis
  <2>3. ~(Cap - Basis(world.size) - WorstCase(Loaded) < Margin)
    <3>1. "budget" \notin Problems(world.size)  OBVIOUS
    <3> QED BY <3>1 DEF Problems
  <2>4. WorstCase(Loaded) \in Nat
    <3>1. Loaded \in SUBSET Skills  BY DEF Loaded
    <3> QED BY <3>1, WorstIsWorst
  <2>5. Cap \in Nat /\ Margin \in Nat  BY BudgetAssumption
  <2> QED BY <2>2, <2>3, <2>4, <2>5
<1>2. WorstCase(Loaded) \in Nat /\ Block(Select(p, Loaded)) \in Nat
      /\ Block(Select(p, Loaded)) <= WorstCase(Loaded)
  <2>1. Loaded \in SUBSET Skills  BY DEF Loaded
  <2> QED BY <2>1, WorstIsWorst
<1>3. Cap \in Nat /\ Margin \in Nat /\ Order200 \in Nat
  BY BudgetAssumption, OrderIsNat DEF RoutingInv
<1>4. Block(Select(p, Loaded)) + Order200 + Margin <= Cap  BY <1>1, <1>2, <1>3
<1> QED BY <1>2, <1>3, <1>4 DEF Available, Monus

\* The block the router prints fits beside the catalog it budgets against, with
\* the margin free, however the selection had to be trimmed; and where D16
\* finds nothing wrong and both records of the catalog's size agree, no prompt
\* has a selection that needs trimming (routing.rs and routing_doctor.rs).
THEOREM RoutedIsWhole == RoutingSpec => []RoutesWhole
<1>1. RInit => RouterOK  BY InitRouter
<1>2. RoutingInv /\ RouterOK /\ [RNext]_rVars => RouterOK'  BY StepRouter
<1>3. RoutingInv /\ RouterOK => RoutesWhole
  BY SoundIsWhole DEF RouterOK, Printed, RoutesWhole
<1>4. RoutingSpec => []RoutingInv  BY RoutingIsKnown
<1> QED BY <1>1, <1>2, <1>3, <1>4, PTL DEF RoutingSpec
=============================================================================
