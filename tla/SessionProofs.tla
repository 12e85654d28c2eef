---------------------------- MODULE SessionProofs ----------------------------
(***************************************************************************)
(* Proofs about what runs in or around a session of the host.              *)
(*                                                                         *)
(* Hooks: as long as nobody changes the files under them, the three gates  *)
(* together decide a tool call as the files and the rules say, in whatever *)
(* order they run.                                                         *)
(*                                                                         *)
(* Invoke: no session with a prompt is started for a caller that did not   *)
(* ask for one, and what a run of the host reports is so. The walk over a  *)
(* command line and the tree of the processes are recursive functions:     *)
(* that they are what their recursion says is shown by the least position  *)
(* from which they would not be.                                           *)
(*                                                                         *)
(* Mcp: a client that tells its blocks' true length gets each request      *)
(* answered once, in order. The invariant lays the frames that are not yet *)
(* read over the pipe, from the place where the server reads to its end.   *)
(***************************************************************************)
EXTENDS Hooks, Mcp, Invoke, SequenceTheorems, FiniteSetTheorems, WellFoundedInduction, TLAPS

\* The handlers and the session by themselves, without fairness.
HooksSpec == HInit /\ [][HNext]_hVars

-----------------------------------------------------------------------------
(* Types.                                                                  *)

\* The handlers that may run while the session waits.
RunsFor(waits) ==
    CASE waits = "tool" -> Gates
      [] waits = "stop" -> {"stop"}
      [] waits = "log"  -> Logs
      [] waits \in {"work", "over"} -> {}

HTypeOK ==
    /\ dir \in StateDirs \cup {None}
    /\ off \subseteq Handlers
    /\ hook \in [Handlers -> Process \cup {None}]
    /\ session.waits \in {"work", "tool", "stop", "log", "over"}
    /\ DOMAIN session = {"waits", "event"}
    /\ \A h \in Handlers : hook[h] # None => h \in RunsFor(session.waits)

LEMMA NeededSkills == HTypeOK => \A e : Needed(e) \in SUBSET Skills
<1> SUFFICES ASSUME HTypeOK, NEW e PROVE Needed(e) \in SUBSET Skills
  OBVIOUS
<1>1. CASE State(e) = None \/ State(e).gate \in {None, Broken}
  BY <1>1 DEF Needed
<1>2. CASE State(e) # None /\ State(e).gate \notin {None, Broken}
  BY <1>2 DEF Needed, State, HTypeOK, StateDirs
<1> QED
  BY <1>1, <1>2

\* A handler that goes on stays the process it is.
LEMMA AnswersTyped ==
    ASSUME HTypeOK, NEW h \in Handlers, hook[h] # None,
           NEW a \in {"deny", "block", "empty"}, Answered(h, a)
    PROVE  /\ hook' \in [Handlers -> Process \cup {None}]
           /\ hook'[h].at = "done" /\ hook'[h].answer = a /\ hook'[h] # None
           /\ \A g \in Handlers : g # h => hook'[g] = hook[g]
  BY HooksAssumption DEF HTypeOK, Answered, Process

LEMMA ReadsOnTyped ==
    ASSUME HTypeOK, NEW h \in Handlers, hook[h] # None,
           NEW needed \in SUBSET Skills, ReadsOn(h, needed)
    PROVE  /\ hook' \in [Handlers -> Process \cup {None}]
           /\ hook'[h].at = "files" /\ hook'[h].needed = needed /\ hook'[h] # None
           /\ \A g \in Handlers : g # h => hook'[g] = hook[g]
  BY HooksAssumption DEF HTypeOK, ReadsOn, Process

\* Every handler either answers or goes on to the other files.
LEMMA DispatchGoesOn ==
    ASSUME HTypeOK, NEW h \in Handlers, Dispatch(h)
    PROVE  \/ \E a \in {"deny", "block", "empty"} : Answered(h, a)
           \/ \E needed \in SUBSET Skills : ReadsOn(h, needed)
<1>1. Needed(session.event) \in SUBSET Skills /\ {} \in SUBSET Skills
  BY NeededSkills
<1> QED
  BY <1>1 DEF Dispatch, Guard, SkillGate, IntentGate, Stop, Log

\* A process that begins.
LEMMA FreshIsProcess == [at |-> "dispatch", needed |-> {}, answer |-> None] \in Process
  BY DEF Process

LEMMA HTypeInit == HInit => HTypeOK
  BY DEF HInit, HTypeOK, StateDirs

LEMMA HTypeKept == HTypeOK /\ [HNext]_hVars => HTypeOK'
<1> SUFFICES ASSUME HTypeOK, [HNext]_hVars PROVE HTypeOK'
  OBVIOUS
<1>1. CASE UNCHANGED hVars
  BY <1>1 DEF hVars, HTypeOK
<1>2. ASSUME NEW h \in Handlers, Dispatch(h) PROVE HTypeOK'
  <2>1. hook[h] # None /\ UNCHANGED <<dir, session, off>>
    BY <1>2 DEF Dispatch, Quiet
  <2>2. /\ hook' \in [Handlers -> Process \cup {None}]
        /\ \A g \in Handlers : g # h => hook'[g] = hook[g]
    BY <1>2, <2>1, DispatchGoesOn, AnswersTyped, ReadsOnTyped
  <2> QED
    BY <2>1, <2>2 DEF HTypeOK
<1>3. ASSUME NEW h \in Handlers, AppendLine(h) PROVE HTypeOK'
  <2>1. hook[h] # None /\ UNCHANGED <<session, off>> /\ Answered(h, "empty") /\ h \in Logs
    BY <1>3 DEF AppendLine, Quiet
  <2>2. /\ hook' \in [Handlers -> Process \cup {None}]
        /\ \A g \in Handlers : g # h => hook'[g] = hook[g]
    BY <2>1, AnswersTyped
  <2>3. dir' \in StateDirs
    <3>1. CASE dir = None
      BY <1>3, <2>1, <3>1 DEF AppendLine, Fresh, StateDirs
    <3>2. CASE dir # None
      BY <1>3, <2>1, <3>2 DEF AppendLine, HTypeOK, StateDirs
    <3> QED
      BY <3>1, <3>2
  <2> QED
    BY <2>1, <2>2, <2>3 DEF HTypeOK
<1>4. CASE ReadSkills
  <2>1. /\ "skill-gate" \in Handlers /\ hook["skill-gate"] # None
        /\ UNCHANGED <<dir, session, off>>
        /\ \E a \in {"deny", "block", "empty"} : Answered("skill-gate", a)
    BY <1>4 DEF ReadSkills, Quiet, Handlers, Gates
  <2>2. /\ hook' \in [Handlers -> Process \cup {None}]
        /\ \A g \in Handlers : g # "skill-gate" => hook'[g] = hook[g]
    BY <2>1, AnswersTyped
  <2> QED
    BY <2>1, <2>2 DEF HTypeOK
<1>5. CASE LookForPlan
  <2>1. /\ "intent-gate" \in Handlers /\ hook["intent-gate"] # None
        /\ UNCHANGED <<dir, session, off>>
        /\ \E a \in {"deny", "block", "empty"} : Answered("intent-gate", a)
    BY <1>5 DEF LookForPlan, Quiet, Handlers, Gates
  <2>2. /\ hook' \in [Handlers -> Process \cup {None}]
        /\ \A g \in Handlers : g # "intent-gate" => hook'[g] = hook[g]
    BY <2>1, AnswersTyped
  <2> QED
    BY <2>1, <2>2 DEF HTypeOK
<1>6. CASE ToolRuns \/ ToolDenied \/ Logged \/ Stopped
  BY <1>6 DEF ToolRuns, ToolDenied, Logged, Stopped, Back, Idle, Quiet, HTypeOK
<1>7. CASE Continues
  <2>1. /\ session'.waits = "stop" /\ DOMAIN session' = DOMAIN session
        /\ UNCHANGED <<dir, off>>
    BY <1>7 DEF Continues, Quiet, HTypeOK
  <2>2. hook' \in [Handlers -> Process \cup {None}]
        /\ \A h \in Handlers : hook'[h] # None => h = "stop"
    BY <1>7, FreshIsProcess DEF Continues
  <2> QED
    BY <2>1, <2>2 DEF HTypeOK, RunsFor
<1>8. ASSUME NEW waits \in {"tool", "stop", "log"}, NEW handlers, NEW e,
             Starts(waits, handlers, e), handlers \subseteq RunsFor(waits)
      PROVE  HTypeOK'
  <2>1. hook' \in [Handlers -> Process \cup {None}]
        /\ \A h \in Handlers : hook'[h] # None => h \in handlers
    BY <1>8, FreshIsProcess DEF Starts
  <2> QED
    BY <1>8, <2>1 DEF Starts, HTypeOK
<1>9. ASSUME NEW s \in Shape, NEW call \in Calls, CallTool(call, s) PROVE HTypeOK'
  BY <1>8, <1>9 DEF CallTool, RunsFor
<1>10. ASSUME NEW s \in Shape, NEW m \in Messages, Wants(m, s) PROVE HTypeOK'
  BY <1>8, <1>10 DEF Wants, RunsFor
<1>11. ASSUME NEW s \in Shape, NEW h \in Logs, Happens(h, s) PROVE HTypeOK'
  BY <1>8, <1>11 DEF Happens, RunsFor
<1>12. ASSUME NEW d \in StateDirs, Writes(d) PROVE HTypeOK'
  BY <1>12 DEF Writes, Changes, HTypeOK
<1>13. ASSUME NEW g \in {None, Broken} \cup SUBSET Skills, SetGate(g) \/ MarkRead(g)
       PROVE  HTypeOK'
  <2>1. [dir EXCEPT !.gate = g] \in StateDirs /\ [dir EXCEPT !.read = g] \in StateDirs
    BY <1>13 DEF SetGate, MarkRead, HTypeOK, StateDirs
  <2> QED
    BY <1>12, <1>13, <2>1 DEF SetGate, MarkRead
<1>14. CASE SetIntent \/ WritePlan \/ OptIn
  <2>1. dir # None => /\ [dir EXCEPT !.planned = ~@] \in StateDirs
                      /\ [dir EXCEPT !.plan = ~@] \in StateDirs
    BY DEF HTypeOK, StateDirs
  <2>2. [Fresh("stop") EXCEPT !.logged = {}] \in StateDirs
    BY DEF Fresh, StateDirs
  <2> QED
    BY <1>12, <1>14, <2>1, <2>2 DEF SetIntent, WritePlan, OptIn
<1>15. ASSUME NEW v \in {"pending", "closed", Broken}, SetVerify(v) PROVE HTypeOK'
  <2>1. [dir EXCEPT !.verify = v] \in StateDirs
    BY <1>15 DEF SetVerify, HTypeOK, StateDirs
  <2> QED
    BY <1>12, <1>15, <2>1 DEF SetVerify
<1>16. CASE OptOut
  BY <1>16 DEF OptOut, Changes, HTypeOK
<1>17. ASSUME NEW h \in {"guard", "skill-gate", "stop"}, Switch(h) PROVE HTypeOK'
  BY <1>17 DEF Switch, Changes, HTypeOK, Handlers, Gates
<1> QED
  BY <1>1, <1>2, <1>3, <1>4, <1>5, <1>6, <1>7, <1>9, <1>10, <1>11, <1>13, <1>14, <1>15,
     <1>16, <1>17
  DEF HNext, HStep

\* The handlers keep their types, whatever the events, the files and the lines.
THEOREM TypeCorrect == HooksSpec => []HTypeOK
  BY HTypeInit, HTypeKept, PTL DEF HooksSpec

-----------------------------------------------------------------------------
(* The gates of a tool call.                                               *)

\* What each gate has to say of an event, as the files are.
Denies(h, e) ==
    /\ h \notin off
    /\ CASE h = "guard" -> ~e.whole \/ (e.call.tool = "bash" /\ Judged(e.call.line, e.cwd))
         [] h = "skill-gate" -> e.whole /\ Mutating(e.call) /\ ~(Needed(e) \subseteq Read(e))
         [] h = "intent-gate" -> e.whole /\ Mutating(e.call) /\ PlanMissing(e)

\* A gate that has answered has said so; one that is at its other files has
\* from the first what they are needed for.
GateRight(h, e) ==
    /\ hook[h] # None
    /\ hook[h].at = "done" => (hook[h].answer = "deny" <=> Denies(h, e))
    /\ hook[h].at = "files" =>
          /\ h \in {"skill-gate", "intent-gate"} \ off /\ e.whole /\ Mutating(e.call)
          /\ h = "skill-gate" => hook[h].needed = Needed(e)

GatesRight ==
    session.waits = "tool" =>
        \A h \in Gates :
            /\ hook[h] # None
            /\ steady => GateRight(h, session.event)

\* A step that leaves the files, the event and a gate leaves what it is to say.
LEMMA GateStays ==
    ASSUME NEW h \in Gates, UNCHANGED <<dir, off, session>>, hook'[h] = hook[h],
           GateRight(h, session.event)
    PROVE  GateRight(h, session.event)'
  BY DEF GateRight, Denies, Needed, Read, PlanMissing, State

\* What a handler says when it has looked at the gate's file, and the event.
LEMMA DispatchRight ==
    ASSUME HTypeOK, NEW h \in Gates, Dispatch(h), session.waits = "tool"
    PROVE  GateRight(h, session.event)'
<1> DEFINE e == session.event
<1>1. /\ h \in Handlers /\ hook[h] # None /\ UNCHANGED <<dir, session, off>>
      /\ Needed(e) \in SUBSET Skills
  BY NeededSkills DEF Dispatch, Quiet, Handlers
<1>2. Denies(h, e)' <=> Denies(h, e)
  BY <1>1 DEF Denies, Needed, Read, PlanMissing, State
<1>3. ASSUME NEW a \in {"deny", "empty"}, Answered(h, a), (a = "deny") <=> Denies(h, e)
      PROVE  GateRight(h, session.event)'
  BY <1>1, <1>2, <1>3, AnswersTyped DEF GateRight
<1>4. CASE h \in off
  <2>1. Answered(h, "empty")
    BY <1>4 DEF Dispatch, Disabled
  <2> QED
    BY <1>3, <1>4, <2>1 DEF Denies
<1>5. CASE h = "guard" /\ h \notin off
  <2>1. Guard(e)
    BY <1>5 DEF Dispatch, Disabled
  <2>2. CASE e.whole /\ (e.call.tool # "bash" \/ ~Judged(e.call.line, e.cwd))
    <3>1. Answered(h, "empty")
      BY <1>5, <2>1, <2>2 DEF Guard
    <3>2. ~Denies(h, e)
      BY <1>5, <2>2 DEF Denies
    <3> QED
      BY <1>3, <3>1, <3>2
  <2>3. CASE ~(e.whole /\ (e.call.tool # "bash" \/ ~Judged(e.call.line, e.cwd)))
    <3>1. Answered(h, "deny")
      BY <1>5, <2>1, <2>3 DEF Guard
    <3>2. Denies(h, e)
      BY <1>5, <2>3 DEF Denies
    <3> QED
      BY <1>3, <3>1, <3>2
  <2> QED
    BY <2>2, <2>3
<1>6. CASE h = "skill-gate" /\ h \notin off
  <2>1. SkillGate(e)
    BY <1>6 DEF Dispatch, Disabled
  <2>2. CASE e.whole /\ Mutating(e.call) /\ Needed(e) # {}
    <3>1. ReadsOn(h, Needed(e))
      BY <1>6, <2>1, <2>2 DEF SkillGate
    <3>2. hook'[h] # None /\ hook'[h].at = "files" /\ hook'[h].needed = Needed(e)
      BY <1>1, <3>1, ReadsOnTyped
    <3> QED
      BY <1>1, <1>6, <2>2, <3>2 DEF GateRight, Needed, State
  <2>3. CASE ~(e.whole /\ Mutating(e.call) /\ Needed(e) # {})
    <3>1. Answered(h, "empty") /\ ~Denies(h, e)
      BY <1>6, <2>1, <2>3 DEF SkillGate, Denies
    <3> QED
      BY <1>3, <3>1
  <2> QED
    BY <2>2, <2>3
<1>7. CASE h = "intent-gate" /\ h \notin off
  <2>1. IntentGate(e)
    BY <1>7 DEF Dispatch, Disabled
  <2>2. CASE e.whole /\ Mutating(e.call) /\ PlanMissing(e)
    <3>1. ReadsOn(h, {})
      BY <1>7, <2>1, <2>2 DEF IntentGate
    <3>2. hook'[h] # None /\ hook'[h].at = "files"
      BY <1>1, <3>1, ReadsOnTyped
    <3> QED
      BY <1>1, <1>7, <2>2, <3>2 DEF GateRight
  <2>3. CASE ~(e.whole /\ Mutating(e.call) /\ PlanMissing(e))
    <3>1. Answered(h, "empty") /\ ~Denies(h, e)
      BY <1>7, <2>1, <2>3 DEF IntentGate, Denies
    <3> QED
      BY <1>3, <3>1
  <2> QED
    BY <2>2, <2>3
<1> QED
  BY <1>4, <1>5, <1>6, <1>7 DEF Gates

\* What the two gates say that look at further files.
LEMMA ReadRight ==
    ASSUME HTypeOK, GatesRight, ReadSkills, session.waits = "tool", steady
    PROVE  GateRight("skill-gate", session.event)'
<1> DEFINE e == session.event
           h == "skill-gate"
<1>1. /\ h \in Handlers /\ h \in Gates /\ hook[h] # None /\ hook[h].at = "files"
      /\ UNCHANGED <<dir, session, off>>
  BY DEF ReadSkills, Quiet, Handlers, Gates
<1>2. h \notin off /\ e.whole /\ Mutating(e.call) /\ hook[h].needed = Needed(e)
  BY <1>1 DEF GatesRight, GateRight
<1>3. \E a \in {"deny", "empty"} : Answered(h, a) /\ ((a = "deny") <=> Denies(h, e))
  BY <1>2 DEF ReadSkills, Denies
<1>4. Denies(h, e)' <=> Denies(h, e)
  BY <1>1 DEF Denies, Needed, Read, PlanMissing, State
<1> QED
  BY <1>1, <1>3, <1>4, AnswersTyped DEF GateRight

LEMMA PlanRight ==
    ASSUME HTypeOK, GatesRight, LookForPlan, session.waits = "tool", steady
    PROVE  GateRight("intent-gate", session.event)'
<1> DEFINE e == session.event
           h == "intent-gate"
<1>1. /\ h \in Handlers /\ h \in Gates /\ hook[h] # None /\ hook[h].at = "files"
      /\ UNCHANGED <<dir, session, off>>
  BY DEF LookForPlan, Quiet, Handlers, Gates
<1>2. h \notin off /\ e.whole /\ Mutating(e.call)
  BY <1>1 DEF GatesRight, GateRight
<1>3. \E a \in {"deny", "empty"} : Answered(h, a) /\ ((a = "deny") <=> Denies(h, e))
  BY <1>2 DEF LookForPlan, Denies
<1>4. Denies(h, e)' <=> Denies(h, e)
  BY <1>1 DEF Denies, Needed, Read, PlanMissing, State
<1> QED
  BY <1>1, <1>3, <1>4, AnswersTyped DEF GateRight

\* One gate goes on, and the others are as they were.
LEMMA OneGoesOn ==
    ASSUME GatesRight, NEW h \in Handlers, UNCHANGED <<dir, session, off, steady>>,
           hook'[h] # None, \A g \in Handlers : g # h => hook'[g] = hook[g],
           session.waits = "tool" /\ steady /\ h \in Gates =>
               GateRight(h, session.event)'
    PROVE  GatesRight'
<1> SUFFICES ASSUME session'.waits = "tool", NEW g \in Gates
             PROVE  hook'[g] # None /\ (steady' => GateRight(g, session.event)')
  BY DEF GatesRight
<1>1. g \in Handlers /\ session.waits = "tool"
  BY DEF Handlers
<1>2. CASE g = h
  BY <1>1, <1>2
<1>3. CASE g # h
  BY <1>1, <1>3, GateStays DEF GatesRight
<1> QED
  BY <1>2, <1>3

LEMMA GatesKept == HTypeOK /\ GatesRight /\ [HNext]_hVars => GatesRight'
<1> SUFFICES ASSUME HTypeOK, GatesRight, [HNext]_hVars PROVE GatesRight'
  OBVIOUS
<1>1. CASE UNCHANGED hVars
  BY <1>1, GateStays DEF hVars, GatesRight
<1>2. ASSUME NEW h \in Handlers, Dispatch(h) PROVE GatesRight'
  <2>1. hook[h] # None /\ UNCHANGED <<dir, session, off, steady>>
    BY <1>2 DEF Dispatch, Quiet
  <2>2. hook'[h] # None /\ \A g \in Handlers : g # h => hook'[g] = hook[g]
    BY <1>2, <2>1, DispatchGoesOn, AnswersTyped, ReadsOnTyped
  <2> QED
    BY <1>2, <2>1, <2>2, DispatchRight, OneGoesOn
<1>3. CASE ReadSkills
  <2>1. /\ "skill-gate" \in Handlers /\ hook["skill-gate"] # None
        /\ UNCHANGED <<dir, session, off, steady>>
        /\ \E a \in {"deny", "block", "empty"} : Answered("skill-gate", a)
    BY <1>3 DEF ReadSkills, Quiet, Handlers, Gates
  <2> QED
    BY <1>3, <2>1, AnswersTyped, ReadRight, OneGoesOn
<1>4. CASE LookForPlan
  <2>1. /\ "intent-gate" \in Handlers /\ hook["intent-gate"] # None
        /\ UNCHANGED <<dir, session, off, steady>>
        /\ \E a \in {"deny", "block", "empty"} : Answered("intent-gate", a)
    BY <1>4 DEF LookForPlan, Quiet, Handlers, Gates
  <2> QED
    BY <1>4, <2>1, AnswersTyped, PlanRight, OneGoesOn
<1>5. ASSUME NEW h \in Handlers, AppendLine(h) PROVE GatesRight'
  <2>1. session'.waits # "tool"
    BY <1>5 DEF AppendLine, HTypeOK, RunsFor, Logs, Gates
  <2> QED
    BY <2>1 DEF GatesRight
<1>6. CASE ToolRuns \/ ToolDenied \/ Logged \/ Stopped \/ Continues
  <2>1. session'.waits # "tool"
    BY <1>6 DEF ToolRuns, ToolDenied, Logged, Stopped, Continues, Back, HTypeOK
  <2> QED
    BY <2>1 DEF GatesRight
<1>7. ASSUME NEW s \in Shape, NEW call \in Calls, CallTool(call, s) PROVE GatesRight'
  <2>1. ASSUME NEW h \in Gates
        PROVE  hook'[h] # None /\ hook'[h].at = "dispatch"
    <3>1. hook'[h] = [at |-> "dispatch", needed |-> {}, answer |-> None]
      BY <1>7 DEF CallTool, Starts, Handlers
    <3> QED
      BY <3>1, FreshIsProcess, HooksAssumption
  <2> QED
    BY <2>1 DEF GatesRight, GateRight
<1>8. ASSUME NEW s \in Shape,
             (\E m \in Messages : Wants(m, s)) \/ (\E h \in Logs : Happens(h, s))
      PROVE  GatesRight'
  <2>1. session'.waits # "tool"
    BY <1>8 DEF Wants, Happens, Starts
  <2> QED
    BY <2>1 DEF GatesRight
<1>9. CASE Changes
  BY <1>9 DEF Changes, GatesRight
<1> QED
  BY <1>1, <1>2, <1>3, <1>4, <1>5, <1>6, <1>7, <1>8, <1>9
  DEF HNext, HStep, SetGate, MarkRead, SetIntent, WritePlan, OptIn, OptOut, SetVerify,
      Switch, Writes

\* As long as nobody changes the files the gates are right, at every step.
THEOREM GatesStayRight == HooksSpec => [](HTypeOK /\ GatesRight)
<1>1. HInit => GatesRight
  BY DEF HInit, GatesRight
<1> QED
  BY <1>1, HTypeInit, HTypeKept, GatesKept, PTL DEF HooksSpec

\* Three gates that all have answered deny a call exactly if the files and the
\* rules forbid it.
LEMMA TogetherRight ==
    ASSUME HTypeOK, GatesRight, steady, session.waits = "tool", Ready
    PROVE  "deny" \in Answers <=> Forbidden(session.event)
<1> DEFINE e == session.event
<1>1. \A h \in Gates : hook[h] # None /\ (hook[h].answer = "deny" <=> Denies(h, e))
  BY DEF GatesRight, GateRight, Ready, Handlers
<1>2. \A h \in Handlers : hook[h] # None => h \in Gates
  BY DEF HTypeOK, RunsFor
<1>3. Forbidden(e) <=> \E h \in Gates : Denies(h, e)
  BY DEF Forbidden, Denies, Gates
<1>4. "deny" \in Answers <=> \E h \in Handlers : hook[h] # None /\ hook[h].answer = "deny"
  BY DEF Answers
<1> QED
  BY <1>1, <1>2, <1>3, <1>4 DEF Handlers

\* A tool runs, with nobody changing the files meanwhile, exactly when they and
\* the rules allow it, whichever handlers answer first (GatesDecide).
THEOREM GatesAlwaysDecide == HooksSpec => GatesDecide
<1>1. HTypeOK /\ GatesRight =>
        (steady => /\ ToolRuns => ~Forbidden(session.event)
                   /\ ToolDenied => Forbidden(session.event))
  BY TogetherRight DEF ToolRuns, ToolDenied
<1> QED
  BY <1>1, GatesStayRight, PTL DEF GatesDecide

-----------------------------------------------------------------------------
\* Invoke: lemmas about the command line.

\* Of some numbers one is the least.
LEMMA Least ==
    ASSUME NEW some \in SUBSET Nat, some # {}
    PROVE  \E m \in some : \A k \in some : m <= k
<1>1. PICK n \in some : TRUE  OBVIOUS
<1> DEFINE low == {k \in some : k <= n}
           below == {0..k : k \in low}
<1>2. n \in Nat /\ IsFiniteSet(0..n)  BY <1>1, FS_Interval
<1>3. IsWellFoundedOn(StrictSubsetOrdering(0..n), SUBSET (0..n))
  BY <1>2, FS_StrictSubsetOrderingWellFounded, FS_FiniteSubsetsOfFinite
<1>4. below \subseteq SUBSET (0..n) /\ below # {}
  BY <1>1
<1>5. \E x \in below : \A y \in below : ~(<<y, x>> \in StrictSubsetOrdering(0..n))
  <2> HIDE DEF below
  <2> QED BY <1>3, <1>4, WFMin
<1>6. PICK m \in low : \A k \in low : ~(<<0..k, 0..m>> \in StrictSubsetOrdering(0..n))
  BY <1>5
<1>7. ASSUME NEW k \in some, ~(m <= k) PROVE FALSE
  <2>1. k \in Nat /\ m \in Nat /\ k < m /\ k \in low  BY <1>2, <1>6, <1>7
  <2>2. 0..k \subseteq 0..m /\ 0..k # 0..m /\ 0..m \subseteq 0..n  BY <1>2, <1>6, <2>1
  <2>3. <<0..k, 0..m>> \in StrictSubsetOrdering(0..n)
    BY <2>2 DEF StrictSubsetOrdering
  <2> QED BY <1>6, <2>1, <2>3
<1> QED BY <1>6, <1>7

\* Of those up to a bound one is the greatest.
LEMMA Greatest ==
    ASSUME NEW n \in Nat, NEW some \in SUBSET (0..n), some # {}
    PROVE  \E m \in some : \A k \in some : k <= m
<1> DEFINE from == {n - k : k \in some}
<1>1. from \in SUBSET Nat /\ from # {}
  <2>1. \A k \in some : n - k \in Nat  OBVIOUS
  <2> QED BY <2>1
<1>2. PICK x \in from : \A y \in from : x <= y
  <2> HIDE DEF from
  <2> QED BY <1>1, Least
<1>3. PICK m \in some : x = n - m  BY <1>2
<1>4. \A k \in some : n - m <= n - k  BY <1>2, <1>3
<1> QED BY <1>3, <1>4

\* One step of the walk, and of the host's reading.
VerdictBody(argv, f, i) ==
    IF i > Len(argv) \/ argv[i] = "resume" THEN "allowed"
    ELSE IF argv[i] \in Flags THEN f[IF TakesNext(argv, i) THEN i + 2 ELSE i + 1]
    ELSE IF argv[i] \in {"marker", "command"} THEN "refused" ELSE "prompt"
TakenBody(argv, f, i) == i > 1 /\ ~f[i - 1] /\ TakesNext(argv, i - 1)

\* The walk says at each position what its step says.
LEMMA VerdictsAre ==
    ASSUME NEW argv \in Seq(Tokens), NEW p \in 1..(Len(argv) + 2)
    PROVE  Verdicts(argv)[p] = VerdictBody(argv, Verdicts(argv), p)
<1> DEFINE last == Len(argv) + 2
           Part(k) == \E g : g = [i \in k..last |-> VerdictBody(argv, g, i)]
           bad == {j \in 0..(last - 1) : ~Part(last - j)}
<1>1. Len(argv) \in Nat /\ last \in Nat  OBVIOUS
<1>2. Part(last)
  <2>1. [i \in last..last |-> "allowed"] =
          [i \in last..last |-> VerdictBody(argv, [j \in last..last |-> "allowed"], i)]
    BY <1>1 DEF VerdictBody
  <2> QED BY <2>1
<1>3. ASSUME NEW k \in 1..(last - 1), Part(k + 1) PROVE Part(k)
  <2>1. PICK g : g = [i \in (k + 1)..last |-> VerdictBody(argv, g, i)]  BY <1>3
  <2> DEFINE h == [i \in k..last |-> IF i = k THEN VerdictBody(argv, g, k) ELSE g[i]]
  <2>2. \A i \in (k + 1)..last : h[i] = g[i]  BY <1>1
  <2>3. \A i \in k..last : VerdictBody(argv, h, i) = VerdictBody(argv, g, i)
    <3>1. SUFFICES ASSUME NEW i \in k..last PROVE VerdictBody(argv, h, i) = VerdictBody(argv, g, i)
      OBVIOUS
    <3>2. CASE i > Len(argv)  BY <3>2 DEF VerdictBody
    <3>3. CASE i <= Len(argv)
      <4>1. h[i + 1] = g[i + 1] /\ h[i + 2] = g[i + 2]  BY <1>1, <2>2, <3>3
      <4> HIDE DEF h
      <4> QED BY <4>1 DEF VerdictBody
    <3> QED BY <1>1, <3>2, <3>3
  <2>4. \A i \in k..last : h[i] = VerdictBody(argv, g, i)
    <3>1. \A i \in (k + 1)..last : g[i] = VerdictBody(argv, g, i)  BY <2>1
    <3> QED BY <1>1, <2>2, <3>1
  <2>5. h = [i \in k..last |-> h[i]]  OBVIOUS
  <2> HIDE DEF h
  <2>6. h = [i \in k..last |-> VerdictBody(argv, h, i)]  BY <2>3, <2>4, <2>5
  <2> QED BY <2>6
<1>4. Part(1)
  <2>1. SUFFICES ASSUME ~Part(1) PROVE FALSE  OBVIOUS
  <2> HIDE DEF Part
  <2>2. last - 1 \in bad  BY <1>1, <2>1
  <2>3. PICK m \in bad : \A j \in bad : m <= j
    <3>1. bad \in SUBSET Nat  OBVIOUS
    <3> HIDE DEF bad
    <3> QED BY <2>2, <3>1, Least
  <2>4. m # 0 /\ m \in Nat /\ m <= last - 1  BY <1>1, <1>2, <2>3
  <2>5. m - 1 \notin bad /\ m - 1 \in 0..(last - 1)  BY <1>1, <2>3, <2>4
  <2>6. Part(last - (m - 1))  BY <2>5
  <2>7. Part((last - m) + 1)  BY <1>1, <2>4, <2>6
  <2>8. Part(last - m)  BY <1>1, <1>3, <2>4, <2>7
  <2> QED BY <2>3, <2>8
<1>5. Verdicts(argv) = CHOOSE g : g = [i \in 1..last |-> VerdictBody(argv, g, i)]
  BY DEF Verdicts, VerdictBody
<1>6. Verdicts(argv) = [i \in 1..last |-> VerdictBody(argv, Verdicts(argv), i)]
  BY <1>4, <1>5, Zenon
<1> HIDE DEF last
<1>7. p \in 1..last  BY DEF last
<1> QED BY <1>6, <1>7

\* Nor is a token taken but by the one before it.
LEMMA TakenAre ==
    ASSUME NEW argv \in Seq(Tokens), NEW p \in 1..Len(argv)
    PROVE  Taken(argv)[p] = TakenBody(argv, Taken(argv), p)
<1> DEFINE n == Len(argv)
           Part(k) == \E g : g = [i \in 1..k |-> TakenBody(argv, g, i)]
           bad == {j \in 0..n : ~Part(j)}
<1>1. n \in Nat  OBVIOUS
<1>2. Part(0)
  <2>1. [i \in 1..0 |-> FALSE] = [i \in 1..0 |-> TakenBody(argv, [j \in 1..0 |-> FALSE], i)]
    OBVIOUS
  <2> QED BY <2>1
<1>3. ASSUME NEW k \in 0..(n - 1), Part(k) PROVE Part(k + 1)
  <2>1. PICK g : g = [i \in 1..k |-> TakenBody(argv, g, i)]  BY <1>3
  <2> DEFINE h == [i \in 1..(k + 1) |-> IF i = k + 1 THEN TakenBody(argv, g, k + 1) ELSE g[i]]
  <2>2. \A i \in 1..k : h[i] = g[i]  BY <1>1
  <2>3. \A i \in 1..(k + 1) : TakenBody(argv, h, i) = TakenBody(argv, g, i)
    <3>1. SUFFICES ASSUME NEW i \in 1..(k + 1) PROVE TakenBody(argv, h, i) = TakenBody(argv, g, i)
      OBVIOUS
    <3>2. i > 1 => h[i - 1] = g[i - 1]  BY <1>1, <2>2
    <3> HIDE DEF h
    <3> QED BY <3>2 DEF TakenBody
  <2>4. \A i \in 1..(k + 1) : h[i] = TakenBody(argv, g, i)
    <3>1. \A i \in 1..k : g[i] = TakenBody(argv, g, i)  BY <2>1
    <3> QED BY <1>1, <2>2, <3>1
  <2>5. h = [i \in 1..(k + 1) |-> h[i]]  OBVIOUS
  <2> HIDE DEF h
  <2>6. h = [i \in 1..(k + 1) |-> TakenBody(argv, h, i)]  BY <2>3, <2>4, <2>5
  <2> QED BY <2>6
<1>4. Part(n)
  <2>1. SUFFICES ASSUME ~Part(n) PROVE FALSE  OBVIOUS
  <2> HIDE DEF Part
  <2>2. n \in bad  BY <1>1, <2>1
  <2>3. PICK m \in bad : \A j \in bad : m <= j
    <3>1. bad \in SUBSET Nat  OBVIOUS
    <3> HIDE DEF bad
    <3> QED BY <2>2, <3>1, Least
  <2>4. m # 0 /\ m \in Nat /\ m <= n  BY <1>1, <1>2, <2>3
  <2>5. m - 1 \notin bad /\ m - 1 \in 0..(n - 1)  BY <1>1, <2>3, <2>4
  <2>6. Part(m - 1)  BY <1>1, <2>5
  <2>7. Part((m - 1) + 1)  BY <1>3, <2>5, <2>6
  <2>8. Part(m)  BY <2>4, <2>7
  <2> QED BY <2>3, <2>8
<1>5. Taken(argv) = CHOOSE g : g = [i \in 1..n |-> TakenBody(argv, g, i)]
  BY DEF Taken, TakenBody
<1>6. Taken(argv) = [i \in 1..n |-> TakenBody(argv, Taken(argv), i)]
  BY <1>4, <1>5, Zenon
<1> HIDE DEF n
<1>7. p \in 1..n  BY DEF n
<1> QED BY <1>6, <1>7

LEMMA MinIs ==
    ASSUME NEW some \in SUBSET Nat, some # {}
    PROVE  Min(some) \in some /\ \A k \in some : Min(some) <= k
<1>1. \E m \in some : \A k \in some : m <= k  BY Least
<1> QED BY <1>1, Zenon DEF Min

\* Where the host reads a prompt, the walk does not come by it.
LEMMA PromptsAreSeen ==
    ASSUME NEW argv \in Seq(Tokens), Prompted(argv)
    PROVE  Walk(argv) # "allowed" /\ argv[1] \notin {"command", "resume"}
<1> DEFINE n == Len(argv)
           v == Verdicts(argv)
           taken == Taken(argv)
           m == Min(Loose(argv))
<1>1. /\ m \in 1..n /\ argv[m] \in {"word", "value", "marker"} /\ ~taken[m]
      /\ \A i \in 1..n : i < m /\ ~taken[i] => argv[i] \in Flags
  <2>1. Loose(argv) \in SUBSET Nat /\ Loose(argv) # {} /\ argv[m] \in {"word", "value", "marker"}
    BY DEF Loose, Prompted
  <2>2. m \in Loose(argv) /\ \A k \in Loose(argv) : m <= k  BY <2>1, MinIs
  <2> HIDE DEF m
  <2> QED BY <2>1, <2>2 DEF Loose
<1>2. n \in Nat  OBVIOUS
<1>3. \A i \in 1..(n + 2) : v[i] = VerdictBody(argv, v, i)  BY VerdictsAre
<1>4. \A i \in 1..n : taken[i] = TakenBody(argv, taken, i)  BY TakenAre
<1> HIDE DEF n, v, taken, m
<1>5. ASSUME NEW i \in 1..n, i < m, ~taken[i]
      PROVE  \E j \in (i + 1)..m : ~taken[j] /\ v[j] = v[i]
  <2>1. argv[i] \in Flags /\ i + 1 \in 1..n /\ m \in Nat  BY <1>1, <1>2, <1>5
  <2>2. v[i] = v[IF TakesNext(argv, i) THEN i + 2 ELSE i + 1]
    <3>1. v[i] = VerdictBody(argv, v, i)  BY <1>2, <1>3, <1>5
    <3>2. i <= Len(argv) /\ argv[i] # "resume"  BY <1>2, <1>5, <2>1 DEF n, Flags
    <3> QED BY <2>1, <3>1, <3>2 DEF VerdictBody
  <2>3. taken[i + 1] = TakesNext(argv, i)
    <3>1. taken[i + 1] = TakenBody(argv, taken, i + 1)  BY <1>4, <2>1
    <3>2. (i + 1) - 1 = i /\ i + 1 > 1  BY <1>5
    <3> QED BY <1>5, <3>1, <3>2 DEF TakenBody, TakesNext
  <2>4. CASE ~TakesNext(argv, i)
    <3>1. i + 1 \in (i + 1)..m  BY <1>5, <2>1
    <3> QED BY <2>2, <2>3, <2>4, <3>1
  <2>5. CASE TakesNext(argv, i)
    <3>1. i + 1 # m  BY <1>1, <2>3, <2>5
    <3>2. i + 2 \in 1..n /\ i + 2 \in (i + 1)..m  BY <1>1, <1>2, <1>5, <2>1, <3>1
    <3>3. ~taken[i + 2]
      <4>1. taken[i + 2] = TakenBody(argv, taken, i + 2)  BY <1>4, <3>2
      <4>2. (i + 2) - 1 = i + 1  BY <1>5
      <4> QED BY <2>3, <2>5, <4>1, <4>2 DEF TakenBody
    <3> QED BY <2>2, <2>5, <3>2, <3>3
  <2> QED BY <2>4, <2>5
<1>6. n >= 1 /\ ~taken[1]
  <2>1. 1 \in 1..n  BY <1>1, <1>2
  <2>2. taken[1] = TakenBody(argv, taken, 1)  BY <1>4, <2>1
  <2>3. ~TakenBody(argv, taken, 1)  BY DEF TakenBody
  <2>4. n >= 1  BY <1>2, <2>1
  <2> QED BY <2>2, <2>3, <2>4
<1>7. v[1] = v[m]
  <2> DEFINE same == {i \in 0..m : i \in 1..m /\ ~taken[i] /\ v[i] = v[1]}
  <2>1. m \in Nat /\ same \in SUBSET (0..m) /\ 1 \in same  BY <1>1, <1>2, <1>6
  <2>2. PICK g \in same : \A k \in same : k <= g
    <3> HIDE DEF same
    <3> QED BY <2>1, Greatest
  <2>3. CASE g = m  BY <2>2, <2>3
  <2>4. CASE g # m
    <3>1. g \in 1..n /\ g < m /\ ~taken[g] /\ v[g] = v[1]  BY <1>1, <1>2, <2>2, <2>4
    <3>2. PICK j \in (g + 1)..m : ~taken[j] /\ v[j] = v[g]  BY <1>5, <3>1
    <3>3. j \in same /\ j > g  BY <2>1, <3>1, <3>2
    <3> QED BY <2>1, <2>2, <3>1, <3>3
  <2> QED BY <2>3, <2>4
<1>8. v[m] # "allowed"
  <2>1. v[m] = VerdictBody(argv, v, m)  BY <1>1, <1>2, <1>3
  <2>2. m <= Len(argv) /\ argv[m] # "resume" /\ argv[m] \notin Flags
    BY <1>1, <1>2 DEF n, Flags
  <2>3. ~(m > Len(argv))  BY <1>1, <1>2 DEF n
  <2> QED BY <2>1, <2>2, <2>3 DEF VerdictBody
<1>9. argv[1] \notin {"command", "resume"}
  <2>1. CASE m = 1  BY <1>1, <2>1
  <2>2. CASE m # 1
    <3>1. argv[1] \in Flags  BY <1>1, <1>2, <1>6, <2>2
    <3> QED BY <3>1 DEF Flags
  <2> QED BY <2>1, <2>2
<1> QED BY <1>7, <1>8, <1>9 DEF Walk, v

-----------------------------------------------------------------------------
\* Invoke: what is so at every step of a run.

Lives  == {"unborn", "live", "dying", "dead"}
Places == {"idle", "run", "snapshot", "kill", "walk", "sweep", "eof", "over"}
Living(ps, p) == ps[p].life \in {"live", "dying"}

ProcType == proc \in [Pids -> [life : Lives, parent : Pids \cup {InitPid}, pipe : BOOLEAN]]
PipeType == pipe \in [written : Nat, inside : Nat, kept : Nat, dropped : Nat,
                      detached : BOOLEAN, eof : BOOLEAN]
RunType  == run \in [at : Places, result : {"none", "refused", "ok", "failed", "timeout"},
                     prompt : BOOLEAN, policy : Policies, todo : {run.todo},
                     victims : SUBSET Pids, survivors : SUBSET Pids, blind : BOOLEAN,
                     swept : BOOLEAN, whole : BOOLEAN, kept : Nat, dropped : Nat]
ITypeOK == /\ ProcType /\ PipeType /\ RunType /\ registry \subseteq Pids /\ under \subseteq Pids
           /\ status \in {"none", "ok", "failed"}

\* Nothing is written that is not kept, dropped or inside; a pipe that has
\* ended is empty and nobody holds it.
Counted ==
    /\ ~pipe.detached =>
          /\ pipe.kept + pipe.dropped + pipe.inside = pipe.written
          /\ pipe.kept <= CaptureCap /\ (pipe.dropped > 0 => pipe.kept = CaptureCap)
    /\ pipe.eof => pipe.inside = 0 /\ run.at # "idle" /\ \A p \in Pids : ~proc[p].pipe
    /\ pipe.detached => run.at = "over"
    /\ run.whole => /\ pipe.eof /\ run.kept + run.dropped = pipe.written
                    /\ run.kept = Min({CaptureCap, pipe.written})

\* Where the host is in its life at each step.
Followed ==
    /\ run.at = "idle" => proc[Host].life = "unborn"
    /\ run.at \in {"idle", "run", "snapshot"} => \A p \in Pids : proc[p].life # "dying"
    /\ run.at = "run" => proc[Host].life # "unborn"
    /\ run.at \in {"walk", "sweep", "eof"} => proc[Host].life = "dead"
    /\ run.at = "over" => proc[Host].life \in {"unborn", "dead"}

\* When its session is gone: before it lives, after it ended in order, and after
\* a sweep that worked; and what the run knows of that.
Tidied ==
    /\ proc[Host].life = "unborn" => Host \notin registry
    /\ proc[Host].life = "dead" => status # "none" /\ (status = "ok" => Host \notin registry)
    /\ run.at \in {"snapshot", "kill", "walk", "sweep"} => run.result = "timeout"
    /\ run.at \in {"eof", "over"} =>
          /\ run.result # "none"
          /\ run.result = "refused" => proc[Host].life = "unborn"
          /\ run.result = "ok" => status = "ok"
          /\ run.result = "timeout" /\ run.swept => Host \notin registry

\* What was under the host is dead or where the step that comes next finds it:
\* under the host still, among the victims, or among the survivors.
Traced ==
    /\ \A p \in under : proc[p].life # "unborn"
    /\ run.at = "snapshot" => \A p \in under : proc[p].life = "dead" \/ p \in Descendants
    /\ run.at \in {"kill", "walk"} /\ ~run.blind =>
          \A p \in under : proc[p].life = "dead" \/ p \in run.victims
    /\ run.at \in {"sweep", "eof", "over"} /\ run.result = "timeout" /\ ~run.blind =>
          \A p \in under : proc[p].life = "dead" \/ p \in run.survivors

IInv == ITypeOK /\ Counted /\ Followed /\ Tidied /\ Traced /\ NeverPrompts

-----------------------------------------------------------------------------
\* Invoke: lemmas about the tree of processes.

\* One step down the tree, and one up.
GenerationBody(ps, f, n) ==
    IF n = 0 THEN {Host}
    ELSE {p \in Pids : ps[p].life \in {"live", "dying"} /\ ps[p].parent \in f[n - 1]}
AncestorBody(ps, q, f, n) ==
    IF n = 0 THEN q ELSE IF f[n - 1] = InitPid THEN InitPid ELSE ps[f[n - 1]].parent

LEMMA Deepest == Cardinality(Children) \in Nat
BY InvokeAssumption, FS_CardinalityType

\* Each generation is what the one before it has for children.
LEMMA GenerationsAre ==
    ASSUME NEW ps, NEW p \in 0..Cardinality(Children)
    PROVE  Generations(ps)[p] = GenerationBody(ps, Generations(ps), p)
<1> DEFINE n == Cardinality(Children)
           Part(k) == \E g : g = [i \in 0..k |-> GenerationBody(ps, g, i)]
           bad == {j \in 0..n : ~Part(j)}
<1>1. n \in Nat  BY Deepest
<1>2. Part(0)
  <2>1. [i \in 0..0 |-> {Host}] = [i \in 0..0 |-> GenerationBody(ps, [j \in 0..0 |-> {Host}], i)]
    BY DEF GenerationBody
  <2> QED BY <2>1
<1>3. ASSUME NEW k \in 0..(n - 1), Part(k) PROVE Part(k + 1)
  <2>1. PICK g : g = [i \in 0..k |-> GenerationBody(ps, g, i)]  BY <1>3
  <2> DEFINE h == [i \in 0..(k + 1) |-> IF i = k + 1 THEN GenerationBody(ps, g, k + 1) ELSE g[i]]
  <2>2. \A i \in 0..k : h[i] = g[i]  BY <1>1
  <2>3. \A i \in 0..(k + 1) : GenerationBody(ps, h, i) = GenerationBody(ps, g, i)
    <3>1. SUFFICES ASSUME NEW i \in 0..(k + 1)
                   PROVE  GenerationBody(ps, h, i) = GenerationBody(ps, g, i)
      OBVIOUS
    <3>2. i # 0 => h[i - 1] = g[i - 1]  BY <1>1, <2>2
    <3> HIDE DEF h
    <3> QED BY <3>2 DEF GenerationBody
  <2>4. \A i \in 0..(k + 1) : h[i] = GenerationBody(ps, g, i)
    <3>1. \A i \in 0..k : g[i] = GenerationBody(ps, g, i)  BY <2>1
    <3> QED BY <1>1, <2>2, <3>1
  <2>5. h = [i \in 0..(k + 1) |-> h[i]]  OBVIOUS
  <2> HIDE DEF h
  <2>6. h = [i \in 0..(k + 1) |-> GenerationBody(ps, h, i)]  BY <2>3, <2>4, <2>5
  <2> QED BY <2>6
<1>4. Part(n)
  <2>1. SUFFICES ASSUME ~Part(n) PROVE FALSE  OBVIOUS
  <2> HIDE DEF Part
  <2>2. n \in bad  BY <1>1, <2>1
  <2>3. PICK m \in bad : \A j \in bad : m <= j
    <3>1. bad \in SUBSET Nat  OBVIOUS
    <3> HIDE DEF bad
    <3> QED BY <2>2, <3>1, Least
  <2>4. m # 0 /\ m \in Nat /\ m <= n  BY <1>1, <1>2, <2>3
  <2>5. m - 1 \notin bad /\ m - 1 \in 0..(n - 1)  BY <1>1, <2>3, <2>4
  <2>6. Part(m - 1)  BY <1>1, <2>5
  <2>7. Part((m - 1) + 1)  BY <1>3, <2>5, <2>6
  <2>8. Part(m)  BY <2>4, <2>7
  <2> QED BY <2>3, <2>8
<1>5. Generations(ps) = CHOOSE g : g = [i \in 0..n |-> GenerationBody(ps, g, i)]
  BY DEF Generations, GenerationBody
<1>6. Generations(ps) = [i \in 0..n |-> GenerationBody(ps, Generations(ps), i)]
  BY <1>4, <1>5, Zenon
<1> HIDE DEF n
<1>7. p \in 0..n  BY DEF n
<1> QED BY <1>6, <1>7

\* Each ancestor is the parent of the one before.
LEMMA AncestryIs ==
    ASSUME NEW ps, NEW q, NEW p \in 0..Cardinality(Children)
    PROVE  Ancestry(ps, q)[p] = AncestorBody(ps, q, Ancestry(ps, q), p)
<1> DEFINE n == Cardinality(Children)
           Part(k) == \E g : g = [i \in 0..k |-> AncestorBody(ps, q, g, i)]
           bad == {j \in 0..n : ~Part(j)}
<1>1. n \in Nat  BY Deepest
<1>2. Part(0)
  <2>1. [i \in 0..0 |-> q] = [i \in 0..0 |-> AncestorBody(ps, q, [j \in 0..0 |-> q], i)]
    BY DEF AncestorBody
  <2> QED BY <2>1
<1>3. ASSUME NEW k \in 0..(n - 1), Part(k) PROVE Part(k + 1)
  <2>1. PICK g : g = [i \in 0..k |-> AncestorBody(ps, q, g, i)]  BY <1>3
  <2> DEFINE h == [i \in 0..(k + 1) |-> IF i = k + 1 THEN AncestorBody(ps, q, g, k + 1) ELSE g[i]]
  <2>2. \A i \in 0..k : h[i] = g[i]  BY <1>1
  <2>3. \A i \in 0..(k + 1) : AncestorBody(ps, q, h, i) = AncestorBody(ps, q, g, i)
    <3>1. SUFFICES ASSUME NEW i \in 0..(k + 1)
                   PROVE  AncestorBody(ps, q, h, i) = AncestorBody(ps, q, g, i)
      OBVIOUS
    <3>2. i # 0 => h[i - 1] = g[i - 1]  BY <1>1, <2>2
    <3> HIDE DEF h
    <3> QED BY <3>2 DEF AncestorBody
  <2>4. \A i \in 0..(k + 1) : h[i] = AncestorBody(ps, q, g, i)
    <3>1. \A i \in 0..k : g[i] = AncestorBody(ps, q, g, i)  BY <2>1
    <3> QED BY <1>1, <2>2, <3>1
  <2>5. h = [i \in 0..(k + 1) |-> h[i]]  OBVIOUS
  <2> HIDE DEF h
  <2>6. h = [i \in 0..(k + 1) |-> AncestorBody(ps, q, h, i)]  BY <2>3, <2>4, <2>5
  <2> QED BY <2>6
<1>4. Part(n)
  <2>1. SUFFICES ASSUME ~Part(n) PROVE FALSE  OBVIOUS
  <2> HIDE DEF Part
  <2>2. n \in bad  BY <1>1, <2>1
  <2>3. PICK m \in bad : \A j \in bad : m <= j
    <3>1. bad \in SUBSET Nat  OBVIOUS
    <3> HIDE DEF bad
    <3> QED BY <2>2, <3>1, Least
  <2>4. m # 0 /\ m \in Nat /\ m <= n  BY <1>1, <1>2, <2>3
  <2>5. m - 1 \notin bad /\ m - 1 \in 0..(n - 1)  BY <1>1, <2>3, <2>4
  <2>6. Part(m - 1)  BY <1>1, <2>5
  <2>7. Part((m - 1) + 1)  BY <1>3, <2>5, <2>6
  <2>8. Part(m)  BY <2>4, <2>7
  <2> QED BY <2>3, <2>8
<1>5. Ancestry(ps, q) = CHOOSE g : g = [i \in 0..n |-> AncestorBody(ps, q, g, i)]
  BY DEF Ancestry, AncestorBody
<1>6. Ancestry(ps, q) = [i \in 0..n |-> AncestorBody(ps, q, Ancestry(ps, q), i)]
  BY <1>4, <1>5, Zenon
<1> HIDE DEF n
<1>7. p \in 0..n  BY DEF n
<1> QED BY <1>6, <1>7

\* One generation up the tree for each ancestor.
LEMMA LineLeadsToHost ==
    ASSUME NEW ps, NEW n \in 0..Cardinality(Children), NEW q \in Generations(ps)[n],
           NEW i \in 0..n
    PROVE  Ancestry(ps, q)[i] \in Generations(ps)[n - i]
<1> DEFINE last == Cardinality(Children)
           up == Ancestry(ps, q)
           generation == Generations(ps)
           good == {j \in 0..n : \A k \in 0..j : up[k] \in generation[n - k]}
<1>1. last \in Nat /\ n \in Nat  BY Deepest
<1>2. \A k \in 0..last : generation[k] = GenerationBody(ps, generation, k)  BY GenerationsAre
<1>3. \A k \in 0..last : up[k] = AncestorBody(ps, q, up, k)  BY AncestryIs
<1>4. q \in generation[n]  OBVIOUS
<1>5. InitPid \notin Pids  BY InvokeAssumption DEF Pids, InitPid, Host
<1>6. n <= last  BY <1>1
<1> HIDE DEF last, up, generation
<1>7. 0 \in good
  <2>1. up[0] = q  BY <1>1, <1>3 DEF AncestorBody
  <2> QED BY <1>1, <1>4, <2>1
<1>8. PICK m \in good : \A k \in good : k <= m
  <2>1. good \in SUBSET (0..n)  OBVIOUS
  <2> HIDE DEF good
  <2> QED BY <1>1, <1>7, <2>1, Greatest
<1>9. m = n
  <2>1. SUFFICES ASSUME m # n PROVE FALSE  OBVIOUS
  <2>2. m \in 0..(n - 1) /\ m + 1 \in 1..n /\ n - m \in 1..last /\ (m + 1) - 1 = m
        /\ (n - m) - 1 = n - (m + 1) /\ n - m # 0
    BY <1>1, <1>6, <1>8, <2>1
  <2>3. up[m] \in generation[n - m]  BY <1>1, <1>8
  <2>4. generation[n - m] = GenerationBody(ps, generation, n - m)  BY <1>2, <2>2
  <2>5. up[m] \in Pids /\ ps[up[m]].parent \in generation[n - (m + 1)]
    BY <2>2, <2>3, <2>4 DEF GenerationBody
  <2>6. up[m + 1] = AncestorBody(ps, q, up, m + 1)
    <3>1. m + 1 \in 0..last  BY <1>1, <1>6, <2>2
    <3> QED BY <1>3, <3>1
  <2>7. up[m + 1] \in generation[n - (m + 1)]  BY <1>5, <2>2, <2>5, <2>6 DEF AncestorBody
  <2>8. m + 1 \in good  BY <1>1, <1>8, <2>2, <2>7
  <2>9. m \in Nat /\ m + 1 <= m  BY <1>1, <1>8, <2>8
  <2> QED BY <2>9
<1>10. i \in 0..m  BY <1>9
<1> QED BY <1>8, <1>10 DEF up, generation

\* A process stays under the host while the processes between them go on living
\* where they are.
LEMMA StaysUnder ==
    ASSUME NEW ps, NEW qs, NEW n \in 0..Cardinality(Children), NEW q \in Generations(ps)[n],
           \A i \in 0..Cardinality(Children) : \A a \in Pids :
               a = Ancestry(ps, q)[i] /\ Living(ps, a) /\ i < n =>
                   Living(qs, a) /\ qs[a].parent = ps[a].parent
    PROVE  q \in Generations(qs)[n]
<1> DEFINE last == Cardinality(Children)
           up == Ancestry(ps, q)
           before == Generations(ps)
           after == Generations(qs)
           good == {j \in 0..n : \A k \in 0..j : up[n - k] \in after[k]}
<1>1. last \in Nat /\ n \in Nat  BY Deepest
<1>2. \A k \in 0..last : before[k] = GenerationBody(ps, before, k)  BY GenerationsAre
<1>3. \A k \in 0..last : after[k] = GenerationBody(qs, after, k)  BY GenerationsAre
<1>4. \A k \in 0..last : up[k] = AncestorBody(ps, q, up, k)  BY AncestryIs
<1>5. \A k \in 0..n : up[k] \in before[n - k]  BY LineLeadsToHost
<1>6. \A i \in 0..last : \A a \in Pids :
          a = up[i] /\ Living(ps, a) /\ i < n => Living(qs, a) /\ qs[a].parent = ps[a].parent
  OBVIOUS
<1>7. InitPid \notin Pids  BY InvokeAssumption DEF Pids, InitPid, Host
<1>8. n <= last  BY <1>1
<1> HIDE DEF last, up, before, after
<1>9. 0 \in good
  <2>0. n \in 0..n /\ n - n = 0 /\ n - 0 = n  BY <1>1
  <2>1. up[n] \in before[0] /\ n - 0 = n
    <3>1. up[n] \in before[n - n]  BY <1>5, <2>0
    <3> QED BY <2>0, <3>1
  <2>2. before[0] = after[0]
    <3>1. 0 \in 0..last  BY <1>1
    <3>2. before[0] = GenerationBody(ps, before, 0)  BY <1>2, <3>1
    <3>3. after[0] = GenerationBody(qs, after, 0)  BY <1>3, <3>1
    <3> QED BY <3>2, <3>3 DEF GenerationBody
  <2> QED BY <1>1, <2>1, <2>2
<1>10. PICK m \in good : \A k \in good : k <= m
  <2>1. good \in SUBSET (0..n)  OBVIOUS
  <2> HIDE DEF good
  <2> QED BY <1>1, <1>9, <2>1, Greatest
<1>11. m = n
  <2>1. SUFFICES ASSUME m # n PROVE FALSE  OBVIOUS
  <2> DEFINE k == n - (m + 1)
             a == up[k]
  <2>2. /\ m + 1 \in 1..n /\ m + 1 \in 1..last /\ k \in 0..(n - 1) /\ k \in 0..last /\ k < n
        /\ k + 1 = n - m /\ n - k = m + 1 /\ (k + 1) - 1 = k /\ (m + 1) - 1 = m /\ k + 1 # 0
        /\ k + 1 \in 0..last
    BY <1>1, <1>8, <1>10, <2>1
  <2> HIDE DEF k
  <2>3. a \in before[m + 1]  BY <1>5, <2>2
  <2>4. before[m + 1] = GenerationBody(ps, before, m + 1)  BY <1>2, <2>2
  <2>5. a \in Pids /\ Living(ps, a)  BY <2>2, <2>3, <2>4 DEF GenerationBody, Living
  <2>6. Living(qs, a) /\ qs[a].parent = ps[a].parent  BY <1>6, <2>2, <2>5
  <2>7. up[k + 1] = ps[a].parent
    <3>1. up[k + 1] = AncestorBody(ps, q, up, k + 1)  BY <1>4, <2>2
    <3> QED BY <1>7, <2>2, <2>5, <3>1 DEF AncestorBody
  <2>8. up[n - m] \in after[m]  BY <1>1, <1>10
  <2>9. a \in after[m + 1]
    <3>1. after[m + 1] = GenerationBody(qs, after, m + 1)  BY <1>3, <2>2
    <3> QED BY <2>2, <2>5, <2>6, <2>7, <2>8, <3>1 DEF GenerationBody, Living
  <2>10. up[n - (m + 1)] \in after[m + 1]  BY <2>9 DEF k
  <2>11. m + 1 \in good  BY <1>1, <1>10, <2>2, <2>10
  <2>12. m \in Nat /\ m + 1 <= m  BY <1>1, <1>10, <2>11
  <2> QED BY <2>12
<1>12. up[n - n] \in after[n]  BY <1>1, <1>10, <1>11
<1>13. up[0] = q /\ n - n = 0  BY <1>1, <1>4 DEF AncestorBody
<1> QED BY <1>12, <1>13 DEF after

-----------------------------------------------------------------------------
\* Invoke: every step keeps it.

LEMMA HostIsOne == Host \in Pids /\ InitPid \notin Pids /\ Children \subseteq Pids /\ Host \notin Children
BY InvokeAssumption DEF Pids, Host, InitPid

LEMMA InitInvoke == IInit => IInv
<1> SUFFICES ASSUME IInit PROVE IInv  OBVIOUS
<1> USE HostIsOne DEF IInit
<1>1. ITypeOK  BY DEF ITypeOK, ProcType, PipeType, RunType, Lives, Places, Policies
<1>2. Counted  BY InvokeAssumption DEF Counted
<1>3. Followed  BY DEF Followed
<1>6. Tidied  BY DEF Tidied
<1>4. Traced  BY DEF Traced
<1>5. NeverPrompts  BY DEF NeverPrompts
<1> QED BY <1>1, <1>2, <1>3, <1>4, <1>5, <1>6 DEF IInv

LEMMA StutterInvoke == IInv /\ UNCHANGED iVars => IInv'
<1> SUFFICES ASSUME IInv, UNCHANGED iVars PROVE IInv'  OBVIOUS
<1> USE DEF iVars
<1>1. ITypeOK'  BY DEF IInv, ITypeOK, ProcType, PipeType, RunType
<1>2. Counted'  BY DEF IInv, Counted
<1>3. Followed'  BY DEF IInv, Followed
<1>6. Tidied'  BY DEF IInv, Tidied
<1>4. Traced'  BY DEF IInv, Traced, Descendants
<1>5. NeverPrompts'  BY DEF IInv, NeverPrompts
<1> QED BY <1>1, <1>2, <1>3, <1>4, <1>5, <1>6 DEF IInv

\* A command line that is accepted holds no prompt nobody asked for.
LEMMA AcceptedIsAsked ==
    ASSUME NEW argv \in Argvs, NEW policy \in Policies, Validate(argv, policy), Prompted(argv)
    PROVE  policy.flags /\ policy.prompt
<1>1. argv \in Seq(Tokens)  BY ArgvsAreTokens
<1>2. Walk(argv) # "allowed" /\ argv[1] \notin {"command", "resume"}  BY <1>1, PromptsAreSeen
<1> QED BY <1>2 DEF Validate

LEMMA StartInvoke ==
    ASSUME IInv, run.at = "idle", NEW argv \in Argvs, NEW policy \in Policies, NEW machine \in Machines,
           Start(argv, policy, machine)
    PROVE  IInv'
<1> USE HostIsOne
<1>0. ITypeOK /\ Counted /\ Followed /\ Tidied /\ Traced /\ ProcType /\ PipeType /\ RunType
  BY DEF IInv, ITypeOK
<1>1. Validate(argv, policy) => (Prompted(argv) => policy.flags /\ policy.prompt)
  BY AcceptedIsAsked
<1>2. Prompted(argv) \in BOOLEAN  BY DEF Prompted
<1>3. CASE Located(machine) /\ Validate(argv, policy)
  <2> DEFINE prompted == Prompted(argv)
             new == [life |-> "live", parent |-> InitPid, pipe |-> TRUE]
  <2>1. /\ run' = [run EXCEPT !.at = "run", !.prompt = prompted, !.policy = policy]
        /\ proc' = [proc EXCEPT ![Host] = new]
        /\ UNCHANGED <<pipe, registry, status, under>>
    BY <1>3 DEF Start
  <2>2. prompted \in BOOLEAN /\ (prompted => policy.flags /\ policy.prompt)
    BY <1>1, <1>2, <1>3
  <2> HIDE DEF prompted
  <2>3. ITypeOK'
    <3>1. ProcType'  BY <1>0, <2>1 DEF ProcType, Lives
    <3>2. RunType'  BY <1>0, <2>1, <2>2 DEF RunType, Places
    <3> QED BY <1>0, <2>1, <3>1, <3>2 DEF ITypeOK, PipeType
  <2>4. run'.at = "run" /\ run'.whole = run.whole /\ run'.prompt = prompted /\ run'.policy = policy
    BY <1>0, <2>1 DEF RunType
  <2>5. Counted'  BY <1>0, <2>1, <2>4 DEF Counted
  <2>6. proc'[Host] = new /\ \A p \in Pids : p # Host => proc'[p] = proc[p]
    BY <1>0, <2>1 DEF ProcType
  <2>7. Followed'  BY <1>0, <2>1, <2>4, <2>6 DEF Followed
  <2>10. Tidied'  BY <1>0, <2>1, <2>4, <2>6 DEF Tidied
  <2>8. Traced'  BY <1>0, <2>1, <2>4, <2>6 DEF Traced, ITypeOK
  <2>9. NeverPrompts'  BY <2>2, <2>4 DEF NeverPrompts
  <2> QED BY <2>3, <2>5, <2>7, <2>8, <2>9, <2>10 DEF IInv
<1>4. CASE ~(Located(machine) /\ Validate(argv, policy))
  <2>1. /\ run' = [run EXCEPT !.at = "over", !.result = "refused"]
        /\ UNCHANGED <<proc, pipe, registry, status, under>>
    BY <1>4 DEF Start
  <2>2. ITypeOK'
    <3>1. RunType'  BY <1>0, <2>1 DEF RunType, Places
    <3> QED BY <1>0, <2>1, <3>1 DEF ITypeOK, PipeType, ProcType
  <2>3. run'.at = "over" /\ run'.whole = run.whole /\ run'.result = "refused"
    BY <1>0, <2>1 DEF RunType
  <2>4. Counted'  BY <1>0, <2>1, <2>3 DEF Counted
  <2>5. Followed'  BY <1>0, <2>1, <2>3 DEF Followed
  <2>8. Tidied'  BY <1>0, <2>1, <2>3 DEF Followed, Tidied
  <2>6. Traced'  BY <1>0, <2>1, <2>3 DEF Traced
  <2>7. NeverPrompts'  BY <2>3 DEF NeverPrompts
  <2> QED BY <2>2, <2>4, <2>5, <2>6, <2>7, <2>8 DEF IInv
<1> QED BY <1>3, <1>4

LEMMA PollsInvoke == IInv /\ Polls => IInv'
<1> SUFFICES ASSUME IInv, Polls PROVE IInv'  OBVIOUS
<1>0. ITypeOK /\ Counted /\ Followed /\ Tidied /\ Traced /\ RunType  BY DEF IInv, ITypeOK
<1>1. /\ run.at = "run" /\ proc[Host].life = "dead"
      /\ run' = [run EXCEPT !.at = "eof", !.result = status]
      /\ UNCHANGED <<proc, pipe, registry, status, under>>
  BY DEF Polls
<1>2. run'.at = "eof" /\ run'.result = status /\ run'.whole = run.whole /\ run'.kept = run.kept
      /\ run'.dropped = run.dropped
  BY <1>0, <1>1 DEF RunType
<1>3. ITypeOK'
  <2>1. RunType'  BY <1>0, <1>1 DEF ITypeOK, RunType, Places
  <2> QED BY <1>0, <1>1, <2>1 DEF ITypeOK, PipeType, ProcType
<1>4. Counted'  BY <1>0, <1>1, <1>2 DEF Counted
<1>5. Followed'  BY <1>0, <1>1, <1>2 DEF Followed
<1>8. Tidied'  BY <1>0, <1>1, <1>2 DEF ITypeOK, Tidied
<1>6. Traced'  BY <1>0, <1>1, <1>2 DEF ITypeOK, Traced
<1>7. NeverPrompts'  BY <1>2 DEF NeverPrompts
<1> QED BY <1>3, <1>4, <1>5, <1>6, <1>7, <1>8 DEF IInv

LEMMA ExpiresInvoke == IInv /\ Expires => IInv'
<1> SUFFICES ASSUME IInv, Expires PROVE IInv'  OBVIOUS
<1>0. ITypeOK /\ Counted /\ Followed /\ Tidied /\ Traced /\ RunType  BY DEF IInv, ITypeOK
<1>1. /\ run.at = "run" /\ proc[Host].life # "dead"
      /\ run' = [run EXCEPT !.at = "snapshot", !.result = "timeout"]
      /\ under' = Descendants
      /\ UNCHANGED <<proc, pipe, registry, status>>
  BY DEF Expires
<1>2. run'.at = "snapshot" /\ run'.whole = run.whole /\ run'.kept = run.kept
      /\ run'.dropped = run.dropped /\ run'.result = "timeout"
  BY <1>0, <1>1 DEF RunType
<1>3. \A p \in Descendants : p \in Pids /\ Living(proc, p)
  <2>1. SUFFICES ASSUME NEW n \in 1..Cardinality(Children), NEW p \in Generations(proc)[n]
                 PROVE  p \in Pids /\ Living(proc, p)
    BY DEF Descendants
  <2>2. n \in 0..Cardinality(Children) /\ n # 0  BY Deepest
  <2>3. Generations(proc)[n] = GenerationBody(proc, Generations(proc), n)  BY <2>2, GenerationsAre
  <2> QED BY <2>2, <2>3 DEF GenerationBody, Living
<1>4. ITypeOK'
  <2>1. RunType'  BY <1>0, <1>1 DEF RunType, Places
  <2>2. (under \subseteq Pids)'  BY <1>1, <1>3
  <2> QED BY <1>0, <1>1, <2>1, <2>2 DEF ITypeOK, PipeType, ProcType
<1>5. Counted'  BY <1>0, <1>1, <1>2 DEF Counted
<1>6. Followed'  BY <1>0, <1>1, <1>2 DEF Followed
<1>9. Tidied'  BY <1>0, <1>1, <1>2 DEF Tidied
<1>7. Traced'
  <2>1. Descendants' = Descendants  BY <1>1 DEF Descendants
  <2> QED BY <1>0, <1>1, <1>2, <1>3, <2>1 DEF Traced, Living
<1>8. NeverPrompts'  BY <1>2 DEF NeverPrompts
<1> QED BY <1>4, <1>5, <1>6, <1>7, <1>8, <1>9 DEF IInv

LEMMA SnapshotInvoke == ASSUME IInv, NEW seen \in BOOLEAN, Snapshot(seen) PROVE IInv'
<1>0. ITypeOK /\ Counted /\ Followed /\ Tidied /\ Traced /\ RunType  BY DEF IInv, ITypeOK
<1> DEFINE all == Descendants
           leaves == LeavesFirst
<1>1. /\ run.at = "snapshot"
      /\ run' = IF seen THEN [run EXCEPT !.at = "kill", !.todo = leaves, !.victims = all]
                ELSE [run EXCEPT !.at = "kill", !.blind = TRUE]
      /\ UNCHANGED <<proc, pipe, registry, status, under>>
  BY DEF Snapshot
<1>2. all \subseteq Pids
  <2>1. SUFFICES ASSUME NEW n \in 1..Cardinality(Children) PROVE Generations(proc)[n] \subseteq Pids
    BY DEF Descendants
  <2>2. n \in 0..Cardinality(Children) /\ n # 0  BY Deepest
  <2>3. Generations(proc)[n] = GenerationBody(proc, Generations(proc), n)  BY <2>2, GenerationsAre
  <2> QED BY <2>2, <2>3 DEF GenerationBody
<1>3. \A p \in under : proc[p].life = "dead" \/ p \in all  BY <1>0, <1>1 DEF Traced
<1> HIDE DEF all, leaves
<1>4. run'.at = "kill" /\ run'.whole = run.whole /\ run'.kept = run.kept
      /\ run'.dropped = run.dropped /\ run'.result = run.result /\ (run'.blind \/ run'.victims = all)
  BY <1>0, <1>1 DEF RunType
<1>5. ITypeOK'
  <2>1. RunType'  BY <1>0, <1>1, <1>2 DEF RunType, Places
  <2> QED BY <1>0, <1>1, <2>1 DEF ITypeOK, PipeType, ProcType
<1>6. Counted'  BY <1>0, <1>1, <1>4 DEF Counted
<1>7. Followed'  BY <1>0, <1>1, <1>4 DEF Followed
<1>10. Tidied'  BY <1>0, <1>1, <1>4 DEF Tidied
<1>8. Traced'  BY <1>0, <1>1, <1>3, <1>4 DEF Traced
<1>9. NeverPrompts'  BY <1>4 DEF NeverPrompts
<1> QED BY <1>5, <1>6, <1>7, <1>8, <1>9, <1>10 DEF IInv

\* A signal makes of the living the dying, and touches no one else.
Signalled == \A q \in Pids : \/ proc'[q] = proc[q]
                             \/ /\ proc[q].life = "live" /\ proc'[q].life = "dying"
                                /\ proc'[q].parent = proc[q].parent /\ proc'[q].pipe = proc[q].pipe

LEMMA SignalDoes == ASSUME ProcType, NEW p, Signal(p) PROVE ProcType' /\ Signalled
<1>1. CASE p \in Pids  BY <1>1 DEF ProcType, Signal, Signalled, Lives
<1>2. CASE p \notin Pids
  <2>1. proc' = proc \/ proc' = [proc EXCEPT ![p].life = "dying"]  BY DEF Signal
  <2>2. proc' = proc  BY <1>2, <2>1 DEF ProcType
  <2> QED BY <2>2 DEF ProcType, Signalled
<1> QED BY <1>1, <1>2

LEMMA SignalsKeep ==
    ASSUME IInv, run.at \in {"kill", "walk"}, ProcType', Signalled,
           UNCHANGED <<pipe, registry, status, under>>, RunType',
           \E more \in SUBSET Pids : run'.victims = run.victims \cup more,
           run'.blind = run.blind, run'.whole = run.whole, run'.kept = run.kept,
           run'.dropped = run.dropped, run'.result = run.result, run'.at = run.at
    PROVE  IInv'
<1>0. ITypeOK /\ Counted /\ Followed /\ Tidied /\ Traced /\ RunType /\ ProcType  BY DEF IInv, ITypeOK
<1>1. ITypeOK'  BY <1>0 DEF ITypeOK, PipeType
<1>2. Counted'
  <2>1. \A q \in Pids : proc'[q].pipe = proc[q].pipe  BY DEF Signalled
  <2> QED BY <1>0, <2>1 DEF Counted
<1>3. Followed'  BY <1>0, HostIsOne DEF Followed, Signalled
<1>6. Tidied'  BY <1>0, HostIsOne DEF Followed, Tidied, Signalled
<1>4. Traced'
  <2>1. under \subseteq Pids  BY <1>0 DEF ITypeOK
  <2>2. \A q \in under : proc'[q].life # "unborn" /\ (proc[q].life = "dead" => proc'[q].life = "dead")
    BY <1>0, <2>1 DEF Traced, Signalled
  <2> QED BY <1>0, <2>2 DEF Traced
<1>5. NeverPrompts'  BY DEF NeverPrompts
<1> QED BY <1>1, <1>2, <1>3, <1>4, <1>5, <1>6 DEF IInv

LEMMA KillsNextInvoke == IInv /\ KillsNext => IInv'
<1> SUFFICES ASSUME IInv, KillsNext PROVE IInv'  OBVIOUS
<1> DEFINE rest == Tail(run.todo)
<1>1. /\ run.at = "kill" /\ Signal(Head(run.todo))
      /\ run' = [run EXCEPT !.todo = rest] /\ UNCHANGED <<pipe, registry, status, under>>
  BY DEF KillsNext
<1> HIDE DEF rest
<1>2. RunType /\ ProcType  BY DEF IInv, ITypeOK
<1>3. RunType' /\ run'.victims = run.victims /\ run'.blind = run.blind /\ run'.whole = run.whole
      /\ run'.kept = run.kept /\ run'.dropped = run.dropped /\ run'.at = run.at
      /\ run'.result = run.result
  BY <1>1, <1>2 DEF RunType
<1>4. run'.victims = run.victims \cup {}  BY <1>3
<1>5. ProcType' /\ Signalled  BY <1>1, <1>2, SignalDoes
<1> QED BY <1>1, <1>3, <1>4, <1>5, SignalsKeep

LEMMA KillsHostInvoke == IInv /\ KillsHost => IInv'
<1> SUFFICES ASSUME IInv, KillsHost PROVE IInv'  OBVIOUS
<1>1. run.at = "kill" /\ Signal(Host) /\ UNCHANGED <<run, pipe, registry, status, under>>
  BY DEF KillsHost
<1>2. RunType /\ ProcType  BY DEF IInv, ITypeOK
<1>3. RunType'  BY <1>1, <1>2 DEF RunType
<1>4. run'.victims = run.victims \cup {}  BY <1>1
<1>5. ProcType' /\ Signalled  BY <1>1, <1>2, SignalDoes
<1> QED BY <1>1, <1>3, <1>4, <1>5, SignalsKeep

LEMMA ReapsInvoke == IInv /\ Reaps => IInv'
<1> SUFFICES ASSUME IInv, Reaps PROVE IInv'  OBVIOUS
<1>0. ITypeOK /\ Counted /\ Followed /\ Tidied /\ Traced /\ RunType  BY DEF IInv, ITypeOK
<1> DEFINE next == IF run.blind THEN "sweep" ELSE "walk"
<1>1. /\ run.at = "kill" /\ proc[Host].life = "dead"
      /\ run' = [run EXCEPT !.at = next]
      /\ UNCHANGED <<proc, pipe, registry, status, under>>
  BY DEF Reaps
<1>2. next \in {"sweep", "walk"} /\ (next = "sweep" <=> run.blind)  BY <1>0 DEF RunType
<1> HIDE DEF next
<1>3. run'.at = next /\ run'.whole = run.whole /\ run'.kept = run.kept
      /\ run'.dropped = run.dropped /\ run'.result = run.result /\ run'.blind = run.blind /\ run'.victims = run.victims
  BY <1>0, <1>1 DEF RunType
<1>4. ITypeOK'
  <2>1. RunType'  BY <1>0, <1>1, <1>2 DEF RunType, Places
  <2> QED BY <1>0, <1>1, <2>1 DEF ITypeOK, PipeType, ProcType
<1>5. Counted'  BY <1>0, <1>1, <1>2, <1>3 DEF Counted
<1>6. Followed'  BY <1>0, <1>1, <1>2, <1>3 DEF Followed
<1>9. Tidied'  BY <1>0, <1>1, <1>2, <1>3 DEF Tidied
<1>7. Traced'  BY <1>0, <1>1, <1>2, <1>3 DEF Traced
<1>8. NeverPrompts'  BY <1>2, <1>3 DEF NeverPrompts
<1> QED BY <1>4, <1>5, <1>6, <1>7, <1>8, <1>9 DEF IInv

LEMMA RewalkInvoke ==
    ASSUME IInv, NEW seen \in BOOLEAN, NEW last \in BOOLEAN, Rewalk(seen, last) PROVE IInv'
<1>0. ITypeOK /\ Counted /\ Followed /\ Tidied /\ Traced /\ RunType /\ ProcType  BY DEF IInv, ITypeOK
<1> DEFINE newly == {p \in Alive \ run.victims : proc[p].parent \in run.victims \cup {Host}}
           alive == (run.victims \cup newly) \cap Alive
           found == IF alive = {} \/ last THEN alive ELSE {}
           next == IF alive = {} \/ last THEN "sweep" ELSE "walk"
<1>1. run.at = "walk" /\ UNCHANGED <<pipe, registry, status, under>>  BY DEF Rewalk
<1>2. CASE ~seen
  <2>1. run' = [run EXCEPT !.at = "sweep", !.blind = TRUE] /\ UNCHANGED proc
    BY <1>2 DEF Rewalk
  <2>2. run'.at = "sweep" /\ run'.result = run.result /\ run'.whole = run.whole /\ run'.kept = run.kept
        /\ run'.dropped = run.dropped /\ run'.blind = TRUE
    BY <1>0, <2>1 DEF RunType
  <2>3. ITypeOK'
    <3>1. RunType'  BY <1>0, <2>1 DEF RunType, Places
    <3> QED BY <1>0, <1>1, <2>1, <3>1 DEF ITypeOK, PipeType, ProcType
  <2>4. Counted'  BY <1>0, <1>1, <2>1, <2>2 DEF Counted
  <2>5. Followed'  BY <1>0, <1>1, <2>1, <2>2 DEF Followed
  <2>8. Tidied'  BY <1>0, <1>1, <2>1, <2>2 DEF Tidied
  <2>6. Traced'  BY <1>0, <1>1, <2>1, <2>2 DEF Traced
  <2>7. NeverPrompts'  BY <2>2 DEF NeverPrompts
  <2> QED BY <2>3, <2>4, <2>5, <2>6, <2>7, <2>8 DEF IInv
<1>3. CASE seen
  <2>1. /\ run' = [run EXCEPT !.victims = @ \cup newly, !.at = next, !.survivors = found]
        /\ proc' = [p \in Pids |-> IF p \in newly \ Foreign /\ proc[p].life = "live"
                                   THEN [proc[p] EXCEPT !.life = "dying"] ELSE proc[p]]
    BY <1>3 DEF Rewalk
  <2>2. newly \in SUBSET Pids /\ alive \in SUBSET Pids /\ found \in SUBSET Pids
        /\ next \in {"sweep", "walk"} /\ (next = "sweep" => found = alive)
    BY <1>0 DEF Alive, RunType
  <2>3. \A p \in under : proc[p].life = "dead" \/ (run.blind \/ p \in alive)
    <3>1. \A p \in under : p \in Pids /\ proc[p].life \in Lives /\ proc[p].life # "unborn"
      BY <1>0 DEF ITypeOK, ProcType, Traced
    <3>2. \A p \in under : proc[p].life = "dead" \/ (run.blind \/ p \in run.victims)
      BY <1>0, <1>1 DEF Traced
    <3> QED BY <3>1, <3>2 DEF Alive, Lives
  <2>4. ProcType' /\ Signalled
    <3> HIDE DEF newly
    <3>1. \A q \in Pids : proc'[q] = proc[q]
              \/ (proc[q].life = "live" /\ proc'[q] = [proc[q] EXCEPT !.life = "dying"])
      BY <2>1
    <3> DEFINE Row == [life : Lives, parent : Pids \cup {InitPid}, pipe : BOOLEAN]
    <3>4. ASSUME NEW q \in Pids
          PROVE  /\ proc'[q] \in Row
                 /\ \/ proc'[q] = proc[q]
                    \/ /\ proc[q].life = "live" /\ proc'[q].life = "dying"
                       /\ proc'[q].parent = proc[q].parent /\ proc'[q].pipe = proc[q].pipe
      <4>1. proc[q] \in Row  BY <1>0 DEF ProcType
      <4>2. CASE proc'[q] = proc[q]  BY <4>1, <4>2
      <4>3. CASE proc[q].life = "live" /\ proc'[q] = [proc[q] EXCEPT !.life = "dying"]
        <5> DEFINE row == proc[q]
        <5> HIDE DEF row
        <5>1. row \in Row /\ proc'[q] = [row EXCEPT !.life = "dying"]  BY <4>1, <4>3 DEF row
        <5>2. proc'[q].life = "dying" /\ proc'[q].parent = row.parent /\ proc'[q].pipe = row.pipe
              /\ proc'[q] \in Row
          BY <5>1 DEF Lives
        <5> QED BY <4>3, <5>2 DEF row
      <4> QED BY <3>1, <4>2, <4>3
    <3>2. Signalled  BY <3>4 DEF Signalled
    <3>3. ProcType'
      <4>1. proc' = [p \in Pids |-> proc'[p]]  BY <2>1
      <4> QED BY <3>4, <4>1 DEF ProcType
    <3> QED BY <3>2, <3>3
  <2> HIDE DEF newly, alive, found, next
  <2>5. RunType' /\ run'.victims = run.victims \cup newly /\ run'.blind = run.blind
        /\ run'.whole = run.whole /\ run'.kept = run.kept /\ run'.dropped = run.dropped
        /\ run'.at = next /\ run'.survivors = found /\ run'.result = run.result
    BY <1>0, <2>1, <2>2 DEF RunType, Places
  <2>6. CASE next = "walk"
    <3>1. run'.at = run.at  BY <1>1, <2>5, <2>6
    <3>2. \E more \in SUBSET Pids : run'.victims = run.victims \cup more  BY <2>2, <2>5
    <3> QED BY <1>1, <2>4, <2>5, <3>1, <3>2, SignalsKeep
  <2>7. CASE next = "sweep"
    <3>1. ITypeOK'  BY <1>0, <1>1, <2>4, <2>5 DEF ITypeOK, PipeType
    <3>2. Counted'
      <4>1. \A q \in Pids : proc'[q].pipe = proc[q].pipe  BY <2>4 DEF Signalled
      <4> QED BY <1>0, <1>1, <2>5, <2>7, <4>1 DEF Counted
    <3>3. Followed'  BY <1>0, <1>1, <2>4, <2>5, <2>7, HostIsOne DEF Followed, Signalled
    <3>6. Tidied'  BY <1>0, <1>1, <2>4, <2>5, <2>7, HostIsOne DEF Followed, Tidied, Signalled
    <3>4. Traced'
      <4>1. under \subseteq Pids  BY <1>0 DEF ITypeOK
      <4>2. \A q \in under : proc'[q].life # "unborn"
                             /\ (proc[q].life = "dead" => proc'[q].life = "dead")
        BY <1>0, <2>4, <4>1 DEF Traced, Signalled
      <4> QED BY <1>1, <2>2, <2>3, <2>5, <2>7, <4>2 DEF Traced
    <3>5. NeverPrompts'  BY <2>5, <2>7 DEF NeverPrompts
    <3> QED BY <3>1, <3>2, <3>3, <3>4, <3>5, <3>6 DEF IInv
  <2> QED BY <2>2, <2>6, <2>7
<1> QED BY <1>2, <1>3

LEMMA SweepsInvoke == ASSUME IInv, NEW works \in BOOLEAN, Sweeps(works) PROVE IInv'
<1>0. ITypeOK /\ Counted /\ Followed /\ Tidied /\ Traced /\ RunType  BY DEF IInv, ITypeOK
<1>1. /\ run.at = "sweep" /\ registry' = (IF works THEN registry \ {Host} ELSE registry)
      /\ run' = [run EXCEPT !.at = "eof", !.swept = works]
      /\ UNCHANGED <<proc, pipe, status, under>>
  BY DEF Sweeps
<1>2. run'.at = "eof" /\ run'.whole = run.whole /\ run'.kept = run.kept /\ run'.result = run.result
      /\ run'.dropped = run.dropped /\ run'.blind = run.blind /\ run'.survivors = run.survivors
      /\ run'.swept = works
  BY <1>0, <1>1 DEF RunType
<1>3. ITypeOK'
  <2>1. RunType'  BY <1>0, <1>1 DEF RunType, Places
  <2> QED BY <1>0, <1>1, <2>1 DEF ITypeOK, PipeType, ProcType
<1>4. Counted'  BY <1>0, <1>1, <1>2 DEF Counted
<1>5. Followed'  BY <1>0, <1>1, <1>2 DEF Followed
<1>8. Tidied'  BY <1>0, <1>1, <1>2 DEF Followed, Tidied
<1>6. Traced'  BY <1>0, <1>1, <1>2 DEF Traced
<1>7. NeverPrompts'  BY <1>2 DEF NeverPrompts
<1> QED BY <1>3, <1>4, <1>5, <1>6, <1>7, <1>8 DEF IInv

LEMMA LesserOfTwo ==
    ASSUME NEW a \in Nat, NEW b \in Nat PROVE Min({a, b}) = IF a <= b THEN a ELSE b
<1>1. {a, b} \in SUBSET Nat /\ {a, b} # {}  OBVIOUS
<1>2. Min({a, b}) \in {a, b} /\ \A k \in {a, b} : Min({a, b}) <= k  BY <1>1, MinIs
<1> DEFINE m == Min({a, b})
<1> HIDE DEF m
<1>3. m \in {a, b} /\ m <= a /\ m <= b  BY <1>2 DEF m
<1>4. m = IF a <= b THEN a ELSE b  BY <1>3
<1> QED BY <1>4 DEF m

LEMMA TakesInvoke == IInv /\ Takes => IInv'
<1> SUFFICES ASSUME IInv, Takes PROVE IInv'  OBVIOUS
<1>0. ITypeOK /\ Counted /\ Followed /\ Tidied /\ Traced /\ RunType /\ PipeType  BY DEF IInv, ITypeOK
<1>1. /\ run.at = "eof"
      /\ run' = [run EXCEPT !.at = "over", !.whole = pipe.eof, !.kept = pipe.kept, !.dropped = pipe.dropped]
      /\ pipe' = [pipe EXCEPT !.detached = TRUE, !.kept = 0]
      /\ UNCHANGED <<proc, registry, status, under>>
  BY DEF Takes
<1>2. run'.at = "over" /\ run'.whole = pipe.eof /\ run'.kept = pipe.kept
      /\ run'.result = run.result /\ run'.dropped = pipe.dropped /\ run'.blind = run.blind
      /\ run'.survivors = run.survivors /\ run'.swept = run.swept
  BY <1>0, <1>1 DEF RunType
<1>3. pipe'.detached = TRUE /\ pipe'.eof = pipe.eof /\ pipe'.inside = pipe.inside
      /\ pipe'.written = pipe.written
  BY <1>0, <1>1 DEF PipeType
<1>4. ITypeOK'
  <2>1. RunType'  BY <1>0, <1>1 DEF RunType, Places, PipeType
  <2>2. PipeType'  BY <1>0, <1>1 DEF PipeType
  <2> QED BY <1>0, <1>1, <2>1, <2>2 DEF ITypeOK, ProcType
<1>5. Counted'
  <2>1. CaptureCap \in Nat /\ pipe.written \in Nat /\ pipe.kept \in Nat /\ pipe.dropped \in Nat
    BY <1>0, InvokeAssumption DEF PipeType
  <2>2. Min({CaptureCap, pipe.written}) = IF CaptureCap <= pipe.written THEN CaptureCap ELSE pipe.written
    BY <2>1, LesserOfTwo
  <2>3. pipe.eof => /\ pipe.kept + pipe.dropped = pipe.written
                    /\ pipe.kept = Min({CaptureCap, pipe.written})
    BY <1>0, <1>1, <2>1, <2>2 DEF Counted
  <2> QED BY <1>0, <1>1, <1>2, <1>3, <2>3 DEF Counted
<1>6. Followed'  BY <1>0, <1>1, <1>2 DEF Followed
<1>9. Tidied'  BY <1>0, <1>1, <1>2 DEF Tidied
<1>7. Traced'  BY <1>0, <1>1, <1>2 DEF Traced
<1>8. NeverPrompts'  BY <1>2 DEF NeverPrompts
<1> QED BY <1>4, <1>5, <1>6, <1>7, <1>8, <1>9 DEF IInv

\* Of a step that only the pipe or the registry knows of, the rest is kept.
LEMMA PipeMoves ==
    ASSUME IInv, UNCHANGED <<proc, status, run, under>>, PipeType', Counted', registry' \subseteq Pids,
           registry' = registry \/ proc[Host].life = "live"
    PROVE  IInv'
<1>0. ITypeOK /\ Followed /\ Tidied /\ Traced /\ NeverPrompts  BY DEF IInv
<1>1. ITypeOK'  BY <1>0 DEF ITypeOK, ProcType, RunType
<1>2. Followed'  BY <1>0 DEF Followed
<1>5. Tidied'  BY <1>0 DEF Followed, Tidied
<1>3. Traced'
  <2>1. Descendants' = Descendants  BY DEF Descendants
  <2> QED BY <1>0, <2>1 DEF Traced
<1>4. NeverPrompts'  BY <1>0 DEF NeverPrompts
<1> QED BY <1>1, <1>2, <1>3, <1>4, <1>5 DEF IInv

LEMMA DrainsInvoke == IInv /\ Drains => IInv'
<1> SUFFICES ASSUME IInv, Drains PROVE IInv'  OBVIOUS
<1>0. ITypeOK /\ Counted /\ PipeType /\ CaptureCap \in Nat  BY InvokeAssumption DEF IInv, ITypeOK
<1> DEFINE keeps == ~pipe.detached /\ pipe.kept < CaptureCap
           more == IF keeps THEN pipe.kept + 1 ELSE pipe.kept
           lost == IF keeps \/ pipe.detached THEN pipe.dropped ELSE pipe.dropped + 1
           left == pipe.inside - 1
<1>1. /\ ~pipe.eof /\ pipe.inside > 0
      /\ pipe' = [pipe EXCEPT !.inside = left, !.kept = more, !.dropped = lost]
      /\ UNCHANGED <<proc, registry, status, run, under>>
  BY DEF Drains
<1>2. /\ left \in Nat /\ more \in Nat /\ lost \in Nat
      /\ ~pipe.detached /\ pipe.kept <= CaptureCap /\ (pipe.dropped > 0 => pipe.kept = CaptureCap) =>
            /\ more + lost + left = pipe.kept + pipe.dropped + pipe.inside
            /\ more <= CaptureCap /\ (lost > 0 => more = CaptureCap)
  BY <1>0, <1>1 DEF PipeType
<1> HIDE DEF keeps, more, lost, left
<1>3. PipeType' /\ pipe'.inside = left /\ pipe'.kept = more /\ pipe'.dropped = lost
      /\ pipe'.eof = pipe.eof /\ pipe'.written = pipe.written /\ pipe'.detached = pipe.detached
  BY <1>0, <1>1, <1>2 DEF PipeType
<1>4. Counted'  BY <1>0, <1>1, <1>2, <1>3 DEF Counted
<1> QED BY <1>0, <1>1, <1>3, <1>4, PipeMoves DEF ITypeOK

LEMMA PipeEndsInvoke == IInv /\ PipeEnds => IInv'
<1> SUFFICES ASSUME IInv, PipeEnds PROVE IInv'  OBVIOUS
<1>0. ITypeOK /\ Counted /\ PipeType  BY DEF IInv, ITypeOK
<1>1. /\ ~pipe.eof /\ pipe.inside = 0 /\ run.at # "idle" /\ \A p \in Pids : ~proc[p].pipe
      /\ pipe' = [pipe EXCEPT !.eof = TRUE]
      /\ UNCHANGED <<proc, registry, status, run, under>>
  BY DEF PipeEnds
<1>2. PipeType' /\ pipe'.inside = pipe.inside /\ pipe'.kept = pipe.kept
      /\ pipe'.dropped = pipe.dropped /\ pipe'.written = pipe.written
      /\ pipe'.detached = pipe.detached /\ pipe'.eof = TRUE
  BY <1>0, <1>1 DEF PipeType
<1>3. Counted'  BY <1>0, <1>1, <1>2 DEF Counted
<1> QED BY <1>0, <1>1, <1>2, <1>3, PipeMoves DEF ITypeOK

LEMMA PrintsInvoke == ASSUME IInv, NEW p \in Pids, Prints(p) PROVE IInv'
<1>0. ITypeOK /\ Counted /\ PipeType  BY DEF IInv, ITypeOK
<1> DEFINE more == pipe.inside + 1
           all == pipe.written + 1
<1>1. /\ proc[p].pipe
      /\ pipe' = [pipe EXCEPT !.inside = more, !.written = all]
      /\ UNCHANGED <<proc, registry, status, run, under>>
  BY DEF Prints
<1>5. more \in Nat /\ all \in Nat  BY <1>0 DEF PipeType
<1>2. ~pipe.eof /\ ~run.whole  BY <1>0, <1>1 DEF Counted
<1> HIDE DEF more, all
<1>3. PipeType' /\ pipe'.inside = more /\ pipe'.kept = pipe.kept
      /\ pipe'.dropped = pipe.dropped /\ pipe'.written = all
      /\ pipe'.detached = pipe.detached /\ pipe'.eof = pipe.eof
  BY <1>0, <1>1, <1>5 DEF PipeType
<1>4. Counted'
  <2>1. pipe.inside \in Nat /\ pipe.kept \in Nat /\ pipe.dropped \in Nat /\ pipe.written \in Nat
    BY <1>0 DEF PipeType
  <2> QED BY <1>0, <1>1, <1>2, <1>3, <2>1 DEF Counted, more, all
<1> QED BY <1>0, <1>1, <1>3, <1>4, PipeMoves DEF ITypeOK

LEMMA RegistersInvoke == IInv /\ Registers => IInv'
<1> SUFFICES ASSUME IInv, Registers PROVE IInv'  OBVIOUS
<1>0. ITypeOK /\ Counted  BY DEF IInv
<1>1. /\ proc[Host].life = "live" /\ registry' = registry \cup {Host}
      /\ UNCHANGED <<proc, pipe, status, run, under>>
  BY DEF Registers
<1>2. PipeType' /\ registry' \subseteq Pids  BY <1>0, <1>1, HostIsOne DEF ITypeOK, PipeType
<1>3. Counted'  BY <1>0, <1>1 DEF Counted
<1> QED BY <1>1, <1>2, <1>3, PipeMoves

\* While the living go on living where they are, what is under the host stays.
LEMMA DescendantsStay ==
    ASSUME \A p \in Pids : Living(proc, p) => Living(proc', p) /\ proc'[p].parent = proc[p].parent
    PROVE  Descendants \subseteq Descendants'
<1>1. SUFFICES ASSUME NEW n \in 1..Cardinality(Children), NEW q \in Generations(proc)[n]
               PROVE  q \in Generations(proc')[n]
  BY DEF Descendants
<1>2. n \in 0..Cardinality(Children)  BY Deepest
<1>3. \A i \in 0..Cardinality(Children) : \A a \in Pids :
          a = Ancestry(proc, q)[i] /\ Living(proc, a) /\ i < n =>
              Living(proc', a) /\ proc'[a].parent = proc[a].parent
  OBVIOUS
<1> HIDE DEF Living
<1> QED BY <1>1, <1>2, <1>3, StaysUnder

LEMMA ForksInvoke == ASSUME IInv, NEW p \in Pids, NEW c \in Children, Forks(p, c) PROVE IInv'
<1>0. ITypeOK /\ Counted /\ Followed /\ Tidied /\ Traced /\ NeverPrompts /\ ProcType  BY DEF IInv, ITypeOK
<1> DEFINE new == [life |-> "live", parent |-> p, pipe |-> proc[p].pipe]
<1>1. /\ proc[p].life = "live" /\ proc[c].life = "unborn"
      /\ proc' = [proc EXCEPT ![c] = new]
      /\ UNCHANGED <<pipe, registry, status, run, under>>
  BY DEF Forks
<1>2. c \in Pids /\ c # Host /\ Host \in Pids  BY HostIsOne
<1>3. new \in [life : Lives, parent : Pids \cup {InitPid}, pipe : BOOLEAN]
      /\ new.life = "live" /\ new.pipe = proc[p].pipe
  BY <1>0 DEF ProcType, Lives
<1> HIDE DEF new
<1>4. ProcType' /\ proc'[c] = new /\ \A q \in Pids : q # c => proc'[q] = proc[q]
  BY <1>0, <1>1, <1>2, <1>3 DEF ProcType
<1>5. ITypeOK'  BY <1>0, <1>1, <1>4 DEF ITypeOK, PipeType, RunType
<1>6. Counted'
  <2>1. pipe.eof => \A q \in Pids : ~proc'[q].pipe  BY <1>0, <1>3, <1>4 DEF Counted
  <2> QED BY <1>0, <1>1, <2>1 DEF Counted
<1>7. Followed'  BY <1>0, <1>1, <1>2, <1>3, <1>4 DEF Followed
<1>10. Tidied'  BY <1>0, <1>1, <1>2, <1>3, <1>4 DEF Tidied
<1>8. Traced'
  <2>1. Descendants \subseteq Descendants'  BY <1>1, <1>4, DescendantsStay DEF Living
  <2>2. \A q \in under : q \in Pids /\ q # c  BY <1>0, <1>1 DEF ITypeOK, Traced
  <2> QED BY <1>0, <1>1, <1>4, <2>1, <2>2 DEF Traced
<1>9. NeverPrompts'  BY <1>0, <1>1 DEF NeverPrompts
<1> QED BY <1>5, <1>6, <1>7, <1>8, <1>9, <1>10 DEF IInv

LEMMA ClosesInvoke == ASSUME IInv, NEW p \in Pids, Closes(p) PROVE IInv'
<1>0. ITypeOK /\ Counted /\ Followed /\ Tidied /\ Traced /\ NeverPrompts /\ ProcType  BY DEF IInv, ITypeOK
<1>1. proc' = [proc EXCEPT ![p].pipe = FALSE] /\ UNCHANGED <<pipe, registry, status, run, under>>
  BY DEF Closes
<1>2. ProcType' /\ \A q \in Pids : /\ proc'[q].life = proc[q].life
                                   /\ proc'[q].parent = proc[q].parent
                                   /\ (proc'[q].pipe => proc[q].pipe)
  BY <1>0, <1>1 DEF ProcType
<1>3. ITypeOK'  BY <1>0, <1>1, <1>2 DEF ITypeOK, PipeType, RunType
<1>4. Counted'
  <2>1. pipe.eof => \A q \in Pids : ~proc'[q].pipe  BY <1>0, <1>2 DEF Counted
  <2> QED BY <1>0, <1>1, <2>1 DEF Counted
<1>5. Followed'  BY <1>0, <1>1, <1>2, HostIsOne DEF Followed
<1>8. Tidied'  BY <1>0, <1>1, <1>2, HostIsOne DEF Tidied
<1>6. Traced'
  <2>1. Descendants \subseteq Descendants'  BY <1>2, DescendantsStay DEF Living
  <2>2. under \subseteq Pids  BY <1>0 DEF ITypeOK
  <2> QED BY <1>0, <1>1, <1>2, <2>1, <2>2 DEF Traced
<1>7. NeverPrompts'  BY <1>0, <1>1 DEF NeverPrompts
<1> QED BY <1>3, <1>4, <1>5, <1>6, <1>7, <1>8 DEF IInv

\* A process is gone: it is dead and holds no pipe; the others live on as they
\* did, its children under init.
Left(p) ==
    /\ proc'[p].life = "dead" /\ ~proc'[p].pipe
    /\ \A q \in Pids \ {p} :
          /\ proc'[q].life = proc[q].life /\ proc'[q].pipe = proc[q].pipe
          /\ proc[q].parent # p => proc'[q].parent = proc[q].parent

LEMMA GoneDoes == ASSUME ProcType, NEW p \in Pids, Gone(p) PROVE ProcType' /\ Left(p)
<1> DEFINE Row == [life : Lives, parent : Pids \cup {InitPid}, pipe : BOOLEAN]
<1>1. ASSUME NEW q \in Pids
      PROVE  /\ proc'[q] \in Row
             /\ q = p => proc'[q].life = "dead" /\ ~proc'[q].pipe
             /\ q # p => /\ proc'[q].life = proc[q].life /\ proc'[q].pipe = proc[q].pipe
                         /\ proc[q].parent # p => proc'[q].parent = proc[q].parent
  <2> DEFINE row == proc[q]
  <2>1. proc'[q] = IF q = p THEN [row EXCEPT !.life = "dead", !.pipe = FALSE]
                   ELSE IF row.parent = p THEN [row EXCEPT !.parent = InitPid] ELSE row
    BY DEF Gone
  <2>2. row \in Row  BY DEF ProcType
  <2> HIDE DEF row
  <2>3. /\ proc'[q] \in Row
        /\ q = p => proc'[q].life = "dead" /\ ~proc'[q].pipe
        /\ q # p => /\ proc'[q].life = row.life /\ proc'[q].pipe = row.pipe
                    /\ row.parent # p => proc'[q].parent = row.parent
    <3>1. CASE q = p
      <4>1. proc'[q] = [row EXCEPT !.life = "dead", !.pipe = FALSE]  BY <2>1, <3>1
      <4> QED BY <2>2, <3>1, <4>1 DEF Lives
    <3>2. CASE q # p /\ row.parent = p
      <4>1. proc'[q] = [row EXCEPT !.parent = InitPid]  BY <2>1, <3>2
      <4> QED BY <2>2, <3>2, <4>1
    <3>3. CASE q # p /\ row.parent # p  BY <2>1, <2>2, <3>3
    <3> QED BY <3>1, <3>2, <3>3
  <2> QED BY <2>3 DEF row
<1>2. proc' = [q \in Pids |-> proc'[q]]  BY DEF Gone
<1> QED BY <1>1, <1>2 DEF ProcType, Left

LEMMA GoneKeeps ==
    ASSUME IInv, NEW p \in Pids, Living(proc, p), Gone(p), UNCHANGED <<pipe, run>>,
           registry' \in SUBSET registry,
           p # Host => status' = status,
           p = Host => status' \in {"ok", "failed"} /\ (status' = "ok" => Host \notin registry'),
           under' \in SUBSET under, run.at # "snapshot" => under' = under,
           run.at = "snapshot" => \A q \in under' : proc'[q].life = "dead" \/ q \in Descendants'
    PROVE  IInv'
<1>0. ITypeOK /\ Counted /\ Followed /\ Tidied /\ Traced /\ NeverPrompts /\ ProcType
  BY DEF IInv, ITypeOK
<1>1. ProcType' /\ Left(p)  BY <1>0, GoneDoes
<1>2. ITypeOK'  BY <1>0, <1>1 DEF ITypeOK, PipeType, RunType
<1>3. Counted'
  <2>1. \A q \in Pids : proc'[q].pipe => proc[q].pipe  BY <1>1 DEF Left
  <2> QED BY <1>0, <2>1 DEF Counted
<1>4. Followed'
  <2>1. \A q \in Pids : q # p => proc'[q].life = proc[q].life  BY <1>1 DEF Left
  <2>2. proc'[p].life = "dead" /\ proc[p].life \in {"live", "dying"}  BY <1>1 DEF Left, Living
  <2> QED BY <1>0, <2>1, <2>2, HostIsOne DEF Followed
<1>7. Tidied'
  <2>1. \A q \in Pids : q # p => proc'[q].life = proc[q].life  BY <1>1 DEF Left
  <2>2. proc'[p].life = "dead" /\ proc[p].life \in {"live", "dying"}  BY <1>1 DEF Left, Living
  <2>3. CASE p = Host  BY <1>0, <2>2, <2>3 DEF Followed, Tidied
  <2>4. CASE p # Host  BY <1>0, <2>1, <2>4, HostIsOne DEF Tidied
  <2> QED BY <2>3, <2>4
<1>5. Traced'
  <2>1. \A q \in under' : q \in Pids /\ proc'[q].life # "unborn"
            /\ (proc[q].life = "dead" => proc'[q].life = "dead")
    BY <1>0, <1>1 DEF ITypeOK, Traced, Left
  <2> QED BY <1>0, <2>1 DEF Traced
<1>6. NeverPrompts'  BY <1>0 DEF NeverPrompts
<1> QED BY <1>2, <1>3, <1>4, <1>5, <1>6, <1>7 DEF IInv

LEMMA DiesInvoke == ASSUME IInv, NEW p \in Pids, Dies(p) PROVE IInv'
<1>1. /\ proc[p].life = "dying" /\ Gone(p) /\ UNCHANGED <<pipe, registry, run, under>>
      /\ status' = IF p = Host THEN "failed" ELSE status
  BY DEF Dies
<1>2. run.at # "snapshot"  BY <1>1 DEF IInv, Followed
<1>3. Living(proc, p)  BY <1>1 DEF Living
<1>4. registry' \in SUBSET registry /\ under' \in SUBSET under  BY <1>1
<1> QED BY <1>1, <1>2, <1>3, <1>4, GoneKeeps

\* What is not below the one that ends stays under the host.
LEMMA EndingKeeps ==
    ASSUME IInv, NEW p \in Pids, proc[p].life = "live", Gone(p), Outlive(p), UNCHANGED <<pipe, run>>,
           registry' \in SUBSET registry, p # Host => status' = status,
           p = Host => status' \in {"ok", "failed"} /\ (status' = "ok" => Host \notin registry')
    PROVE  IInv'
<1>0. ITypeOK /\ Traced /\ ProcType  BY DEF IInv, ITypeOK
<1>1. /\ proc[p].life = "live" /\ Gone(p) /\ UNCHANGED <<pipe, run>>
      /\ under' = IF run.at # "snapshot" THEN under
                  ELSE IF p = Host THEN {}
                  ELSE {q \in under : \A n \in 0 .. Cardinality(Children) : Ancestry(proc, q)[n] # p}
  BY DEF Outlive
<1>2. Living(proc, p) /\ Left(p)  BY <1>0, <1>1, GoneDoes DEF Living
<1>3. under' \in SUBSET under /\ (run.at # "snapshot" => under' = under)  BY <1>1
<1>4. ASSUME run.at = "snapshot", NEW q \in under'
      PROVE  proc'[q].life = "dead" \/ q \in Descendants'
  <2>1. q \in under /\ \A n \in 0 .. Cardinality(Children) : Ancestry(proc, q)[n] # p
    BY <1>1, <1>4
  <2>2. q \in Pids /\ (proc[q].life = "dead" => proc'[q].life = "dead")
    BY <1>0, <1>2, <2>1 DEF ITypeOK, Left
  <2>3. CASE proc[q].life = "dead"  BY <2>2, <2>3
  <2>4. CASE q \in Descendants
    <3>1. PICK n \in 1..Cardinality(Children) : q \in Generations(proc)[n]
      BY <2>4 DEF Descendants
    <3>2. n \in 0..Cardinality(Children)  BY Deepest
    <3>3. ASSUME NEW i \in 0..Cardinality(Children), NEW a \in Pids, a = Ancestry(proc, q)[i],
                 Living(proc, a), i < n
          PROVE  Living(proc', a) /\ proc'[a].parent = proc[a].parent
      <4>1. a # p  BY <2>1, <3>3
      <4>2. i + 1 \in 0..Cardinality(Children) /\ (i + 1) - 1 = i /\ i + 1 # 0
        BY <3>1, <3>3, Deepest
      <4>3. Ancestry(proc, q)[i + 1] = AncestorBody(proc, q, Ancestry(proc, q), i + 1)
        BY <4>2, AncestryIs
      <4>4. a # InitPid  BY HostIsOne
      <4>5. Ancestry(proc, q)[i + 1] = proc[a].parent
        BY <3>3, <4>2, <4>3, <4>4 DEF AncestorBody
      <4>6. proc[a].parent # p  BY <2>1, <4>2, <4>5
      <4> QED BY <1>2, <3>3, <4>1, <4>6 DEF Left, Living
    <3>4. q \in Generations(proc')[n]
      <4>1. \A i \in 0..Cardinality(Children) : \A a \in Pids :
                a = Ancestry(proc, q)[i] /\ Living(proc, a) /\ i < n =>
                    Living(proc', a) /\ proc'[a].parent = proc[a].parent
        BY <3>3
      <4> QED BY <3>1, <3>2, <4>1, StaysUnder
    <3> QED BY <3>4 DEF Descendants
  <2> QED BY <1>0, <1>4, <2>1, <2>3, <2>4 DEF Traced
<1> QED BY <1>1, <1>2, <1>3, <1>4, GoneKeeps

LEMMA EndsInvoke == ASSUME IInv, NEW p \in Pids, Ends(p) PROVE IInv'
<1>1. /\ proc[p].life = "live" /\ Gone(p) /\ Outlive(p) /\ UNCHANGED <<pipe, run>>
      /\ registry' = registry \ {p} /\ status' = IF p = Host THEN "ok" ELSE status
  BY DEF Ends
<1>2. registry' \in SUBSET registry /\ p \notin registry'  BY <1>1
<1> QED BY <1>1, <1>2, EndingKeeps

LEMMA CrashesInvoke == IInv /\ Crashes => IInv'
<1> SUFFICES ASSUME IInv, Crashes PROVE IInv'  OBVIOUS
<1>1. /\ proc[Host].life = "live" /\ Gone(Host) /\ Outlive(Host) /\ UNCHANGED <<pipe, run>>
      /\ registry' \in SUBSET registry /\ status' = "failed"
  BY DEF Crashes
<1> QED BY <1>1, HostIsOne, EndingKeeps

LEMMA StepInvoke == IInv /\ [INext]_iVars => IInv'
<1> SUFFICES ASSUME IInv, [INext]_iVars PROVE IInv'  OBVIOUS
<1> USE PollsInvoke, ExpiresInvoke, SnapshotInvoke, KillsNextInvoke, KillsHostInvoke, ReapsInvoke,
        RewalkInvoke, SweepsInvoke, TakesInvoke, DrainsInvoke, PipeEndsInvoke, StartInvoke,
        ForksInvoke, PrintsInvoke, RegistersInvoke, ClosesInvoke, EndsInvoke, CrashesInvoke,
        DiesInvoke,
        StutterInvoke
<1>1. CASE IStep
  <2>1. Polls \/ Expires \/ KillsNext \/ KillsHost \/ Reaps \/ Takes \/ Drains \/ PipeEnds
        \/ (\E seen \in BOOLEAN : Snapshot(seen)) \/ (\E seen \in BOOLEAN : Rewalk(seen, TRUE))
        \/ (\E p \in Pids : Dies(p)) \/ (\E works \in BOOLEAN : Sweeps(works))
    BY <1>1 DEF IStep
  <2>2. TRUE \in BOOLEAN  OBVIOUS
  <2> QED BY <2>1, <2>2
<1>2. CASE run.at = "idle" /\ \E argv \in Argvs, policy \in Policies, machine \in Machines :
               Start(argv, policy, machine)
  BY <1>2
<1>3. CASE \E seen \in BOOLEAN : Rewalk(seen, FALSE)
  <2>1. FALSE \in BOOLEAN  OBVIOUS
  <2> QED BY <1>3, <2>1
<1>4. CASE \E p \in Pids, c \in Children : Forks(p, c)  BY <1>4
<1>5. CASE Registers \/ Crashes  BY <1>5
<1>6. CASE \E p \in Pids : Prints(p) \/ Closes(p) \/ Ends(p)  BY <1>6
<1>7. CASE UNCHANGED iVars  BY <1>7
<1> QED BY <1>1, <1>2, <1>3, <1>4, <1>5, <1>6, <1>7 DEF INext

-----------------------------------------------------------------------------
\* Invoke: theorems.

\* Where each of omm's steps leaves the process, the pipe, the registry and what
\* was found under the host, for any processes, any pipe and any command lines.
THEOREM InvokeTypeCorrect == InvokeSpec => []IInv
<1>1. IInit => IInv  BY InitInvoke
<1>2. IInv /\ [INext]_iVars => IInv'  BY StepInvoke
<1> QED BY <1>1, <1>2, PTL DEF InvokeSpec

\* No session with a prompt is started for a caller that did not ask for one,
\* whatever the command line says, of whatever length.
THEOREM NoUnaskedPrompt == InvokeSpec => []NeverPrompts
<1>1. IInv => NeverPrompts  BY DEF IInv
<1> QED BY <1>1, InvokeTypeCorrect, PTL

\* What a run says of its output and of what outlives it is so, and a session is
\* left only where the run tells of a failed host or could not sweep, however the
\* processes fork, end, crash and print meanwhile.
THEOREM RunReportsTrue == InvokeSpec => []ReportsTrue
<1>1. IInv => ReportsTrue
  <2>1. SUFFICES ASSUME IInv, run.at = "over" PROVE ReportsTrue  BY DEF ReportsTrue
  <2> QED BY <2>1 DEF IInv, ITypeOK, RunType, ReportsTrue, Counted, Followed, Tidied, Traced
<1> QED BY <1>1, InvokeTypeCorrect, PTL

-----------------------------------------------------------------------------
(* Mcp: the pipe of an honest client, frame by frame.                      *)

\* Mcp: types of what an honest client sends.
Pieces(f) == IF f.framing = "line" THEN 1 ELSE f.fields + 3
Sent(f) == Encoded(f, f.size)

Said == {Doc(m, k) : m \in Documents, k \in Nat}
HonestFrames == [doc : Said, framing : {"line", "block"}, size : Nat \ {0}, fields : 0 .. HeaderMax,
                 honest : BOOLEAN]
Items == [text : Said \cup {Blank.text, Field.text} \cup {Header(n).text : n \in Nat},
          len : Nat, nl : BOOLEAN]

\* What lies in the pipe behind frame k: the rest of it, up to place cut[k], the
\* frames after it, each up to its cut, and what is left of half a frame.
InPipe ==
    input \in Seq(Items) /\ \A i \in 1 .. Len(input) : input[i].len > 0 \/ input[i].nl
Cuts(k, half, cut) ==
    /\ DOMAIN cut = k .. Len(frames) /\ \A q \in k .. Len(frames) : cut[q] \in Nat
    /\ \A p, q \in k .. Len(frames) : p <= q => cut[p] <= cut[q]
    /\ cut[Len(frames)] + half = Len(input)
FrameAt(f, from, to) ==
    to = from + Pieces(f) /\ \A i \in 1 .. Pieces(f) : input[from + i] = Sent(f)[i]
FramesAt(k, cut) ==
    \A q \in k + 1 .. Len(frames) : FrameAt(frames[q], cut[q - 1], cut[q])
HalfAt(half) ==
    /\ half > 0 => peer.closed /\ input[Len(input)] = Blank
    /\ half = 2 => input[Len(input) - 1] = Header(2)
Laid(k, half, cut) == InPipe /\ Cuts(k, half, cut) /\ FramesAt(k, cut) /\ HalfAt(half)

\* The requests among the first k frames have their answers, and nobody else.
Served(k) ==
    /\ Len(output) = Rank(k)
    /\ \A n \in 1 .. Len(output) :
          \E i \in 1 .. k : /\ Answerable(frames[i]) /\ Rank(i) = n
                            /\ Suits(output[n], frames[i])

\* What the server is at, between two frames, within frame k, or with its answer.
Between(k, half, cut) == half \in {0, 2} /\ cut[k] = 0 /\ Served(k)
Within(k, half, cut) ==
    /\ half \in {0, 2} /\ k > 0 /\ frames[k].framing = "block" /\ Served(k - 1)
    /\ server.length = frames[k].size
    /\ IF server.at = "body" THEN cut[k] = 1
       ELSE server.headers \in 0 .. frames[k].fields
            /\ cut[k] = frames[k].fields - server.headers + 2
    /\ \A i \in 1 .. cut[k] : input[i] = Sent(frames[k])[Pieces(frames[k]) - cut[k] + i]
WithinHalf(k, half, cut) ==
    /\ k = Len(frames) /\ cut[k] = 0 /\ peer.closed /\ Served(k)
    /\ half = (IF server.at = "body" THEN 0 ELSE 1) /\ server.length = 2
Answering(k, half, cut) ==
    /\ half \in {0, 2} /\ k > 0 /\ cut[k] = 0 /\ Served(k - 1)
    /\ Answerable(frames[k])
    /\ server.reply.id = DueId(frames[k])
    /\ IF server.at = "tool" THEN server.framing = frames[k].framing
       ELSE server.reply.framing = frames[k].framing

Serving(k, half, cut) ==
    /\ Laid(k, half, cut)
    /\ server.at = "read" => Between(k, half, cut)
    /\ server.at \in {"headers", "body"} => Within(k, half, cut) \/ WithinHalf(k, half, cut)
    /\ server.at \in {"tool", "send"} => Answering(k, half, cut)

Finished ==
    /\ peer.closed
    /\ \E k \in 0 .. Len(frames) : Served(k) /\ (~peer.gone => k = Len(frames))

Framings == {"line", "block"}
Wordings == {"none", "parse error", "invalid request", "invalid params", "method not found",
             "result", "tool error"}
Replies == [id : Nat, what : Wordings, framing : Framings]
Servers == [at : {"read", "headers", "body", "tool", "send", "over"}, framing : Framings,
            length : Nat, headers : Nat, reply : Replies, doc : Documents \cup {<<>>}]

Keeping ==
    /\ frames \in Seq(HonestFrames) /\ output \in Seq(Replies) /\ server \in Servers
    /\ peer \in [sent : Nat, closed : BOOLEAN, gone : BOOLEAN] /\ (peer.gone => peer.closed)
    /\ server.at = "over" => Finished
    /\ server.at # "over" =>
          \E k \in 0 .. Len(frames), half \in 0 .. 2 :
             \E cut \in [k .. Len(frames) -> Nat] : Serving(k, half, cut)
Frames == [doc : Said, framing : Framings, size : Nat \ {0}, fields : Nat, honest : BOOLEAN]
Peers == [sent : Nat, closed : BOOLEAN, gone : BOOLEAN]
ServerKeepsUp == frames \in Seq(Frames) /\ peer \in Peers /\ (Honest => Keeping)

-----------------------------------------------------------------------------
\* Mcp: what lies in the pipe.

UptoBody(items, f, k) == IF k = 0 THEN 0 ELSE f[k - 1] + Weight(items[k])

\* Bytes are counted item by item.
LEMMA UptoAre ==
    ASSUME NEW items, Len(items) \in Nat, NEW p \in 0 .. Len(items)
    PROVE  Upto(items)[p] = UptoBody(items, Upto(items), p)
<1> DEFINE n == Len(items)
           Part(k) == \E g : g = [i \in 0..k |-> UptoBody(items, g, i)]
           bad == {j \in 0..n : ~Part(j)}
<1>1. n \in Nat  OBVIOUS
<1>2. Part(0)
  <2>1. [i \in 0..0 |-> 0] = [i \in 0..0 |-> UptoBody(items, [j \in 0..0 |-> 0], i)]
    BY DEF UptoBody
  <2> QED BY <2>1
<1>3. ASSUME NEW k \in 0..(n - 1), Part(k) PROVE Part(k + 1)
  <2>1. PICK g : g = [i \in 0..k |-> UptoBody(items, g, i)]  BY <1>3
  <2> DEFINE h == [i \in 0..(k + 1) |-> IF i = k + 1 THEN UptoBody(items, g, k + 1) ELSE g[i]]
  <2>2. \A i \in 0..k : h[i] = g[i]  BY <1>1
  <2>3. \A i \in 0..(k + 1) : UptoBody(items, h, i) = UptoBody(items, g, i)
    <3>1. SUFFICES ASSUME NEW i \in 0..(k + 1) PROVE UptoBody(items, h, i) = UptoBody(items, g, i)
      OBVIOUS
    <3>2. i > 0 => h[i - 1] = g[i - 1]  BY <1>1, <2>2
    <3> HIDE DEF h
    <3> QED BY <3>2 DEF UptoBody
  <2>4. \A i \in 0..(k + 1) : h[i] = UptoBody(items, g, i)
    <3>1. \A i \in 0..k : g[i] = UptoBody(items, g, i)  BY <2>1
    <3> QED BY <1>1, <2>2, <3>1
  <2>5. h = [i \in 0..(k + 1) |-> h[i]]  OBVIOUS
  <2> HIDE DEF h
  <2>6. h = [i \in 0..(k + 1) |-> UptoBody(items, h, i)]  BY <2>3, <2>4, <2>5
  <2> QED BY <2>6
<1>4. Part(n)
  <2>1. SUFFICES ASSUME ~Part(n) PROVE FALSE  OBVIOUS
  <2> HIDE DEF Part
  <2>2. n \in bad  BY <1>1, <2>1
  <2>3. PICK m \in bad : \A j \in bad : m <= j
    <3>1. bad \in SUBSET Nat  OBVIOUS
    <3> HIDE DEF bad
    <3> QED BY <2>2, <3>1, Least
  <2>4. m # 0 /\ m \in Nat /\ m <= n  BY <1>1, <1>2, <2>3
  <2>5. m - 1 \notin bad /\ m - 1 \in 0..(n - 1)  BY <1>1, <2>3, <2>4
  <2>6. Part(m - 1)  BY <1>1, <2>5
  <2>7. Part((m - 1) + 1)  BY <1>3, <2>5, <2>6
  <2>8. Part(m)  BY <2>4, <2>7
  <2> QED BY <2>3, <2>8
<1>5. Upto(items) = CHOOSE g : g = [i \in 0..n |-> UptoBody(items, g, i)]
  BY DEF Upto, UptoBody
<1>6. Upto(items) = [i \in 0..n |-> UptoBody(items, Upto(items), i)]
  BY <1>4, <1>5, Zenon
<1> HIDE DEF n
<1>7. p \in 0..n  BY DEF n
<1> QED BY <1>6, <1>7

\* Items that have a byte.
Solid(items) ==
    \A i \in 1 .. Len(items) : items[i].len \in Nat /\ (items[i].len > 0 \/ items[i].nl)

LEMMA UptoRises ==
    ASSUME NEW items, Len(items) \in Nat, Solid(items)
    PROVE  /\ \A k \in 0 .. Len(items) : Upto(items)[k] \in Nat
           /\ \A k \in 1 .. Len(items) : Upto(items)[k] > Upto(items)[k - 1]
<1> DEFINE n == Len(items)
           u == Upto(items)
           bad == {k \in 0 .. n : u[k] \notin Nat}
<1>1. n \in Nat  OBVIOUS
<1>2. u[0] = 0  BY <1>1, UptoAre DEF UptoBody
<1>3. \A k \in 1 .. n : u[k] = u[k - 1] + Weight(items[k])
  <2>1. SUFFICES ASSUME NEW k \in 1 .. n PROVE u[k] = u[k - 1] + Weight(items[k])  OBVIOUS
  <2>2. k \in 0 .. n /\ k # 0  BY <1>1
  <2> QED BY <2>2, UptoAre DEF UptoBody
<1>4. \A k \in 1 .. n : Weight(items[k]) \in Nat /\ Weight(items[k]) > 0
  BY DEF Solid, Weight
<1> HIDE DEF u
<1>5. bad = {}
  <2>1. SUFFICES ASSUME bad # {} PROVE FALSE  OBVIOUS
  <2>2. PICK m \in bad : \A j \in bad : m <= j
    <3>1. bad \in SUBSET Nat  OBVIOUS
    <3> HIDE DEF bad
    <3> QED BY <2>1, <3>1, Least
  <2>3. m \in 1 .. n  BY <1>1, <1>2, <2>2
  <2>4. u[m - 1] \in Nat  BY <1>1, <2>2, <2>3
  <2> QED BY <1>3, <1>4, <2>2, <2>3, <2>4
<1>6. \A k \in 0 .. n : u[k] \in Nat  BY <1>5
<1>7. \A k \in 1 .. n : u[k] > u[k - 1]
  <2>1. SUFFICES ASSUME NEW k \in 1 .. n PROVE u[k] > u[k - 1]  OBVIOUS
  <2>2. u[k - 1] \in Nat /\ u[k] = u[k - 1] + Weight(items[k])
    <3>1. k - 1 \in 0 .. n  BY <1>1
    <3> QED BY <1>3, <1>6, <3>1
  <2> QED BY <1>4, <2>2
<1> QED BY <1>6, <1>7 DEF u

\* All that comes after the first item adds to its bytes.
LEMMA UptoFirst ==
    ASSUME NEW items, Len(items) \in Nat, Solid(items), Len(items) > 0
    PROVE  /\ Upto(items)[0] = 0 /\ Upto(items)[1] = Weight(items[1])
           /\ \A k \in 2 .. Len(items) : Upto(items)[k] > Upto(items)[1]
           /\ Bytes(items) \in Nat /\ Bytes(items) >= Weight(items[1])
<1> DEFINE n == Len(items)
           u == Upto(items)
           bad == {k \in 2 .. n : ~(u[k] > u[1])}
<1>1. n \in Nat /\ n > 0 /\ 0 \in 0 .. n /\ 1 \in 0 .. n /\ n \in 0 .. n  OBVIOUS
<1>2. u[0] = 0  BY <1>1, UptoAre DEF UptoBody
<1>3. u[1] = Weight(items[1])
  <2>1. u[1] = u[0] + Weight(items[1])  BY <1>1, UptoAre DEF UptoBody
  <2>2. Weight(items[1]) \in Nat  BY <1>1 DEF Solid, Weight
  <2> QED BY <1>2, <2>1, <2>2
<1>4. /\ \A k \in 0 .. n : u[k] \in Nat
      /\ \A k \in 1 .. n : u[k] > u[k - 1]
  BY UptoRises
<1> HIDE DEF u
<1>5. bad = {}
  <2>1. SUFFICES ASSUME bad # {} PROVE FALSE  OBVIOUS
  <2>2. PICK m \in bad : \A j \in bad : m <= j
    <3>1. bad \in SUBSET Nat  OBVIOUS
    <3> HIDE DEF bad
    <3> QED BY <2>1, <3>1, Least
  <2>3. m \in 2 .. n /\ u[m] > u[m - 1] /\ m - 1 \in 0 .. n /\ u[m - 1] \in Nat /\ u[m] \in Nat
    BY <1>1, <1>4, <2>2
  <2>4. u[m - 1] >= u[1]
    <3>1. CASE m = 2  BY <1>1, <1>4, <3>1
    <3>2. CASE m # 2
      <4>1. m - 1 \in 2 .. n /\ m - 1 \notin bad  BY <1>1, <2>2, <2>3, <3>2
      <4> QED BY <1>1, <1>4, <4>1
    <3> QED BY <3>1, <3>2
  <2> QED BY <1>1, <1>4, <2>2, <2>3, <2>4
<1>6. u[n] \in Nat /\ u[n] >= u[1]
  <2>1. n = 1 \/ n \in 2 .. n  BY <1>1
  <2> QED BY <1>1, <1>4, <1>5, <2>1
<1> QED BY <1>2, <1>3, <1>4, <1>5, <1>6 DEF u, Bytes

\* The first item, when it is a body: its bytes are there, and dropping them
\* leaves the rest.
LEMMA BodyDropped ==
    ASSUME NEW items, Len(items) \in Nat, Solid(items), Len(items) > 0, ~items[1].nl
    PROVE  /\ Bytes(items) \in Nat /\ Bytes(items) >= items[1].len
           /\ Drop(items, items[1].len) = SubSeq(items, 2, Len(items))
<1> DEFINE n == Len(items)
           u == Upto(items)
           len == items[1].len
           whole == CHOOSE k \in 0 .. n : u[k] <= len /\ (k < n => u[k + 1] > len)
<1>1. n \in Nat /\ n > 0 /\ len \in Nat /\ len > 0  BY DEF Solid
<1>2. Weight(items[1]) = len  BY <1>1 DEF Weight
<1>3. u[0] = 0 /\ u[1] = len /\ (\A k \in 2 .. n : u[k] > u[1]) /\ Bytes(items) \in Nat
      /\ Bytes(items) >= len
  BY <1>2, UptoFirst
<1>4. \A k \in 0 .. n : u[k] \in Nat  BY UptoRises
<1> HIDE DEF u, len, n
<1>5. \A k \in 0 .. n : (u[k] <= len /\ (k < n => u[k + 1] > len)) <=> k = 1
  <2>1. SUFFICES ASSUME NEW k \in 0 .. n
                 PROVE (u[k] <= len /\ (k < n => u[k + 1] > len)) <=> k = 1
    OBVIOUS
  <2>2. CASE k = 0  BY <1>1, <1>3, <1>4, <2>2
  <2>3. CASE k = 1
    <3>1. k < n => k + 1 \in 2 .. n  BY <1>1, <2>3
    <3> QED BY <1>1, <1>3, <1>4, <2>3, <3>1
  <2>4. CASE k > 1
    <3>1. k \in 2 .. n  BY <1>1, <2>4
    <3> QED BY <1>1, <1>3, <1>4, <2>4, <3>1
  <2> QED BY <1>1, <2>2, <2>3, <2>4
<1>6. whole = 1
  <2> DEFINE Is(k) == u[k] <= len /\ (k < n => u[k + 1] > len)
  <2>1. \A k \in 0 .. n : Is(k) <=> k = 1  BY <1>5
  <2>2. 1 \in 0 .. n  BY <1>1
  <2>3. whole = CHOOSE k \in 0 .. n : Is(k)  OBVIOUS
  <2> HIDE DEF Is, whole
  <2>4. whole \in 0 .. n /\ Is(whole)  BY <2>1, <2>2, <2>3, Zenon
  <2> QED BY <2>1, <2>4
<1> HIDE DEF whole
<1>7. len - u[whole] = 0 /\ whole + 1 = 2  BY <1>1, <1>3, <1>6
<1>8. Drop(items, len) = IF len - u[whole] = 0 \/ SubSeq(items, whole + 1, n) = <<>>
                         THEN SubSeq(items, whole + 1, n)
                         ELSE [SubSeq(items, whole + 1, n) EXCEPT ![1] = Cut(@, len - u[whole])]
  BY DEF Drop, whole, u, n
<1>9. Drop(items, len) = SubSeq(items, 2, n)  BY <1>7, <1>8
<1> QED BY <1>3, <1>9 DEF len, n

\* A line that is one item.
LEMMA FirstLine ==
    ASSUME NEW S, input \in Seq(S), Solid(input), Len(input) > 0, input[1].nl,
           input[1].text.is = "blank" => input[1].text = Blank.text
    PROVE  /\ LineThere /\ Line # <<>> /\ AfterLine = SubSeq(input, 2, Len(input))
           /\ TextOf(Line) = input[1].text
           /\ TooLong <=> input[1].len > Limit
<1>1. Len(input) \in Nat /\ 1 \in 1 .. Len(input) /\ input[1] \in S  BY ElementOfSeq
<1>2. LineEnd = 1
  <2> DEFINE First(i) == input[i].nl /\ \A j \in 1 .. i - 1 : ~input[j].nl
  <2>1. \E i \in 1 .. Len(input) : input[i].nl  BY <1>1
  <2>2. First(1)  OBVIOUS
  <2>3. \A i \in 1 .. Len(input) : First(i) => i = 1
    <3>1. SUFFICES ASSUME NEW i \in 1 .. Len(input), First(i), i # 1 PROVE FALSE  OBVIOUS
    <3>2. 1 \in 1 .. i - 1  BY <1>1, <3>1
    <3> QED BY <3>1, <3>2
  <2>4. LineEnd = CHOOSE i \in 1 .. Len(input) : First(i)  BY <2>1 DEF LineEnd
  <2> HIDE DEF First
  <2>5. LineEnd \in 1 .. Len(input) /\ First(LineEnd)  BY <1>1, <2>2, <2>4, Zenon
  <2> QED BY <2>3, <2>5
<1>3. Line \in Seq({input[1]}) /\ Len(Line) = 1 /\ Line[1] = input[1]
  <2>1. \A i \in 1 .. 1 : input[i] \in {input[1]}  OBVIOUS
  <2>2. /\ SubSeq(input, 1, 1) \in Seq({input[1]})
        /\ Len(SubSeq(input, 1, 1)) = (IF 1 <= 1 THEN 1 - 1 + 1 ELSE 0)
        /\ \A i \in 1 .. 1 - 1 + 1 : SubSeq(input, 1, 1)[i] = input[1 + i - 1]
    BY <2>1, SubSeqProperties
  <2>3. Line = SubSeq(input, 1, 1)  BY <1>2 DEF Line
  <2> DEFINE cut == SubSeq(input, 1, 1)
  <2> HIDE DEF cut
  <2>4. Len(cut) = 1 /\ cut[1] = input[1] /\ cut \in Seq({input[1]})
    <3>1. 1 \in 1 .. 1 - 1 + 1 /\ 1 + 1 - 1 = 1  OBVIOUS
    <3> QED BY <2>2, <3>1 DEF cut
  <2>5. Line = cut  BY <2>3 DEF cut
  <2> QED BY <2>4, <2>5
<1>4. Line # <<>>
  <2>1. Len(<<>>) # 1  OBVIOUS
  <2>2. Len(Line) = 1  BY <1>3
  <2> QED BY <2>1, <2>2, Zenon
<1>5. TextOf(Line) = input[1].text
  <2> DEFINE said == {i \in DOMAIN Line : Line[i].text.is # "blank"}
  <2>1. DOMAIN Line = {1}  BY <1>3, LenProperties
  <2>2. CASE input[1].text.is = "blank"
    <3>1. said = {}  BY <1>3, <2>1, <2>2
    <3> QED BY <2>2, <3>1 DEF TextOf
  <2>3. CASE input[1].text.is # "blank"
    <3>1. said = {1}  BY <1>3, <2>1, <2>3
    <3> HIDE DEF said
    <3>2. said # {} /\ (\E i \in said : said = {i}) /\ (CHOOSE i \in said : TRUE) = 1
      BY <3>1
    <3>3. TextOf(Line) = Line[CHOOSE i \in said : TRUE].text  BY <3>2 DEF TextOf, said
    <3> QED BY <1>3, <3>2, <3>3
  <2> QED BY <2>2, <2>3
<1>6. TooLong <=> input[1].len > Limit
  <2>1. Solid(Line) /\ Len(Line) \in Nat /\ Len(Line) > 0  BY <1>1, <1>3 DEF Solid
  <2>2. Bytes(Line) = Weight(input[1])  BY <1>3, <2>1, UptoFirst DEF Bytes
  <2>3. Weight(input[1]) = input[1].len + 1 /\ input[1].len \in Nat  BY <1>1 DEF Solid, Weight
  <2>4. LineBytes = input[1].len  BY <1>2, <1>3, <2>2, <2>3 DEF LineBytes
  <2> QED BY <2>4 DEF TooLong
<1>7. LineThere  BY <1>1 DEF LineThere
<1>8. AfterLine = SubSeq(input, 2, Len(input))  BY <1>2 DEF AfterLine
<1> QED BY <1>4, <1>5, <1>6, <1>7, <1>8

\* No line at the end of the pipe.
LEMMA NoLine ==
    ASSUME Len(input) = 0
    PROVE  Line = <<>> /\ (LineThere => peer.closed)
<1>1. LineEnd = 0  BY DEF LineEnd
<1>2. SubSeq(input, 1, 0) = <<>>  BY SubSeqEmpty
<1> QED BY <1>1, <1>2 DEF Line, LineThere

-----------------------------------------------------------------------------
\* Mcp: the ranks of the requests.

LEMMA RankSteps ==
    ASSUME NEW k \in Nat
    PROVE  /\ Rank(k) \in Nat /\ Rank(0) = 0
           /\ Rank(k + 1) = Rank(k) + (IF Answerable(frames[k + 1]) THEN 1 ELSE 0)
<1> DEFINE A(n) == {j \in 1 .. n : Answerable(frames[j])}
<1>1. IsFiniteSet(A(k))
  <2>1. IsFiniteSet(1 .. k) /\ A(k) \subseteq 1 .. k  BY FS_Interval
  <2> QED BY <2>1, FS_Subset
<1>2. Cardinality(A(k)) \in Nat  BY <1>1, FS_CardinalityType
<1>3. A(0) = {} /\ Cardinality(A(0)) = 0  BY FS_EmptySet
<1>4. CASE Answerable(frames[k + 1])
  <2>1. A(k + 1) = A(k) \cup {k + 1} /\ k + 1 \notin A(k)  BY <1>4
  <2> HIDE DEF A
  <2>2. Cardinality(A(k + 1)) = Cardinality(A(k)) + 1  BY <1>1, <2>1, FS_AddElement
  <2> QED BY <1>2, <1>3, <1>4, <2>2 DEF Rank, A
<1>5. CASE ~Answerable(frames[k + 1])
  <2>1. A(k + 1) = A(k)  BY <1>5
  <2> QED BY <1>2, <1>3, <1>5, <2>1 DEF Rank
<1> QED BY <1>4, <1>5

\* A rank depends on the frames up to it.
LEMMA RankStays ==
    ASSUME NEW k \in Nat, \A j \in 1 .. k : frames'[j] = frames[j]
    PROVE  Rank(k)' = Rank(k)
<1>1. {j \in 1 .. k : Answerable(frames'[j])} = {j \in 1 .. k : Answerable(frames[j])}
  OBVIOUS
<1> QED BY <1>1 DEF Rank

LEMMA ServedStays ==
    ASSUME NEW k \in Nat, Served(k), output' = output, \A j \in 1 .. k : frames'[j] = frames[j]
    PROVE  Served(k)'
<1>1. Rank(k)' = Rank(k)  BY RankStays
<1>2. \A i \in 1 .. k : Rank(i)' = Rank(i)
  <2>1. SUFFICES ASSUME NEW i \in 1 .. k PROVE Rank(i)' = Rank(i)  OBVIOUS
  <2>2. i \in Nat /\ \A j \in 1 .. i : frames'[j] = frames[j]  OBVIOUS
  <2> QED BY <2>2, RankStays
<1> QED BY <1>1, <1>2 DEF Served

\* The answer to the next frame, or none if it needs none.
LEMMA ServedNext ==
    ASSUME NEW k \in Nat, Served(k), NEW reply, NEW S, output \in Seq(S), reply \in S,
           Answerable(frames[k + 1]), Suits(reply, frames[k + 1]),
           output' = Append(output, reply), frames' = frames
    PROVE  Served(k + 1)'
<1>1. Len(output) \in Nat /\ Len(output') = Len(output) + 1 /\ output'[Len(output) + 1] = reply
      /\ \A n \in 1 .. Len(output) : output'[n] = output[n]
  OBVIOUS
<1>2. Rank(k + 1) = Rank(k) + 1 /\ Rank(k) \in Nat  BY RankSteps
<1>3. Len(output) = Rank(k)  BY DEF Served
<1>4. \A i \in 1 .. k + 1 : Rank(i)' = Rank(i)
  <2>1. SUFFICES ASSUME NEW i \in 1 .. k + 1 PROVE Rank(i)' = Rank(i)  OBVIOUS
  <2>2. i \in Nat /\ \A j \in 1 .. i : frames'[j] = frames[j]  OBVIOUS
  <2> QED BY <2>2, RankStays
<1>5. k + 1 \in 1 .. k + 1  OBVIOUS
<1>6. ASSUME NEW n \in 1 .. Len(output')
      PROVE  \E i \in 1 .. k + 1 : /\ Answerable(frames'[i]) /\ Rank(i)' = n
                                   /\ Suits(output'[n], frames'[i])
  <2>1. CASE n = Len(output) + 1
    <3>1. Rank(k + 1)' = n  BY <1>2, <1>3, <1>4, <1>5, <2>1
    <3> QED BY <1>1, <1>5, <2>1, <3>1
  <2>2. CASE n # Len(output) + 1
    <3>1. n \in 1 .. Len(output)  BY <1>1, <1>6, <2>2
    <3>2. PICK i \in 1 .. k : /\ Answerable(frames[i]) /\ Rank(i) = n
                              /\ Suits(output[n], frames[i])
      BY <3>1 DEF Served
    <3>3. i \in 1 .. k + 1  OBVIOUS
    <3> QED BY <1>1, <1>4, <3>1, <3>2, <3>3
  <2> QED BY <2>1, <2>2
<1>7. Len(output') = Rank(k + 1)'  BY <1>1, <1>2, <1>3, <1>4, <1>5
<1> QED BY <1>6, <1>7 DEF Served, Suits, Answerable, DueId

LEMMA ServedNone ==
    ASSUME NEW k \in Nat, Served(k), ~Answerable(frames[k + 1])
    PROVE  Served(k + 1)
<1>1. Rank(k + 1) = Rank(k)  BY RankSteps
<1>2. 1 .. k \subseteq 1 .. k + 1  OBVIOUS
<1> QED BY <1>1, <1>2 DEF Served

-----------------------------------------------------------------------------
\* Mcp: the frames in the pipe.

LEMMA Encodings ==
    ASSUME NEW f \in HonestFrames
    PROVE  /\ Pieces(f) \in Nat /\ Pieces(f) > 0
           /\ Sent(f) \in Seq(Items) /\ Len(Sent(f)) = Pieces(f)
           /\ \A i \in 1 .. Pieces(f) : Sent(f)[i].len > 0 \/ Sent(f)[i].nl
           /\ f.framing = "line" => Sent(f)[1] = Item(f.doc, f.size, TRUE)
           /\ f.framing = "block" =>
                /\ f.fields \in Nat /\ f.fields <= HeaderMax /\ Pieces(f) = f.fields + 3
                /\ Sent(f)[1] = Header(f.size)
                /\ \A i \in 2 .. f.fields + 1 : Sent(f)[i] = Field
                /\ Sent(f)[f.fields + 2] = Blank
                /\ Sent(f)[f.fields + 3] = Item(f.doc, f.size, FALSE)
<1>1. f.doc \in Said /\ f.size \in Nat /\ f.size > 0 /\ f.fields \in Nat /\ f.fields <= HeaderMax
      /\ f.framing \in {"line", "block"}
  BY McpAssumption DEF HonestFrames
<1>2. Item(f.doc, f.size, TRUE) \in Items /\ Item(f.doc, f.size, FALSE) \in Items
      /\ Header(f.size) \in Items /\ Field \in Items /\ Blank \in Items
  <2>1. \A t \in Said \cup {Blank.text, Field.text} \cup {Header(n).text : n \in Nat}, n \in Nat,
           nl \in BOOLEAN : Item(t, n, nl) \in Items
    BY DEF Item, Items
  <2>2. Blank.text \in {Blank.text, Field.text} /\ Field.text \in {Blank.text, Field.text}
        /\ Header(f.size).text \in {Header(n).text : n \in Nat}
    BY <1>1
  <2>3. Blank = Item(Blank.text, 0, TRUE) /\ Field = Item(Field.text, 2, TRUE)
        /\ Header(f.size) = Item(Header(f.size).text, 2, TRUE)
    BY DEF Blank, Field, Header, Item
  <2> HIDE DEF Said
  <2> QED BY <1>1, <2>1, <2>2, <2>3
<1>3. /\ Item(f.doc, f.size, TRUE).len > 0 /\ Item(f.doc, f.size, FALSE).len > 0
      /\ Header(f.size).nl /\ Field.nl /\ Blank.nl
  BY <1>1 DEF Item, Header, Field, Blank
<1>4. CASE f.framing = "line"
  <2>1. Sent(f) = <<Item(f.doc, f.size, TRUE)>> /\ Pieces(f) = 1
    BY <1>4 DEF Sent, Encoded, Pieces
  <2>2. f.framing # "block"  BY <1>4
  <2> DEFINE it == Item(f.doc, f.size, TRUE)
  <2>3. it \in Items /\ it.len > 0  BY <1>2, <1>3
  <2> HIDE DEF it
  <2>4. <<it>> \in Seq(Items) /\ Len(<<it>>) = 1 /\ <<it>>[1] = it  BY <2>3
  <2>5. Sent(f) = <<it>>  BY <2>1 DEF it
  <2>6. Sent(f) \in Seq(Items) /\ Len(Sent(f)) = 1 /\ Sent(f)[1] = it  BY <2>4, <2>5
  <2>7. \A i \in 1 .. Pieces(f) : Sent(f)[i].len > 0 \/ Sent(f)[i].nl
    <3>1. \A i \in 1 .. Pieces(f) : i = 1  BY <2>1
    <3>2. Sent(f)[1].len > 0  BY <2>3, <2>6
    <3> QED BY <3>1, <3>2
  <2>8. Sent(f)[1] = Item(f.doc, f.size, TRUE)  BY <2>6 DEF it
  <2>9. Pieces(f) \in Nat /\ Pieces(f) > 0 /\ Len(Sent(f)) = Pieces(f)  BY <2>1, <2>6
  <2> QED BY <2>2, <2>6, <2>7, <2>8, <2>9, Zenon
<1>5. CASE f.framing = "block"
  <2> DEFINE it == Item(f.doc, f.size, FALSE)
             n == f.fields + 3
             e(j) == CASE j = 1 -> Header(f.size)
                       [] j \in 2 .. f.fields + 1 -> Field
                       [] j = f.fields + 2 -> Blank
                       [] j = f.fields + 3 -> it
  <2>1. Pieces(f) = n /\ Sent(f) = [j \in 1 .. n |-> e(j)] /\ n \in Nat
    BY <1>1, <1>5 DEF Sent, Encoded, Pieces
  <2>2. /\ e(1) = Header(f.size) /\ \A i \in 2 .. f.fields + 1 : e(i) = Field
        /\ e(f.fields + 2) = Blank /\ e(f.fields + 3) = it
    <3> HIDE DEF it
    <3> QED BY <1>1
  <2>3. \A j \in 1 .. n : j = 1 \/ j \in 2 .. f.fields + 1 \/ j = f.fields + 2 \/ j = f.fields + 3
    BY <1>1
  <2>4. it \in Items /\ it.len > 0  BY <1>2, <1>3
  <2> HIDE DEF e, it
  <2>5. \A j \in 1 .. n : e(j) \in Items /\ (e(j).len > 0 \/ e(j).nl)
    BY <1>2, <1>3, <2>2, <2>3, <2>4
  <2>6. Sent(f) \in Seq(Items) /\ Len(Sent(f)) = n
    BY <2>1, <2>5
  <2>7. \A j \in 1 .. n : Sent(f)[j] = e(j)  BY <2>1
  <2>8. 1 \in 1 .. n /\ f.fields + 2 \in 1 .. n /\ f.fields + 3 \in 1 .. n
        /\ \A i \in 2 .. f.fields + 1 : i \in 1 .. n
    BY <1>1
  <2>9. Sent(f)[f.fields + 3] = Item(f.doc, f.size, FALSE)  BY <2>2, <2>7, <2>8 DEF it
  <2>10. /\ Sent(f)[1] = Header(f.size) /\ Sent(f)[f.fields + 2] = Blank
         /\ \A i \in 2 .. f.fields + 1 : Sent(f)[i] = Field
    BY <2>2, <2>7, <2>8
  <2>11. \A i \in 1 .. Pieces(f) : Sent(f)[i].len > 0 \/ Sent(f)[i].nl  BY <2>1, <2>5, <2>7
  <2>12. Pieces(f) \in Nat /\ Pieces(f) > 0  BY <2>1, <1>1
  <2> QED BY <1>1, <1>5, <2>1, <2>6, <2>9, <2>10, <2>11, <2>12
<1> QED BY <1>1, <1>4, <1>5

\* What comes first has been read.
LEMMA WithoutFirst ==
    ASSUME InPipe, Len(input) > 0, input' = SubSeq(input, 2, Len(input))
    PROVE  /\ InPipe' /\ Len(input') = Len(input) - 1 /\ Len(input) \in Nat
           /\ \A i \in 1 .. Len(input) - 1 : input'[i] = input[i + 1]
<1>1. Len(input) \in Nat /\ input # <<>> /\ input \in Seq(Items)  BY DEF InPipe
<1>2. Tail(input) = SubSeq(input, 2, Len(input))  BY <1>1, TailIsSubSeq
<1>3. /\ input' \in Seq(Items) /\ Len(input') = Len(input) - 1
      /\ \A i \in 1 .. Len(input) - 1 : input'[i] = input[i + 1]
  BY <1>1, <1>2, HeadTailProperties
<1>4. \A i \in 1 .. Len(input') : input'[i].len > 0 \/ input'[i].nl
  <2>1. SUFFICES ASSUME NEW i \in 1 .. Len(input') PROVE input'[i].len > 0 \/ input'[i].nl
    OBVIOUS
  <2>2. i + 1 \in 1 .. Len(input) /\ input'[i] = input[i + 1]  BY <1>1, <1>3
  <2> QED BY <2>2 DEF InPipe
<1> QED BY <1>1, <1>3, <1>4 DEF InPipe

LEMMA FrameShifts ==
    ASSUME NEW CONSTANT f, NEW CONSTANT from \in Nat, NEW CONSTANT to \in Nat, from > 0,
           NEW m \in Nat, to <= m, Pieces(f) \in Nat, FrameAt(f, from, to),
           \A i \in 1 .. m - 1 : input'[i] = input[i + 1]
    PROVE  FrameAt(f, from - 1, to - 1)'
<1>1. to = from + Pieces(f) /\ \A i \in 1 .. Pieces(f) : input[from + i] = Sent(f)[i]
  BY DEF FrameAt
<1>2. \A i \in 1 .. Pieces(f) : input'[(from - 1) + i] = input[from + i]
  <2>1. SUFFICES ASSUME NEW i \in 1 .. Pieces(f) PROVE input'[(from - 1) + i] = input[from + i]
    OBVIOUS
  <2>2. (from - 1) + i \in 1 .. m - 1 /\ ((from - 1) + i) + 1 = from + i  BY <1>1
  <2> QED BY <2>2
<1> QED BY <1>1, <1>2 DEF FrameAt

LEMMA FrameStands ==
    ASSUME NEW CONSTANT f, NEW CONSTANT from \in Nat, NEW CONSTANT to \in Nat,
           NEW m \in Nat, to <= m, Pieces(f) \in Nat, FrameAt(f, from, to),
           \A i \in 1 .. m : input'[i] = input[i]
    PROVE  FrameAt(f, from, to)'
<1>1. to = from + Pieces(f) /\ \A i \in 1 .. Pieces(f) : input[from + i] = Sent(f)[i]
  BY DEF FrameAt
<1>2. \A i \in 1 .. Pieces(f) : from + i \in 1 .. m  BY <1>1
<1> QED BY <1>1, <1>2 DEF FrameAt

LEMMA CutsAre ==
    ASSUME NEW CONSTANT k \in Nat, NEW CONSTANT half \in Nat, NEW CONSTANT cut,
           Cuts(k, half, cut), NEW n \in Nat, n = Len(frames), k <= n
    PROVE  /\ DOMAIN cut = k .. n /\ cut[k] \in Nat /\ cut[n] \in Nat
           /\ cut[n] + half = Len(input)
           /\ \A q \in k .. n : cut[q] \in Nat /\ cut[k] <= cut[q] /\ cut[q] <= cut[n]
           /\ \A p, q \in k .. n : p <= q => cut[p] <= cut[q]
<1>1. k \in k .. n /\ n \in k .. n /\ \A q \in k .. n : k <= q /\ q <= n  OBVIOUS
<1>2. /\ DOMAIN cut = k .. n /\ cut[n] + half = Len(input)
      /\ \A q \in k .. n : cut[q] \in Nat
      /\ \A p, q \in k .. n : p <= q => cut[p] <= cut[q]
  BY DEF Cuts
<1> QED BY <1>1, <1>2

\* The cuts when an item of frame k is gone, and when frame k is.
Lowered(k, cut) == [q \in k .. Len(frames) |-> cut[q] - 1]
Onward(k, cut) == [q \in k .. Len(frames) |-> cut[q]]
\* What is left of frame k has come to the front.
Moved(n) == \A i \in 1 .. n : input'[i] = input[i + 1]

LEMMA Consumed ==
    ASSUME NEW CONSTANT k \in Nat, NEW CONSTANT half \in Nat, NEW CONSTANT cut, Laid(k, half, cut),
           frames \in Seq(HonestFrames), k <= Len(frames), cut[k] > 0,
           NEW CONSTANT less, less = Lowered(k, cut),
           input' = SubSeq(input, 2, Len(input)), UNCHANGED <<frames, peer>>
    PROVE  Laid(k, half, less)' /\ Len(input) > 0 /\ less[k] = cut[k] - 1 /\ Moved(cut[k] - 1)
<1>0. PICK n \in Nat : n = Len(frames)  OBVIOUS
<1>1. k \in k .. n /\ n \in k .. n  BY <1>0
<1>2. /\ cut[k] \in Nat /\ cut[n] \in Nat /\ cut[n] + half = Len(input)
      /\ \A q \in k .. n : cut[q] \in Nat /\ cut[k] <= cut[q] /\ cut[q] <= cut[n]
      /\ \A p, q \in k .. n : p <= q => cut[p] <= cut[q]
  BY <1>0, CutsAre DEF Laid
<1>3. \A q \in k .. n : cut[q] > 0  BY <1>2
<1>4. Len(input) > 0 /\ cut[n] > 0 /\ Len(input) \in Nat /\ cut[n] <= Len(input)
  BY <1>1, <1>2, <1>3
<1>5. /\ InPipe' /\ Len(input') = Len(input) - 1
      /\ \A i \in 1 .. Len(input) - 1 : input'[i] = input[i + 1]
  BY <1>4, WithoutFirst DEF Laid
<1>6. DOMAIN less = k .. n /\ \A q \in k .. n : less[q] = cut[q] - 1
  BY <1>0 DEF Lowered
<1>7. \A q \in k .. n : less[q] \in Nat
  <2>1. SUFFICES ASSUME NEW q \in k .. n PROVE less[q] \in Nat  OBVIOUS
  <2>2. cut[q] \in Nat /\ cut[q] > 0 /\ less[q] = cut[q] - 1  BY <1>2, <1>3, <1>6
  <2> QED BY <2>2
<1>8. less[n] + half = Len(input')  BY <1>1, <1>2, <1>4, <1>5, <1>6
<1>9. \A p, q \in k .. n : p <= q => less[p] <= less[q]
  <2>1. SUFFICES ASSUME NEW p \in k .. n, NEW q \in k .. n, p <= q PROVE less[p] <= less[q]
    OBVIOUS
  <2>2. cut[p] <= cut[q] /\ cut[p] \in Nat /\ cut[q] \in Nat  BY <1>2, <2>1
  <2>3. less[p] = cut[p] - 1 /\ less[q] = cut[q] - 1  BY <1>6
  <2> QED BY <2>2, <2>3
<1>10. Cuts(k, half, less)'
  <2>1. Len(frames') = n  BY <1>0
  <2> QED BY <1>6, <1>7, <1>8, <1>9, <2>1 DEF Cuts
<1>11. FramesAt(k, less)'
  <2>1. SUFFICES ASSUME NEW CONSTANT q \in k + 1 .. n
                 PROVE  FrameAt(frames[q], less[q - 1], less[q])'
    BY <1>0 DEF FramesAt
  <2>2. frames[q] \in HonestFrames
    <3>1. q \in 1 .. Len(frames)  BY <1>0
    <3> QED BY <3>1, ElementOfSeq
  <2>3. PICK f : f = frames[q]  OBVIOUS
  <2>4. Pieces(f) \in Nat  BY <2>2, <2>3, Encodings
  <2>5. q \in k .. n /\ q - 1 \in k .. n  BY <1>0
  <2>6. FrameAt(f, cut[q - 1], cut[q])  BY <1>0, <2>3 DEF Laid, FramesAt
  <2>7. cut[q - 1] \in Nat /\ cut[q] \in Nat /\ cut[q - 1] > 0  BY <1>2, <1>3, <2>5
  <2>8. cut[q] <= Len(input)
    <3>1. cut[q] <= cut[n]  BY <1>2, <2>5
    <3> QED BY <1>2, <1>4, <2>7, <3>1
  <2>9. FrameAt(f, cut[q - 1] - 1, cut[q] - 1)'  BY <1>4, <1>5, <2>4, <2>6, <2>7, <2>8, FrameShifts
  <2>10. less[q - 1] = cut[q - 1] - 1 /\ less[q] = cut[q] - 1 /\ frames'[q] = f
    BY <1>6, <2>3, <2>5
  <2> QED BY <2>9, <2>10
<1>12. HalfAt(half)'
  <2>1. /\ half > 0 => peer.closed /\ input[Len(input)] = Blank
        /\ half = 2 => input[Len(input) - 1] = Header(2)
    BY DEF Laid, HalfAt
  <2>2. half > 0 => input'[Len(input')] = input[Len(input)]
    <3>1. half > 0 => Len(input) > 1  BY <1>2, <1>4
    <3>2. half > 0 => Len(input') \in 1 .. Len(input) - 1 /\ Len(input') + 1 = Len(input)
      BY <1>4, <1>5, <3>1
    <3> QED BY <1>5, <3>2
  <2>3. half = 2 => input'[Len(input') - 1] = input[Len(input) - 1]
    <3>1. half = 2 => Len(input) > 2  BY <1>2, <1>4
    <3>2. half = 2 => /\ Len(input') - 1 \in 1 .. Len(input) - 1
                      /\ (Len(input') - 1) + 1 = Len(input) - 1
      BY <1>4, <1>5, <3>1
    <3> QED BY <1>5, <3>2
  <2> QED BY <2>1, <2>2, <2>3 DEF HalfAt
<1>13. \A i \in 1 .. cut[k] - 1 : input'[i] = input[i + 1]
  <2>1. cut[k] <= Len(input)  BY <1>1, <1>2, <1>4
  <2>2. \A i \in 1 .. cut[k] - 1 : i \in 1 .. Len(input) - 1  BY <1>2, <1>4, <2>1
  <2> QED BY <1>5, <2>2
<1> QED BY <1>1, <1>4, <1>5, <1>6, <1>10, <1>11, <1>12, <1>13 DEF Laid, Moved

\* Half a frame, item by item.
LEMMA HalfConsumed ==
    ASSUME NEW CONSTANT k \in Nat, NEW CONSTANT half \in 1 .. 2, NEW CONSTANT cut,
           Laid(k, half, cut), frames \in Seq(HonestFrames), k = Len(frames), cut[k] = 0,
           input' = SubSeq(input, 2, Len(input)), UNCHANGED <<frames, peer>>
    PROVE  /\ Laid(k, half - 1, cut)' /\ Len(input) > 0 /\ peer.closed
           /\ input[1] = IF half = 2 THEN Header(2) ELSE Blank
<1>1. Len(input) = half
  <2>1. cut[Len(frames)] + half = Len(input)  BY DEF Laid, Cuts
  <2> QED BY <2>1
<1>2. /\ InPipe' /\ Len(input') = half - 1
      /\ \A i \in 1 .. half - 1 : input'[i] = input[i + 1]
  BY <1>1, WithoutFirst DEF Laid
<1>3. peer.closed /\ input[half] = Blank /\ (half = 2 => input[1] = Header(2))
  BY <1>1 DEF Laid, HalfAt
<1>4. HalfAt(half - 1)'
  <2>1. half - 1 > 0 => input'[Len(input')] = Blank
    <3>1. ASSUME half = 2 PROVE input'[Len(input')] = Blank
      <4>1. half - 1 = 1 /\ 1 \in 1 .. half - 1 /\ 1 + 1 = 2  BY <3>1
      <4>2. Len(input') = 1 /\ input'[1] = input[2]  BY <1>2, <4>1
      <4> QED BY <1>3, <3>1, <4>2
    <3>2. half \in 1 .. 2  OBVIOUS
    <3>3. half - 1 > 0 => half = 2  BY <3>2
    <3> QED BY <3>1, <3>3, Zenon
  <2>2. half - 1 # 2  OBVIOUS
  <2> QED BY <1>3, <2>1, <2>2 DEF HalfAt
<1>5. Cuts(k, half - 1, cut)'
  <2>1. cut[Len(frames')] + (half - 1) = Len(input')  BY <1>2
  <2>2. /\ DOMAIN cut = k .. Len(frames') /\ \A q \in k .. Len(frames') : cut[q] \in Nat
        /\ \A p, q \in k .. Len(frames') : p <= q => cut[p] <= cut[q]
    BY DEF Laid, Cuts
  <2> QED BY <2>1, <2>2 DEF Cuts
<1>6. FramesAt(k, cut)'
  <2>1. k + 1 .. Len(frames') = {}  OBVIOUS
  <2> QED BY <2>1 DEF FramesAt
<1> QED BY <1>1, <1>2, <1>3, <1>4, <1>5, <1>6 DEF Laid

\* The next frame is in front.
LEMMA NextFrame ==
    ASSUME NEW CONSTANT k \in Nat, NEW CONSTANT half \in Nat, NEW CONSTANT cut, Laid(k, half, cut),
           frames \in Seq(HonestFrames), k < Len(frames), cut[k] = 0,
           NEW CONSTANT rest, rest = Onward(k + 1, cut)
    PROVE  /\ Laid(k + 1, half, rest) /\ rest[k + 1] = Pieces(frames[k + 1])
           /\ \A i \in 1 .. Pieces(frames[k + 1]) : input[i] = Sent(frames[k + 1])[i]
<1>0. PICK n \in Nat : n = Len(frames)  OBVIOUS
<1>1. k + 1 \in k + 1 .. n /\ n \in k + 1 .. n /\ k + 1 \in 1 .. n
      /\ \A q \in k + 1 .. n : q \in k .. n
  BY <1>0
<1>2. /\ cut[n] + half = Len(input) /\ \A q \in k .. n : cut[q] \in Nat
      /\ \A p, q \in k .. n : p <= q => cut[p] <= cut[q]
  BY <1>0, CutsAre DEF Laid
<1>3. frames[k + 1] \in HonestFrames  BY <1>0, <1>1, ElementOfSeq
<1>4. PICK f : f = frames[k + 1]  OBVIOUS
<1>5. Pieces(f) \in Nat  BY <1>3, <1>4, Encodings
<1>6. FrameAt(f, 0, cut[k + 1])
  <2>1. FrameAt(frames[k + 1], cut[(k + 1) - 1], cut[k + 1])  BY <1>0, <1>1 DEF Laid, FramesAt
  <2>2. cut[(k + 1) - 1] = 0  OBVIOUS
  <2> QED BY <1>4, <2>1, <2>2
<1>7. cut[k + 1] = Pieces(f) /\ \A i \in 1 .. Pieces(f) : input[i] = Sent(f)[i]
  BY <1>5, <1>6 DEF FrameAt
<1>8. DOMAIN rest = k + 1 .. n /\ \A q \in k + 1 .. n : rest[q] = cut[q]
  BY <1>0 DEF Onward
<1>9. Cuts(k + 1, half, rest)
  <2>1. rest[n] + half = Len(input)  BY <1>1, <1>2, <1>8
  <2>2. \A q \in k + 1 .. n : rest[q] \in Nat  BY <1>1, <1>2, <1>8
  <2>3. \A p, q \in k + 1 .. n : p <= q => rest[p] <= rest[q]  BY <1>1, <1>2, <1>8
  <2> QED BY <1>0, <1>8, <2>1, <2>2, <2>3 DEF Cuts
<1>10. FramesAt(k + 1, rest)
  <2>1. SUFFICES ASSUME NEW q \in (k + 1) + 1 .. n
                 PROVE  FrameAt(frames[q], rest[q - 1], rest[q])
    BY <1>0 DEF FramesAt
  <2>2. q \in k + 1 .. n /\ q - 1 \in k + 1 .. n  BY <1>0
  <2>3. rest[q] = cut[q] /\ rest[q - 1] = cut[q - 1]  BY <1>8, <2>2
  <2>4. FrameAt(frames[q], cut[q - 1], cut[q])  BY <1>0, <2>2 DEF Laid, FramesAt
  <2> QED BY <2>3, <2>4
<1> QED BY <1>1, <1>4, <1>7, <1>8, <1>9, <1>10 DEF Laid

\* The client writes a frame behind the others.
LEMMA Added ==
    ASSUME NEW CONSTANT k \in Nat, NEW CONSTANT cut, Laid(k, 0, cut),
           frames \in Seq(HonestFrames), k <= Len(frames), NEW CONSTANT f \in HonestFrames,
           NEW CONSTANT more,
           more = [q \in k .. Len(frames) + 1 |->
                     IF q = Len(frames) + 1 THEN cut[Len(frames)] + Pieces(f) ELSE cut[q]],
           input' = input \o Sent(f), frames' = Append(frames, f)
    PROVE  /\ Laid(k, 0, more)' /\ more[k] = cut[k]
           /\ \A i \in 1 .. cut[k] : input'[i] = input[i]
<1>0. PICK n \in Nat : n = Len(frames)  OBVIOUS
<1>1. k \in k .. n /\ n \in k .. n /\ n + 1 \in k .. n + 1
      /\ (\A q \in k .. n : q \in k .. n + 1 /\ q # n + 1)
      /\ \A q \in k .. n + 1 : q \in k .. n \/ q = n + 1
  BY <1>0
<1>2. Pieces(f) \in Nat /\ Sent(f) \in Seq(Items) /\ Len(Sent(f)) = Pieces(f)
      /\ \A i \in 1 .. Pieces(f) : Sent(f)[i].len > 0 \/ Sent(f)[i].nl
  BY Encodings
<1>3. /\ cut[k] \in Nat /\ cut[n] \in Nat /\ cut[n] + 0 = Len(input)
      /\ \A q \in k .. n : cut[q] \in Nat /\ cut[k] <= cut[q] /\ cut[q] <= cut[n]
      /\ \A p, q \in k .. n : p <= q => cut[p] <= cut[q]
  BY <1>0, CutsAre DEF Laid
<1>4. PICK c \in Nat : c = cut[n]  BY <1>3
<1>5. Len(input) = c /\ input \in Seq(Items)  BY <1>3, <1>4 DEF Laid, InPipe
<1>6. /\ input' \in Seq(Items) /\ Len(input') = c + Pieces(f)
      /\ \A i \in 1 .. c + Pieces(f) :
            input'[i] = IF i <= c THEN input[i] ELSE Sent(f)[i - c]
  <2> DEFINE s == Sent(f)
             t == input \o Sent(f)
  <2>1. /\ t \in Seq(Items) /\ Len(t) = Len(input) + Len(s)
        /\ \A i \in 1 .. Len(input) + Len(s) :
              t[i] = IF i <= Len(input) THEN input[i] ELSE s[i - Len(input)]
    BY <1>2, <1>5, ConcatProperties
  <2>2. input' = t /\ Len(s) = Pieces(f)  BY <1>2
  <2> HIDE DEF s, t
  <2>3. /\ t \in Seq(Items) /\ Len(t) = c + Pieces(f)
        /\ \A i \in 1 .. c + Pieces(f) : t[i] = IF i <= c THEN input[i] ELSE s[i - c]
    BY <1>5, <2>1, <2>2, Zenon
  <2> QED BY <2>2, <2>3, Zenon DEF s
<1>7. \A i \in 1 .. c : input'[i] = input[i]  BY <1>2, <1>6
<1>8. \A i \in 1 .. Pieces(f) : input'[c + i] = Sent(f)[i]
  <2>1. SUFFICES ASSUME NEW i \in 1 .. Pieces(f) PROVE input'[c + i] = Sent(f)[i]
    OBVIOUS
  <2>2. c + i \in 1 .. c + Pieces(f) /\ ~(c + i <= c) /\ (c + i) - c = i
    BY <1>2
  <2> QED BY <1>6, <2>2
<1>9. /\ Len(frames') = n + 1 /\ frames'[n + 1] = f /\ \A q \in 1 .. n : frames'[q] = frames[q]
  BY <1>0
<1>10. DOMAIN more = k .. n + 1 /\ more[n + 1] = c + Pieces(f) /\ \A q \in k .. n : more[q] = cut[q]
  <2>1. more = [q \in k .. n + 1 |-> IF q = n + 1 THEN c + Pieces(f) ELSE cut[q]]
    BY <1>0, <1>4
  <2> QED BY <1>1, <2>1
<1>11. InPipe'
  <2>1. SUFFICES ASSUME NEW i \in 1 .. Len(input') PROVE input'[i].len > 0 \/ input'[i].nl
    BY <1>6 DEF InPipe
  <2>2. CASE i <= c
    <3>1. i \in 1 .. Len(input) /\ input'[i] = input[i]  BY <1>2, <1>5, <1>6, <1>7, <2>2
    <3> QED BY <3>1 DEF Laid, InPipe
  <2>3. CASE i > c
    <3>1. i - c \in 1 .. Pieces(f) /\ c + (i - c) = i  BY <1>2, <1>6, <2>3
    <3>2. input'[i] = Sent(f)[i - c]  BY <1>8, <3>1
    <3> QED BY <1>2, <3>1, <3>2
  <2> QED BY <1>2, <1>6, <2>2, <2>3
<1>12. Cuts(k, 0, more)'
  <2>1. \A q \in k .. n + 1 : more[q] \in Nat
    <3>1. SUFFICES ASSUME NEW q \in k .. n + 1 PROVE more[q] \in Nat  OBVIOUS
    <3>2. CASE q = n + 1  BY <1>2, <1>10, <3>2
    <3>3. CASE q \in k .. n  BY <1>3, <1>10, <3>3
    <3> QED BY <1>1, <3>2, <3>3
  <2>2. \A p, q \in k .. n + 1 : p <= q => more[p] <= more[q]
    <3>1. SUFFICES ASSUME NEW p \in k .. n + 1, NEW q \in k .. n + 1, p <= q
                   PROVE  more[p] <= more[q]
      OBVIOUS
    <3>2. CASE q = n + 1 /\ p = n + 1
      <4>1. more[n + 1] \in Nat  BY <1>1, <2>1
      <4> QED BY <3>2, <4>1
    <3>3. CASE q = n + 1 /\ p \in k .. n
      <4>1. more[p] = cut[p] /\ cut[p] <= c /\ cut[p] \in Nat  BY <1>3, <1>4, <1>10, <3>3
      <4> QED BY <1>2, <1>10, <3>3, <4>1
    <3>4. CASE q \in k .. n /\ p \in k .. n  BY <1>3, <1>10, <3>1, <3>4
    <3>5. CASE q \in k .. n /\ p = n + 1  BY <3>1, <3>5
    <3> QED BY <1>1, <3>2, <3>3, <3>4, <3>5
  <2>3. more[n + 1] + 0 = Len(input')  BY <1>2, <1>6, <1>10
  <2> QED BY <1>9, <1>10, <2>1, <2>2, <2>3 DEF Cuts
<1>13. FramesAt(k, more)'
  <2>1. SUFFICES ASSUME NEW CONSTANT q \in k + 1 .. n + 1
                 PROVE  FrameAt(frames[q], more[q - 1], more[q])'
    BY <1>9 DEF FramesAt
  <2>2. CASE q = n + 1
    <3>1. q - 1 = n /\ more[q - 1] = c /\ frames'[q] = f /\ more[q] = c + Pieces(f)
      BY <1>1, <1>4, <1>9, <1>10, <2>2
    <3>2. FrameAt(f, c, c + Pieces(f))'  BY <1>8 DEF FrameAt
    <3> QED BY <3>1, <3>2
  <2>3. CASE q # n + 1
    <3>1. q \in k + 1 .. n /\ q \in k .. n /\ q - 1 \in k .. n /\ q \in 1 .. n  BY <2>3
    <3>2. PICK g : g = frames[q]  OBVIOUS
    <3>3. frames'[q] = g /\ more[q] = cut[q] /\ more[q - 1] = cut[q - 1]
      BY <1>9, <1>10, <3>1, <3>2
    <3>4. FrameAt(g, cut[q - 1], cut[q])  BY <1>0, <3>1, <3>2 DEF Laid, FramesAt
    <3>5. g \in HonestFrames  BY <1>0, <3>1, <3>2, ElementOfSeq
    <3>6. Pieces(g) \in Nat  BY <3>5, Encodings
    <3>7. cut[q] \in Nat /\ cut[q - 1] \in Nat /\ cut[q] <= c  BY <1>3, <1>4, <3>1
    <3>8. FrameAt(g, cut[q - 1], cut[q])'  BY <1>7, <3>4, <3>6, <3>7, FrameStands
    <3> QED BY <3>3, <3>8
  <2> QED BY <2>2, <2>3
<1>14. HalfAt(0)'  BY DEF HalfAt
<1>15. more[k] = cut[k]  BY <1>1, <1>10
<1>16. \A i \in 1 .. cut[k] : input'[i] = input[i]
  <2>1. cut[k] <= c /\ cut[k] \in Nat  BY <1>1, <1>3, <1>4
  <2>2. \A i \in 1 .. cut[k] : i \in 1 .. c  BY <2>1
  <2> QED BY <1>7, <2>2, Zenon
<1> QED BY <1>11, <1>12, <1>13, <1>14, <1>15, <1>16 DEF Laid

\* The client goes in the middle of one.
LEMMA HalfAdded ==
    ASSUME NEW CONSTANT k \in Nat, NEW CONSTANT cut, Laid(k, 0, cut),
           frames \in Seq(HonestFrames), k <= Len(frames), peer'.closed,
           input' = input \o <<Header(2), Blank>>, frames' = frames
    PROVE  Laid(k, 2, cut)' /\ \A i \in 1 .. cut[k] : input'[i] = input[i]
<1> DEFINE h == <<Header(2), Blank>>
<1>0. PICK n \in Nat : n = Len(frames)  OBVIOUS
<1>1. k \in k .. n /\ n \in k .. n  BY <1>0
<1>2. /\ cut[k] \in Nat /\ cut[n] \in Nat /\ cut[n] + 0 = Len(input) /\ DOMAIN cut = k .. n
      /\ \A q \in k .. n : cut[q] \in Nat /\ cut[k] <= cut[q] /\ cut[q] <= cut[n]
      /\ \A p, q \in k .. n : p <= q => cut[p] <= cut[q]
  BY <1>0, CutsAre DEF Laid
<1>3. h \in Seq(Items) /\ Len(h) = 2 /\ h[1] = Header(2) /\ h[2] = Blank
  <2>1. Header(2) \in Items /\ Blank \in Items
    BY DEF Header, Blank, Items, Item
  <2> QED BY <2>1
<1>4. PICK c \in Nat : c = cut[n]  BY <1>2
<1>5. Len(input) = c /\ input \in Seq(Items)  BY <1>2, <1>4 DEF Laid, InPipe
<1> HIDE DEF h
<1>6. /\ input' \in Seq(Items) /\ Len(input') = c + 2
      /\ \A i \in 1 .. c + 2 : input'[i] = IF i <= c THEN input[i] ELSE h[i - c]
  BY <1>3, <1>5, ConcatProperties DEF h
<1>7. \A i \in 1 .. c : input'[i] = input[i]  BY <1>6
<1>8. input'[c + 1] = Header(2) /\ input'[c + 2] = Blank
  <2>1. (c + 1) - c = 1 /\ (c + 2) - c = 2 /\ c + 1 \in 1 .. c + 2 /\ c + 2 \in 1 .. c + 2
    OBVIOUS
  <2>2. ~(c + 1 <= c) /\ ~(c + 2 <= c)  OBVIOUS
  <2>3. input'[c + 1] = h[(c + 1) - c] /\ input'[c + 2] = h[(c + 2) - c]  BY <1>6, <2>1, <2>2
  <2> QED BY <1>3, <2>1, <2>3
<1>9. InPipe'
  <2>1. Header(2).nl /\ Blank.nl  BY DEF Header, Blank, Item
  <2>2. \A i \in 1 .. Len(input') : i \in 1 .. c \/ i = c + 1 \/ i = c + 2
    BY <1>6
  <2>3. \A i \in 1 .. c : input[i].len > 0 \/ input[i].nl  BY <1>5 DEF Laid, InPipe
  <2> QED BY <1>6, <1>7, <1>8, <2>1, <2>2, <2>3 DEF InPipe
<1>10. Cuts(k, 2, cut)'
  <2>1. cut[n] + 2 = Len(input')  BY <1>4, <1>6
  <2> QED BY <1>0, <1>2, <2>1 DEF Cuts
<1>11. FramesAt(k, cut)'
  <2>1. SUFFICES ASSUME NEW CONSTANT q \in k + 1 .. n
                 PROVE  FrameAt(frames[q], cut[q - 1], cut[q])'
    BY <1>0 DEF FramesAt
  <2>2. q \in k + 1 .. n /\ q \in k .. n /\ q - 1 \in k .. n /\ q \in 1 .. n  OBVIOUS
  <2>3. PICK g : g = frames[q]  OBVIOUS
  <2>4. FrameAt(g, cut[q - 1], cut[q])  BY <1>0, <2>2, <2>3 DEF Laid, FramesAt
  <2>5. g \in HonestFrames  BY <1>0, <2>2, <2>3, ElementOfSeq
  <2>6. Pieces(g) \in Nat  BY <2>5, Encodings
  <2>7. cut[q] \in Nat /\ cut[q - 1] \in Nat /\ cut[q] <= c  BY <1>2, <1>4, <2>2
  <2>8. FrameAt(g, cut[q - 1], cut[q])'  BY <1>7, <2>4, <2>6, <2>7, FrameStands
  <2> QED BY <2>3, <2>8
<1>12. HalfAt(2)'
  <2>1. Len(input') - 1 = c + 1  BY <1>6
  <2> QED BY <1>6, <1>8, <2>1 DEF HalfAt
<1>13. \A i \in 1 .. cut[k] : input'[i] = input[i]
  <2>1. cut[k] <= c /\ cut[k] \in Nat  BY <1>1, <1>2, <1>4
  <2>2. \A i \in 1 .. cut[k] : i \in 1 .. c  BY <2>1
  <2> QED BY <1>7, <2>2, Zenon
<1> QED BY <1>9, <1>10, <1>11, <1>12, <1>13 DEF Laid

-----------------------------------------------------------------------------
\* Mcp: the server answers a frame.

LEMMA SaidAre ==
    ASSUME NEW f \in HonestFrames
    PROVE  /\ f.doc.is = "doc" /\ f.doc.doc \in Documents /\ f.doc.own \in Nat
           /\ IdOf(f.doc) \in Nat /\ f.framing \in Framings /\ f.size \in Nat /\ f.size > 0
<1>1. f.doc \in Said /\ f.framing \in Framings /\ f.size \in Nat /\ f.size > 0
  BY DEF HonestFrames, Framings
<1>2. PICK m \in Documents, id \in Nat : f.doc = Doc(m, id)  BY <1>1 DEF Said
<1>3. f.doc.is = "doc" /\ f.doc.doc = m /\ f.doc.own = id  BY <1>2 DEF Doc
<1> QED BY <1>1, <1>3 DEF IdOf

LEMMA AtServes ==
    ASSUME NEW step \in {"read", "headers", "body", "tool", "send", "over"}
    PROVE  At(step) \in Servers /\ At(step).at = step
<1>1. Reply(0, "none", "line") \in Replies  BY DEF Reply, Replies, Framings, Wordings
<1> QED BY <1>1 DEF At, Servers, Framings

LEMMA SendsServes ==
    ASSUME NEW reply \in Replies, NEW framing \in Framings, Sends(reply, framing)
    PROVE  /\ server' \in Servers /\ server'.at = "send"
           /\ server'.reply.id = reply.id /\ server'.reply.framing = framing
<1> DEFINE to == [reply EXCEPT !.framing = framing]
<1>1. to \in Replies /\ to.id = reply.id /\ to.framing = framing  BY DEF Replies
<1>2. server' = [At("send") EXCEPT !.reply = to]  BY DEF Sends
<1> HIDE DEF to
<1>3. At("send") \in Servers /\ At("send").at = "send"  BY AtServes
<1>4. /\ server' \in Servers /\ server'.at = "send" /\ server'.reply = to
  BY <1>1, <1>2, <1>3 DEF Servers
<1> QED BY <1>1, <1>4

LEMMA InvalidIs ==
    ASSUME NEW f \in HonestFrames
    PROVE  Invalid(f.doc) \in Replies
<1>1. f.doc.is = "doc" /\ f.doc.doc \in Documents /\ IdOf(f.doc) \in Nat  BY SaidAre
<1>2. \A id \in Nat, what \in Wordings : Reply(id, what, "line") \in Replies
  BY DEF Reply, Replies, Framings, Wordings
<1>3. \/ Invalid(f.doc) = Reply(0, "parse error", "line")
      \/ Invalid(f.doc) = Reply(0, "invalid request", "line")
      \/ Invalid(f.doc) = Reply(IdOf(f.doc), "invalid request", "line")
  <2>1. CASE f.doc.is # "doc" \/ ~f.doc.doc.json  BY <2>1 DEF Invalid
  <2>2. CASE /\ f.doc.is = "doc" /\ f.doc.doc.json
             /\ (~f.doc.doc.object \/ f.doc.doc.id = "bad")
    BY <2>2 DEF Invalid
  <2>3. CASE /\ ~(f.doc.is # "doc" \/ ~f.doc.doc.json)
             /\ ~(/\ f.doc.is = "doc" /\ f.doc.doc.json
                  /\ (~f.doc.doc.object \/ f.doc.doc.id = "bad"))
    BY <2>3 DEF Invalid
  <2> QED BY <2>1, <2>2, <2>3
<1>4. "parse error" \in Wordings /\ "invalid request" \in Wordings /\ 0 \in Nat  BY DEF Wordings
<1> QED BY <1>1, <1>2, <1>3, <1>4

\* A decoded frame: what it is due.
Due(f) ==
    \/ ~Answerable(f) /\ server.at = "read"
    \/ /\ Answerable(f) /\ server.at \in {"tool", "send"} /\ server.reply.id = DueId(f)
       /\ IF server.at = "tool" THEN server.framing = f.framing
          ELSE server.reply.framing = f.framing

LEMMA Handled ==
    ASSUME NEW CONSTANT f \in HonestFrames, f.size <= Limit, Handle(f.doc, f.framing)
    PROVE  server' \in Servers /\ Due(f)'
<1>1. /\ f.doc.is = "doc" /\ f.doc.doc \in Documents /\ IdOf(f.doc) \in Nat
      /\ f.framing \in Framings /\ f.size \in Nat /\ Limit \in Nat
  BY SaidAre, McpAssumption
<1>2. ~(f.size > Limit)  BY <1>1
<1>3. CASE ~Valid(f.doc)
  <2>1. Sends(Invalid(f.doc), f.framing)  BY <1>3 DEF Handle
  <2>2. /\ server' \in Servers /\ server'.at = "send"
        /\ server'.reply.id = Invalid(f.doc).id /\ server'.reply.framing = f.framing
    BY <1>1, <2>1, InvalidIs, SendsServes
  <2>3. Answerable(f) /\ DueId(f) = Invalid(f.doc).id  BY <1>2, <1>3 DEF Answerable, DueId
  <2> QED BY <2>2, <2>3 DEF Due
<1>4. CASE Valid(f.doc) /\ f.doc.doc.id = "missing"
  <2>1. server' = At("read")  BY <1>4 DEF Handle
  <2>2. server' \in Servers /\ server'.at = "read"  BY <2>1, AtServes
  <2>3. ~Answerable(f)  BY <1>2, <1>4 DEF Answerable
  <2> QED BY <2>2, <2>3 DEF Due
<1>5. ASSUME Valid(f.doc), f.doc.doc.id # "missing"
      PROVE  Answerable(f) /\ DueId(f) = IdOf(f.doc)
  BY <1>2, <1>5 DEF Answerable, DueId
<1>6. CASE Valid(f.doc) /\ f.doc.doc.id # "missing" /\ Call(f.doc.doc) /\ GoodParams(f.doc.doc)
  <2> DEFINE reply == Reply(IdOf(f.doc), "result", f.framing)
             doc == f.doc.doc
  <2>1. server' = [At("tool") EXCEPT !.framing = f.framing, !.doc = doc, !.reply = reply]
    BY <1>6 DEF Handle
  <2>2. reply \in Replies /\ reply.id = IdOf(f.doc)  BY <1>1 DEF Reply, Replies, Wordings
  <2>3. At("tool") \in Servers /\ At("tool").at = "tool" /\ doc \in Documents
    BY <1>1, AtServes
  <2> HIDE DEF reply, doc
  <2>4. /\ server' \in Servers /\ server'.at = "tool" /\ server'.framing = f.framing
        /\ server'.reply = reply
    BY <1>1, <2>1, <2>2, <2>3 DEF Servers
  <2> QED BY <1>5, <1>6, <2>2, <2>4 DEF Due
<1>7. CASE /\ Valid(f.doc) /\ f.doc.doc.id # "missing"
           /\ ~(Call(f.doc.doc) /\ GoodParams(f.doc.doc))
  <2> DEFINE what == CASE Call(f.doc.doc) -> "invalid params"
                       [] f.doc.doc.method \in {"unknown", "note"} -> "method not found"
                       [] f.doc.doc.method = "list" -> "result"
             reply == Reply(IdOf(f.doc), what, f.framing)
  <2>1. Sends(reply, f.framing)  BY <1>7 DEF Handle
  <2>2. what \in Wordings
    <3>1. f.doc.doc.method \in {"list", "note", "call", "unknown"}
      BY <1>1, <1>7 DEF Valid, Documents
    <3> QED BY <3>1 DEF Call, Wordings
  <2> HIDE DEF what
  <2>3. reply \in Replies /\ reply.id = IdOf(f.doc)  BY <1>1, <2>2 DEF Reply, Replies, Wordings
  <2> HIDE DEF reply
  <2>4. /\ server' \in Servers /\ server'.at = "send"
        /\ server'.reply.id = IdOf(f.doc) /\ server'.reply.framing = f.framing
    BY <1>1, <2>1, <2>3, SendsServes
  <2> QED BY <1>5, <1>7, <2>4 DEF Due
<1> QED BY <1>3, <1>4, <1>6, <1>7

\* What a frame is due stands where it belongs.
LEMMA DueServes ==
    ASSUME NEW CONSTANT k \in Nat, NEW CONSTANT f, f = frames[k + 1], Served(k), Due(f)',
           UNCHANGED <<output, frames>>,
           NEW CONSTANT half \in {0, 2}, NEW CONSTANT cut, Laid(k + 1, half, cut)', cut[k + 1] = 0
    PROVE  server'.at # "over" /\ Serving(k + 1, half, cut)'
<1>1. (k + 1) - 1 = k /\ k + 1 > 0 /\ k + 1 \in Nat  OBVIOUS
<1>2. Served(k)'  BY ServedStays
<1>3. f = frames'[k + 1]  OBVIOUS
<1>4. CASE ~Answerable(f) /\ server'.at = "read"
  <2>1. Served(k + 1)  BY <1>4, ServedNone
  <2>2. Served(k + 1)'  BY <1>1, <2>1, ServedStays
  <2> QED BY <1>4, <2>2 DEF Serving, Between
<1>5. CASE /\ Answerable(f) /\ server'.at \in {"tool", "send"} /\ server'.reply.id = DueId(f)
           /\ IF server'.at = "tool" THEN server'.framing = f.framing
              ELSE server'.reply.framing = f.framing
  <2>1. Answering(k + 1, half, cut)'
    <3>1. Served((k + 1) - 1)'  BY <1>1, <1>2
    <3> QED BY <1>1, <1>3, <1>5, <3>1 DEF Answering
  <2> QED BY <1>5, <2>1 DEF Serving
<1> QED BY <1>4, <1>5 DEF Due

LEMMA LaidStays ==
    ASSUME NEW CONSTANT k, NEW CONSTANT half, NEW CONSTANT cut, Laid(k, half, cut),
           UNCHANGED <<input, frames>>, peer.closed => peer'.closed
    PROVE  Laid(k, half, cut)'
BY DEF Laid, InPipe, Cuts, FramesAt, FrameAt, HalfAt

\* What is too large, or no header, is answered without an id.
LEMMA RefusedServes ==
    ASSUME NEW CONSTANT f \in HonestFrames, f.size > Limit, TooLarge(f.framing)
    PROVE  server' \in Servers /\ Due(f)'
<1>1. f.framing \in Framings  BY SaidAre
<1>2. Reply(0, "invalid request", f.framing) \in Replies /\ Reply(0, "invalid request", f.framing).id = 0
  BY <1>1 DEF Reply, Replies, Wordings
<1> DEFINE reply == Reply(0, "invalid request", f.framing)
<1>3. Sends(reply, f.framing)  BY DEF TooLarge
<1> HIDE DEF reply
<1>4. /\ server' \in Servers /\ server'.at = "send"
      /\ server'.reply.id = 0 /\ server'.reply.framing = f.framing
  BY <1>1, <1>2, <1>3, SendsServes DEF reply
<1>5. Answerable(f) /\ DueId(f) = 0  BY DEF Answerable, DueId
<1> QED BY <1>4, <1>5 DEF Due

-----------------------------------------------------------------------------
\* Mcp: the server reads.

LEMMA ServesOn ==
    ASSUME frames' \in Seq(HonestFrames), output' \in Seq(Replies), server' \in Servers,
           peer' \in [sent : Nat, closed : BOOLEAN, gone : BOOLEAN], peer'.gone => peer'.closed,
           server'.at # "over", NEW CONSTANT k \in Nat, NEW n \in Nat, n = Len(frames'), k <= n,
           NEW CONSTANT half \in 0 .. 2, NEW CONSTANT cut, cut = [q \in k .. n |-> cut[q]],
           Serving(k, half, cut)'
    PROVE  Keeping'
<1>1. \A q \in k .. n : cut[q] \in Nat
  <2>1. Cuts(k, half, cut)'  BY DEF Serving, Laid
  <2> QED BY <2>1 DEF Cuts
<1>2. cut \in [k .. n -> Nat] /\ k \in 0 .. n  BY <1>1
<1>3. \E p \in 0 .. Len(frames'), h \in 0 .. 2 :
         \E c \in [p .. Len(frames') -> Nat] : Serving(p, h, c)'
  BY <1>2
<1> QED BY <1>3 DEF Keeping

LEMMA Ended ==
    ASSUME Keeping, UNCHANGED <<frames, peer, output>>, server' = At("over"),
           NEW CONSTANT k \in Nat, k <= Len(frames), Served(k), peer.closed,
           peer.gone \/ k = Len(frames)
    PROVE  Keeping'
<1>1. server' \in Servers /\ server'.at = "over"  BY AtServes
<1>2. Served(k)'  BY ServedStays
<1>3. k \in 0 .. Len(frames')  BY DEF Keeping
<1>4. Finished'  BY <1>2, <1>3 DEF Finished
<1> QED BY <1>1, <1>4 DEF Keeping

\* The types of what is in front.
LEMMA FrontIs ==
    ASSUME InPipe
    PROVE  Solid(input) /\ Len(input) \in Nat /\ input \in Seq(Items)
<1>1. input \in Seq(Items) /\ \A i \in 1 .. Len(input) : input[i].len > 0 \/ input[i].nl
  BY DEF InPipe
<1>2. \A i \in 1 .. Len(input) : input[i].len \in Nat
  <2>1. SUFFICES ASSUME NEW i \in 1 .. Len(input) PROVE input[i].len \in Nat  OBVIOUS
  <2>2. input[i] \in Items  BY <1>1, ElementOfSeq
  <2> QED BY <2>2 DEF Items
<1> QED BY <1>1, <1>2 DEF Solid

LEMMA FrontThere ==
    ASSUME NEW CONSTANT k \in Nat, NEW CONSTANT half \in Nat, NEW CONSTANT cut, Laid(k, half, cut),
           frames \in Seq(HonestFrames), k <= Len(frames), cut[k] > 0
    PROVE  Len(input) > 0
<1>0. PICK n \in Nat : n = Len(frames)  OBVIOUS
<1>1. /\ cut[k] \in Nat /\ cut[n] \in Nat /\ cut[n] + half = Len(input)
      /\ \A q \in k .. n : cut[k] <= cut[q]
  BY <1>0, CutsAre DEF Laid
<1>2. n \in k .. n  BY <1>0
<1> QED BY <1>1, <1>2

\* The line of a frame in front, and its pipe afterwards.
LEMMA LineFrame ==
    ASSUME Keeping, ReadLine, NEW CONSTANT k \in Nat, k + 1 <= Len(frames),
           NEW CONSTANT half \in {0, 2}, NEW CONSTANT rest, Laid(k + 1, half, rest), Served(k),
           NEW CONSTANT f, f = frames[k + 1], rest[k + 1] = Pieces(f),
           \A i \in 1 .. Pieces(f) : input[i] = Sent(f)[i]
    PROVE  Keeping'
<1>0. PICK n \in Nat : n = Len(frames)  BY DEF Keeping
<1>1. /\ frames \in Seq(HonestFrames) /\ UNCHANGED <<peer, output, frames>>
      /\ input' = AfterLine /\ server.at = "read"
  BY DEF Keeping, ReadLine, Rest
<1>2. f \in HonestFrames
  <2>1. k + 1 \in 1 .. Len(frames)  BY <1>0
  <2> QED BY <1>1, <2>1, ElementOfSeq
<1>3. PICK less : less = Lowered(k + 1, rest)  OBVIOUS
<1>4. /\ Pieces(f) \in Nat /\ Pieces(f) > 0 /\ input[1] = Sent(f)[1]
  <2>1. Pieces(f) \in Nat /\ Pieces(f) > 0  BY <1>2, Encodings
  <2>2. 1 \in 1 .. Pieces(f)  BY <2>1
  <2> QED BY <2>1, <2>2
<1>5. /\ f.doc.is = "doc" /\ f.framing \in {"line", "block"} /\ f.size \in Nat /\ Limit \in Nat
      /\ Limit >= 2 /\ NotANumber \notin Nat
  BY <1>2, SaidAre, McpAssumption DEF Framings
<1>6. Len(input) > 0 /\ Solid(input) /\ input \in Seq(Items)
  <2>1. rest[k + 1] > 0 /\ half \in Nat /\ k + 1 \in Nat  BY <1>4
  <2>2. Len(input) > 0  BY <1>1, <2>1, FrontThere
  <2> QED BY <2>2, FrontIs DEF Laid
<1>7. less[k + 1] = Pieces(f) - 1
  <2>1. k + 1 \in k + 1 .. Len(frames)  BY <1>0
  <2> QED BY <1>3, <2>1 DEF Lowered
<1>8. ASSUME input' = SubSeq(input, 2, Len(input))
      PROVE  /\ Laid(k + 1, half, less)' /\ \A i \in 1 .. Pieces(f) - 1 : input'[i] = input[i + 1]
  <2>1. rest[k + 1] > 0 /\ half \in Nat /\ k + 1 \in Nat  BY <1>4
  <2>2. UNCHANGED <<frames, peer>> /\ frames \in Seq(HonestFrames)  BY <1>1
  <2>3. /\ Laid(k + 1, half, less)'
        /\ \A i \in 1 .. rest[k + 1] - 1 : input'[i] = input[i + 1]
    <3>1. PICK p \in Nat : p = k + 1  BY <2>1
    <3>2. /\ Laid(p, half, rest) /\ p <= Len(frames) /\ rest[p] > 0
          /\ less = Lowered(p, rest)
      BY <1>3, <2>1, <3>1
    <3>3. input' = SubSeq(input, 2, Len(input)) /\ half \in Nat  BY <1>8, <2>1
    <3>4. Laid(p, half, less)' /\ Moved(rest[p] - 1)  BY <2>2, <3>2, <3>3, Consumed
    <3> QED BY <3>1, <3>4 DEF Moved
  <2> QED BY <2>3, Zenon
<1>9. /\ less = [q \in k + 1 .. n |-> less[q]] /\ k + 1 \in Nat /\ k + 1 <= n
       /\ half \in 0 .. 2 /\ n = Len(frames')
  BY <1>0, <1>1, <1>3 DEF Lowered
<1>10. CASE f.framing = "line"
  <2>1. input[1] = Item(f.doc, f.size, TRUE) /\ Pieces(f) = 1
    BY <1>2, <1>4, <1>10, Encodings DEF Pieces
  <2>2. input[1].nl /\ input[1].text = f.doc /\ input[1].len = f.size  BY <2>1 DEF Item
  <2>3. /\ Line # <<>> /\ AfterLine = SubSeq(input, 2, Len(input)) /\ TextOf(Line) = f.doc
        /\ TooLong <=> f.size > Limit
    BY <1>5, <1>6, <2>2, FirstLine
  <2>4. Laid(k + 1, half, less)' /\ less[k + 1] = 0  BY <1>1, <1>7, <1>8, <2>1, <2>3
  <2>5. server' \in Servers /\ Due(f)'
    <3>1. CASE f.size > Limit
      <4>1. TooLarge(f.framing)  BY <1>10, <2>3, <3>1 DEF ReadLine
      <4> QED BY <1>2, <3>1, <4>1, RefusedServes
    <3>2. CASE ~(f.size > Limit)
      <4>1. Handle(f.doc, f.framing)  BY <1>5, <1>10, <2>3, <3>2 DEF ReadLine
      <4>2. f.size <= Limit  BY <1>5, <3>2
      <4> QED BY <1>2, <4>1, <4>2, Handled
    <3> QED BY <3>1, <3>2
  <2>6. server'.at # "over" /\ Serving(k + 1, half, less)'
    BY <1>1, <2>4, <2>5, DueServes
  <2> QED BY <1>0, <1>1, <1>9, <2>5, <2>6, ServesOn DEF Keeping
<1>11. CASE f.framing = "block"
  <2>1. /\ input[1] = Header(f.size) /\ Pieces(f) = f.fields + 3 /\ f.fields \in Nat
    BY <1>2, <1>4, <1>11, Encodings
  <2>2. /\ input[1].nl /\ input[1].text.is = "length" /\ input[1].text.n = f.size
        /\ input[1].len = 2
    BY <2>1 DEF Header, Item
  <2>3. /\ Line # <<>> /\ AfterLine = SubSeq(input, 2, Len(input)) /\ TextOf(Line) = input[1].text
        /\ TooLong <=> 2 > Limit
    BY <1>6, <2>2, FirstLine
  <2>4. /\ Laid(k + 1, half, less)' /\ less[k + 1] = f.fields + 2
        /\ \A i \in 1 .. f.fields + 2 : input'[i] = input[i + 1]
    <3>1. Pieces(f) - 1 = f.fields + 2  BY <2>1
    <3>2. input' = SubSeq(input, 2, Len(input))  BY <1>1, <2>3
    <3> QED BY <1>7, <1>8, <3>1, <3>2
  <2>5. server' = [At("headers") EXCEPT !.length = f.size]
    <3>1. ~TooLong /\ f.size # NotANumber  BY <1>5, <2>3
    <3> QED BY <2>2, <2>3, <3>1 DEF ReadLine
  <2>6. server' \in Servers /\ server'.at = "headers" /\ server'.length = f.size /\ server'.headers = 0
    <3>1. At("headers") \in Servers  BY AtServes
    <3>2. At("headers").headers = 0 /\ At("headers").at = "headers"  BY DEF At
    <3> QED BY <1>5, <2>5, <3>1, <3>2 DEF Servers
  <2>7. \A i \in 1 .. less[k + 1] :
           input'[i] = Sent(f)[Pieces(f) - less[k + 1] + i]
    <3>1. SUFFICES ASSUME NEW i \in 1 .. f.fields + 2
                   PROVE  input'[i] = Sent(f)[Pieces(f) - (f.fields + 2) + i]
      BY <2>4
    <3>2. i + 1 \in 1 .. Pieces(f) /\ Pieces(f) - (f.fields + 2) + i = i + 1  BY <2>1
    <3> QED BY <2>4, <3>2
  <2>8. Within(k + 1, half, less)'
    <3>1. Served((k + 1) - 1)'
      <4>1. (k + 1) - 1 = k  OBVIOUS
      <4>2. Served(k)'  BY <1>1, ServedStays
      <4> QED BY <4>1, <4>2
    <3>2. frames'[k + 1] = f  BY <1>1
    <3>3. k + 1 > 0 /\ 0 \in 0 .. f.fields /\ f.fields + 2 = f.fields - 0 + 2  BY <2>1
    <3> QED BY <1>11, <2>4, <2>6, <2>7, <3>1, <3>2, <3>3 DEF Within
  <2>9. Serving(k + 1, half, less)'  BY <2>4, <2>6, <2>8 DEF Serving
  <2> QED BY <1>0, <1>1, <1>9, <2>6, <2>9, ServesOn DEF Keeping
<1> QED BY <1>5, <1>10, <1>11

LEMMA ReadLineKeeps ==
    ASSUME Keeping, ReadLine
    PROVE  Keeping'
<1>0. /\ frames \in Seq(HonestFrames) /\ output \in Seq(Replies)
      /\ peer \in [sent : Nat, closed : BOOLEAN, gone : BOOLEAN] /\ (peer.gone => peer.closed)
      /\ UNCHANGED <<peer, output, frames>> /\ input' = AfterLine /\ server.at = "read" /\ LineThere
  BY DEF Keeping, ReadLine, Rest
<1>1. PICK n \in Nat : n = Len(frames)  BY DEF Keeping
<1>2. PICK k \in 0 .. n, half \in 0 .. 2 : \E cut \in [k .. n -> Nat] : Serving(k, half, cut)
  BY <1>0, <1>1 DEF Keeping
<1>3. PICK cut \in [k .. n -> Nat] : Serving(k, half, cut)  BY <1>2
<1>4. /\ Laid(k, half, cut) /\ half \in {0, 2} /\ cut[k] = 0 /\ Served(k) /\ k \in Nat /\ k <= n
      /\ half \in Nat
  BY <1>0, <1>1, <1>3 DEF Serving, Between
<1>5. CASE k < n
  <2>1. PICK f : f = frames[k + 1]  OBVIOUS
  <2>2. PICK rest : rest = Onward(k + 1, cut)  OBVIOUS
  <2>3. /\ Laid(k + 1, half, rest) /\ rest[k + 1] = Pieces(f)
        /\ \A i \in 1 .. Pieces(f) : input[i] = Sent(f)[i]
    <3>1. k < Len(frames) /\ frames \in Seq(HonestFrames)  BY <1>0, <1>1, <1>5
    <3> QED BY <1>4, <2>1, <2>2, <3>1, NextFrame
  <2>4. k + 1 <= Len(frames)  BY <1>1, <1>4, <1>5
  <2> QED BY <1>4, <2>1, <2>3, <2>4, LineFrame
<1>6. CASE k = n
  <2>1. Len(input) = half
    <3>1. cut[n] + half = Len(input)  BY <1>1, <1>4 DEF Laid, Cuts
    <3> QED BY <1>4, <1>6, <3>1
  <2>2. CASE half = 0
    <3>1. Line = <<>> /\ peer.closed  BY <1>0, <2>1, <2>2, NoLine
    <3>2. server' = At("over")  BY <3>1 DEF ReadLine
    <3> QED BY <1>0, <1>1, <1>4, <1>6, <3>1, <3>2, Ended
  <2>3. CASE half = 2
    <3>1. input[1] = Header(2) /\ peer.closed
      BY <1>4, <2>1, <2>3 DEF Laid, HalfAt
    <3>2. /\ input[1].nl /\ input[1].text.is = "length" /\ input[1].text.n = 2
          /\ input[1].len = 2
      BY <3>1 DEF Header, Item
    <3>3. Solid(input) /\ input \in Seq(Items) /\ Len(input) > 0  BY <1>4, <2>1, <2>3, FrontIs DEF Laid
    <3>4. /\ Line # <<>> /\ AfterLine = SubSeq(input, 2, Len(input))
          /\ TextOf(Line) = input[1].text
          /\ TooLong <=> 2 > Limit
      BY <3>2, <3>3, FirstLine
    <3>5. ~TooLong /\ 2 # NotANumber /\ 2 \in Nat  BY <3>4, McpAssumption
    <3>6. server' = [At("headers") EXCEPT !.length = 2]  BY <3>2, <3>4, <3>5 DEF ReadLine
    <3>7. server' \in Servers /\ server'.at = "headers" /\ server'.length = 2
      <4>1. At("headers") \in Servers /\ At("headers").at = "headers"  BY AtServes
      <4> QED BY <3>6, <4>1 DEF Servers
    <3>8. Laid(k, 1, cut)'
      <4>1. half - 1 = 1 /\ half \in 1 .. 2 /\ k = Len(frames)  BY <1>1, <1>6, <2>3
      <4>2. input' = SubSeq(input, 2, Len(input))  BY <1>0, <3>4
      <4>3. Laid(k, half - 1, cut)'  BY <1>0, <1>4, <4>1, <4>2, HalfConsumed
      <4> QED BY <4>1, <4>3
    <3>9. WithinHalf(k, 1, cut)'
      <4>1. Served(k)'  BY <1>0, <1>4, ServedStays
      <4> QED BY <1>0, <1>1, <1>4, <1>6, <3>1, <3>7, <4>1 DEF WithinHalf
    <3>10. Serving(k, 1, cut)' /\ server'.at # "over"  BY <3>7, <3>8, <3>9 DEF Serving
    <3>11. cut = [q \in k .. n |-> cut[q]] /\ 1 \in 0 .. 2  BY <1>3
    <3> QED BY <1>0, <1>1, <1>4, <3>7, <3>10, <3>11, ServesOn
  <2> QED BY <1>4, <2>2, <2>3
<1> QED BY <1>4, <1>5, <1>6

-----------------------------------------------------------------------------
\* Mcp: the server reads on, within a block.

\* Within the block of frame k.
LEMMA BlockHeader ==
    ASSUME Keeping, ReadHeader, NEW CONSTANT k \in Nat, k <= Len(frames),
           NEW CONSTANT half \in {0, 2}, NEW CONSTANT cut, Laid(k, half, cut),
           Within(k, half, cut)
    PROVE  Keeping'
<1>0. PICK n \in Nat : n = Len(frames)  BY DEF Keeping
<1>1. /\ frames \in Seq(HonestFrames) /\ UNCHANGED <<peer, output, frames>>
      /\ input' = AfterLine /\ server.at = "headers" /\ server \in Servers
  BY DEF Keeping, ReadHeader, Rest
<1>2. PICK f : f = frames[k]  OBVIOUS
<1>3. PICK h : h = server.headers  OBVIOUS
<1>4. /\ k > 0 /\ f.framing = "block" /\ Served(k - 1) /\ server.length = f.size
      /\ h \in 0 .. f.fields /\ cut[k] = f.fields - h + 2
      /\ \A i \in 1 .. cut[k] : input[i] = Sent(f)[Pieces(f) - cut[k] + i]
  BY <1>1, <1>2, <1>3 DEF Within
<1>5. f \in HonestFrames
  <2>1. k \in 1 .. Len(frames)  BY <1>0, <1>4
  <2> QED BY <1>1, <1>2, <2>1, ElementOfSeq
<1>6. /\ f.fields \in Nat /\ f.fields <= HeaderMax /\ Pieces(f) = f.fields + 3
      /\ (\A i \in 2 .. f.fields + 1 : Sent(f)[i] = Field) /\ Sent(f)[f.fields + 2] = Blank
      /\ HeaderMax \in Nat /\ Limit \in Nat /\ Limit >= 2
  BY <1>4, <1>5, Encodings, McpAssumption
<1>7. PICK c \in Nat : c = cut[k] /\ c = f.fields - h + 2 /\ c > 1 /\ Pieces(f) - c = h + 1
  BY <1>4, <1>6
<1>8. Len(input) > 0 /\ Solid(input) /\ input \in Seq(Items) /\ half \in Nat
  <2>1. cut[k] > 0 /\ half \in Nat  BY <1>7
  <2> QED BY <1>1, <2>1, FrontThere, FrontIs DEF Laid
<1>9. PICK less : less = Lowered(k, cut)  OBVIOUS
<1>10. input[1] = Sent(f)[h + 2]
  <2>1. 1 \in 1 .. cut[k] /\ Pieces(f) - cut[k] + 1 = h + 2  BY <1>4, <1>7
  <2> QED BY <1>4, <2>1
<1>11. ASSUME input' = SubSeq(input, 2, Len(input))
       PROVE  /\ Laid(k, half, less)' /\ less[k] = c - 1
              /\ \A i \in 1 .. c - 1 : input'[i] = Sent(f)[Pieces(f) - (c - 1) + i]
  <2>1. UNCHANGED <<frames, peer>> /\ cut[k] > 0 /\ frames \in Seq(HonestFrames) /\ half \in Nat
    BY <1>1, <1>7, <1>8
  <2>2. /\ Laid(k, half, less)' /\ less[k] = cut[k] - 1
        /\ \A i \in 1 .. cut[k] - 1 : input'[i] = input[i + 1]
    <3>1. input' = SubSeq(input, 2, Len(input))  BY <1>11
    <3>2. Laid(k, half, less)' /\ less[k] = cut[k] - 1 /\ Moved(cut[k] - 1)
      BY <1>9, <2>1, <3>1, Consumed
    <3> QED BY <3>2 DEF Moved
  <2>3. ASSUME NEW i \in 1 .. c - 1
        PROVE  input'[i] = Sent(f)[Pieces(f) - (c - 1) + i]
    <3>1. i + 1 \in 1 .. cut[k] /\ i \in 1 .. cut[k] - 1  BY <1>7
    <3>2. Pieces(f) - cut[k] + (i + 1) = Pieces(f) - (c - 1) + i
      <4>1. PICK p \in Nat : p = Pieces(f)  BY <1>6
      <4>2. p - c + (i + 1) = p - (c - 1) + i  OBVIOUS
      <4> QED BY <1>7, <4>1, <4>2
    <3> QED BY <1>4, <2>2, <3>1, <3>2
  <2> QED BY <1>7, <2>2, <2>3
<1>12. /\ less = [q \in k .. n |-> less[q]] /\ k <= n /\ half \in 0 .. 2 /\ n = Len(frames')
  BY <1>0, <1>1, <1>9 DEF Lowered
<1>13. ASSUME Line # <<>>, ~TooLong, AfterLine = SubSeq(input, 2, Len(input)),
              server' \in Servers, server'.at \in {"headers", "body"},
              server'.length = server.length,
              IF server'.at = "body" THEN c - 1 = 1
              ELSE server'.headers \in 0 .. f.fields /\ c - 1 = f.fields - server'.headers + 2
       PROVE  Keeping'
  <2>1. /\ Laid(k, half, less)' /\ less[k] = c - 1
        /\ \A i \in 1 .. c - 1 : input'[i] = Sent(f)[Pieces(f) - (c - 1) + i]
    BY <1>1, <1>11, <1>13
  <2>2. Served(k - 1)'
    <3>1. k - 1 \in Nat  BY <1>4
    <3> QED BY <1>1, <1>4, <3>1, ServedStays
  <2>3. frames'[k] = f  BY <1>1, <1>2
  <2>4. Within(k, half, less)'  BY <1>4, <1>13, <2>1, <2>2, <2>3 DEF Within
  <2>5. Serving(k, half, less)' /\ server'.at # "over"  BY <1>13, <2>1, <2>4 DEF Serving
  <2> QED BY <1>0, <1>1, <1>12, <1>13, <2>5, ServesOn DEF Keeping
<1>14. CASE h < f.fields
  <2>1. h + 2 \in 2 .. f.fields + 1  BY <1>4, <1>6, <1>14
  <2>2. input[1] = Field  BY <1>6, <1>10, <2>1
  <2>3. /\ input[1].nl /\ input[1].text.is = "field" /\ input[1].len = 2
    BY <2>2 DEF Field, Item
  <2>4. /\ Line # <<>> /\ AfterLine = SubSeq(input, 2, Len(input))
        /\ TextOf(Line) = input[1].text
        /\ TooLong <=> 2 > Limit
    BY <1>8, <2>3, FirstLine
  <2>5. ~TooLong /\ ~(server.headers + 1 > HeaderMax)  BY <1>3, <1>4, <1>6, <1>14, <2>4
  <2>6. server' = [server EXCEPT !.headers = @ + 1]  BY <2>3, <2>4, <2>5 DEF ReadHeader
  <2>7. /\ server' \in Servers /\ server'.at = "headers" /\ server'.length = server.length
        /\ server'.headers = h + 1
    <3>1. PICK g \in Nat : g = h + 1  BY <1>4, <1>6
    <3>2. server' = [server EXCEPT !.headers = g]  BY <1>3, <2>6, <3>1
    <3>3. server \in Servers /\ server.at = "headers"  BY <1>1
    <3>4. /\ server' \in Servers /\ server'.at = server.at /\ server'.length = server.length
          /\ server'.headers = g
      BY <3>2, <3>3 DEF Servers
    <3> QED BY <3>1, <3>3, <3>4
  <2>8. h + 1 \in 0 .. f.fields /\ c - 1 = f.fields - (h + 1) + 2
    <3>1. PICK p \in Nat : p = f.fields  BY <1>6
    <3>2. h \in 0 .. p /\ h < p /\ c = p - h + 2  BY <1>4, <1>7, <1>14, <3>1
    <3>3. h + 1 \in 0 .. p /\ c - 1 = p - (h + 1) + 2  BY <3>2
    <3> QED BY <3>1, <3>3
  <2> QED BY <1>13, <2>4, <2>5, <2>7, <2>8
<1>15. CASE h = f.fields
  <2>1. input[1] = Blank  BY <1>6, <1>10, <1>15
  <2>2. /\ input[1].nl /\ input[1].text.is = "blank" /\ input[1].len = 0
        /\ input[1].text = Blank.text
    BY <2>1 DEF Blank, Item
  <2>3. /\ Line # <<>> /\ AfterLine = SubSeq(input, 2, Len(input))
        /\ TextOf(Line) = input[1].text
        /\ TooLong <=> 0 > Limit
    BY <1>8, <2>2, FirstLine
  <2>4. ~TooLong  BY <1>6, <2>3
  <2>5. server' = [server EXCEPT !.at = "body"]  BY <2>2, <2>3, <2>4 DEF ReadHeader
  <2>6. server' \in Servers /\ server'.at = "body" /\ server'.length = server.length
    BY <1>1, <2>5 DEF Servers
  <2>7. c - 1 = 1  BY <1>6, <1>7, <1>15
  <2> QED BY <1>13, <2>3, <2>4, <2>6, <2>7
<1> QED BY <1>4, <1>6, <1>14, <1>15

LEMMA ReadHeaderKeeps ==
    ASSUME Keeping, ReadHeader
    PROVE  Keeping'
<1>0. /\ frames \in Seq(HonestFrames) /\ output \in Seq(Replies) /\ server \in Servers
      /\ peer \in [sent : Nat, closed : BOOLEAN, gone : BOOLEAN] /\ (peer.gone => peer.closed)
      /\ UNCHANGED <<peer, output, frames>> /\ input' = AfterLine /\ server.at = "headers"
  BY DEF Keeping, ReadHeader, Rest
<1>1. PICK n \in Nat : n = Len(frames)  BY DEF Keeping
<1>2. PICK k \in 0 .. n, half \in 0 .. 2 : \E cut \in [k .. n -> Nat] : Serving(k, half, cut)
  BY <1>0, <1>1 DEF Keeping
<1>3. PICK cut \in [k .. n -> Nat] : Serving(k, half, cut)  BY <1>2
<1>4. /\ Laid(k, half, cut) /\ k \in Nat /\ k <= n /\ k <= Len(frames) /\ half \in Nat
      /\ Within(k, half, cut) \/ WithinHalf(k, half, cut)
  BY <1>0, <1>1, <1>3 DEF Serving
<1>5. CASE Within(k, half, cut)
  <2>1. half \in {0, 2}  BY <1>5 DEF Within
  <2> QED BY <1>4, <1>5, <2>1, BlockHeader
<1>6. CASE WithinHalf(k, half, cut)
  <2>1. /\ k = n /\ cut[k] = 0 /\ peer.closed /\ Served(k) /\ half = 1 /\ server.length = 2
    BY <1>0, <1>1, <1>6 DEF WithinHalf
  <2>2. Len(input) = 1
    <3>1. cut[n] + half = Len(input)  BY <1>1, <1>4 DEF Laid, Cuts
    <3> QED BY <2>1, <3>1
  <2>3. input[1] = Blank  BY <1>4, <2>1, <2>2 DEF Laid, HalfAt
  <2>4. /\ input[1].nl /\ input[1].text.is = "blank" /\ input[1].len = 0
        /\ input[1].text = Blank.text
    BY <2>3 DEF Blank, Item
  <2>5. Solid(input) /\ input \in Seq(Items) /\ Len(input) > 0
    BY <1>4, <2>2, FrontIs DEF Laid
  <2>6. /\ Line # <<>> /\ AfterLine = SubSeq(input, 2, Len(input))
        /\ TextOf(Line) = input[1].text
        /\ TooLong <=> 0 > Limit
    BY <2>4, <2>5, FirstLine
  <2>7. ~TooLong  BY <2>6, McpAssumption
  <2>8. server' = [server EXCEPT !.at = "body"]  BY <2>4, <2>6, <2>7 DEF ReadHeader
  <2>9. server' \in Servers /\ server'.at = "body" /\ server'.length = 2
    BY <1>0, <2>1, <2>8 DEF Servers
  <2>10. Laid(k, 0, cut)'
    <3>1. half - 1 = 0 /\ half \in 1 .. 2 /\ k = Len(frames) /\ UNCHANGED <<frames, peer>>
      BY <1>0, <1>1, <2>1
    <3>2. input' = SubSeq(input, 2, Len(input))  BY <1>0, <2>6
    <3>3. Laid(k, half - 1, cut)'  BY <1>0, <1>4, <2>1, <3>1, <3>2, HalfConsumed
    <3> QED BY <3>1, <3>3
  <2>11. WithinHalf(k, 0, cut)'
    <3>1. Served(k)'  BY <1>0, <1>4, <2>1, ServedStays
    <3> QED BY <1>0, <1>1, <2>1, <2>9, <3>1 DEF WithinHalf
  <2>12. Serving(k, 0, cut)' /\ server'.at # "over"  BY <2>9, <2>10, <2>11 DEF Serving
  <2>13. cut = [q \in k .. n |-> cut[q]] /\ 0 \in 0 .. 2  BY <1>3
  <2> QED BY <1>0, <1>1, <1>4, <2>9, <2>12, <2>13, ServesOn
<1> QED BY <1>4, <1>5, <1>6

LEMMA BlockBody ==
    ASSUME Keeping, ReadBody, NEW CONSTANT k \in Nat, k <= Len(frames),
           NEW CONSTANT half \in {0, 2}, NEW CONSTANT cut, Laid(k, half, cut),
           Within(k, half, cut)
    PROVE  Keeping'
<1>0. PICK n \in Nat : n = Len(frames)  BY DEF Keeping
<1>1. /\ frames \in Seq(HonestFrames) /\ UNCHANGED <<peer, output, frames>>
      /\ input' = Drop(input, server.length) /\ server.at = "body"
  BY DEF Keeping, ReadBody, Rest
<1>2. PICK f : f = frames[k]  OBVIOUS
<1>3. /\ k > 0 /\ f.framing = "block" /\ Served(k - 1) /\ server.length = f.size /\ cut[k] = 1
      /\ \A i \in 1 .. cut[k] : input[i] = Sent(f)[Pieces(f) - cut[k] + i]
  BY <1>1, <1>2 DEF Within
<1>4. f \in HonestFrames
  <2>1. k \in 1 .. Len(frames)  BY <1>0, <1>3
  <2> QED BY <1>1, <1>2, <2>1, ElementOfSeq
<1>5. /\ f.fields \in Nat /\ Pieces(f) = f.fields + 3 /\ f.size \in Nat /\ f.size > 0
      /\ Sent(f)[f.fields + 3] = Item(f.doc, f.size, FALSE) /\ Limit \in Nat
  BY <1>3, <1>4, Encodings, SaidAre, McpAssumption
<1>6. input[1] = Item(f.doc, f.size, FALSE)
  <2>1. 1 \in 1 .. cut[k] /\ Pieces(f) - cut[k] + 1 = f.fields + 3  BY <1>3, <1>5
  <2> QED BY <1>3, <1>5, <2>1
<1>7. ~input[1].nl /\ input[1].text = f.doc /\ input[1].len = f.size  BY <1>6 DEF Item
<1>8. Len(input) > 0 /\ Solid(input) /\ input \in Seq(Items) /\ Len(input) \in Nat /\ half \in Nat
  <2>1. cut[k] > 0 /\ half \in Nat  BY <1>3
  <2> QED BY <1>1, <2>1, FrontThere, FrontIs DEF Laid
<1>9. /\ Bytes(input) \in Nat /\ Bytes(input) >= f.size
      /\ input' = SubSeq(input, 2, Len(input))
  BY <1>1, <1>3, <1>7, <1>8, BodyDropped
<1>10. PICK less : less = Lowered(k, cut)  OBVIOUS
<1>11. Laid(k, half, less)' /\ less[k] = 0
  <2>1. UNCHANGED <<frames, peer>> /\ cut[k] > 0  BY <1>1, <1>3
  <2>2. Laid(k, half, less)' /\ less[k] = cut[k] - 1
    BY <1>1, <1>8, <1>9, <1>10, <2>1, Consumed
  <2> QED BY <1>3, <2>2
<1>12. server' \in Servers /\ Due(f)'
  <2>1. CASE f.size > Limit
    <3>1. TooLarge(f.framing)  BY <1>3, <2>1 DEF ReadBody
    <3> QED BY <1>4, <2>1, <3>1, RefusedServes
  <2>2. CASE ~(f.size > Limit)
    <3>1. TextOfBytes(f.size) = f.doc
      <4>1. Head(input) = input[1]  BY <1>8
      <4> QED BY <1>5, <1>7, <4>1 DEF TextOfBytes
    <3>2. ~(Bytes(input) < f.size) /\ f.size <= Limit  BY <1>5, <1>9, <2>2
    <3>3. Handle(f.doc, f.framing)  BY <1>3, <2>2, <3>1, <3>2 DEF ReadBody
    <3> QED BY <1>4, <3>2, <3>3, Handled
  <2> QED BY <2>1, <2>2
<1>13. PICK j \in Nat : k = j + 1
  <2>1. k - 1 \in Nat /\ k = (k - 1) + 1  BY <1>3
  <2> QED BY <2>1
<1>14. k - 1 = j  BY <1>13
<1>15. server'.at # "over" /\ Serving(k, half, less)'
  <2>1. Served(j) /\ f = frames[j + 1] /\ Laid(j + 1, half, less)' /\ less[j + 1] = 0
    BY <1>2, <1>3, <1>11, <1>13, <1>14
  <2>2. UNCHANGED <<output, frames>>  BY <1>1
  <2>3. server'.at # "over" /\ Serving(j + 1, half, less)'
    BY <1>12, <2>1, <2>2, DueServes
  <2> QED BY <1>13, <2>3
<1>16. /\ less = [q \in k .. n |-> less[q]] /\ k <= n /\ half \in 0 .. 2 /\ n = Len(frames')
  BY <1>0, <1>1, <1>10 DEF Lowered
<1> QED BY <1>0, <1>1, <1>12, <1>15, <1>16, ServesOn DEF Keeping

LEMMA ReadBodyKeeps ==
    ASSUME Keeping, ReadBody
    PROVE  Keeping'
<1>0. /\ frames \in Seq(HonestFrames) /\ output \in Seq(Replies) /\ server \in Servers
      /\ UNCHANGED <<peer, output, frames>> /\ server.at = "body"
  BY DEF Keeping, ReadBody, Rest
<1>1. PICK n \in Nat : n = Len(frames)  BY DEF Keeping
<1>2. PICK k \in 0 .. n, half \in 0 .. 2 : \E cut \in [k .. n -> Nat] : Serving(k, half, cut)
  BY <1>0, <1>1 DEF Keeping
<1>3. PICK cut \in [k .. n -> Nat] : Serving(k, half, cut)  BY <1>2
<1>4. /\ Laid(k, half, cut) /\ k \in Nat /\ k <= n /\ k <= Len(frames)
      /\ Within(k, half, cut) \/ WithinHalf(k, half, cut)
  BY <1>0, <1>1, <1>3 DEF Serving
<1>5. CASE Within(k, half, cut)
  <2>1. half \in {0, 2}  BY <1>5 DEF Within
  <2> QED BY <1>4, <1>5, <2>1, BlockBody
<1>6. CASE WithinHalf(k, half, cut)
  <2>1. /\ k = n /\ cut[k] = 0 /\ peer.closed /\ Served(k) /\ half = 0 /\ server.length = 2
    BY <1>0, <1>1, <1>6 DEF WithinHalf
  <2>2. Len(input) = 0
    <3>1. cut[n] + half = Len(input)  BY <1>1, <1>4 DEF Laid, Cuts
    <3> QED BY <2>1, <3>1
  <2>3. Bytes(input) = 0
    <3>1. 0 \in 0 .. Len(input) /\ Len(input) \in Nat  BY <2>2
    <3>2. Upto(input)[0] = UptoBody(input, Upto(input), 0)  BY <3>1, UptoAre
    <3> QED BY <2>2, <3>2 DEF Bytes, UptoBody
  <2>4. server' = At("over")
    <3>1. ~(server.length > Limit) /\ Bytes(input) < server.length
      BY <2>1, <2>3, McpAssumption
    <3> QED BY <3>1 DEF ReadBody
  <2> QED BY <1>0, <1>1, <1>4, <2>1, <2>4, Ended
<1> QED BY <1>4, <1>5, <1>6

-----------------------------------------------------------------------------
\* Mcp: the server runs its tool and answers.

LEMMA RunToolKeeps ==
    ASSUME Keeping, NEW ok \in BOOLEAN, RunTool(ok)
    PROVE  Keeping'
<1>0. /\ frames \in Seq(HonestFrames) /\ output \in Seq(Replies) /\ server \in Servers
      /\ peer \in [sent : Nat, closed : BOOLEAN, gone : BOOLEAN] /\ (peer.gone => peer.closed)
      /\ UNCHANGED <<input, peer, output, frames>> /\ server.at = "tool"
  BY DEF Keeping, RunTool
<1>1. PICK n \in Nat : n = Len(frames)  BY DEF Keeping
<1>2. PICK k \in 0 .. n, half \in 0 .. 2 : \E cut \in [k .. n -> Nat] : Serving(k, half, cut)
  BY <1>0, <1>1 DEF Keeping
<1>3. PICK cut \in [k .. n -> Nat] : Serving(k, half, cut)  BY <1>2
<1>4. Laid(k, half, cut) /\ Answering(k, half, cut) /\ k \in Nat /\ k <= n
  BY <1>0, <1>3 DEF Serving
<1>5. PICK what \in Wordings : Sends([server.reply EXCEPT !.what = what], server.framing)
  BY DEF RunTool, Wordings
<1> DEFINE reply == [server.reply EXCEPT !.what = what]
<1>6. reply \in Replies /\ reply.id = server.reply.id /\ server.framing \in Framings
  BY <1>0, <1>5 DEF Servers, Replies
<1>7. Sends(reply, server.framing)  BY <1>5
<1> HIDE DEF reply
<1>8. /\ server' \in Servers /\ server'.at = "send"
      /\ server'.reply.id = server.reply.id /\ server'.reply.framing = server.framing
  BY <1>6, <1>7, SendsServes
<1>9. Served(k - 1)'
  <2>1. k - 1 \in Nat /\ Served(k - 1)  BY <1>4 DEF Answering
  <2> QED BY <1>0, <2>1, ServedStays
<1>10. Answering(k, half, cut)'
  <2>1. frames'[k] = frames[k]  BY <1>0
  <2> QED BY <1>0, <1>4, <1>8, <1>9, <2>1 DEF Answering
<1>11. Laid(k, half, cut)'  BY <1>0, <1>4, LaidStays
<1>12. Serving(k, half, cut)' /\ server'.at # "over"  BY <1>8, <1>10, <1>11 DEF Serving
<1>13. cut = [q \in k .. n |-> cut[q]] /\ n = Len(frames')  BY <1>0, <1>1, <1>3
<1> QED BY <1>0, <1>4, <1>8, <1>12, <1>13, ServesOn

LEMMA SendKeeps ==
    ASSUME Keeping, Send
    PROVE  Keeping'
<1>0. /\ frames \in Seq(HonestFrames) /\ output \in Seq(Replies) /\ server \in Servers
      /\ peer \in [sent : Nat, closed : BOOLEAN, gone : BOOLEAN] /\ (peer.gone => peer.closed)
      /\ UNCHANGED <<input, peer, frames>> /\ server.at = "send"
  BY DEF Keeping, Send
<1>1. PICK n \in Nat : n = Len(frames)  BY DEF Keeping
<1>2. PICK k \in 0 .. n, half \in 0 .. 2 : \E cut \in [k .. n -> Nat] : Serving(k, half, cut)
  BY <1>0, <1>1 DEF Keeping
<1>3. PICK cut \in [k .. n -> Nat] : Serving(k, half, cut)  BY <1>2
<1>4. Laid(k, half, cut) /\ Answering(k, half, cut) /\ k \in Nat /\ k <= n
  BY <1>0, <1>3 DEF Serving
<1>5. PICK j \in Nat : k = j + 1
  <2>1. k - 1 \in Nat /\ k = (k - 1) + 1  BY <1>4 DEF Answering
  <2> QED BY <2>1
<1>6. /\ half \in {0, 2} /\ cut[k] = 0 /\ Served(j) /\ Answerable(frames[j + 1])
      /\ Suits(server.reply, frames[j + 1]) /\ server.reply \in Replies
  <2>1. k - 1 = j  BY <1>5
  <2> QED BY <1>0, <1>4, <1>5, <2>1 DEF Answering, Suits, Servers
<1>7. CASE peer.gone
  <2>1. server' = At("over") /\ UNCHANGED output  BY <1>7 DEF Send
  <2>2. j <= Len(frames)  BY <1>1, <1>4, <1>5
  <2> QED BY <1>0, <1>6, <1>7, <2>1, <2>2, Ended
<1>8. CASE ~peer.gone
  <2>1. server' = At("read") /\ output' = Append(output, server.reply)  BY <1>8 DEF Send
  <2>2. server' \in Servers /\ server'.at = "read"  BY <2>1, AtServes
  <2>3. Served(k)'
    <3>1. Served(j + 1)'  BY <1>0, <1>6, <2>1, ServedNext
    <3> QED BY <1>5, <3>1
  <2>4. Laid(k, half, cut)'  BY <1>0, <1>4, LaidStays
  <2>5. Serving(k, half, cut)' /\ server'.at # "over"
    BY <1>6, <2>2, <2>3, <2>4 DEF Serving, Between
  <2>6. output' \in Seq(Replies)  BY <1>0, <1>6, <2>1
  <2>7. cut = [q \in k .. n |-> cut[q]] /\ n = Len(frames')  BY <1>0, <1>1, <1>3
  <2> QED BY <1>0, <1>4, <2>2, <2>5, <2>6, <2>7, ServesOn
<1> QED BY <1>7, <1>8

-----------------------------------------------------------------------------
\* Mcp: the client writes and goes.

\* Before the client is done, what is in front of the server stays there.
LEMMA ServingStays ==
    ASSUME NEW CONSTANT k \in Nat, NEW CONSTANT half, NEW CONSTANT cut, Serving(k, half, cut),
           ~peer.closed, server.at \in {"read", "headers", "body", "tool", "send"},
           UNCHANGED <<server, output>>, \A j \in 1 .. k : frames'[j] = frames[j],
           NEW CONSTANT then \in {0, 2}, NEW CONSTANT more, Laid(k, then, more)', more[k] = cut[k],
           \A i \in 1 .. cut[k] : input'[i] = input[i]
    PROVE  Serving(k, then, more)'
<1>1. CASE server.at = "read"
  <2>1. Served(k)' /\ cut[k] = 0  BY <1>1, ServedStays DEF Serving, Between
  <2> QED BY <1>1, <2>1 DEF Serving, Between
<1>2. CASE server.at \in {"headers", "body"}
  <2>1. Within(k, half, cut)  BY <1>2 DEF Serving, WithinHalf
  <2>2. k > 0 /\ k \in 1 .. k /\ frames'[k] = frames[k] /\ k - 1 \in Nat /\ Served(k - 1)
    BY <2>1 DEF Within
  <2>3. Served(k - 1)'
    <3>1. \A j \in 1 .. k - 1 : frames'[j] = frames[j]  OBVIOUS
    <3> QED BY <2>2, <3>1, ServedStays
  <2>4. Within(k, then, more)'  BY <2>1, <2>2, <2>3 DEF Within
  <2> QED BY <1>2, <2>4 DEF Serving
<1>3. CASE server.at \in {"tool", "send"}
  <2>1. Answering(k, half, cut)  BY <1>3 DEF Serving
  <2>2. k > 0 /\ k \in 1 .. k /\ frames'[k] = frames[k] /\ k - 1 \in Nat /\ Served(k - 1)
    BY <2>1 DEF Answering
  <2>3. Served(k - 1)'
    <3>1. \A j \in 1 .. k - 1 : frames'[j] = frames[j]  OBVIOUS
    <3> QED BY <2>2, <3>1, ServedStays
  <2>4. Answering(k, then, more)'  BY <2>1, <2>2, <2>3 DEF Answering
  <2> QED BY <1>3, <2>4 DEF Serving
<1> QED BY <1>1, <1>2, <1>3

\* The place where the server is while the client writes.
LEMMA Writing ==
    ASSUME Keeping, ~peer.closed
    PROVE  /\ server.at \in {"read", "headers", "body", "tool", "send"} /\ ~peer.gone
           /\ \E k \in 0 .. Len(frames) : \E cut \in [k .. Len(frames) -> Nat] : Serving(k, 0, cut)
<1>1. server.at # "over" /\ server \in Servers /\ ~peer.gone  BY DEF Keeping, Finished
<1>2. PICK k \in 0 .. Len(frames), half \in 0 .. 2 :
         \E cut \in [k .. Len(frames) -> Nat] : Serving(k, half, cut)
  BY <1>1 DEF Keeping
<1>3. PICK cut \in [k .. Len(frames) -> Nat] : Serving(k, half, cut)  BY <1>2
<1>4. half = 0
  <2>1. half > 0 => peer.closed  BY <1>3 DEF Serving, Laid, HalfAt
  <2> QED BY <2>1
<1> QED BY <1>1, <1>3, <1>4 DEF Servers

LEMMA FramePut ==
    ASSUME Keeping, NEW CONSTANT f \in HonestFrames, Puts(Sent(f), f)
    PROVE  Keeping'
<1>0. /\ frames \in Seq(HonestFrames) /\ output \in Seq(Replies) /\ server \in Servers
      /\ peer \in Peers /\ ~peer.closed /\ UNCHANGED <<server, output>>
      /\ input' = input \o Sent(f) /\ frames' = Append(frames, f)
      /\ peer' = [peer EXCEPT !.sent = @ + 1]
  BY DEF Keeping, Puts, Peers
<1>1. PICK n \in Nat : n = Len(frames)  BY DEF Keeping
<1>2. server.at \in {"read", "headers", "body", "tool", "send"} /\ ~peer.gone  BY <1>0, Writing
<1>3. PICK k \in 0 .. n : \E cut \in [k .. n -> Nat] : Serving(k, 0, cut)  BY <1>0, <1>1, Writing
<1>4. PICK cut \in [k .. n -> Nat] : Serving(k, 0, cut)  BY <1>3
<1>5. PICK more : more = [q \in k .. Len(frames) + 1 |->
                            IF q = Len(frames) + 1 THEN cut[Len(frames)] + Pieces(f) ELSE cut[q]]
  OBVIOUS
<1>6. k \in Nat /\ k <= Len(frames) /\ Laid(k, 0, cut)  BY <1>1, <1>4 DEF Serving
<1>7. /\ Laid(k, 0, more)' /\ more[k] = cut[k]
      /\ \A i \in 1 .. cut[k] : input'[i] = input[i]
  BY <1>0, <1>5, <1>6, Added
<1>8. /\ frames' \in Seq(HonestFrames) /\ Len(frames') = n + 1
      /\ \A j \in 1 .. n : frames'[j] = frames[j]
  BY <1>0, <1>1
<1>9. \A j \in 1 .. k : frames'[j] = frames[j]  BY <1>1, <1>6, <1>8
<1>10. Serving(k, 0, more)'
  BY <1>0, <1>2, <1>4, <1>6, <1>7, <1>9, ServingStays
<1>11. peer' \in [sent : Nat, closed : BOOLEAN, gone : BOOLEAN] /\ ~peer'.gone
  <2>1. PICK s \in Nat : s = peer.sent + 1  BY <1>0 DEF Peers
  <2>2. peer \in Peers /\ peer' = [peer EXCEPT !.sent = s] /\ ~peer.gone  BY <1>0, <1>2, <2>1
  <2> QED BY <2>2 DEF Peers
<1>12. /\ more = [q \in k .. n + 1 |-> more[q]] /\ n + 1 \in Nat /\ k <= n + 1
  BY <1>1, <1>5, <1>6
<1> QED BY <1>0, <1>2, <1>6, <1>8, <1>10, <1>11, <1>12, ServesOn

LEMMA PutHalfKeeps ==
    ASSUME Keeping, NEW m, PutHalf(m)
    PROVE  Keeping'
<1>0. /\ frames \in Seq(HonestFrames) /\ output \in Seq(Replies) /\ server \in Servers
      /\ peer \in Peers /\ ~peer.closed /\ UNCHANGED <<server, output, frames>>
      /\ input' = input \o <<Header(2), Blank>>
      /\ peer' = [peer EXCEPT !.sent = @ + 1, !.closed = TRUE]
  BY DEF Keeping, PutHalf, Peers
<1>1. PICK n \in Nat : n = Len(frames)  BY DEF Keeping
<1>2. server.at \in {"read", "headers", "body", "tool", "send"} /\ ~peer.gone  BY <1>0, Writing
<1>3. PICK k \in 0 .. n : \E cut \in [k .. n -> Nat] : Serving(k, 0, cut)  BY <1>0, <1>1, Writing
<1>4. PICK cut \in [k .. n -> Nat] : Serving(k, 0, cut)  BY <1>3
<1>5. k \in Nat /\ k <= Len(frames) /\ Laid(k, 0, cut)  BY <1>1, <1>4 DEF Serving
<1>6. /\ peer' \in [sent : Nat, closed : BOOLEAN, gone : BOOLEAN] /\ ~peer'.gone /\ peer'.closed
  <2>1. PICK s \in Nat : s = peer.sent + 1  BY <1>0 DEF Peers
  <2>2. /\ peer \in Peers /\ peer' = [peer EXCEPT !.sent = s, !.closed = TRUE] /\ ~peer.gone
    BY <1>0, <1>2, <2>1
  <2> QED BY <2>2 DEF Peers
<1>7. Laid(k, 2, cut)' /\ \A i \in 1 .. cut[k] : input'[i] = input[i]
  BY <1>0, <1>5, <1>6, HalfAdded
<1>8. Serving(k, 2, cut)'
  BY <1>0, <1>2, <1>4, <1>5, <1>7, ServingStays
<1>9. cut = [q \in k .. n |-> cut[q]] /\ n = Len(frames') /\ k <= n  BY <1>0, <1>1, <1>4
<1> QED BY <1>0, <1>2, <1>5, <1>6, <1>8, <1>9, ServesOn

\* The client may go, and hang up, at any time.
LEMMA GoingKeeps ==
    ASSUME Keeping, UNCHANGED <<input, server, output, frames>>, peer' \in Peers,
           peer.closed => peer'.closed, peer.gone => peer'.gone, peer'.gone => peer'.closed
    PROVE  Keeping'
<1>0. /\ frames \in Seq(HonestFrames) /\ output \in Seq(Replies) /\ server \in Servers
      /\ UNCHANGED <<input, server, output, frames>>
  BY DEF Keeping
<1>1. PICK n \in Nat : n = Len(frames)  BY DEF Keeping
<1>2. peer' \in [sent : Nat, closed : BOOLEAN, gone : BOOLEAN]  BY DEF Peers
<1>3. \A k \in Nat : Served(k) => Served(k)'
  <2>1. SUFFICES ASSUME NEW CONSTANT k \in Nat, Served(k) PROVE Served(k)'  OBVIOUS
  <2> QED BY <1>0, <2>1, ServedStays
<1>4. CASE server.at = "over"
  <2>1. PICK k \in 0 .. n : Served(k) /\ (~peer.gone => k = n) /\ peer.closed
    BY <1>1, <1>4 DEF Keeping, Finished
  <2>2. Served(k)'  BY <1>3, <2>1
  <2>3. Finished'  BY <1>0, <1>1, <2>1, <2>2 DEF Finished
  <2> QED BY <1>0, <1>2, <1>4, <2>3 DEF Keeping
<1>5. CASE server.at # "over"
  <2>1. PICK k \in 0 .. n, half \in 0 .. 2 : \E cut \in [k .. n -> Nat] : Serving(k, half, cut)
    BY <1>1, <1>5 DEF Keeping
  <2>2. PICK cut \in [k .. n -> Nat] : Serving(k, half, cut)  BY <2>1
  <2>3. Laid(k, half, cut)'  BY <1>0, <1>2, <2>2, LaidStays DEF Serving
  <2>4. Between(k, half, cut) => Between(k, half, cut)'
    BY <1>3 DEF Between
  <2>5. Within(k, half, cut) => Within(k, half, cut)'
    <3>1. k > 0 => k - 1 \in Nat  OBVIOUS
    <3> QED BY <1>0, <1>3, <3>1 DEF Within
  <2>6. WithinHalf(k, half, cut) => WithinHalf(k, half, cut)'
    BY <1>0, <1>2, <1>3 DEF WithinHalf
  <2>7. Answering(k, half, cut) => Answering(k, half, cut)'
    <3>1. k > 0 => k - 1 \in Nat  OBVIOUS
    <3> QED BY <1>0, <1>3, <3>1 DEF Answering
  <2>8. Serving(k, half, cut)'  BY <1>0, <2>2, <2>3, <2>4, <2>5, <2>6, <2>7 DEF Serving
  <2>9. cut = [q \in k .. n |-> cut[q]] /\ n = Len(frames') /\ k \in Nat /\ k <= n
    BY <1>0, <1>1, <2>2
  <2> QED BY <1>0, <1>2, <1>5, <2>8, <2>9, ServesOn
<1> QED BY <1>4, <1>5

\* A frame the client writes, if it is honest.
LEMMA PutKeeps ==
    ASSUME ServerKeepsUp, NEW CONSTANT f \in Frames, NEW items, Puts(items, f),
           f.honest => f \in HonestFrames /\ items = Sent(f)
    PROVE  ServerKeepsUp'
<1>1. /\ frames \in Seq(Frames) /\ peer \in Peers /\ (Honest => Keeping)
      /\ frames' = Append(frames, f) /\ peer' = [peer EXCEPT !.sent = @ + 1]
  BY DEF ServerKeepsUp, Puts
<1>2. frames' \in Seq(Frames) /\ peer' \in Peers  BY <1>1 DEF Peers
<1>3. Honest' => Honest /\ f.honest
  <2>1. PICK n \in Nat : n = Len(frames)  BY <1>1
  <2>2. Len(frames') = n + 1 /\ frames'[n + 1] = f /\ \A i \in 1 .. n : frames'[i] = frames[i]
    BY <1>1, <2>1
  <2>3. n + 1 \in 1 .. n + 1 /\ \A i \in 1 .. n : i \in 1 .. n + 1  OBVIOUS
  <2> QED BY <2>1, <2>2, <2>3 DEF Honest
<1>4. ASSUME Honest' PROVE Keeping'
  <2>1. Keeping /\ f \in HonestFrames /\ Puts(Sent(f), f)  BY <1>1, <1>3, <1>4
  <2> QED BY <2>1, FramePut
<1> QED BY <1>2, <1>4 DEF ServerKeepsUp

LEMMA FrameIs ==
    ASSUME peer \in Peers, NEW m \in Payloads, NEW framing \in Framings, NEW size \in Nat \ {0},
           NEW fields \in Nat, NEW honest \in BOOLEAN
    PROVE  /\ Frame(m, framing, size, fields, honest) \in Frames
           /\ Frame(m, framing, size, fields, honest).honest = honest
           /\ Frame(m, framing, size, fields, honest).size = size
           /\ fields <= HeaderMax => Frame(m, framing, size, fields, honest) \in HonestFrames
<1>1. Doc(m, peer.sent + 1) \in Said
  <2>1. m \in Documents /\ peer.sent + 1 \in Nat  BY McpAssumption DEF Peers
  <2> QED BY <2>1 DEF Said
<1>2. fields <= HeaderMax => fields \in 0 .. HeaderMax  BY McpAssumption
<1> HIDE DEF Said
<1> QED BY <1>1, <1>2 DEF Frame, Frames, HonestFrames, Framings

LEMMA PutLineKeeps ==
    ASSUME ServerKeepsUp, NEW m \in Payloads, NEW size \in {2, Limit + 1}, PutLine(m, size)
    PROVE  ServerKeepsUp'
<1>0. PICK honest \in BOOLEAN : honest = TRUE  OBVIOUS
<1>1. PICK f : f = Frame(m, "line", size, 0, honest)  OBVIOUS
<1>2. size \in Nat \ {0} /\ 0 <= HeaderMax  BY McpAssumption
<1>3. f \in Frames /\ f \in HonestFrames /\ f.size = size
  <2>1. "line" \in Framings /\ peer \in Peers /\ 0 \in Nat  BY DEF Framings, ServerKeepsUp
  <2> QED BY <1>1, <1>2, <2>1, FrameIs
<1>4. Puts(Sent(f), f)  BY <1>0, <1>1, <1>3 DEF PutLine, Sent
<1> QED BY <1>3, <1>4, PutKeeps

LEMMA PutBlockKeeps ==
    ASSUME ServerKeepsUp, NEW m \in Payloads, NEW size \in {2, Limit + 1}, NEW declared,
           NEW fields \in Nat, PutBlock(m, size, declared, fields)
    PROVE  ServerKeepsUp'
<1>1. PICK honest \in BOOLEAN : honest = (declared = size /\ fields <= HeaderMax)  OBVIOUS
<1>2. PICK f : f = Frame(m, "block", size, fields, honest)  OBVIOUS
<1>3. size \in Nat \ {0}  BY McpAssumption
<1>4. f \in Frames /\ f.size = size /\ f.honest = honest /\ (fields <= HeaderMax => f \in HonestFrames)
  <2>1. "block" \in Framings /\ peer \in Peers  BY DEF Framings, ServerKeepsUp
  <2> QED BY <1>2, <1>3, <2>1, FrameIs
<1>5. Puts(Encoded(f, declared), f)  BY <1>1, <1>2 DEF PutBlock
<1>6. f.honest => f \in HonestFrames /\ Encoded(f, declared) = Sent(f)
  BY <1>1, <1>4 DEF Sent
<1> QED BY <1>4, <1>5, <1>6, PutKeeps

\* What writes no frame.
LEMMA OtherwiseKeeps ==
    ASSUME ServerKeepsUp, UNCHANGED frames, peer' \in Peers, Keeping => Keeping'
    PROVE  ServerKeepsUp'
BY DEF ServerKeepsUp, Honest

LEMMA ServerSteps ==
    ASSUME ServerKeepsUp, [MNext]_mVars
    PROVE  ServerKeepsUp'
<1>1. CASE MStep
  <2>1. UNCHANGED frames /\ peer' \in Peers
    BY <1>1 DEF MStep, ReadLine, ReadHeader, ReadBody, Rest, RunTool, Send, ServerKeepsUp
  <2>2. Keeping => Keeping'
    <3>1. CASE ReadLine  BY <3>1, ReadLineKeeps
    <3>2. CASE ReadHeader  BY <3>2, ReadHeaderKeeps
    <3>3. CASE ReadBody  BY <3>3, ReadBodyKeeps
    <3>4. ASSUME NEW ok \in BOOLEAN, RunTool(ok) PROVE Keeping => Keeping'
      BY <3>4, RunToolKeeps
    <3>5. CASE Send  BY <3>5, SendKeeps
    <3> QED BY <1>1, <3>1, <3>2, <3>3, <3>4, <3>5 DEF MStep
  <2> QED BY <2>1, <2>2, OtherwiseKeeps
<1>2. ASSUME NEW m \in Payloads, NEW size \in {2, Limit + 1}, PutLine(m, size)
      PROVE  ServerKeepsUp'
  BY <1>2, PutLineKeeps
<1>3. ASSUME NEW m \in Payloads, NEW size \in {2, Limit + 1}, NEW declared, NEW fields \in Nat,
             PutBlock(m, size, declared, fields)
      PROVE  ServerKeepsUp'
  BY <1>3, PutBlockKeeps
<1>4. ASSUME NEW m \in Payloads, PutHalf(m) PROVE ServerKeepsUp'
  <2>1. UNCHANGED frames  BY <1>4 DEF PutHalf
  <2>2. peer' \in Peers
    <3>1. PICK s \in Nat : s = peer.sent + 1  BY DEF Peers, ServerKeepsUp
    <3>2. peer \in Peers /\ peer' = [peer EXCEPT !.sent = s, !.closed = TRUE]
      BY <1>4, <3>1 DEF PutHalf, ServerKeepsUp
    <3> QED BY <3>2 DEF Peers
  <2>3. Keeping => Keeping'  BY <1>4, PutHalfKeeps
  <2> QED BY <2>1, <2>2, <2>3, OtherwiseKeeps
<1>5. CASE Close \/ HangUp \/ UNCHANGED mVars
  <2>1. /\ UNCHANGED <<input, server, output, frames>> /\ peer' \in Peers
        /\ (peer.closed => peer'.closed) /\ (peer.gone => peer'.gone)
        /\ (peer'.gone => peer'.closed \/ peer.gone)
    BY <1>5 DEF Close, HangUp, mVars, Peers, ServerKeepsUp
  <2>2. Keeping => Keeping'
    <3>1. Keeping => (peer.gone => peer.closed)  BY DEF Keeping
    <3> QED BY <2>1, <3>1, GoingKeeps
  <2> QED BY <2>1, <2>2, OtherwiseKeeps
<1>6. ASSUME MNext PROVE ServerKeepsUp'
  <2>1. 0 \in Nat /\ HeaderMax \in Nat /\ 2 \in {2, Limit + 1}
        /\ \A fields \in 0 .. HeaderMax + 1 : fields \in Nat
    BY McpAssumption
  <2>2. ASSUME NEW m \in Payloads,
               \E size \in {2, Limit + 1}, fields \in 0 .. HeaderMax + 1 :
                  PutBlock(m, size, size, fields)
        PROVE  ServerKeepsUp'
    BY <1>3, <2>1, <2>2
  <2>3. ASSUME NEW m \in Payloads, \E declared \in {1, 3} : PutBlock(m, 2, declared, HeaderMax)
        PROVE  ServerKeepsUp'
    BY <1>3, <2>1, <2>3
  <2>4. ASSUME NEW m \in Payloads, PutBlock(m, 2, NotANumber, 0) PROVE ServerKeepsUp'
    BY <1>3, <2>1, <2>4
  <2> QED BY <1>1, <1>2, <1>4, <1>5, <1>6, <2>2, <2>3, <2>4 DEF MNext
<1> QED BY <1>5, <1>6

LEMMA ServerStarts ==
    ASSUME MInit
    PROVE  ServerKeepsUp
<1>1. /\ input = <<>> /\ output = <<>> /\ frames = <<>>
      /\ peer = [sent |-> 0, closed |-> FALSE, gone |-> FALSE] /\ server = At("read")
  BY DEF MInit
<1>2. peer \in Peers /\ ~peer.gone /\ Len(input) = 0 /\ Len(output) = 0 /\ Len(frames) = 0
  BY <1>1 DEF Peers
<1>3. server \in Servers /\ server.at = "read"  BY <1>1, AtServes
<1>4. PICK cut \in [0 .. 0 -> Nat] : cut[0] = 0
  <2>1. [q \in 0 .. 0 |-> 0] \in [0 .. 0 -> Nat] /\ [q \in 0 .. 0 |-> 0][0] = 0  OBVIOUS
  <2> QED BY <2>1
<1>5. Served(0)
  <2>1. Rank(0) = 0  BY RankSteps
  <2> QED BY <1>2, <2>1 DEF Served
<1>6. Laid(0, 0, cut)
  <2>1. InPipe  BY <1>1, <1>2 DEF InPipe
  <2>2. Cuts(0, 0, cut)  BY <1>2, <1>4 DEF Cuts
  <2>3. FramesAt(0, cut)
    <3>1. 0 + 1 .. Len(frames) = {}  BY <1>2
    <3> QED BY <3>1 DEF FramesAt
  <2>4. HalfAt(0)  BY DEF HalfAt
  <2> QED BY <2>1, <2>2, <2>3, <2>4 DEF Laid
<1>7. Serving(0, 0, cut)  BY <1>3, <1>4, <1>5, <1>6 DEF Serving, Between
<1>8. \E k \in 0 .. Len(frames), half \in 0 .. 2 :
         \E c \in [k .. Len(frames) -> Nat] : Serving(k, half, c)
  <2>1. 0 \in 0 .. Len(frames) /\ 0 \in 0 .. 2 /\ cut \in [0 .. Len(frames) -> Nat]
    BY <1>2, <1>4
  <2> QED BY <1>7, <2>1
<1>9. frames \in Seq(Frames) /\ frames \in Seq(HonestFrames) /\ output \in Seq(Replies)
  <2> HIDE DEF Frames, HonestFrames, Replies
  <2> QED BY <1>1
<1>10. Keeping  BY <1>2, <1>3, <1>8, <1>9 DEF Keeping, Peers
<1> QED BY <1>2, <1>9, <1>10 DEF ServerKeepsUp

LEMMA KeptUpAnswers ==
    ASSUME ServerKeepsUp
    PROVE  EachAnswered
<1>1. SUFFICES ASSUME Honest
               PROVE  /\ \A n \in 1 .. Len(output) :
                            \E i \in Requests : Rank(i) = n /\ Suits(output[n], frames[i])
                      /\ server.at = "over" /\ ~peer.gone => Len(output) = Cardinality(Requests)
  BY DEF EachAnswered
<1>2. Keeping  BY <1>1 DEF ServerKeepsUp
<1>3. PICK k \in 0 .. Len(frames) : Served(k)
  <2>1. CASE server.at = "over"  BY <1>2, <2>1 DEF Keeping, Finished
  <2>2. CASE server.at # "over"
    <3>1. PICK k \in 0 .. Len(frames), half \in 0 .. 2 :
             \E cut \in [k .. Len(frames) -> Nat] : Serving(k, half, cut)
      BY <1>2, <2>2 DEF Keeping
    <3>2. PICK cut \in [k .. Len(frames) -> Nat] : Serving(k, half, cut)  BY <3>1
    <3>3. Between(k, half, cut) \/ Within(k, half, cut) \/ WithinHalf(k, half, cut)
          \/ Answering(k, half, cut)
      BY <1>2, <2>2, <3>2 DEF Serving, Keeping, Servers
    <3>4. Served(k) \/ (k > 0 /\ Served(k - 1))
      BY <3>3 DEF Between, Within, WithinHalf, Answering
    <3>5. k > 0 => k - 1 \in 0 .. Len(frames)  BY <1>2 DEF Keeping
    <3> QED BY <3>4, <3>5
  <2> QED BY <2>1, <2>2
<1>4. \A n \in 1 .. Len(output) : \E i \in Requests : Rank(i) = n /\ Suits(output[n], frames[i])
  <2>1. SUFFICES ASSUME NEW n \in 1 .. Len(output)
                 PROVE  \E i \in Requests : Rank(i) = n /\ Suits(output[n], frames[i])
    OBVIOUS
  <2>2. PICK i \in 1 .. k : Answerable(frames[i]) /\ Rank(i) = n /\ Suits(output[n], frames[i])
    BY <1>3 DEF Served
  <2>3. i \in 1 .. Len(frames)  BY <1>2, <1>3 DEF Keeping
  <2> QED BY <2>2, <2>3 DEF Requests
<1>5. server.at = "over" /\ ~peer.gone => Len(output) = Cardinality(Requests)
  BY <1>2 DEF Keeping, Finished, Served, Rank, Requests
<1> QED BY <1>4, <1>5

\* Mcp: where the server is among the frames of an honest client, and that the
\* pipe holds what is left of the frames it has not read. The types are part
\* of it.
THEOREM ServerStaysRight == McpSpec => []ServerKeepsUp
<1>1. MInit => ServerKeepsUp  BY ServerStarts
<1>2. ServerKeepsUp /\ [MNext]_mVars => ServerKeepsUp'  BY ServerSteps
<1> QED BY <1>1, <1>2, PTL DEF McpSpec

\* Each request of an honest client is answered once, in order, with its id and
\* in its framing, and all of them before the server goes.
THEOREM RequestsAreAnswered == McpSpec => []EachAnswered
<1>1. ServerKeepsUp => EachAnswered  BY KeptUpAnswers
<1> QED BY <1>1, ServerStaysRight, PTL
=============================================================================
