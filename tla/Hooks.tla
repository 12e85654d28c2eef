-------------------------------- MODULE Hooks --------------------------------
(***************************************************************************)
(* `omm hook <name>` (omm/src/cmd/c_tune/hook.rs and hook_gates.rs): one   *)
(* process per event of a coding session, which reads the event, perhaps   *)
(* some files of the workspace's .omm/, and answers once.                  *)
(*                                                                         *)
(* A tool call starts three of them at a time, and runs unless one denies  *)
(* it; a stop starts one, which may ask for a continuation; the start and  *)
(* the end of a subagent, and a compaction, each append a line to a log.   *)
(* Meanwhile the agent and the user change the files of .omm/.             *)
(***************************************************************************)
EXTENDS Naturals, Sequences, FiniteSets

CONSTANTS
    Skills,     \* skills a gate may ask for
    Lines,      \* command lines of a shell tool, sequences of segments
    None,       \* no file, no call, no directory, no answer
    Broken,     \* a file that is too large, or not JSON
    MaxChanges, \* bound: changes of the files, by the agent and the user
    MaxCalls    \* bound: tool calls, stops and other events

Gates    == {"guard", "skill-gate", "intent-gate"}
Logs     == {"subagent-start", "subagent-stop", "pre-compact"}
Handlers == Gates \cup Logs \cup {"stop"}

\* The workspace's .omm/: the skill gate (off, broken, or the skills it
\* requires), the skills marked read, whether the intent gate requires a plan,
\* the plan, the claim that verify.json has open, and the logs.
StateDirs ==
    [gate : {None, Broken} \cup SUBSET Skills, read : {None, Broken} \cup SUBSET Skills,
     planned : BOOLEAN, plan : BOOLEAN, verify : {None, Broken, "pending", "closed"},
     logged : SUBSET Logs]

\* What arrives on stdin of a handler: the event, cut at the bound, or garbled;
\* the workspace it names, if that is absolute; the call, or the last message.
Messages == [claims : BOOLEAN, cites : BOOLEAN]
Calls    == [tool : {"read", "write"}, line : {<<>>}] \cup [tool : {"bash"}, line : Lines]
Events   == [whole : BOOLEAN, cwd : BOOLEAN, call : Calls \cup {None},
             message : Messages \cup {None}, active : BOOLEAN]

VARIABLES
    dir,     \* .omm/ of the workspace, None when there is none
    off,     \* the handlers config.json disables
    hook,    \* for each handler its process, or None
    session, \* what the session waits for, and its last event
    changes, calls,
    \* History.
    steady   \* no file has changed since the event

hVars == <<dir, off, hook, session, changes, calls, steady>>

Process == [at : {"dispatch", "files", "done"}, needed : SUBSET Skills,
            answer : {None, "deny", "block", "empty"}]

ASSUME HooksAssumption ==
    /\ None \notin StateDirs /\ None \notin Process
    /\ MaxChanges \in Nat /\ MaxCalls \in Nat

-----------------------------------------------------------------------------
\* The guard: a command line is a sequence of simple commands, each of which
\* changes the directory, does something to a target, or runs a line of its
\* own in a shell.

\* Where a target is, seen from a directory; None cannot be told.
Resolved(t, cwd) ==
    CASE t \in {"/", "~", "/tmp", "/etc"} -> t
      [] t = "$VAR" -> None
      [] t = "." -> cwd
      [] t = "x" -> IF cwd \in {None, "ws", "/tmp"} THEN cwd ELSE "/etc"
      [] t = ".." -> CASE cwd = None -> None
                       [] cwd \in {"/", "/tmp", "/etc"} -> "/"
                       [] OTHER -> "/etc"

InJail(where) == where \in {"ws", "/tmp"}
IsRoot(where) == where \in {"/", "~"}

\* A simple command, after wrappers, assignments and quotes, breaks a rule.
Breaks(s, cwd, root) ==
    CASE s.does \in {"rm -r", "find -delete"} ->
             IsRoot(s.to) \/ (cwd # None /\ IsRoot(cwd) /\ s.to = ".")
      [] s.does \in {"push -f main", "reset --hard", "drop table"} -> TRUE
      [] s.does = "write" ->
             root /\ Resolved(s.to, cwd) # None /\ ~InJail(Resolved(s.to, cwd))
      [] OTHER -> FALSE

\* How deep a shell in a shell is followed.
NestMax == 4

\* The commands of a line are judged in order, each in the directory the ones
\* before it lead to; what a shell of its own changes into is its own affair.
Judged(line, root) ==
    LET start == IF root THEN "ws" ELSE None
        cwd[i \in 0 .. Len(line)] ==
            IF i = 0 THEN start
            ELSE IF line[i].does = "cd" /\ line[i].shells = 0 THEN Resolved(line[i].to, cwd[i - 1])
            ELSE cwd[i - 1]
    IN  \E i \in 1 .. Len(line) :
            /\ line[i].shells <= NestMax \/ line[i].does = "drop table"
            /\ Breaks(line[i], cwd[i - 1], root)

-----------------------------------------------------------------------------
\* The gates.

\* A tool that writes by its name, or a line that spells a write.
Mutating(call) ==
    \/ call.tool = "write"
    \/ call.tool = "bash"
        /\ \E i \in 1 .. Len(call.line) : call.line[i].does \in {"rm -r", "write"}

\* The files are found through the event's directory, and only there.
State(e) == IF e.cwd THEN dir ELSE None

Needed(e) ==
    IF State(e) = None \/ State(e).gate \in {None, Broken} THEN {} ELSE State(e).gate
\* The skills that count as read.
Read(e) ==
    IF State(e) = None \/ State(e).read \in {None, Broken} THEN {} ELSE State(e).read

PlanMissing(e) == State(e) # None /\ State(e).planned /\ ~State(e).plan

Pending(e) == State(e) # None /\ State(e).verify = "pending"

Answered(h, a) == hook' = [hook EXCEPT ![h].at = "done", ![h].answer = a]
\* The other files are looked at in a step of their own.
ReadsOn(h, needed) == hook' = [hook EXCEPT ![h].at = "files", ![h].needed = needed]

Guard(e) ==
    IF e.whole /\ (e.call.tool # "bash" \/ ~Judged(e.call.line, e.cwd))
    THEN Answered("guard", "empty") ELSE Answered("guard", "deny")

\* Mutant of SkillGate: a tool that only reads is held up too.
SkillGateAnyTool(e) ==
    IF e.whole /\ Needed(e) # {}
    THEN ReadsOn("skill-gate", Needed(e)) ELSE Answered("skill-gate", "empty")

SkillGate(e) ==
    IF e.whole /\ Mutating(e.call) /\ Needed(e) # {}
    THEN ReadsOn("skill-gate", Needed(e)) ELSE Answered("skill-gate", "empty")

IntentGate(e) ==
    IF e.whole /\ Mutating(e.call) /\ PlanMissing(e)
    THEN ReadsOn("intent-gate", {}) ELSE Answered("intent-gate", "empty")

\* Mutant of Nudge: a continuation is judged like a first stop.
NudgeAgain(e) == Pending(e) \/ (e.message.claims /\ ~e.message.cites)

\* A claim still open, or a completion claimed without evidence.
Nudge(e) ==
    /\ ~e.active
    /\ Pending(e) \/ (e.message.claims /\ ~e.message.cites)

Stop(e) == Answered("stop", IF e.whole /\ Nudge(e) THEN "block" ELSE "empty")

Log(h, e) ==
    IF e.whole /\ State(e) # None THEN ReadsOn(h, {}) ELSE Answered(h, "empty")

-----------------------------------------------------------------------------
\* A process of a handler.

Quiet == UNCHANGED <<off, changes, calls, steady>>

\* The kill switch of config.json comes before anything else.
Disabled(h) == h \in off

Dispatch(h) ==
    /\ hook[h] # None /\ hook[h].at = "dispatch"
    /\ LET e == session.event
       IN  IF Disabled(h) THEN Answered(h, "empty")
           ELSE CASE h = "guard"       -> Guard(e)
                  [] h = "skill-gate"  -> SkillGate(e)
                  [] h = "intent-gate" -> IntentGate(e)
                  [] h = "stop"        -> Stop(e)
                  [] OTHER             -> Log(h, e)
    /\ UNCHANGED <<dir, session>>
    /\ Quiet

\* read-skills.json, read after the gate's file.
ReadSkills ==
    /\ hook["skill-gate"] # None /\ hook["skill-gate"].at = "files"
    /\ Answered("skill-gate",
                IF hook["skill-gate"].needed \subseteq Read(session.event)
                THEN "empty" ELSE "deny")
    /\ UNCHANGED <<dir, session>>
    /\ Quiet

\* plan.json is looked for after the gate's file.
LookForPlan ==
    /\ hook["intent-gate"] # None /\ hook["intent-gate"].at = "files"
    /\ Answered("intent-gate", IF PlanMissing(session.event) THEN "deny" ELSE "empty")
    /\ UNCHANGED <<dir, session>>
    /\ Quiet

\* What create_dir_all makes of a missing directory.
Fresh(h) ==
    [gate |-> None, read |-> None, planned |-> FALSE, plan |-> FALSE,
     verify |-> None, logged |-> {h}]

\* The directory was there a moment ago; append_jsonl creates what is missing.
AppendLine(h) ==
    /\ h \in Logs
    /\ hook[h] # None /\ hook[h].at = "files"
    /\ dir' = IF dir = None THEN Fresh(h) ELSE [dir EXCEPT !.logged = @ \cup {h}]
    /\ Answered(h, "empty")
    /\ UNCHANGED session
    /\ Quiet

-----------------------------------------------------------------------------
\* The host: an event, its handlers, and what it makes of their answers.

Starts(waits, handlers, e) ==
    /\ calls < MaxCalls
    /\ calls' = calls + 1
    /\ session' = [waits |-> waits, event |-> e]
    /\ hook' = [h \in Handlers |->
        IF h \in handlers THEN [at |-> "dispatch", needed |-> {}, answer |-> None] ELSE None]
    /\ steady' = TRUE
    /\ UNCHANGED <<dir, off, changes>>

Ready == \A h \in Handlers : hook[h] # None => hook[h].at = "done"
Working == session.waits = "work"

Shape == [whole : BOOLEAN, cwd : BOOLEAN]

CallTool(call, s) ==
    /\ Working
    /\ Starts("tool", Gates, [whole |-> s.whole, cwd |-> s.cwd, call |-> call,
                              message |-> None, active |-> FALSE])

Wants(message, s) ==
    /\ Working
    /\ Starts("stop", {"stop"}, [whole |-> s.whole, cwd |-> s.cwd, call |-> None,
                                 message |-> message, active |-> FALSE])

Happens(h, s) ==
    /\ Working /\ h \in Logs
    /\ Starts("log", {h}, [whole |-> s.whole, cwd |-> s.cwd, call |-> None,
                           message |-> None, active |-> FALSE])

Answers == {hook[h].answer : h \in {h \in Handlers : hook[h] # None}}

Idle == hook' = [h \in Handlers |-> None]

Back(waits) ==
    /\ session' = [session EXCEPT !.waits = waits]
    /\ Idle
    /\ UNCHANGED dir
    /\ Quiet

ToolRuns == session.waits = "tool" /\ Ready /\ "deny" \notin Answers /\ Back("work")
ToolDenied == session.waits = "tool" /\ Ready /\ "deny" \in Answers /\ Back("work")
Logged == session.waits = "log" /\ Ready /\ Back("work")
Stopped == session.waits = "stop" /\ Ready /\ "block" \notin Answers /\ Back("over")

\* One continuation, after which the agent stops again.
Continues ==
    /\ session.waits = "stop" /\ Ready /\ "block" \in Answers
    /\ session' = [session EXCEPT !.event.active = TRUE]
    /\ hook' = [h \in Handlers |->
        IF h = "stop" THEN [at |-> "dispatch", needed |-> {}, answer |-> None] ELSE None]
    /\ UNCHANGED dir
    /\ Quiet

-----------------------------------------------------------------------------
\* The agent and the user change the files at any moment.

Changes ==
    /\ changes < MaxChanges
    /\ changes' = changes + 1
    /\ steady' = FALSE
    /\ UNCHANGED <<hook, session, calls>>

Writes(d) == dir' = d /\ UNCHANGED off /\ Changes

SetGate(g) == dir # None /\ Writes([dir EXCEPT !.gate = g])
MarkRead(r) == dir # None /\ Writes([dir EXCEPT !.read = r])
SetIntent == dir # None /\ Writes([dir EXCEPT !.planned = ~@])
WritePlan == dir # None /\ Writes([dir EXCEPT !.plan = ~@])
SetVerify(v) == dir # None /\ Writes([dir EXCEPT !.verify = v])
OptIn == dir = None /\ Writes([Fresh("stop") EXCEPT !.logged = {}])

OptOut ==
    /\ dir # None
    /\ dir' = None
    /\ UNCHANGED off
    /\ Changes

Switch(h) ==
    /\ off' = IF h \in off THEN off \ {h} ELSE off \cup {h}
    /\ UNCHANGED dir
    /\ Changes

HInit ==
    /\ dir \in {None} \cup {d \in StateDirs : d.logged = {}} /\ off = {}
    /\ hook = [h \in Handlers |-> None]
    /\ session = [waits |-> "work",
                  event |-> [whole |-> TRUE, cwd |-> TRUE, call |-> None,
                             message |-> None, active |-> FALSE]]
    /\ changes = 0 /\ calls = 0 /\ steady = TRUE

HStep ==
    \/ (\E h \in Handlers : Dispatch(h) \/ AppendLine(h)) \/ ReadSkills \/ LookForPlan
    \/ ToolRuns \/ ToolDenied \/ Logged \/ Stopped \/ Continues

HNext ==
    \/ HStep
    \/ \E s \in Shape :
        \/ \E call \in Calls : CallTool(call, s)
        \/ \E m \in Messages : Wants(m, s)
        \/ \E h \in Logs : Happens(h, s)
    \/ \E g \in {None, Broken} \cup SUBSET Skills : SetGate(g) \/ MarkRead(g)
    \/ SetIntent \/ WritePlan \/ OptIn \/ OptOut
    \/ \E v \in {"pending", "closed", Broken} : SetVerify(v)
    \/ \E h \in {"guard", "skill-gate", "stop"} : Switch(h)

-----------------------------------------------------------------------------
\* Properties.

\* What the files say of a call: a rule broken, or a line that cannot be read;
\* a required skill not read; a required plan not there.
Forbidden(e) ==
    \/ "guard" \notin off
        /\ (~e.whole \/ (e.call.tool = "bash" /\ Judged(e.call.line, e.cwd)))
    \/ "skill-gate" \notin off
        /\ e.whole /\ Mutating(e.call) /\ ~(Needed(e) \subseteq Read(e))
    \/ "intent-gate" \notin off
        /\ e.whole /\ Mutating(e.call) /\ PlanMissing(e)

\* With nobody changing the files meanwhile, a tool runs exactly when they, and
\* the rules, allow it, whichever handlers answer first.
GatesDecide ==
    [][steady =>
        /\ ToolRuns => ~Forbidden(session.event)
        /\ ToolDenied => Forbidden(session.event)]_hVars

\* A session that wants to stop does, whatever is pending and for however long.
StopsEnd == session.waits = "stop" ~> session.waits = "over"
=============================================================================
