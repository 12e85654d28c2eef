-------------------------------- MODULE Rules --------------------------------
(***************************************************************************)
(* The personal rules file, AGENTS.md, of which omm owns one marked block: *)
(* how the text is cut and put together (omm-ledger/src/rules.rs, with     *)
(* a_lifecycle/rules.rs over it), how install and update write it          *)
(* (converge_rules in a_lifecycle/files.rs), and how uninstall takes the   *)
(* block out again (decide_rules in omm-ledger/src/uninstall.rs). The user *)
(* edits the file between the commands and while they run, a command may   *)
(* be killed, and the ledger may be lost.                                  *)
(*                                                                         *)
(* A text is a sequence of tokens: a marker, a newline, a line of the      *)
(* managed block, the template's own title and placeholder, or a word of   *)
(* the user's, old or typed since. A text stands for its hash as well.     *)
(***************************************************************************)
EXTENDS Naturals, Sequences, SequencesExt, FiniteSetsExt

CONSTANTS
    Versions,     \* of the template
    Absent,       \* no file, no entry, no block
    Originals,    \* texts of a file that is there before omm
    MaxTextEdits, \* bound: edits of the user
    MaxRuns       \* bound: commands

VARIABLES
    text,    \* AGENTS.md, or Absent
    entry,   \* its ledger entry, or Absent
    run,     \* the command under way
    staged,  \* what was last put under updates/ for the user to merge
    rTally,  \* edits and commands so far
    \* History.
    before,  \* the file as it was before omm first wrote it
    touched, \* the user has edited the file since
    mishaps  \* "torn": killed between the ledger and the file; "lost": the ledger

rVars == <<text, entry, run, staged, rTally, before, touched, mishaps>>

ManagedStart == "managed-start"
ManagedEnd == "managed-end"
UserStart == "user-start"
UserEnd == "user-end"
Newline == "newline"
Title == "title"
Placeholder == "placeholder"
Mine == "mine" \* a word the user types
Former == "former" \* a word of his that was there before omm

Markers == {ManagedStart, ManagedEnd, UserStart, UserEnd}
Tokens == Markers \cup {Newline, Title, Placeholder, Mine, Former} \cup Versions
Texts == Seq(Tokens)

Outsides == [pre : Texts, mid : Texts, post : Texts, user : Texts]
Cuts == [pre : Texts, managed : Texts, mid : Texts, user : Texts \cup {Absent}, post : Texts]
Claims == [sha : Texts, managed : Texts, frame : Outsides, replaced : Texts \cup {Absent}]

ASSUME RulesAssumption ==
    /\ Versions \cap (Markers \cup {Newline, Title, Placeholder, Mine, Former}) = {}
    /\ Originals \subseteq Texts
    /\ Absent \notin Texts \cup Outsides \cup Cuts \cup Claims \cup [to : Texts \cup {Absent}]

-----------------------------------------------------------------------------
\* Cutting a text. Positions start at 1, a piece is what lies before one.

Piece(t, i, j) == SubSeq(t, i, j - 1)
Past(t) == Len(t) + 1

\* The first place of a token at or after a position; 0 if there is none.
Find(t, x, i) ==
    LET at == {j \in i .. Len(t) : t[j] = x} IN IF at = {} THEN 0 ELSE Min(at)

\* Past the end of the line, or the place itself when no newline follows.
LineEnd(t, i) == LET n == Find(t, Newline, i) IN IF n = 0 THEN i ELSE n + 1

\* Strictly between one marker's line and another marker; <<>> if there is none.
UpTo(t, e, a) == IF Find(t, e, a) = 0 THEN <<>> ELSE <<a, Find(t, e, a)>>
Behind(t, e, i) == IF i = 0 THEN <<>> ELSE UpTo(t, e, LineEnd(t, i + 1))
Between(t, s, e) == Behind(t, e, Find(t, s, 1))

\* The place of the user's start marker and what is between his two, in a text
\* of which the first n tokens were cut off; <<>> if there is no pair.
Counted(n, from, pair) ==
    IF pair = <<>> THEN <<>> ELSE <<n + from, n + pair[1], n + pair[2]>>
UserAfter(rest, n) ==
    Counted(n, Find(rest, UserStart, 1), Between(rest, UserStart, UserEnd))

\* The cut of `parts`: around the managed block m, and around the user's pair
\* of markers u if that follows. Absent without a managed block.
Divided(t, m, u) ==
    [pre |-> Piece(t, 1, Find(t, ManagedStart, 1)),
     managed |-> Piece(t, m[1], m[2]),
     mid |-> Piece(t, m[2] + 1, IF u = <<>> THEN Past(t) ELSE u[1]),
     user |-> IF u = <<>> THEN Absent ELSE Piece(t, u[2], u[3]),
     post |-> IF u = <<>> THEN <<>> ELSE Piece(t, u[3] + 1, Past(t))]
PartsAt(t, m) ==
    IF m = <<>> THEN Absent
    ELSE Divided(t, m, UserAfter(Piece(t, m[2] + 1, Past(t)), m[2]))
Parts(t) == PartsAt(t, Between(t, ManagedStart, ManagedEnd))

Blank(t) == \A i \in DOMAIN t : t[i] = Newline

\* No blank lines around, and one newline at the end.
Normalised(t) ==
    IF Blank(t) THEN <<>>
    ELSE LET solid == {i \in DOMAIN t : t[i] # Newline}
         IN Append(SubSeq(t, Min(solid), Max(solid)), Newline)

\* What omm contributes outside the block.
Frame(parts) == [pre |-> parts.pre, mid |-> parts.mid, post |-> parts.post,
                 user |-> Normalised(IF parts.user = Absent THEN <<>> ELSE parts.user)]

\* Mutant of InsertedFrame: the newline that ends the block is forgotten.
InsertedLine == [pre |-> <<>>, mid |-> <<Newline>>, post |-> <<>>, user |-> <<>>]
InsertedFrame == [pre |-> <<>>, mid |-> <<Newline, Newline>>, post |-> <<>>, user |-> <<>>]

-----------------------------------------------------------------------------
\* Putting a text together.

Template(v) ==
    <<Title, Newline, ManagedStart, Newline, v, Newline, ManagedEnd, Newline, Newline,
      UserStart, Newline, Placeholder, Newline, UserEnd, Newline>>
Managed(v) == <<v, Newline>>

\* The managed region replaced, every other byte kept. Absent without a block.
ReplacedAt(t, v, m) ==
    IF m = <<>> THEN Absent ELSE Piece(t, 1, m[1]) \o Managed(v) \o Piece(t, m[2], Past(t))
Replaced(t, v) == ReplacedAt(t, v, Between(t, ManagedStart, ManagedEnd))

\* The block above the user's text, with a blank line between.
Inserted(t, v) == <<ManagedStart, Newline>> \o Managed(v) \o <<ManagedEnd, Newline, Newline>> \o t

WithoutPrefix(t, p) == IF IsPrefix(p, t) THEN Piece(t, Len(p) + 1, Past(t)) ELSE t
WithoutSuffix(t, s) == IF IsSuffix(s, t) THEN Piece(t, 1, Past(t) - Len(s)) ELSE t

\* What uninstall leaves: the block and the frame gone as far as they are
\* still omm's. Of the middle, the frame is taken at one end.
WithoutBlock(parts, frame) ==
    LET user == IF parts.user = Absent THEN <<>> ELSE Normalised(parts.user)
        mine == IF frame # Absent /\ frame.user # <<>> /\ Normalised(frame.user) = user
                THEN <<>> ELSE user
    IN IF frame = Absent THEN parts.pre \o parts.mid \o mine \o parts.post
       ELSE WithoutSuffix(parts.pre, frame.pre)
            \o (IF IsPrefix(frame.mid, parts.mid) THEN WithoutPrefix(parts.mid, frame.mid)
                ELSE WithoutSuffix(parts.mid, frame.mid))
            \o mine \o WithoutPrefix(parts.post, frame.post)

-----------------------------------------------------------------------------
\* install and update.

NoRun == [at |-> "idle"]
RInit ==
    /\ text \in {Absent} \cup Originals
    /\ entry = Absent /\ run = NoRun /\ staged = Absent
    /\ rTally = [edits |-> 0, runs |-> 0]
    /\ before = text /\ touched = FALSE /\ mishaps = {}

\* The managed region, marked by both pairs or by one.
RegionOf(parts) == IF parts = Absent THEN Absent ELSE parts.managed

\* What becomes of a file: the text to write, whether to write it, the text to
\* stage, and the frame and the original that go to the ledger.
AsIs(t) == [write |-> FALSE, new |-> t, stage |-> Absent]
Refresh(t) == [write |-> TRUE, new |-> t, stage |-> Absent]
Stage(t) == [write |-> FALSE, new |-> Absent, stage |-> t]
With(d, frame, replaced) ==
    [write |-> d.write, new |-> d.new, stage |-> d.stage, frame |-> frame, replaced |-> replaced]
TemplateFrame(v) == Frame(Parts(Template(v)))

\* A file without an entry.
Renewed(t, r) == IF r \in {Absent, t} THEN AsIs(t) ELSE Refresh(r)
First(t, v) ==
    CASE t = Absent -> With(Refresh(Template(v)), TemplateFrame(v), Absent)
      [] t # Absent /\ Parts(t) = Absent -> With(Refresh(Inserted(t, v)), InsertedFrame, t)
      [] OTHER -> With(Renewed(t, Replaced(t, v)), TemplateFrame(v), Absent)

\* Mutant of Refreshed: a block the user edited is replaced as well.
RefreshedOverEdits(t, v) ==
    With(IF Replaced(t, v) = Absent THEN Stage(Template(v)) ELSE Refresh(Replaced(t, v)),
         entry.frame, entry.replaced)

\* A file with an entry and some text: refreshed while the block is omm's,
\* staged when the block was edited or its markers are gone.
RefreshedTo(t, v, r) ==
    CASE t = entry.sha /\ r \in {Absent, t} -> [AsIs(t) EXCEPT !.new = Absent]
      [] t = entry.sha /\ r \notin {Absent, t} -> Refresh(r)
      [] t # entry.sha /\ r = t -> AsIs(t)
      [] t # entry.sha /\ r \notin {Absent, t} /\ RegionOf(Parts(t)) = entry.managed -> Refresh(r)
      [] OTHER -> Stage(IF r = Absent THEN Template(v) ELSE r)
Refreshed(t, v) == With(RefreshedTo(t, v, Replaced(t, v)), entry.frame, entry.replaced)

\* A file that has an entry and is missing: an install writes it again.
Lost(v, update) ==
    IF update THEN With(Stage(Template(v)), entry.frame, entry.replaced)
    ELSE With(Refresh(Template(v)), TemplateFrame(v), Absent)

Decision(v, update) ==
    CASE entry = Absent -> First(text, v)
      [] entry # Absent /\ text = Absent -> Lost(v, update)
      [] OTHER -> Refreshed(text, v)

\* The file is read and its fate decided, and what is staged is written.
BeginRules(v, update) ==
    /\ run.at = "idle" /\ rTally.runs < MaxRuns
    /\ update => entry # Absent
    /\ \E d \in {Decision(v, update)} :
       /\ run' = IF d.new = Absent THEN NoRun
                 ELSE [at |-> "record", v |-> v, d |-> d, read |-> text, known |-> entry # Absent]
       /\ staged' = IF d.stage # Absent THEN d.stage ELSE staged
    /\ rTally' = [rTally EXCEPT !.runs = @ + 1]
    /\ UNCHANGED <<text, entry, before, touched, mishaps>>

\* The ledger is saved first, with the hash the file is to have.
RecordRules ==
    /\ run.at = "record"
    /\ entry' = [sha |-> run.d.new, managed |-> Managed(run.v),
                 frame |-> run.d.frame, replaced |-> run.d.replaced]
    /\ run' = IF run.d.write THEN [run EXCEPT !.at = "write"] ELSE NoRun
    /\ UNCHANGED <<text, staged, rTally, before, touched, mishaps>>

WriteRules ==
    /\ run.at = "write"
    /\ text' = run.d.new /\ run' = NoRun
    /\ UNCHANGED <<entry, staged, rTally, before, touched, mishaps>>

-----------------------------------------------------------------------------
\* uninstall.

\* What happens to the file: restored to what was there before omm, rewritten
\* without the block, removed, or left alone (Absent).
Remains(rest) == [to |-> IF Blank(rest) THEN entry.replaced ELSE rest]
DecideOn(t, parts, force) ==
    CASE ~(t = entry.sha \/ force) /\ RegionOf(parts) # entry.managed -> Absent
      [] (t = entry.sha \/ force) /\ parts = Absent -> [to |-> entry.replaced]
      [] OTHER -> Remains(WithoutBlock(parts, entry.frame))
Decide(t, force) == DecideOn(t, Parts(t), force)

BeginUndoRules(force) ==
    /\ run.at = "idle" /\ rTally.runs < MaxRuns /\ entry # Absent
    /\ run' = [at |-> "undo", read |-> text, force |-> force,
               d |-> IF text = Absent THEN Absent ELSE Decide(text, force)]
    /\ rTally' = [rTally EXCEPT !.runs = @ + 1]
    /\ UNCHANGED <<text, entry, staged, before, touched, mishaps>>

\* Just before it writes or removes, uninstall looks again; a file that changed
\* stays and its entry too. Only a removal by force goes on.
UndoRules ==
    /\ run.at = "undo"
    /\ LET stale == text # run.read /\ ~(run.d # Absent /\ run.d.to = Absent /\ run.force /\ text # Absent)
           gone == run.d # Absent /\ run.d.to = Absent /\ text = Absent
       IN IF run.d # Absent /\ stale /\ ~gone
          THEN UNCHANGED <<text, entry, before, touched, mishaps>>
          ELSE /\ text' = IF run.d = Absent THEN text ELSE run.d.to
               /\ entry' = Absent
               /\ before' = IF run.d = Absent THEN before ELSE text'
               /\ touched' = IF run.d = Absent THEN touched ELSE FALSE
               /\ mishaps' = IF run.d = Absent THEN mishaps ELSE {}
    /\ run' = NoRun
    /\ UNCHANGED <<staged, rTally>>

-----------------------------------------------------------------------------
\* The user, a kill, a lost ledger.

Edited(t) ==
    {InsertAt(t, i, Mine) : i \in 1 .. Past(t)} \cup {RemoveAt(t, i) : i \in DOMAIN t}

EditText ==
    /\ rTally.edits < MaxTextEdits
    /\ text' \in IF text = Absent THEN {<<Mine, Newline>>} ELSE {Absent} \cup Edited(text)
    /\ rTally' = [rTally EXCEPT !.edits = @ + 1]
    /\ IF entry = Absent /\ run = NoRun /\ ~touched /\ text = before
       THEN before' = text' /\ UNCHANGED touched
       ELSE touched' = TRUE /\ UNCHANGED before
    /\ UNCHANGED <<entry, run, staged, mishaps>>

KillRun ==
    /\ run # NoRun /\ run' = NoRun
    /\ mishaps' = mishaps \cup (IF run.at = "write" THEN {"torn"} ELSE {})
    /\ UNCHANGED <<text, entry, staged, rTally, before, touched>>

\* A ledger that cannot be read is moved aside.
LoseLedger ==
    /\ run = NoRun /\ entry # Absent
    /\ entry' = Absent /\ mishaps' = mishaps \cup {"lost"}
    /\ UNCHANGED <<text, run, staged, rTally, before, touched>>

RNext ==
    \/ \E v \in Versions, update \in BOOLEAN : BeginRules(v, update)
    \/ \E force \in BOOLEAN : BeginUndoRules(force)
    \/ RecordRules \/ WriteRules \/ UndoRules
    \/ EditText \/ KillRun \/ LoseLedger

RulesSpec == RInit /\ [][RNext]_rVars

-----------------------------------------------------------------------------
\* Properties.

\* The user's words in a text, in their order.
Said(t) ==
    LET said[k \in 0 .. Len(t)] ==
            IF k = 0 THEN <<>>
            ELSE IF t[k] \in {Mine, Former} THEN Append(said[k - 1], t[k]) ELSE said[k - 1]
    IN  said[Len(t)]
Own(t) == IF t = Absent THEN <<>> ELSE Said(t)

\* The user's words around the managed region, and those that are not on a
\* marker's line either.
Around(t) ==
    LET r == IF t = Absent THEN <<>> ELSE Between(t, ManagedStart, ManagedEnd)
    IN IF r = <<>> THEN Own(t) ELSE Own(Piece(t, 1, r[1]) \o Piece(t, r[2], Past(t)))
OutsideOf(t, p) ==
    IF p = Absent THEN Own(t)
    ELSE Own(p.pre \o p.mid \o (IF p.user = Absent THEN <<>> ELSE p.user) \o p.post)
OffMarkers(t) == OutsideOf(t, IF t = Absent THEN Absent ELSE Parts(t))

\* omm never takes the user's words out of AGENTS.md: whatever the edits
\* before, inside and after the markers, in whatever order install, update and
\* uninstall follow, every word outside the block is still there, in its order,
\* after a command writes the file as it found it, and the words inside a block
\* the ledger knows as well. An uninstall that finds
\* nothing left of a file the user had puts that file back; it takes what
\* stands on a marker's line; and with --force a file without markers may go.
WordsKept ==
    [][run.at \in {"write", "undo"} /\ run' # run /\ text' # text /\ text = run.read
        => IF run.at = "write"
           THEN IF run.known THEN Own(text') = Own(text) ELSE Around(text') = Around(text)
           ELSE \/ Own(text') = OffMarkers(text)
                \/ OffMarkers(text) = <<>>
                \/ run.force /\ Parts(text) = Absent]_rVars

\* Neither pair of omm's markers is in a file.
Unmarked(t) ==
    t = Absent \/ /\ Between(t, ManagedStart, ManagedEnd) = <<>>
                  /\ Between(t, UserStart, UserEnd) = <<>>

\* Install, any updates and uninstall together change nothing: when the user
\* did not edit the file meanwhile, uninstall leaves the file of before, byte
\* for byte, or none if there was none; so no block of omm's steers the host
\* any more. Not so when a command was killed between the ledger and the file;
\* and once the ledger was lost, a blank file may be gone. A file that had a
\* pair of the markers before omm came is taken for one of omm's.
RoundTrip ==
    [][run.at = "undo" /\ run' # run /\ entry' = Absent /\ ~touched /\ "torn" \notin mishaps
          /\ Unmarked(before)
        => \/ text' = before
           \/ "lost" \in mishaps /\ text' = Absent /\ Blank(before)]_rVars
=============================================================================
