--------------------------------- MODULE Mcp ---------------------------------
(***************************************************************************)
(* `omm mcp` (omm/src/cmd/mcp.rs and mcp_wire.rs): the server the host     *)
(* starts for a session. It reads frames from a pipe, either one JSON      *)
(* document on a line or a Content-Length block, and answers each request  *)
(* in the framing it came in, one after the other, until the pipe ends.    *)
(*                                                                         *)
(* The client writes as it likes, ahead of the answers, and may send       *)
(* frames that are too large, blocks whose header lies, or half a frame    *)
(* before it goes. The trace file is left out.                             *)
(***************************************************************************)
EXTENDS Naturals, Sequences, FiniteSets

CONSTANTS
    Payloads,   \* what a frame may hold
    Limit,      \* the largest frame, in bytes
    HeaderMax,  \* the most further headers of a block
    NotANumber, \* a declared length that does not parse
    MaxSends    \* bound: frames the client sends

\* A document: the fields the server looks at. An id is missing, null, the
\* frame's own, or of another type.
Documents ==
    [json : BOOLEAN, object : BOOLEAN, id : {"missing", "null", "own", "bad"},
     version : BOOLEAN, method : {"list", "note", "call", "unknown", "missing"},
     params : {"missing", "object", "array", "scalar"},
     name : BOOLEAN, arguments : {"missing", "object", "scalar"},
     tool : {"doctor", "cost", "unknown"}, argsOk : BOOLEAN]
ASSUME McpAssumption ==
    /\ Payloads \subseteq Documents
    /\ Limit \in Nat /\ Limit >= 2 /\ HeaderMax \in Nat /\ MaxSends \in Nat
    /\ NotANumber \notin Nat

VARIABLES
    input,  \* the items in the pipe: text, its bytes, and whether a newline ends it
    peer,   \* the client: frames sent, the write end closed, the read end closed
    server, \* what the server is at
    output, \* the replies, in order
    \* History.
    frames  \* the frames sent: document, framing, size, headers; honest or not

mVars == <<input, peer, server, output, frames>>

Junk == [is |-> "junk"]
Item(t, n, nl) == [text |-> t, len |-> n, nl |-> nl]
Blank == Item([is |-> "blank"], 0, TRUE)
Doc(m, id) == [is |-> "doc", doc |-> m, own |-> id]
Header(n) == Item([is |-> "length", n |-> n], 2, TRUE)
Field == Item([is |-> "field"], 2, TRUE)

Reply(id, what, framing) == [id |-> id, what |-> what, framing |-> framing]

-----------------------------------------------------------------------------
\* Reading the pipe.

Weight(item) == item.len + IF item.nl THEN 1 ELSE 0
\* The bytes up to and with each item.
Upto(items) ==
    LET upto[k \in 0 .. Len(items)] == IF k = 0 THEN 0 ELSE upto[k - 1] + Weight(items[k])
    IN  upto
Bytes(items) == Upto(items)[Len(items)]

\* The items of the next line: up to a newline, or all there are at the end.
LineEnd ==
    IF \E i \in 1 .. Len(input) : input[i].nl
    THEN CHOOSE i \in 1 .. Len(input) : input[i].nl /\ \A j \in 1 .. i - 1 : ~input[j].nl
    ELSE Len(input)
LineThere == peer.closed \/ \E i \in 1 .. Len(input) : input[i].nl
Line == SubSeq(input, 1, LineEnd)
AfterLine == SubSeq(input, LineEnd + 1, Len(input))

\* Its text: whatever several items make together is nothing known.
TextOf(items) ==
    LET said == {i \in DOMAIN items : items[i].text.is # "blank"}
    IN  IF said = {} THEN Blank.text
        ELSE IF \E i \in said : said = {i} THEN items[CHOOSE i \in said : TRUE].text ELSE Junk

LineBytes == Bytes(Line) - IF Line[LineEnd].nl THEN 1 ELSE 0
TooLong == LineBytes > Limit

\* The pipe without its first n bytes: what is cut is nothing known.
Cut(item, n) == IF n = item.len THEN Blank ELSE Item(Junk, item.len - n, item.nl)
Drop(items, n) ==
    LET whole == CHOOSE k \in 0 .. Len(items) :
                     /\ Upto(items)[k] <= n
                     /\ k < Len(items) => Upto(items)[k + 1] > n
        over  == n - Upto(items)[whole]
        rest  == SubSeq(items, whole + 1, Len(items))
    IN  IF over = 0 \/ rest = <<>> THEN rest ELSE [rest EXCEPT ![1] = Cut(@, over)]

\* The text of the first n bytes.
TextOfBytes(n) ==
    LET i == Head(input) IN
    IF n = 0 THEN Blank.text
    ELSE IF n \in {i.len, Weight(i)} THEN i.text ELSE Junk

-----------------------------------------------------------------------------
\* Decoding and answering.

IdOf(text) ==
    IF text.is = "doc" /\ text.doc.id = "own" THEN text.own ELSE 0

\* The error a frame earns, with the id it is answered with, or none.
Invalid(text) ==
    CASE text.is # "doc" \/ ~text.doc.json         -> Reply(0, "parse error", "line")
      [] text.is = "doc" /\ text.doc.json /\ (~text.doc.object \/ text.doc.id = "bad")
                                                   -> Reply(0, "invalid request", "line")
      [] OTHER -> Reply(IdOf(text), "invalid request", "line")

Valid(text) ==
    /\ text.is = "doc" /\ text.doc.json /\ text.doc.object /\ text.doc.id # "bad"
    /\ text.doc.version /\ text.doc.method # "missing" /\ text.doc.params # "scalar"

Call(m) == m.method = "call"
\* The parameters a call has to have before a tool is looked for.
GoodParams(m) ==
    m.params = "object" /\ m.name /\ m.arguments # "scalar"

\* The server: what it is at, the block it reads, the frame it answers.
At(step) ==
    [at |-> step, framing |-> "line", length |-> 0, headers |-> 0,
     reply |-> Reply(0, "none", "line"), doc |-> <<>>]

Sends(reply, framing) ==
    server' = [At("send") EXCEPT !.reply = [reply EXCEPT !.framing = framing]]

\* One decoded frame: a call runs its tool; a notification gets no answer.
Handle(text, framing) ==
    CASE ~Valid(text) -> Sends(Invalid(text), framing)
      [] Valid(text) /\ text.doc.id = "missing" -> server' = At("read")
      [] Valid(text) /\ text.doc.id # "missing" /\ Call(text.doc) /\ GoodParams(text.doc) ->
            server' = [At("tool") EXCEPT !.framing = framing, !.doc = text.doc,
                                         !.reply = Reply(IdOf(text), "result", framing)]
      [] Valid(text) /\ text.doc.id # "missing" /\ ~(Call(text.doc) /\ GoodParams(text.doc)) ->
            Sends(Reply(IdOf(text),
                        CASE Call(text.doc) -> "invalid params"
                          [] text.doc.method \in {"unknown", "note"} -> "method not found"
                          [] text.doc.method = "list" -> "result", framing), framing)

TooLarge(framing) == Sends(Reply(0, "invalid request", framing), framing)
BadHeader == Sends(Reply(0, "invalid request", "block"), "block")

Rest == UNCHANGED <<peer, output, frames>>

\* The first line of a frame.
ReadLine ==
    /\ server.at = "read" /\ LineThere
    /\ input' = AfterLine
    /\ LET text == TextOf(Line)
       IN  CASE Line = <<>> -> server' = At("over")
             [] Line # <<>> /\ TooLong -> TooLarge("line")
             [] Line # <<>> /\ ~TooLong ->
                  CASE text.is = "blank" -> UNCHANGED server
                    [] text.is = "length" ->
                         IF text.n = NotANumber THEN BadHeader
                         ELSE server' = [At("headers") EXCEPT !.length = text.n]
                    [] OTHER -> Handle(text, "line")
    /\ Rest

\* A further header, or the blank line before the body.
ReadHeader ==
    /\ server.at = "headers" /\ LineThere
    /\ input' = AfterLine
    /\ CASE Line = <<>> -> server' = At("over")
         [] Line # <<>> /\ TooLong -> TooLarge("block")
         [] Line # <<>> /\ ~TooLong ->
              IF TextOf(Line).is = "blank" THEN server' = [server EXCEPT !.at = "body"]
              ELSE IF server.headers + 1 > HeaderMax THEN BadHeader
              ELSE server' = [server EXCEPT !.headers = @ + 1]
    /\ Rest

\* The bytes the header declared. A body that is too large is read past; one
\* that ends early is the end.
ReadBody ==
    /\ server.at = "body"
    /\ peer.closed \/ Bytes(input) >= server.length
    /\ input' = Drop(input, server.length)
    /\ IF server.length > Limit THEN TooLarge("block")
       ELSE IF Bytes(input) < server.length THEN server' = At("over")
       ELSE Handle(TextOfBytes(server.length), "block")
    /\ Rest

\* A tool that is not there, wrong arguments and a failing tool are results.
RunTool(ok) ==
    /\ server.at = "tool"
    /\ LET known == server.doc.tool # "unknown" /\ (server.doc.argsOk \/ server.doc.arguments = "missing")
       IN  Sends([server.reply EXCEPT !.what = IF known /\ ok THEN "result" ELSE "tool error"],
                 server.framing)
    /\ UNCHANGED <<input, peer, output, frames>>

\* Mutant of Send: every answer is a line.
SendLines ==
    /\ server.at = "send"
    /\ IF peer.gone THEN server' = At("over") /\ UNCHANGED output
       ELSE server' = At("read")
            /\ output' = Append(output, [server.reply EXCEPT !.framing = "line"])
    /\ UNCHANGED <<input, peer, frames>>

Send ==
    /\ server.at = "send"
    /\ IF peer.gone THEN server' = At("over") /\ UNCHANGED output
       ELSE server' = At("read") /\ output' = Append(output, server.reply)
    /\ UNCHANGED <<input, peer, frames>>

-----------------------------------------------------------------------------
\* The client.

Puts(items, frame) ==
    /\ ~peer.closed /\ peer.sent < MaxSends
    /\ input' = input \o items
    /\ peer' = [peer EXCEPT !.sent = @ + 1]
    /\ frames' = Append(frames, frame)
    /\ UNCHANGED <<server, output>>

\* A frame with its own id, and the items it is written as: a line, or a block
\* with its declared length and other headers before the body.
Frame(m, framing, size, fields, honest) ==
    [doc |-> Doc(m, peer.sent + 1), framing |-> framing, size |-> size, fields |-> fields,
     honest |-> honest]
Encoded(f, declared) ==
    IF f.framing = "line" THEN <<Item(f.doc, f.size, TRUE)>>
    ELSE [j \in 1 .. f.fields + 3 |->
            CASE j = 1 -> Header(declared)
              [] j \in 2 .. f.fields + 1 -> Field
              [] j = f.fields + 2 -> Blank
              [] j = f.fields + 3 -> Item(f.doc, f.size, FALSE)]

PutLine(m, size) ==
    LET f == Frame(m, "line", size, 0, TRUE) IN Puts(Encoded(f, size), f)

\* A block: its length true, a byte short or long, or no number; its headers
\* as many as allowed, or one more.
PutBlock(m, size, declared, fields) ==
    LET f == Frame(m, "block", size, fields, declared = size /\ fields <= HeaderMax)
    IN  Puts(Encoded(f, declared), f)

\* The client goes in the middle of a frame.
PutHalf(m) ==
    /\ ~peer.closed /\ peer.sent < MaxSends
    /\ input' = input \o <<Header(2), Blank>>
    /\ peer' = [peer EXCEPT !.sent = @ + 1, !.closed = TRUE]
    /\ UNCHANGED <<server, output, frames>>

Close == ~peer.closed /\ peer' = [peer EXCEPT !.closed = TRUE]
         /\ UNCHANGED <<input, server, output, frames>>
HangUp == peer.closed /\ ~peer.gone /\ peer' = [peer EXCEPT !.gone = TRUE]
          /\ UNCHANGED <<input, server, output, frames>>

MInit ==
    /\ input = <<>> /\ output = <<>> /\ frames = <<>>
    /\ peer = [sent |-> 0, closed |-> FALSE, gone |-> FALSE]
    /\ server = At("read")

MStep == ReadLine \/ ReadHeader \/ ReadBody \/ (\E ok \in BOOLEAN : RunTool(ok)) \/ Send

MNext ==
    \/ MStep
    \/ \E m \in Payloads :
        \/ \E size \in {2, Limit + 1} : PutLine(m, size)
        \/ \E size \in {2, Limit + 1}, fields \in 0 .. HeaderMax + 1 : PutBlock(m, size, size, fields)
        \/ \E declared \in {1, 3} : PutBlock(m, 2, declared, HeaderMax)
        \/ PutBlock(m, 2, NotANumber, 0)
        \/ PutHalf(m)
    \/ Close \/ HangUp

-----------------------------------------------------------------------------
\* Properties.

McpSpec == MInit /\ [][MNext]_mVars

\* The frames that are answered: all but notifications; and with which id.
Answerable(f) == f.size > Limit \/ ~Valid(f.doc) \/ f.doc.doc.id # "missing"
DueId(f) ==
    IF f.size > Limit THEN 0 ELSE IF Valid(f.doc) THEN IdOf(f.doc) ELSE Invalid(f.doc).id

Requests == {i \in 1 .. Len(frames) : Answerable(frames[i])}
\* The place of its answer among the answers.
Rank(i) == Cardinality({j \in 1 .. i : Answerable(frames[j])})

Suits(reply, f) == reply.id = DueId(f) /\ reply.framing = f.framing

Honest == \A i \in 1 .. Len(frames) : frames[i].honest

\* A client whose blocks say their true length gets one answer per request, in
\* the order and the framing of the requests, with their ids, whatever it sent
\* ahead and however large; and all of them before the server goes.
EachAnswered ==
    Honest =>
        /\ \A n \in 1 .. Len(output) :
              \E i \in Requests : Rank(i) = n /\ Suits(output[n], frames[i])
        /\ server.at = "over" /\ ~peer.gone => Len(output) = Cardinality(Requests)
=============================================================================
