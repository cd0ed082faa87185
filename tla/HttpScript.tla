----------------------------- MODULE HttpScript -----------------------------
(* The rest prober: pkg/http-parser reads a `.http` script line by line into *)
(* requests, and probers/rest sends them in order.  The writer of the same   *)
(* package, which turns recorded sessions into scripts, is here too.         *)
(*                                                                           *)
(* A line is its shape, what it refers to and its text.  The text of line n  *)
(* is <<n>>: two texts are the same only if they come from the same lines,   *)
(* and substituting a variable appends the text of the declaration.          *)
EXTENDS Integers, Sequences, SequencesExt

CONSTANTS
  Variables,    \* names that `@name = value` may declare
  Headers,      \* names of headers other than Host
  NoKey,        \* no variable and no header
  Alphabets,    \* sets of lines; a script is written with the lines of one
  MaxLines      \* bound: lines of a script

VARIABLES
  alphabet,     \* what the script is written with
  script,       \* the lines read so far
  parser,       \* requestParser
  phase,        \* "reading", "sending", "exporting" or "done"
  sent,         \* requests given to the client
  status,       \* RunStatus, once done
  artifact      \* the HAR recording

vars == <<alphabet, script, parser, phase, sent, status, artifact>>

-----------------------------------------------------------------------------
(* Lines *)

(* blank; separator: `###`; comment; name: `# @name N`; variable: `@v = x`;  *)
(* bare: a target alone; request: `VERB target [version]`; header, host:     *)
(* `Name: value`; words: text that is none of these; open: `> {%`; close:    *)
(* `%}`; handler: `> ./handler.js`; file: `< ./body.json`.                   *)
Shapes == {"blank", "separator", "comment", "name", "variable", "bare", "request",
           "header", "host", "words", "open", "close", "handler", "file"}

NoHost == [text |-> <<>>, cleartext |-> FALSE]

(* A target of this scheme cannot be parsed: it is what `%}` is in the place *)
(* of a request line.                                                        *)
Unparsable == "%}"

(* What an author may choose of a line.  An empty one has no text of its     *)
(* own: an untitled separator, `@v =`, or a target that is only `{{v}}`.     *)
(* A host may be absent, named, or named with the port 80.                   *)
Line == [shape : Shapes, key : Variables \cup Headers \cup {NoKey}, ref : Variables \cup {NoKey},
         empty : BOOLEAN, scheme : {"", "http", "https", Unparsable},
         host : {"", "named", ":80"}, proto : {"", "HTTP/1.0", "HTTP/9"}]

ASSUME HttpScriptAssumption ==
  /\ MaxLines \in Nat
  /\ NoKey \notin Variables \cup Headers
  /\ \A lines \in Alphabets : lines \subseteq Line

Plain(shape) ==
  [shape |-> shape, key |-> NoKey, ref |-> NoKey, empty |-> shape = "blank",
   scheme |-> IF shape = "close" THEN Unparsable ELSE "",
   host |-> IF shape = "host" THEN "named" ELSE "", proto |-> ""]

(* Line n of the script, as the parser gets it. *)
At(line, n) ==
  [shape |-> line.shape, key |-> line.key, ref |-> line.ref,
   text |-> IF line.empty THEN <<>> ELSE <<n>>,
   method |-> IF line.shape = "request" THEN "VERB" ELSE "",
   scheme |-> line.scheme,
   host |-> IF line.host = "" THEN NoHost
            ELSE [text |-> <<n>>, cleartext |-> line.host = ":80"],
   proto |-> line.proto]

-----------------------------------------------------------------------------
(* The parser *)

(* A second request line in the place of a header is one if it has a colon:  *)
(* `GET http://h/p` is a header of the name `GET http`.                      *)
RequestAsKey == "GET http"

HeaderKeys == Headers \cup {RequestAsKey}

NoTarget == [scheme |-> "", host |-> NoHost, path |-> <<>>]

(* Marks a variable that is not declared; no text is this one. *)
Undeclared == <<0>>

(* Mutation: the Host header outlives its request *)
ResetKeepsHost(p) ==
  [p EXCEPT !.state = "request line", !.requestLineNo = 0, !.name = <<>>, !.method = "",
            !.target = NoTarget, !.protoVersion = "",
            !.headers = [k \in HeaderKeys |-> <<>>], !.body = <<>>]

(* Everything but the requests, the variables and the handler *)
Reset(p) ==
  [p EXCEPT !.state = "request line", !.requestLineNo = 0, !.name = <<>>, !.method = "",
            !.target = NoTarget, !.protoVersion = "", !.hostHeader = NoHost,
            !.headers = [k \in HeaderKeys |-> <<>>], !.body = <<>>]

NewRequestParser ==
  [requests |-> <<>>, variables |-> [v \in Variables |-> Undeclared], lineNo |-> 0,
   state |-> "request line", inHandler |-> FALSE, requestLineNo |-> 0, name |-> <<>>,
   method |-> "", target |-> NoTarget, protoVersion |-> "",
   headers |-> [k \in HeaderKeys |-> <<>>], hostHeader |-> NoHost, body |-> <<>>,
   failed |-> 0]

(* An error names the line it was found on, and ends the reading. *)
Fail(p, n) == [p EXCEPT !.failed = n]

Expands(p, line) == line.ref = NoKey \/ p.variables[line.ref] # Undeclared

Expand(p, line) == IF line.ref = NoKey THEN line.text ELSE line.text \o p.variables[line.ref]

(* Where the request goes: the Host header stands in for a host the target   *)
(* does not name, and the port for a scheme.                                 *)
TargetURL(p) ==
  LET host == IF p.target.host = NoHost THEN p.hostHeader ELSE p.target.host
  IN  [scheme |-> IF p.target.scheme # "" THEN p.target.scheme
                  ELSE IF host.cleartext THEN "http" ELSE "https",
       host |-> host, path |-> p.target.path]

TrimBlankLines(lines) ==
  LET solid == {i \in DOMAIN lines : lines[i].shape # "blank"}
  IN  IF solid = {} THEN <<>> ELSE SubSeq(lines, Min(solid), Max(solid))

(* The request that the block has come to.  It is sent to the host of its    *)
(* URL and asks for its Host header; line is kept for the properties.        *)
Finished(p) ==
  [method |-> IF p.method = "" THEN "GET" ELSE p.method,
   url |-> TargetURL(p),
   host |-> IF p.hostHeader = NoHost THEN TargetURL(p).host ELSE p.hostHeader,
   proto |-> IF p.protoVersion = "" THEN "HTTP/1.1" ELSE p.protoVersion,
   headers |-> p.headers, body |-> TrimBlankLines(p.body), name |-> p.name,
   line |-> p.requestLineNo]

OnFinishRequest(p) ==
  CASE p.target.path = <<>> -> Reset(p)
    [] p.target.path # <<>>
       /\ \/ p.target.scheme = Unparsable
          \/ TargetURL(p).host = NoHost
          \/ p.protoVersion = "HTTP/9" -> Fail(p, p.requestLineNo)
    [] OTHER -> Reset([p EXCEPT !.requests = Append(@, Finished(p))])

(* Mutation: the title is set before the request above it is finished *)
TitleFirst(p, line) == OnFinishRequest([p EXCEPT !.name = line.text])

OnSeparator(p, line) ==
  LET q == OnFinishRequest(p)
  IN  IF q.failed # 0 THEN q ELSE [q EXCEPT !.name = line.text]

OnComment(p, line) == IF line.shape = "name" THEN [p EXCEPT !.name = line.text] ELSE p

OnVariable(p, line) ==
  IF p.state = "request line" /\ line.key # NoKey /\ Expands(p, line)
  THEN [p EXCEPT !.variables[line.key] = Expand(p, line)]
  ELSE Fail(p, p.lineNo)

OnRequestLine(p, line) ==
  IF line.shape \in {"bare", "request", "close"} /\ Expands(p, line)
  THEN [p EXCEPT !.requestLineNo = p.lineNo, !.method = line.method,
                 !.protoVersion = line.proto, !.state = "headers",
                 !.target = [scheme |-> line.scheme, host |-> line.host,
                             path |-> Expand(p, line)]]
  ELSE Fail(p, p.lineNo)

IsHeader(line) ==
  \/ line.shape \in {"header", "host"}
  \/ line.shape = "request" /\ (line.scheme # "" \/ line.host.cleartext)

OnHeaderLine(p, line) ==
  CASE ~IsHeader(line) \/ ~Expands(p, line) -> Fail(p, p.lineNo)
    [] line.shape = "host" /\ Expands(p, line) ->
         [p EXCEPT !.hostHeader = [line.host EXCEPT !.text = Expand(p, line)]]
    [] OTHER ->
         [p EXCEPT !.headers[IF line.shape = "header" THEN line.key ELSE RequestAsKey] =
            Append(@, Expand(p, line))]

(* Lines of a body are kept as they are, whatever they would be elsewhere. *)
OnBodyLine(p, line) ==
  CASE line.shape = "separator" -> OnSeparator(p, line)
    [] line.shape \in {"open", "handler"} -> [p EXCEPT !.inHandler = line.shape = "open"]
    [] line.shape = "file" -> Fail(p, p.lineNo)
    [] OTHER -> IF Expands(p, line)
                THEN [p EXCEPT !.body =
                        Append(@, [line EXCEPT !.text = Expand(p, line), !.ref = NoKey])]
                ELSE Fail(p, p.lineNo)

IsShortForm(p) ==
  p.method = "" /\ p.hostHeader = NoHost /\ \A k \in HeaderKeys : p.headers[k] = <<>>

StartsShortFormRequest(line) == line.shape \in {"bare", "close"}

OnBlankLine(p) ==
  CASE p.state # "headers" -> p
    [] p.state = "headers" /\ IsShortForm(p) -> OnFinishRequest(p)
    [] OTHER -> [p EXCEPT !.state = "body"]

(* Outside a body. *)
OnHeadLine(p, line) ==
  CASE line.shape = "separator" -> OnSeparator(p, line)
    [] line.shape = "blank" -> OnBlankLine(p)
    [] line.shape \in {"comment", "name"} -> OnComment(p, line)
    [] line.shape = "variable" -> OnVariable(p, line)
    [] OTHER ->
         CASE p.state = "request line" -> OnRequestLine(p, line)
           [] p.state = "headers" /\ StartsShortFormRequest(line) ->
                LET q == OnFinishRequest(p)
                IN  IF q.failed # 0 THEN q ELSE OnRequestLine(q, line)
           [] OTHER -> OnHeaderLine(p, line)

OnLine(before, line) ==
  LET p == [before EXCEPT !.lineNo = @ + 1]
  IN  CASE p.inHandler -> [p EXCEPT !.inHandler = line.shape # "close"]
        [] ~p.inHandler /\ p.state = "body" -> OnBodyLine(p, line)
        [] OTHER -> OnHeadLine(p, line)

(* A whole script at once. *)
Parse(lines) ==
  LET Step(p, line) == IF p.failed # 0 THEN p ELSE OnLine(p, line)
      read == FoldLeft(Step, NewRequestParser, lines)
  IN  IF read.failed # 0 THEN read ELSE OnFinishRequest(read)

-----------------------------------------------------------------------------
(* The writer *)

Written(shape, text) == [At(Plain(shape), 0) EXCEPT !.text = text]

(* The values of a header are written as one. *)
HeaderLines(q) ==
  LET keys == SetToSeq({k \in HeaderKeys : q.headers[k] # <<>>})
  IN  [i \in DOMAIN keys |->
         [Written("header", FlattenSeq(q.headers[keys[i]])) EXCEPT !.key = keys[i]]]

(* Mutation: a path and a Host header instead of the absolute form *)
MarshalPathForm(q) ==
  (IF q.name # <<>> THEN <<Written("name", q.name)>> ELSE <<>>)
  \o <<[Written("request", q.url.path) EXCEPT !.method = q.method, !.proto = q.proto],
       [Written("host", q.host.text) EXCEPT !.host = q.host]>>
  \o HeaderLines(q)
  \o (IF q.body # <<>> THEN <<Written("blank", <<>>)>> \o q.body ELSE <<>>)

(* The absolute form, since a path has nowhere to put the scheme *)
MarshalRequest(q) ==
  (IF q.name # <<>> THEN <<Written("name", q.name)>> ELSE <<>>)
  \o <<[Written("request", q.url.path) EXCEPT
          !.method = q.method, !.scheme = q.url.scheme, !.host = q.url.host, !.proto = q.proto]>>
  \o (IF q.host # q.url.host
      THEN <<[Written("host", q.host.text) EXCEPT !.host = q.host]>> ELSE <<>>)
  \o HeaderLines(q)
  \o (IF q.body # <<>> THEN <<Written("blank", <<>>)>> \o q.body ELSE <<>>)

Marshal(requests) ==
  FlattenSeq([i \in DOMAIN requests |->
                MarshalRequest(requests[i])
                  \o IF i = Len(requests) THEN <<>> ELSE <<Written("separator", <<>>)>>])

-----------------------------------------------------------------------------
(* The prober *)

NoArtifact == [made |-> FALSE, entries |-> <<>>]

ReadLine ==
  /\ phase = "reading" /\ parser.failed = 0 /\ Len(script) < MaxLines
  /\ \E line \in alphabet :
       /\ script' = Append(script, line)
       /\ parser' = OnLine(parser, At(line, Len(script) + 1))
  /\ UNCHANGED <<alphabet, phase, sent, status, artifact>>

Requests == IF parser.failed # 0 THEN parser ELSE OnFinishRequest(parser)

(* No request of a script is sent if any of its lines is in error. *)
ParseFails ==
  /\ phase = "reading" /\ Requests.failed # 0
  /\ parser' = Requests
  /\ phase' = "done" /\ status' = "errored"
  /\ UNCHANGED <<alphabet, script, sent, artifact>>

ParseSucceeds ==
  /\ phase = "reading" /\ Requests.failed = 0
  /\ parser' = Requests
  /\ phase' = "sending"
  /\ UNCHANGED <<alphabet, script, sent, status, artifact>>

(* The recorder or the client fails, before or after the request goes out. *)
SendFails(goesOut) ==
  /\ phase = "sending" /\ Len(sent) < Len(parser.requests)
  /\ sent' = IF goesOut THEN Append(sent, parser.requests[Len(sent) + 1]) ELSE sent
  /\ phase' = "done" /\ status' = "errored"
  /\ UNCHANGED <<alphabet, script, parser, artifact>>

(* The client takes no header whose name is not a token. *)
ClientAccepts(q) == q.headers[RequestAsKey] = <<>>

Send(answer) ==
  /\ phase = "sending" /\ Len(sent) < Len(parser.requests)
  /\ LET q == parser.requests[Len(sent) + 1]
     IN  ClientAccepts(q) /\ sent' = Append(sent, q)
  /\ \/ answer = "below 400" /\ UNCHANGED <<phase, status>>
     \/ answer = "400 or above" /\ phase' = "exporting" /\ status' = "failed"
  /\ UNCHANGED <<alphabet, script, parser, artifact>>

AllSent ==
  /\ phase = "sending" /\ Len(sent) = Len(parser.requests)
  /\ phase' = "exporting" /\ status' = "success"
  /\ UNCHANGED <<alphabet, script, parser, sent, artifact>>

Export(serialized) ==
  /\ phase = "exporting"
  /\ phase' = "done"
  /\ artifact' = IF serialized THEN [made |-> TRUE, entries |-> sent] ELSE NoArtifact
  /\ status' = IF serialized THEN status ELSE "errored"
  /\ UNCHANGED <<alphabet, script, parser, sent>>

Init ==
  /\ alphabet \in Alphabets
  /\ script = <<>>
  /\ parser = NewRequestParser
  /\ phase = "reading"
  /\ sent = <<>>
  /\ status = "running"
  /\ artifact = NoArtifact

Next ==
  \/ ReadLine \/ ParseFails \/ ParseSucceeds
  \/ \E goesOut \in BOOLEAN : SendFails(goesOut)
  \/ \E answer \in {"below 400", "400 or above"} : Send(answer)
  \/ AllSent
  \/ \E serialized \in BOOLEAN : Export(serialized)

Spec == Init /\ [][Next]_vars

-----------------------------------------------------------------------------
(* What a script says, without reading it line by line *)

LinesOf == 1 .. Len(script)

(* Line i is skipped with a response handler: one was opened above it, and   *)
(* not closed since.                                                         *)
Handled(i) ==
  \E j \in 1 .. i - 1 :
    script[j].shape = "open" /\ \A m \in j + 1 .. i - 1 : script[m].shape # "close"

Is(i, shapes) == script[i].shape \in shapes /\ ~Handled(i)

FirstAfter(i, shapes) == Min({m \in i + 1 .. Len(script) : Is(m, shapes)} \cup {Len(script) + 1})

(* What follows the request line i: its headers, up to a blank line, the     *)
(* next target or a separator; and after a blank line its body, up to a      *)
(* separator, unless it is nothing but a target.                             *)
HeadEnd(i) == FirstAfter(i, {"blank", "separator", "bare", "close"})

HeadLines(i) == i + 1 .. HeadEnd(i) - 1

OnlyTarget(i) ==
  script[i].shape # "request" /\ \A m \in HeadLines(i) : ~Is(m, {"header", "host", "request"})

BodyLines(i) ==
  IF HeadEnd(i) \in LinesOf /\ Is(HeadEnd(i), {"blank"}) /\ ~OnlyTarget(i)
  THEN HeadEnd(i) + 1 .. FirstAfter(i, {"separator"}) - 1 ELSE {}

(* The request lines are those that no other request has taken. *)
Opens ==
  LET opens[i \in LinesOf] ==
        /\ Is(i, {"bare", "request", "close"})
        /\ \A j \in 1 .. i - 1 : opens[j] => i \notin HeadLines(j) \cup BodyLines(j)
  IN  {i \in LinesOf : opens[i]}

(* A reference stands for the last declaration above it that is not part of  *)
(* a body.                                                                   *)
TextOf(n) ==
  LET taken == UNION {BodyLines(i) : i \in Opens}
      text[i \in LinesOf] ==
        At(script[i], i).text
          \o IF script[i].ref = NoKey THEN <<>>
             ELSE text[Max({d \in 1 .. i - 1 : /\ Is(d, {"variable"}) /\ d \notin taken
                                               /\ script[d].key = script[i].ref})]
  IN  text[n]

InOrder(lines) == SelectSeq([i \in LinesOf |-> i], LAMBDA i : i \in lines)

(* The last of some lines gives what is asked of the request, if any. *)
LastText(lines) == IF lines = {} THEN <<>> ELSE TextOf(Max(lines))

NameLines(i) ==
  LET from == Max({0} \cup {m \in 1 .. i : Is(m, {"separator"})}
                  \cup {HeadEnd(j) : j \in {k \in Opens : HeadEnd(k) <= i}})
  IN  {m \in LinesOf : from <= m /\ m < HeadEnd(i) /\ Is(m, {"name", "separator"})}

Payload(i) ==
  LET kept == {m \in BodyLines(i) : ~Handled(m) /\ script[m].shape \notin {"open", "handler"}}
      solid == {m \in kept : script[m].shape # "blank"}
  IN  {m \in kept : \E a, b \in solid : a <= m /\ m <= b}

KeyOf(i) == IF script[i].shape = "header" THEN script[i].key ELSE RequestAsKey

AsWritten(i) ==
  [line |-> i,
   path |-> TextOf(i),
   name |-> LastText(NameLines(i)),
   asked |-> LastText({m \in HeadLines(i) : Is(m, {"host"})}),
   headers |-> [k \in HeaderKeys |->
                  LET lines == InOrder({m \in HeadLines(i) :
                                          Is(m, {"header", "request"}) /\ KeyOf(m) = k})
                  IN  [n \in DOMAIN lines |-> TextOf(lines[n])]],
   body |-> LET lines == InOrder(Payload(i))
            IN  [n \in DOMAIN lines |-> TextOf(lines[n])]]

(* The same of a request that was read. *)
Parts(q) ==
  [line |-> q.line, path |-> q.url.path, name |-> q.name,
   asked |-> IF q.host.text = <<q.line>> THEN <<>> ELSE q.host.text,
   headers |-> q.headers, body |-> [n \in DOMAIN q.body |-> q.body[n].text]]

-----------------------------------------------------------------------------
(* Properties *)

(* What goes out is what the script says, in its order: every request has    *)
(* its own headers, host, name and body, all of its lines and no other's,    *)
(* with the variables declared last above them.  A success has sent every    *)
(* request but those whose target came to nothing; a script in error sends   *)
(* none; and the recording is of what was sent.                              *)
SendsAsWritten ==
  /\ parser.failed # 0 => sent = <<>>
  /\ phase \in {"exporting", "done"} /\ parser.failed = 0 =>
       LET lines == InOrder({i \in Opens : TextOf(i) # <<>>})
           written == [n \in DOMAIN lines |-> AsWritten(lines[n])]
           out == [n \in DOMAIN sent |-> Parts(sent[n])]
       IN  IF status = "success" THEN out = written ELSE IsPrefix(out, written)
  /\ artifact.made => artifact.entries = sent

(* What Marshal writes parses back into the same requests, but that the      *)
(* values of a repeated header have become one.                              *)
RoundTrips ==
  phase = "sending" /\ sent = <<>> =>
    LET again == Parse(Marshal(parser.requests))
        Joined(q) == [q EXCEPT !.line = 0,
                               !.headers = [k \in HeaderKeys |->
                                              IF q.headers[k] = <<>> THEN <<>>
                                              ELSE <<FlattenSeq(q.headers[k])>>]]
    IN  /\ again.failed = 0
        /\ [n \in DOMAIN again.requests |-> [again.requests[n] EXCEPT !.line = 0]]
             = [n \in DOMAIN parser.requests |-> Joined(parser.requests[n])]
=============================================================================
