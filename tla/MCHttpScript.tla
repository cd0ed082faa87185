---------------------------- MODULE MCHttpScript ----------------------------
(* Alphabets that bring out the cases in short scripts: listed targets and   *)
(* their names, headers and hosts, bodies with handlers, and variables.      *)
EXTENDS HttpScript

Target(shape, scheme, host) == [Plain(shape) EXCEPT !.scheme = scheme, !.host = host]

Post == Target("request", "", "named")

Full == Target("request", "http", "named")

Path == Target("request", "", "")

Listed == Target("bare", "", ":80")

Untitled == [Plain("separator") EXCEPT !.empty = TRUE]

Accept == [Plain("header") EXCEPT !.key = "Accept"]

Cookie == [Plain("header") EXCEPT !.key = "Cookie"]

Uses(line) == [line EXCEPT !.ref = "v"]

Declare == [Plain("variable") EXCEPT !.key = "v"]

MCAlphabets ==
  {{Listed, Full, Plain("name"), Plain("separator"), Plain("blank"), Accept, Plain("comment")},
   {Path, Post, Plain("host"), [Plain("host") EXCEPT !.host = ":80"], Accept, Cookie,
    Plain("blank"), Untitled},
   {Post, Plain("open"), Plain("close"), Plain("handler"), Plain("words"), Plain("blank"),
    Untitled, Plain("file")},
   {Declare, Uses(Declare), [Declare EXCEPT !.empty = TRUE], Uses([Post EXCEPT !.empty = TRUE]),
    Uses(Post), Uses(Plain("words")), Plain("blank"), Plain("separator")},
   {Uses(Accept), Declare, Target("bare", "https", "named"), Plain("blank"), Untitled,
    [Post EXCEPT !.proto = "HTTP/1.0"], [Post EXCEPT !.proto = "HTTP/9"],
    [Declare EXCEPT !.key = NoKey]}}
=============================================================================
