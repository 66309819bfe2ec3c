----------------------------- MODULE RoundTrip -----------------------------
(***************************************************************************)
(* From a program to a text and back: what the documentation's way of      *)
(* writing a program is read as, with comments and without, and what the   *)
(* text that Display makes of it is.                                       *)
(***************************************************************************)
EXTENDS Format

CONSTANT Programs

VARIABLES
  program,
  text,
  style,   \* how the text came about: "none", "written", "commented", "printed"
  read     \* what the parser made of it, or <<>>

vars == <<program, text, style, read>>

Init == program \in Programs /\ text = <<>> /\ style = "none" /\ read = <<>>

\* By hand, as the documentation writes it.
Write ==
  /\ style = "none"
  /\ text' = Fmt(program, TRUE) /\ style' = "written"
  /\ UNCHANGED <<program, read>>

\* Arguments in square brackets, where these end with the text.
Square ==
  /\ style = "written" /\ read = <<>>
  /\ \E i \in 1..Len(text) :
       /\ Is(<<text[i]>>, {"args"}) /\ text[i][2][1] = "("
       /\ LET cs == Append(Front(text[i][2][2]), "]")
          IN  ClosedAt("[", cs) = Len(cs) /\ text' = [text EXCEPT ![i] = Args("[", cs)]
  /\ UNCHANGED <<program, style, read>>

\* A comment after some line.
AddComment ==
  /\ style = "written" /\ read = <<>>
  /\ \E i \in 1..Len(text) :
       /\ text[i] = NL
       /\ text' = SubSeq(text, 1, i) \o <<Comment>> \o Drop(text, i)
  /\ style' = "commented"
  /\ UNCHANGED <<program, read>>

\* format!("{}", program)
Display ==
  /\ style = "none"
  /\ text' = Fmt(program, FALSE) /\ style' = "printed"
  /\ UNCHANGED <<program, read>>

Read ==
  /\ style # "none" /\ read = <<>>
  /\ read' = <<ParseProgram(text)>>
  /\ UNCHANGED <<program, text, style>>

Next == Write \/ Square \/ AddComment \/ Display \/ Read
Spec == Init /\ [][Next]_vars

---------------------------------------------------------------------------
(***************************************************************************)
(* What a text cannot say, written by hand or printed.                     *)
(***************************************************************************)
\* The steps of a pipeline and of the blocks in it.
RECURSIVE Steps(_)
Steps(p) ==
  LET blocks(s) ==
        CASE s.kind = "regular" -> {}
          [] s.kind = "foreach" -> {s.pipeline}
          [] s.kind = "if" -> {s.cond, s.then} \cup Range(s.else)
          [] s.kind = "dispatch" -> {b.pipeline : b \in Range(s.branches)} \cup Range(s.default)
          [] s.kind = "result" -> {b.pipeline : b \in Range(s.branches)}
  IN  Range(p) \cup UNION {UNION {Steps(q) : q \in blocks(s)} : s \in Range(p)}

\* A condition in parentheses right after the name, where they are taken for
\* those of arguments.
TakenForArgs(s, full) ==
  /\ s.kind = "regular" /\ s.args = <<>> /\ s.config = <<>> /\ s.cond # <<>>
  /\ Has(FmtTags(s.cond[1], full), "(")

Pipelines(p) ==
  UNION {{p[k][i].pipeline : i \in 1..Len(p[k])} : k \in {"pipeline", "query", "mutation", "resolver", "route"}}
  \cup Range(p.featureFlags)

\* A line of a test that says what the request has.
IsClause(t) ==
  \/ Has(t, "with") /\ ~Has(Tail(t), "mock")
  \/ Has(t, "and") /\ \E w \in {"with", "stdin", "args", "options"} : Has(Tail(t), w)

\* Where a comment is not looked for: in a config block, and in a test between
\* one of its mocks, clauses or conditions and the line after it, but for the
\* end of the clauses.
Unlooked(t, at) ==
  LET before == SubSeq(t, 1, at - 2)
      line == Drop(before, Max({j \in 1..Len(before) : before[j] = NL} \cup {0}))
      titles == {j \in 1..Len(before) : before[j] \in Range(Words(<<"describe", "it">>))}
      after == Skip(Drop(t, at))
  IN  \/ \E j \in 1..Len(before) : before[j] = W("{") /\ W("}") \notin Range(Drop(before, j))
      \/ /\ titles # {} /\ before[Max(titles)] = W("it")
         /\ Has(line, "with") \/ Has(line, "and")
         /\ after # <<>> /\ ~Has(after, "describe") /\ ~Has(after, "it")
         /\ ~(IsClause(line) /\ ~IsClause(after))

(***************************************************************************)
(* What Display can give back.                                             *)
(***************************************************************************)
\* A pipeline would take what follows it, were it that keyword: its last step
\* is a block that may go on with it.
RECURSIVE Takes(_, _)
Takes(p, keyword) ==
  p # <<>> /\
  LET s == Last(p)
      inner == CASE s.kind = "if" -> IF s.else = <<>> THEN s.then ELSE s.else[1]
                 [] s.kind = "dispatch" ->
                      IF s.default # <<>> THEN s.default[1]
                      ELSE IF s.branches # <<>> THEN Last(s.branches).pipeline ELSE <<>>
                 [] s.kind = "result" ->
                      IF s.branches # <<>> THEN Last(s.branches).pipeline ELSE <<>>
                 [] OTHER -> <<>>
  IN  \/ Takes(inner, keyword)
      \/ s.kind \in {"if", "dispatch"} /\ keyword \in {"|>", "end"}
      \/ s.kind = "if" /\ keyword = "else:" /\ s.else = <<>>
      \/ s.kind = "dispatch" /\ keyword \in {"case", "default:"} /\ s.default = <<>>

\* Chains of one operator lean to the left.
RECURSIVE Leaning(_)
Leaning(e) ==
  e.op # "tag" => Leaning(e.l) /\ Leaning(e.r) /\ e.r.op # e.op

RECURSIVE Closed(_)
Closed(p) ==
  /\ \A i \in 1..Len(p) - 1 : ~Takes(SubSeq(p, 1, i), "|>")
  /\ \A i \in 1..Len(p) :
       LET s == p[i] IN
       CASE s.kind = "regular" ->
              /\ \A j \in 1..Len(s.cond) : Leaning(s.cond[j])
              /\ (s.args # <<>> => Last(s.args) # <<>>)
              /\ ~TakenForArgs(s, FALSE)
         [] s.kind = "foreach" -> Closed(s.pipeline) /\ ~Takes(s.pipeline, "end")
         [] s.kind = "if" ->
              /\ Closed(s.cond) /\ Closed(s.then)
              /\ \A j \in 1..Len(s.else) : Closed(s.else[j]) /\ ~Takes(s.then, "else:")
         [] s.kind = "dispatch" ->
              /\ \A j \in 1..Len(s.branches) :
                   LET b == s.branches[j]
                   IN  /\ Leaning(b.when) /\ Closed(b.pipeline)
                       /\ (j < Len(s.branches) => ~Takes(b.pipeline, "case"))
                       /\ (j = Len(s.branches) /\ s.default # <<>> => ~Takes(b.pipeline, "default:"))
              /\ \A j \in 1..Len(s.default) : Closed(s.default[j])
         [] s.kind = "result" -> \A j \in 1..Len(s.branches) : Closed(s.branches[j].pipeline)

\* A test without bindings, with at most one with-clause, without targets that
\* have a kind, and with conditions whose values are one line and no attribute.
Plain(c) ==
  /\ \A i \in 1..Len(c.value) : c.value[i] # NL
  /\ ~(Len(c.about) > 2 /\ c.about[3] = W("attribute"))
PlainMocks(ms) == \A i \in 1..Len(ms) : ~(ms[i].target[1] = "dotted" /\ ms[i].target[2][1] \in Mockable)
PlainTest(t) ==
  /\ t.lets = <<>> /\ PlainMocks(t.mocks)
  /\ Cardinality({k \in WithKinds : t.with[k] # <<>>}) <= 1
  /\ \A i \in 1..Len(t.conditions) : Plain(t.conditions[i])

Displayable(p) ==
  /\ p.import = <<>>
  /\ \A q \in Pipelines(p) : Closed(q)
  /\ \A i \in 1..Len(p.describe) :
       LET d == p.describe[i]
       IN  d.lets = <<>> /\ PlainMocks(d.mocks) /\ \A j \in 1..Len(d.tests) : PlainTest(d.tests[j])

---------------------------------------------------------------------------
(***************************************************************************)
(* Properties                                                              *)
(***************************************************************************)
\* A program written by hand, every block with its `end', is read as that
\* program, however blocks and operators nest, if and only if no step without
\* arguments and configuration has a condition that begins with a parenthesis;
\* and only two imports of one name make it an error.
ReadsWritten ==
  style = "written" /\ read # <<>> =>
    IF \E i, j \in 1..Len(program.import) : i # j /\ program.import[i].alias = program.import[j].alias
      THEN ~read[1].ok
      ELSE /\ read[1].ok
           /\ read[1].v = program
              <=> \A p \in Pipelines(program) : \A s \in Steps(p) : ~TakenForArgs(s, TRUE)

\* A comment after any line leaves the program as it is if and only if it is
\* looked for there: not in a config block, and not in a test between one of its
\* mocks, clauses or conditions and the line after it, the end of the clauses aside.
CommentsHarmless ==
  style = "commented" /\ read # <<>> =>
    (read[1] = ParseProgram(SelectSeq(text, LAMBDA x : x # Comment))
     <=> ~Unlooked(text, CHOOSE i \in 1..Len(text) : text[i] = Comment))

=============================================================================
