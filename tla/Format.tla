------------------------------- MODULE Format -------------------------------
(***************************************************************************)
(* A program as text: how Display writes it (src/src/ast/fmt.rs), and how  *)
(* the documentation does.  With `full', the second: imports, bindings     *)
(* before `when', blocks with their `end', values in quotation marks,      *)
(* later clauses with `and'.                                               *)
(***************************************************************************)
EXTENDS Syntax

Concat(ss) == FoldLeft(LAMBDA a, b : a \o b, <<>>, ss)
Each(F(_), s) == Concat([i \in 1..Len(s) |-> F(s[i])])
Lines(F(_), s) == Each(LAMBDA x : F(x) \o <<NL>>, s)

---------------------------------------------------------------------------

\* An `or' in an `and' is put in parentheses, and nothing else is.
Parenthesized(e, text) == IF e.op = "or" THEN Words(<<"(">>) \o text \o Words(<<")">>) ELSE text

RECURSIVE FmtTags(_, _)
FmtTags(e, full) ==
  LET side(x) == IF full /\ x.op # "tag" THEN Words(<<"(">>) \o FmtTags(x, full) \o Words(<<")">>)
                 ELSE IF e.op = "and" THEN Parenthesized(x, FmtTags(x, full))
                 ELSE FmtTags(x, full)
  IN  IF e.op = "tag" THEN <<Tag(e.tag)>> ELSE side(e.l) \o Words(<<e.op>>) \o side(e.r)

\* join(", "); an empty last argument shows only if a comma follows it.
FmtArgs(args, full) ==
  LET joined == Concat([i \in 1..Len(args) |-> (IF i = 1 THEN <<>> ELSE <<",", " ">>) \o args[i]])
  IN  IF args = <<>> THEN <<>>
      ELSE <<Args("(", joined \o (IF full /\ Last(args) = <<>> THEN <<",">> ELSE <<>>) \o <<")">>)>>

RECURSIVE FmtStep(_, _), FmtPipeline(_, _)
FmtPipeline(p, full) ==
  Concat([i \in 1..Len(p) |-> (IF i = 1 THEN <<>> ELSE <<NL>>) \o FmtStep(p[i], full)])

\* Only foreach is closed.
FmtStep(s, full) ==
  LET block(keyword, p) == Words(<<keyword>>) \o <<NL>> \o Lines(LAMBDA x : FmtStep(x, full), p)
      end == IF full THEN Words(<<"end">>) ELSE <<>>
  IN  CASE s.kind = "regular" ->
             Words(<<"|>", s.name>>) \o FmtArgs(s.args, full)
             \o (IF s.config = <<>> THEN <<>> ELSE <<W(":"), s.config[1]>>)
             \o (IF s.cond = <<>> THEN <<>> ELSE FmtTags(s.cond[1], full))
        [] s.kind = "if" ->
             Words(<<"|>", "if">>) \o <<NL>> \o Lines(LAMBDA x : FmtStep(x, full), s.cond)
             \o block("then:", s.then) \o Each(LAMBDA p : block("else:", p), s.else) \o end
        [] s.kind = "dispatch" ->
             Words(<<"|>", "dispatch">>) \o <<NL>>
             \o Each(LAMBDA b : Words(<<"case">>) \o FmtTags(b.when, full) \o block(":", b.pipeline),
                     s.branches)
             \o Each(LAMBDA p : block("default:", p), s.default) \o end
        [] s.kind = "foreach" ->
             Words(<<"|>", "foreach">>) \o s.selector \o <<NL>>
             \o Lines(LAMBDA x : FmtStep(x, full), s.pipeline) \o Words(<<"end">>)
        [] s.kind = "result" ->
             Words(<<"|>", "result">>) \o <<NL>>
             \o Each(LAMBDA b : <<Branch(b.head), NL>> \o FmtPipeline(b.pipeline, full) \o <<NL>>,
                     s.branches)

---------------------------------------------------------------------------
FmtLet(l, full) == Words(<<"let", l.name, "=">>) \o <<l.value>>

\* Display keeps the dot between the kind of a target and its name.
FmtMock(m, full) ==
  Words(<<"with", "mock">>)
  \o (IF full /\ m.target[1] = "dotted" /\ m.target[2][1] \in Mockable THEN Words(m.target[2])
      ELSE <<m.target>>)
  \o Words(<<"returning">>) \o <<m.value>>

FmtWhen(w) ==
  IF w[1] = "calling" THEN Words(<<"calling">>) \o Tail(w)
  ELSE Words(<<"executing", w[1]>>) \o Tail(w)

\* Every clause of these begins with `with'; the script's with `and'.
WithOrder == <<"input", "body", "headers", "cookies">>
ScriptOrder == <<<<"stdin", "is">>, <<"args", "are">>, <<"options", "are">>>>
FmtClauses(w, full) ==
  LET given == SelectSeq(WithOrder, LAMBDA k : w[k] # <<>>)
      with(i) == Words(IF full /\ i > 1 THEN <<"and", "with", given[i]>> ELSE <<"with", given[i]>>)
                 \o <<Back(w[given[i]][1]), NL>>
  IN  Concat([i \in 1..Len(given) |-> with(i)])
      \o Each(LAMBDA k : IF w[k[1]] = <<>> THEN <<>>
                         ELSE Words(<<"and">> \o k)
                              \o <<IF k[1] = "stdin" THEN Quote(w[k[1]][1]) ELSE Back(w[k[1]][1]), NL>>,
              ScriptOrder)

\* The value as it is, without the quotation it was read from.
FmtCondition(c, full) ==
  LET bare == c.value = <<>> \/ Is(c.value, {"quote", "number"})
  IN  Words(<<"and">>) \o c.about \o c.comparison
      \o (IF full /\ ~bare THEN <<Back(c.value)>> ELSE c.value)

\* Bindings come after `when', where they are not read.
FmtIt(t, full) ==
  LET lets == Lines(LAMBDA l : FmtLet(l, full), t.lets)
      when == Words(<<"when">>) \o FmtWhen(t.when) \o <<NL>>
  IN  Words(<<"it">>) \o <<Quote(t.name), NL>> \o Lines(LAMBDA m : FmtMock(m, full), t.mocks)
      \o (IF full THEN lets \o when ELSE when \o lets)
      \o FmtClauses(t.with, full) \o Lines(LAMBDA c : FmtCondition(c, full), t.conditions)

FmtDescribe(d, full) ==
  Words(<<"describe">>) \o <<Quote(d.name), NL>>
  \o (IF full THEN Lines(LAMBDA l : FmtLet(l, full), d.lets) ELSE <<>>)
  \o Lines(LAMBDA m : FmtMock(m, full), d.mocks) \o Lines(LAMBDA t : FmtIt(t, full), d.tests)

---------------------------------------------------------------------------
FmtItem(kind, x, full) ==
  CASE kind = "config" ->
         Words(<<"config", x.name, "{">>) \o <<NL>>
         \o Lines(LAMBDA p : Words(<<p[1], ":">>) \o <<p[2]>>, x.props) \o Words(<<"}">>)
    [] kind = "import" -> Words(<<"import">>) \o <<Quote(x.path)>> \o Words(<<"as", x.alias>>)
    [] kind = "featureFlags" -> Words(<<"featureFlags", "=">>) \o <<NL>> \o FmtPipeline(x, full)
    [] kind = "graphqlSchema" -> Words(<<"graphqlSchema", "=">>) \o <<x>>
    [] kind \in {"query", "mutation", "resolver", "pipeline"} ->
         Words(<<kind>>) \o <<x.name>> \o Words(<<"=">>) \o <<NL>> \o FmtPipeline(x.pipeline, full)
    [] kind = "variable" -> Words(<<x.type, x.name, "=">>) \o <<x.value>>
    [] kind = "route" -> Words(<<x.method>>) \o <<x.path, NL>> \o FmtPipeline(x.pipeline, full)
    [] kind = "describe" -> FmtDescribe(x, full)

\* Display for Program leaves the imports out.
Printed == <<"config", "pipeline", "variable", "featureFlags", "graphqlSchema", "query",
             "mutation", "resolver", "route", "describe">>

Fmt(p, full) ==
  Each(LAMBDA k : Lines(LAMBDA x : FmtItem(k, x, full), p[k]),
       IF full THEN <<"import">> \o Printed ELSE Printed)
=============================================================================
