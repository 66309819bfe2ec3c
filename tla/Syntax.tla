------------------------------- MODULE Syntax -------------------------------
(***************************************************************************)
(* The grammar of a .wp file as the parser reads it                        *)
(* (src/src/ast/parser.rs): parse_program and the parsers it is made of.   *)
(*                                                                         *)
(* A text is a sequence of tokens.  Letters and blanks within a line are   *)
(* left out; line ends, comments and quotation stay, for what is read      *)
(* depends on them.  A parser takes the text that is left and gives what   *)
(* it read with the text after it, or fails; a choice takes the first      *)
(* alternative that does not fail.                                         *)
(***************************************************************************)
EXTENDS Naturals, Sequences, FiniteSets, SequencesExt, FiniteSetsExt

\* Tokens: a word or sign; a text in backticks or in double quotes (a sequence
\* of tokens, for it may have several lines); a tag, which parse_tag reads; a
\* number; the head of a result branch; a bracket right after a name, with the
\* characters that follow it, up to and with the one that closes it; a target with
\* a dot; the end of a line; a comment with the end of its line.  A bracket with a
\* blank before it is a sign of its own.
W(s) == <<"word", s>>
Words(ss) == [i \in 1..Len(ss) |-> W(ss[i])]
Back(ts) == <<"back", ts>>
Quote(ts) == <<"quote", ts>>
Tag(t) == <<"tag", t>>
Number(n) == <<"number", n>>
Branch(h) == <<"branch", h>>
Args(open, cs) == <<"args", <<open, cs>>>>
Dotted(a, b) == <<"dotted", <<a, b>>>>
NL == <<"nl">>
Comment == <<"comment">>

\* What nom calls an Error and a Failure: after the second no alternative is tried.
Ok(v, t) == [ok |-> TRUE, final |-> TRUE, v |-> v, t |-> t]
Fail == [ok |-> FALSE, final |-> FALSE]
Failure == [ok |-> FALSE, final |-> TRUE]

\* F of what was read, if anything was.  (The set makes TLC evaluate it once.)
After(r, F(_)) == CHOOSE y \in {IF x.ok THEN F(x) ELSE x : x \in {r}} : TRUE

\* if let Ok(...) = r: a Failure is not passed on.
Caught(r) == IF r.ok THEN r ELSE Fail

\* The first of the alternatives that does not fail, or that fails for good.
FirstOf(alternatives) ==
  CHOOSE y \in {LET final == {i \in 1..Len(rs) : rs[i].final}
                IN  IF final = {} THEN Fail ELSE rs[Min(final)] : rs \in {alternatives}} : TRUE

Is(t, kinds) == t # <<>> /\ t[1][1] \in kinds
Has(t, word) == t # <<>> /\ t[1] = W(word)
Drop(t, n) == SubSeq(t, n + 1, Len(t))
Signs == {"|>", "=", ":", ".", "(", ")", "[", "]", "{", "}", "then:", "else:", "default:"}

\* The tokens up to the end of the line.
LineLen(t) == LET ends == {i \in 1..Len(t) : t[i] \in {NL, Comment}}
              IN  IF ends = {} THEN Len(t) ELSE Min(ends) - 1
Line(t) == SubSeq(t, 1, LineLen(t))

RECURSIVE Skip(_), SkipAll(_)
\* multispace0, and skip_ws_and_comments.
Skip(t) == IF Is(t, {"nl"}) THEN Skip(Tail(t)) ELSE t
SkipAll(t) == IF Is(t, {"nl", "comment"}) THEN SkipAll(Tail(t)) ELSE t

\* A token of some kind, and an identifier, on this line or a later one.
Token(t, kinds) ==
  After(Ok(<<>>, Skip(t)), LAMBDA s :
    IF Is(s.t, kinds) THEN Ok(Head(s.t), Tail(s.t)) ELSE Fail)
Name(t) ==
  After(Token(t, {"word"}), LAMBDA n : IF n.v[2] \in Signs THEN Fail ELSE Ok(n.v[2], n.t))

\* Words one after another, however the lines are broken.
RECURSIVE Eat(_, _)
Eat(t, words) ==
  IF words = <<>> THEN Ok(<<>>, t)
  ELSE After(Token(t, {"word"}), LAMBDA n :
         IF n.v = W(Head(words)) THEN Eat(n.t, Tail(words)) ELSE Fail)

\* many0 of the parser of that name; One is where the names are resolved.
RECURSIVE One(_, _), Many(_, _)
Many(what, t) ==
  FirstOf(<<After(One(what, t), LAMBDA x :
              After(Many(what, x.t), LAMBDA rest : Ok(<<x.v>> \o rest.v, rest.t))),
            Ok(<<>>, t)>>)

\* opt
Maybe(r, t) == FirstOf(<<After(r, LAMBDA x : Ok(<<x.v>>, x.t)), Ok(<<>>, t)>>)

---------------------------------------------------------------------------
(***************************************************************************)
(* Inline arguments, a character at a time.                                *)
(***************************************************************************)
Open == {"(", "[", "{"}
Close == {")", "]", "}"}

Closing == [o \in {"(", "["} |-> IF o = "(" THEN ")" ELSE "]"]

\* parse_inline_args: the bracket that closes, of the kind that opened, outside strings.
Scan(open, s, c) ==
  IF s.end # 0 THEN s
  ELSE LET n == [s EXCEPT !.at = @ + 1]
       IN  IF s.esc THEN [n EXCEPT !.esc = FALSE]
           ELSE IF c = "\\" /\ s.str THEN [n EXCEPT !.esc = TRUE]
           ELSE IF c = "\"" THEN [n EXCEPT !.str = ~@]
           ELSE IF c = open /\ ~s.str THEN [n EXCEPT !.depth = @ + 1]
           ELSE IF c = Closing[open] /\ ~s.str
             THEN IF s.depth = 0 THEN [n EXCEPT !.end = n.at] ELSE [n EXCEPT !.depth = @ - 1]
           ELSE n

ClosedAt(open, cs) ==
  FoldLeft(LAMBDA s, c : Scan(open, s, c),
           [at |-> 0, end |-> 0, depth |-> 0, str |-> FALSE, esc |-> FALSE], cs).end

RECURSIVE Trim(_)
Trim(cs) ==
  IF cs # <<>> /\ Head(cs) = " " THEN Trim(Tail(cs))
  ELSE IF cs # <<>> /\ Last(cs) = " " THEN Trim(Front(cs))
  ELSE cs

\* split_balanced_args: at commas outside strings and brackets of any kind.
Split(s, c) ==
  LET n == [s EXCEPT !.cur = Append(@, c)]
  IN  IF s.esc THEN [n EXCEPT !.esc = FALSE]
      ELSE IF c = "\\" /\ s.str THEN [n EXCEPT !.esc = TRUE]
      ELSE IF c = "\"" THEN [n EXCEPT !.str = ~@]
      ELSE IF c \in Open /\ ~s.str THEN [n EXCEPT !.depth = @ + 1]
      ELSE IF c \in Close /\ ~s.str THEN [n EXCEPT !.depth = @ - 1]
      ELSE IF c = "," /\ s.depth = 0 /\ ~s.str
        THEN [s EXCEPT !.args = Append(@, Trim(s.cur)), !.cur = <<>>]
      ELSE n

SplitArgs(cs) ==
  LET s == FoldLeft(Split, [args |-> <<>>, cur |-> <<>>, depth |-> 0,
                            str |-> FALSE, esc |-> FALSE], cs)
  IN  IF Trim(s.cur) = <<>> THEN s.args ELSE Append(s.args, Trim(s.cur))

\* A bracket is looked for past blanks and line ends, and read only where the
\* name ends.  What follows the one that closes stays in the text.
InlineArgs(t) ==
  IF ~(Is(Skip(t), {"args"}) \/ Has(Skip(t), "(") \/ Has(Skip(t), "[")) THEN Ok(<<>>, t)
  ELSE IF ~Is(t, {"args"}) THEN Fail
  ELSE LET cs == t[1][2][2]
           end == ClosedAt(t[1][2][1], cs)
       IN  IF end = 0 THEN Fail
           ELSE Ok(SplitArgs(SubSeq(cs, 1, end - 1)),
                   IF end = Len(cs) THEN Tail(t) ELSE <<<<"text", Drop(cs, end)>>>> \o Tail(t))

---------------------------------------------------------------------------
(***************************************************************************)
(* Tag expressions: `and' binds tighter than `or', both to the left.       *)
(***************************************************************************)
Leaf(tag) == [op |-> "tag", tag |-> tag]
Join(op, l, r) == [op |-> op, l |-> l, r |-> r]

\* Mutant: `and' joins what `or' joins.
OperandOfBoth(op) == "primary"

\* What an operator of that name joins.
Operand(op) == IF op = "or" THEN "and" ELSE "primary"

RECURSIVE TagExpr(_, _), Chain(_, _, _)
Chain(op, left, t) ==
  FirstOf(<<After(Eat(t, <<op>>), LAMBDA k :
              After(TagExpr(Operand(op), Skip(k.t)), LAMBDA right :
                Chain(op, Join(op, left, right.v), right.t))),
            Ok(left, t)>>)

TagExpr(level, t) ==
  IF level \in {"or", "and"}
    THEN After(TagExpr(Operand(level), t), LAMBDA first : Chain(level, first.v, first.t))
  ELSE IF Has(t, "(")
    THEN After(TagExpr("or", Skip(Tail(t))), LAMBDA e :
           After(Eat(e.t, <<")">>), LAMBDA k : Ok(e.v, k.t)))
  ELSE IF Is(t, {"tag"}) THEN Ok(Leaf(t[1][2]), Tail(t))
  ELSE Fail

\* parse_step_condition: tags with nothing between them are joined by `and'.
RECURSIVE Adjacent(_, _)
Adjacent(expr, t) ==
  IF Is(t, {"tag"}) THEN Adjacent(Join("and", expr, Leaf(t[1][2])), Tail(t))
  ELSE Ok(<<expr>>, t)

StepCondition(t) ==
  IF Is(t, {"tag"}) \/ Has(t, "(")
    THEN After(TagExpr("or", t), LAMBDA e : Adjacent(e.v, e.t))
    ELSE Ok(<<>>, t)

---------------------------------------------------------------------------
(***************************************************************************)
(* Pipelines and their steps.                                              *)
(***************************************************************************)
Pipeline(t) == Many("step", t)

\* The text after "|> name", if the step has it.
Keyword(t, name) == Eat(SkipAll(t), <<"|>", name>>)

\* A block, and one that may be there: <<its pipeline>> or <<>>.
Block(t, keyword) == After(Eat(SkipAll(t), <<keyword>>), LAMBDA k : Pipeline(k.t))
Optional(t, keyword) == Maybe(Block(t, keyword), t)

\* Mutant: past blank lines only.
PastEndUncommented(t) == IF Has(Skip(t), "end") THEN Tail(Skip(t)) ELSE t

\* opt(tag("end")): whosever it is.
PastEnd(t) == IF Has(SkipAll(t), "end") THEN Tail(SkipAll(t)) ELSE SkipAll(t)

IfStep(t) ==
  After(Keyword(t, "if"), LAMBDA k :
  After(Pipeline(k.t), LAMBDA cond :
  After(Block(cond.t, "then:"), LAMBDA then :
  After(Optional(then.t, "else:"), LAMBDA else :
    Ok([kind |-> "if", cond |-> cond.v, then |-> then.v, else |-> else.v], PastEnd(else.t))))))

Case(t) ==
  After(Eat(SkipAll(t), <<"case">>), LAMBDA k :
  After(TagExpr("or", Skip(k.t)), LAMBDA e :
  After(Eat(e.t, <<":">>), LAMBDA colon :
  After(Pipeline(colon.t), LAMBDA p : Ok([when |-> e.v, pipeline |-> p.v], p.t)))))

DispatchStep(t) ==
  After(Keyword(t, "dispatch"), LAMBDA k :
  After(Many("case", k.t), LAMBDA cases :
  After(Optional(cases.t, "default:"), LAMBDA default :
    Ok([kind |-> "dispatch", branches |-> cases.v, default |-> default.v], PastEnd(default.t)))))

\* The only block whose `end' must be there.
ForeachStep(t) ==
  After(Keyword(t, "foreach"), LAMBDA k :
  After(IF Line(k.t) = <<>> THEN Fail ELSE Pipeline(Drop(k.t, LineLen(k.t))), LAMBDA body :
  After(Eat(SkipAll(body.t), <<"end">>), LAMBDA end :
    Ok([kind |-> "foreach", selector |-> Line(k.t), pipeline |-> body.v], end.t))))

ResultBranch(t) ==
  After(Token(SkipAll(t), {"branch"}), LAMBDA b :
  After(Pipeline(b.t), LAMBDA p : Ok([head |-> b.v[2], pipeline |-> p.v], p.t)))

ResultStep(t) ==
  After(Keyword(t, "result"), LAMBDA k :
  After(Many("branch", k.t), LAMBDA bs : Ok([kind |-> "result", branches |-> bs.v], bs.t)))

\* `: config' if it is there.
StepConfig(t) ==
  After(Eat(t, <<":">>), LAMBDA k :
    FirstOf(<<Token(k.t, {"back", "quote"}), After(Name(k.t), LAMBDA n : Ok(W(n.v), n.t))>>))

\* Any name: that of a block too, when the block cannot be read.
RegularStep(t) ==
  After(Eat(SkipAll(t), <<"|>">>), LAMBDA k :
  After(Name(k.t), LAMBDA name :
  After(InlineArgs(name.t), LAMBDA args :
  After(Maybe(StepConfig(args.t), Skip(args.t)), LAMBDA config :
  After(StepCondition(config.t), LAMBDA cond :
    Ok([kind |-> "regular", name |-> name.v, args |-> args.v, config |-> config.v,
        cond |-> cond.v], Skip(cond.t)))))))

Step(t) == FirstOf(<<ResultStep(t), IfStep(t), DispatchStep(t), ForeachStep(t), RegularStep(t)>>)

---------------------------------------------------------------------------
(***************************************************************************)
(* Tests.                                                                  *)
(***************************************************************************)
LetBinding(t) ==
  After(Eat(t, <<"let">>), LAMBDA k :
  After(Name(k.t), LAMBDA name :
  After(Eat(name.t, <<"=">>), LAMBDA eq :
  After(Token(eq.t, {"back", "quote", "word"}), LAMBDA value :
    Ok([name |-> name.v, value |-> value.v], value.t)))))

\* What a target with a kind is; a dot does not part a kind from its name.
Mockable == {"pipeline", "query", "mutation"}
MockTarget(t) ==
  After(Token(t, {"word", "dotted"}), LAMBDA first :
    IF first.v[1] = "dotted" THEN IF first.v[2][1] \in Mockable THEN Fail ELSE first
    ELSE IF first.v[2] \notin Mockable THEN first
    ELSE After(Name(first.t), LAMBDA name : Ok(Dotted(first.v[2], name.v), name.t)))

Mock(t, first) ==
  After(Eat(t, <<first, "mock">>), LAMBDA k :
  After(MockTarget(k.t), LAMBDA target :
  After(Eat(target.t, <<"returning">>), LAMBDA returning :
  After(Token(returning.t, {"back"}), LAMBDA value :
    Ok([target |-> target.v, value |-> value.v], Skip(value.t))))))

When(t) ==
  FirstOf(<<
    After(Eat(t, <<"calling">>), LAMBDA k :
    After(Token(k.t, {"word"}), LAMBDA method :
      IF Line(method.t) = <<>> THEN Fail
      ELSE Ok(<<"calling", method.v>> \o Line(method.t), Drop(method.t, LineLen(method.t))))),
    After(Eat(t, <<"executing", "pipeline">>), LAMBDA k :
    After(Token(k.t, {"word"}), LAMBDA name : Ok(<<"pipeline", name.v>>, name.t))),
    After(Eat(t, <<"executing", "variable">>), LAMBDA k :
    After(Token(k.t, {"word"}), LAMBDA type :
    After(Token(type.t, {"word"}), LAMBDA name : Ok(<<"variable", type.v, name.v>>, name.t))))>>)

\* What follows `when': the first with-clause starts with `with', later ones
\* with `and'; stdin, args and options with `and' wherever they are.
WithKinds == {"input", "body", "headers", "cookies"}
Text(t, kinds, name) ==
  After(Token(t, kinds), LAMBDA x : Ok([name |-> name, value |-> x.v[2]], Skip(x.t)))
Clause(t, first) ==
  FirstOf(<<
    After(Eat(t, IF first THEN <<"with">> ELSE <<"and", "with">>), LAMBDA k :
    After(Name(k.t), LAMBDA kind :
      IF kind.v \in WithKinds THEN Text(kind.t, {"back"}, kind.v) ELSE Fail)),
    After(Eat(t, <<"and", "stdin", "is">>), LAMBDA k : Text(k.t, {"back", "quote"}, "stdin")),
    After(Eat(t, <<"and", "args", "are">>), LAMBDA k : Text(k.t, {"back"}, "args")),
    After(Eat(t, <<"and", "options", "are">>), LAMBDA k : Text(k.t, {"back"}, "options"))>>)

\* The last of a kind counts.
NoClauses == [k \in WithKinds \cup {"stdin", "args", "options"} |-> <<>>]
RECURSIVE Clauses(_, _, _)
Clauses(t, first, got) ==
  FirstOf(<<After(Clause(t, first), LAMBDA c :
              Clauses(c.t, FALSE, [got EXCEPT ![c.v.name] = <<c.v.value>>])),
            Ok(got, t)>>)

\* A value: what is in backticks, in quotes, or the rest of the line.  Only
\* where `quotes' is TRUE do the quotes stay with it.
Value(t, quotes) ==
  FirstOf(<<
    After(Token(t, {"back"}), LAMBDA x : Ok(x.v[2], x.t)),
    After(Token(t, {"quote"}), LAMBDA x : Ok(IF quotes THEN <<x.v>> ELSE x.v[2], x.t)),
    After(Ok(<<>>, Skip(t)), LAMBDA s :
      IF Line(s.t) = <<>> THEN Fail ELSE Ok(Line(s.t), Drop(s.t, LineLen(s.t))))>>)

\* What is asserted: about what, how it compares, with what value.
Assertion(about, comparison, value) ==
  After(value, LAMBDA v :
    Ok([about |-> about, comparison |-> comparison, value |-> v.v], v.t))

\* The tokens before the next one of these kinds, wherever it is.
Until(t, kinds) ==
  LET found == {i \in 1..Len(t) : t[i][1] \in kinds}
  IN  IF found = {} \/ Min(found \cup {Len(t) + 1}) = 1 THEN Fail
      ELSE Ok(SubSeq(t, 1, Min(found) - 1), Drop(t, Min(found) - 1))

\* These words, and which they were.
Said(t, words) == After(Eat(t, words), LAMBDA k : Ok(Words(words), k.t))

\* then call query users with ...
CallAssertion(t) ==
  After(Token(t, {"word"}), LAMBDA kind :
  After(IF kind.v[2] \in Mockable THEN Token(kind.t, {"word"}) ELSE Fail, LAMBDA target :
  After(FirstOf(<<Said(target.t, <<"with", "arguments">>), Said(target.t, <<"with">>)>>), LAMBDA with :
    Assertion(<<W("call"), kind.v, target.v>>, with.v, Value(with.t, FALSE)))))

\* then selector `css' exists | does not exist | text ... | count ... |
\* attribute `name' ...; the comparison of a count ends at a digit, that of an
\* attribute at a quotation.  Any other operation is a Failure.
SelectorAssertion(t) ==
  After(Token(t, {"back", "quote"}), LAMBDA css :
  After(Ok(<<>>, Skip(css.t)), LAMBDA s :
  LET about(what) == <<W("selector"), Quote(css.v[2])>> \o what
      Exists(k, words) == Assertion(about(<<>>), words, Ok(<<>>, k))
      after == Tail(s.t)
  IN  CASE s.t = <<>> -> Fail
        [] Has(s.t, "exists") -> Exists(after, <<W("exists")>>)
        [] Has(s.t, "does") ->
             After(Eat(after, <<"not", "exist">>), LAMBDA k :
               Exists(k.t, Words(<<"does", "not", "exist">>)))
        [] Has(s.t, "text") ->
             After(Token(after, {"word"}), LAMBDA comparison :
               Assertion(about(<<W("text")>>), <<comparison.v>>, Value(comparison.t, FALSE)))
        [] Has(s.t, "count") ->
             After(Until(Skip(after), {"number"}), LAMBDA comparison :
               Assertion(about(<<W("count")>>), comparison.v,
                         Ok(Line(comparison.t), Drop(comparison.t, LineLen(comparison.t)))))
        [] Has(s.t, "attribute") ->
             After(Token(after, {"back", "quote"}), LAMBDA name :
             After(Until(Skip(name.t), {"back", "quote"}), LAMBDA comparison :
               Assertion(about(<<W("attribute"), Quote(name.v[2])>>), comparison.v,
                         Value(comparison.t, FALSE))))
        [] OTHER -> Failure))

\* then status is 200; then output `jq' equals ...; then header "name" ...
PlainAssertion(field, t) ==
  After(IF field = W("header")
          THEN After(Token(t, {"back", "quote"}), LAMBDA h : Ok(<<Quote(h.v[2])>>, h.t))
          ELSE Maybe(Token(t, {"back"}), t), LAMBDA part :
  After(Token(part.t, {"word"}), LAMBDA comparison :
    Assertion(<<field>> \o part.v, <<comparison.v>>, Value(comparison.t, TRUE))))

Condition(t) ==
  After(FirstOf(<<Eat(t, <<"then">>), Eat(t, <<"and">>)>>), LAMBDA k :
  After(Token(k.t, {"word"}), LAMBDA field :
    CASE field.v = W("call") -> CallAssertion(field.t)
      [] field.v = W("selector") -> SelectorAssertion(field.t)
      [] OTHER -> PlainAssertion(field.v, field.t)))

\* The title of a describe or an it.
Titled(t, keyword) ==
  After(Eat(SkipAll(t), <<keyword>>), LAMBDA k :
  After(Token(k.t, {"quote"}), LAMBDA name : Ok(name.v[2], SkipAll(name.t))))

It(t) ==
  After(Titled(t, "it"), LAMBDA name :
  After(Many("mock", name.t), LAMBDA mocks :
  After(Many("let", mocks.t), LAMBDA lets :
  After(Eat(lets.t, <<"when">>), LAMBDA k :
  After(When(SkipAll(k.t)), LAMBDA when :
  After(Clauses(SkipAll(when.t), TRUE, NoClauses), LAMBDA clauses :
  After(Many("andMock", SkipAll(clauses.t)), LAMBDA more :
  After(Many("condition", SkipAll(more.t)), LAMBDA conditions :
    Ok([name |-> name.v, mocks |-> mocks.v \o more.v, lets |-> lets.v, when |-> when.v,
        with |-> clauses.v, conditions |-> conditions.v], conditions.t)))))))))

\* Bindings, mocks and tests in any order, until none of them can be read.
RECURSIVE Describes(_, _)
Describes(t, d) ==
  LET u == SkipAll(t)
  IN  FirstOf(<<
        After(LetBinding(u), LAMBDA x : Describes(x.t, [d EXCEPT !.lets = Append(@, x.v)])),
        After(Mock(u, "with"), LAMBDA x : Describes(x.t, [d EXCEPT !.mocks = Append(@, x.v)])),
        After(Mock(u, "and"), LAMBDA x : Describes(x.t, [d EXCEPT !.mocks = Append(@, x.v)])),
        After(Caught(It(u)), LAMBDA x : Describes(x.t, [d EXCEPT !.tests = Append(@, x.v)])),
        Ok(d, t)>>)

Describe(t) ==
  After(Titled(t, "describe"), LAMBDA name :
    Describes(name.t, [name |-> name.v, lets |-> <<>>, mocks |-> <<>>, tests |-> <<>>]))

ConfigProperty(t) ==
  After(Name(t), LAMBDA key :
  After(Eat(key.t, <<":">>), LAMBDA colon :
  After(Token(colon.t, {"word", "quote", "number"}), LAMBDA value : Ok(<<key.v, value.v>>, value.t))))

One(what, t) ==
  CASE what = "step" -> Step(t)
    [] what = "case" -> Case(t)
    [] what = "branch" -> ResultBranch(t)
    [] what = "mock" -> Mock(t, "with")
    [] what = "andMock" -> Mock(t, "and")
    [] what = "condition" -> Condition(t)
    [] what = "let" -> After(LetBinding(t), LAMBDA x : Ok(x.v, SkipAll(x.t)))
    [] what = "property" -> ConfigProperty(t)

---------------------------------------------------------------------------
(***************************************************************************)
(* The program.                                                            *)
(***************************************************************************)
\* keyword name = pipeline, for a query, a mutation, a resolver, a pipeline.
Named(t, keyword) ==
  After(Eat(t, <<keyword>>), LAMBDA k :
  After(Token(k.t, {"word", "dotted"}), LAMBDA name :
  After(Eat(name.t, <<"=">>), LAMBDA eq :
  After(Pipeline(eq.t), LAMBDA p : Ok([name |-> name.v, pipeline |-> p.v], Skip(p.t))))))

ConfigItem(t) ==
  After(Eat(t, <<"config">>), LAMBDA k :
  After(Name(k.t), LAMBDA name :
  After(Eat(name.t, <<"{">>), LAMBDA open :
  After(Many("property", open.t), LAMBDA props :
  After(Eat(props.t, <<"}">>), LAMBDA end :
    Ok([name |-> name.v, props |-> props.v], Skip(end.t)))))))

ImportItem(t) ==
  After(Eat(t, <<"import">>), LAMBDA k :
  After(Token(k.t, {"quote"}), LAMBDA path :
  After(Eat(path.t, <<"as">>), LAMBDA as :
  After(Name(as.t), LAMBDA alias : Ok([path |-> path.v[2], alias |-> alias.v], Skip(alias.t))))))

FlagsItem(t) ==
  After(Eat(t, <<"featureFlags", "=">>), LAMBDA k :
  After(Pipeline(k.t), LAMBDA p : Ok(p.v, Skip(p.t))))

SchemaItem(t) ==
  After(Eat(t, <<"graphqlSchema", "=">>), LAMBDA k :
  After(Token(k.t, {"back"}), LAMBDA sdl : Ok(sdl.v, Skip(sdl.t))))

VariableItem(t) ==
  After(Name(t), LAMBDA type :
  After(Name(type.t), LAMBDA name :
  After(Eat(name.t, <<"=">>), LAMBDA eq :
  After(Token(eq.t, {"back"}), LAMBDA value :
    Ok([type |-> type.v, name |-> name.v, value |-> value.v], Skip(value.t))))))

\* The pipeline is always read in place: Pipeline never fails.
Methods == {"GET", "POST", "PUT", "DELETE"}
RouteItem(t) ==
  After(Name(t), LAMBDA method :
  After(IF method.v \in Methods THEN Token(method.t, {"word"}) ELSE Fail, LAMBDA path :
  After(Pipeline(path.t), LAMBDA p :
    Ok([method |-> method.v, path |-> path.v, pipeline |-> p.v], Skip(p.t)))))

\* The kinds of items, in the order in which they are tried.
Kinds == <<"config", "import", "featureFlags", "graphqlSchema", "query", "mutation",
           "resolver", "pipeline", "variable", "route", "describe">>
Single == {"featureFlags", "graphqlSchema"}

Item(kind, t) ==
  CASE kind = "config" -> ConfigItem(t)
    [] kind = "import" -> ImportItem(t)
    [] kind = "featureFlags" -> FlagsItem(t)
    [] kind = "graphqlSchema" -> SchemaItem(t)
    [] kind \in {"query", "mutation", "resolver", "pipeline"} -> Named(t, kind)
    [] kind = "variable" -> VariableItem(t)
    [] kind = "route" -> RouteItem(t)
    [] kind = "describe" -> Describe(t)

Empty == [k \in Range(Kinds) |-> <<>>]

AnyItem(t) ==
  FirstOf([i \in 1..Len(Kinds) |->
             After(Item(Kinds[i], t), LAMBDA x : Ok([kind |-> Kinds[i], item |-> x.v], x.t))])

\* The program with one more item; a second import of one alias is an error of
\* the whole file.
Added(p, kind, item) ==
  IF kind = "import" /\ \E i \in 1..Len(p.import) : p.import[i].alias = item.alias THEN Fail
  ELSE Ok([p EXCEPT ![kind] = IF kind \in Single THEN <<item>> ELSE Append(@, item)], <<>>)

\* What cannot be read is left out, a line at a time, without a word.
RECURSIVE Items(_, _)
Items(text, p) ==
  After(Ok(<<>>, SkipAll(text)), LAMBDA s :
    IF s.t = <<>> THEN Ok(p, s.t)
    ELSE After(Maybe(AnyItem(s.t), s.t), LAMBDA x :
           IF x.v = <<>> THEN Items(Drop(s.t, LineLen(s.t)), p)
           ELSE After(Added(p, x.v[1].kind, x.v[1].item), LAMBDA q : Items(x.t, q.v))))

ParseProgram(text) == Items(text, Empty)
=============================================================================
