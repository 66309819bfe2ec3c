---------------------------- MODULE MCRoundTrip ----------------------------
(* Pipelines of up to two steps, blocks in blocks; tag expressions of three *)
(* leaves; arguments of three characters; every kind of item and of test.   *)
EXTENDS RoundTrip

Plainly(name) == [kind |-> "regular", name |-> name, args |-> <<>>, config |-> <<>>, cond |-> <<>>]
A == [Plainly("jq") EXCEPT !.config = <<Back(<<W("x"), NL, W("y")>>)>>]
B == Plainly("log")

t1 == Leaf("a")
Pairs(s) == {Join(op, l, Leaf("b")) : op \in {"and", "or"}, l \in s}
Exprs == {t1} \cup Pairs({t1}) \cup Pairs(Pairs({t1}))
         \cup {Join(op, t1, r) : op \in {"and", "or"}, r \in Pairs({t1})}

Tagged == {[s EXCEPT !.cond = <<e>>] : s \in {A, B, [B EXCEPT !.args = <<<<"a">>>>]}, e \in Exprs}

\* Blocks around the pipelines of a set.
Blocks(ps) ==
  {[kind |-> "if", cond |-> c, then |-> p, else |-> e] : c \in {<<A>>}, p \in ps, e \in {<<>>, <<<<B>>>>}}
  \cup {[kind |-> "if", cond |-> p, then |-> <<A>>, else |-> <<p>>] : p \in ps}
  \cup {[kind |-> "dispatch", branches |-> <<[when |-> t1, pipeline |-> p], [when |-> t1, pipeline |-> <<B>>]>>,
         default |-> <<>>] : p \in ps}
  \cup {[kind |-> "dispatch", branches |-> <<[when |-> t1, pipeline |-> p], [when |-> t1, pipeline |-> <<B>>]>>,
         default |-> <<p>>] : p \in ps}
  \cup {[kind |-> "dispatch", branches |-> <<[when |-> t1, pipeline |-> p]>>, default |-> <<<<B>>>>] : p \in ps}
  \cup {[kind |-> "foreach", selector |-> <<W("rows")>>, pipeline |-> p] : p \in ps}

Results(ps) == {[kind |-> "result", branches |-> <<[head |-> "ok200", pipeline |-> <<B>>],
                                                   [head |-> "default500", pipeline |-> p]>>] : p \in ps}

Depth1 == Blocks({<<A>>, <<A, B>>})
Inner == {<<s>> : s \in Depth1} \cup {<<s, B>> : s \in Blocks({<<A>>})} \cup {<<s>> : s \in Results({<<A>>})}
Depth2 == Blocks(Inner)

Bodies ==
  {<<>>, <<A, B>>} \cup {<<s>> : s \in Tagged}
  \cup {<<s>> : s \in Depth1 \cup Depth2} \cup {<<s, B>> : s \in Depth1} \cup {<<s, B>> : s \in Blocks(Inner)}
  \cup {<<A, s>> : s \in Results({<<A>>} \cup {<<s>> : s \in Depth1})}

\* The arguments a text may have: what parse_inline_args lets pass.
Chars == {"a", ",", "(", ")", "[", "]", "\"", "\\", " "}
ArgTexts == {cs \in UNION {[1..n -> Chars] : n \in 0..3} : ClosedAt("(", Append(cs, ")")) = Len(cs) + 1}
Called == {[B EXCEPT !.args = SplitArgs(cs), !.config = <<W("x")>>] : cs \in ArgTexts}

With(kind, items) == [Empty EXCEPT ![kind] = items]
InPipeline(p) == With("pipeline", <<[name |-> W("p"), pipeline |-> p], [name |-> W("q"), pipeline |-> <<A>>]>>)

\* Items of every kind.
Item1(k) ==
  CASE k = "config" -> [name |-> "cache", props |-> <<<<"ttl", W("60")>>, <<"url", Quote(<<W("u")>>)>>>>]
    [] k = "import" -> [path |-> <<W("m")>>, alias |-> "m"]
    [] k = "featureFlags" -> <<A>>
    [] k = "graphqlSchema" -> Back(<<W("sdl")>>)
    [] k \in {"query", "mutation", "pipeline"} -> [name |-> W("n"), pipeline |-> <<A>>]
    [] k = "resolver" -> [name |-> Dotted("T", "f"), pipeline |-> <<A>>]
    [] k = "variable" -> [type |-> "pg", name |-> "v", value |-> Back(<<W("sql")>>)]
    [] k = "route" -> [method |-> "GET", path |-> W("/x"), pipeline |-> <<A>>]
    [] k = "describe" -> [name |-> <<W("d")>>, lets |-> <<>>, mocks |-> <<>>, tests |-> <<>>]
Alone == {With(k, <<Item1(k)>>) : k \in Range(Kinds)}
Imports == {With("import", <<Item1("import"), [Item1("import") EXCEPT !.alias = a]>>) : a \in {"m", "n"}}
Everything == {[k \in Range(Kinds) |-> IF k = "import" THEN imports ELSE <<Item1(k)>>] :
                 imports \in {<<>>, <<Item1("import")>>}}

\* Tests.
Mocked(target) == [target |-> target, value |-> Back(<<W("m")>>)]
Mocks == {<<>>, <<Mocked(W("pg"))>>, <<Mocked(W("pg")), Mocked(Dotted("pg", "v"))>>, <<Mocked(Dotted("query", "q"))>>}
Bindings == {<<>>, <<[name |-> "id", value |-> W("one")]>>}
Given(kinds) == [k \in DOMAIN NoClauses |-> IF k \in kinds THEN <<<<W("v")>>>> ELSE <<>>]
Clausess == {Given(s) : s \in {{}, {"body"}, {"body", "headers"}, {"stdin", "args"}, {"input", "options"}}}
Cond(about, comparison, value) == [about |-> about, comparison |-> comparison, value |-> value]
Conditions ==
  LET css == <<W("selector"), Quote(<<W("h1")>>)>>
  IN  { Cond(<<W("status")>>, <<W("is")>>, <<Number(200)>>),
        Cond(<<W("output"), Back(<<W(".x")>>)>>, <<W("equals")>>, <<Quote(<<W("s")>>)>>),
        Cond(<<W("output")>>, <<W("equals")>>, <<W("l1"), NL, W("l2")>>),
        Cond(<<W("header"), Quote(<<W("h")>>)>>, <<W("is")>>, <<W("v")>>),
        Cond(<<W("call"), W("query"), W("q")>>, <<W("with")>>, <<W("v")>>),
        Cond(<<W("call"), W("query"), W("q")>>, Words(<<"with", "arguments">>), <<W("v")>>),
        Cond(css, <<W("exists")>>, <<>>),
        Cond(css, Words(<<"does", "not", "exist">>), <<>>),
        Cond(css \o <<W("text")>>, <<W("is")>>, <<W("v")>>),
        Cond(css \o <<W("count")>>, <<W("is")>>, <<Number(2)>>),
        Cond(css \o <<W("attribute"), Quote(<<W("href")>>)>>, <<W("is")>>, <<W("v")>>) }
Whens == {<<"calling", W("GET"), W("/x")>>, <<"pipeline", W("p")>>, <<"variable", W("pg"), W("v")>>}

ATest == [name |-> <<W("t")>>, mocks |-> <<>>, lets |-> <<>>, when |-> <<"pipeline", W("p")>>,
          with |-> NoClauses, conditions |-> <<Cond(<<W("status")>>, <<W("is")>>, <<Number(200)>>)>>]
Tests ==
  {[ATest EXCEPT !.when = w] : w \in Whens}
  \cup {[ATest EXCEPT !.mocks = m, !.lets = b, !.with = c] : m \in Mocks, b \in Bindings, c \in Clausess}
  \cup {[ATest EXCEPT !.conditions = <<c, ATest.conditions[1]>>] : c \in Conditions}
Suites ==
  {[name |-> <<W("d")>>, lets |-> <<>>, mocks |-> <<>>, tests |-> <<t, ATest>>] : t \in Tests}
  \cup {[name |-> <<W("d")>>, lets |-> b, mocks |-> m, tests |-> <<ATest>>] : b \in Bindings, m \in Mocks}

MCPrograms ==
  {InPipeline(p) : p \in Bodies} \cup {InPipeline(<<s, A>>) : s \in Called}
  \cup Alone \cup Imports \cup Everything \cup {With("describe", <<d>>) : d \in Suites}
=============================================================================
