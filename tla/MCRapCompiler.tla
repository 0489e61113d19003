---------------------------- MODULE MCRapCompiler ----------------------------
(***************************************************************************)
(* Programs for RapCompiler: every statement inside every other one, in    *)
(* the top level and in a function, and programs about calls, values and   *)
(* modules.                                                                *)
(***************************************************************************)
EXTENDS RapCompiler

N(n) == Lit(Num(n))
x == Name("x")
y == Name("y")
b == Name("b")
Show(e) == Output(FALSE, <<e>>)
Set(v, e) == Assignment(Name(v), e)
Plus(e, f) == BinOp("ADD", e, f)
Tree == Type("Tree", <<Variant("Leaf", <<>>), Variant("Node", <<"left", "right">>)>>)
Node(l, r) == Apply(Name("Node"), <<l, r>>)
Program(types, toplevel, functions) == <<Module("m", <<>>, types, toplevel, functions)>>

-----------------------------------------------------------------------------
(* Control: loops and branches in one another.                             *)

\* What a body may do: go on, or leave a loop or the function.
Ends(looping, returning) ==
  (IF returning THEN {<<Show(N(7)), Return(Plus(x, N(100)))>>}
   ELSE {<<Show(x)>>, <<Set("x", Plus(x, N(2)))>>}) \cup
  (IF looping THEN {<<Exit>>} ELSE {})

\* Loops around a body, at a depth that names their variables.
Loops(d, body) ==
  LET i == IF d = 1 THEN "i" ELSE "j"
      Tell == <<Show(Name(i))>>
  IN {Repeat(d, N(2), body),
      While(BinOp("LT", x, N(4)), <<Set("x", Plus(x, N(1)))>> \o body),
      For(i, None, N(1), None, Tell \o body),
      For(i, N(2), b, N(-1), Tell \o body),
      For(i, N(0), Plus(b, N(1)), None, Tell \o body),
      For(i, None, None, N(2), <<If(BinOp("GT", Name(i), N(3)), <<Exit>>)>> \o body)}

Branches(d, body, other) ==
  {If(BinOp("GT", x, N(1)), body),
   IfElse(BinOp("LEQ", x, N(1)), body, other),
   Match(d, x, <<Case(<<N(1)>>, body), Case(<<N(2)>>, other)>>, <<Show(N(8))>>),
   Match(d, Plus(x, N(1)), <<Case(<<N(2)>>, other)>>, body)}

Inner(returning) ==
  UNION {UNION {Loops(2, e) : e \in Ends(TRUE, returning)},
         UNION {Branches(2, e, <<Show(N(9))>>) : e \in Ends(FALSE, returning)}}
InnerOfLoop(returning) ==
  Inner(returning) \cup Branches(2, <<Exit>>, <<Show(N(9))>>)
Outer(returning) ==
  UNION {Loops(1, <<s, Declaration("z", x), Show(Name("z"))>>) : s \in InnerOfLoop(returning)} \cup
  UNION {Loops(1, <<s, Exit>>) : s \in Loops(2, <<Show(x)>>)} \cup
  UNION {Branches(1, <<s, Show(N(6))>>, <<Declaration("z", N(5)), Show(Name("z"))>>) :
           s \in Inner(returning)}

AtTopLevel == {Program(<<>>, <<Declaration("b", N(1)), Declaration("x", b), s, Show(x)>>, <<>>) : s \in Outer(FALSE)}
InFunction ==
  {Program(<<>>, <<Declaration("g", N(3)), Show(Apply(Name("f"), <<N(1), N(1)>>)), Show(Name("g"))>>,
           <<Function("f", <<"x", "b">>, <<Declaration("y", N(5)), s, Show(y), Show(x)>>)>>) :
     s \in Outer(TRUE)}
-----------------------------------------------------------------------------
(* Calls: recursion, functions as values, what hides what.                 *)

Calls ==
  LET Down == Function("down", <<"x">>,
                       <<IfElse(BinOp("GT", x, N(0)),
                                <<Show(x), Call(Name("down"), <<BinOp("SUB", x, N(1))>>), Show(x)>>,
                                <<Return(N(50))>>)>>)
      Sum == Function("sum", <<"x", "y">>,
                      <<If(BinOp("EQ", x, N(0)), <<Return(y)>>),
                        Return(Apply(Name("sum"), <<BinOp("SUB", x, N(1)), Plus(x, y)>>))>>)
      Twice == Function("twice", <<"h", "x">>,
                        <<Return(Apply(Name("h"), <<Apply(Name("h"), <<x>>)>>))>>)
      Count == Function("next", <<"x">>, <<Set("g", Plus(Name("g"), N(1))), Return(Plus(x, N(1)))>>)
      \* A local variable hides the argument, and the argument the global variable.
      Hide == Function("hide", <<"g">>, <<Show(Name("g")), Set("g", N(11)), Declaration("g", N(12)),
                                          Set("g", Plus(Name("g"), N(1))), Show(Name("g"))>>)
      Ask == Function("ask", <<>>, <<Input(FALSE, <<Name("v")>>), Input(TRUE, <<Name("g")>>), Return(Name("v"))>>)
      Pair == Function("pair", <<>>, <<Return(Node(Name("next"), N(3)))>>)
      G == Declaration("g", N(1))
      With1(body) == Program(<<Tree>>, <<G>> \o body \o <<Show(Name("g"))>>,
                             <<Down, Sum, Twice, Count, Hide, Ask, Pair>>)
  IN {With1(<<Call(Name("down"), <<N(2)>>), Show(Apply(Name("down"), <<N(0)>>))>>),
      With1(<<Show(Apply(Name("sum"), <<N(3), N(0)>>))>>),
      With1(<<Show(Apply(Name("twice"), <<Name("next"), Name("g")>>))>>),
      With1(<<Show(Plus(Apply(Name("next"), <<N(1)>>), Name("g")))>>),
      With1(<<Show(Plus(Name("g"), Apply(Name("next"), <<N(1)>>)))>>),
      With1(<<Declaration("h", Name("next")), Call(Name("h"), <<N(5)>>),
              Set("h", Name("down")), Show(Apply(Name("h"), <<Name("g")>>))>>),
      With1(<<Call(Name("hide"), <<N(10)>>), Call(Name("next"), <<Name("g")>>)>>),
      With1(<<Show(Apply(Name("ask"), <<>>))>>),
      With1(<<Input(FALSE, <<Name("w")>>), Show(Name("w")), Input(FALSE, <<Name("w")>>), Show(Name("w"))>>),
      With1(<<Output(TRUE, <<Apply(Field(Apply(Name("pair"), <<>>), "left"), <<N(1)>>), N(1)>>)>>),
      With1(<<Repeat(1, Apply(Name("next"), <<N(2)>>), <<Call(Name("next"), <<N(0)>>)>>)>>),
      With1(<<For("i", Apply(Name("next"), <<N(0)>>), Name("g"), N(1), <<Show(Name("i"))>>)>>),
      \* Errors: too many arguments for a callable, no callable, nothing to read.
      With1(<<Declaration("h", Name("sum")), Show(N(1)), Show(Apply(Name("h"), <<N(1)>>))>>),
      With1(<<Call(Name("g"), <<>>)>>),
      With1(<<While(Lit(Truth(TRUE)), <<Input(FALSE, <<Name("w")>>), Show(Name("w"))>>)>>),
      With1(<<If(Name("g"), <<Show(N(1))>>)>>)}

-----------------------------------------------------------------------------
(* Values: literals, operators, aggregates, variants and their patterns.   *)

Texts == {Lit(<<"text", "t">>), Lit(<<"text", "leaf">>)}
Operands1 == {x, N(2), Lit(Null), Lit(Truth(TRUE)), Lit(<<"real", 12>>), Name("u")} \cup Texts
Expressions ==
  {BinOp(op, Name("u"), e) : op \in {"MUL", "EQ", "OR", "POW"}, e \in Operands1} \cup
  {UnOp(op, e) : op \in {"Plus", "Negate", "Not", "Length"}, e \in Operands1} \cup
  {BinOp(op, Lit(Truth(v)), BinOp("LT", N(1), x)) : op \in {"AND", "OR"}, v \in BOOLEAN} \cup
  {Subscript(Tuple(<<e, x>>), N(1)) : e \in Operands1} \cup
  {Slice(Name("u"), from, to) : from \in {None, N(1)}, to \in {None, x}} \cup
  {Tuple(<<>>), Tuple(<<Tuple(<<x, N(-1)>>), Name("u")>>),
   Apply(Name("abs"), <<BinOp("SUB", x, N(300))>>)}
Targets ==
  {Subscript(Name("u"), e) : e \in {N(0), Plus(x, N(1))}} \cup
  {Slice(Name("u"), from, to) : from \in {None, N(1)}, to \in {None, x}}
Values ==
  LET U == Declaration("u", Tuple(<<N(256), Lit(<<"text", "t">>)>>))
      X == Declaration("x", N(1))
  IN {Program(<<>>, <<X, U, Output(FALSE, <<e, x>>)>>, <<>>) : e \in Expressions} \cup
     {Program(<<>>, <<X, Show(Apply(Name("f"), <<e, N(70000)>>))>>,
              <<Function("f", <<"u", "y">>, <<Set("x", y), Return(Tuple(<<Name("u"), y>>))>>)>>) :
        e \in Operands1 \ {Name("u")}} \cup
     {Program(<<>>, <<X, U, Assignment(t, Plus(x, N(7))), Show(Name("u"))>>, <<>>) : t \in Targets}

Shape == Type("Shape", <<Variant("Dot", <<>>), Variant("Line", <<"length">>)>>)
Trees == {Name("Leaf"), Node(N(1), Name("Leaf")), Node(Node(N(2), N(3)), x)}

Matches(selector) ==
  LET Binds == Case(<<Node(Name("a"), Name("b"))>>,
                    <<Show(Name("a")), Set("a", Name("b")), Show(Tuple(<<Name("a"), Name("b")>>))>>)
      Leafs == Case(<<Name("Leaf")>>, <<Show(N(20))>>)
  IN {Match(1, selector, <<Leafs, Binds>>, <<Show(N(21))>>),
      Match(1, selector, <<Binds>>, <<Show(N(22))>>),
      Match(1, selector, <<Leafs>>, <<>>),
      Match(1, selector,
            <<Case(<<Node(Name("c"), Name("d"))>>,
                   <<Match(2, Name("c"), <<Leafs, Binds>>, <<Show(N(23))>>), Show(Name("d"))>>)>>,
            <<Show(N(24))>>)}
Patterns ==
  LET X == Declaration("x", N(1))
      T(e) == Declaration("t", e)
      Tail1 == <<Declaration("z", N(9)), Show(Name("z"))>>
  IN {Program(<<Tree>>, <<X, T(e), m>> \o Tail1, <<>>) : e \in Trees, m \in Matches(Name("t"))} \cup
     {Program(<<Shape, Tree>>, <<X, Call(Name("f"), <<e>>)>>,
              <<Function("f", <<"t">>, <<m>> \o Tail1)>>) :
        e \in Trees, m \in Matches(Name("t")) \cup Matches(Node(N(4), Name("t")))} \cup
     {Program(<<Tree, Shape>>,
              <<X, T(e), Show(Field(Name("t"), "right")),
                Assignment(Field(Name("t"), "left"), Plus(x, N(1)))>>, <<>>) : e \in Trees} \cup
     {Program(<<Tree, Shape>>, <<T(Apply(Name("Line"), <<N(4)>>)), Show(Field(Name("t"), "length"))>>,
              <<>>)}

-----------------------------------------------------------------------------
(* Modules: each with variables of its own, initialized before its users.  *)

Modular ==
  LET Get(e) == Function("get", <<"k">>, <<Set("g", Plus(Name("g"), Name("k"))), Return(e)>>)
      Lib(name, v, imports) ==
        Module(name, imports, <<>>, <<Declaration("g", N(v)), Show(Name("g"))>>, <<Get(Name("g"))>>)
      Main(imports, body) ==
        Module("a", imports, <<>>, <<Declaration("g", N(1))>> \o body \o <<Show(Name("g"))>>,
               <<Function("own", <<>>, <<Return(Name("g"))>>)>>)
      Use == <<Show(Apply(Name("get"), <<N(2)>>)), Declaration("h", Name("get")),
               Show(Apply(Name("h"), <<N(3)>>)), Show(Apply(Name("own"), <<>>))>>
  IN {<<Lib("b", 10, <<>>), Main(<<<<"get", "b">>>>, Use)>>,
      <<Lib("b", 10, <<>>), Lib("c", 20, <<>>), Main(<<<<"get", "c">>>>, Use)>>,
      <<Lib("c", 20, <<>>), Lib("b", 10, <<>>), Main(<<<<"get", "b">>>>, Use)>>,
      <<Module("b", <<>>, <<Tree>>, <<Declaration("t", Name("Leaf"))>>,
               <<Function("grow", <<"e">>, <<Return(Node(Name("e"), Name("t")))>>)>>),
        Module("a", <<<<"grow", "b">>>>, <<>>,
               <<Declaration("s", Apply(Name("grow"), <<N(1)>>)), Show(Field(Name("s"), "left"))>> \o
                 <<Match(1, Name("s"), <<Case(<<Node(Name("p"), Name("q"))>>, <<Show(Name("q"))>>)>>,
                         <<>>)>>,
               <<>>)>>}

CorrectPrograms == AtTopLevel \cup InFunction \cup Calls \cup Values \cup Patterns \cup Modular
TypedInputs == <<Num(4), Num(5)>>

-----------------------------------------------------------------------------
(* What the documents say and the code does not do: a case with two values, *)
(* and a right operand of и that has an effect.                             *)

\* Outputs 5 for 1 and 3, 6 for 2, and 7 for 4; then false, without the 8 that a call
\* of `answer' outputs.
DocumentedPrograms ==
  {Program(<<>>, <<Declaration("x", N(1)),
                   Repeat(1, N(4), <<Match(2, x, <<Case(<<N(1), N(3)>>, <<Show(N(5))>>),
                                                   Case(<<N(2)>>, <<Show(N(6))>>)>>,
                                            <<Show(N(7))>>),
                                     Set("x", Plus(x, N(1)))>>),
                   Show(BinOp("AND", Lit(Truth(FALSE)), Apply(Name("answer"), <<>>)))>>,
           <<Function("answer", <<>>, <<Show(N(8)), Return(Lit(Truth(TRUE)))>>)>>)}
=============================================================================
