----------------------------- MODULE MCRapReader -----------------------------
(***************************************************************************)
(* Texts for RapReader: programs laid out in every style - every operator  *)
(* among the operands of every other one, every statement inside every     *)
(* other one, definitions - the same cut off anywhere, and small texts of  *)
(* nothing but layout.                                                     *)
(***************************************************************************)
EXTENDS RapReader, RapLayout

a == Name("a")
b == Name("b")
N(n) == Lit(Num(n))
Program(imports, types, functions, toplevel) ==
  [imports |-> imports, types |-> types, functions |-> functions, toplevel |-> toplevel]
TopLevel(body) == Program(<<>>, <<>>, <<>>, body)

-----------------------------------------------------------------------------
(* Expressions.                                                            *)

Binaries(l, r) == {BinOp(op, l, r) : op \in DOMAIN BinaryLevels}
Unaries(e) == {UnOp(op, e) : op \in DOMAIN PrefixLevels}
Others(e) ==
  {Field(e, "x"), Apply(e, <<>>), Apply(b, <<e, a>>), Subscript(e, b), Subscript(b, e),
   Slice(e, None, None), Slice(b, e, None), Slice(b, None, e), Slice(b, e, a),
   Tuple(<<e>>), Tuple(<<e, b>>)}
Literals ==
  {N(1), Lit(<<"real", "1.5">>), Lit(<<"text", "t">>), Lit(Null), Lit(Truth(TRUE)),
   Lit(Truth(FALSE)), Lit(<<"text", "newline">>), Lit(<<"real", "pi">>), Tuple(<<>>)}
Depth1 == Binaries(a, b) \cup Unaries(a) \cup Others(a)
\* Each operator with each other one on both sides of it.
Depth2 ==
  {Output(FALSE, Listed(Binaries(e, b))) : e \in Depth1} \cup
  {Output(FALSE, Listed(Binaries(a, e))) : e \in Depth1} \cup
  {Output(FALSE, Listed(Unaries(e))) : e \in Depth1} \cup
  {Output(TRUE, Listed(Others(e))) : e \in Depth1 \cup Literals}
Expressions == {TopLevel(<<s>>) : s \in Depth2}

-----------------------------------------------------------------------------
(* Statements.                                                             *)

SimpleStatements ==
  {Declaration("x", N(1)), Assignment(a, b), Assignment(Field(a, "x"), b),
   Assignment(Subscript(a, N(1)), b), Assignment(Slice(a, None, b), b),
   Output(TRUE, <<>>), Input(TRUE, <<a>>), Input(FALSE, <<Subscript(a, b), Slice(b, a, None), a>>),
   Exit, Return(a), ReturnNothing, Call(a, <<b, N(1)>>)}
\* The statements that have bodies, with these.
Around(body, other) ==
  {If(a, body), IfElse(BinOp("EQ", a, b), body, other), While(a, body), Repeat(0, N(3), body),
   Repeat(0, Tuple(<<a>>), body), For("x", None, None, None, body), For("x", a, b, N(2), body),
   For("x", None, a, None, body), Match(0, a, <<Case(<<N(1), N(2)>>, body)>>, <<>>),
   Match(0, Apply(a, <<b>>), <<Case(<<N(1)>>, other), Case(<<N(2)>>, body)>>, other),
   Match(0, a, <<Case(<<a>>, other)>>, body)}
One == <<Output(FALSE, <<a>>)>>
Two == <<Assignment(a, b), Call(b, <<>>)>>
Inner == UNION {Around(One, Two), Around(Two, One)}
Statements ==
  {TopLevel(<<c, s>>) : c \in Around(One, Two), s \in SimpleStatements} \cup
  {TopLevel(<<s>>) : s \in UNION {Around(<<i>>, <<s>>) : i \in SimpleStatements, s \in {Exit}}} \cup
  {TopLevel(<<s>>) : s \in UNION {Around(<<i>>, One) : i \in Inner}} \cup
  {TopLevel(<<s>>) : s \in UNION {Around(<<Exit, i>>, <<i, Exit>>) : i \in Around(Two, One)}}

-----------------------------------------------------------------------------
(* Definitions.                                                            *)

Defined(f, own, foreign) == [function |-> f, names |-> [Own |-> own, Foreign |-> foreign]]
Tree == Type("T", "Leaf" :> <<>> @@ "Node" :> <<"l", "r">>)
Functions ==
  {Defined(Function(name, params, body), own, foreign) :
     name \in {"", "f"}, params \in {<<>>, <<"x", "y">>}, own \in {<<>>, <<"z">>},
     foreign \in {<<>>, <<"u", "v">>}, body \in {<<Return(a)>>, <<If(a, One)>> \o Two}}
Whole ==
  {Program("m" :> <<"g", "h">> @@ "n" :> <<>>, <<Tree>>, <<f, f>>, One) : f \in Functions}
ImportedTwice ==
  [source |-> ImportLines("m" :> <<"f">>) \o LaidOut(Program("m" :> <<"g">>, <<>>, <<>>, One), "blocks"),
   program |-> Program("m" :> <<"g">>, <<>>, <<>>, One)]

Styled(programs, styles) ==
  {[source |-> LaidOut(m, style), program |-> m] : m \in programs, style \in styles}

-----------------------------------------------------------------------------
(* Texts that are no programs, or need not be.                             *)

\* The first n words of a text of one program, on as many lines as they take.
Sample ==
  LaidOut(Program("m" :> <<"g">>, <<Tree>>,
                  <<Defined(Function("f", <<"x", "y">>, <<CHOOSE s \in Around(One, Two) : s.kind = "match">> \o One),
                            <<"z">>, <<"u">>)>>, <<For("x", a, b, N(2), Two)>>), "blocks")
CutAt(lines, l, w) == Append(SubSeq(lines, 1, l - 1), Line(lines[l].indent, SubSeq(lines[l].words, 1, w)))
Without(lines, l) == SubSeq(lines, 1, l - 1) \o SubSeq(lines, l + 1, Len(lines))
Damaged ==
  UNION {{CutAt(Sample, l, w) : w \in 0..Len(Sample[l].words)} : l \in DOMAIN Sample} \cup
  {Without(Sample, l) : l \in DOMAIN Sample} \cup {<<Line(0, W("Loop"))>>, <<Line(0, W("Select"))>>}

\* Lines of one word.
LayoutLines ==
  {Line(i, <<Ident("a")>>) : i \in 0..2} \cup
  {Line(1, <<>>), Tabbed(<<Ident("a")>>), Line(1, W("LParen")), Line(0, W("RParen")), Line(2, <<Bad>>)}
Puzzles(n) == UNION {[1..k -> LayoutLines] : k \in 1..n}
Steps(n) == UNION {[1..k -> {Line(i, <<Ident("a")>>) : i \in 0..3}] : k \in 1..n}

Unintended(sources) == {[source |-> s, program |-> None] : s \in sources}

AllTexts ==
  Styled(Expressions, {"blocks", "loose"}) \cup
  Styled(Statements \cup Whole, {"blocks", "short", "joined", "loose"}) \cup
  {ImportedTwice} \cup Unintended(Damaged \cup Puzzles(4) \cup Steps(5))

\* What the documents say is no program, or another one: output of -a // b behind a tab.
DocumentedTexts ==
  Unintended({<<Tabbed(W("Output") \o W("Colon") \o W("Minus") \o <<Ident("a")>> \o
                       W("SlashSlash") \o <<Ident("b")>>)>>})

SourcesOf(texts) == {t.source : t \in texts}
AllSources == SourcesOf(AllTexts)
DocumentedSources == SourcesOf(DocumentedTexts)
WordsOfAll(sources) == UNION {UNION {ToSet(s[l].words) : l \in DOMAIN s} : s \in sources}
AllWords == WordsOfAll(AllSources)
DocumentedWords == WordsOfAll(DocumentedSources)
=============================================================================
