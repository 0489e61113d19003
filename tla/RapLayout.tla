----------------------------- MODULE RapLayout -----------------------------
(***************************************************************************)
(* How a program is written down: parentheses where the precedence of      *)
(* operators asks for them and nowhere else, and bodies as blocks *)
(* or behind what they belong to.  No part of the program, but what its    *)
(* parser is measured by.                                                  *)
(***************************************************************************)
EXTENDS RapSyntax, RapText, SequencesExt, TLC

\* The elements of a set, in some order.
Listed(S) == FoldSet(LAMBDA e, s : Append(s, e), <<>>, S)

W(kind) == <<Token(kind)>>
Between(s, parts) == FlattenSeq([k \in DOMAIN parts |-> (IF k = 1 THEN <<>> ELSE s) \o parts[k]])
NamesOf(xs) == Between(W("Comma"), [k \in DOMAIN xs |-> <<Ident(xs[k])>>])

-----------------------------------------------------------------------------
(* Expressions.  What binds tighter has a higher level.                    *)

\* Between two operands.
BinaryLevels ==
  [OR |-> 1, AND |-> 2, EQ |-> 4, NEQ |-> 4, GT |-> 5, LT |-> 5, GEQ |-> 5, LEQ |-> 5,
   ADD |-> 6, SUB |-> 6, MUL |-> 7, DIV |-> 7, IDIV |-> 7, MOD |-> 7, POW |-> 9]

\* Before one.  Not the table of the language's description, which has the signs on
\* the level of ADD and SUB: the parser's rules, where a sign belongs to the first
\* factor of a product (see SignsLikeTerms of RapReader).
PrefixLevels == [Not |-> 3, Negate |-> 8, Plus |-> 8, Length |-> 10]
FieldLevel == 11
PostfixLevel == 12
Level(e) ==
  CASE e.kind = "binary" -> BinaryLevels[e.op]
    [] e.kind = "unary" -> PrefixLevels[e.op]
    [] e.kind = "field" -> FieldLevel
    [] OTHER -> PostfixLevel

\* The least levels of the operands: one that has the level of its operator is on
\* the side where the operator associates.  Comparisons do not associate.
LeftLevel(op) ==
  IF op = "POW" \/ BinaryLevels[op] \in {4, 5} THEN BinaryLevels[op] + 1 ELSE BinaryLevels[op]
RightLevel(op) == CASE op = "POW" -> 9 [] BinaryLevels[op] = 7 -> 9 [] OTHER -> BinaryLevels[op] + 1

Sign ==
  [OR |-> "Or", AND |-> "And", EQ |-> "Equal", NEQ |-> "NotEqual", GT |-> "Greater", LT |-> "Less",
   GEQ |-> "GreaterOrEqual", LEQ |-> "LessOrEqual", ADD |-> "Plus", SUB |-> "Minus",
   MUL |-> "Star", DIV |-> "Slash", IDIV |-> "SlashSlash", MOD |-> "SlashPercent",
   POW |-> "StarStar", Negate |-> "Minus", Plus |-> "Plus", Not |-> "Not", Length |-> "Hash"]

LiteralWord(v) ==
  CASE v[1] = "int" -> Literal("Integer", v)
    [] v[1] = "real" -> IF v[2] = "pi" THEN Token("Pi") ELSE Literal("Real", v)
    [] v[1] = "text" -> IF v[2] = "newline" THEN Token("Nl") ELSE Literal("Text", v)
    [] v[1] = "bool" -> Token(IF v[2] THEN "True" ELSE "False")
    [] v[1] = "null" -> Token("Null")

\* The words of an expression, the lines of a statement and of several.
RECURSIVE Lay(_, _, _)
Words(e) == Lay(e, 0, "")
Lines(s, indent, style) == Lay(s, indent, style)
LinesOf(body, indent, style) == Lay([kind |-> "body", statements |-> body], indent, style)
Parens(words) == W("LParen") \o words \o W("RParen")
Brackets(words) == W("LBracket") \o words \o W("RBracket")
\* An operand whose level is to be `least' or more.
Operand(e, least) == IF Level(e) < least THEN Parens(Words(e)) ELSE Words(e)
List(es) == Between(W("Comma"), [k \in DOMAIN es |-> Words(es[k])])
Limit(e) == IF e = None THEN <<>> ELSE Words(e)
WordsOf(e) ==
  CASE e.kind = "literal" -> <<LiteralWord(e.value)>>
    [] e.kind = "name" -> <<Ident(e.name)>>
    [] e.kind = "binary" ->
         Operand(e.left, LeftLevel(e.op)) \o W(Sign[e.op]) \o Operand(e.right, RightLevel(e.op))
    [] e.kind = "unary" ->
         W(Sign[e.op]) \o Operand(e.operand, PrefixLevels[e.op] + (IF e.op = "Length" THEN 1 ELSE 0))
    [] e.kind = "field" -> Operand(e.left, PostfixLevel) \o W("Dot") \o <<Ident(e.field)>>
    [] e.kind = "tuple" -> Parens(List(e.elements) \o (IF Len(e.elements) = 1 THEN W("Comma") ELSE <<>>))
    [] e.kind = "call" -> Operand(e.function, PostfixLevel) \o Parens(List(e.arguments))
    [] e.kind = "subscript" -> Operand(e.collection, PostfixLevel) \o Brackets(Words(e.index))
    [] e.kind = "slice" ->
         Operand(e.collection, PostfixLevel) \o Brackets(Limit(e.from) \o W("Colon") \o Limit(e.to))

-----------------------------------------------------------------------------
(* Statements, as lines.  `style' is "blocks"; "short" where a body is put *)
(* behind its head if it has one line and nothing in it could take an      *)
(* `else' that follows; "joined" where statements share lines; or "loose". *)

Compound == {"if", "ifelse", "match", "repeat", "while", "for"}
Optional(kind, e) == IF e = None THEN <<>> ELSE W(kind) \o Words(e)

\* Statements without a body.
Simple(s) ==
  CASE s.kind = "declaration" -> <<Ident(s.name)>> \o W("Declare") \o Words(s.value)
    [] s.kind = "assignment" -> Words(s.target) \o W("Assign") \o Words(s.value)
    [] s.kind = "output" ->
         W("Output") \o (IF s.no_newline THEN W("NoNewline") ELSE <<>>) \o W("Colon") \o List(s.values)
    [] s.kind = "input" ->
         W("Input") \o (IF s.text_mode THEN W("AsText") ELSE <<>>) \o W("Colon") \o List(s.targets)
    [] s.kind = "exit" -> W("Exit")
    [] s.kind = "return" -> W("Return") \o Words(s.value)
    [] s.kind = "return nothing" -> W("Return")
    [] s.kind = "procedure" -> Words(Apply(s.procedure, s.arguments))

Step == 2
\* What may follow on the same line: not what a value could be missed for.
Greedy(s) == s.kind = "return nothing" \/ (s.kind = "output" /\ s.values = <<>>)
Joins(s, t) == s.kind \notin Compound /\ t.kind \notin Compound /\ ~Greedy(s)
BodyLines(body, indent, style) ==
  LET Next(lines, k) ==
        IF style = "joined" /\ k > 1 /\ Joins(body[k - 1], body[k])
        THEN Append(Front(lines), Line(indent, Last(lines).words \o Simple(body[k])))
        ELSE lines \o Lines(body[k], indent, style)
  IN FoldLeft(Next, <<>>, [k \in DOMAIN body |-> k])
With(head, body, indent, style) ==
  LET below == LinesOf(body, indent + Step, style)
  IN IF style = "short" /\ Len(below) = 1 /\ body[1].kind # "if"
     THEN <<Line(indent, head \o below[1].words)>>
     ELSE <<Line(indent, head)>> \o below
ElseLines(body, indent, style) ==
  IF body = <<>> THEN <<>> ELSE With(W("Else"), body, indent, style)
MatchLines(s, indent, style) ==
  LET inner == indent + Step
      One(c) == With(W("When") \o List(c.values) \o W("Colon"), c.body, inner, style)
  IN <<Line(indent, W("Select") \o Words(s.expression))>> \o
     FlattenSeq([k \in DOMAIN s.cases |-> One(s.cases[k])]) \o ElseLines(s.else_body, inner, style)

StatementLines(s, indent, style) ==
  CASE s.kind = "if" ->
         With(W("If") \o Words(s.condition) \o W("Then"), s.then_body, indent, style)
    [] s.kind = "ifelse" ->
         With(W("If") \o Words(s.condition) \o W("Then"), s.then_body, indent, style) \o
         ElseLines(s.else_body, indent, style)
    [] s.kind = "match" -> MatchLines(s, indent, style)
    [] s.kind = "repeat" ->
         With(W("Repeat") \o Words(s.count) \o W("Loop"), s.body, indent, style)
    [] s.kind = "while" ->
         With(W("While") \o Words(s.condition) \o W("Loop"), s.body, indent, style)
    [] s.kind = "for" ->
         With(W("For") \o <<Ident(s.variable)>> \o Optional("From", s.from) \o Optional("To", s.to) \o
                Optional("Step", s.step) \o W("Loop"),
              s.body, indent, style)
    [] s.kind = "body" -> BodyLines(s.statements, indent, style)
    [] OTHER -> <<Line(indent, Simple(s))>>

Lay(x, indent, style) ==
  IF x.kind \in ExpressionKinds THEN WordsOf(x) ELSE StatementLines(x, indent, style)

-----------------------------------------------------------------------------
(* Definitions, and the whole text.                                        *)

FunctionLines(f, style) ==
  LET Names(kind) ==
        IF f.names[kind] = <<>> THEN <<>>
        ELSE <<Line(Step, W(kind) \o W("Colon") \o NamesOf(f.names[kind]))>>
      name == IF f.function.name = "" THEN <<>> ELSE <<Ident(f.function.name)>>
  IN <<Line(0, W("Fun") \o name \o Parens(NamesOf(f.function.parameters)))>> \o
     Names("Own") \o Names("Foreign") \o LinesOf(f.function.body, Step, style)
TypeLines(t) ==
  LET Variant1(x) ==
        Line(Step, <<Ident(x)>> \o (IF t.variants[x] = <<>> THEN <<>> ELSE Parens(NamesOf(t.variants[x]))))
  IN <<Line(0, W("Type") \o <<Ident(t.name)>>)>> \o
     Listed({Variant1(x) : x \in DOMAIN t.variants})
ImportLines(imports) ==
  Listed({Line(0, W("Import") \o <<Literal("Text", <<"text", m>>)>> \o Parens(NamesOf(imports[m]))) :
              m \in DOMAIN imports})

\* Within delimiters a line may end anywhere, and its indentation is nothing.
Broken(l) ==
  LET opened == {k \in DOMAIN l.words : l.words[k].kind \in Opening}
      cuts == SelectSeq([k \in 1..(Len(l.words) + 1) |-> k - 1],
                        LAMBDA k : k \in opened \cup {0, Len(l.words)})
  IN [k \in 1..(Len(cuts) - 1) |->
        Line(IF k = 1 THEN l.indent ELSE 1, SubSeq(l.words, cuts[k] + 1, cuts[k + 1]))]
\* Style "loose" also has blank lines between the others, and one at the end.
Loose(lines) == FlattenSeq([k \in DOMAIN lines |-> Broken(lines[k]) \o <<Line(9, <<>>)>>])

LaidOut(m, style) ==
  LET lines == ImportLines(m.imports) \o
               FlattenSeq([k \in DOMAIN m.types |-> TypeLines(m.types[k])]) \o
               FlattenSeq([k \in DOMAIN m.functions |-> FunctionLines(m.functions[k], style)]) \o
               LinesOf(m.toplevel, 0, style)
  IN IF style = "loose" THEN Loose(lines) ELSE lines
=============================================================================
