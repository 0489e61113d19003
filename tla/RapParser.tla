----------------------------- MODULE RapParser -----------------------------
(***************************************************************************)
(* The parser of parser.rs: recursive descent with one token of lookahead. *)
(*                                                                         *)
(* p is the parser: the tokens, which of them is current, and what the     *)
(* method that was called last has returned: its status, `value' and the   *)
(* position where the value is said to start.  A status other than "ok" is *)
(* what the operator ? does: no method after it changes anything.          *)
(*                                                                         *)
(* Left out: the messages of errors, where things end, and the positions   *)
(* that only messages show.                                                *)
(***************************************************************************)
EXTENDS RapSyntax, RapText, SequencesExt, TLC

ParserOf(tokens, i) ==
  [tokens |-> tokens, i |-> i, status |-> "ok", value |-> None, at |-> <<0, 0>>]

Ok(p) == p.status = "ok"
AtEnd(p) == p.i > Len(p.tokens)
Peek(p) == IF Ok(p) /\ ~AtEnd(p) THEN p.tokens[p.i].token.kind ELSE "none"

\* Mutant: a position is a line.
LineOf(p) == IF AtEnd(p) THEN <<0, 0>> ELSE <<p.tokens[p.i].at[1], 0>>

Position(p) == IF AtEnd(p) THEN <<0, 0>> ELSE p.tokens[p.i].at

Advance(p) == [p EXCEPT !.i = @ + 1]
Stop(p, status) == IF Ok(p) THEN [p EXCEPT !.status = status] ELSE p
Fail(p) == Stop(p, "error")
Eat(p, kind) == IF Peek(p) = kind THEN Advance(p) ELSE p
Expect(p, kind) == IF Peek(p) = kind THEN Advance(p) ELSE Fail(p)
SkipNewlines(p) ==
  LET Past(i) == i > Len(p.tokens) \/ p.tokens[i].token.kind # "Newline"
  IN IF Peek(p) # "Newline" THEN p
     ELSE [p EXCEPT !.i = CHOOSE i \in p.i..(Len(p.tokens) + 1) :
                            Past(i) /\ \A j \in p.i..(i - 1) : ~Past(j)]

Give(p, v) == IF Ok(p) THEN [p EXCEPT !.value = v] ELSE p
GiveAt(p, v, at) == IF Ok(p) THEN [p EXCEPT !.value = v, !.at = at] ELSE p
ExpectIdent(p) ==
  IF Peek(p) = "Ident" THEN Give(Advance(p), p.tokens[p.i].token.name) ELSE Fail(p)

StartsExpression(p) ==
  Peek(p) \in {"Ident", "Integer", "Real", "Text", "Null", "True", "False", "Nl", "Pi",
               "LParen", "Minus", "Plus", "Hash", "Not"}
StartsStatement(p) ==
  Peek(p) \in {"Ident", "If", "Select", "For", "While", "Repeat", "Loop", "Output", "Input",
               "Exit", "Return"}

\* The parser after a rule of the grammar.
RECURSIVE Parse(_, _)

-----------------------------------------------------------------------------
(* Expressions, from `or' to what binds tightest.                          *)

OrOps == [Or |-> "OR"]
AndOps == [And |-> "AND"]
EqualityOps == [Equal |-> "EQ", NotEqual |-> "NEQ"]
OrderingOps == [Greater |-> "GT", Less |-> "LT", GreaterOrEqual |-> "GEQ", LessOrEqual |-> "LEQ"]
AddOps == [Plus |-> "ADD", Minus |-> "SUB"]
MulOps == [Star |-> "MUL", Slash |-> "DIV", SlashSlash |-> "IDIV", SlashPercent |-> "MOD"]

\* p has given the left operand.
BinaryOf(p, ops, operand) ==
  LET right == Parse(Advance(p), operand)
  IN GiveAt(right, BinOp(ops[Peek(p)], p.value, right.value), p.at)

\* Left-associative: what has been read becomes the left operand of what follows,
\* which `rule' reads.
Chain(p, ops, operand, rule) ==
  IF Peek(p) \in DOMAIN ops THEN Parse(BinaryOf(p, ops, operand), rule) ELSE p

ParseOr(p) == Parse(Parse(p, "and"), "more or")
MoreOr(p) == Chain(p, OrOps, "and", "more or")
ParseAnd(p) == Parse(Parse(p, "not"), "more and")
MoreAnd(p) == Chain(p, AndOps, "not", "more and")

\* A prefix gives its operand's position.
Prefix(p, op, rule) ==
  LET operand == Parse(Advance(p), rule) IN Give(operand, UnOp(op, operand.value))

ParseNot(p) == IF Peek(p) = "Not" THEN Prefix(p, "Not", "not") ELSE Parse(p, "equality")

\* Not associative: one operator at most.
OneOf(p, ops, operand) ==
  LET left == Parse(p, operand)
  IN IF Peek(left) \in DOMAIN ops THEN BinaryOf(left, ops, operand) ELSE left

ParseEquality(p) == OneOf(p, EqualityOps, "ordering")
ParseOrdering(p) == OneOf(p, OrderingOps, "add")

ParseAdd(p) == Parse(Parse(p, "mul"), "more add")

\* Mutant: addition is right-associative.
MoreAddRight(p) == IF Peek(p) \in DOMAIN AddOps THEN BinaryOf(p, AddOps, "add") ELSE p

MoreAdd(p) == Chain(p, AddOps, "mul", "more add")

\* Only the first operand may have a sign.
ParseMul(p) == Parse(Parse(p, "unary"), "more mul")
MoreMul(p) == Chain(p, MulOps, "power", "more mul")

ParseUnary(p) ==
  CASE Peek(p) = "Minus" -> Prefix(p, "Negate", "unary")
    [] Peek(p) = "Plus" -> Prefix(p, "Plus", "unary")
    [] OTHER -> Parse(p, "power")

ParsePower(p) ==
  LET base == Parse(p, "length")
  IN IF Peek(base) = "StarStar" THEN BinaryOf(base, [StarStar |-> "POW"], "power") ELSE base

ParseLength(p) == IF Peek(p) = "Hash" THEN Prefix(p, "Length", "field") ELSE Parse(p, "field")

\* One field at most.
ParseField(p) ==
  LET e == Parse(p, "postfix")
      x == ExpectIdent(Advance(e))
  IN IF Peek(e) = "Dot" THEN Give(x, Field(e.value, x.value)) ELSE e

\* After `[': an index, or a slice with the bounds it has.
SubscriptOrSlice(p, collection) ==
  LET Closed(q, v) == GiveAt(Expect(q, "RBracket"), v, Position(p))
      Upper(q) == IF Peek(q) = "RBracket" THEN Give(q, None) ELSE Parse(q, "or")
      first == Parse(p, "or")
      to == Upper(Advance(IF Peek(p) = "Colon" THEN p ELSE first))
  IN CASE Peek(p) = "Colon" -> Closed(to, Slice(collection, None, to.value))
       [] Peek(p) # "Colon" /\ Peek(first) = "Colon" ->
            Closed(to, Slice(collection, first.value, to.value))
       [] OTHER -> Closed(first, Subscript(collection, first.value))

\* Expressions with commas between them; those of a call may be none.
ParseExpressions(p) ==
  LET e == Parse(p, "or")
      more == Parse(Advance(e), "expressions")
  IN IF Peek(e) = "Comma" THEN Give(more, <<e.value>> \o more.value) ELSE Give(e, <<e.value>>)
Arguments(p) == IF Peek(p) = "RParen" THEN Give(p, <<>>) ELSE Parse(p, "expressions")

\* p has given what the brackets and arguments are for.
MorePostfix(p) ==
  LET args == Arguments(Advance(p))
  IN CASE Peek(p) = "LBracket" -> Parse(SubscriptOrSlice(Advance(p), p.value), "more postfix")
       [] Peek(p) = "LParen" ->
            Parse(GiveAt(Expect(args, "RParen"), Apply(p.value, args.value), p.at),
                  "more postfix")
       [] OTHER -> p
ParsePostfix(p) == Parse(Parse(p, "primary"), "more postfix")

LiteralOf(token) ==
  CASE token.kind \in {"Integer", "Real", "Text"} -> Lit(token.value)
    [] token.kind = "Null" -> Lit(Null)
    [] token.kind \in {"True", "False"} -> Lit(Truth(token.kind = "True"))
    [] token.kind = "Nl" -> Lit(<<"text", "newline">>)
    [] token.kind = "Pi" -> Lit(<<"real", "pi">>)
LiteralKinds == {"Integer", "Real", "Text", "Null", "True", "False", "Nl", "Pi"}

\* After `(': a tuple if there is a comma or nothing.
Parenthesized(p) ==
  LET e == Parse(p, "or")
      rest == IF Peek(Advance(e)) = "RParen" THEN Give(Advance(e), <<>>)
              ELSE Parse(Advance(e), "expressions")
      opened == p.tokens[p.i - 1].at
  IN CASE Peek(p) = "RParen" -> GiveAt(Advance(p), Tuple(<<>>), Position(Advance(p)))
       [] Peek(e) = "Comma" ->
            GiveAt(Expect(rest, "RParen"), Tuple(<<e.value>> \o rest.value), opened)
       [] OTHER -> Expect(e, "RParen")

\* A literal and a name are said to be where the token after them is.
ParsePrimary(p) ==
  CASE Peek(p) \in LiteralKinds ->
         GiveAt(Advance(p), LiteralOf(p.tokens[p.i].token), Position(Advance(p)))
    [] Peek(p) = "Ident" ->
         GiveAt(Advance(p), Name(p.tokens[p.i].token.name), Position(Advance(p)))
    [] Peek(p) = "LParen" -> Parenthesized(Advance(p))
    [] OTHER -> Fail(p)

-----------------------------------------------------------------------------
(* Statements.                                                             *)

\* Statements up to what cannot start one.
ParseStatements(p) ==
  LET s == Parse(SkipNewlines(p), "statement")
      rest == Parse(s, "statements")
  IN IF StartsStatement(SkipNewlines(p)) THEN Give(rest, <<s.value>> \o rest.value)
     ELSE Give(SkipNewlines(p), <<>>)

Block(p) == Expect(Parse(Expect(Expect(p, "Newline"), "Indent"), "statements"), "Dedent")
BlockOrSingle(p) ==
  LET s == Parse(p, "statement")
  IN IF Peek(p) = "Newline" THEN Block(p) ELSE Give(s, <<s.value>>)

\* An `else' on the same line or after newlines; <<>> if there is none, for a block
\* has statements.
Else(p) ==
  LET q == SkipNewlines(p)
  IN IF Peek(q) = "Else" THEN BlockOrSingle(Advance(q)) ELSE Give(q, <<>>)

Conditional(p) ==
  LET c == Parse(Advance(p), "or")
      then == BlockOrSingle(Expect(c, "Then"))
      other == Else(then)
      has_else == Peek(SkipNewlines(then)) = "Else"
  IN Give(other, IF has_else THEN IfElse(c.value, then.value, other.value)
                 ELSE If(c.value, then.value))

\* p has given the cases so far.
MoreCases(p) ==
  LET values == Parse(Advance(p), "expressions")
      body == BlockOrSingle(Expect(values, "Colon"))
      one == Give(SkipNewlines(body), Append(p.value, Case(values.value, body.value)))
  IN IF Peek(p) = "When" THEN Parse(one, "more cases") ELSE p

\* A selection without an expression is an error.
Selection(p) ==
  LET e == Parse(Advance(p), "or")
      block == SkipNewlines(Expect(Expect(e, "Newline"), "Indent"))
      cases == Parse(Give(block, <<>>), "more cases")
      other == Else(cases)
  IN Give(Expect(SkipNewlines(other), "Dedent"),
          Match(Position(p), e.value, cases.value, other.value))

\* A bound of a loop behind its keyword, if it is there.
Bound(p, kind) == IF Peek(p) = kind THEN Parse(Advance(p), "or") ELSE Give(p, None)

\* Every loop goes on with `loop' and a body.
Loop(p) ==
  LET e == Parse(Advance(p), "or")
      x == ExpectIdent(Advance(p))
      from == Bound(x, "From")
      to == Bound(from, "To")
      step == Bound(to, "Step")
      Body(header) == BlockOrSingle(Expect(header, "Loop"))
  IN CASE Peek(p) = "Repeat" -> Give(Body(e), Repeat(e.at, e.value, Body(e).value))
       [] Peek(p) = "While" -> Give(Body(e), While(e.value, Body(e).value))
       [] Peek(p) = "For" ->
            Give(Body(step), For(x.value, from.value, to.value, step.value, Body(step).value))
       [] OTHER -> Fail(p)

OutputStatement(p) ==
  LET no_newline == Peek(Advance(p)) = "NoNewline"
      q == Expect(Eat(Advance(p), "NoNewline"), "Colon")
      values == IF StartsExpression(q) THEN Parse(q, "expressions") ELSE Give(q, <<>>)
  IN Give(values, Output(no_newline, values.value))

\* What is read into: a name, or an element or a slice of what has that name.
LValue(p) ==
  LET x == ExpectIdent(p)
  IN IF Peek(x) = "LBracket" THEN SubscriptOrSlice(Advance(x), Name(x.value))
     ELSE Give(x, Name(x.value))
LValues(p) ==
  LET target == LValue(p)
      more == Parse(Advance(target), "targets")
  IN IF Peek(target) = "Comma" THEN Give(more, <<target.value>> \o more.value)
     ELSE Give(target, <<target.value>>)
InputStatement(p) ==
  LET text_mode == Peek(Advance(p)) = "AsText"
      targets == LValues(Expect(Eat(Advance(p), "AsText"), "Colon"))
  IN Give(targets, Input(text_mode, targets.value))

\* Greedy: what can be the value is the value.
ReturnStatement(p) ==
  LET e == Parse(Advance(p), "or")
  IN IF StartsExpression(Advance(p)) THEN Give(e, Return(e.value))
     ELSE Give(Advance(p), ReturnNothing)

\* A name: a call, a declaration, or an assignment to it or to a part of it.
IdentStatement(p) ==
  LET x == ExpectIdent(p)
      args == Arguments(Advance(x))
      field == ExpectIdent(Advance(x))
      value == Parse(Advance(x), "or")
      target == CASE Peek(x) = "Dot" -> Give(field, Field(Name(x.value), field.value))
                  [] Peek(x) = "LBracket" -> SubscriptOrSlice(Advance(x), Name(x.value))
                  [] OTHER -> Give(x, Name(x.value))
      assigned == Parse(Expect(target, "Assign"), "or")
  IN CASE Peek(x) = "LParen" -> Give(Expect(args, "RParen"), Call(Name(x.value), args.value))
       [] Peek(x) = "Declare" -> Give(value, Declaration(x.value, value.value))
       [] OTHER -> Give(assigned, Assignment(target.value, assigned.value))

ParseStatement(p) ==
  CASE Peek(p) = "Output" -> OutputStatement(p)
    [] Peek(p) = "Input" -> InputStatement(p)
    [] Peek(p) = "If" -> Conditional(p)
    [] Peek(p) = "Select" -> Selection(p)
    [] Peek(p) \in {"For", "While", "Repeat", "Loop"} -> Loop(p)
    [] Peek(p) = "Exit" -> Give(Advance(p), Exit)
    [] Peek(p) = "Return" -> ReturnStatement(p)
    [] Peek(p) = "Ident" -> IdentStatement(p)
    [] OTHER -> Fail(p)

-----------------------------------------------------------------------------
(* Definitions.                                                            *)

\* Names with commas between them; those of parameters may be none.
ParseNames(p) ==
  LET x == ExpectIdent(p)
      more == Parse(Advance(x), "names")
  IN IF Peek(x) = "Comma" THEN Give(more, <<x.value>> \o more.value) ELSE Give(x, <<x.value>>)
Parameters(p) == IF Peek(p) = "RParen" THEN Give(p, <<>>) ELSE Parse(p, "names")

\* Foreign and own names, in any order; a second list of a kind replaces the first.
NameDeclarations(p) ==
  LET One(q) ==
        LET r == SkipNewlines(q)
            names == Parse(Expect(Advance(r), "Colon"), "names")
        IN IF Peek(r) \notin {"Foreign", "Own"} THEN r
           ELSE Give(names, [q.value EXCEPT ![Peek(r)] = names.value])
  IN One(One(Give(p, [Foreign |-> <<>>, Own |-> <<>>])))

\* A function need not have a name.
FunctionDefinition(p) ==
  LET name == IF Peek(Advance(p)) = "Ident" THEN ExpectIdent(Advance(p)) ELSE Give(Advance(p), "")
      params == Parameters(Expect(name, "LParen"))
      declared == NameDeclarations(Expect(Expect(Expect(params, "RParen"), "Newline"), "Indent"))
      body == Parse(declared, "statements")
  IN Give(Expect(body, "Dedent"),
          [function |-> Function(name.value, params.value, body.value),
           names |-> declared.value])

\* The name of the module has to be there: at the end of the text this panics.
ImportStatement(p) ==
  LET q == Advance(p)
      names == Expect(Parameters(Expect(Advance(q), "LParen")), "RParen")
  IN CASE AtEnd(q) -> Stop(q, "panic")
       [] Peek(q) = "Text" -> Give(names, [from |-> q.tokens[q.i].token.value[2], names |-> names.value])
       [] OTHER -> Fail(q)

\* p has given the variants so far; a second one of a name replaces the first.
MoreVariants(p) ==
  LET x == ExpectIdent(p)
      fields == IF Peek(x) = "LParen" THEN Expect(Parameters(Advance(x)), "RParen")
                ELSE Give(x, <<>>)
  IN IF Peek(p) = "Dedent" THEN p
     ELSE Parse(Give(SkipNewlines(fields), (x.value :> fields.value) @@ p.value), "more variants")
TypeDefinition(p) ==
  LET name == ExpectIdent(Advance(p))
      variants == Parse(Give(Expect(SkipNewlines(name), "Indent"), <<>>), "more variants")
  IN Give(Expect(variants, "Dedent"), Type(name.value, variants.value))

Parse(p, rule) ==
  CASE ~Ok(p) -> p
    [] Ok(p) /\ rule = "or" -> ParseOr(p)
    [] Ok(p) /\ rule = "more or" -> MoreOr(p)
    [] Ok(p) /\ rule = "and" -> ParseAnd(p)
    [] Ok(p) /\ rule = "more and" -> MoreAnd(p)
    [] Ok(p) /\ rule = "not" -> ParseNot(p)
    [] Ok(p) /\ rule = "equality" -> ParseEquality(p)
    [] Ok(p) /\ rule = "ordering" -> ParseOrdering(p)
    [] Ok(p) /\ rule = "add" -> ParseAdd(p)
    [] Ok(p) /\ rule = "more add" -> MoreAdd(p)
    [] Ok(p) /\ rule = "mul" -> ParseMul(p)
    [] Ok(p) /\ rule = "more mul" -> MoreMul(p)
    [] Ok(p) /\ rule = "unary" -> ParseUnary(p)
    [] Ok(p) /\ rule = "power" -> ParsePower(p)
    [] Ok(p) /\ rule = "length" -> ParseLength(p)
    [] Ok(p) /\ rule = "field" -> ParseField(p)
    [] Ok(p) /\ rule = "postfix" -> ParsePostfix(p)
    [] Ok(p) /\ rule = "more postfix" -> MorePostfix(p)
    [] Ok(p) /\ rule = "primary" -> ParsePrimary(p)
    [] Ok(p) /\ rule = "expressions" -> ParseExpressions(p)
    [] Ok(p) /\ rule = "statement" -> ParseStatement(p)
    [] Ok(p) /\ rule = "statements" -> ParseStatements(p)
    [] Ok(p) /\ rule = "more cases" -> MoreCases(p)
    [] Ok(p) /\ rule = "targets" -> LValues(p)
    [] Ok(p) /\ rule = "names" -> ParseNames(p)
    [] Ok(p) /\ rule = "more variants" -> MoreVariants(p)
    [] Ok(p) /\ rule = "function" -> FunctionDefinition(p)
    [] Ok(p) /\ rule = "import" -> ImportStatement(p)
    [] Ok(p) /\ rule = "type" -> TypeDefinition(p)
=============================================================================
