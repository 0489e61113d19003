------------------------------ MODULE RapSyntax ------------------------------
(***************************************************************************)
(* The syntax trees of ast.rs, and the values that programs compute with.  *)
(* A literal is a value; a text is a value with a name for its contents.   *)
(* What a program can observe are the calls of the runtime it makes.       *)
(***************************************************************************)
EXTENDS Integers, Sequences

None == [kind |-> "none"]

(* Values, and what the runtime makes of them.  Numbers and truth values are
   computed; what becomes of anything else is a term that says so. *)
Num(n) == <<"int", n>>
Truth(b) == <<"bool", b>>
Null == <<"null">>
Entered(text_mode, v) == IF text_mode THEN <<"typed", v>> ELSE v

Numbers(a, b) == a[1] = "int" /\ b[1] = "int"
Truths(a, b) == a[1] = "bool" /\ b[1] = "bool"
Binary(op, a, b) ==
  CASE op = "ADD" /\ Numbers(a, b) -> Num(a[2] + b[2])
    [] op = "SUB" /\ Numbers(a, b) -> Num(a[2] - b[2])
    [] op = "GT" /\ Numbers(a, b) -> Truth(a[2] > b[2])
    [] op = "LT" /\ Numbers(a, b) -> Truth(a[2] < b[2])
    [] op = "LEQ" /\ Numbers(a, b) -> Truth(a[2] <= b[2])
    [] op = "GEQ" /\ Numbers(a, b) -> Truth(a[2] >= b[2])
    [] op = "EQ" -> Truth(a = b)
    [] op = "AND" /\ Truths(a, b) -> Truth(a[2] /\ b[2])
    [] op = "OR" /\ Truths(a, b) -> Truth(a[2] \/ b[2])
    [] OTHER -> <<op, a, b>>
Unary(op, a) ==
  CASE op = "Negate" /\ a[1] = "int" -> Num(-a[2])
    [] op = "Not" /\ a[1] = "bool" -> Truth(~a[2])
    [] OTHER -> <<op, a>>

(* Expressions. *)
Lit(v) == [kind |-> "literal", value |-> v]
Name(x) == [kind |-> "name", name |-> x]
BinOp(op, l, r) == [kind |-> "binary", op |-> op, left |-> l, right |-> r]
Field(e, x) == [kind |-> "field", left |-> e, field |-> x]
UnOp(op, e) == [kind |-> "unary", op |-> op, operand |-> e]
Tuple(es) == [kind |-> "tuple", elements |-> es]
Apply(f, args) == [kind |-> "call", function |-> f, arguments |-> args]
Subscript(c, i) == [kind |-> "subscript", collection |-> c, index |-> i]
Slice(c, from, to) == [kind |-> "slice", collection |-> c, from |-> from, to |-> to]

ExpressionKinds ==
  {"literal", "name", "binary", "field", "unary", "tuple", "call", "subscript", "slice"}

(* Statements. *)
Declaration(x, e) == [kind |-> "declaration", name |-> x, value |-> e]
Assignment(target, e) == [kind |-> "assignment", target |-> target, value |-> e]
Output(no_newline, es) == [kind |-> "output", no_newline |-> no_newline, values |-> es]
\* text_mode: what is typed is a text whatever it looks like.
Input(text_mode, targets) == [kind |-> "input", text_mode |-> text_mode, targets |-> targets]
\* `at' is where the count stands in the text.
Repeat(at, n, body) == [kind |-> "repeat", at |-> at, count |-> n, body |-> body]
For(x, from, to, step, body) ==
  [kind |-> "for", variable |-> x, from |-> from, to |-> to, step |-> step, body |-> body]
While(c, body) == [kind |-> "while", condition |-> c, body |-> body]
Exit == [kind |-> "exit"]
Return(e) == [kind |-> "return", value |-> e]
ReturnNothing == [kind |-> "return nothing"]
If(c, then_body) == [kind |-> "if", condition |-> c, then_body |-> then_body]
IfElse(c, then_body, else_body) ==
  [kind |-> "ifelse", condition |-> c, then_body |-> then_body, else_body |-> else_body]
Case(values, body) == [values |-> values, body |-> body]
Match(at, e, cases, else_body) ==
  [kind |-> "match", at |-> at, expression |-> e, cases |-> cases, else_body |-> else_body]
Call(f, args) == [kind |-> "procedure", procedure |-> f, arguments |-> args]

(* Programs: modules, each after those it imports. *)
Function(name, parameters, body) == [name |-> name, parameters |-> parameters, body |-> body]
Variant(name, fields) == [name |-> name, fields |-> fields]
\* The variants of a type are in the order of their names.
Type(name, variants) == [name |-> name, variants |-> variants]
\* `imports' are functions: <<name, module>>.
Module(name, imports, types, toplevel, functions) ==
  [name |-> name, imports |-> imports, types |-> types, toplevel |-> toplevel,
   functions |-> functions]
=============================================================================
