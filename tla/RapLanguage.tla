----------------------------- MODULE RapLanguage -----------------------------
(***************************************************************************)
(* What a program means, said of its syntax tree: the statements one after *)
(* another, in the order they are written, each call with variables of its *)
(* own.  What can be observed is `out': the output, and the assignments    *)
(* into objects.  There are no slots, labels or stacks here.  Where the    *)
(* sources leave a question open, doc/archive/spec_old.md answers it.      *)
(*                                                                         *)
(* `flow' is "next" while statements follow one another, "exit" and        *)
(* "return" on the way out of a loop or a function, "fault" after an error.*)
(* Fuel bounds the calls and turns of loops of one run.                    *)
(***************************************************************************)
EXTENDS RapSyntax, SequencesExt, TLC

Nothing == [x \in {} |-> Null]
Start(inputs, fuel) ==
  [module |-> "", inside |-> FALSE, locals |-> Nothing, globals |-> Nothing, out |-> <<>>,
   inputs |-> inputs, flow |-> "next", value |-> Null, fuel |-> fuel]

Goes(s) == s.flow = "next"
Fault(s) == [s EXCEPT !.flow = "fault"]
Gives(s, v) == [s EXCEPT !.value = v]
Observe(s, event) == [s EXCEPT !.out = Append(@, event)]
Burn(s) == IF s.fuel = 0 THEN [s EXCEPT !.flow = "tired"] ELSE [s EXCEPT !.fuel = @ - 1]

-----------------------------------------------------------------------------
(* Names.                                                                  *)

ModuleNamed(P, m) == CHOOSE q \in ToSet(P) : q.name = m
\* The module whose function the name f is in module m, or none.
Origins(P, m, f) ==
  {m : g \in {g \in ToSet(ModuleNamed(P, m).functions) : g.name = f}} \cup
  {i[2] : i \in {i \in ToSet(ModuleNamed(P, m).imports) : i[1] = f}}
Body(P, m, f) == CHOOSE g \in ToSet(ModuleNamed(P, m).functions) : g.name = f

\* The constructors of a program, with what a value of each knows of its type.
Schemas(P) ==
  UNION {{[constructor |-> t.variants[k].name,
           schema |-> [name |-> t.name, tag |-> k - 1, fields |-> t.variants[k].fields]] :
             k \in DOMAIN t.variants} : t \in UNION {ToSet(m.types) : m \in ToSet(P)}}
Constructs(P, x) == {c.schema : c \in {c \in Schemas(P) : c.constructor = x}}
Made(P, x, args) ==
  LET schema == CHOOSE c \in Constructs(P, x) : TRUE IN <<"variant", schema, args>>
\* A variant of whatever type is recognized by its tag.
IsMadeBy(P, x, v) == v[1] = "variant" /\ \E c \in Constructs(P, x) : v[2].tag = c.tag

Global(s, x) == <<s.module, x>>
Bound(s, x) == x \in DOMAIN s.locals \/ Global(s, x) \in DOMAIN s.globals
Variable(s, x) == IF x \in DOMAIN s.locals THEN s.locals[x] ELSE s.globals[Global(s, x)]

\* A declaration makes a variable of the function, or of the module outside of one.
Declare(s, x, v) ==
  IF s.inside THEN [s EXCEPT !.locals = (x :> v) @@ @]
  ELSE [s EXCEPT !.globals = (Global(s, x) :> v) @@ @]
Assign(s, x, v) ==
  IF x \in DOMAIN s.locals THEN [s EXCEPT !.locals[x] = v]
  ELSE [s EXCEPT !.globals[Global(s, x)] = v]
Forget(s, x) ==
  IF s.inside THEN [s EXCEPT !.locals = [y \in DOMAIN @ \ {x} |-> @[y]]]
  ELSE [s EXCEPT !.globals = [y \in DOMAIN @ \ {Global(s, x)} |-> @[y]]]

-----------------------------------------------------------------------------
(* Expressions give their value in `value', a list of them a sequence.     *)

FieldOf(s, v, x) ==
  IF v[1] = "variant" /\ x \in ToSet(v[2].fields)
  THEN Gives(s, v[3][SelectInSeq(v[2].fields, LAMBDA y : y = x)])
  ELSE Fault(s)

\* The state after an expression or a statement.
RECURSIVE Run(_, _, _)
RunAll(P, s, body) == FoldLeft(LAMBDA t, st : IF Goes(t) THEN Run(P, t, st) ELSE t, s, body)

EvalAll(P, s, es) ==
  LET Next(t, e) ==
        IF ~Goes(t) THEN t
        ELSE LET u == Run(P, t, e) IN Gives(u, Append(t.value, u.value))
  IN FoldLeft(Next, Gives(s, <<>>), es)

\* What follows the evaluation of es, if it succeeds.
With(P, s, es, Then(_, _)) ==
  LET t == EvalAll(P, s, es) IN IF Goes(t) THEN Then(t, t.value) ELSE t

\* The body of a function, with the variables args.
Calling(P, s, m, f, args) ==
  LET g == Body(P, m, f)
      bound == [x \in ToSet(g.parameters) |-> args[SelectInSeq(g.parameters, LAMBDA y : y = x)]]
      t == Burn([s EXCEPT !.module = m, !.inside = TRUE, !.locals = bound])
      u == IF Goes(t) THEN RunAll(P, t, g.body) ELSE t
      back == [u EXCEPT !.module = s.module, !.inside = s.inside, !.locals = s.locals]
  IN CASE u.flow = "return" -> [back EXCEPT !.flow = "next"]
       [] u.flow = "next" -> Gives(back, Null)
       [] OTHER -> back

CallValue(P, s, v, args) ==
  IF v[1] = "fun" /\ Len(Body(P, v[2], v[3]).parameters) = Len(args)
  THEN Calling(P, s, v[2], v[3], args)
  ELSE Fault(s)

EvalCall(P, s, function, arguments) ==
  LET name == IF function.kind = "name" THEN function.name ELSE ""
      origins == Origins(P, s.module, name)
  IN CASE Constructs(P, name) # {} ->
            With(P, s, arguments, LAMBDA t, vs : Gives(t, Made(P, name, vs)))
       [] name = "abs" -> With(P, s, arguments, LAMBDA t, vs : Gives(t, Unary("Abs", vs[1])))
       [] origins # {} ->
            With(P, s, arguments,
                 LAMBDA t, vs : Calling(P, t, CHOOSE m \in origins : TRUE, name, vs))
       [] OTHER ->
            With(P, s, <<function>> \o arguments,
                 LAMBDA t, vs : CallValue(P, t, Head(vs), Tail(vs)))

EvalName(P, s, x) ==
  LET origins == Origins(P, s.module, x)
  IN CASE Constructs(P, x) # {} -> Gives(s, Made(P, x, <<>>))
       [] origins # {} -> Gives(s, <<"fun", CHOOSE m \in origins : TRUE, x>>)
       [] OTHER -> Gives(s, Variable(s, x))

\* A slice with the bounds it has.
Bounded(e) == (IF e.from = None THEN <<>> ELSE <<e.from>>) \o
              (IF e.to = None THEN <<>> ELSE <<e.to>>)
SliceTerm(e, vs) ==
  <<"slice", Head(vs), IF e.from = None THEN Null ELSE vs[2],
    IF e.to = None THEN Null ELSE Last(vs)>>

\* The right operand of и and или is evaluated only if the left one leaves the
\* answer open (spec_old.md, 2.2.4: ЛОГ_И, ЛОГ_ИЛИ).
Decides(op, v) == (op = "AND" /\ v = Truth(FALSE)) \/ (op = "OR" /\ v = Truth(TRUE))
EvalBinary(P, s, e) ==
  LET t == Run(P, s, e.left)
      Whole(u, vs) == Gives(u, Binary(e.op, t.value, vs[1]))
  IN IF Goes(t) /\ ~Decides(e.op, t.value) THEN With(P, t, <<e.right>>, Whole) ELSE t

Eval(P, s, e) ==
  CASE e.kind = "literal" -> Gives(s, e.value)
    [] e.kind = "name" -> EvalName(P, s, e.name)
    [] e.kind = "binary" -> EvalBinary(P, s, e)
    [] e.kind = "unary" ->
         With(P, s, <<e.operand>>,
              LAMBDA t, vs : Gives(t, IF e.op = "Plus" THEN vs[1] ELSE Unary(e.op, vs[1])))
    [] e.kind = "field" -> With(P, s, <<e.left>>, LAMBDA t, vs : FieldOf(t, vs[1], e.field))
    [] e.kind = "tuple" -> With(P, s, e.elements, LAMBDA t, vs : Gives(t, <<"tuple", vs>>))
    [] e.kind = "call" -> EvalCall(P, s, e.function, e.arguments)
    [] e.kind = "subscript" ->
         With(P, s, <<e.collection, e.index>>, LAMBDA t, vs : Gives(t, <<"elem", vs[1], vs[2]>>))
    [] e.kind = "slice" ->
         With(P, s, <<e.collection>> \o Bounded(e), LAMBDA t, vs : Gives(t, SliceTerm(e, vs)))

-----------------------------------------------------------------------------
(* Statements.                                                             *)

\* The value comes first, then what the target is made of.
RunAssignment(P, s, target, value) ==
  CASE target.kind = "name" ->
         With(P, s, <<value>>, LAMBDA t, vs : Assign(t, target.name, vs[1]))
    [] target.kind = "subscript" ->
         With(P, s, <<value, target.index, target.collection>>,
              LAMBDA t, vs : Observe(t, <<"STA", vs[3], vs[2], vs[1]>>))
    [] target.kind = "slice" ->
         With(P, s, <<value, target.collection>> \o Bounded(target),
              LAMBDA t, vs : Observe(t, <<"STS", SliceTerm(target, Tail(vs)), vs[1]>>))
    [] target.kind = "field" ->
         With(P, s, <<value, target.left>>,
              LAMBDA t, vs :
                IF FieldOf(t, vs[2], target.field).flow = "fault" THEN Fault(t)
                ELSE Observe(t, <<"SETFIELD", vs[2], target.field, vs[1]>>))

\* Variables are given their values in the order they are listed.
RunInput(s, text_mode, targets) ==
  LET Next(t, target) ==
        IF ~Goes(t) \/ t.inputs = <<>> THEN Fault(t)
        ELSE LET x == target.name
                 v == Entered(text_mode, Head(t.inputs))
                 u == [t EXCEPT !.inputs = Tail(@)]
             IN IF Bound(u, x) THEN Assign(u, x, v) ELSE Declare(u, x, v)
  IN FoldLeft(Next, s, targets)

\* One more turn of a loop?  (The bounds of a `for' have become values.)
Turn(P, s, l) ==
  CASE l.kind = "while" -> With(P, s, <<l.condition>>, LAMBDA t, vs : Gives(t, vs[1]))
    [] l.kind = "repeat" -> Gives(s, Binary("GT", l.count.value, Num(0)))
    [] l.kind = "for" ->
         LET upwards == Binary("GT", l.step.value, Num(0)) = Truth(TRUE)
         IN Gives(s, IF l.to = None THEN Truth(TRUE)
                     ELSE Binary(IF upwards THEN "LEQ" ELSE "GEQ",
                                 Variable(s, l.variable), l.to.value))

RECURSIVE Loop(_, _, _)
\* After a turn: what has changed of the variables, or of the loop.
Again(P, s, l) ==
  CASE l.kind = "for" ->
         Loop(P, Assign(s, l.variable, Binary("ADD", Variable(s, l.variable), l.step.value)), l)
    [] l.kind = "repeat" ->
         Loop(P, s, [l EXCEPT !.count = Lit(Binary("SUB", l.count.value, Num(1)))])
    [] OTHER -> Loop(P, s, l)

Loop(P, s, l) ==
  LET t == IF Goes(s) THEN Turn(P, s, l) ELSE s
      u == IF Goes(t) /\ t.value = Truth(TRUE) THEN RunAll(P, Burn(t), l.body) ELSE t
  IN CASE ~Goes(t) -> t
       [] Goes(t) /\ t.value[1] # "bool" -> Fault(t)
       [] Goes(t) /\ t.value = Truth(FALSE) -> t
       [] u.flow = "exit" -> [u EXCEPT !.flow = "next"]
       [] u.flow = "next" -> Again(P, u, l)
       [] OTHER -> u

RunRepeat(P, s, l) ==
  With(P, s, <<l.count>>, LAMBDA t, vs : Loop(P, t, [l EXCEPT !.count = Lit(vs[1])]))

\* The bounds are looked at once, before the loop has its variable.
RunFor(P, s, l) ==
  LET Else(e, v) == IF e = None THEN Lit(v) ELSE e
      Count(t, vs) ==
        LET fixed == [l EXCEPT !.step = Lit(vs[2]), !.to = IF @ = None THEN None ELSE Lit(vs[3])]
        IN Forget(Loop(P, Declare(t, l.variable, vs[1]), fixed), l.variable)
  IN With(P, s, <<Else(l.from, Num(0)), Else(l.step, Num(1)), Else(l.to, Null)>>, Count)

\* The first case one of whose values the selector has, or that its pattern fits.
RunMatch(P, s, m) ==
  LET IsPattern(p) ==
        \/ p.kind = "name" /\ Constructs(P, p.name) # {}
        \/ p.kind = "call" /\ p.function.kind = "name" /\ Constructs(P, p.function.name) # {}
      Maker(p) == IF p.kind = "name" THEN p.name ELSE p.function.name
      Fits(t, v, p) ==
        IF IsPattern(p) THEN IsMadeBy(P, Maker(p), v) ELSE Run(P, t, p).value = v
      Bind(t, v, p) ==
        IF p.kind # "call" \/ ~IsPattern(p) THEN t
        ELSE FoldLeft(LAMBDA u, k : Declare(u, p.arguments[k].name, v[3][k]), t,
                      [k \in DOMAIN p.arguments |-> k])
      Chosen(t, v) ==
        {c \in DOMAIN m.cases : \E k \in DOMAIN m.cases[c].values :
                                  Fits(t, v, m.cases[c].values[k])}
      Select(t, vs) ==
        IF Chosen(t, vs[1]) = {} THEN RunAll(P, t, m.else_body)
        ELSE LET c == CHOOSE c \in Chosen(t, vs[1]) : \A d \in Chosen(t, vs[1]) : c <= d
             IN RunAll(P, Bind(t, vs[1], Head(m.cases[c].values)), m.cases[c].body)
  IN With(P, s, <<m.expression>>, Select)

RunCondition(P, s, c, then_body, else_body) ==
  LET Branch(t, vs) ==
        CASE vs[1] = Truth(TRUE) -> RunAll(P, t, then_body)
          [] vs[1] = Truth(FALSE) -> RunAll(P, t, else_body)
          [] OTHER -> Fault(t)
  IN With(P, s, <<c>>, Branch)

RunStatement(P, s, st) ==
  CASE st.kind = "declaration" ->
         With(P, s, <<st.value>>, LAMBDA t, vs : Declare(t, st.name, vs[1]))
    [] st.kind = "assignment" -> RunAssignment(P, s, st.target, st.value)
    [] st.kind = "output" ->
         With(P, s, st.values, LAMBDA t, vs : Observe(t, <<"write", ~st.no_newline, vs>>))
    [] st.kind = "input" -> RunInput(s, st.text_mode, st.targets)
    [] st.kind = "repeat" -> RunRepeat(P, s, st)
    [] st.kind = "for" -> RunFor(P, s, st)
    [] st.kind = "while" -> Loop(P, s, st)
    [] st.kind = "exit" -> [s EXCEPT !.flow = "exit"]
    [] st.kind = "return" ->
         With(P, s, <<st.value>>, LAMBDA t, vs : [Gives(t, vs[1]) EXCEPT !.flow = "return"])
    [] st.kind = "if" -> RunCondition(P, s, st.condition, st.then_body, <<>>)
    [] st.kind = "ifelse" -> RunCondition(P, s, st.condition, st.then_body, st.else_body)
    [] st.kind = "match" -> RunMatch(P, s, st)
    [] st.kind = "procedure" -> EvalCall(P, s, st.procedure, st.arguments)

Run(P, s, x) == IF x.kind \in ExpressionKinds THEN Eval(P, s, x) ELSE RunStatement(P, s, x)

\* The modules in order, each once.
Meaning(P, inputs, fuel) ==
  LET Next(s, m) == IF Goes(s) THEN RunAll(P, [s EXCEPT !.module = m.name], m.toplevel) ELSE s
  IN FoldLeft(Next, Start(inputs, fuel), P)
=============================================================================
