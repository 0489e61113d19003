----------------------------- MODULE RapCodegen -----------------------------
(***************************************************************************)
(* BcGen of bcgen.rs: the instructions of expressions, statements,         *)
(* functions and modules.  `env' is the generator: its Env, its tables and *)
(* the instructions so far.  A text stands for its offset in the string    *)
(* table.  Where the code panics the instruction PANIC stands.             *)
(***************************************************************************)
EXTENDS RapSyntax, SequencesExt, TLC

Panic == <<<<"PANIC">>>>
LWRITE_NEWLINE_FLAG == 2 ^ 30

\* BUILTIN_FUNCS
Builtins == [abs |-> "Abs", sqrt |-> "Sqrt"]

Forgotten(map, x) == [y \in DOMAIN map \ {x} |-> map[y]]

-----------------------------------------------------------------------------
(* Env.                                                                    *)

EmptyMap == [x \in {} |-> 0]
NewEnv ==
  [local_counter |-> 0, arg_counter |-> 0, label_counter |-> 0, global_counter |-> 0,
   locals |-> EmptyMap, args |-> EmptyMap, globals |-> EmptyMap,
   loop_end_labels |-> <<>>, context |-> "Global", current_module |-> "",
   call_targets |-> EmptyMap, variant_constructors |-> EmptyMap,
   field_indices |-> EmptyMap, variant_schemas |-> <<>>, code |-> <<>>]

Then(env, code) == [env EXCEPT !.code = @ \o code]

\* The slot a new variable gets.
NewSlot(env) ==
  IF env.context = "Function" THEN <<"Local", env.local_counter>>
  ELSE <<"Global", env.global_counter>>
AllocateVariable(env, x) ==
  IF env.context = "Function"
    THEN [env EXCEPT !.locals = (x :> env.local_counter) @@ @, !.local_counter = @ + 1]
    ELSE [env EXCEPT !.globals = (x :> env.global_counter) @@ @, !.global_counter = @ + 1]
DeallocateVariable(env, x) ==
  IF env.context = "Function" THEN [env EXCEPT !.locals = Forgotten(@, x)]
  ELSE [env EXCEPT !.globals = Forgotten(@, x)]

\* find_variable: a local variable, an argument, a global one.
Knows(env, x) == x \in DOMAIN env.locals \cup DOMAIN env.args \cup DOMAIN env.globals
FindVariable(env, x) ==
  CASE x \in DOMAIN env.locals -> <<"Local", env.locals[x]>>
    [] x \in DOMAIN env.args \ DOMAIN env.locals -> <<"Arg", env.args[x]>>
    [] OTHER -> <<"Global", env.globals[x]>>

Load(slot) == <<<<"LOAD">> \o slot>>
Store(slot) == <<<<"STORE">> \o slot>>
LoadName(env, x) == IF Knows(env, x) THEN Load(FindVariable(env, x)) ELSE Panic
StoreName(env, x) == IF Knows(env, x) THEN Store(FindVariable(env, x)) ELSE Panic

\* fresh_label, n times: the labels are those that LabelNo gives for 0..n - 1.
FreshLabels(env, n) == [env EXCEPT !.label_counter = @ + n]
LabelNo(env, prefix, k) == <<prefix, ToString(env.label_counter + k)>>

PushLoopEnd(env, label) == [env EXCEPT !.loop_end_labels = Append(@, label)]

\* Mutant: the label stays.
PopLoopEndNot(env) == env

PopLoopEnd(env) == [env EXCEPT !.loop_end_labels = Front(@)]

-----------------------------------------------------------------------------
(* emit_expr leaves one value on the stack.                                *)

Const(n) == <<<<"CONST", n>>>>
Binop(op) == <<<<"BINOP", op>>>>
Label(l) == <<<<"LABEL", l>>>>
Jump(l) == <<<<"JMP", l>>>>
JumpIfZero(l) == <<<<"CJMP", "ISZERO", l>>>>

LiteralCode(v) ==
  CASE v[1] = "int" -> Const(v[2])
    [] v[1] = "bool" -> <<<<"BOOL", IF v[2] THEN 1 ELSE 0>>>>
    [] v[1] = "real" -> <<<<"CONSTF", v[2]>>>>
    [] v[1] = "text" -> <<<<"STRING", v[2]>>>>
    [] v[1] = "null" -> <<<<"NULL">>>>

\* Bit 0 for a lower bound, bit 1 for an upper one.
Bounds(from, to) == (IF from = None THEN 0 ELSE 1) + (IF to = None THEN 0 ELSE 2)

\* The generator after an expression or a statement.
RECURSIVE Emit(_, _)

\* The code of an expression, and of several.
Code(env, e) == Emit([env EXCEPT !.code = <<>>], e).code
CodeOfAll(env, es) == FoldLeft(Emit, [env EXCEPT !.code = <<>>], es).code
CodeOfBound(env, e) == IF e = None THEN <<>> ELSE Code(env, e)

\* A call: a constructor, a builtin, a function of the program or a callable.
EmitCall(env, function, arguments) ==
  LET args == CodeOfAll(env, arguments)
      n == Len(arguments)
      name == IF function.kind = "name" THEN function.name ELSE ""
  IN CASE name \in DOMAIN Builtins -> args \o <<<<"CALLBUILTIN", Builtins[name], 0>>>>
       [] name \in DOMAIN env.call_targets \ DOMAIN Builtins ->
            args \o <<<<"CALL", env.call_targets[name][1], n>>>>
       [] OTHER -> Code(env, function) \o args \o <<<<"CALLC", n>>>>

EmitConstructor(env, name, arguments) ==
  LET info == env.variant_constructors[name]
  IN IF Len(arguments) # Len(info.fields) THEN Panic
     ELSE CodeOfAll(env, arguments) \o <<<<"VARIANT", info.schema>>>>

EmitName(env, x) ==
  CASE x \in DOMAIN env.variant_constructors -> EmitConstructor(env, x, <<>>)
    [] x \in DOMAIN env.call_targets \ DOMAIN env.variant_constructors ->
         <<<<"CLOSURE", env.call_targets[x][1], env.call_targets[x][2]>>>>
    [] OTHER -> LoadName(env, x)

EmitSlice(env, collection, from, to) ==
  collection \o CodeOfBound(env, from) \o CodeOfBound(env, to) \o <<<<"SLICE", Bounds(from, to)>>>>

EmitExpression(env, e) ==
  CASE e.kind = "literal" -> LiteralCode(e.value)
    [] e.kind = "field" ->
         IF e.field \notin DOMAIN env.field_indices THEN Panic
         ELSE Code(env, e.left) \o <<<<"FIELD", env.field_indices[e.field]>>>>
    [] e.kind = "binary" -> Code(env, e.left) \o Code(env, e.right) \o Binop(e.op)
    [] e.kind = "unary" ->
         Code(env, e.operand) \o
           (CASE e.op = "Plus" -> <<>>
              [] e.op = "Length" -> <<<<"CALLBUILTIN", "Llength", 0>>>>
              [] OTHER -> <<<<"UNARY", e.op>>>>)
    [] e.kind = "tuple" -> CodeOfAll(env, e.elements) \o <<<<"TUPLE", Len(e.elements)>>>>
    [] e.kind = "call" ->
         IF e.function.kind = "name" /\ e.function.name \in DOMAIN env.variant_constructors
         THEN EmitConstructor(env, e.function.name, e.arguments)
         ELSE EmitCall(env, e.function, e.arguments)
    [] e.kind = "name" -> EmitName(env, e.name)
    [] e.kind = "subscript" -> Code(env, e.collection) \o Code(env, e.index) \o <<<<"ELEM">>>>
    [] e.kind = "slice" -> EmitSlice(env, Code(env, e.collection), e.from, e.to)

-----------------------------------------------------------------------------
(* emit_statement leaves the stack as it was.                              *)

EmitBody(env, body) == FoldLeft(Emit, env, body)

EmitDeclaration(env, x, value) ==
  Then(AllocateVariable(env, x), Code(env, value) \o Store(NewSlot(env)))

\* What follows the value.
EmitInto(env, target) ==
  CASE target.kind = "name" -> StoreName(env, target.name)
    [] target.kind = "subscript" ->
         Code(env, target.index) \o LoadName(env, target.collection.name) \o
           <<<<"STA">>, <<"DROP">>>>
    [] target.kind = "slice" ->
         EmitSlice(env, LoadName(env, target.collection.name), target.from, target.to) \o
           <<<<"STS">>>>
    [] target.kind = "field" ->
         IF target.field \notin DOMAIN env.field_indices THEN Panic
         ELSE Code(env, target.left) \o <<<<"SETFIELD", env.field_indices[target.field]>>>>

EmitOutput(env, no_newline, values) ==
  LET n == Len(values) + (IF no_newline THEN 0 ELSE LWRITE_NEWLINE_FLAG)
  IN CodeOfAll(env, values) \o <<<<"CALLBUILTIN", "Lwrite", n>>>>

EmitInput(env, text_mode, targets) ==
  LET n == Len(targets) + (IF text_mode THEN 0 ELSE LWRITE_NEWLINE_FLAG)
      StoreOne(e, target) ==
        CASE target.kind # "name" -> Then(e, Panic)
          [] target.kind = "name" /\ Knows(e, target.name) ->
               Then(e, Store(FindVariable(e, target.name)))
          [] OTHER -> Then(AllocateVariable(e, target.name), Store(NewSlot(e)))
  IN FoldLeft(StoreOne, Then(env, <<<<"CALLBUILTIN", "Lread", n>>>>), targets)

\* A hidden variable counts down.
EmitRepeat(env, s) ==
  LET counter == "repeat_" \o ToString(s.at)
      slot == NewSlot(env)
      loop == LabelNo(env, "repeat_loop", 0)
      end == LabelNo(env, "repeat_end", 1)
      head == Code(AllocateVariable(env, counter), s.count) \o Store(slot) \o Label(loop) \o
                Load(slot) \o Const(0) \o Binop("GT") \o JumpIfZero(end)
      body == EmitBody(PushLoopEnd(FreshLabels(Then(AllocateVariable(env, counter), head), 2),
                                   end),
                       s.body)
      foot == Load(slot) \o Const(1) \o Binop("SUB") \o Store(slot) \o Jump(loop) \o Label(end)
  IN PopLoopEnd(DeallocateVariable(Then(body, foot), counter))

\* Mutant: a loop with a step counts upwards.
EmitGuardUp(slot, to, step, default_step) == Load(slot) \o to \o Binop("LEQ")

\* Whether the loop goes on: var <= to, or >= when the step is not positive.
\* The short form is for bounds that may be evaluated any number of times.
EmitGuard(slot, to, step, default_step) ==
  IF default_step /\ Len(to) = 1 /\ to[1][1] \in {"LOAD", "CONST", "CONSTF"}
  THEN Load(slot) \o to \o Binop("LEQ")
  ELSE step \o Const(0) \o Binop("GT") \o Load(slot) \o to \o Binop("LEQ") \o Binop("AND") \o
       step \o Const(0) \o Binop("LEQ") \o Load(slot) \o to \o Binop("GEQ") \o Binop("AND") \o
       Binop("OR")

\* The bounds are compiled before the loop has its variable.
EmitFor(env, s) ==
  LET slot == NewSlot(env)
      from == IF s.from = None THEN Const(0) ELSE Code(env, s.from)
      step == IF s.step = None THEN Const(1) ELSE Code(env, s.step)
      loop == LabelNo(env, "for_loop", 0)
      end == LabelNo(env, "for_end", 1)
      guard == IF s.to = None THEN <<>>
               ELSE EmitGuard(slot, Code(env, s.to), step, s.step = None) \o JumpIfZero(end)
      head == from \o Store(slot) \o Label(loop) \o guard
      body == EmitBody(PushLoopEnd(FreshLabels(Then(AllocateVariable(env, s.variable), head), 2),
                                   end),
                       s.body)
      foot == Load(slot) \o step \o Binop("ADD") \o Store(slot) \o Jump(loop) \o Label(end)
  IN PopLoopEnd(DeallocateVariable(Then(body, foot), s.variable))

EmitWhile(env, s) ==
  LET loop == LabelNo(env, "while_loop", 0)
      end == LabelNo(env, "while_end", 1)
      head == Label(loop) \o Code(env, s.condition) \o JumpIfZero(end)
      body == EmitBody(PushLoopEnd(FreshLabels(Then(env, head), 2), end), s.body)
  IN PopLoopEnd(Then(body, Jump(loop) \o Label(end)))

EmitExit(env) ==
  IF env.loop_end_labels = <<>> THEN Panic ELSE Jump(Last(env.loop_end_labels))

EmitIf(env, s) ==
  LET head == Code(env, s.condition) \o Label(LabelNo(env, "if_begin", 0)) \o
                JumpIfZero(LabelNo(env, "if_skip", 1))
      taken == EmitBody(FreshLabels(Then(env, head), 2), s.then_body)
  IN Then(taken, Label(LabelNo(env, "if_skip", 1)))

EmitIfElse(env, s) ==
  LET skip == LabelNo(env, "if_skip", 1)
      else == LabelNo(env, "else", 2)
      head == Code(env, s.condition) \o Label(LabelNo(env, "if_begin", 0)) \o JumpIfZero(else)
      taken == EmitBody(FreshLabels(Then(env, head), 3), s.then_body)
      other == EmitBody(Then(taken, Jump(skip) \o Label(else)), s.else_body)
  IN Then(other, Label(skip))

\* constructor_pattern: a constructor, and its bindings if it has fields.
IsConstructor(env, pattern) ==
  \/ /\ pattern.kind = "name" /\ pattern.name \in DOMAIN env.variant_constructors
     /\ env.variant_constructors[pattern.name].fields = <<>>
  \/ /\ pattern.kind = "call" /\ pattern.function.kind = "name"
     /\ pattern.function.name \in DOMAIN env.variant_constructors
Constructor(env, pattern) ==
  env.variant_constructors[IF pattern.kind = "name" THEN pattern.name ELSE pattern.function.name]
Bindings(pattern) == IF pattern.kind = "call" THEN pattern.arguments ELSE <<>>

\* A selector that is a name is loaded again wherever it is needed.
EmitMatch(env, s) ==
  LET hidden == "match_" \o ToString(s.at)
      slot == NewSlot(env)
      named == s.expression.kind = "name"
      Selector(e) == IF named THEN Code(e, s.expression) ELSE Load(slot)
      start == IF named THEN env
               ELSE Then(AllocateVariable(env, hidden), Code(env, s.expression) \o Store(slot))
      end == LabelNo(start, "match_end", 0)
      Test(e, pattern) ==
        IF IsConstructor(e, pattern) THEN <<<<"ISVARIANT", Constructor(e, pattern).schema>>>>
        ELSE Code(e, pattern) \o Binop("EQ")
      Bind(e, b) ==
        Then(AllocateVariable(e, b[2].name),
             Selector(e) \o <<<<"FIELD", b[1]>>>> \o Store(NewSlot(e)))
      Bound(e, pattern) ==
        IF IsConstructor(e, pattern)
        THEN FoldLeft(Bind, e, [k \in DOMAIN Bindings(pattern) |->
                                  <<k - 1, Bindings(pattern)[k]>>])
        ELSE e
      OneCase(e, case) ==
        LET next == LabelNo(e, "match_next", 0)
            pattern == Head(case.values)
            tested == Then(FreshLabels(e, 1),
                           Selector(e) \o Test(e, pattern) \o JumpIfZero(next))
        IN Then(EmitBody(Bound(tested, pattern), case.body), Jump(end) \o Label(next))
      tried == FoldLeft(OneCase, FreshLabels(start, 1), s.cases)
      done == Then(EmitBody(tried, s.else_body), Label(end))
  IN IF named THEN done ELSE DeallocateVariable(done, hidden)

\* Mutant: what it returns stays.
EmitProcedureCallKept(env, procedure, arguments) ==
  Then(env, EmitCall(env, procedure, arguments))

\* A call for its effects: what it returns is dropped.
EmitProcedureCall(env, procedure, arguments) ==
  Then(env, EmitCall(env, procedure, arguments) \o <<<<"DROP">>>>)

EmitStatement(env, s) ==
  CASE s.kind = "declaration" -> EmitDeclaration(env, s.name, s.value)
    [] s.kind = "assignment" -> Then(env, Code(env, s.value) \o EmitInto(env, s.target))
    [] s.kind = "output" -> Then(env, EmitOutput(env, s.no_newline, s.values))
    [] s.kind = "input" -> EmitInput(env, s.text_mode, s.targets)
    [] s.kind = "repeat" -> EmitRepeat(env, s)
    [] s.kind = "for" -> EmitFor(env, s)
    [] s.kind = "while" -> EmitWhile(env, s)
    [] s.kind = "exit" -> Then(env, EmitExit(env))
    [] s.kind = "return" -> Then(env, Code(env, s.value) \o <<<<"END">>>>)
    [] s.kind = "return nothing" -> Then(env, Panic)
    [] s.kind = "if" -> EmitIf(env, s)
    [] s.kind = "ifelse" -> EmitIfElse(env, s)
    [] s.kind = "match" -> EmitMatch(env, s)
    [] s.kind = "procedure" -> EmitProcedureCall(env, s.procedure, s.arguments)

Emit(env, x) ==
  IF x.kind \in ExpressionKinds THEN Then(env, EmitExpression(env, x)) ELSE EmitStatement(env, x)

-----------------------------------------------------------------------------
(* Functions, types and modules.                                           *)

RECURSIVE CountLocals(_, _)
CountAll(env, bodies) == FoldLeft(LAMBDA n, body : n + CountLocals(env, body), 0, bodies)

\* Mutant: what a pattern binds is not counted.
PatternLocalsNone(env, cases) == 0

\* What the patterns of a match bind.
PatternLocals(env, cases) ==
  LET patterns == FlattenSeq([k \in DOMAIN cases |-> cases[k].values])
  IN FoldLeft(LAMBDA n, p : n + (IF IsConstructor(env, p) THEN Len(Bindings(p)) ELSE 0),
              0, patterns)

\* Slots for every variable a body may come to allocate.
CountLocals(env, body) ==
  LET Count(s) ==
        CASE s.kind = "declaration" -> 1
          [] s.kind = "if" -> CountLocals(env, s.then_body)
          [] s.kind = "ifelse" -> CountAll(env, <<s.then_body, s.else_body>>)
          [] s.kind = "match" ->
               1 + CountAll(env, [k \in DOMAIN s.cases |-> s.cases[k].body]) +
                 PatternLocals(env, s.cases) + CountLocals(env, s.else_body)
          [] s.kind \in {"for", "repeat"} -> 1 + CountLocals(env, s.body)
          [] s.kind = "while" -> CountLocals(env, s.body)
          [] s.kind = "input" -> Len(s.targets)
          [] OTHER -> 0
  IN FoldLeft(LAMBDA n, s : n + Count(s), 0, body)

FunctionLabel(module, name) == <<module, name>>

\* The variables a definition starts with.
Scope(env, context, parameters) ==
  [env EXCEPT !.context = context, !.locals = EmptyMap, !.local_counter = 0,
              !.args = [x \in ToSet(parameters) |->
                          SelectLastInSeq(parameters, LAMBDA y : y = x) - 1],
              !.arg_counter = Len(parameters)]

EmitFunction(env, f) ==
  LET scoped == Scope(env, "Function", f.parameters)
      head == Label(FunctionLabel(env.current_module, f.name)) \o
                <<<<"BEGIN", Len(f.parameters), CountLocals(env, f.body)>>>>
      body == EmitBody(Then(scoped, head), f.body)
      returns == \E k \in DOMAIN f.body : f.body[k].kind = "return"
  IN [(IF returns THEN body ELSE Then(body, <<<<"NULL">>, <<"END">>>>))
        EXCEPT !.context = "Global"]

\* Tags count the variants in the order of their names; a field keeps the place it
\* first had.
EmitType(env, type) ==
  LET One(e, k) ==
        LET v == type.variants[k]
            schema == [name |-> type.name, tag |-> k - 1, fields |-> v.fields]
            places == [x \in ToSet(v.fields) |-> SelectInSeq(v.fields, LAMBDA y : y = x) - 1]
        IN [e EXCEPT !.variant_schemas = Append(@, schema),
                     !.variant_constructors =
                        (v.name :> [schema |-> Len(e.variant_schemas), fields |-> v.fields]) @@ @,
                     !.field_indices = @ @@ places]
  IN FoldLeft(One, env, [k \in DOMAIN type.variants |-> k])

EmitTopLevel(env, statements) ==
  LET head == Label(FunctionLabel(env.current_module, "<init>")) \o <<<<"BEGIN", 0, 0>>>>
  IN Then(EmitBody(Then(Scope(env, "Global", <<>>), head), statements), <<<<"NULL">>, <<"END">>>>)

\* configure_module: the functions of the module, then those it imports.
CallTargets(modules, module) ==
  LET Target(m, f) == f.name :> <<FunctionLabel(m, f.name), Len(f.parameters)>>
      Of(name) == CHOOSE m \in ToSet(modules) : m.name = name
      Defined(m, x) == CHOOSE f \in ToSet(m.functions) : f.name = x
      own == FoldLeft(LAMBDA t, f : Target(module.name, f) @@ t, EmptyMap, module.functions)
  IN FoldLeft(LAMBDA t, i : Target(i[2], Defined(Of(i[2]), i[1])) @@ t, own, module.imports)
ConfigureModule(env, modules, module) ==
  [env EXCEPT !.current_module = module.name, !.call_targets = CallTargets(modules, module),
              !.globals = EmptyMap]

EmitModule(env, modules, module) ==
  LET typed == FoldLeft(EmitType, ConfigureModule(env, modules, module), module.types)
  IN FoldLeft(EmitFunction, EmitTopLevel(typed, module.toplevel), module.functions)

\* The entry point initializes every module once, dependencies first.
EmitMain(env, modules) ==
  LET Init(m) == <<<<"CALL", FunctionLabel(m.name, "<init>"), 0>>, <<"DROP">>>>
  IN Then(env, Label(<<"main", "">>) \o <<<<"BEGIN", 0, 0>>>> \o
               FlattenSeq([k \in DOMAIN modules |-> Init(modules[k])]) \o
               <<<<"NULL">>, <<"END">>>>)

\* generate, up to the assembly of the instructions.
Generate(modules) ==
  EmitMain(FoldLeft(LAMBDA env, m : EmitModule(env, modules, m), NewEnv, modules), modules)
Panics(env) == \E k \in DOMAIN env.code : env.code[k] = <<"PANIC">>
=============================================================================
