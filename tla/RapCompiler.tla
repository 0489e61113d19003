----------------------------- MODULE RapCompiler -----------------------------
(***************************************************************************)
(* From a program to what it does: the generator makes instructions, the   *)
(* bytefile is written and read again, and the VM runs what it has read.   *)
(* Where the program's own meaning (RapLanguage) and the run of its code   *)
(* part, one of the passes is wrong.                                       *)
(*                                                                         *)
(* The VM has activations here (RapFrames says why it may) and values      *)
(* instead of references (RapHeap is about those); an assignment into an   *)
(* object is observed, not carried out.  Handlers of instructions that the *)
(* generator never emits are left out.                                     *)
(***************************************************************************)
EXTENDS RapLanguage

CG == INSTANCE RapCodegen
BF == INSTANCE RapBytefile

CONSTANTS
  Programs,  \* sequences of modules, dependencies first
  Inputs,    \* what the user types
  Fuel       \* bound: calls and turns of loops of one run, or it is not looked at

VARIABLES
  program,
  meaning,  \* history: what the program means
  status,   \* how far the run has come
  built,    \* what the compiler made: instructions and a file
  loaded,   \* the bytefile the VM has read
  ip,       \* decoder.ip
  calls,    \* the activations, innermost last
  globals,
  out,      \* history: what has been observed
  inputs    \* what the user has still to type

vars == <<program, meaning, status, built, loaded, ip, calls, globals, out, inputs>>

Unbuilt == [instrs |-> <<>>, file |-> <<>>]
Unloaded == [globals |-> 0, strings |-> <<>>, schemas |-> <<>>, main |-> 0, code |-> <<>>]
Activation(args, locals, temps) == [args |-> args, locals |-> locals, temps |-> temps]
Zeros(n) == [i \in 1..n |-> Num(0)]

-----------------------------------------------------------------------------
(* The compiler.                                                           *)

TextsOf(code) ==
  FoldLeft(LAMBDA ts, i : IF i[1] # "STRING" \/ i[2] \in ToSet(ts) THEN ts ELSE Append(ts, i[2]),
           <<>>, code)
Exported(modules) ==
  FlattenSeq([m \in DOMAIN modules |->
    [f \in DOMAIN modules[m].functions |-> <<modules[m].name, modules[m].functions[f].name>>]])
Symbol(label) == IF label[2] = "" THEN label[1] ELSE label[1] \o "::" \o label[2]

\* generate, after the modules have been compiled: the tables and the code.
Assembled(env, modules) ==
  LET exported == <<<<"main", "">>>> \o Exported(modules)
      names == FlattenSeq([k \in DOMAIN env.variant_schemas |->
                 <<env.variant_schemas[k].name>> \o env.variant_schemas[k].fields])
      strings == names \o TextsOf(env.code) \o [k \in DOMAIN exported |-> Symbol(exported[k])]
      instrs == [k \in DOMAIN env.code |->
                   IF env.code[k][1] = "STRING"
                   THEN <<"STRING", BF!FindString(strings, env.code[k][2])>> ELSE env.code[k]]
      labels == BF!Labels(instrs)
      resolved == BF!Resolved(instrs)
  IN [instrs |-> resolved,
      file |-> BF!EncodeFile(
        [globals |-> env.global_counter, strings |-> strings, schemas |-> env.variant_schemas,
         symbols |-> [k \in DOMAIN exported |-> <<Symbol(exported[k]), labels[exported[k]]>>],
         code |-> BF!CodeSection(resolved)])]

\* rap build.  A panic of the generator, or a label it cannot resolve, ends it.
Compile ==
  /\ status = "source"
  /\ LET env == CG!Generate(program)
         fine == ~CG!Panics(env) /\ BF!Assembles(env.code)
     IN /\ status' = IF fine THEN "built" ELSE "panic"
        /\ built' = IF fine THEN Assembled(env, program) ELSE Unbuilt
  /\ UNCHANGED <<program, meaning, loaded, ip, calls, globals, out, inputs>>

\* Bytefile::parse, Interpreter::new and the start of run.
Load ==
  /\ status = "built"
  /\ loaded' = BF!Parse(built.file) /\ ip' = loaded'.main
  /\ globals' = Zeros(loaded'.globals)
  /\ calls' = <<Activation(<<>>, <<>>, <<<<"ip", -1>>>>)>>
  /\ status' = "running" /\ built' = Unbuilt
  /\ UNCHANGED <<program, meaning, out, inputs>>

-----------------------------------------------------------------------------
(* The VM.  A handler is for the instruction f.instr, which ends at f.next.*)

Temps == Last(calls).temps
Below(n) == SubSeq(Temps, 1, Len(Temps) - n)
Operands(n) == SubSeq(Temps, Len(Temps) + 1 - n, Len(Temps))
WithTemps(temps) == [calls EXCEPT ![Len(calls)].temps = temps]
compiled == <<program, meaning, built, loaded>>

\* The n operands are taken off and the results put there.
Leave(f, n, results) ==
  /\ calls' = WithTemps(Below(n) \o results) /\ ip' = f.next
  /\ UNCHANGED <<compiled, status, globals>>
Quiet == UNCHANGED <<out, inputs>>

\* What an instruction needs on the stack.
Needs(i) ==
  CASE i[1] \in {"BINOP", "ELEM", "STS", "SETFIELD"} -> 2
    [] i[1] = "STA" -> 3
    [] i[1] = "TUPLE" -> i[2]
    [] i[1] = "VARIANT" -> Len(loaded.schemas[i[2] + 1].fields)
    [] i[1] = "SLICE" -> 1 + (i[2] % 2) + (i[2] \div 2)
    [] i[1] = "CALLC" -> i[2] + 1
    [] i[1] = "BEGIN" -> i[2] + 1
    [] i[1] = "CALLBUILTIN" ->
         IF i[2] = "Lread" THEN 0 ELSE IF i[2] = "Lwrite" THEN i[3] % CG!LWRITE_NEWLINE_FLAG ELSE 1
    [] i[1] \in {"STORE", "DROP", "UNARY", "CJMP", "END", "FIELD", "ISVARIANT"} -> 1
    [] OTHER -> 0

\* The variables that LOAD and STORE reach.
Slots(rel) ==
  CASE rel = "Global" -> globals [] rel = "Local" -> Last(calls).locals
    [] rel = "Arg" -> Last(calls).args

\* Whether the operands have the types and the counts the handler asks for.
Fitting(i) ==
  LET top == Last(Temps)
  IN CASE i[1] \in {"LOAD", "STORE"} -> i[3] + 1 \in DOMAIN Slots(i[2])
       [] i[1] = "CJMP" -> top[1] = "bool"
       [] i[1] \in {"FIELD", "SETFIELD"} -> top[1] = "variant" /\ i[2] + 1 \in DOMAIN top[3]
       [] i[1] = "CALLC" ->
            LET callable == Head(Operands(i[2] + 1))
            IN callable[1] = "callable" /\ callable[3] = i[2]
       [] i[1] = "CALLBUILTIN" -> i[2] = "Lread" => inputs # <<>>
       [] OTHER -> i[1] \notin {"EOF", "INVALID"}

Able(i) == Len(Temps) >= Needs(i) /\ Fitting(i)
Ready(f, name) == f.instr[1] = name /\ Able(f.instr)

\* An InterpreterError, or what the VM does with a stack that is not as it should be.
Fail(f) ==
  /\ ~Able(f.instr)
  /\ status' = "fault" /\ UNCHANGED <<compiled, ip, calls, globals>> /\ Quiet

Push(f) ==
  LET value == CASE f.instr[1] = "CONST" -> Num(f.instr[2])
                 [] f.instr[1] = "CONSTF" -> <<"real", f.instr[2]>>
                 [] f.instr[1] = "BOOL" -> Truth(f.instr[2] # 0)
                 [] f.instr[1] = "NULL" -> Null
                 [] f.instr[1] = "STRING" -> <<"text", loaded.strings[f.instr[2] + 1]>>
                 [] f.instr[1] = "CLOSURE" -> <<"callable", f.instr[2], f.instr[3]>>
  IN /\ f.instr[1] \in {"CONST", "CONSTF", "BOOL", "NULL", "STRING", "CLOSURE"}
     /\ Leave(f, 0, <<value>>) /\ Quiet

LoadSlot(f) ==
  /\ Ready(f, "LOAD")
  /\ Leave(f, 0, <<Slots(f.instr[2])[f.instr[3] + 1]>>) /\ Quiet

StoreGlobal(f) ==
  /\ Ready(f, "STORE") /\ f.instr[2] = "Global"
  /\ globals' = [globals EXCEPT ![f.instr[3] + 1] = Last(Temps)]
  /\ calls' = WithTemps(Below(1)) /\ ip' = f.next
  /\ UNCHANGED <<compiled, status>> /\ Quiet

StoreInFrame(f) ==
  LET kept == WithTemps(Below(1))
  IN /\ Ready(f, "STORE") /\ f.instr[2] # "Global"
     /\ calls' = IF f.instr[2] = "Local"
                 THEN [kept EXCEPT ![Len(calls)].locals[f.instr[3] + 1] = Last(Temps)]
                 ELSE [kept EXCEPT ![Len(calls)].args[f.instr[3] + 1] = Last(Temps)]
     /\ ip' = f.next
     /\ UNCHANGED <<compiled, status, globals>> /\ Quiet

Drop(f) == Ready(f, "DROP") /\ Leave(f, 1, <<>>) /\ Quiet

Binop(f) ==
  /\ Ready(f, "BINOP")
  /\ Leave(f, 2, <<Binary(f.instr[2], Operands(2)[1], Operands(2)[2])>>) /\ Quiet
Unop(f) ==
  /\ Ready(f, "UNARY")
  /\ Leave(f, 1, <<Unary(f.instr[2], Last(Temps))>>) /\ Quiet

MakeTuple(f) ==
  /\ Ready(f, "TUPLE")
  /\ Leave(f, f.instr[2], <<<<"tuple", Operands(f.instr[2])>>>>) /\ Quiet
Elem(f) ==
  /\ Ready(f, "ELEM")
  /\ Leave(f, 2, <<<<"elem">> \o Operands(2)>>) /\ Quiet

\* Bit 0 says that there is a lower bound, bit 1 an upper one.
MakeSlice(f) ==
  LET n == Needs(f.instr)
  IN /\ Ready(f, "SLICE")
     /\ Leave(f, n, <<<<"slice", Head(Operands(n)),
                        IF f.instr[2] % 2 = 1 THEN Operands(n)[2] ELSE Null,
                        IF f.instr[2] \div 2 = 1 THEN Last(Temps) ELSE Null>>>>)
     /\ Quiet

Sta(f) ==
  LET collection == Operands(3)[3]
  IN /\ Ready(f, "STA")
     /\ Leave(f, 3, <<collection>>)
     /\ out' = Append(out, <<"STA", collection, Operands(3)[2], Operands(3)[1]>>)
     /\ UNCHANGED inputs
Sts(f) ==
  /\ Ready(f, "STS")
  /\ Leave(f, 2, <<>>)
  /\ out' = Append(out, <<"STS", Operands(2)[2], Operands(2)[1]>>) /\ UNCHANGED inputs

MakeVariant(f) ==
  LET schema == loaded.schemas[f.instr[2] + 1]
      n == Len(schema.fields)
  IN /\ Ready(f, "VARIANT")
     /\ Leave(f, n, <<<<"variant", schema, Operands(n)>>>>) /\ Quiet
IsVariant(f) ==
  LET v == Last(Temps)
  IN /\ Ready(f, "ISVARIANT")
     /\ Leave(f, 1, <<Truth(v[1] = "variant" /\ v[2].tag = loaded.schemas[f.instr[2] + 1].tag)>>)
     /\ Quiet
GetField(f) ==
  /\ Ready(f, "FIELD")
  /\ Leave(f, 1, <<Last(Temps)[3][f.instr[2] + 1]>>) /\ Quiet
SetField(f) ==
  LET v == Last(Temps)
  IN /\ Ready(f, "SETFIELD")
     /\ Leave(f, 2, <<>>)
     /\ out' = Append(out, <<"SETFIELD", v, v[2].fields[f.instr[2] + 1], Operands(2)[1]>>)
     /\ UNCHANGED inputs

Jmp(f) ==
  /\ Ready(f, "JMP")
  /\ ip' = f.instr[2] /\ UNCHANGED <<compiled, status, calls, globals>> /\ Quiet
Cjmp(f) ==
  /\ Ready(f, "CJMP")
  /\ calls' = WithTemps(Below(1))
  /\ ip' = IF Last(Temps) = Truth(f.instr[2] = "ISNONZERO") THEN f.instr[3] ELSE f.next
  /\ UNCHANGED <<compiled, status, globals>> /\ Quiet

\* The address to return to is pushed, for BEGIN to collect.
CallTo(f, target, below) ==
  /\ calls' = WithTemps(below \o <<<<"ip", f.next>>>>) /\ ip' = target
  /\ UNCHANGED <<compiled, status, globals>> /\ Quiet
CallFunction(f) == Ready(f, "CALL") /\ CallTo(f, f.instr[2], Temps)
CallCallable(f) ==
  LET operands == Operands(f.instr[2] + 1)
  IN Ready(f, "CALLC") /\ CallTo(f, Head(operands)[2], Below(Len(operands)) \o Tail(operands))

\* Mutant: the address to return to is taken for an argument.
BeginAll(f) ==
  LET taken == Operands(f.instr[2] + 1)
  IN /\ Ready(f, "BEGIN")
     /\ calls' = Append(WithTemps(Below(Len(taken)) \o <<Last(taken)>>),
                        Activation(taken, Zeros(f.instr[3]), <<>>))
     /\ ip' = f.next
     /\ UNCHANGED <<compiled, status, globals>> /\ Quiet

\* The operands of a call and the address to return to are on the stack.
Begin(f) ==
  LET taken == Operands(f.instr[2] + 1)
  IN /\ Ready(f, "BEGIN")
     /\ calls' = Append(WithTemps(Below(Len(taken)) \o <<Last(taken)>>),
                        Activation(Front(taken), Zeros(f.instr[3]), <<>>))
     /\ ip' = f.next
     /\ UNCHANGED <<compiled, status, globals>> /\ Quiet

\* The result replaces the return address in the caller; under main there is none.
End(f) ==
  LET caller == calls[Len(calls) - 1]
      resumed == Front(caller.temps) \o <<Last(Temps)>>
  IN /\ Ready(f, "END")
     /\ calls' = [Front(calls) EXCEPT ![Len(calls) - 1].temps = resumed]
     /\ IF Len(calls) = 2 THEN status' = "finished" /\ UNCHANGED ip
        ELSE ip' = Last(caller.temps)[2] /\ UNCHANGED status
     /\ UNCHANGED <<compiled, globals>> /\ Quiet

Lread(f) ==
  LET n == f.instr[3] % CG!LWRITE_NEWLINE_FLAG
      text_mode == f.instr[3] < CG!LWRITE_NEWLINE_FLAG
  IN /\ Ready(f, "CALLBUILTIN") /\ f.instr[2] = "Lread"
     /\ Leave(f, 0, [k \in 1..n |-> Entered(text_mode, inputs[k])])
     /\ inputs' = SubSeq(inputs, n + 1, Len(inputs)) /\ UNCHANGED out

\* Nothing to print prints no end of the line either.
Lwrite(f) ==
  LET n == f.instr[3] % CG!LWRITE_NEWLINE_FLAG
      newline == f.instr[3] >= CG!LWRITE_NEWLINE_FLAG
  IN /\ Ready(f, "CALLBUILTIN") /\ f.instr[2] = "Lwrite"
     /\ Leave(f, n, <<>>)
     /\ out' = IF n = 0 THEN out ELSE Append(out, <<"write", newline, Operands(n)>>)
     /\ UNCHANGED inputs

Builtin(f) ==
  /\ Ready(f, "CALLBUILTIN") /\ f.instr[2] \notin {"Lread", "Lwrite"}
  /\ Leave(f, 1, <<Unary(IF f.instr[2] = "Llength" THEN "Length" ELSE f.instr[2], Last(Temps))>>)
  /\ Quiet

\* dispatch.
Step ==
  /\ status = "running"
  /\ \E f \in {BF!Fetch(loaded.code, ip)} :
       \/ Fail(f) \/ Push(f) \/ LoadSlot(f) \/ StoreGlobal(f) \/ StoreInFrame(f) \/ Drop(f)
       \/ Binop(f) \/ Unop(f) \/ MakeTuple(f) \/ Elem(f) \/ MakeSlice(f) \/ Sta(f) \/ Sts(f)
       \/ MakeVariant(f) \/ IsVariant(f) \/ GetField(f) \/ SetField(f) \/ Jmp(f) \/ Cjmp(f)
       \/ CallFunction(f) \/ CallCallable(f) \/ Begin(f) \/ End(f)
       \/ Lread(f) \/ Lwrite(f) \/ Builtin(f)

-----------------------------------------------------------------------------

Init ==
  /\ program \in Programs
  /\ meaning = Meaning(program, Inputs, Fuel) /\ meaning.flow # "tired"
  /\ status = "source" /\ built = Unbuilt /\ loaded = Unloaded
  /\ ip = 0 /\ calls = <<>> /\ globals = <<>> /\ out = <<>> /\ inputs = Inputs

Next == Compile \/ Load \/ Step

Spec == Init /\ [][Next]_vars
\* Once it runs, the VM goes on until it stops.
FairSpec == Spec /\ WF_vars(Step)

-----------------------------------------------------------------------------
(* Properties.                                                             *)

Tags == {"int", "real", "bool", "null", "text", "tuple", "variant", "callable", "elem", "slice",
         "MUL", "POW", "OR", "Negate", "Not", "Length", "Abs", "typed"}

\* TypeOK: a return address is only ever on the stack of a caller, what a variable
\* holds is a value, and what is written are instructions that can be read again.
\* (eval_call and eval_begin, which share one stack; Decoder::encode)
TypeOK ==
  LET Value(v) == v[1] \in Tags
  IN /\ status \in {"source", "panic", "built", "running", "finished", "fault"}
     /\ ip \in 0..Len(loaded.code)
     /\ Len(globals) = loaded.globals /\ \A v \in ToSet(globals) : Value(v)
     /\ \A k \in DOMAIN calls :
          /\ \A v \in ToSet(calls[k].args) \cup ToSet(calls[k].locals) : Value(v)
          /\ k < Len(calls) => Last(calls[k].temps)[1] = "ip"
     /\ status = "built" =>
          \A i \in ToSet(built.instrs) : i[1] # "LABEL" => BF!IsInstruction(i)

\* MeansTheSame: the code of a program does what the program says, in the same
\* order, and stops where the program stops: at its end or at its error.
\* (bcgen.rs, bytefile.rs and the handlers of the VM together)
MeansTheSame ==
  /\ status \in {"running", "finished", "fault"} => IsPrefix(out, meaning.out)
  /\ status = "finished" => out = meaning.out /\ meaning.flow = "next"
  /\ status = "fault" => out = meaning.out /\ meaning.flow = "fault"
  /\ status # "panic"

\* MeansAsDocumented: a program that comes to its end has output what the documents
\* say.  A case of a `match' is taken for each of its values, as if it stood once for
\* every one of them (doc/archive/spec_old.md); a right operand of и and или that can
\* no longer change the answer is not evaluated, so that nothing it would output
\* appears (examples/02_arithmetic.rap: "boolean operators (short-circuit evaluation)").
MeansAsDocumented == status = "finished" => out = meaning.out

\* TempsBalanced: where control moves, a function has on the stack what the move
\* takes and nothing else; so no turn of a loop, no `exit' and no `return' leaves
\* anything there.  (emit_statement; END and the frames of RapFrames rely on it)
TempsBalanced ==
  status = "running" =>
    LET instr == BF!Fetch(loaded.code, ip).instr
    IN /\ instr[1] = "JMP" => Temps = <<>>
       /\ instr[1] \in {"CJMP", "END"} => Len(Temps) = 1

\* The BEGIN of the function that the instruction k is in.
Opening(k) == SelectLastInSubSeq(built.instrs, 1, k, LAMBDA i : i[1] = "BEGIN")

\* SlotsReserved: a function loads and stores only what its own BEGIN makes room
\* for.  (count_locals walks the body before emit_statement allocates in it)
SlotsReserved ==
  \A k \in DOMAIN built.instrs :
    LET i == built.instrs[k]
        begin == built.instrs[Opening(k)]
    IN i[1] \in {"LOAD", "STORE"} =>
         CASE i[2] = "Local" -> i[3] < begin[3]
           [] i[2] = "Arg" -> i[3] < begin[2]
           [] i[2] = "Global" -> i[3] < built.file[2]

Written == SelectSeq(built.instrs, LAMBDA i : i[1] # "LABEL")

\* What the decoder of the VM makes of a code section, from its start to its end.
Decoded(code) ==
  FoldLeft(LAMBDA d, i : LET f == BF!Fetch(code, d.next)
                         IN [instrs |-> Append(d.instrs, f.instr), next |-> f.next,
                             starts |-> d.starts \cup {d.next}],
           [instrs |-> <<>>, next |-> 0, starts |-> {}], Written)

\* DecodesBack: what the VM reads is what the compiler wrote: instruction by
\* instruction, to the last byte, whatever comes before the code in the file.
\* (Decoder::encode and Bytefile::encode; Bytefile::parse and the handlers)
DecodesBack ==
  status = "built" =>
    LET code == BF!Parse(built.file).code
        read == Decoded(code)
    IN read.instrs = Written /\ read.next = Len(code)

\* JumpsLand: no jump leads into the middle of an instruction, and a call leads
\* to the BEGIN of a function.  (the sizes add_instructions takes for granted)
JumpsLand ==
  status = "built" =>
    LET code == BF!Parse(built.file).code
        starts == Decoded(code).starts
        Target(i) == i[BF!LabelPlace(i)]
    IN \A i \in {j \in ToSet(Written) : j[1] \in BF!Jumps} :
         /\ Target(i) \in starts
         /\ i[1] \in {"CALL", "CLOSURE"} => BF!Fetch(code, Target(i)).instr[1] = "BEGIN"

\* RunsEnd: a program that ends is compiled into code that ends.
\* (the labels of loops and the counters they test)
RunsEnd == status = "running" ~> status \in {"finished", "fault"}
=============================================================================
