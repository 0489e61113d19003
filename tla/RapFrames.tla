------------------------------ MODULE RapFrames ------------------------------
(***************************************************************************)
(* Frames on the operand stack of interpreter.rs.  Globals, arguments,     *)
(* frame metadata, locals and temporaries share one stack, and the         *)
(* metadata are values like any other: a frame is where frame_pointer says *)
(* it is, and                                                              *)
(*                                                                         *)
(*   fp - args ..   arguments, pushed by the caller                        *)
(*   fp             empty closure slot                                     *)
(*   fp + 1, fp + 2 argument and local counts                              *)
(*   fp + 3, fp + 4 frame pointer and address to return to                 *)
(*   fp + 5 ..      locals, then temporaries                               *)
(*                                                                         *)
(* A body is any sequence of instructions that pops no more than it has    *)
(* pushed, as bcgen.rs counts it: an expression leaves one value, a        *)
(* statement none.  `depth' is that count; that it agrees with the stack   *)
(* is a property of the calls.  Releasing references is left to RapHeap.   *)
(*                                                                         *)
(* The VM has error returns for slots that are not there; they need a      *)
(* frame that is not intact, and ChainIntact holds in every state, so they *)
(* are not modelled.  A call that takes for arguments what its caller has  *)
(* not passed ends the run here ("overlap"): what such a program does next *)
(* is not followed.                                                        *)
(***************************************************************************)
EXTENDS Integers, Sequences

CONSTANTS
  Fun,        \* functions, and the callable values that stand for them
  Arity,      \* Arity[f]: `args' of its BEGIN
  Locals,     \* Locals[f]: `locals' of its BEGIN
  Reserve,    \* Reserve[f]: the stack size in the upper half of `args'
  Main,       \* the function at main_offset
  Data,       \* values of the program besides zero and functions
  Site,       \* addresses that follow a call
  Body,       \* an address inside a function that no call returns to
  NGlobals,   \* global_areas_size
  MaxStack,   \* MAX_OPERAND_STACK_SIZE
  MaxTemps,   \* bound: temporaries of one frame
  Discipline  \* what the program respects although the VM never checks it

ASSUME FunAssumption ==
  /\ Main \in Fun
  /\ Arity \in [Fun -> Nat] /\ Locals \in [Fun -> Nat] /\ Reserve \in [Fun -> Nat]
  /\ Arity[Main] = 0
ASSUME StackAssumption ==
  /\ NGlobals \in Nat /\ MaxStack \in Nat /\ MaxTemps \in Nat
  /\ NGlobals + 8 <= MaxStack
ASSUME ValueAssumption ==
  /\ Nat \cap (Fun \cup Site) = {} /\ Fun \cap (Data \cup Site) = {}
  /\ Body \notin Nat \cup Fun \cup Site
\* "ArityMatches": a CALL has as many arguments as the function has parameters.
ASSUME DisciplineAssumption == Discipline \subseteq {"ArityMatches"}

VARIABLES
  stack,   \* operand_stack
  fp,      \* frame_pointer
  argc,    \* frame_arg_count
  locc,    \* frame_local_count
  ip,      \* decoder.ip: the entry of f after a call to f, until its BEGIN
  status,  \* how far the run has come
  depth,   \* history: temporaries the running body has, as bcgen.rs counts them
  frames,  \* history: the frames that are open, outermost first; `left' counts
           \* the temporaries its caller has kept below the arguments
  instr    \* history: the instruction executed last

regs == <<fp, argc, locc>>
history == <<depth, frames, instr>>
vars == <<stack, fp, argc, locc, ip, status, depth, frames, instr>>

\* No program can name the main function.
Callable == Fun \ {Main}
Value == {0} \cup Data \cup Callable
Slot == Nat \cup Data \cup Fun \cup Site
Frame == [fun : Fun, fp : Nat, ret : Site \cup {0}, left : Nat]
Terminal == {"finished", "error", "overlap"}

-----------------------------------------------------------------------------
(* Reading the stack, whose slots the code counts from 0.                  *)

At(i) == stack[i + 1]
Top(n) == stack[Len(stack) + 1 - n]
Below(n) == SubSeq(stack, 1, Len(stack) - n)
Operands(n) == SubSeq(stack, Len(stack) + 1 - n, Len(stack))

FrameEnd == fp + 5 + locc
Entering == ip \in Fun
Innermost == frames[Len(frames)]

\* An instruction of the running body that needs n temporaries.
Executing(n) ==
  /\ status = "running" /\ ~Entering
  /\ depth >= n /\ Len(stack) >= NGlobals + n

\* An InterpreterError, with the stack s.
Fail(s) ==
  /\ stack' = s /\ status' = "error" /\ UNCHANGED <<regs, ip, history>>

\* Mutant: the limit of the stack is not looked at.
PushUnlimited(v, what) ==
  /\ depth < MaxTemps
  /\ stack' = Append(stack, v) /\ depth' = depth + 1 /\ instr' = what
  /\ UNCHANGED <<regs, ip, status, frames>>

\* push, by the instruction `what'.  (MaxTemps bounds the state space, not the
\* program.)
Push(v, what) ==
  /\ depth < MaxTemps
  /\ \/ /\ Len(stack) < MaxStack
        /\ stack' = Append(stack, v) /\ depth' = depth + 1 /\ instr' = what
        /\ UNCHANGED <<regs, ip, status, frames>>
     \/ Len(stack) >= MaxStack /\ Fail(stack)

-----------------------------------------------------------------------------
(* Instructions of a body.                                                 *)

\* Every instruction that makes a value, from nothing or after Drops.
Make(v) == Executing(0) /\ Push(v, <<"MAKE", 0>>)

Drop ==
  /\ Executing(1)
  /\ stack' = Below(1) /\ depth' = depth - 1 /\ instr' = <<"DROP", 0>>
  /\ UNCHANGED <<regs, ip, status, frames>>

\* Mutant: arguments are counted from the slot after the first one.
ArgSlotLate(i) == fp - argc + i + 1

ArgSlot(i) == fp - argc + i

\* Mutant: locals are counted from the slot of the return address.
LocalSlotEarly(i) == fp + 4 + i

LocalSlot(i) == fp + 5 + i

\* arg_slot_index and local_slot_index refuse an index beyond the count; bcgen.rs
\* numbers the globals itself.
Load(slot, i, count, what) ==
  /\ Executing(0)
  /\ \/ i >= count /\ Fail(stack)
     \/ i < count /\ Push(At(slot), <<what, i>>)

LoadGlobal(i) == i < NGlobals /\ Load(i, i, NGlobals, "LOAD global")
LoadArg(i) == Load(ArgSlot(i), i, argc, "LOAD arg")
LoadLocal(i) == Load(LocalSlot(i), i, locc, "LOAD local")

\* The value is popped before the slot is looked up.
Store(slot, i, count, what) ==
  /\ Executing(1)
  /\ \/ i >= count /\ Fail(Below(1))
     \/ /\ i < count
        /\ stack' = [Below(1) EXCEPT ![slot + 1] = Top(1)]
        /\ depth' = depth - 1 /\ instr' = <<what, i>>
        /\ UNCHANGED <<regs, ip, status, frames>>

StoreGlobal(i) == i < NGlobals /\ Store(i, i, NGlobals, "STORE global")
StoreArg(i) == Store(ArgSlot(i), i, argc, "STORE arg")
StoreLocal(i) == Store(LocalSlot(i), i, locc, "STORE local")

-----------------------------------------------------------------------------
(* Calls.                                                                  *)

\* CALL: the argument count n of the instruction is read and forgotten; BEGIN
\* goes by the function's own.  The address of the next instruction is pushed.
Call(f, n, r) ==
  /\ Executing(n)
  /\ "ArityMatches" \in Discipline => n = Arity[f]
  /\ \/ /\ Len(stack) < MaxStack
        /\ stack' = Append(stack, r) /\ ip' = f
        /\ depth' = depth - n /\ instr' = <<"CALL", n>>
        /\ UNCHANGED <<regs, status, frames>>
     \/ Len(stack) >= MaxStack /\ Fail(stack)

\* CALLC: the callable below the arguments is checked, and removed.
CallClosure(n, r) ==
  /\ Executing(n + 1)
  /\ LET callable == Top(n + 1)
     IN \/ callable \notin Fun /\ Fail(stack)
        \/ callable \in Fun /\ Arity[callable] # n /\ Fail(stack)
        \/ /\ callable \in Fun /\ Arity[callable] = n
           /\ stack' = Append(Below(n + 1) \o Operands(n), r)
           /\ ip' = callable
           /\ depth' = depth - (n + 1) /\ instr' = <<"CALL", n>>
           /\ UNCHANGED <<regs, status, frames>>

\* What BEGIN puts between the arguments and the locals.
Metadata(f, r) == <<0, Arity[f], Locals[f], fp, r>>

\* BEGIN.  It pushes slot by slot; a push that fails leaves the ones before it.
Begin ==
  /\ status = "running" /\ Entering
  /\ LET f == ip
         ret == Top(1)
         full == Below(1) \o Metadata(f, ret) \o [i \in 1..Locals[f] |-> 0]
         fits == Len(stack) + Reserve[f] <= MaxStack
     IN \/ ~fits /\ Fail(stack)
        \/ fits /\ Len(stack) - 1 < Arity[f] /\ Fail(Below(1))
        \/ /\ fits /\ Len(stack) - 1 >= Arity[f]
           /\ fp' = Len(stack) - 1 /\ argc' = Arity[f] /\ locc' = Locals[f]
           /\ \/ /\ Len(full) > MaxStack
                 /\ stack' = SubSeq(full, 1, MaxStack) /\ status' = "error"
                 /\ UNCHANGED <<ip, history>>
              \/ /\ Len(full) <= MaxStack
                 /\ stack' = full /\ ip' = Body /\ depth' = 0
                 /\ status' = IF fp' - Arity[f] >= FrameEnd + depth THEN status ELSE "overlap"
                 /\ frames' = Append(frames,
                      [fun |-> f, fp |-> Len(stack) - 1, ret |-> ret, left |-> depth])
                 /\ UNCHANGED instr

\* Mutant: the arguments stay on the stack.
ArgumentsStartAtFrame == fp

\* Mutant: one slot below the arguments is removed with them.
ArgumentsStartEarly == fp - argc - 1

ArgumentsStart == fp - argc

\* Mutant: the counts of the callee are kept.
ReloadNothing == UNCHANGED <<argc, locc>>

\* The counts of the caller are read from its own frame.
Reload == argc' = stack'[fp' + 2] /\ locc' = stack'[fp' + 3]

\* END.  What the frame has besides its result is dropped with it.
End ==
  /\ Executing(1)
  /\ stack' = Append(SubSeq(stack, 1, ArgumentsStart), Top(1))
  /\ fp' = At(fp + 3) /\ ip' = At(fp + 4)
  /\ depth' = 1 + Innermost.left /\ instr' = <<"END", 0>>
  /\ frames' = SubSeq(frames, 1, Len(frames) - 1)
  /\ \/ fp' = NGlobals /\ status' = "finished" /\ UNCHANGED <<argc, locc>>
     \/ fp' # NGlobals /\ Reload /\ UNCHANGED status

Stopped == status \in Terminal /\ UNCHANGED vars

-----------------------------------------------------------------------------
(* The machine.                                                            *)

\* Interpreter::new emulates a call to main: 8 slots above the globals, the
\* last of which BEGIN takes for the address to return to.
Init ==
  /\ stack = [i \in 1..(NGlobals + 8) |-> IF i = NGlobals + 2 THEN 2 ELSE 0]
  /\ fp = NGlobals /\ argc = 2 /\ locc = 0
  /\ ip = Main
  /\ status = "running"
  /\ depth = 0 /\ frames = <<>> /\ instr = <<"NONE", 0>>

Index == 0..MaxTemps

Next ==
  \/ \E v \in Value : Make(v)
  \/ Drop \/ Begin \/ End \/ Stopped
  \/ \E i \in Index :
       \/ LoadGlobal(i) \/ LoadArg(i) \/ LoadLocal(i)
       \/ StoreGlobal(i) \/ StoreArg(i) \/ StoreLocal(i)
  \/ \E n \in Index, r \in Site : CallClosure(n, r) \/ \E f \in Callable : Call(f, n, r)

Spec == Init /\ [][Next]_vars

-----------------------------------------------------------------------------
(* What frames are for.                                                    *)

\* Every variable holds what its declaration in the code can hold, and the
\* operand stack never outgrows its limit.
TypeOK ==
  /\ stack \in Seq(Slot) /\ Len(stack) <= MaxStack
  /\ fp \in Nat /\ argc \in Nat /\ locc \in Nat
  /\ ip \in Fun \cup Site \cup {Body, 0}
  /\ status \in {"running"} \cup Terminal
  /\ depth \in Nat
  /\ frames \in Seq(Frame)

EndOf(w) == w.fp + 5 + Locals[w.fun]
StartOf(w) == w.fp - Arity[w.fun]

\* The metadata of every open frame are what BEGIN put there, whatever the
\* frame's own instructions, its callees and their returns have done since:
\* every END will return to the right place and find the right counts.
ChainIntact ==
  status = "running" =>
    /\ \A k \in 1..Len(frames) :
         LET w == frames[k]
         IN /\ EndOf(w) <= Len(stack)
            /\ SubSeq(stack, w.fp + 2, w.fp + 5) =
                 <<Arity[w.fun], Locals[w.fun],
                   IF k = 1 THEN NGlobals ELSE frames[k - 1].fp, w.ret>>
    /\ frames # <<>> =>
         fp = Innermost.fp /\ argc = Arity[Innermost.fun] /\ locc = Locals[Innermost.fun]

\* "Call the function whose bytecode starts at `offset` with `n` arguments"
\* (doc/opcodes.typ): the arguments of a frame are what its caller has passed,
\* not what it has kept, its locals or its metadata, so that what the callee
\* assigns to them and what END removes with them is its own.
FramesDisjoint ==
  \A k \in 1..Len(frames) :
    StartOf(frames[k]) >=
      (IF k = 1 THEN NGlobals + 7 ELSE EndOf(frames[k - 1])) + frames[k].left

\* Where the temporaries of the k-th frame end: at the arguments of its callee.
TempsEnd(k) ==
  IF k < Len(frames) THEN StartOf(frames[k + 1])
  ELSE Len(stack) - (IF Entering THEN 1 + Arity[ip] ELSE 0)

\* When a call has returned, however deep it went, the stack is as deep as
\* the compiled code takes it to be.
StackBalanced ==
  status = "running" =>
    \A k \in 1..Len(frames) :
      TempsEnd(k) - EndOf(frames[k]) =
        IF k < Len(frames) THEN frames[k + 1].left ELSE depth

-----------------------------------------------------------------------------
(* The frames implement activations (RapCalls).                            *)

ActivationOf(k) ==
  LET w == frames[k]
  IN [fun |-> w.fun,
      args |-> SubSeq(stack, StartOf(w) + 1, w.fp),
      locals |-> SubSeq(stack, w.fp + 6, EndOf(w)),
      temps |-> SubSeq(stack, EndOf(w) + 1, TempsEnd(k)),
      ret |-> w.ret]

\* Between a call and its BEGIN the callee has its arguments and nothing else.
Callee ==
  [fun |-> ip,
   args |-> SubSeq(stack, Len(stack) - Arity[ip], Len(stack) - 1),
   locals |-> [i \in 1..Locals[ip] |-> 0],
   temps |-> <<>>,
   ret |-> Top(1)]

Activations ==
  [k \in 1..Len(frames) |-> ActivationOf(k)] \o (IF Entering THEN <<Callee>> ELSE <<>>)

Calls == INSTANCE RapCalls WITH
  globals <- SubSeq(stack, 1, NGlobals),
  acts <- IF status = "running" THEN Activations ELSE <<>>,
  result <- IF status = "finished" THEN Top(1) ELSE 0

\* Every step of the stack machine is a step of RapCalls or changes nothing
\* there: callers, globals and results are what the language promises.
CallsSpec == Calls!Spec

=============================================================================
