------------------------------ MODULE RapCalls ------------------------------
(***************************************************************************)
(* What a call promises, with no stack in sight: every call has its own    *)
(* activation with its arguments, its locals and its temporaries; an       *)
(* instruction touches the globals and the activation on top; a return     *)
(* hands one value to the caller, which finds everything else as it left   *)
(* it, and goes on where it called.                                        *)
(***************************************************************************)
EXTENDS Integers, Sequences

CONSTANTS
  Fun,       \* functions
  Arity,     \* Arity[f]: its parameters
  Locals,    \* Locals[f]: its local variables
  Main,      \* the function a run starts with
  Value,     \* values of the program; 0 is one of them
  Site,      \* addresses a call can return to
  Index,     \* numbers an instruction may carry
  NGlobals   \* global variables

VARIABLES
  globals,   \* their values
  acts,      \* activations, the running one last; none once the run has ended
  result,    \* what the main function returned
  instr,     \* the instruction executed last: which variable it was about
  status     \* "running", "finished", or "error"

vars == <<globals, acts, result, instr, status>>

Zeros(n) == [i \in 1..n |-> 0]
Activation(f, args, r) ==
  [fun |-> f, args |-> args, locals |-> Zeros(Locals[f]), temps |-> <<>>, ret |-> r]

Current == acts[Len(acts)]
Callers == SubSeq(acts, 1, Len(acts) - 1)
Running == status = "running" /\ acts # <<>>

\* The n temporaries on top, and what is below them.
Topmost(s, n) == SubSeq(s, Len(s) + 1 - n, Len(s))
Rest(s, n) == SubSeq(s, 1, Len(s) - n)

\* The running activation with new temporaries.
With(ts) == Append(Callers, [Current EXCEPT !.temps = ts])

Init ==
  /\ globals = Zeros(NGlobals)
  /\ acts = <<Activation(Main, <<>>, 0)>>
  /\ result = 0
  /\ instr = <<"NONE", 0>>
  /\ status = "running"

-----------------------------------------------------------------------------

\* One instruction on top of the temporaries.
Push(v) ==
  /\ Running
  /\ acts' = With(Append(Current.temps, v)) /\ UNCHANGED <<globals, result, status>>

Make(v) == Push(v) /\ instr' = <<"MAKE", 0>>

Drop ==
  /\ Running /\ Current.temps # <<>>
  /\ acts' = With(Rest(Current.temps, 1)) /\ instr' = <<"DROP", 0>>
  /\ UNCHANGED <<globals, result, status>>

\* A variable is loaded or assigned by its number, counted from 0.
LoadGlobal(i) == i < NGlobals /\ Push(globals[i + 1]) /\ instr' = <<"LOAD global", i>>

LoadArg(i) ==
  /\ Running /\ i < Arity[Current.fun]
  /\ Push(Current.args[i + 1]) /\ instr' = <<"LOAD arg", i>>

LoadLocal(i) ==
  /\ Running /\ i < Locals[Current.fun]
  /\ Push(Current.locals[i + 1]) /\ instr' = <<"LOAD local", i>>

Assigning == Running /\ Current.temps # <<>>
Assigned == Current.temps[Len(Current.temps)]
Left == Rest(Current.temps, 1)

StoreGlobal(i) ==
  /\ Assigning /\ i < NGlobals
  /\ globals' = [globals EXCEPT ![i + 1] = Assigned] /\ acts' = With(Left)
  /\ instr' = <<"STORE global", i>> /\ UNCHANGED <<result, status>>

StoreArg(i) ==
  /\ Assigning /\ i < Arity[Current.fun]
  /\ acts' = Append(Callers, [Current EXCEPT !.temps = Left, !.args[i + 1] = Assigned])
  /\ instr' = <<"STORE arg", i>> /\ UNCHANGED <<globals, result, status>>

StoreLocal(i) ==
  /\ Assigning /\ i < Locals[Current.fun]
  /\ acts' = Append(Callers, [Current EXCEPT !.temps = Left, !.locals[i + 1] = Assigned])
  /\ instr' = <<"STORE local", i>> /\ UNCHANGED <<globals, result, status>>

\* The arguments leave the caller's temporaries, and so does the function value
\* below them when there is one.
Call(f, r, hasCallable) ==
  /\ Running
  /\ LET ts == Current.temps
         n == Arity[f] + (IF hasCallable THEN 1 ELSE 0)
     IN /\ Len(ts) >= n
        /\ hasCallable => ts[Len(ts) - Arity[f]] = f
        /\ acts' = Append(With(Rest(ts, n)), Activation(f, Topmost(ts, Arity[f]), r))
  /\ instr' = <<"CALL", Arity[f]>> /\ UNCHANGED <<globals, result, status>>

Return ==
  /\ Running /\ Current.temps # <<>>
  /\ LET v == Current.temps[Len(Current.temps)]
         caller == acts[Len(acts) - 1]
     IN IF Len(acts) = 1
        THEN acts' = <<>> /\ result' = v /\ status' = "finished"
        ELSE /\ acts' = Append(SubSeq(acts, 1, Len(acts) - 2),
                               [caller EXCEPT !.temps = Append(@, v)])
             /\ UNCHANGED <<result, status>>
  /\ instr' = <<"END", 0>> /\ UNCHANGED globals

\* The machine may give up at any time: the stack is full, or a value is not
\* what an instruction expects.
Fail ==
  /\ Running
  /\ acts' = <<>> /\ status' = "error" /\ UNCHANGED <<globals, result, instr>>

Next ==
  \/ \E v \in Value : Make(v)
  \/ Drop \/ Return \/ Fail
  \/ \E i \in Index :
       \/ LoadGlobal(i) \/ LoadArg(i) \/ LoadLocal(i)
       \/ StoreGlobal(i) \/ StoreArg(i) \/ StoreLocal(i)
  \/ \E f \in Fun, r \in Site, hasCallable \in BOOLEAN : Call(f, r, hasCallable)

Spec == Init /\ [][Next]_vars

=============================================================================
