------------------------------ MODULE RapHeap ------------------------------
(***************************************************************************)
(* Ownership of heap objects in the Rapira virtual machine: the operand    *)
(* stack of interpreter.rs, the reference-counted objects of src/runtime,  *)
(* and what every instruction that touches a reference does to the two.    *)
(*                                                                         *)
(* A program is any sequence of instructions whose operands are on the     *)
(* stack; the interpreter is single threaded, so one instruction is one    *)
(* step.  The exception is what RAP_dec_ref starts: RAP_free_object calls  *)
(* it on every child and gives the memory back last.  That recursion is    *)
(* modelled one call at a time, with `freeing' as its stack of calls and   *)
(* `pending' as the decrements it still has to do; an assignment to an     *)
(* item goes on after it (`assigning').  The next instruction starts when  *)
(* the three are Settled.                                                  *)
(*                                                                         *)
(* Data is abstracted to what ownership can tell apart.  Imm stands for    *)
(* every value that is not a pointer (small integer, boolean, empty slot); *)
(* an integer the code reads from it (an index, a bound, a repeat count)   *)
(* is chosen by the action.                                                *)
(***************************************************************************)
EXTENDS Integers, Sequences, FiniteSets

CONSTANTS
  Addr,        \* addresses malloc can return
  Imm,         \* a value that is not a pointer
  FloatVal,    \* contents of a float object
  NGlobals,    \* global_areas_size: slots at the bottom of the stack
  MaxStack,    \* MAX_OPERAND_STACK_SIZE
  MaxDepth,    \* nested calls of RAP_free_object the C stack has room for
  MaxItems,    \* bound: items of one tuple, text or variant
  MaxLeak,     \* bound: references one run may lose
  Instrs,      \* the instructions the program uses
  Discipline   \* what the program respects although the VM never checks it

ASSUME AddrAssumption == IsFiniteSet(Addr) /\ Imm \notin Addr
ASSUME SizeAssumption ==
  /\ NGlobals \in Nat /\ MaxStack \in Nat /\ MaxItems \in Nat /\ MaxLeak \in Nat
  /\ MaxDepth \in Nat /\ NGlobals <= MaxStack
ASSUME FloatAssumption == FloatVal # {}
\* "IndexInRange": STA is used with an index of the container.  "TextGetsChar": an
\* element or a slice of a text is assigned text.  "FlatSlices": an assignment to a
\* slice copies no pointer, cuts none off and leaves the parent no shorter.
ASSUME DisciplineAssumption ==
  Discipline \subseteq {"IndexInRange", "TextGetsChar", "FlatSlices"}

VARIABLES
  tag,      \* tag[a]: RAP_ObjectTag of the object at a, "free" if there is none
  rc,       \* rc[a]: its refcount field
  items,    \* items[a]: tuple and text items, variant fields, a slice's parent
  win,      \* win[a]: bounds [lo, hi) of a slice
  num,      \* num[a]: content of a float
  stack,    \* operand_stack, globals first
  pending,  \* values RAP_dec_ref still has to visit, next one first
  freeing,  \* calls of RAP_free_object that have not returned, innermost last:
            \* its object, and how many of `pending' come after it
  assigning, \* the second half of STA, while the old item is released
  leaked,   \* leaked[a]: counted references to a that nothing will release
  status    \* how far the run has come

heapVars == <<tag, rc, items, win, num>>
vars == <<tag, rc, items, win, num, stack, pending, freeing, assigning, leaked, status>>

Value == Addr \union {Imm}
Tag == {"free", "float", "null", "callable", "text", "tuple", "slice", "variant"}
Halted == {"undefined", "crashed"}
Terminal == {"finished", "dropped", "exited"} \union Halted
Status == {"running", "error"} \union Terminal
NoWin == [lo |-> 0, hi |-> 0]
NoNum == CHOOSE f \in FloatVal : TRUE
Call == [object : Addr, left : Nat]
Assignment == [index : Nat, item : Value]
NoAssign == [index |-> 0, item |-> Imm]

-----------------------------------------------------------------------------
(* Reading the state.                                                      *)

Kind(v) == IF v \in Addr THEN tag[v] ELSE "imm"

\* The number of places of the sequence s that hold a.
Occurs(s, a) == Cardinality({i \in DOMAIN s : s[i] = a})

\* The n-th operand from the top, the n topmost ones, what is below them.
Top(n) == stack[Len(stack) + 1 - n]
Operands(n) == SubSeq(stack, Len(stack) + 1 - n, Len(stack))
Below(n) == SubSeq(stack, 1, Len(stack) - n)

\* What a slice shows of its parent (RAP_materialize_slice); a tuple or a
\* text shows itself.
Root(v) == IF tag[v] = "slice" THEN items[v][1] ELSE v
Lo(v) == IF tag[v] = "slice" THEN win[v].lo ELSE 0
Hi(v) == IF tag[v] = "slice" THEN win[v].hi ELSE Len(items[v])
Shown(v) == SubSeq(items[Root(v)], Lo(v) + 1, Hi(v))
RootTag(v) == IF v \in Addr /\ tag[v] = "slice" THEN tag[items[v][1]] ELSE Kind(v)

\* RAP_length accepts these; on a slice it is the difference of the bounds.
Sized(v) == Kind(v) \in {"text", "tuple", "slice"}
Length(v) == IF tag[v] = "slice" THEN win[v].hi - win[v].lo ELSE Len(items[v])

\* A slice's parent has been freed; or items of the parent that the slice shows
\* have been cut off by an assignment to another slice.
Orphan(v) == Kind(v) = "slice" /\ tag[Root(v)] \notin {"text", "tuple"}
Stale(v) == Orphan(v) \/ (Kind(v) = "slice" /\ Hi(v) > Len(items[Root(v)]))

\* RAP_free_object has been called on a and has not returned.
BeingFreed(a) == \E i \in DOMAIN freeing : freeing[i].object = a

\* Mutant: the count is compared before it is taken down.
LastOwnerEarly(v) == rc[v] <= 2

\* The count RAP_dec_ref takes down becomes zero or less.
LastOwner(v) == rc[v] <= 1

\* Mutant: a float is overwritten whoever else holds it.
UnsharedNever(v) == rc[v] > 0

\* A float that only the operand stack holds may be overwritten.
Unshared(v) == rc[v] = 1

\* Mutant: the destructor of a slice leaves its parent alone.
ChildrenOfSliceKept(v) == IF tag[v] = "slice" THEN <<>> ELSE items[v]

\* What RAP_free_object releases before the memory of v: the items, the fields, and
\* the parent of a slice.
Children(v) == items[v]

\* The items a materialized copy of v counts; nothing releases the copy.
Materialized(v) ==
  IF Kind(v) = "slice" /\ RootTag(v) = "tuple" THEN Shown(v) ELSE <<>>

\* Mutant: a negative `from' is not moved to 0.
ClampBelowZero(from, to, count) ==
  LET hi == IF to > count THEN count ELSE to
      lo == IF from > hi THEN hi ELSE from
  IN [lo |-> lo, hi |-> IF lo = hi /\ hi < count THEN hi + 1 ELSE hi]

\* Mutant: a single position becomes a slice of one item at the very end, too.
ClampPastEnd(from, to, count) ==
  LET hi == IF to > count THEN count ELSE to
      lo == IF from < 0 THEN 0 ELSE IF from > hi THEN hi ELSE from
  IN [lo |-> lo, hi |-> IF lo = hi THEN hi + 1 ELSE hi]

\* RAP_create_slice moves the bounds into a root of `count' items; a single
\* position becomes a slice of one item.
Clamp(from, to, count) ==
  LET hi == IF to > count THEN count ELSE to
      lo == IF from < 0 THEN 0 ELSE IF from > hi THEN hi ELSE from
  IN [lo |-> lo, hi |-> IF lo = hi /\ hi < count THEN hi + 1 ELSE hi]

\* The window the slice from..to of c has in its root; a negative `to' stands
\* for the length of c.
Window(c, from, to) ==
  Clamp(Lo(c) + from, Lo(c) + (IF to >= 0 THEN to ELSE Length(c)), Len(items[Root(c)]))

-----------------------------------------------------------------------------
(* Changing the state.                                                     *)

\* refcount of every object after one RAP_inc_ref for each pointer in s.
Counted(s) == [x \in Addr |-> rc[x] + Occurs(s, x)]

Leak(s) == leaked' = [x \in Addr |-> leaked[x] + Occurs(s, x)]

\* Bounds the state space where a handler that goes on running can lose count.
LeakBounded == \A x \in Addr : leaked'[x] <= MaxLeak

\* malloc returns a, and the constructor fills the object in.
Place(a, t, its, w, f) ==
  /\ tag[a] = "free"
  /\ tag' = [tag EXCEPT ![a] = t]
  /\ items' = [items EXCEPT ![a] = its]
  /\ win' = [win EXCEPT ![a] = w]
  /\ num' = [num EXCEPT ![a] = f]

\* Mutant: a constructor does not count what it is given.
AllocUncounted(a, t, its, w, f, s) ==
  Place(a, t, its, w, f) /\ rc' = [rc EXCEPT ![a] = 1]

\* A constructor: refcount = 1, and RAP_inc_ref on every value of s.
Alloc(a, t, its, w, f, s) ==
  Place(a, t, its, w, f) /\ rc' = [Counted(s) EXCEPT ![a] = 1]

\* push: StackOverflow drops the value, and with it the reference it carries.
Push(v) ==
  IF Len(stack) < MaxStack
  THEN stack' = Append(stack, v) /\ UNCHANGED <<leaked, status>>
  ELSE Leak(<<v>>) /\ status' = "error" /\ UNCHANGED stack

Replace(n, v) == stack' = Append(Below(n), v) /\ UNCHANGED <<leaked, status>>
Release(s) == pending' = s

\* Nothing is left of the last instruction.
Settled == pending = <<>> /\ freeing = <<>> /\ assigning = NoAssign

\* An instruction that needs n operands is about to run.
Ready(name, n) ==
  /\ status = "running" /\ Settled
  /\ name \in Instrs
  /\ Len(stack) >= NGlobals + n

Handler(name, n) == Ready(name, n) /\ UNCHANGED <<freeing, assigning>>

\* The handler returns an InterpreterError after it popped n operands.
Fail(n) ==
  /\ stack' = Below(n) /\ Leak(Operands(n)) /\ status' = "error"
  /\ UNCHANGED <<heapVars, pending>>

\* RAP_fatal_error: exit(1).
Fatal == status' = "exited" /\ UNCHANGED <<heapVars, stack, pending, leaked>>

\* The C code leaves the bounds of an allocation or uses a freed one: what
\* happens from here on is not defined.
Undefined ==
  /\ status' = "undefined"
  /\ UNCHANGED <<heapVars, stack, pending, freeing, assigning, leaked>>

-----------------------------------------------------------------------------
(* Instructions that push.                                                 *)

Const == Handler("CONST", 0) /\ Push(Imm) /\ UNCHANGED <<heapVars, pending>>

Constf(a, f) ==
  /\ Handler("CONSTF", 0)
  /\ Alloc(a, "float", <<>>, NoWin, f, <<>>) /\ Push(a) /\ UNCHANGED pending

Null(a) ==
  /\ Handler("NULL", 0)
  /\ Alloc(a, "null", <<>>, NoWin, NoNum, <<>>) /\ Push(a) /\ UNCHANGED pending

Closure(a) ==
  /\ Handler("CLOSURE", 0)
  /\ Alloc(a, "callable", <<>>, NoWin, NoNum, <<>>) /\ Push(a) /\ UNCHANGED pending

\* STRING, and READ of a text line: n characters.
Text(a, n) ==
  /\ Handler("STRING", 0)
  /\ Alloc(a, "text", [i \in 1..n |-> Imm], NoWin, NoNum, <<>>)
  /\ Push(a) /\ UNCHANGED pending

\* Mutant: the copy is not counted.
LoadUncounted(g) ==
  /\ Handler("LOAD", 0)
  /\ Push(stack[g]) /\ UNCHANGED <<heapVars, pending>>

\* LOAD: the reference is counted before push can fail.
Load(g) ==
  /\ Handler("LOAD", 0)
  /\ rc' = Counted(<<stack[g]>>) /\ Push(stack[g])
  /\ UNCHANGED <<tag, items, win, num, pending>>

\* DUP: the second push fails before the reference is counted.
Dup ==
  /\ Handler("DUP", 1)
  /\ \/ /\ Len(stack) < MaxStack
        /\ rc' = Counted(<<Top(1)>>)
        /\ stack' = Append(stack, Top(1)) /\ UNCHANGED status
     \/ /\ Len(stack) = MaxStack
        /\ status' = "error" /\ UNCHANGED <<rc, stack>>
  /\ UNCHANGED <<tag, items, win, num, pending, leaked>>

-----------------------------------------------------------------------------
(* Instructions that move or drop references.                              *)

Store(g) ==
  /\ Handler("STORE", 1)
  /\ stack' = [Below(1) EXCEPT ![g] = Top(1)]
  /\ Release(<<stack[g]>>)
  /\ UNCHANGED <<heapVars, leaked, status>>

\* Mutant: the popped value is forgotten.
DropUnreleased ==
  /\ Handler("DROP", 1)
  /\ stack' = Below(1) /\ UNCHANGED <<heapVars, pending, leaked, status>>

Drop ==
  /\ Handler("DROP", 1)
  /\ stack' = Below(1) /\ Release(<<Top(1)>>)
  /\ UNCHANGED <<heapVars, leaked, status>>

Swap ==
  /\ Handler("SWAP", 2)
  /\ stack' = Below(2) \o <<Top(1), Top(2)>>
  /\ UNCHANGED <<heapVars, pending, leaked, status>>

\* END of a call whose frame owns n slots: the return value outlives them.
End(n) ==
  /\ Handler("END", n + 1)
  /\ Replace(n + 1, Top(1))
  /\ Release(SubSeq(stack, Len(stack) - n, Len(stack) - 1))
  /\ UNCHANGED heapVars

\* ISVARIANT and the type predicates: an immediate answer for any operand.
Inspect ==
  /\ Handler("ISVARIANT", 1)
  /\ Replace(1, Imm) /\ Release(<<Top(1)>>) /\ UNCHANGED heapVars

VariantTag ==
  /\ Handler("VARIANTTAG", 1)
  /\ \/ Kind(Top(1)) # "variant" /\ Fail(1)
     \/ /\ Kind(Top(1)) = "variant"
        /\ Replace(1, Imm) /\ Release(<<Top(1)>>) /\ UNCHANGED heapVars

\* A conditional jump pops a boolean; anything else is an error.
Branch ==
  /\ Handler("CJMP", 1)
  /\ \/ Fail(1)
     \/ /\ Top(1) = Imm
        /\ stack' = Below(1) /\ UNCHANGED <<heapVars, pending, leaked, status>>

-----------------------------------------------------------------------------
(* Tuples, texts, variants and slices.                                     *)

\* TUPLE n: RAP_create_tuple_obj counts every element, then the operands are
\* popped and released one after the other.
Tuple(a, n) ==
  /\ Handler("TUPLE", n)
  /\ Alloc(a, "tuple", Operands(n), NoWin, NoNum, Operands(n))
  /\ IF n = 0 THEN Push(a) ELSE Replace(n, a)
  /\ Release([i \in 1..n |-> Top(i)])

\* Mutant: the references move into the payload and are counted there, too.
VariantCounted(a, n) ==
  /\ Handler("VARIANT", n)
  /\ Alloc(a, "variant", Operands(n), NoWin, NoNum, Operands(n))
  /\ IF n = 0 THEN Push(a) ELSE Replace(n, a)
  /\ UNCHANGED pending

\* Mutant: the references move into the payload, and the operands are released.
VariantReleased(a, n) ==
  /\ Handler("VARIANT", n)
  /\ Alloc(a, "variant", Operands(n), NoWin, NoNum, <<>>)
  /\ IF n = 0 THEN Push(a) ELSE Replace(n, a)
  /\ Release(Operands(n))

\* VARIANT n: the operands' references move into the payload.
Variant(a, n) ==
  /\ Handler("VARIANT", n)
  /\ Alloc(a, "variant", Operands(n), NoWin, NoNum, <<>>)
  /\ IF n = 0 THEN Push(a) ELSE Replace(n, a)
  /\ UNCHANGED pending

Field(k) ==
  /\ Handler("FIELD", 1)
  /\ LET v == Top(1)
     IN \/ Kind(v) # "variant" /\ Fail(1)
        \/ Kind(v) = "variant" /\ k > Len(items[v]) /\ Fatal
        \/ /\ Kind(v) = "variant" /\ k <= Len(items[v])
           /\ rc' = Counted(<<items[v][k]>>)
           /\ Replace(1, items[v][k]) /\ Release(<<v>>)
           /\ UNCHANGED <<tag, items, win, num>>

SetField(k) ==
  /\ Handler("SETFIELD", 2)
  /\ LET v == Top(1)
         new == Top(2)
     IN \/ Kind(v) # "variant" /\ Fail(2)
        \/ Kind(v) = "variant" /\ k > Len(items[v]) /\ Fatal
        \/ /\ Kind(v) = "variant" /\ k <= Len(items[v])
           /\ rc' = Counted(<<new>>)
           /\ items' = [items EXCEPT ![v][k] = new]
           /\ stack' = Below(2) /\ Release(<<items[v][k], new, v>>)
           /\ UNCHANGED <<tag, win, num, leaked, status>>

\* ELEM: a character of a text is a new text; an element of a tuple is shared.
Elem(a, k) ==
  /\ Handler("ELEM", 2)
  /\ LET c == Top(2)
     IN \/ ~Sized(c) /\ Fatal
        \/ Sized(c) /\ k \notin 1..Length(c) /\ Fail(2)
        \/ /\ Sized(c) /\ k \in 1..Length(c)
           /\ Orphan(c) \/ Lo(c) + k > Len(items[Root(c)])
           /\ Undefined
        \/ /\ Sized(c) /\ k \in 1..Length(c)
           /\ ~Orphan(c) /\ Lo(c) + k <= Len(items[Root(c)])
           /\ LET x == items[Root(c)][Lo(c) + k]
              IN IF RootTag(c) = "text"
                 THEN Alloc(a, "text", <<x>>, NoWin, NoNum, <<>>) /\ Replace(2, a)
                 ELSE /\ rc' = Counted(<<x>>) /\ Replace(2, x)
                      /\ UNCHANGED <<tag, items, win, num>>
           /\ Release(<<c, Top(1)>>)

\* Mutant: the operand is released before the item that may be it is counted.
ReleaseItemOperandFirst(k, x) ==
  /\ Release(<<items[Top(1)][k], Top(3)>>)
  /\ assigning' = [index |-> k, item |-> x]
  /\ stack' = [stack EXCEPT ![Len(stack) - 2] = Imm]
  /\ UNCHANGED <<heapVars, freeing, leaked, status>>

\* RAP_set_tuple_item releases the old item, with everything it owns, while the
\* container still shows it and the new item is not counted yet.  The popped
\* operands stay on the model's stack, where they own what they owned.
ReleaseItem(k, x) ==
  /\ Release(<<items[Top(1)][k]>>)
  /\ assigning' = [index |-> k, item |-> x]
  /\ UNCHANGED <<heapVars, stack, freeing, leaked, status>>

\* STA: no bounds check; a slice's fields are taken for a tuple's.  What is to be
\* stored is read before the old item is released.
Sta(k) ==
  /\ Ready("STA", 3)
  /\ LET c == Top(1)
         new == Top(3)
         x == IF Kind(c) = "text" /\ Kind(new) = "text" /\ Len(items[new]) = 1
              THEN items[new][1] ELSE new
     IN \/ ~Sized(c) /\ Fatal /\ UNCHANGED <<freeing, assigning>>
        \/ Sized(c) /\ Kind(c) = "slice" /\ Undefined
        \/ /\ Sized(c) /\ Kind(c) # "slice" /\ k \notin 1..Len(items[c])
           /\ "IndexInRange" \notin Discipline /\ Undefined
        \/ /\ Sized(c) /\ Kind(c) # "slice" /\ k \in 1..Len(items[c])
           /\ (Kind(c) = "text" /\ "TextGetsChar" \in Discipline) => x = Imm
           /\ ReleaseItem(k, x)

\* The old item is released: RAP_set_tuple_item stores the new one and counts it,
\* and eval_sta pushes the container and releases the index and the operand.
SetItem ==
  /\ status \notin Halted /\ pending = <<>> /\ freeing = <<>> /\ assigning # NoAssign
  /\ LET c == Top(1)
         x == assigning.item
         used == {c, x} \ {Imm}
     IN \/ (\E v \in used : tag[v] = "free") /\ Undefined
        \/ /\ \A v \in used : tag[v] # "free"
           /\ rc' = Counted(<<x>>)
           /\ items' = [items EXCEPT ![c][assigning.index] = x]
           /\ Replace(3, c) /\ Release(<<Top(2), Top(3)>>)
           /\ assigning' = NoAssign
           /\ UNCHANGED <<tag, win, num, freeing>>

\* SLICE: which bounds are on the stack is in the opcode, `to' above `from'.
\* A bound is unboxed and forgotten, whatever it is.  (`to' = -1: no bound, or
\* one the runtime takes for none.)
Slice(a, hasFrom, hasTo, from, to) ==
  LET n == (IF hasFrom THEN 1 ELSE 0) + (IF hasTo THEN 1 ELSE 0)
      c == Top(n + 1)
  IN /\ Handler("SLICE", n + 1)
     /\ hasFrom \/ from = 0
     /\ hasTo \/ to = -1
     /\ \/ ~Sized(c) /\ (c = Imm \/ to < 0) /\ Fatal
        \/ (Orphan(c) \/ (~Sized(c) /\ c # Imm /\ to >= 0)) /\ Undefined
        \/ /\ Sized(c) /\ ~Orphan(c)
           /\ Alloc(a, "slice", <<Root(c)>>, Window(c, from, to), NoNum, <<Root(c)>>)
           /\ stack' = Append(Below(n + 1), a)
           /\ Leak(Operands(n)) /\ Release(<<c>>) /\ UNCHANGED status
     /\ LeakBounded

\* STS: RAP_slice_assign rebuilds the parent's items from three parts: it counts
\* none of them and releases nothing it cuts off; a replacement that is a slice is
\* materialized (every item counted once) into an object nobody releases.
Sts ==
  /\ Handler("STS", 2)
  /\ LET s == Top(1)
         new == Top(2)
         parent == Root(s)
         copied == Materialized(new)
         cut == SubSeq(items[parent], win[s].lo + 1, win[s].hi)
     IN \/ (s = Imm \/ new = Imm \/ Kind(s) # "slice") /\ Fatal
        \/ /\ Kind(s) = "slice" /\ new # Imm
           /\ ~Sized(new) \/ Stale(s) \/ Stale(new)
           /\ Undefined
        \/ /\ Kind(s) = "slice" /\ Sized(new) /\ ~Stale(s) /\ ~Stale(new)
           /\ Len(items[parent]) - Length(s) + Length(new) <= MaxItems
           /\ (RootTag(s) = "text" /\ "TextGetsChar" \in Discipline) => RootTag(new) = "text"
           /\ "FlatSlices" \in Discipline =>
                Length(new) >= Length(s) /\ \A a \in Addr : Occurs(Shown(new) \o cut, a) = 0
           /\ items' = [items EXCEPT ![parent] =
                          SubSeq(@, 1, win[s].lo) \o Shown(new)
                            \o SubSeq(@, win[s].hi + 1, Len(@))]
           /\ rc' = Counted(copied) /\ Leak(copied \o cut)
           /\ stack' = Below(2) /\ Release(<<s, new>>)
           /\ UNCHANGED <<tag, win, num, status>>
  /\ LeakBounded

-----------------------------------------------------------------------------
(* Operators.  The right operand is on top.                                *)

\* Mutant: the right operand of an operator is not released.
ConsumedLeft == Release(<<Top(2)>>)

Consumed == Release(<<Top(1), Top(2)>>)

\* + on tuples, on slices of tuples, on texts; a fatal error on anything else
\* that is not a number.
Add(a) ==
  /\ Handler("ADD", 2)
  /\ LET right == Top(1)
         left == Top(2)
         joined == Shown(left) \o Shown(right)
         seqs == Kind(left) \in {"tuple", "text", "slice"} /\ Kind(left) = Kind(right)
         joins == seqs /\ RootTag(left) = RootTag(right)
                       /\ ~(Kind(left) = "slice" /\ RootTag(left) = "text")
     IN \/ ~joins /\ {Kind(left), Kind(right)} \cap {"float", "imm"} = {} /\ Fatal
        \/ joins /\ (Stale(left) \/ Stale(right)) /\ Undefined
        \/ /\ joins /\ ~Stale(left) /\ ~Stale(right)
           /\ Len(joined) <= MaxItems
           /\ Alloc(a, RootTag(left), joined, NoWin, NoNum, joined)
           /\ Replace(2, a) /\ Consumed

\* Arithmetic on two floats writes the result into an operand nobody else
\* holds, the left one first.
FloatBinop(a, f) ==
  /\ Handler("FLOATOP", 2) /\ Kind(Top(1)) = "float" /\ Kind(Top(2)) = "float"
  /\ LET right == Top(1)
         left == Top(2)
         Reuse(kept, gone) ==
           /\ num' = [num EXCEPT ![kept] = f]
           /\ Replace(2, kept) /\ Release(<<gone>>)
           /\ UNCHANGED <<tag, rc, items, win>>
     IN \/ Unshared(left) /\ Reuse(left, right)
        \/ ~Unshared(left) /\ Unshared(right) /\ Reuse(right, left)
        \/ /\ ~Unshared(left) /\ ~Unshared(right)
           /\ Alloc(a, "float", <<>>, NoWin, f, <<>>)
           /\ Replace(2, a) /\ Consumed

\* A float and an integer: the runtime allocates the result.
MixedBinop(a, f) ==
  /\ Handler("FLOATOP", 2) /\ {Kind(Top(1)), Kind(Top(2))} = {"float", "imm"}
  /\ Alloc(a, "float", <<>>, NoWin, f, <<>>) /\ Replace(2, a) /\ Consumed

\* DIV, MOD and IDIV: the divisor is a small integer zero.
DivideByZero == Handler("DIV", 2) /\ Top(1) = Imm /\ Fail(2)

\* Unary minus.
Negate(a, f) ==
  /\ Handler("NEGATE", 1)
  /\ \/ Kind(Top(1)) \notin {"imm", "float"} /\ Fatal
     \/ /\ Top(1) = Imm /\ Replace(1, Imm) /\ UNCHANGED <<heapVars, pending>>
     \/ /\ Kind(Top(1)) = "float"
        /\ Alloc(a, "float", <<>>, NoWin, f, <<>>)
        /\ Replace(1, a) /\ Release(<<Top(1)>>)

\* n copies of s, one after the other.
Copies(s, n) == [i \in 1..(n * Len(s)) |-> s[((i - 1) % Len(s)) + 1]]

\* A tuple or a text times an integer.  For a tuple the loop counts every copy
\* and RAP_create_tuple_obj counts it again.
Repeat(a, n) ==
  /\ Handler("REPEAT", 2)
  /\ LET right == Top(1)
         left == Top(2)
         c == IF left = Imm THEN right ELSE left
         its == Copies(items[c], n)
         repeats == \/ Kind(left) \in {"tuple", "text"} /\ right = Imm
                    \/ left = Imm /\ Kind(right) = "text"
         twice == Kind(left) = "tuple"
     IN \/ ~repeats /\ ~({Kind(left), Kind(right)} \subseteq {"imm", "float"}) /\ Fatal
        \/ /\ repeats /\ Len(its) <= MaxItems
           /\ Alloc(a, Kind(c), its, NoWin, NoNum, IF twice THEN its \o its ELSE its)
           /\ stack' = Append(Below(2), a)
           /\ Leak(IF twice THEN its ELSE <<>>)
           /\ Consumed /\ UNCHANGED status
  /\ LeakBounded

\* == and /=: RAP_equal materializes a slice and forgets the copy; elements are
\* compared in turn, and kinds that do not compare are fatal.  (A slice nested
\* in a compared tuple is materialized the same way; such operands are left out.)
Equal ==
  /\ Handler("EQ", 2)
  /\ LET right == Top(1)
         left == Top(2)
         copied == Materialized(left) \o Materialized(right)
         Flat(v) == /\ ~Stale(v)
                    /\ Sized(v) \/ Kind(v) = "variant" =>
                         \A i \in 1..Length(v) : Kind(Shown(v)[i]) # "slice"
         Comparable(v, w) == \/ RootTag(v) = RootTag(w) /\ Kind(v) # "callable"
                             \/ {Kind(v), Kind(w)} = {"imm", "float"}
         clash == /\ RootTag(left) \in {"tuple", "variant"} /\ Length(left) = Length(right)
                  /\ \E i \in 1..Length(left) : ~Comparable(Shown(left)[i], Shown(right)[i])
     IN /\ Flat(left) /\ Flat(right)
        /\ \/ ~Comparable(left, right) /\ Fatal
           \/ Comparable(left, right) /\ clash /\ Fatal
           \/ /\ Comparable(left, right)
              /\ rc' = Counted(copied) /\ Leak(copied)
              /\ stack' = Append(Below(2), Imm) /\ Consumed
              /\ UNCHANGED <<tag, items, win, num, status>>
  /\ LeakBounded

-----------------------------------------------------------------------------
(* Releasing.                                                              *)

\* The call of RAP_free_object that is running.
Innermost == freeing[Len(freeing)]

\* RAP_dec_ref is called on v; `rest' is what the recursion still has to visit.
Visiting(v, rest) ==
  /\ status \notin Halted
  /\ pending # <<>> /\ v = Head(pending) /\ rest = Tail(pending)
  /\ freeing # <<>> => Len(pending) > Innermost.left

DecRefImm(v, rest) ==
  /\ Visiting(v, rest) /\ v = Imm
  /\ pending' = rest /\ UNCHANGED <<heapVars, stack, freeing, assigning, leaked, status>>

DecRefShared(v, rest) ==
  /\ Visiting(v, rest) /\ v # Imm /\ tag[v] # "free" /\ ~LastOwner(v)
  /\ rc' = [rc EXCEPT ![v] = @ - 1] /\ pending' = rest
  /\ UNCHANGED <<tag, items, win, num, stack, freeing, assigning, leaked, status>>

\* RAP_free_object is called on v, which keeps its items, and a count that may be
\* below zero, until every child is released.  Nothing tells an object whose
\* destructor is running already from another one.
FreeObject(v, rest) ==
  /\ Visiting(v, rest) /\ v # Imm /\ tag[v] # "free" /\ LastOwner(v)
  /\ Len(freeing) < MaxDepth
  /\ rc' = [rc EXCEPT ![v] = @ - 1]
  /\ pending' = Children(v) \o rest
  /\ freeing' = Append(freeing, [object |-> v, left |-> Len(rest)])
  /\ UNCHANGED <<tag, items, win, num, stack, assigning, leaked, status>>

\* The recursion has used up the C stack.
StackExhausted(v, rest) ==
  /\ Visiting(v, rest) /\ v # Imm /\ tag[v] # "free" /\ LastOwner(v)
  /\ Len(freeing) = MaxDepth
  /\ status' = "crashed"
  /\ UNCHANGED <<heapVars, stack, pending, freeing, assigning, leaked>>

\* The memory of the object has been given back.
DecRefFreed(v, rest) ==
  Visiting(v, rest) /\ v # Imm /\ tag[v] = "free" /\ Undefined

DecRef ==
  LET v == Head(pending)
      rest == Tail(pending)
  IN /\ pending # <<>>
     /\ \/ DecRefImm(v, rest) \/ DecRefShared(v, rest) \/ FreeObject(v, rest)
        \/ StackExhausted(v, rest) \/ DecRefFreed(v, rest)

\* The children are released: the memory of the object is given back, and
\* RAP_free_object returns.
FreeMemory ==
  /\ status \notin Halted /\ freeing # <<>> /\ Len(pending) = Innermost.left
  /\ LET v == Innermost.object
     IN /\ tag' = [tag EXCEPT ![v] = "free"]
        /\ rc' = [rc EXCEPT ![v] = 0]
        /\ items' = [items EXCEPT ![v] = <<>>]
        /\ win' = [win EXCEPT ![v] = NoWin]
        /\ num' = [num EXCEPT ![v] = NoNum]
  /\ freeing' = SubSeq(freeing, 1, Len(freeing) - 1)
  /\ UNCHANGED <<stack, pending, assigning, leaked, status>>

\* What is left of an instruction goes on.
Continue == DecRef \/ FreeMemory \/ SetItem

\* END of the program: run drains the operand stack.
Finish ==
  /\ status = "running" /\ Settled
  /\ status' = "finished" /\ stack' = <<>> /\ Release(stack)
  /\ UNCHANGED <<heapVars, freeing, assigning, leaked>>

\* Drop for Interpreter, after an error.
DropInterpreter ==
  /\ status = "error" /\ Settled
  /\ status' = "dropped" /\ stack' = <<>> /\ Release(stack)
  /\ UNCHANGED <<heapVars, freeing, assigning, leaked>>

Stopped == status \in Terminal /\ (Settled \/ status \in Halted) /\ UNCHANGED vars

-----------------------------------------------------------------------------
(* The machine.                                                            *)

Index == 1..(MaxItems + 1)
Position == -1..(MaxItems + 1)

Init ==
  /\ tag = [a \in Addr |-> "free"]
  /\ rc = [a \in Addr |-> 0]
  /\ items = [a \in Addr |-> <<>>]
  /\ win = [a \in Addr |-> NoWin]
  /\ num = [a \in Addr |-> NoNum]
  /\ stack = [g \in 1..NGlobals |-> Imm]
  /\ pending = <<>> /\ freeing = <<>> /\ assigning = NoAssign
  /\ leaked = [a \in Addr |-> 0]
  /\ status = "running"

Allocating(a) ==
  \/ \E f \in FloatVal :
       Constf(a, f) \/ FloatBinop(a, f) \/ MixedBinop(a, f) \/ Negate(a, f)
  \/ Null(a) \/ Closure(a) \/ Add(a)
  \/ \E n \in 0..MaxItems : Text(a, n) \/ Tuple(a, n) \/ Variant(a, n) \/ Repeat(a, n)
  \/ \E k \in Index : Elem(a, k)
  \/ \E hasFrom, hasTo \in BOOLEAN, from, to \in Position :
       Slice(a, hasFrom, hasTo, from, to)

Instruction ==
  \/ \E a \in Addr : Allocating(a)
  \/ Const \/ Dup \/ Drop \/ Swap \/ Inspect \/ VariantTag \/ Branch \/ Equal \/ DivideByZero \/ Sts
  \/ \E g \in 1..NGlobals : Load(g) \/ Store(g)
  \/ \E n \in 1..MaxItems : End(n)
  \/ \E k \in Index : Field(k) \/ SetField(k) \/ Sta(k)

Next ==
  \/ Instruction
  \/ Continue
  \/ Finish \/ DropInterpreter \/ Stopped

Spec == Init /\ [][Next]_vars

\* The C code never waits for anything: what is left of an instruction goes on.
FairSpec == Spec /\ WF_vars(Continue)

-----------------------------------------------------------------------------
(* What the reference counts are for.                                      *)

\* A slice holds its parent and nothing else.
HeapOK ==
  /\ tag \in [Addr -> Tag]
  /\ rc \in [Addr -> Int]
  /\ items \in [Addr -> Seq(Value)]
  /\ win \in [Addr -> [lo : Nat, hi : Nat]]
  /\ num \in [Addr -> FloatVal]
  /\ \A a \in Addr : tag[a] = "slice" =>
       Len(items[a]) = 1 /\ items[a][1] \in Addr /\ win[a].lo <= win[a].hi

\* Every variable holds what its declaration in the code can hold.
TypeOK ==
  /\ HeapOK
  /\ stack \in Seq(Value)
  /\ pending \in Seq(Value)
  /\ freeing \in Seq(Call)
  /\ assigning \in Assignment
  /\ leaked \in [Addr -> Nat]
  /\ status \in Status

\* The references the objects own.  The children of an object that is being freed
\* are `pending' or released, and so is the item that is being replaced.
Held == [a \in Addr |->
  IF BeingFreed(a) THEN <<>>
  ELSE IF assigning # NoAssign /\ a = Top(1) THEN [items[a] EXCEPT ![assigning.index] = Imm]
  ELSE items[a]]

\* The items of the objects, as pairs of an object and a position.
Places == UNION {{x} \X DOMAIN Held[x] : x \in Addr}

\* The number of items that own a reference to a.
HeapRefs(a) == Cardinality({c \in Places : Held[c[1]][c[2]] = a})

\* Every place that owns a counted reference to a.
Refs(a) == Occurs(stack, a) + Occurs(pending, a) + HeapRefs(a)

Live == {a \in Addr : tag[a] # "free"}

\* Every object's refcount is the number of places that own a reference to it,
\* plus the references the run has lost on the way (leaked): RAP_inc_ref and
\* RAP_dec_ref are called exactly once for each owner, on every path of every
\* handler, error paths included.
CountsExact == \A a \in Live : rc[a] = Refs(a) + leaked[a]

\* No slot, field, element or due decrement, and no item about to be stored, points
\* to freed memory or to an object whose destructor is running: none is released or
\* used after it was freed, and none is freed a second time.
NoDangling ==
  \A a \in Addr : a \notin Live \/ BeingFreed(a) => Refs(a) = 0 /\ assigning.item # a

\* A slice views a window of a tuple or a text that is alive, never of another
\* slice (RAP_create_slice flattens), and its bounds lie inside the parent.
SliceInWindow ==
  \A a \in Live : tag[a] = "slice" /\ ~BeingFreed(a) =>
    /\ Kind(items[a][1]) \in {"tuple", "text"}
    /\ win[a].lo <= win[a].hi /\ win[a].hi <= Len(items[items[a][1]])

\* consume_float_binop: "no local, container, or other stack slot can observe
\* its old value" when a float is overwritten in place.
OverwriteUnobserved ==
  [][\A a \in Live :
       (tag'[a] = "float" /\ num'[a] # num[a]) =>
         Occurs(stack', a) = 1 /\ stack'[Len(stack')] = a
           /\ Occurs(pending', a) = 0 /\ HeapRefs(a)' = 0]_vars

\* Once everything is released, an object that is still there is held by
\* another one that is (a cycle) or by a reference the run lost: without either,
\* "the run ends with a clean heap" (Interpreter::run).
ResidueExplained ==
  status \in {"finished", "dropped"} /\ Settled =>
    \A a \in Live : HeapRefs(a) > 0 \/ leaked[a] > 0

\* What is left of an instruction: the references it has to release or may come
\* upon, the objects it may free, and the second half of an assignment.
Owed ==
  Len(pending) + Cardinality(Places) + Cardinality(Live)
    + (IF assigning = NoAssign THEN 0 ELSE 3)

\* Each step of a release takes back a reference that no later step meets again, or
\* gives the memory of an object back, and nothing is done in between, whatever cycles
\* there are: this is why RAP_dec_ref and RAP_free_object, which call each other, end.
\* They stop early only where the C stack has no room for as deep a structure.
ReleaseShrinks ==
  [][~Settled => Owed' < Owed \/ (status' = "crashed" /\ Len(freeing) = MaxDepth)]_vars

\* RAP_dec_ref returns, however deep the structure and whatever cycles are in it, and
\* the instruction that called it is done: the recursion neither goes round for ever
\* nor to the end of the C stack.  (What a use of freed memory does is not defined, and
\* ReleaseShrinks has none.)
CascadeEnds == ~Settled ~> Settled \/ status = "undefined"

\* No memory is given back while a destructor of the object is still running
\* (`free(obj)' comes last in RAP_free_object, and a nested call for the same object
\* would come to its own first).
FreedOnce == \A a \in Addr : BeingFreed(a) => tag[a] # "free"

=============================================================================
