---------------------------- MODULE RapHeapTypes ----------------------------
(***************************************************************************)
(* Type correctness of RapHeap, for every value of its constants, and the  *)
(* lemmas about its operators that the proof rests on.                     *)
(***************************************************************************)
EXTENDS RapHeap, SequenceTheorems, FiniteSetTheorems, TLAPS

-----------------------------------------------------------------------------
(* Sequences.                                                              *)

\* The n last elements of a sequence, and what is left without them.
LEMMA SplitSeq ==
  ASSUME NEW S, NEW s \in Seq(S), NEW n \in 0..Len(s)
  PROVE  /\ SubSeq(s, 1, Len(s) - n) \in Seq(S)
         /\ Len(SubSeq(s, 1, Len(s) - n)) = Len(s) - n
         /\ \A i \in 1..(Len(s) - n) : SubSeq(s, 1, Len(s) - n)[i] = s[i]
         /\ SubSeq(s, Len(s) + 1 - n, Len(s)) \in Seq(S)
         /\ Len(SubSeq(s, Len(s) + 1 - n, Len(s))) = n
         /\ \A i \in 1..n : SubSeq(s, Len(s) + 1 - n, Len(s))[i] = s[Len(s) - n + i]
<1>1. Len(s) \in Nat /\ \A i \in 1..Len(s) : s[i] \in S
  BY LenProperties
<1>2. \A i \in 1..(Len(s) - n) : s[i] \in S
  BY <1>1
<1>3. \A i \in (Len(s) + 1 - n)..Len(s) : s[i] \in S
  BY <1>1
<1>4. /\ SubSeq(s, 1, Len(s) - n) \in Seq(S)
      /\ Len(SubSeq(s, 1, Len(s) - n)) = IF 1 <= Len(s) - n THEN Len(s) - n - 1 + 1 ELSE 0
      /\ \A i \in 1..(Len(s) - n - 1 + 1) : SubSeq(s, 1, Len(s) - n)[i] = s[1 + i - 1]
  <2>1. 1 \in Int /\ Len(s) - n \in Int
    BY <1>1
  <2> QED BY <1>2, <2>1, SubSeqProperties
<1>5. /\ SubSeq(s, Len(s) + 1 - n, Len(s)) \in Seq(S)
      /\ Len(SubSeq(s, Len(s) + 1 - n, Len(s))) =
           IF Len(s) + 1 - n <= Len(s) THEN Len(s) - (Len(s) + 1 - n) + 1 ELSE 0
      /\ \A i \in 1..(Len(s) - (Len(s) + 1 - n) + 1) :
           SubSeq(s, Len(s) + 1 - n, Len(s))[i] = s[(Len(s) + 1 - n) + i - 1]
  <2>1. Len(s) + 1 - n \in Int /\ Len(s) \in Int
    BY <1>1
  <2> QED BY <1>3, <2>1, SubSeqProperties
<1>6. \A i \in 1..n : SubSeq(s, Len(s) + 1 - n, Len(s))[i] = s[Len(s) - n + i]
  <2>1. Len(s) - (Len(s) + 1 - n) + 1 = n
    BY <1>1
  <2>2. \A i \in 1..n : (Len(s) + 1 - n) + i - 1 = Len(s) - n + i
    BY <1>1
  <2> QED BY <1>5, <2>1, <2>2
<1> QED BY <1>1, <1>4, <1>5, <1>6

\* How often a value occurs in a sequence is a number.
LEMMA OccursNat ==
  ASSUME NEW S, NEW s \in Seq(S), NEW a
  PROVE  Occurs(s, a) \in Nat /\ IsFiniteSet({i \in DOMAIN s : s[i] = a})
<1>1. DOMAIN s = 1..Len(s) /\ Len(s) \in Nat
  BY LenProperties
<1>2. IsFiniteSet(1..Len(s))
  BY <1>1, FS_Interval
<1>3. {i \in DOMAIN s : s[i] = a} \in SUBSET (1..Len(s))
  BY <1>1
<1> QED BY <1>2, <1>3, FS_Subset, FS_CardinalityType DEF Occurs

\* Counting references keeps counts natural numbers.
LEMMA CountedType ==
  ASSUME TypeOK, NEW s \in Seq(Value)
  PROVE  /\ Counted(s) \in [Addr -> Int]
         /\ Leak(s) => leaked' \in [Addr -> Nat]
<1>1. \A x \in Addr : Occurs(s, x) \in Nat
  BY OccursNat
<1>2. rc \in [Addr -> Int] /\ leaked \in [Addr -> Nat]
  BY DEF TypeOK, HeapOK
<1> QED BY <1>1, <1>2 DEF Counted, Leak

-----------------------------------------------------------------------------
(* The pieces of the handlers.                                             *)

\* What an instruction leaves behind, but for a release that is under way.
MachineOK ==
  /\ HeapOK
  /\ stack \in Seq(Value) /\ pending \in Seq(Value)
  /\ leaked \in [Addr -> Nat] /\ status \in Status

\* The operands of a handler that runs, and what is below them.
LEMMA StackParts ==
  ASSUME TypeOK, NEW n \in Nat, n <= Len(stack)
  PROVE  /\ Below(n) \in Seq(Value) /\ Len(Below(n)) = Len(stack) - n
         /\ Operands(n) \in Seq(Value) /\ Len(Operands(n)) = n
         /\ \A i \in 1..n : Top(i) \in Value
<1>1. stack \in Seq(Value) /\ Len(stack) \in Nat
  BY LenProperties DEF TypeOK, MachineOK
<1>2. n \in 0..Len(stack)
  BY <1>1
<1>3. ASSUME NEW i \in 1..n PROVE Top(i) \in Value
  <2>1. Len(stack) + 1 - i \in 1..Len(stack)
    BY <1>1, <1>2
  <2> QED BY <1>1, <2>1, ElementOfSeq DEF Top
<1> QED BY <1>1, <1>2, <1>3, SplitSeq DEF Below, Operands

\* The same for a handler's own operands.
LEMMA HandlerParts ==
  ASSUME TypeOK, NEW name, NEW n \in Nat, Ready(name, n) \/ Handler(name, n)
  PROVE  /\ n <= Len(stack) /\ Len(stack) \in Nat
         /\ Below(n) \in Seq(Value) /\ Len(Below(n)) = Len(stack) - n
         /\ Operands(n) \in Seq(Value) /\ Len(Operands(n)) = n
         /\ \A i \in 1..n : Top(i) \in Value
         /\ Settled /\ pending = <<>> /\ status = "running"
<1>1. Len(stack) \in Nat
  BY LenProperties DEF TypeOK
<1>2. n <= Len(stack)
  BY <1>1, SizeAssumption DEF Handler, Ready
<1> QED BY <1>1, <1>2, StackParts DEF Handler, Ready, Settled

\* A constructor leaves a heap of the right type.
LEMMA AllocType ==
  ASSUME TypeOK, NEW a \in Addr, NEW t \in Tag, NEW its \in Seq(Value),
         NEW w \in [lo : Nat, hi : Nat], NEW f \in FloatVal, NEW s \in Seq(Value),
         t = "slice" => Len(its) = 1 /\ its[1] \in Addr /\ w.lo <= w.hi,
         Alloc(a, t, its, w, f, s)
  PROVE  HeapOK'
<1>1. rc' \in [Addr -> Int]
  BY CountedType DEF Alloc
<1>2. /\ tag' \in [Addr -> Tag] /\ items' \in [Addr -> Seq(Value)]
      /\ win' \in [Addr -> [lo : Nat, hi : Nat]] /\ num' \in [Addr -> FloatVal]
  BY DEF Alloc, Place, TypeOK, MachineOK, HeapOK
<1>3. ASSUME NEW x \in Addr, tag'[x] = "slice"
      PROVE  Len(items'[x]) = 1 /\ items'[x][1] \in Addr /\ win'[x].lo <= win'[x].hi
  <2>1. CASE x = a
    BY <1>3, <2>1 DEF Alloc, Place, TypeOK, MachineOK, HeapOK
  <2>2. CASE x # a
    BY <1>3, <2>2 DEF Alloc, Place, TypeOK, MachineOK, HeapOK
  <2> QED BY <2>1, <2>2
<1> QED BY <1>1, <1>2, <1>3 DEF HeapOK

\* Every constructor but the one of slices has an empty window.
LEMMA PlainAllocType ==
  ASSUME TypeOK, NEW a \in Addr, NEW t \in Tag \ {"slice"}, NEW its \in Seq(Value),
         NEW f \in FloatVal, NEW s \in Seq(Value), Alloc(a, t, its, NoWin, f, s)
  PROVE  HeapOK'
<1>1. NoWin \in [lo : Nat, hi : Nat]
  BY DEF NoWin
<1> QED BY <1>1, AllocType

LEMMA NoNumType == NoNum \in FloatVal
BY FloatAssumption DEF NoNum

\* A push, one operand replaced by a result, and an error return.
LEMMA PushType ==
  ASSUME TypeOK, NEW v \in Value, Push(v)
  PROVE  stack' \in Seq(Value) /\ leaked' \in [Addr -> Nat] /\ status' \in Status
<1>1. <<v>> \in Seq(Value)
  OBVIOUS
<1>2. CASE Len(stack) < MaxStack
  <2>1. stack' = Append(stack, v) /\ UNCHANGED <<leaked, status>>
    BY <1>2 DEF Push
  <2>2. stack \in Seq(Value)
    BY DEF TypeOK, MachineOK
  <2>3. stack' \in Seq(Value)
    BY <2>1, <2>2, AppendProperties
  <2> QED BY <2>1, <2>3 DEF TypeOK, MachineOK
<1>3. CASE ~(Len(stack) < MaxStack)
  <2>1. leaked' \in [Addr -> Nat]
    BY <1>1, <1>3, CountedType DEF Push
  <2> QED BY <1>3, <2>1 DEF Push, TypeOK, MachineOK, Status
<1> QED BY <1>2, <1>3

LEMMA ReplaceType ==
  ASSUME TypeOK, NEW n \in Nat, n <= Len(stack), NEW v \in Value, Replace(n, v)
  PROVE  stack' \in Seq(Value) /\ leaked' \in [Addr -> Nat] /\ status' \in Status
<1>1. Below(n) \in Seq(Value)
  BY StackParts
<1> QED BY <1>1 DEF Replace, TypeOK, MachineOK

LEMMA HeapUnchanged ==
  ASSUME TypeOK, UNCHANGED heapVars
  PROVE  HeapOK'
BY DEF TypeOK, MachineOK, HeapOK, heapVars

\* Error returns, fatal errors and undefined behaviour.
LEMMA FailType ==
  ASSUME TypeOK, NEW n \in Nat, n <= Len(stack), Fail(n)
  PROVE  MachineOK'
<1>1. Below(n) \in Seq(Value) /\ leaked' \in [Addr -> Nat]
  BY StackParts, CountedType DEF Fail
<1>2. HeapOK'
  BY HeapUnchanged DEF Fail
<1> QED BY <1>1, <1>2 DEF Fail, TypeOK, MachineOK, Status

LEMMA StopType ==
  ASSUME TypeOK, Fatal \/ Undefined
  PROVE  MachineOK'
<1>1. HeapOK'
  BY HeapUnchanged DEF Fatal, Undefined
<1> QED BY <1>1 DEF Fatal, Undefined, TypeOK, MachineOK, Status, Terminal, Halted

-----------------------------------------------------------------------------
(* Containers and slices.                                                  *)

LEMMA SizedParts ==
  ASSUME TypeOK, NEW v, Sized(v)
  PROVE  /\ v \in Addr /\ Root(v) \in Addr
         /\ items[Root(v)] \in Seq(Value) /\ Len(items[Root(v)]) \in Nat
         /\ Lo(v) \in Nat /\ Hi(v) \in Nat /\ Length(v) \in Nat
         /\ Hi(v) = Lo(v) + Length(v)
<1>1. v \in Addr
  BY DEF Sized, Kind
<1>2. Root(v) \in Addr
  BY <1>1 DEF Root, TypeOK, MachineOK, HeapOK
<1>3. items[Root(v)] \in Seq(Value) /\ Len(items[Root(v)]) \in Nat
  BY <1>2, LenProperties DEF TypeOK, MachineOK, HeapOK
<1>4. items[v] \in Seq(Value) /\ Len(items[v]) \in Nat
  BY <1>1, LenProperties DEF TypeOK, MachineOK, HeapOK
<1>5. win[v] \in [lo : Nat, hi : Nat] /\ (tag[v] = "slice" => win[v].lo <= win[v].hi)
  BY <1>1 DEF TypeOK, MachineOK, HeapOK
<1> QED BY <1>1, <1>2, <1>3, <1>4, <1>5 DEF Lo, Hi, Length

\* What a container shows, as long as its window is inside the root.
LEMMA ShownType ==
  ASSUME TypeOK, NEW v, Sized(v), ~Stale(v)
  PROVE  /\ Shown(v) \in Seq(Value)
         /\ Len(Shown(v)) = Length(v)
         /\ Hi(v) <= Len(items[Root(v)])
         /\ \A i \in 1..Length(v) : Shown(v)[i] = items[Root(v)][Lo(v) + i]
<1> DEFINE s == items[Root(v)]
<1>1. /\ v \in Addr /\ s \in Seq(Value) /\ Len(s) \in Nat
      /\ Lo(v) \in Nat /\ Hi(v) \in Nat /\ Length(v) \in Nat /\ Hi(v) = Lo(v) + Length(v)
  BY SizedParts
<1>2. Hi(v) <= Len(s)
  BY <1>1 DEF Stale, Kind, Hi, Root, Sized
<1>3. \A i \in (Lo(v) + 1)..Hi(v) : s[i] \in Value
  BY <1>1, <1>2, ElementOfSeq
<1>4. Lo(v) + 1 \in Int /\ Hi(v) \in Int
  BY <1>1
<1> HIDE DEF s
<1>5. /\ SubSeq(s, Lo(v) + 1, Hi(v)) \in Seq(Value)
      /\ Len(SubSeq(s, Lo(v) + 1, Hi(v))) =
           IF Lo(v) + 1 <= Hi(v) THEN Hi(v) - (Lo(v) + 1) + 1 ELSE 0
      /\ \A i \in 1..(Hi(v) - (Lo(v) + 1) + 1) :
           SubSeq(s, Lo(v) + 1, Hi(v))[i] = s[Lo(v) + 1 + i - 1]
  BY <1>3, <1>4, SubSeqProperties
<1>6. Len(SubSeq(s, Lo(v) + 1, Hi(v))) = Length(v)
  BY <1>1, <1>5
<1>7. ASSUME NEW i \in 1..Length(v)
      PROVE  SubSeq(s, Lo(v) + 1, Hi(v))[i] = s[Lo(v) + i]
  <2>1. i \in 1..(Hi(v) - (Lo(v) + 1) + 1) /\ Lo(v) + 1 + i - 1 = Lo(v) + i
    BY <1>1
  <2> QED BY <1>5, <2>1
<1> QED BY <1>2, <1>5, <1>6, <1>7 DEF Shown, s

\* The bounds of a new slice lie inside the root, in order.
LEMMA ClampBounds ==
  ASSUME NEW from \in Int, NEW to \in Nat, NEW count \in Nat
  PROVE  /\ Clamp(from, to, count) \in [lo : Nat, hi : Nat]
         /\ Clamp(from, to, count).lo <= Clamp(from, to, count).hi
         /\ Clamp(from, to, count).hi <= count
BY DEF Clamp

LEMMA WindowBounds ==
  ASSUME TypeOK, NEW c, Sized(c), NEW from \in Int, NEW to \in Int
  PROVE  /\ Window(c, from, to) \in [lo : Nat, hi : Nat]
         /\ Window(c, from, to).lo <= Window(c, from, to).hi
         /\ Window(c, from, to).hi <= Len(items[Root(c)])
<1>1. Lo(c) \in Nat /\ Length(c) \in Nat /\ Len(items[Root(c)]) \in Nat
  BY SizedParts
<1>2. Lo(c) + from \in Int /\ Lo(c) + (IF to >= 0 THEN to ELSE Length(c)) \in Nat
  BY <1>1
<1> QED BY <1>1, <1>2, ClampBounds DEF Window

-----------------------------------------------------------------------------
(* One lemma for each instruction.                                         *)

LEMMA ConstType == ASSUME TypeOK, Const PROVE MachineOK'
<1>1. stack' \in Seq(Value) /\ leaked' \in [Addr -> Nat] /\ status' \in Status
  BY PushType DEF Const, Value
<1>2. HeapOK'
  BY HeapUnchanged DEF Const
<1> QED BY <1>1, <1>2 DEF Const, TypeOK, MachineOK

\* The constructors that hold nothing.
LEMMA FreshType ==
  ASSUME TypeOK, NEW a \in Addr, NEW t \in Tag \ {"slice"}, NEW its \in Seq(Value),
         NEW f \in FloatVal, Alloc(a, t, its, NoWin, f, <<>>), Push(a), UNCHANGED pending
  PROVE  MachineOK'
<1>1. HeapOK'
  <2>1. <<>> \in Seq(Value)
    OBVIOUS
  <2> QED BY <2>1, PlainAllocType
<1>2. stack' \in Seq(Value) /\ leaked' \in [Addr -> Nat] /\ status' \in Status
  BY PushType DEF Value
<1> QED BY <1>1, <1>2 DEF TypeOK, MachineOK

LEMMA ConstfType ==
  ASSUME TypeOK, NEW a \in Addr, NEW f \in FloatVal, Constf(a, f) PROVE MachineOK'
<1>1. <<>> \in Seq(Value) /\ "float" \in Tag \ {"slice"}
  BY DEF Tag
<1> QED BY <1>1, FreshType DEF Constf

LEMMA NullType == ASSUME TypeOK, NEW a \in Addr, Null(a) PROVE MachineOK'
<1>1. <<>> \in Seq(Value) /\ "null" \in Tag \ {"slice"}
  BY DEF Tag
<1> QED BY <1>1, FreshType, NoNumType DEF Null

LEMMA ClosureType == ASSUME TypeOK, NEW a \in Addr, Closure(a) PROVE MachineOK'
<1>1. <<>> \in Seq(Value) /\ "callable" \in Tag \ {"slice"}
  BY DEF Tag
<1> QED BY <1>1, FreshType, NoNumType DEF Closure

LEMMA TextType ==
  ASSUME TypeOK, NEW a \in Addr, NEW n \in Nat, Text(a, n) PROVE MachineOK'
<1>1. [i \in 1..n |-> Imm] \in Seq(Value) /\ "text" \in Tag \ {"slice"}
  BY DEF Tag, Value
<1> QED BY <1>1, FreshType, NoNumType DEF Text

\* Copying and dropping what the operand stack holds.
LEMMA LoadType == ASSUME TypeOK, NEW g \in 1..NGlobals, Load(g) PROVE MachineOK'
<1>1. stack[g] \in Value /\ <<stack[g]>> \in Seq(Value)
  <2>1. stack \in Seq(Value) /\ Len(stack) \in Nat
    BY LenProperties DEF TypeOK, MachineOK
  <2>2. g \in 1..Len(stack)
    BY <2>1, SizeAssumption DEF Load, Handler, Ready
  <2> QED BY <2>1, <2>2, ElementOfSeq
<1>2. rc' \in [Addr -> Int]
  BY <1>1, CountedType DEF Load
<1>3. stack' \in Seq(Value) /\ leaked' \in [Addr -> Nat] /\ status' \in Status
  BY <1>1, PushType DEF Load
<1> QED BY <1>2, <1>3 DEF Load, TypeOK, MachineOK, HeapOK

LEMMA DupType == ASSUME TypeOK, Dup PROVE MachineOK'
<1>1. Top(1) \in Value /\ <<Top(1)>> \in Seq(Value)
  BY HandlerParts DEF Dup
<1>2. CASE rc' = Counted(<<Top(1)>>) /\ stack' = Append(stack, Top(1)) /\ UNCHANGED status
  <2>1. rc' \in [Addr -> Int]
    BY <1>1, <1>2, CountedType
  <2>2. stack' \in Seq(Value)
    BY <1>1, <1>2, AppendProperties DEF TypeOK, MachineOK
  <2> QED BY <1>2, <2>1, <2>2 DEF Dup, TypeOK, MachineOK, HeapOK
<1>3. CASE status' = "error" /\ UNCHANGED <<rc, stack>>
  BY <1>3 DEF Dup, TypeOK, MachineOK, HeapOK, Status
<1> QED BY <1>2, <1>3 DEF Dup

LEMMA StoreType == ASSUME TypeOK, NEW g \in 1..NGlobals, Store(g) PROVE MachineOK'
<1>1. /\ Below(1) \in Seq(Value) /\ Top(1) \in Value /\ Len(Below(1)) = Len(stack) - 1
      /\ Len(stack) \in Nat
  BY HandlerParts DEF Store
<1>2. g \in 1..Len(Below(1)) /\ g \in 1..Len(stack)
  BY <1>1, SizeAssumption DEF Store, Handler, Ready
<1>3. stack' \in Seq(Value)
  BY <1>1, <1>2, ExceptSeq DEF Store
<1>4. stack[g] \in Value
  BY <1>2, ElementOfSeq DEF TypeOK, MachineOK
<1>5. pending' \in Seq(Value)
  BY <1>4 DEF Store, Release
<1>6. HeapOK'
  BY HeapUnchanged DEF Store
<1> QED BY <1>3, <1>5, <1>6 DEF Store, TypeOK, MachineOK

LEMMA DropType == ASSUME TypeOK, Drop PROVE MachineOK'
<1>1. Below(1) \in Seq(Value) /\ Top(1) \in Value
  BY HandlerParts DEF Drop
<1>2. HeapOK'
  BY HeapUnchanged DEF Drop
<1> QED BY <1>1, <1>2 DEF Drop, Release, TypeOK, MachineOK

LEMMA SwapType == ASSUME TypeOK, Swap PROVE MachineOK'
<1>1. Below(2) \in Seq(Value) /\ Top(1) \in Value /\ Top(2) \in Value
  BY HandlerParts DEF Swap
<1>2. <<Top(1), Top(2)>> \in Seq(Value)
  BY <1>1
<1>3. stack' \in Seq(Value)
  BY <1>1, <1>2, ConcatProperties DEF Swap
<1>4. HeapOK'
  BY HeapUnchanged DEF Swap
<1> QED BY <1>3, <1>4 DEF Swap, TypeOK, MachineOK

LEMMA EndType == ASSUME TypeOK, NEW n \in Nat \ {0}, End(n) PROVE MachineOK'
<1>1. n + 1 \in Nat /\ 1 \in 1..(n + 1)
  OBVIOUS
<1>2. Top(1) \in Value /\ n + 1 <= Len(stack) /\ Len(stack) \in Nat
  BY <1>1, HandlerParts DEF End
<1>3. stack' \in Seq(Value) /\ leaked' \in [Addr -> Nat] /\ status' \in Status
  BY <1>1, <1>2, ReplaceType DEF End
<1>4. SubSeq(stack, Len(stack) - n, Len(stack) - 1) \in Seq(Value)
  <2>1. \A i \in (Len(stack) - n)..(Len(stack) - 1) : stack[i] \in Value
    BY <1>2, ElementOfSeq DEF TypeOK, MachineOK
  <2>2. Len(stack) - n \in Int /\ Len(stack) - 1 \in Int
    BY <1>2
  <2> QED BY <2>1, <2>2, SubSeqProperties
<1>5. HeapOK'
  BY HeapUnchanged DEF End
<1> QED BY <1>3, <1>4, <1>5 DEF End, Release, TypeOK, MachineOK

\* An operand replaced by an immediate value, and released.
LEMMA AnswerType ==
  ASSUME TypeOK, NEW name, Handler(name, 1), Replace(1, Imm), Release(<<Top(1)>>),
         UNCHANGED heapVars
  PROVE  MachineOK'
<1>1. Top(1) \in Value /\ 1 <= Len(stack)
  BY HandlerParts
<1>2. stack' \in Seq(Value) /\ leaked' \in [Addr -> Nat] /\ status' \in Status
  BY <1>1, ReplaceType DEF Value
<1> QED BY <1>1, <1>2, HeapUnchanged DEF Release, TypeOK, MachineOK

LEMMA InspectType == ASSUME TypeOK, Inspect PROVE MachineOK'
BY AnswerType DEF Inspect

LEMMA VariantTagType == ASSUME TypeOK, VariantTag PROVE MachineOK'
<1>1. 1 <= Len(stack)
  BY HandlerParts DEF VariantTag
<1> QED BY <1>1, AnswerType, FailType DEF VariantTag

LEMMA BranchType == ASSUME TypeOK, Branch PROVE MachineOK'
<1>1. 1 <= Len(stack) /\ Below(1) \in Seq(Value)
  BY HandlerParts DEF Branch
<1>2. CASE Fail(1)
  BY <1>1, <1>2, FailType
<1>3. CASE stack' = Below(1) /\ UNCHANGED <<heapVars, pending, leaked, status>>
  BY <1>1, <1>3, HeapUnchanged DEF TypeOK, MachineOK
<1> QED BY <1>2, <1>3 DEF Branch

LEMMA TupleType == ASSUME TypeOK, NEW a \in Addr, NEW n \in Nat, Tuple(a, n) PROVE MachineOK'
<1>1. /\ n <= Len(stack) /\ Operands(n) \in Seq(Value)
      /\ \A i \in 1..n : Top(i) \in Value
  BY HandlerParts DEF Tuple
<1>2. HeapOK'
  <2>1. "tuple" \in Tag \ {"slice"}
    BY DEF Tag
  <2> QED BY <1>1, <2>1, PlainAllocType, NoNumType DEF Tuple
<1>3. a \in Value
  BY DEF Value
<1>4. stack' \in Seq(Value) /\ leaked' \in [Addr -> Nat] /\ status' \in Status
  BY <1>1, <1>3, PushType, ReplaceType DEF Tuple
<1>5. [i \in 1..n |-> Top(i)] \in Seq(Value)
  BY <1>1, IsASeq
<1> QED BY <1>2, <1>4, <1>5 DEF Tuple, Release, TypeOK, MachineOK

LEMMA VariantType ==
  ASSUME TypeOK, NEW a \in Addr, NEW n \in Nat, Variant(a, n) PROVE MachineOK'
<1>1. n <= Len(stack) /\ Operands(n) \in Seq(Value)
  BY HandlerParts DEF Variant
<1>2. HeapOK'
  <2>1. "variant" \in Tag \ {"slice"} /\ <<>> \in Seq(Value)
    BY DEF Tag
  <2> QED BY <1>1, <2>1, PlainAllocType, NoNumType DEF Variant
<1>3. a \in Value
  BY DEF Value
<1>4. stack' \in Seq(Value) /\ leaked' \in [Addr -> Nat] /\ status' \in Status
  BY <1>1, <1>3, PushType, ReplaceType DEF Variant
<1> QED BY <1>2, <1>4 DEF Variant, TypeOK, MachineOK

\* The k-th field of a variant, or item of a tuple or a text.
LEMMA ItemType ==
  ASSUME TypeOK, NEW v \in Addr, NEW k \in 1..Len(items[v])
  PROVE  items[v][k] \in Value
BY ElementOfSeq DEF TypeOK, MachineOK, HeapOK

\* An item of an object that is no slice is replaced.
LEMMA SetItemType ==
  ASSUME TypeOK, NEW v \in Addr, tag[v] # "slice", NEW k \in 1..Len(items[v]),
         NEW x \in Value, NEW s \in Seq(Value),
         items' = [items EXCEPT ![v][k] = x], rc' = Counted(s), UNCHANGED <<tag, win, num>>
  PROVE  HeapOK'
<1>1. items[v] \in Seq(Value)
  BY DEF TypeOK, MachineOK, HeapOK
<1>2. [items[v] EXCEPT ![k] = x] \in Seq(Value)
  BY <1>1, ExceptSeq
<1>3. items' = [items EXCEPT ![v] = [items[v] EXCEPT ![k] = x]]
  OBVIOUS
<1>4. items' \in [Addr -> Seq(Value)] /\ \A y \in Addr \ {v} : items'[y] = items[y]
  BY <1>2, <1>3 DEF TypeOK, MachineOK, HeapOK
<1>5. rc' \in [Addr -> Int]
  BY CountedType
<1> QED BY <1>4, <1>5 DEF TypeOK, MachineOK, HeapOK

LEMMA FieldType == ASSUME TypeOK, NEW k \in Nat \ {0}, Field(k) PROVE MachineOK'
<1> DEFINE v == Top(1)
<1>1. 1 <= Len(stack) /\ v \in Value
  BY HandlerParts DEF Field
<1>2. CASE Fail(1)
  BY <1>1, <1>2, FailType
<1>3. CASE Fatal
  BY <1>3, StopType
<1>4. CASE /\ Kind(v) = "variant" /\ k <= Len(items[v])
           /\ rc' = Counted(<<items[v][k]>>)
           /\ Replace(1, items[v][k]) /\ Release(<<v>>)
           /\ UNCHANGED <<tag, items, win, num>>
  <2>1. v \in Addr
    BY <1>4 DEF Kind
  <2>2. items[v][k] \in Value
    <3>1. Len(items[v]) \in Nat
      BY <2>1, LenProperties DEF TypeOK, MachineOK, HeapOK
    <3> QED BY <1>4, <2>1, <3>1, ItemType
  <2>3. rc' \in [Addr -> Int]
    <3>1. <<items[v][k]>> \in Seq(Value)
      BY <2>2
    <3> QED BY <1>4, <3>1, CountedType
  <2>4. stack' \in Seq(Value) /\ leaked' \in [Addr -> Nat] /\ status' \in Status
    BY <1>1, <1>4, <2>2, ReplaceType
  <2>5. pending' \in Seq(Value)
    BY <1>1, <1>4 DEF Release
  <2>6. HeapOK'
    BY <1>4, <2>3 DEF TypeOK, MachineOK, HeapOK
  <2> QED BY <2>4, <2>5, <2>6 DEF TypeOK, MachineOK
<1> QED BY <1>2, <1>3, <1>4 DEF Field

LEMMA SetFieldType == ASSUME TypeOK, NEW k \in Nat \ {0}, SetField(k) PROVE MachineOK'
<1> DEFINE v == Top(1)
           new == Top(2)
<1>1. 2 <= Len(stack) /\ v \in Value /\ new \in Value /\ Below(2) \in Seq(Value)
  BY HandlerParts DEF SetField
<1>2. CASE Fail(2)
  BY <1>1, <1>2, FailType
<1>3. CASE Fatal
  BY <1>3, StopType
<1>4. CASE /\ Kind(v) = "variant" /\ k <= Len(items[v])
           /\ rc' = Counted(<<new>>)
           /\ items' = [items EXCEPT ![v][k] = new]
           /\ stack' = Below(2) /\ Release(<<items[v][k], new, v>>)
           /\ UNCHANGED <<tag, win, num, leaked, status>>
  <2>1. v \in Addr /\ tag[v] # "slice"
    BY <1>4 DEF Kind
  <2>2. k \in 1..Len(items[v])
    <3>1. Len(items[v]) \in Nat
      BY <2>1, LenProperties DEF TypeOK, MachineOK, HeapOK
    <3> QED BY <1>4, <3>1
  <2>3. items[v][k] \in Value
    BY <2>1, <2>2, ItemType
  <2>4. HeapOK'
    <3>1. <<new>> \in Seq(Value)
      BY <1>1
    <3> QED BY <1>1, <1>4, <2>1, <2>2, <3>1, SetItemType
  <2>5. pending' \in Seq(Value)
    BY <1>1, <1>4, <2>3 DEF Release
  <2> QED BY <1>1, <1>4, <2>4, <2>5 DEF TypeOK, MachineOK
<1> QED BY <1>2, <1>3, <1>4 DEF SetField

LEMMA ElemType ==
  ASSUME TypeOK, NEW a \in Addr, NEW k \in Nat \ {0}, Elem(a, k) PROVE MachineOK'
<1> DEFINE c == Top(2)
           x == items[Root(c)][Lo(c) + k]
<1>1. 2 <= Len(stack) /\ Top(1) \in Value /\ c \in Value
  BY HandlerParts DEF Elem
<1>2. CASE Fail(2)
  BY <1>1, <1>2, FailType
<1>3. CASE Fatal \/ Undefined
  BY <1>3, StopType
<1>4. CASE /\ Sized(c) /\ k \in 1..Length(c)
           /\ ~Orphan(c) /\ Lo(c) + k <= Len(items[Root(c)])
           /\ IF RootTag(c) = "text"
              THEN Alloc(a, "text", <<x>>, NoWin, NoNum, <<>>) /\ Replace(2, a)
              ELSE /\ rc' = Counted(<<x>>) /\ Replace(2, x)
                   /\ UNCHANGED <<tag, items, win, num>>
           /\ Release(<<c, Top(1)>>)
  <2>1. x \in Value
    BY <1>4, SizedParts, ItemType
  <2>2. <<x>> \in Seq(Value)
    BY <2>1
  <2>3. pending' \in Seq(Value)
    BY <1>1, <1>4 DEF Release
  <2>4. CASE RootTag(c) = "text"
    <3>1. HeapOK'
      <4>1. "text" \in Tag \ {"slice"} /\ <<>> \in Seq(Value)
        BY DEF Tag
      <4> QED BY <1>4, <2>2, <2>4, <4>1, PlainAllocType, NoNumType
    <3>2. stack' \in Seq(Value) /\ leaked' \in [Addr -> Nat] /\ status' \in Status
      BY <1>1, <1>4, <2>4, ReplaceType DEF Value
    <3> QED BY <2>3, <3>1, <3>2 DEF TypeOK, MachineOK
  <2>5. CASE RootTag(c) # "text"
    <3>1. rc' \in [Addr -> Int]
      BY <1>4, <2>2, <2>5, CountedType
    <3>2. stack' \in Seq(Value) /\ leaked' \in [Addr -> Nat] /\ status' \in Status
      BY <1>1, <1>4, <2>1, <2>5, ReplaceType
    <3> QED BY <1>4, <2>3, <2>5, <3>1, <3>2 DEF TypeOK, MachineOK, HeapOK
  <2> QED BY <2>4, <2>5
<1> QED BY <1>2, <1>3, <1>4 DEF Elem

LEMMA StaType ==
  ASSUME TypeOK, NEW k \in Nat \ {0}, Sta(k)
  PROVE  /\ MachineOK' /\ freeing' = freeing
         /\ assigning' \in Assignment
         /\ \/ assigning' = assigning
            \/ /\ 3 <= Len(stack) /\ Top(1) \in Addr /\ tag[Top(1)] # "slice"
               /\ k \in 1..Len(items[Top(1)]) /\ assigning'.index = k
               /\ UNCHANGED <<tag, items, stack>>
<1> DEFINE c == Top(1)
           new == Top(3)
           x == IF Kind(c) = "text" /\ Kind(new) = "text" /\ Len(items[new]) = 1
                THEN items[new][1] ELSE new
<1>1. 3 <= Len(stack) /\ c \in Value /\ Top(2) \in Value /\ new \in Value
  <2>1. Ready("STA", 3)
    BY DEF Sta
  <2> QED BY <2>1, HandlerParts
<1>2. CASE (Fatal /\ UNCHANGED <<freeing, assigning>>) \/ Undefined
  BY <1>2, StopType DEF Undefined, TypeOK
<1>3. CASE Sized(c) /\ Kind(c) # "slice" /\ k \in 1..Len(items[c]) /\ ReleaseItem(k, x)
  <2>1. c \in Addr /\ tag[c] # "slice"
    BY <1>3 DEF Kind, Sized
  <2>2. x \in Value
    <3>1. CASE Kind(new) = "text" /\ Len(items[new]) = 1
      <4>1. new \in Addr /\ 1 \in 1..Len(items[new])
        BY <3>1 DEF Kind
      <4> QED BY <1>1, <4>1, ItemType
    <3>2. CASE ~(Kind(new) = "text" /\ Len(items[new]) = 1)
      BY <1>1, <3>2
    <3> QED BY <3>1, <3>2
  <2>3. items[c][k] \in Value
    BY <1>3, <2>1, ItemType
  <2> HIDE DEF x
  <2>4. HeapOK'
    BY <1>3, HeapUnchanged DEF ReleaseItem
  <2>5. pending' \in Seq(Value)
    BY <1>3, <2>3 DEF ReleaseItem, Release
  <2> QED BY <1>1, <1>3, <2>1, <2>2, <2>4, <2>5
          DEF ReleaseItem, TypeOK, MachineOK, heapVars, Assignment
<1> QED BY <1>2, <1>3 DEF Sta

LEMMA SliceType ==
  ASSUME TypeOK, NEW a \in Addr, NEW hasFrom \in BOOLEAN, NEW hasTo \in BOOLEAN,
         NEW from \in Int, NEW to \in Int, Slice(a, hasFrom, hasTo, from, to)
  PROVE  MachineOK'
<1> DEFINE n == (IF hasFrom THEN 1 ELSE 0) + (IF hasTo THEN 1 ELSE 0)
           c == Top(n + 1)
<1>1. n \in Nat /\ n + 1 \in Nat /\ n + 1 \in 1..(n + 1)
  OBVIOUS
<1>2. /\ n + 1 <= Len(stack) /\ Len(stack) \in Nat /\ c \in Value
      /\ Below(n + 1) \in Seq(Value)
  <2> HIDE DEF n
  <2>1. Handler("SLICE", n + 1)
    BY DEF Slice, n
  <2> QED BY <1>1, <2>1, HandlerParts
<1>3. Operands(n) \in Seq(Value)
  <2> HIDE DEF n
  <2> QED BY <1>1, <1>2, StackParts
<1>4. CASE Fatal \/ Undefined
  BY <1>4, StopType
<1>5. CASE /\ Sized(c) /\ ~Orphan(c)
           /\ Alloc(a, "slice", <<Root(c)>>, Window(c, from, to), NoNum, <<Root(c)>>)
           /\ stack' = Append(Below(n + 1), a)
           /\ Leak(Operands(n)) /\ Release(<<c>>) /\ UNCHANGED status
  <2> HIDE DEF n, c
  <2>1. Root(c) \in Addr /\ <<Root(c)>> \in Seq(Value)
    BY <1>5, SizedParts DEF Value
  <2>2. HeapOK'
    <3>1. "slice" \in Tag /\ Len(<<Root(c)>>) = 1 /\ <<Root(c)>>[1] = Root(c)
      BY DEF Tag
    <3>2. /\ Window(c, from, to) \in [lo : Nat, hi : Nat]
          /\ Window(c, from, to).lo <= Window(c, from, to).hi
      BY <1>5, WindowBounds
    <3> QED BY <1>5, <2>1, <3>1, <3>2, AllocType, NoNumType
  <2>3. stack' \in Seq(Value)
    BY <1>2, <1>5, AppendProperties DEF Value
  <2>4. leaked' \in [Addr -> Nat]
    BY <1>3, <1>5, CountedType
  <2>5. pending' \in Seq(Value)
    BY <1>2, <1>5 DEF Release
  <2> QED BY <1>5, <2>2, <2>3, <2>4, <2>5 DEF TypeOK, MachineOK
<1> QED BY <1>4, <1>5 DEF Slice

\* The parent's items before and behind the window.
LEMMA AroundType ==
  ASSUME NEW s \in Seq(Value), NEW lo \in Nat, NEW hi \in Nat, lo <= hi, hi <= Len(s)
  PROVE  /\ SubSeq(s, 1, lo) \in Seq(Value) /\ SubSeq(s, hi + 1, Len(s)) \in Seq(Value)
         /\ SubSeq(s, lo + 1, hi) \in Seq(Value)
<1>1. Len(s) \in Nat
  BY LenProperties
<1>2. \A i \in 1..lo : s[i] \in Value
  BY <1>1, ElementOfSeq
<1>3. \A i \in (hi + 1)..Len(s) : s[i] \in Value
  BY <1>1, ElementOfSeq
<1>4. /\ 1 \in Int /\ lo \in Int /\ lo + 1 \in Int
      /\ hi \in Int /\ hi + 1 \in Int /\ Len(s) \in Int
  BY <1>1
<1>5. \A i \in (lo + 1)..hi : s[i] \in Value
  BY <1>1, ElementOfSeq
<1> QED BY <1>2, <1>3, <1>4, <1>5, SubSeqProperties

LEMMA MaterializedType ==
  ASSUME TypeOK, NEW v, ~Stale(v)
  PROVE  Materialized(v) \in Seq(Value)
<1>1. CASE Kind(v) = "slice"
  <2>1. Shown(v) \in Seq(Value)
    BY <1>1, ShownType DEF Sized
  <2> QED BY <1>1, <2>1 DEF Materialized
<1>2. CASE Kind(v) # "slice"
  BY <1>2 DEF Materialized
<1> QED BY <1>1, <1>2

LEMMA StsType == ASSUME TypeOK, Sts PROVE MachineOK'
<1> DEFINE s == Top(1)
           new == Top(2)
           parent == Root(s)
           copied == Materialized(new)
           old == items[parent]
           cut == SubSeq(items[parent], win[s].lo + 1, win[s].hi)
           its == SubSeq(old, 1, win[s].lo) \o Shown(new) \o SubSeq(old, win[s].hi + 1, Len(old))
<1>1. 2 <= Len(stack) /\ s \in Value /\ new \in Value /\ Below(2) \in Seq(Value)
  <2>1. Handler("STS", 2)
    BY DEF Sts
  <2> QED BY <2>1, HandlerParts
<1>2. CASE Fatal \/ Undefined
  BY <1>2, StopType
<1>3. CASE /\ Kind(s) = "slice" /\ Sized(new) /\ ~Stale(s) /\ ~Stale(new)
           /\ items' = [items EXCEPT ![parent] =
                          SubSeq(@, 1, win[s].lo) \o Shown(new)
                            \o SubSeq(@, win[s].hi + 1, Len(@))]
           /\ rc' = Counted(copied) /\ Leak(copied \o cut)
           /\ stack' = Below(2) /\ Release(<<s, new>>)
           /\ UNCHANGED <<tag, win, num, status>>
  <2> HIDE DEF s, new
  <2>1. s \in Addr /\ parent \in Addr /\ old \in Seq(Value)
    BY <1>3, SizedParts DEF Sized
  <2>2. /\ win[s].lo \in Nat /\ win[s].hi \in Nat /\ win[s].lo <= win[s].hi
        /\ win[s].hi <= Len(old)
    <3>1. Hi(s) <= Len(old) /\ Hi(s) = win[s].hi
      BY <1>3, <2>1, ShownType DEF Sized, Hi, Kind
    <3> QED BY <1>3, <2>1, <3>1 DEF Kind, TypeOK, MachineOK, HeapOK
  <2>3. its \in Seq(Value)
    <3>1. SubSeq(old, 1, win[s].lo) \in Seq(Value)
          /\ SubSeq(old, win[s].hi + 1, Len(old)) \in Seq(Value)
      BY <2>1, <2>2, AroundType
    <3>2. Shown(new) \in Seq(Value)
      BY <1>3, ShownType
    <3>3. SubSeq(old, 1, win[s].lo) \o Shown(new) \in Seq(Value)
      BY <3>1, <3>2, ConcatProperties
    <3> QED BY <3>1, <3>3, ConcatProperties
  <2>4. copied \in Seq(Value)
    BY <1>3, MaterializedType
  <2>5. rc' \in [Addr -> Int] /\ leaked' \in [Addr -> Nat]
    <3>1. cut \in Seq(Value)
      BY <2>1, <2>2, AroundType
    <3>2. copied \o cut \in Seq(Value)
      BY <2>4, <3>1, ConcatProperties
    <3> HIDE DEF copied, cut
    <3> QED BY <1>3, <2>4, <3>2, CountedType
  <2>6. items' = [items EXCEPT ![parent] = its]
    BY <1>3
  <2>7. HeapOK'
    <3> HIDE DEF its
    <3>1. items' \in [Addr -> Seq(Value)] /\ \A x \in Addr \ {parent} : items'[x] = items[x]
      BY <2>1, <2>3, <2>6 DEF TypeOK, MachineOK, HeapOK
    <3>2. tag[parent] # "slice"
      BY <1>3 DEF Stale, Orphan
    <3> QED BY <1>3, <2>5, <3>1, <3>2 DEF TypeOK, MachineOK, HeapOK
  <2>8. pending' \in Seq(Value)
    BY <1>1, <1>3 DEF Release
  <2> QED BY <1>1, <1>3, <2>5, <2>7, <2>8 DEF TypeOK, MachineOK
<1> QED BY <1>2, <1>3 DEF Sts

\* An operator with two operands leaves its result in their place.
LEMMA BinopType ==
  ASSUME TypeOK, NEW name, Handler(name, 2), NEW r \in Value, HeapOK', Replace(2, r), Consumed
  PROVE  MachineOK'
<1>1. 2 <= Len(stack) /\ Top(1) \in Value /\ Top(2) \in Value
  BY HandlerParts
<1>2. stack' \in Seq(Value) /\ leaked' \in [Addr -> Nat] /\ status' \in Status
  BY <1>1, ReplaceType
<1>3. pending' \in Seq(Value)
  BY <1>1 DEF Consumed, Release
<1> QED BY <1>2, <1>3 DEF TypeOK, MachineOK

LEMMA AddType == ASSUME TypeOK, NEW a \in Addr, Add(a) PROVE MachineOK'
<1> DEFINE right == Top(1)
           left == Top(2)
           joined == Shown(left) \o Shown(right)
           joins == /\ Kind(left) \in {"tuple", "text", "slice"} /\ Kind(left) = Kind(right)
                    /\ RootTag(left) = RootTag(right)
                    /\ ~(Kind(left) = "slice" /\ RootTag(left) = "text")
<1>1. CASE Fatal \/ Undefined
  BY <1>1, StopType
<1>2. CASE /\ joins /\ ~Stale(left) /\ ~Stale(right)
           /\ Alloc(a, RootTag(left), joined, NoWin, NoNum, joined)
           /\ Replace(2, a) /\ Consumed
  <2>1. joined \in Seq(Value)
    <3>1. Shown(left) \in Seq(Value) /\ Shown(right) \in Seq(Value)
      BY <1>2, ShownType DEF Sized
    <3> QED BY <3>1, ConcatProperties
  <2>2. RootTag(left) \in Tag
    <3>1. left \in Addr /\ Root(left) \in Addr
      BY <1>2, SizedParts DEF Sized
    <3> QED BY <3>1 DEF RootTag, Kind, Root, TypeOK, MachineOK, HeapOK
  <2>3. HeapOK'
    <3>1. RootTag(left) # "slice"
      BY <1>2 DEF Stale, Orphan, RootTag, Root, Kind
    <3> QED BY <1>2, <2>1, <2>2, <3>1, PlainAllocType, NoNumType
  <2> QED BY <1>2, <2>3, BinopType DEF Add, Value
<1> QED BY <1>1, <1>2 DEF Add

\* A float is overwritten.
LEMMA OverwriteType ==
  ASSUME TypeOK, NEW kept \in Addr, NEW f \in FloatVal,
         num' = [num EXCEPT ![kept] = f], UNCHANGED <<tag, rc, items, win>>
  PROVE  HeapOK'
BY DEF TypeOK, MachineOK, HeapOK

LEMMA FloatBinopType ==
  ASSUME TypeOK, NEW a \in Addr, NEW f \in FloatVal, FloatBinop(a, f) PROVE MachineOK'
<1> DEFINE right == Top(1)
           left == Top(2)
           Reuse(kept, gone) ==
             /\ num' = [num EXCEPT ![kept] = f]
             /\ Replace(2, kept) /\ Release(<<gone>>)
             /\ UNCHANGED <<tag, rc, items, win>>
<1>1. 2 <= Len(stack) /\ right \in Addr /\ left \in Addr
  BY HandlerParts DEF FloatBinop, Kind
<1>2. ASSUME NEW kept \in Addr, NEW gone \in Addr, Reuse(kept, gone) PROVE MachineOK'
  <2>1. HeapOK'
    BY <1>2, OverwriteType
  <2>2. kept \in Value /\ <<gone>> \in Seq(Value)
    BY DEF Value
  <2>3. stack' \in Seq(Value) /\ leaked' \in [Addr -> Nat] /\ status' \in Status
    BY <1>1, <1>2, <2>2, ReplaceType
  <2> QED BY <1>2, <2>1, <2>2, <2>3 DEF TypeOK, MachineOK, Release
<1>3. CASE Alloc(a, "float", <<>>, NoWin, f, <<>>) /\ Replace(2, a) /\ Consumed
  <2>1. HeapOK'
    <3>1. "float" \in Tag \ {"slice"} /\ <<>> \in Seq(Value)
      BY DEF Tag
    <3> QED BY <1>3, <3>1, PlainAllocType
  <2> QED BY <1>3, <2>1, BinopType DEF FloatBinop, Value
<1> HIDE DEF left, right
<1>4. Reuse(left, right) \/ Reuse(right, left)
      \/ (Alloc(a, "float", <<>>, NoWin, f, <<>>) /\ Replace(2, a) /\ Consumed)
  BY DEF FloatBinop, left, right
<1> QED BY <1>1, <1>2, <1>3, <1>4

LEMMA MixedBinopType ==
  ASSUME TypeOK, NEW a \in Addr, NEW f \in FloatVal, MixedBinop(a, f) PROVE MachineOK'
<1>1. "float" \in Tag \ {"slice"} /\ <<>> \in Seq(Value) /\ a \in Value
  BY DEF Tag, Value
<1>2. HeapOK'
  BY <1>1, PlainAllocType DEF MixedBinop
<1> QED BY <1>1, <1>2, BinopType DEF MixedBinop

LEMMA DivideByZeroType == ASSUME TypeOK, DivideByZero PROVE MachineOK'
<1>1. 2 <= Len(stack)
  BY HandlerParts DEF DivideByZero
<1> QED BY <1>1, FailType DEF DivideByZero

LEMMA NegateType ==
  ASSUME TypeOK, NEW a \in Addr, NEW f \in FloatVal, Negate(a, f) PROVE MachineOK'
<1>1. 1 <= Len(stack) /\ Top(1) \in Value
  BY HandlerParts DEF Negate
<1>2. CASE Fatal
  BY <1>2, StopType
<1>3. CASE Replace(1, Imm) /\ UNCHANGED <<heapVars, pending>>
  <2>1. stack' \in Seq(Value) /\ leaked' \in [Addr -> Nat] /\ status' \in Status
    BY <1>1, <1>3, ReplaceType DEF Value
  <2> QED BY <1>3, <2>1, HeapUnchanged DEF TypeOK, MachineOK
<1>4. CASE /\ Alloc(a, "float", <<>>, NoWin, f, <<>>)
           /\ Replace(1, a) /\ Release(<<Top(1)>>)
  <2>1. "float" \in Tag \ {"slice"} /\ <<>> \in Seq(Value) /\ a \in Value
    BY DEF Tag, Value
  <2>2. HeapOK'
    BY <1>4, <2>1, PlainAllocType
  <2>3. stack' \in Seq(Value) /\ leaked' \in [Addr -> Nat] /\ status' \in Status
    BY <1>1, <1>4, <2>1, ReplaceType
  <2> QED BY <1>1, <1>4, <2>2, <2>3 DEF Release, TypeOK, MachineOK
<1> QED BY <1>2, <1>3, <1>4 DEF Negate

LEMMA CopiesType ==
  ASSUME NEW s \in Seq(Value), NEW n \in Nat
  PROVE  Copies(s, n) \in Seq(Value)
<1> DEFINE e(i) == s[((i - 1) % Len(s)) + 1]
<1>1. Len(s) \in Nat /\ n * Len(s) \in Nat
  BY LenProperties
<1>2. ASSUME NEW i \in 1..(n * Len(s)) PROVE e(i) \in Value
  <2>1. Len(s) # 0
    <3>1. Len(s) = 0 => n * Len(s) = 0
      OBVIOUS
    <3> QED BY <1>1, <1>2, <3>1
  <2>2. (i - 1) % Len(s) \in 0..(Len(s) - 1)
    BY <1>1, <2>1
  <2>3. ((i - 1) % Len(s)) + 1 \in 1..Len(s)
    BY <1>1, <2>2
  <2> QED BY <2>3, ElementOfSeq
<1> HIDE DEF e
<1>3. [i \in 1..(n * Len(s)) |-> e(i)] \in Seq(Value)
  BY <1>1, <1>2, IsASeq
<1> QED BY <1>3 DEF Copies, e

LEMMA RepeatType == ASSUME TypeOK, NEW a \in Addr, NEW n \in Nat, Repeat(a, n) PROVE MachineOK'
<1> DEFINE right == Top(1)
           left == Top(2)
           c == IF left = Imm THEN right ELSE left
           its == Copies(items[c], n)
           repeats == \/ Kind(left) \in {"tuple", "text"} /\ right = Imm
                      \/ left = Imm /\ Kind(right) = "text"
           twice == Kind(left) = "tuple"
<1>1. /\ 2 <= Len(stack) /\ right \in Value /\ left \in Value
      /\ Below(2) \in Seq(Value)
  BY HandlerParts DEF Repeat
<1>2. CASE Fatal
  BY <1>2, StopType
<1>3. CASE /\ repeats
           /\ Alloc(a, Kind(c), its, NoWin, NoNum, IF twice THEN its \o its ELSE its)
           /\ stack' = Append(Below(2), a)
           /\ Leak(IF twice THEN its ELSE <<>>)
           /\ Consumed /\ UNCHANGED status
  <2>1. c \in Addr /\ Kind(c) \in {"tuple", "text"}
    <3>1. Imm \notin Addr
      BY AddrAssumption
    <3> QED BY <1>3, <3>1 DEF Kind
  <2> HIDE DEF c, left, right
  <2>2. its \in Seq(Value)
    BY <2>1, CopiesType DEF TypeOK, MachineOK, HeapOK
  <2> HIDE DEF its
  <2>3. (IF twice THEN its \o its ELSE its) \in Seq(Value)
    BY <2>2, ConcatProperties
  <2>4. (IF twice THEN its ELSE <<>>) \in Seq(Value)
    BY <2>2
  <2>5. HeapOK'
    <3>1. Kind(c) \in Tag \ {"slice"}
      BY <2>1 DEF Tag
    <3> QED BY <1>3, <2>2, <2>3, <3>1, PlainAllocType, NoNumType
  <2>6. stack' \in Seq(Value)
    BY <1>1, <1>3, AppendProperties DEF Value
  <2>7. leaked' \in [Addr -> Nat]
    BY <1>3, <2>4, CountedType
  <2>8. pending' \in Seq(Value)
    BY <1>1, <1>3 DEF Consumed, Release, left, right
  <2> QED BY <1>3, <2>5, <2>6, <2>7, <2>8 DEF TypeOK, MachineOK
<1> QED BY <1>2, <1>3 DEF Repeat

LEMMA EqualType == ASSUME TypeOK, Equal PROVE MachineOK'
<1> DEFINE right == Top(1)
           left == Top(2)
           copied == Materialized(left) \o Materialized(right)
<1>1. /\ 2 <= Len(stack) /\ right \in Value /\ left \in Value
      /\ Below(2) \in Seq(Value)
  BY HandlerParts DEF Equal
<1>2. ~Stale(left) /\ ~Stale(right)
  BY DEF Equal
<1>3. CASE Fatal
  BY <1>3, StopType
<1>4. CASE /\ rc' = Counted(copied) /\ Leak(copied)
           /\ stack' = Append(Below(2), Imm) /\ Consumed
           /\ UNCHANGED <<tag, items, win, num, status>>
  <2>1. copied \in Seq(Value)
    BY <1>2, MaterializedType, ConcatProperties
  <2>2. rc' \in [Addr -> Int] /\ leaked' \in [Addr -> Nat]
    BY <1>4, <2>1, CountedType
  <2>3. HeapOK'
    BY <1>4, <2>2 DEF TypeOK, MachineOK, HeapOK
  <2>4. stack' \in Seq(Value)
    BY <1>1, <1>4, AppendProperties DEF Value
  <2>5. pending' \in Seq(Value)
    BY <1>1, <1>4 DEF Consumed, Release
  <2> QED BY <1>4, <2>2, <2>3, <2>4, <2>5 DEF TypeOK, MachineOK
<1> QED BY <1>3, <1>4 DEF Equal

-----------------------------------------------------------------------------
(* Releasing, and the end of a run.                                        *)

\* What an assignment of an item that is under way needs.
AssignOK ==
  assigning # NoAssign =>
    /\ 3 <= Len(stack) /\ Top(1) \in Addr /\ tag[Top(1)] # "slice"
    /\ tag[Top(1)] # "free" => assigning.index \in 1..Len(items[Top(1)])

LEMMA DecRefType == ASSUME TypeOK, AssignOK, DecRef PROVE TypeOK' /\ AssignOK'
<1> DEFINE v == Head(pending)
           rest == Tail(pending)
<1>1. pending # <<>> /\ pending \in Seq(Value)
  BY DEF DecRef, TypeOK
<1>2. v \in Value /\ rest \in Seq(Value)
  BY <1>1, HeadTailProperties
<1> HIDE DEF v, rest
<1>3. AssignOK' /\ UNCHANGED <<stack, assigning, leaked>>
  <2>1. UNCHANGED <<tag, items, stack, assigning, leaked>>
    BY DEF DecRef, DecRefImm, DecRefShared, FreeObject, StackExhausted, DecRefFreed, Undefined,
           heapVars
  <2> QED BY <2>1 DEF AssignOK, Top
<1>4. CASE DecRefImm(v, rest)
  <2>1. HeapOK'
    BY <1>4, HeapUnchanged DEF DecRefImm
  <2>2. /\ pending' = rest /\ freeing' = freeing /\ stack' = stack /\ assigning' = assigning
        /\ leaked' = leaked /\ status' = status
    BY <1>4 DEF DecRefImm
  <2> QED BY <1>2, <1>3, <2>1, <2>2 DEF TypeOK
<1>5. CASE DecRefShared(v, rest)
  <2>1. HeapOK'
    <3>1. v \in Addr
      BY <1>2, <1>5 DEF DecRefShared, Value
    <3> QED BY <1>5, <3>1 DEF DecRefShared, TypeOK, HeapOK
  <2>2. /\ pending' = rest /\ freeing' = freeing /\ stack' = stack /\ assigning' = assigning
        /\ leaked' = leaked /\ status' = status
    BY <1>5 DEF DecRefShared
  <2> QED BY <1>2, <1>3, <2>1, <2>2 DEF TypeOK
<1>6. CASE FreeObject(v, rest)
  <2>1. v \in Addr
    BY <1>2, <1>6 DEF FreeObject, Value
  <2>2. HeapOK'
    BY <1>6, <2>1 DEF FreeObject, TypeOK, HeapOK
  <2>3. pending' \in Seq(Value)
    <3>1. items[v] \in Seq(Value)
      BY <2>1 DEF TypeOK, HeapOK
    <3> QED BY <1>2, <1>6, <3>1, ConcatProperties DEF FreeObject, Children
  <2>4. freeing' \in Seq(Call)
    <3>1. [object |-> v, left |-> Len(rest)] \in Call
      BY <1>2, <2>1, LenProperties DEF Call
    <3> QED BY <1>6, <3>1, AppendProperties DEF FreeObject, TypeOK
  <2> QED BY <1>3, <1>6, <2>2, <2>3, <2>4 DEF FreeObject, TypeOK
<1>7. CASE StackExhausted(v, rest)
  BY <1>3, <1>7, HeapUnchanged DEF StackExhausted, TypeOK, Status, Terminal, Halted
<1>8. CASE DecRefFreed(v, rest)
  BY <1>3, <1>8, HeapUnchanged DEF DecRefFreed, Undefined, TypeOK, Status, Terminal, Halted
<1> QED BY <1>4, <1>5, <1>6, <1>7, <1>8 DEF DecRef, v, rest

\* The innermost of the destructors that are running, and the others.
LEMMA FreeingParts ==
  ASSUME TypeOK, freeing # <<>>
  PROVE  /\ Innermost \in Call
         /\ SubSeq(freeing, 1, Len(freeing) - 1) \in Seq(Call)
<1>1. freeing \in Seq(Call) /\ Len(freeing) \in Nat /\ Len(freeing) # 0
  BY LenProperties, EmptySeq DEF TypeOK
<1>2. freeing[Len(freeing)] \in Call
  BY <1>1, ElementOfSeq
<1>3. SubSeq(freeing, 1, Len(freeing) - 1) \in Seq(Call)
  <2>1. 1 \in 0..Len(freeing)
    BY <1>1
  <2> QED BY <1>1, <2>1, SplitSeq
<1> QED BY <1>2, <1>3 DEF Innermost

LEMMA FreeMemoryType == ASSUME TypeOK, AssignOK, FreeMemory PROVE TypeOK' /\ AssignOK'
<1> DEFINE v == Innermost.object
<1>1. v \in Addr /\ freeing' \in Seq(Call)
  BY FreeingParts DEF FreeMemory, Call
<1>2. NoWin \in [lo : Nat, hi : Nat] /\ "free" \in Tag /\ <<>> \in Seq(Value)
  BY DEF NoWin, Tag
<1>3. /\ tag' = [tag EXCEPT ![v] = "free"] /\ rc' = [rc EXCEPT ![v] = 0]
      /\ items' = [items EXCEPT ![v] = <<>>]
      /\ win' = [win EXCEPT ![v] = NoWin] /\ num' = [num EXCEPT ![v] = NoNum]
      /\ UNCHANGED <<stack, pending, assigning, leaked, status>>
  BY DEF FreeMemory
<1> HIDE DEF v
<1>4. HeapOK'
  <2>1. /\ tag' \in [Addr -> Tag] /\ rc' \in [Addr -> Int] /\ items' \in [Addr -> Seq(Value)]
        /\ win' \in [Addr -> [lo : Nat, hi : Nat]] /\ num' \in [Addr -> FloatVal]
    BY <1>1, <1>2, <1>3, NoNumType DEF TypeOK, HeapOK
  <2>2. ASSUME NEW x \in Addr, tag'[x] = "slice"
        PROVE  Len(items'[x]) = 1 /\ items'[x][1] \in Addr /\ win'[x].lo <= win'[x].hi
    <3>1. x # v
      BY <1>1, <1>3, <2>2 DEF TypeOK, HeapOK
    <3> QED BY <1>1, <1>3, <2>2, <3>1 DEF TypeOK, HeapOK
  <2> QED BY <2>1, <2>2 DEF HeapOK
<1>5. AssignOK'
  <2> SUFFICES ASSUME assigning # NoAssign
               PROVE  /\ tag'[Top(1)] # "slice"
                      /\ tag'[Top(1)] # "free" => assigning.index \in 1..Len(items'[Top(1)])
    BY <1>3 DEF AssignOK, Top
  <2> DEFINE c == Top(1)
  <2>1. /\ c \in Addr /\ tag[c] # "slice"
        /\ tag[c] # "free" => assigning.index \in 1..Len(items[c])
    BY DEF AssignOK
  <2> HIDE DEF c
  <2>2. /\ tag'[c] # "slice" /\ (tag'[c] # "free" => assigning.index \in 1..Len(items'[c]))
    BY <1>1, <1>3, <2>1 DEF TypeOK, HeapOK
  <2> QED BY <2>2 DEF c
<1> QED BY <1>1, <1>3, <1>4, <1>5 DEF TypeOK

LEMMA SetItemStepType == ASSUME TypeOK, AssignOK, SetItem PROVE TypeOK' /\ AssignOK'
<1> DEFINE c == Top(1)
           x == assigning.item
<1>1. /\ 3 <= Len(stack) /\ c \in Addr /\ tag[c] # "slice" /\ x \in Value
      /\ assigning.index \in Nat
      /\ tag[c] # "free" => assigning.index \in 1..Len(items[c])
  BY DEF SetItem, AssignOK, TypeOK, Assignment
<1>2. CASE Undefined
  <2>1. AssignOK'
    BY <1>2 DEF Undefined, AssignOK, Top, heapVars
  <2> QED BY <1>2, <2>1, HeapUnchanged DEF Undefined, TypeOK, Status, Terminal, Halted
<1>3. CASE /\ tag[c] # "free"
           /\ rc' = Counted(<<x>>)
           /\ items' = [items EXCEPT ![c][assigning.index] = x]
           /\ Replace(3, c) /\ Release(<<Top(2), Top(3)>>)
           /\ assigning' = NoAssign
           /\ UNCHANGED <<tag, win, num, freeing>>
  <2>1. HeapOK'
    <3>1. <<x>> \in Seq(Value)
      BY <1>1
    <3> HIDE DEF x, c
    <3> QED BY <1>1, <1>3, <3>1, SetItemType
  <2>2. stack' \in Seq(Value) /\ leaked' \in [Addr -> Nat] /\ status' \in Status
    BY <1>1, <1>3, ReplaceType DEF Value
  <2>3. pending' \in Seq(Value)
    <3>1. Top(2) \in Value /\ Top(3) \in Value
      BY <1>1, StackParts
    <3> QED BY <1>3, <3>1 DEF Release
  <2>4. assigning' \in Assignment
    BY <1>3 DEF Assignment, NoAssign, Value
  <2> QED BY <1>3, <2>1, <2>2, <2>3, <2>4 DEF TypeOK, AssignOK
<1>4. c # Imm
  BY <1>1, AddrAssumption
<1> QED BY <1>2, <1>3, <1>4 DEF SetItem

\* The operand stack is drained.
LEMMA DrainType == ASSUME TypeOK, Finish \/ DropInterpreter PROVE TypeOK' /\ AssignOK'
<1>1. HeapOK'
  BY HeapUnchanged DEF Finish, DropInterpreter
<1>2. stack' \in Seq(Value) /\ pending' \in Seq(Value)
  <2>1. stack' = <<>> /\ pending' = stack
    BY DEF Finish, DropInterpreter, Release
  <2> QED BY <2>1 DEF TypeOK
<1>3. /\ freeing' = freeing /\ assigning' = NoAssign /\ leaked' = leaked
      /\ status' \in Status /\ assigning = NoAssign
  BY DEF Finish, DropInterpreter, Status, Terminal, Settled
<1>4. TypeOK'
  BY <1>1, <1>2, <1>3 DEF TypeOK
<1> QED BY <1>3, <1>4 DEF AssignOK

-----------------------------------------------------------------------------

LEMMA InitType == Init => TypeOK /\ AssignOK
<1> SUFFICES ASSUME Init PROVE TypeOK /\ AssignOK
  OBVIOUS
<1>1. NoWin \in [lo : Nat, hi : Nat] /\ "free" \in Tag /\ "running" \in Status
  BY DEF NoWin, Tag, Status
<1>2. stack \in Seq(Value)
  <2>1. [g \in 1..NGlobals |-> Imm] \in Seq(Value)
    BY SizeAssumption DEF Value
  <2> QED BY <2>1 DEF Init
<1>3. HeapOK
  BY <1>1, NoNumType DEF Init, HeapOK
<1>4. NoAssign \in Assignment
  BY DEF Assignment, NoAssign, Value
<1> QED BY <1>1, <1>2, <1>3, <1>4 DEF Init, TypeOK, AssignOK

LEMMA AllocatingType ==
  ASSUME TypeOK, NEW a \in Addr, Allocating(a)
  PROVE  MachineOK' /\ Settled /\ UNCHANGED <<freeing, assigning>>
<1>1. ASSUME NEW f \in FloatVal,
             Constf(a, f) \/ FloatBinop(a, f) \/ MixedBinop(a, f) \/ Negate(a, f)
      PROVE  MachineOK' /\ Settled /\ UNCHANGED <<freeing, assigning>>
  BY <1>1, ConstfType, FloatBinopType, MixedBinopType, NegateType
     DEF Constf, FloatBinop, MixedBinop, Negate, Handler, Ready
<1>2. CASE Null(a) \/ Closure(a) \/ Add(a)
  BY <1>2, NullType, ClosureType, AddType DEF Null, Closure, Add, Handler, Ready
<1>3. ASSUME NEW n \in 0..MaxItems, Text(a, n) \/ Tuple(a, n) \/ Variant(a, n) \/ Repeat(a, n)
      PROVE  MachineOK' /\ Settled /\ UNCHANGED <<freeing, assigning>>
  <2>1. n \in Nat
    BY SizeAssumption
  <2> QED BY <1>3, <2>1, TextType, TupleType, VariantType, RepeatType
          DEF Text, Tuple, Variant, Repeat, Handler, Ready
<1>4. ASSUME NEW k \in Index, Elem(a, k)
      PROVE MachineOK' /\ Settled /\ UNCHANGED <<freeing, assigning>>
  <2>1. k \in Nat \ {0}
    BY SizeAssumption DEF Index
  <2> QED BY <1>4, <2>1, ElemType DEF Elem, Handler, Ready
<1>5. ASSUME NEW hasFrom \in BOOLEAN, NEW hasTo \in BOOLEAN, NEW from \in Position,
             NEW to \in Position, Slice(a, hasFrom, hasTo, from, to)
      PROVE  MachineOK' /\ Settled /\ UNCHANGED <<freeing, assigning>>
  <2>1. from \in Int /\ to \in Int
    BY SizeAssumption DEF Position
  <2> QED BY <1>5, <2>1, SliceType DEF Slice, Handler, Ready
<1> QED BY <1>1, <1>2, <1>3, <1>4, <1>5 DEF Allocating

LEMMA InstructionType == ASSUME TypeOK, Instruction PROVE TypeOK' /\ AssignOK'
<1>1. ASSUME NEW a \in Addr, Allocating(a)
      PROVE MachineOK' /\ Settled /\ UNCHANGED <<freeing, assigning>>
  BY <1>1, AllocatingType
<1>2. ASSUME Const \/ Dup \/ Drop \/ Swap \/ Inspect
      PROVE MachineOK' /\ Settled /\ UNCHANGED <<freeing, assigning>>
  <2>1. MachineOK'
    BY <1>2, ConstType, DupType, DropType, SwapType, InspectType
  <2>2. Settled /\ UNCHANGED <<freeing, assigning>>
    <3>1. \E name, n : Handler(name, n)
      BY <1>2 DEF Const, Dup, Drop, Swap, Inspect
    <3> QED BY <3>1 DEF Handler, Ready
  <2> QED BY <2>1, <2>2
<1>3. ASSUME VariantTag \/ Branch \/ Equal \/ DivideByZero \/ Sts
      PROVE MachineOK' /\ Settled /\ UNCHANGED <<freeing, assigning>>
  <2>1. MachineOK'
    BY <1>3, VariantTagType, BranchType, EqualType, DivideByZeroType, StsType
  <2>2. Settled /\ UNCHANGED <<freeing, assigning>>
    <3>1. \E name, n : Handler(name, n)
      BY <1>3 DEF VariantTag, Branch, Equal, DivideByZero, Sts
    <3> QED BY <3>1 DEF Handler, Ready
  <2> QED BY <2>1, <2>2
<1>4. ASSUME NEW g \in 1..NGlobals, Load(g) \/ Store(g)
      PROVE MachineOK' /\ Settled /\ UNCHANGED <<freeing, assigning>>
  BY <1>4, LoadType, StoreType DEF Load, Store, Handler, Ready
<1>5. ASSUME NEW n \in 1..MaxItems, End(n)
      PROVE MachineOK' /\ Settled /\ UNCHANGED <<freeing, assigning>>
  <2>1. n \in Nat \ {0}
    BY SizeAssumption
  <2> QED BY <1>5, <2>1, EndType DEF End, Handler, Ready
<1>6. ASSUME NEW k \in Index, Field(k) \/ SetField(k)
      PROVE MachineOK' /\ Settled /\ UNCHANGED <<freeing, assigning>>
  <2>1. k \in Nat \ {0}
    BY SizeAssumption DEF Index
  <2> QED BY <1>6, <2>1, FieldType, SetFieldType DEF Field, SetField, Handler, Ready
<1>7. CASE MachineOK' /\ Settled /\ UNCHANGED <<freeing, assigning>>
  BY <1>7 DEF MachineOK, Settled, TypeOK, AssignOK
<1>8. ASSUME NEW k \in Index, Sta(k) PROVE TypeOK' /\ AssignOK'
  <2>1. k \in Nat \ {0}
    BY SizeAssumption DEF Index
  <2>2. /\ MachineOK' /\ freeing' = freeing
        /\ assigning' \in Assignment
        /\ \/ assigning' = assigning
           \/ /\ 3 <= Len(stack) /\ Top(1) \in Addr /\ tag[Top(1)] # "slice"
              /\ k \in 1..Len(items[Top(1)]) /\ assigning'.index = k
              /\ UNCHANGED <<tag, items, stack>>
    BY <1>8, <2>1, StaType
  <2>3. Settled
    BY <1>8 DEF Sta, Ready
  <2>4. TypeOK'
    BY <2>2 DEF MachineOK, TypeOK
  <2>5. AssignOK'
    BY <2>2, <2>3 DEF AssignOK, Settled, Top
  <2> QED BY <2>4, <2>5
<1> QED BY <1>1, <1>2, <1>3, <1>4, <1>5, <1>6, <1>7, <1>8 DEF Instruction

LEMMA NextType == ASSUME TypeOK, AssignOK, [Next]_vars PROVE TypeOK' /\ AssignOK'
<1>1. CASE Instruction
  BY <1>1, InstructionType
<1>2. CASE Continue
  BY <1>2, DecRefType, FreeMemoryType, SetItemStepType DEF Continue
<1>3. CASE Finish \/ DropInterpreter
  BY <1>3, DrainType
<1>4. CASE UNCHANGED vars
  BY <1>4 DEF vars, TypeOK, HeapOK, AssignOK, Top
<1> QED BY <1>1, <1>2, <1>3, <1>4 DEF Next, Stopped

LEMMA TypeInvariant == Spec => [](TypeOK /\ AssignOK)
<1>1. Init => TypeOK /\ AssignOK
  BY InitType
<1>2. (TypeOK /\ AssignOK) /\ [Next]_vars => (TypeOK /\ AssignOK)'
  BY NextType
<1> QED BY <1>1, <1>2, PTL DEF Spec

\* Every variable keeps its type along every run: no handler of
\* interpreter.rs and no function of src/runtime writes a value of the wrong
\* kind into the heap, whatever the program and however large the machine.
THEOREM TypeCorrect == Spec => []TypeOK
BY TypeInvariant, PTL
=============================================================================
