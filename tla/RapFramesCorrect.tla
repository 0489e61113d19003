-------------------------- MODULE RapFramesCorrect --------------------------
(***************************************************************************)
(* Frames, for any functions, any number of arguments and locals, and any  *)
(* depth of calls: metadata stay intact whatever is called with however    *)
(* many arguments; and if arities match, frames stay apart and calls leave *)
(* the stack as deep as the compiled code takes it to be.                  *)
(***************************************************************************)
EXTENDS RapFrames, SequenceTheorems, TLAPS

-----------------------------------------------------------------------------
(* The invariant.                                                          *)

\* The words of metadata that END and the loads rely on, one by one.
MetadataAt(s, k) ==
  LET w == frames[k]
  IN /\ s[w.fp + 2] = Arity[w.fun] /\ s[w.fp + 3] = Locals[w.fun]
     /\ s[w.fp + 4] = IF k = 1 THEN NGlobals ELSE frames[k - 1].fp
     /\ s[w.fp + 5] = w.ret

\* Each frame is above all frames that were opened before it, and above the globals.
\* (Said of every two frames, not of neighbours: no step then needs an induction
\* along the chain.)
Stacked ==
  \A k \in 1..Len(frames) :
    /\ StartOf(frames[k]) >= NGlobals + 7
    /\ \A j \in 1..Len(frames) : j < k => EndOf(frames[j]) <= StartOf(frames[k])

\* The registers are those of the innermost frame, and its temporaries are above it.
\* Without arities that match there may be more of them than compiled code knows of,
\* but never fewer.
Current ==
  frames # <<>> =>
    /\ fp = Innermost.fp /\ argc = Arity[Innermost.fun] /\ locc = Locals[Innermost.fun]
    /\ EndOf(Innermost) + depth <= Len(stack) - (IF Entering THEN 1 ELSE 0)

\* Before the BEGIN of the main function.
Starting ==
  frames = <<>> =>
    ip = Main /\ fp = NGlobals /\ locc = 0 /\ depth = 0 /\ Len(stack) = NGlobals + 8

\* What BEGIN takes for the address to return to is one.
Returns == Entering => Len(stack) > 0 /\ Top(1) \in Site \cup {0}

Running ==
  /\ \A k \in 1..Len(frames) : MetadataAt(stack, k)
  /\ Current /\ Starting /\ Returns

Inv ==
  /\ TypeOK
  /\ status # "overlap" => Stacked /\ FramesDisjoint
  /\ status = "running" => Running
  /\ "ArityMatches" \in Discipline => StackBalanced /\ status # "overlap"

-----------------------------------------------------------------------------
(* What a frame is made of, and where it is.                               *)

LEMMA FrameTypes ==
  ASSUME TypeOK, NEW k \in 1..Len(frames)
  PROVE  /\ frames[k] \in Frame
         /\ frames[k].fun \in Fun /\ frames[k].fp \in Nat /\ frames[k].left \in Nat
         /\ frames[k].ret \in Site \cup {0}
         /\ Arity[frames[k].fun] \in Nat /\ Locals[frames[k].fun] \in Nat
         /\ EndOf(frames[k]) \in Nat /\ EndOf(frames[k]) >= frames[k].fp + 5
         /\ StartOf(frames[k]) \in Int /\ StartOf(frames[k]) <= frames[k].fp
<1>1. frames[k] \in Frame
  BY ElementOfSeq DEF TypeOK
<1>2. frames[k].fun \in Fun /\ frames[k].fp \in Nat /\ frames[k].left \in Nat
      /\ frames[k].ret \in Site \cup {0}
  BY <1>1 DEF Frame
<1>3. Arity[frames[k].fun] \in Nat /\ Locals[frames[k].fun] \in Nat
  BY <1>2, FunAssumption
<1>4. /\ EndOf(frames[k]) = frames[k].fp + 5 + Locals[frames[k].fun]
      /\ StartOf(frames[k]) = frames[k].fp - Arity[frames[k].fun]
  BY DEF EndOf, StartOf
<1>5. \A p, a, l \in Nat : p + 5 + l \in Nat /\ p + 5 + l >= p + 5 /\ p - a \in Int /\ p - a <= p
  OBVIOUS
<1>6. /\ EndOf(frames[k]) \in Nat /\ EndOf(frames[k]) >= frames[k].fp + 5
      /\ StartOf(frames[k]) \in Int /\ StartOf(frames[k]) <= frames[k].fp
  BY <1>2, <1>3, <1>4, <1>5, SMTT(30)
<1> QED
  BY <1>1, <1>2, <1>3, <1>6

LEMMA Lengths ==
  ASSUME TypeOK
  PROVE  /\ Len(stack) \in Nat /\ Len(stack) <= MaxStack /\ Len(frames) \in Nat
         /\ DOMAIN stack = 1..Len(stack)
         /\ frames # <<>> => Len(frames) \in 1..Len(frames)
         /\ frames = <<>> => Len(frames) = 0
BY LenProperties, EmptySeq, StackAssumption DEF TypeOK

\* While a body runs it has a frame.
LEMMA HasFrame ==
  ASSUME Inv, status = "running", ~Entering
  PROVE  frames # <<>>
BY FunAssumption DEF Inv, Running, Starting, Entering

\* Every frame ends below the temporaries of the innermost one, which ends last.
LEMMA InnermostEndsLast ==
  ASSUME Inv, status = "running", NEW k \in 1..Len(frames)
  PROVE  /\ EndOf(frames[k]) <= EndOf(Innermost)
         /\ EndOf(Innermost) + depth <= Len(stack) - (IF Entering THEN 1 ELSE 0)
         /\ EndOf(Innermost) \in Nat
<1>1. TypeOK /\ Stacked /\ Current
  BY DEF Inv, Running
<1>2. frames # <<>> /\ Len(frames) \in 1..Len(frames)
  BY <1>1, Lengths
<1>3. EndOf(Innermost) \in Nat /\ EndOf(frames[k]) \in Nat /\ StartOf(Innermost) \in Int
      /\ StartOf(Innermost) <= Innermost.fp /\ Innermost.fp \in Nat
      /\ EndOf(Innermost) >= Innermost.fp + 5
  BY <1>1, <1>2, FrameTypes DEF Innermost
<1>4. EndOf(frames[k]) <= EndOf(Innermost)
  <2>1. CASE k = Len(frames)
    BY <2>1, <1>3 DEF Innermost
  <2>2. CASE k # Len(frames)
    <3>1. k < Len(frames)
      BY <2>2, <1>2, Lengths, <1>1
    <3>2. EndOf(frames[k]) <= StartOf(frames[Len(frames)])
      BY <3>1, <1>1, <1>2 DEF Stacked
    <3> QED
      BY <3>2, <1>3 DEF Innermost
  <2> QED
    BY <2>1, <2>2
<1> QED
  BY <1>1, <1>2, <1>3, <1>4 DEF Current

\* Where the metadata of a frame are: above the globals and within the frame.
LEMMA MetadataPlaces ==
  ASSUME Inv, status = "running", NEW k \in 1..Len(frames), NEW m \in 2..5
  PROVE  /\ frames[k].fp + m \in Nat
         /\ frames[k].fp + m > NGlobals + 7
         /\ frames[k].fp + m <= EndOf(frames[k])
         /\ frames[k].fp + m <= EndOf(Innermost)
<1>1. TypeOK /\ Stacked
  BY DEF Inv
<1>2. /\ frames[k].fp \in Nat /\ EndOf(frames[k]) >= frames[k].fp + 5
      /\ StartOf(frames[k]) <= frames[k].fp /\ StartOf(frames[k]) \in Int
      /\ EndOf(frames[k]) \in Nat
  BY <1>1, FrameTypes
<1>3. StartOf(frames[k]) >= NGlobals + 7
  BY <1>1 DEF Stacked
<1>4. EndOf(frames[k]) <= EndOf(Innermost) /\ EndOf(Innermost) \in Nat
  BY InnermostEndsLast
<1>5. \A p, e, i, g \in Nat : \A s \in Int :
        s >= g + 7 /\ s <= p /\ e >= p + 5 /\ e <= i =>
          p + m \in Nat /\ p + m > g + 7 /\ p + m <= e /\ p + m <= i
  OBVIOUS
<1> QED
  BY <1>2, <1>3, <1>4, <1>5, StackAssumption

-----------------------------------------------------------------------------
(* Two kinds of steps.                                                     *)

\* An error: nothing is promised of the stack but its type.
LEMMA Failing ==
  ASSUME Inv, status = "running", status' = "error",
         stack' \in Seq(Slot), Len(stack') <= MaxStack,
         fp' \in Nat, argc' \in Nat, locc' \in Nat, UNCHANGED <<ip, history>>
  PROVE  Inv'
<1>1. TypeOK'
  BY DEF Inv, TypeOK, Terminal, history
<1>2. Stacked' /\ FramesDisjoint'
  BY DEF Inv, Stacked, FramesDisjoint, history, EndOf, StartOf
<1>3. StackBalanced'
  BY DEF StackBalanced
<1> QED
  BY <1>1, <1>2, <1>3 DEF Inv

LEMMA FailingAsItIs ==
  ASSUME Inv, status = "running", NEW s \in Seq(Slot), Len(s) <= MaxStack, Fail(s)
  PROVE  Inv'
BY Failing DEF Fail, Inv, TypeOK, regs

\* What is above the place e when a value is put on s.
LEMMA AboveReturning ==
  ASSUME NEW s \in Int, NEW e \in Int, NEW l \in Int, s - e = l
  PROVE  s + 1 - 0 - e = 1 + l
OBVIOUS

\* An instruction of a body changes the depth by what it pushes and pops.
LEMMA BalanceWithin ==
  ASSUME TypeOK, StackBalanced, status = "running", ~Entering,
         depth' \in Nat, Len(stack') = Len(stack) + depth' - depth,
         UNCHANGED <<ip, status, frames>>
  PROVE  StackBalanced'
<1>1. Len(stack) \in Int /\ depth \in Int /\ depth' \in Int
  BY Lengths DEF TypeOK
<1>2. ASSUME NEW e \in Int, Len(stack) - e = depth PROVE Len(stack') - 0 - e = depth'
  <2> DEFINE l == Len(stack)
             m == Len(stack')
             x == depth'
  <2>1. l \in Int /\ m = l + x - depth /\ x \in Int /\ l - e = depth
    BY <1>1, <1>2
  <2> HIDE DEF l, m, x
  <2>2. m - 0 - e = x
    BY <2>1, <1>1
  <2> QED
    BY <2>2 DEF l, m, x
<1> SUFFICES ASSUME NEW k \in 1..Len(frames)
             PROVE  (TempsEnd(k) - EndOf(frames[k]))' =
                      IF k < Len(frames) THEN frames[k + 1].left ELSE depth'
  BY DEF StackBalanced
<1>3. EndOf(frames[k])' = EndOf(frames[k]) /\ EndOf(frames[k]) \in Int
  BY FrameTypes DEF EndOf
<1>4. CASE k < Len(frames)
  BY <1>4 DEF StackBalanced, TempsEnd, EndOf, StartOf
<1>5. CASE ~(k < Len(frames))
  <2>1. Len(stack) - EndOf(frames[k]) = depth
    BY <1>5 DEF StackBalanced, TempsEnd
  <2>2. TempsEnd(k)' = Len(stack') - 0
    BY <1>5 DEF TempsEnd, Entering
  <2>3. Len(stack') - 0 - EndOf(frames[k]) = depth'
    BY <1>2, <1>3, <2>1, Zenon
  <2> QED
    BY <1>3, <1>5, <2>2, <2>3
<1> QED
  BY <1>4, <1>5

\* An instruction of a body that leaves metadata alone and as many more values as it
\* is compiled to.
LEMMA Within ==
  ASSUME Inv, status = "running", ~Entering,
         stack' \in Seq(Slot), Len(stack') <= MaxStack,
         depth' \in Nat, Len(stack') = Len(stack) + depth' - depth,
         \A k \in 1..Len(frames) : \A m \in 2..5 :
           stack'[frames[k].fp + m] = stack[frames[k].fp + m],
         UNCHANGED <<fp, argc, locc, ip, status, frames>>
  PROVE  Inv'
<1>1. TypeOK /\ Stacked /\ FramesDisjoint /\ Running
  BY DEF Inv
<1>2. TypeOK'
  BY <1>1 DEF TypeOK
<1>3. Stacked' /\ FramesDisjoint'
  BY <1>1 DEF Stacked, FramesDisjoint, EndOf, StartOf
<1>4. ~Entering'
  BY DEF Entering
<1>5. depth \in Nat /\ Len(stack) \in Nat /\ Len(frames) \in Nat
  BY <1>1, Lengths DEF TypeOK
<1>6. frames # <<>> /\ Len(frames) \in 1..Len(frames) /\ EndOf(Innermost) \in Nat
  BY <1>1, HasFrame, Lengths, InnermostEndsLast
<1>7. \A k \in 1..Len(frames') : MetadataAt(stack, k)'
  <2> SUFFICES ASSUME NEW k \in 1..Len(frames) PROVE MetadataAt(stack, k)'
    OBVIOUS
  <2>1. MetadataAt(stack, k)
    BY <1>1 DEF Running
  <2>2. /\ stack'[frames[k].fp + 2] = stack[frames[k].fp + 2]
        /\ stack'[frames[k].fp + 3] = stack[frames[k].fp + 3]
        /\ stack'[frames[k].fp + 4] = stack[frames[k].fp + 4]
        /\ stack'[frames[k].fp + 5] = stack[frames[k].fp + 5]
    BY 2 \in 2..5, 3 \in 2..5, 4 \in 2..5, 5 \in 2..5
  <2> QED
    BY <2>1, <2>2 DEF MetadataAt
<1>8. Current'
  <2>1. Innermost' = Innermost /\ EndOf(Innermost)' = EndOf(Innermost)
    BY DEF Innermost, EndOf
  <2>2. EndOf(Innermost) + depth <= Len(stack)
    BY <1>1, <1>6 DEF Running, Current
  <2>3. EndOf(Innermost) + depth' <= Len(stack')
    BY <2>2, <1>5, <1>6
  <2> QED
    BY <2>1, <2>3, <1>1, <1>4, <1>6 DEF Running, Current
<1>9. Starting' /\ Returns'
  BY <1>4, <1>6 DEF Starting, Returns
<1>10. StackBalanced => StackBalanced'
  BY <1>1, BalanceWithin
<1> QED
  BY <1>2, <1>3, <1>7, <1>8, <1>9, <1>10 DEF Inv, Running

-----------------------------------------------------------------------------
(* The instructions of a body.                                             *)

\* The stack without its topmost n slots.
LEMMA BelowTop ==
  ASSUME TypeOK, NEW n \in 0..Len(stack)
  PROVE  /\ Below(n) \in Seq(Slot) /\ Len(Below(n)) = Len(stack) - n
         /\ DOMAIN Below(n) = 1..(Len(stack) - n)
         /\ \A i \in 1..(Len(stack) - n) : Below(n)[i] = stack[i]
<1>1. Len(stack) \in Nat /\ \A i \in 1..(Len(stack) - n) : stack[i] \in Slot
  BY Lengths, ElementOfSeq DEF TypeOK
<1>2. Below(n) \in Seq(Slot) /\ Len(Below(n)) = Len(stack) - n
      /\ \A i \in 1..(Len(stack) - n) : Below(n)[i] = stack[1 + i - 1]
  BY <1>1, SubSeqProperties DEF Below
<1> QED
  BY <1>1, <1>2, LenProperties

\* Metadata lie below the temporaries: what a body does to those does not reach them.
LEMMA MetadataBelow ==
  ASSUME Inv, status = "running", ~Entering, NEW k \in 1..Len(frames), NEW m \in 2..5
  PROVE  frames[k].fp + m \in 1..(Len(stack) - depth)
<1>1. frames[k].fp + m \in Nat /\ frames[k].fp + m > NGlobals + 7 /\ frames[k].fp + m <= EndOf(Innermost)
  BY MetadataPlaces
<1>2. EndOf(Innermost) + depth <= Len(stack) /\ EndOf(Innermost) \in Nat
  BY InnermostEndsLast
<1>3. depth \in Nat /\ Len(stack) \in Nat
  BY Lengths DEF Inv, TypeOK
<1> QED
  BY <1>1, <1>2, <1>3, StackAssumption

LEMMA Pushing ==
  ASSUME Inv, NEW v \in Slot, NEW what, Executing(0), Push(v, what)
  PROVE  Inv'
<1>1. TypeOK /\ status = "running" /\ ~Entering /\ depth \in Nat
  BY DEF Inv, Executing, TypeOK
<1>2. CASE Len(stack) >= MaxStack /\ Fail(stack)
  BY <1>1, <1>2, Lengths, FailingAsItIs DEF TypeOK
<1>3. CASE /\ Len(stack) < MaxStack
           /\ stack' = Append(stack, v) /\ depth' = depth + 1
           /\ UNCHANGED <<regs, ip, status, frames>>
  <2>1. stack' \in Seq(Slot) /\ Len(stack') = Len(stack) + 1
        /\ \A i \in 1..Len(stack) : stack'[i] = stack[i]
    BY <1>1, <1>3 DEF TypeOK
  <2>2. \A k \in 1..Len(frames) : \A m \in 2..5 :
          stack'[frames[k].fp + m] = stack[frames[k].fp + m]
    <3> SUFFICES ASSUME NEW k \in 1..Len(frames), NEW m \in 2..5
                 PROVE  stack'[frames[k].fp + m] = stack[frames[k].fp + m]
      OBVIOUS
    <3>1. frames[k].fp + m \in 1..(Len(stack) - depth)
      BY <1>1, MetadataBelow
    <3> QED
      BY <3>1, <2>1, <1>1, Lengths
  <2>3. Len(stack') <= MaxStack /\ depth' \in Nat /\ Len(stack') = Len(stack) + depth' - depth
    BY <1>1, <1>3, <2>1, Lengths, StackAssumption
  <2>4. UNCHANGED <<fp, argc, locc, ip, status, frames>>
    BY <1>3 DEF regs
  <2> QED
    BY <1>1, <2>1, <2>2, <2>3, <2>4, Within
<1> QED
  BY <1>2, <1>3 DEF Push

LEMMA Making == ASSUME Inv, NEW v \in Value, Make(v) PROVE Inv'
<1>1. v \in Slot
  BY DEF Value, Callable, Slot
<1> QED
  BY <1>1, Pushing DEF Make

LEMMA Dropping == ASSUME Inv, Drop PROVE Inv'
<1>1. TypeOK /\ status = "running" /\ ~Entering /\ depth \in Nat /\ depth >= 1 /\ Len(stack) >= 1
  BY StackAssumption, Lengths DEF Inv, Drop, Executing, TypeOK
<1>2. stack' \in Seq(Slot) /\ Len(stack') = Len(stack) - 1
      /\ \A i \in 1..(Len(stack) - 1) : stack'[i] = stack[i]
  <2>1. 1 \in 0..Len(stack)
    BY <1>1, Lengths
  <2> QED
    BY <1>1, <2>1, BelowTop DEF Drop
<1>3. \A k \in 1..Len(frames) : \A m \in 2..5 :
        stack'[frames[k].fp + m] = stack[frames[k].fp + m]
  <2> SUFFICES ASSUME NEW k \in 1..Len(frames), NEW m \in 2..5
               PROVE  stack'[frames[k].fp + m] = stack[frames[k].fp + m]
    OBVIOUS
  <2>1. frames[k].fp + m \in 1..(Len(stack) - depth)
    BY <1>1, MetadataBelow
  <2> QED
    BY <2>1, <1>1, <1>2, Lengths, SMTT(30)
<1>4. depth' = depth - 1 /\ UNCHANGED <<fp, argc, locc, ip, status, frames>>
  BY DEF Drop, regs
<1>5. Len(stack') <= MaxStack /\ depth' \in Nat /\ Len(stack') = Len(stack) + depth' - depth
  BY <1>1, <1>2, <1>4, Lengths, StackAssumption
<1> QED
  BY <1>1, <1>2, <1>3, <1>4, <1>5, Within

\* A slot that holds no metadata.
Free(p) == \A k \in 1..Len(frames) : \A m \in 2..5 : frames[k].fp + m # p

\* Globals, arguments and locals are where there are no metadata.
LEMMA VariableSlots ==
  ASSUME Inv, status = "running", ~Entering, NEW i \in Nat
  PROVE  /\ i < NGlobals => Free(i + 1)
         /\ i < argc => ArgSlot(i) + 1 \in 1..(Len(stack) - depth) /\ Free(ArgSlot(i) + 1)
         /\ i < locc => LocalSlot(i) + 1 \in 1..(Len(stack) - depth) /\ Free(LocalSlot(i) + 1)
<1> DEFINE n == Len(frames)
<1>1. TypeOK /\ Stacked /\ Current
  BY DEF Inv, Running
<1>2. frames # <<>> /\ n \in 1..n /\ Len(stack) \in Nat /\ depth \in Nat
  BY <1>1, HasFrame, Lengths DEF TypeOK
<1>3. /\ fp \in Nat /\ argc \in Nat /\ locc \in Nat
      /\ StartOf(frames[n]) = fp - argc /\ EndOf(frames[n]) = fp + 5 + locc
      /\ frames[n].fp = fp
  BY <1>1, <1>2 DEF Current, Innermost, StartOf, EndOf, TypeOK
<1>4. fp - argc >= NGlobals + 7 /\ fp + 5 + locc + depth <= Len(stack)
  BY <1>1, <1>2, <1>3 DEF Stacked, Current, Innermost
<1>5. ASSUME NEW k \in 1..n, NEW m \in 2..5
      PROVE  /\ frames[k].fp + m \in Nat /\ frames[k].fp + m > NGlobals
             /\ frames[k].fp + m <= fp - argc \/ frames[k].fp + m = fp + m
  <2>1. frames[k].fp + m \in Nat /\ frames[k].fp + m > NGlobals + 7 /\ frames[k].fp + m <= EndOf(frames[k])
    BY MetadataPlaces
  <2>2. CASE k = n
    BY <2>1, <2>2, <1>3, StackAssumption
  <2>3. CASE k # n
    <3>1. EndOf(frames[k]) <= fp - argc
      BY <2>3, <1>1, <1>2, <1>3 DEF Stacked
    <3>2. EndOf(frames[k]) \in Nat
      BY <1>1, FrameTypes
    <3> QED
      BY <2>1, <3>1, <3>2, <1>3, StackAssumption, SMTT(20)
  <2> QED
    BY <2>2, <2>3
<1>6. ASSUME i < NGlobals PROVE Free(i + 1)
  <2> SUFFICES ASSUME NEW k \in 1..n, NEW m \in 2..5 PROVE i + 1 # frames[k].fp + m
    BY DEF Free
  <2>1. frames[k].fp + m \in Nat /\ frames[k].fp + m > NGlobals
    BY <1>5
  <2>2. \A x, g \in Nat : x > g /\ i < g => i + 1 # x
    OBVIOUS
  <2> QED
    BY <2>1, <2>2, <1>6, StackAssumption
<1>7. ASSUME i < argc PROVE ArgSlot(i) + 1 \in 1..(Len(stack) - depth) /\ Free(ArgSlot(i) + 1)
  <2>1. ArgSlot(i) + 1 \in 1..(Len(stack) - depth)
    BY <1>2, <1>3, <1>4, <1>7, StackAssumption DEF ArgSlot
  <2>2. ASSUME NEW k \in 1..n, NEW m \in 2..5 PROVE frames[k].fp + m # ArgSlot(i) + 1
    <3> DEFINE p == frames[k].fp + m
    <3>1. p \in Nat /\ (p <= fp - argc \/ p = fp + m)
      BY <1>5
    <3>2. m \in Nat /\ 2 <= m /\ m <= 5
      OBVIOUS
    <3> HIDE DEF p
    <3>3. p # ArgSlot(i) + 1
      BY <1>3, <3>1, <3>2, <1>7 DEF ArgSlot
    <3> QED
      BY <3>3 DEF p
  <2> QED
    BY <2>1, <2>2 DEF Free
<1>8. ASSUME i < locc PROVE LocalSlot(i) + 1 \in 1..(Len(stack) - depth) /\ Free(LocalSlot(i) + 1)
  <2>1. LocalSlot(i) + 1 \in 1..(Len(stack) - depth)
    BY <1>2, <1>3, <1>4, <1>8, StackAssumption DEF LocalSlot
  <2>2. ASSUME NEW k \in 1..n, NEW m \in 2..5 PROVE frames[k].fp + m # LocalSlot(i) + 1
    <3> DEFINE p == frames[k].fp + m
    <3>1. p \in Nat /\ (p <= fp - argc \/ p = fp + m)
      BY <1>5
    <3>2. m \in Nat /\ 2 <= m /\ m <= 5
      OBVIOUS
    <3> HIDE DEF p
    <3>3. p # LocalSlot(i) + 1
      BY <1>3, <3>1, <3>2, <1>8 DEF LocalSlot
    <3> QED
      BY <3>3 DEF p
  <2> QED
    BY <2>1, <2>2 DEF Free
<1> QED
  BY <1>6, <1>7, <1>8

LEMMA LoadingSlot ==
  ASSUME Inv, NEW slot, NEW i, NEW count, NEW what, Load(slot, i, count, what),
         i < count => slot + 1 \in 1..Len(stack)
  PROVE  Inv'
<1>1. TypeOK /\ status = "running" /\ Executing(0)
  BY DEF Inv, Load, Executing
<1>2. CASE Fail(stack)
  BY <1>1, <1>2, Lengths, FailingAsItIs DEF TypeOK
<1>3. CASE i < count /\ Push(At(slot), <<what, i>>)
  <2>1. At(slot) \in Slot
    BY <1>1, <1>3, ElementOfSeq DEF TypeOK, At
  <2> QED
    BY <1>1, <1>3, <2>1, Pushing
<1> QED
  BY <1>2, <1>3 DEF Load

LEMMA Loading ==
  ASSUME Inv, NEW i \in Nat, LoadGlobal(i) \/ LoadArg(i) \/ LoadLocal(i)
  PROVE  Inv'
<1> USE StackAssumption
<1>1. TypeOK /\ status = "running" /\ ~Entering /\ Len(stack) \in Nat /\ depth \in Nat
      /\ Len(stack) >= NGlobals
  <2>1. Executing(0)
    BY DEF LoadGlobal, LoadArg, LoadLocal, Load
  <2>2. TypeOK /\ depth \in Nat
    BY DEF Inv, TypeOK
  <2>3. Len(stack) \in Nat
    BY <2>2, Lengths
  <2> QED
    BY <2>1, <2>2, <2>3 DEF Executing
<1>2. CASE LoadGlobal(i)
  <2>0. i < NGlobals
    BY <1>2 DEF LoadGlobal
  <2>1. i + 1 \in 1..Len(stack)
    BY <1>1, <2>0
  <2> QED
    BY <1>2, <2>1, LoadingSlot DEF LoadGlobal
<1>3. CASE LoadArg(i)
  <2>1. i < argc => ArgSlot(i) + 1 \in 1..Len(stack)
    BY <1>1, VariableSlots
  <2> QED
    BY <1>3, <2>1, LoadingSlot DEF LoadArg
<1>4. CASE LoadLocal(i)
  <2>1. i < locc => LocalSlot(i) + 1 \in 1..Len(stack)
    BY <1>1, VariableSlots
  <2> QED
    BY <1>4, <2>1, LoadingSlot DEF LoadLocal
<1> QED
  BY <1>2, <1>3, <1>4

LEMMA StoringSlot ==
  ASSUME Inv, NEW slot, NEW i, NEW count, NEW what, Store(slot, i, count, what),
         i < count => slot + 1 \in 1..(Len(stack) - 1) /\ Free(slot + 1)
  PROVE  Inv'
<1>1. TypeOK /\ status = "running" /\ ~Entering /\ depth \in Nat /\ depth >= 1 /\ Len(stack) >= 1
      /\ Len(stack) \in Nat
  BY StackAssumption, Lengths DEF Inv, Store, Executing, TypeOK
<1>2. Below(1) \in Seq(Slot) /\ Len(Below(1)) = Len(stack) - 1
      /\ \A j \in 1..(Len(stack) - 1) : Below(1)[j] = stack[j]
  <2>1. 1 \in 0..Len(stack)
    BY <1>1
  <2> QED
    BY <1>1, <2>1, BelowTop
<1>3. CASE Fail(Below(1))
  <2>1. Len(Below(1)) <= MaxStack
    BY <1>1, <1>2, Lengths, StackAssumption
  <2> QED
    BY <1>1, <1>2, <1>3, <2>1, FailingAsItIs
<1>4. CASE /\ i < count /\ stack' = [Below(1) EXCEPT ![slot + 1] = Top(1)]
           /\ depth' = depth - 1 /\ UNCHANGED <<regs, ip, status, frames>>
  <2>1. Top(1) \in Slot
    <3>1. Len(stack) + 1 - 1 \in 1..Len(stack)
      BY <1>1
    <3> QED
      BY <1>1, <3>1, ElementOfSeq DEF TypeOK, Top
  <2>2. slot + 1 \in 1..Len(Below(1))
    BY <1>2, <1>4
  <2>3. stack' \in Seq(Slot) /\ Len(stack') = Len(stack) - 1
        /\ \A j \in 1..(Len(stack) - 1) : stack'[j] = IF j = slot + 1 THEN Top(1) ELSE stack[j]
    BY <1>2, <1>4, <2>1, <2>2, ExceptSeq
  <2>4. ASSUME NEW k \in 1..Len(frames), NEW m \in 2..5
        PROVE  stack'[frames[k].fp + m] = stack[frames[k].fp + m]
    <3>1. frames[k].fp + m \in 1..(Len(stack) - depth)
      BY <1>1, MetadataBelow
    <3>2. frames[k].fp + m # slot + 1
      BY <1>4 DEF Free
    <3>3. \A x, l, d \in Nat : d >= 1 /\ x \in 1..(l - d) => x \in 1..(l - 1)
      OBVIOUS
    <3>4. frames[k].fp + m \in Nat /\ frames[k].fp + m \in 1..(Len(stack) - 1)
      BY <3>1, <3>3, <1>1
    <3> QED
      BY <3>2, <3>4, <2>3
  <2>5. Len(stack') <= MaxStack /\ depth' \in Nat /\ Len(stack') = Len(stack) + depth' - depth
    <3>1. depth' = depth - 1 /\ Len(stack') = Len(stack) - 1
      BY <1>4, <2>3
    <3>2. Len(stack) <= MaxStack
      BY <1>1, Lengths
    <3> QED
      BY <1>1, <3>1, <3>2, StackAssumption
  <2>6. UNCHANGED <<fp, argc, locc, ip, status, frames>>
    BY <1>4 DEF regs
  <2> QED
    BY <1>1, <2>3, <2>4, <2>5, <2>6, Within
<1> QED
  BY <1>3, <1>4 DEF Store

LEMMA Storing ==
  ASSUME Inv, NEW i \in Nat, StoreGlobal(i) \/ StoreArg(i) \/ StoreLocal(i)
  PROVE  Inv'
<1> USE StackAssumption
<1>1. TypeOK /\ status = "running" /\ ~Entering /\ Len(stack) \in Nat /\ depth \in Nat
      /\ Len(stack) >= NGlobals + 1 /\ depth >= 1
  <2>1. Executing(1)
    BY DEF StoreGlobal, StoreArg, StoreLocal, Store
  <2>2. TypeOK /\ depth \in Nat
    BY DEF Inv, TypeOK
  <2>3. Len(stack) \in Nat
    BY <2>2, Lengths
  <2> QED
    BY <2>1, <2>2, <2>3 DEF Executing
<1>2. CASE StoreGlobal(i)
  <2>0. i < NGlobals
    BY <1>2 DEF StoreGlobal
  <2>1. i + 1 \in 1..(Len(stack) - 1) /\ Free(i + 1)
    BY <1>1, <2>0, VariableSlots
  <2> QED
    BY <1>2, <2>1, StoringSlot DEF StoreGlobal
<1>3. CASE StoreArg(i)
  <2>1. i < argc => ArgSlot(i) + 1 \in 1..(Len(stack) - 1) /\ Free(ArgSlot(i) + 1)
    BY <1>1, VariableSlots
  <2> QED
    BY <1>3, <2>1, StoringSlot DEF StoreArg
<1>4. CASE StoreLocal(i)
  <2>1. i < locc => LocalSlot(i) + 1 \in 1..(Len(stack) - 1) /\ Free(LocalSlot(i) + 1)
    BY <1>1, VariableSlots
  <2> QED
    BY <1>4, <2>1, StoringSlot DEF StoreLocal
<1> QED
  BY <1>2, <1>3, <1>4

-----------------------------------------------------------------------------
(* Calls.                                                                  *)

\* Between a call and its BEGIN the arguments are above the caller's temporaries, and
\* the address to return to is above them.
LEMMA BalanceCalling ==
  ASSUME TypeOK, StackBalanced, status = "running", ~Entering,
         NEW f \in Fun, NEW c \in {0, 1}, depth' \in Nat,
         Len(stack') = Len(stack) - c + 1, depth' = depth - (Arity[f] + c),
         ip' = f, UNCHANGED <<status, frames>>
  PROVE  StackBalanced'
<1>1. Len(stack) \in Int /\ depth \in Int /\ Arity[f] \in Int /\ c \in Int
  BY Lengths, FunAssumption DEF TypeOK
<1>2. ASSUME NEW e \in Int, Len(stack) - e = depth
      PROVE  Len(stack') - (1 + Arity[f]) - e = depth'
  <2> DEFINE l == Len(stack)
             m == Len(stack')
             x == depth'
             a == Arity[f]
  <2>1. l \in Int /\ m = l - c + 1 /\ x = depth - (a + c) /\ a \in Int /\ l - e = depth
    BY <1>1, <1>2
  <2> HIDE DEF l, m, x, a
  <2>2. m - (1 + a) - e = x
    BY <2>1, <1>1
  <2> QED
    BY <2>2 DEF l, m, x, a
<1> SUFFICES ASSUME NEW k \in 1..Len(frames)
             PROVE  (TempsEnd(k) - EndOf(frames[k]))' =
                      IF k < Len(frames) THEN frames[k + 1].left ELSE depth'
  BY DEF StackBalanced
<1>3. EndOf(frames[k])' = EndOf(frames[k]) /\ EndOf(frames[k]) \in Int
  BY FrameTypes DEF EndOf
<1>4. CASE k < Len(frames)
  BY <1>4 DEF StackBalanced, TempsEnd, EndOf, StartOf
<1>5. CASE ~(k < Len(frames))
  <2>1. Len(stack) - EndOf(frames[k]) = depth
    BY <1>5 DEF StackBalanced, TempsEnd
  <2>2. TempsEnd(k)' = Len(stack') - (1 + Arity[f])
    BY <1>5 DEF TempsEnd, Entering
  <2>3. Len(stack') - (1 + Arity[f]) - EndOf(frames[k]) = depth'
    BY <1>2, <1>3, <2>1, Zenon
  <2> QED
    BY <1>3, <1>5, <2>2, <2>3
<1> QED
  BY <1>4, <1>5

\* What both calls do: c is 1 if a callable is removed, 0 if there is none.
LEMMA Calling ==
  ASSUME Inv, status = "running", ~Entering,
         NEW f \in Fun, NEW n \in Nat, NEW c \in {0, 1}, NEW r \in Site, depth >= n + c,
         "ArityMatches" \in Discipline => n = Arity[f],
         stack' \in Seq(Slot), Len(stack') = Len(stack) - c + 1, Len(stack') <= MaxStack,
         stack'[Len(stack')] = r, \A j \in 1..(Len(stack) - depth) : stack'[j] = stack[j],
         depth' = depth - (n + c), ip' = f, UNCHANGED <<fp, argc, locc, status, frames>>
  PROVE  Inv'
<1>1. TypeOK /\ Stacked /\ FramesDisjoint /\ Running
  BY DEF Inv
<1>2. depth \in Nat /\ Len(stack) \in Nat /\ depth' \in Nat /\ Len(stack') \in Nat
  <2>1. depth \in Nat /\ Len(stack) \in Nat
    BY <1>1, Lengths DEF TypeOK
  <2> QED
    BY <2>1, LenProperties
<1>3. frames # <<>> /\ Len(frames) \in 1..Len(frames) /\ EndOf(Innermost) \in Nat
  BY <1>1, HasFrame, Lengths, InnermostEndsLast
<1>4. EndOf(Innermost) + depth <= Len(stack)
  BY <1>1, <1>3 DEF Running, Current
<1>5. TypeOK'
  BY <1>1, <1>2 DEF TypeOK
<1>6. Stacked' /\ FramesDisjoint'
  BY <1>1 DEF Stacked, FramesDisjoint, EndOf, StartOf
<1>7. Entering'
  BY DEF Entering
<1>8. ASSUME NEW k \in 1..Len(frames) PROVE MetadataAt(stack, k)'
  <2>1. MetadataAt(stack, k)
    BY <1>1 DEF Running
  <2>2. ASSUME NEW m \in 2..5 PROVE stack'[frames[k].fp + m] = stack[frames[k].fp + m]
    BY MetadataBelow
  <2>3. /\ stack'[frames[k].fp + 2] = stack[frames[k].fp + 2]
        /\ stack'[frames[k].fp + 3] = stack[frames[k].fp + 3]
        /\ stack'[frames[k].fp + 4] = stack[frames[k].fp + 4]
        /\ stack'[frames[k].fp + 5] = stack[frames[k].fp + 5]
    BY <2>2, 2 \in 2..5, 3 \in 2..5, 4 \in 2..5, 5 \in 2..5
  <2> QED
    BY <2>1, <2>3 DEF MetadataAt
<1>9. Current'
  <2>1. Innermost' = Innermost /\ EndOf(Innermost)' = EndOf(Innermost)
    BY DEF Innermost, EndOf
  <2>2. EndOf(Innermost) + depth' <= Len(stack') - 1
    BY <1>2, <1>3, <1>4
  <2> QED
    BY <2>1, <2>2, <1>1, <1>3, <1>7 DEF Running, Current
<1>10. Starting'
  BY <1>3 DEF Starting
<1>11. Returns'
  <2>1. Len(stack') > 0 /\ Len(stack') + 1 - 1 = Len(stack')
    BY <1>2, <1>3, <1>4
  <2> QED
    BY <2>1 DEF Returns, Top
<1>12. ASSUME "ArityMatches" \in Discipline PROVE StackBalanced'
  <2>1. StackBalanced /\ n = Arity[f]
    BY <1>12 DEF Inv
  <2> QED
    BY <2>1, <1>1, <1>2, BalanceCalling
<1> QED
  BY <1>1, <1>5, <1>6, <1>8, <1>9, <1>10, <1>11, <1>12 DEF Inv, Running

LEMMA CallKeeps ==
  ASSUME Inv, NEW f \in Callable, NEW n \in Nat, NEW r \in Site, Call(f, n, r)
  PROVE  Inv'
<1>1. TypeOK /\ status = "running" /\ ~Entering /\ depth >= n /\ depth \in Nat /\ f \in Fun
  BY DEF Inv, Call, Executing, TypeOK, Callable
<1>2. Len(stack) \in Nat /\ Len(stack) <= MaxStack /\ stack \in Seq(Slot)
  BY <1>1, Lengths DEF TypeOK
<1>3. CASE Fail(stack)
  BY <1>1, <1>2, <1>3, FailingAsItIs
<1>4. CASE /\ Len(stack) < MaxStack
           /\ stack' = Append(stack, r) /\ ip' = f /\ depth' = depth - n
           /\ UNCHANGED <<regs, status, frames>>
  <2>1. r \in Slot
    BY DEF Slot
  <2>2. stack' \in Seq(Slot) /\ Len(stack') = Len(stack) + 1 /\ stack'[Len(stack) + 1] = r
        /\ \A j \in 1..Len(stack) : stack'[j] = stack[j]
    BY <1>2, <1>4, <2>1
  <2>3. Len(stack') = Len(stack) - 0 + 1 /\ Len(stack') <= MaxStack
        /\ depth' = depth - (n + 0) /\ depth >= n + 0
    BY <1>1, <1>2, <1>4, <2>2, StackAssumption
  <2>4. \A j \in 1..(Len(stack) - depth) : stack'[j] = stack[j]
    BY <1>1, <1>2, <2>2
  <2>5. "ArityMatches" \in Discipline => n = Arity[f]
    BY DEF Call
  <2>6. UNCHANGED <<fp, argc, locc, status, frames>> /\ stack'[Len(stack')] = r
    BY <1>4, <2>2 DEF regs
  <2> QED
    BY <1>1, <1>4, <2>2, <2>3, <2>4, <2>5, <2>6, 0 \in {0, 1}, Calling
<1> QED
  BY <1>3, <1>4 DEF Call

\* The stack without the callable below the n arguments, and the address to return to.
WithoutCallable(n, r) == Append(Below(n + 1) \o Operands(n), r)

LEMMA CallableRemoved ==
  ASSUME TypeOK, NEW n \in Nat, n + 1 <= Len(stack), NEW r \in Slot
  PROVE  /\ WithoutCallable(n, r) \in Seq(Slot) /\ Len(WithoutCallable(n, r)) = Len(stack)
         /\ WithoutCallable(n, r)[Len(stack)] = r
         /\ \A j \in 1..(Len(stack) - (n + 1)) : WithoutCallable(n, r)[j] = stack[j]
         /\ \A j \in 1..n : WithoutCallable(n, r)[Len(stack) - (n + 1) + j] = stack[Len(stack) - n + j]
<1> DEFINE l == Len(stack)
           m == l - (n + 1)
           lower == Below(n + 1)
           upper == Operands(n)
           front == lower \o upper
           whole == Append(front, r)
<1>1. l \in Nat /\ m \in Nat /\ stack \in Seq(Slot) /\ l = m + n + 1
  BY Lengths DEF TypeOK
<1>2. lower \in Seq(Slot) /\ Len(lower) = m /\ \A j \in 1..m : lower[j] = stack[j]
  <2>1. n + 1 \in 0..Len(stack)
    BY <1>1
  <2> QED
    BY <2>1, BelowTop
<1>3. upper = SubSeq(stack, l + 1 - n, l)
  BY DEF Operands
<1>4. whole = WithoutCallable(n, r)
  BY DEF WithoutCallable
<1>5. \A i \in 1..l : stack[i] \in Slot
  BY <1>1, ElementOfSeq
<1> HIDE DEF l, m, lower, upper, front, whole
<1>6. upper \in Seq(Slot) /\ Len(upper) = n /\ \A j \in 1..n : upper[j] = stack[l - n + j]
  <2> DEFINE b == l + 1 - n
  <2>1. b \in Int /\ l \in Int /\ b <= l + 1 /\ l - b + 1 = n /\ l - n = b - 1 /\ \A j \in b..l : j \in 1..l
    BY <1>1
  <2>2. upper = SubSeq(stack, b, l)
    BY <1>3
  <2> HIDE DEF b
  <2>3. \A j \in b..l : stack[j] \in Slot
    BY <2>1, <1>5
  <2>4. /\ upper \in Seq(Slot) /\ Len(upper) = (IF b <= l THEN l - b + 1 ELSE 0)
        /\ \A j \in 1..(l - b + 1) : upper[j] = stack[b + j - 1]
    BY <2>1, <2>2, <2>3, SubSeqProperties
  <2>5. Len(upper) = n
    BY <2>1, <2>4
  <2>6. ASSUME NEW j \in 1..n PROVE upper[j] = stack[l - n + j]
    <3>1. j \in 1..(l - b + 1) /\ b + j - 1 = l - n + j
      BY <2>1
    <3> QED
      BY <3>1, <2>4
  <2> QED
    BY <2>4, <2>5, <2>6
<1>7. /\ front \in Seq(Slot) /\ Len(front) = m + n
      /\ \A j \in 1..(m + n) : front[j] = IF j <= m THEN lower[j] ELSE upper[j - m]
  <2>1. lower \in Seq(Slot) /\ upper \in Seq(Slot)
    BY <1>2, <1>6
  <2>2. /\ front \in Seq(Slot) /\ Len(front) = Len(lower) + Len(upper)
        /\ \A j \in 1..(Len(lower) + Len(upper)) :
             front[j] = IF j <= Len(lower) THEN lower[j] ELSE upper[j - Len(lower)]
    BY <2>1, ConcatProperties, SMTT(30) DEF front
  <2>3. Len(lower) = m /\ Len(upper) = n
    BY <1>2, <1>6
  <2> QED
    BY <2>2, <2>3
<1>8. m + n + 1 = l /\ m + n \in Nat
  BY <1>1
<1>9. /\ whole \in Seq(Slot) /\ Len(whole) = l /\ whole[l] = r
      /\ \A j \in 1..(m + n) : whole[j] = front[j]
  <2>1. /\ whole \in Seq(Slot) /\ Len(whole) = Len(front) + 1 /\ whole[Len(front) + 1] = r
        /\ \A j \in 1..Len(front) : whole[j] = front[j]
    <3>1. front \in Seq(Slot) /\ r \in Slot
      BY <1>7
    <3> QED
      BY <3>1, AppendProperties DEF whole
  <2> QED
    BY <2>1, <1>7, <1>8
<1>10. ASSUME NEW j \in 1..m PROVE whole[j] = stack[j]
  <2>1. j \in 1..(m + n) /\ j <= m
    BY <1>1
  <2> QED
    BY <2>1, <1>2, <1>7, <1>9
<1>11. ASSUME NEW j \in 1..n PROVE whole[m + j] = stack[l - n + j]
  <2> DEFINE i == m + j
  <2>1. i \in 1..(m + n) /\ ~(i <= m) /\ i - m = j
    BY <1>1
  <2> HIDE DEF i
  <2>2. whole[i] = upper[j]
    BY <2>1, <1>7, <1>9
  <2> QED
    BY <2>2, <1>6 DEF i
<1> QED
  BY <1>4, <1>9, <1>10, <1>11 DEF l, m

LEMMA CallClosureKeeps ==
  ASSUME Inv, NEW n \in Nat, NEW r \in Site, CallClosure(n, r)
  PROVE  Inv'
<1>1. TypeOK /\ status = "running" /\ ~Entering /\ depth >= n + 1 /\ depth \in Nat
      /\ Len(stack) >= NGlobals + (n + 1)
  BY DEF Inv, CallClosure, Executing, TypeOK
<1>2. Len(stack) \in Nat /\ Len(stack) <= MaxStack /\ stack \in Seq(Slot)
  BY <1>1, Lengths DEF TypeOK
<1>3. CASE Fail(stack)
  BY <1>1, <1>2, <1>3, FailingAsItIs
<1>4. CASE /\ Top(n + 1) \in Fun /\ Arity[Top(n + 1)] = n
           /\ stack' = Append(Below(n + 1) \o Operands(n), r)
           /\ ip' = Top(n + 1) /\ depth' = depth - (n + 1)
           /\ UNCHANGED <<regs, status, frames>>
  <2>1. r \in Slot /\ n + 1 <= Len(stack)
    BY <1>1, <1>2, StackAssumption DEF Slot
  <2>2. stack' = WithoutCallable(n, r)
    BY <1>4 DEF WithoutCallable
  <2>3. /\ stack' \in Seq(Slot) /\ Len(stack') = Len(stack) /\ stack'[Len(stack)] = r
        /\ \A j \in 1..(Len(stack) - (n + 1)) : stack'[j] = stack[j]
    BY <1>1, <2>1, <2>2, CallableRemoved
  <2>4. \A j \in 1..(Len(stack) - depth) : stack'[j] = stack[j]
    <3>1. \A j \in 1..(Len(stack) - depth) : j \in 1..(Len(stack) - (n + 1))
      BY <1>1, <1>2
    <3> QED
      BY <3>1, <2>3
  <2>5. Len(stack') = Len(stack) - 1 + 1 /\ Len(stack') <= MaxStack /\ stack'[Len(stack')] = r
    BY <1>2, <2>3
  <2>6. UNCHANGED <<fp, argc, locc, status, frames>>
    BY <1>4 DEF regs
  <2> QED
    BY <1>1, <1>4, <2>3, <2>4, <2>5, <2>6, 1 \in {0, 1}, Calling
<1> QED
  BY <1>3, <1>4 DEF CallClosure

-----------------------------------------------------------------------------
(* BEGIN.                                                                  *)

Zeros(f) == [i \in 1..Locals[f] |-> 0]
Full(f) == Below(1) \o Metadata(f, Top(1)) \o Zeros(f)

\* The stack with a frame on it, and where the words of its metadata are.
LEMMA FullStack ==
  ASSUME TypeOK, NEW f \in Fun, Len(stack) > 0
  PROVE  /\ Top(1) \in Slot /\ Full(f) \in Seq(Slot) /\ Len(Full(f)) = Len(stack) + 4 + Locals[f]
         /\ \A j \in 1..(Len(stack) - 1) : Full(f)[j] = stack[j]
         /\ Full(f)[Len(stack) + 1] = Arity[f] /\ Full(f)[Len(stack) + 2] = Locals[f]
         /\ Full(f)[Len(stack) + 3] = fp /\ Full(f)[Len(stack) + 4] = Top(1)
         /\ \A j \in 1..Locals[f] : Full(f)[Len(stack) + 4 + j] = 0
<1> DEFINE n == Len(stack)
           lower == Below(1)
           middle == Metadata(f, Top(1))
           upper == Zeros(f)
<1>1. n \in Nat \ {0} /\ Arity[f] \in Nat /\ Locals[f] \in Nat /\ fp \in Nat
  BY Lengths, FunAssumption DEF TypeOK
<1>2. Top(1) \in Slot
  <2>1. n + 1 - 1 \in 1..n
    BY <1>1
  <2> QED
    BY <2>1, ElementOfSeq DEF TypeOK, Top
<1>3. lower \in Seq(Slot) /\ Len(lower) = n - 1 /\ \A j \in 1..(n - 1) : lower[j] = stack[j]
  <2>1. 1 \in 0..n
    BY <1>1
  <2> QED
    BY <2>1, BelowTop
<1>4. /\ middle \in Seq(Slot) /\ Len(middle) = 5
      /\ middle[2] = Arity[f] /\ middle[3] = Locals[f] /\ middle[4] = fp /\ middle[5] = Top(1)
  <2>1. 0 \in Slot /\ Arity[f] \in Slot /\ Locals[f] \in Slot /\ fp \in Slot
    BY <1>1 DEF Slot
  <2> QED
    BY <1>2, <2>1 DEF Metadata
<1>5. upper \in Seq(Slot) /\ Len(upper) = Locals[f] /\ \A j \in 1..Locals[f] : upper[j] = 0
  <2>1. 0 \in Slot
    BY DEF Slot
  <2>2. upper \in [1..Locals[f] -> Slot]
    BY <2>1 DEF Zeros
  <2> QED
    BY <2>2, <1>1 DEF Zeros
<1> HIDE DEF n, lower, middle, upper
<1>6. /\ lower \o middle \in Seq(Slot) /\ Len(lower \o middle) = n + 4
      /\ \A j \in 1..(n + 4) : (lower \o middle)[j] = IF j <= n - 1 THEN lower[j] ELSE middle[j - (n - 1)]
  <2>1. /\ lower \o middle \in Seq(Slot) /\ Len(lower \o middle) = Len(lower) + Len(middle)
        /\ \A j \in 1..(Len(lower) + Len(middle)) :
             (lower \o middle)[j] = IF j <= Len(lower) THEN lower[j] ELSE middle[j - Len(lower)]
    BY <1>3, <1>4, ConcatProperties
  <2>2. Len(lower) + Len(middle) = n + 4
    BY <1>1, <1>3, <1>4
  <2> QED
    BY <2>1, <2>2, <1>3
<1> DEFINE both == lower \o middle
<1>7. both \in Seq(Slot) /\ Len(both) = n + 4
  BY <1>6
<1>8. /\ \A j \in 1..(n - 1) : both[j] = stack[j]
      /\ both[n + 1] = Arity[f] /\ both[n + 2] = Locals[f]
      /\ both[n + 3] = fp /\ both[n + 4] = Top(1)
  <2>1. ASSUME NEW j \in 1..(n - 1) PROVE both[j] = stack[j]
    <3>1. j \in 1..(n + 4) /\ j <= n - 1
      BY <1>1
    <3> QED
      BY <3>1, <1>3, <1>6
  <2>2. ASSUME NEW i \in 2..5 PROVE both[n - 1 + i] = middle[i]
    <3> DEFINE j == n - 1 + i
    <3>1. j \in 1..(n + 4) /\ ~(j <= n - 1) /\ j - (n - 1) = i
      <4>1. \A l \in Nat : l > 0 =>
              l - 1 + i \in 1..(l + 4) /\ ~(l - 1 + i <= l - 1) /\ l - 1 + i - (l - 1) = i
        OBVIOUS
      <4>2. n \in Nat /\ n > 0
        BY <1>1
      <4> HIDE DEF n
      <4> QED
        BY <4>1, <4>2
    <3> HIDE DEF j
    <3>2. (lower \o middle)[j] = middle[j - (n - 1)]
      BY <3>1, <1>6
    <3> QED
      BY <3>1, <3>2 DEF j
  <2>3. n - 1 + 2 = n + 1 /\ n - 1 + 3 = n + 2 /\ n - 1 + 4 = n + 3 /\ n - 1 + 5 = n + 4
    <3>1. n \in Int
      BY <1>1
    <3> HIDE DEF n
    <3> QED
      BY <3>1
  <2>4. both[n - 1 + 2] = middle[2] /\ both[n - 1 + 3] = middle[3]
        /\ both[n - 1 + 4] = middle[4] /\ both[n - 1 + 5] = middle[5]
    BY <2>2, 2 \in 2..5, 3 \in 2..5, 4 \in 2..5, 5 \in 2..5
  <2> QED
    BY <2>1, <2>3, <2>4, <1>4
<1> HIDE DEF both
<1>9. /\ both \o upper \in Seq(Slot) /\ Len(both \o upper) = n + 4 + Locals[f]
      /\ \A j \in 1..(n + 4) : (both \o upper)[j] = both[j]
      /\ \A j \in 1..Locals[f] : (both \o upper)[n + 4 + j] = 0
  <2>1. /\ both \o upper \in Seq(Slot) /\ Len(both \o upper) = Len(both) + Len(upper)
        /\ \A j \in 1..(Len(both) + Len(upper)) :
             (both \o upper)[j] = IF j <= Len(both) THEN both[j] ELSE upper[j - Len(both)]
    BY <1>5, <1>7, ConcatProperties
  <2>2. \A j \in 1..(n + 4) : j \in 1..(Len(both) + Len(upper)) /\ j <= Len(both)
    BY <1>1, <1>5, <1>7
  <2>3. ASSUME NEW j \in 1..Locals[f] PROVE (both \o upper)[n + 4 + j] = 0
    <3> DEFINE i == n + 4 + j
    <3>1. i \in 1..(Len(both) + Len(upper)) /\ ~(i <= Len(both)) /\ i - Len(both) = j
      BY <1>1, <1>5, <1>7
    <3> HIDE DEF i
    <3>2. (both \o upper)[i] = upper[j]
      BY <2>1, <3>1
    <3> QED
      BY <3>2, <1>5 DEF i
  <2> QED
    BY <2>1, <2>2, <2>3, <1>5, <1>7
<1>10. Full(f) = both \o upper
  BY DEF Full, both, lower, middle, upper
<1>11. /\ \A j \in 1..(n - 1) : j \in 1..(n + 4)
       /\ n + 1 \in 1..(n + 4) /\ n + 2 \in 1..(n + 4) /\ n + 3 \in 1..(n + 4) /\ n + 4 \in 1..(n + 4)
  BY <1>1
<1> QED
  BY <1>2, <1>8, <1>9, <1>10, <1>11 DEF n

\* Whether the arguments of the callee are its own.
OwnArguments == Len(stack) - 1 - Arity[ip] >= FrameEnd + depth

LEMMA ArgumentsMatch ==
  ASSUME Inv, status = "running", Entering, "ArityMatches" \in Discipline
  PROVE  OwnArguments
<1>1. TypeOK /\ StackBalanced /\ Current /\ Starting
  BY DEF Inv, Running
<1>2. Len(stack) \in Nat /\ fp \in Nat /\ locc \in Nat /\ depth \in Nat /\ Arity[ip] \in Nat
  BY <1>1, Lengths, FunAssumption DEF TypeOK, Entering
<1>3. CASE frames = <<>>
  <2>1. ip = Main /\ fp = NGlobals /\ locc = 0 /\ depth = 0 /\ Len(stack) = NGlobals + 8
    BY <1>1, <1>3 DEF Starting
  <2>2. Arity[ip] = 0
    BY <2>1, FunAssumption
  <2>3. FrameEnd = NGlobals + 5
    BY <2>1, StackAssumption DEF FrameEnd
  <2> QED
    BY <2>1, <2>2, <2>3, StackAssumption DEF OwnArguments
<1>4. CASE frames # <<>>
  <2>1. Len(frames) \in 1..Len(frames)
    BY <1>1, <1>4, Lengths
  <2>2. EndOf(frames[Len(frames)]) = FrameEnd /\ FrameEnd \in Nat
    BY <1>1, <1>2, <1>4, SMTT(30) DEF Current, Innermost, EndOf, FrameEnd
  <2>3. TempsEnd(Len(frames)) - EndOf(frames[Len(frames)]) = depth
    BY <1>1, <2>1 DEF StackBalanced
  <2>4. TempsEnd(Len(frames)) = Len(stack) - (1 + Arity[ip])
    BY <2>1 DEF TempsEnd
  <2> QED
    BY <2>2, <2>3, <2>4, <1>2 DEF OwnArguments
<1> QED
  BY <1>3, <1>4

\* A new frame is above all others.
LEMMA NewFrameAbove ==
  ASSUME Inv, status = "running", Entering, OwnArguments
  PROVE  /\ Len(stack) - 1 - Arity[ip] >= NGlobals + 7
         /\ \A k \in 1..Len(frames) : EndOf(frames[k]) + depth <= Len(stack) - 1 - Arity[ip]
<1>1. TypeOK /\ Stacked /\ Current /\ Starting
  BY DEF Inv, Running
<1>2. Len(stack) \in Nat /\ fp \in Nat /\ locc \in Nat /\ depth \in Nat /\ Arity[ip] \in Nat
  BY <1>1, Lengths, FunAssumption DEF TypeOK, Entering
<1>3. CASE frames = <<>>
  <2>1. ip = Main /\ Len(stack) = NGlobals + 8 /\ Len(frames) = 0
    BY <1>1, <1>3, EmptySeq DEF Starting
  <2>2. Arity[ip] = 0
    BY <2>1, FunAssumption
  <2> QED
    BY <2>1, <2>2, StackAssumption
<1>4. CASE frames # <<>>
  <2>1. Len(frames) \in 1..Len(frames)
    BY <1>1, <1>4, Lengths
  <2>2. EndOf(Innermost) = FrameEnd /\ FrameEnd \in Nat
    BY <1>1, <1>2, <1>4 DEF Current, Innermost, EndOf, FrameEnd
  <2>3. FrameEnd >= NGlobals + 7
    <3>1. /\ StartOf(Innermost) >= NGlobals + 7 /\ StartOf(Innermost) <= Innermost.fp
          /\ EndOf(Innermost) >= Innermost.fp + 5 /\ Innermost.fp \in Nat
          /\ StartOf(Innermost) \in Int
      BY <1>1, <2>1, FrameTypes DEF Innermost, Stacked
    <3> QED
      BY <2>2, <3>1, StackAssumption
  <2>4. ASSUME NEW k \in 1..Len(frames)
        PROVE  EndOf(frames[k]) + depth <= Len(stack) - 1 - Arity[ip]
    <3>1. EndOf(frames[k]) <= FrameEnd /\ EndOf(frames[k]) \in Nat
      BY <2>2, <1>1, InnermostEndsLast, FrameTypes
    <3> QED
      BY <3>1, <2>2, <1>2 DEF OwnArguments
  <2> QED
    BY <2>2, <2>3, <2>4, <1>2, StackAssumption DEF OwnArguments
<1> QED
  BY <1>3, <1>4

\* BEGIN that puts a frame on the stack.
Opens ==
  /\ fp' = Len(stack) - 1 /\ argc' = Arity[ip] /\ locc' = Locals[ip]
  /\ Len(Full(ip)) <= MaxStack
  /\ stack' = Full(ip) /\ ip' = Body /\ depth' = 0
  /\ status' = IF fp' - Arity[ip] >= FrameEnd + depth THEN status ELSE "overlap"
  /\ frames' = Append(frames,
       [fun |-> ip, fp |-> Len(stack) - 1, ret |-> Top(1), left |-> depth])

LEMMA OpeningTypes ==
  ASSUME Inv, status = "running", Entering, Opens
  PROVE  /\ TypeOK'
         /\ Len(stack) \in Nat \ {0} /\ depth \in Nat /\ fp \in Nat
         /\ Arity[ip] \in Nat /\ Locals[ip] \in Nat
         /\ Len(frames) \in Nat /\ Len(frames') = Len(frames) + 1
         /\ \A k \in 1..Len(frames) : frames'[k] = frames[k]
         /\ frames'[Len(frames) + 1] =
              [fun |-> ip, fp |-> Len(stack) - 1, ret |-> Top(1), left |-> depth]
<1> DEFINE w == [fun |-> ip, fp |-> Len(stack) - 1, ret |-> Top(1), left |-> depth]
<1>1. TypeOK /\ Returns /\ ip \in Fun
  BY DEF Inv, Running, Entering
<1>2. Len(stack) \in Nat \ {0} /\ depth \in Nat /\ fp \in Nat /\ Top(1) \in Site \cup {0}
  BY <1>1, Lengths DEF Returns, TypeOK
<1>3. Arity[ip] \in Nat /\ Locals[ip] \in Nat
  BY <1>1, FunAssumption
<1>4. w \in Frame
  BY <1>1, <1>2 DEF Frame
<1>5. frames \in Seq(Frame) /\ frames' = Append(frames, w)
  BY <1>1 DEF TypeOK, Opens
<1> HIDE DEF w
<1>6. /\ frames' \in Seq(Frame) /\ Len(frames) \in Nat /\ Len(frames') = Len(frames) + 1
      /\ \A k \in 1..Len(frames) : frames'[k] = frames[k]
      /\ frames'[Len(frames) + 1] = w
  BY <1>4, <1>5
<1>7. stack' \in Seq(Slot) /\ Len(stack') <= MaxStack
  BY <1>1, <1>2, FullStack DEF Opens
<1>8. fp' \in Nat /\ argc' \in Nat /\ locc' \in Nat /\ depth' \in Nat /\ ip' = Body
      /\ status' \in {"running", "overlap"}
  BY <1>2, <1>3 DEF Opens
<1>9. TypeOK'
  BY <1>6, <1>7, <1>8 DEF TypeOK, Terminal
<1> QED
  BY <1>2, <1>3, <1>6, <1>9 DEF w

LEMMA Opening ==
  ASSUME Inv, status = "running", Entering, Opens
  PROVE  Inv'
<1> DEFINE n == Len(frames)
           w == [fun |-> ip, fp |-> Len(stack) - 1, ret |-> Top(1), left |-> depth]
<1>1. TypeOK /\ Stacked /\ FramesDisjoint /\ Running /\ ip \in Fun
  BY DEF Inv, Entering
<1>2. /\ TypeOK' /\ Len(stack) \in Nat \ {0} /\ depth \in Nat /\ fp \in Nat
      /\ Arity[ip] \in Nat /\ Locals[ip] \in Nat
      /\ n \in Nat /\ Len(frames') = n + 1
      /\ \A k \in 1..n : frames'[k] = frames[k]
      /\ frames'[n + 1] = w
  BY OpeningTypes
<1>3. status' = IF OwnArguments THEN "running" ELSE "overlap"
  BY DEF Opens, OwnArguments
<1>4. "ArityMatches" \in Discipline => OwnArguments
  BY ArgumentsMatch
<1>5. CASE ~OwnArguments
  BY <1>2, <1>3, <1>4, <1>5 DEF Inv
<1>6. CASE OwnArguments
  <2>1. /\ Len(stack) - 1 - Arity[ip] >= NGlobals + 7
        /\ \A k \in 1..n : EndOf(frames[k]) + depth <= Len(stack) - 1 - Arity[ip]
    BY <1>6, NewFrameAbove
  <2>2. StartOf(w) = Len(stack) - 1 - Arity[ip] /\ EndOf(w) = Len(stack) + 4 + Locals[ip]
        /\ w.fp = Len(stack) - 1 /\ w.fun = ip /\ w.ret = Top(1) /\ w.left = depth
    BY <1>2 DEF StartOf, EndOf
  <2> HIDE DEF w
  <2>3. \A k \in 1..(n + 1) : k \in 1..n \/ k = n + 1
    BY <1>2
  <2>4. \A k \in 1..n : EndOf(frames[k]) \in Nat /\ StartOf(frames[k]) \in Int
    BY <1>1, FrameTypes
  <2>5. Stacked'
    <3> SUFFICES ASSUME NEW k \in 1..(n + 1)
                 PROVE  /\ StartOf(frames'[k]) >= NGlobals + 7
                        /\ \A j \in 1..(n + 1) : j < k => EndOf(frames'[j]) <= StartOf(frames'[k])
      BY <1>2 DEF Stacked, StartOf, EndOf
    <3>1. CASE k \in 1..n
      <4>1. \A j \in 1..(n + 1) : j < k => j \in 1..n
        BY <1>2, <3>1
      <4> QED
        BY <3>1, <4>1, <1>1, <1>2 DEF Stacked
    <3>2. CASE k = n + 1
      <4>1. \A j \in 1..(n + 1) : j < k => j \in 1..n
        BY <1>2, <3>2
      <4>2. \A j \in 1..n : EndOf(frames'[j]) <= StartOf(w)
        <5> TAKE j \in 1..n
        <5>1. EndOf(frames[j]) + depth <= StartOf(w) /\ frames'[j] = frames[j]
          BY <2>1, <2>2, <1>2
        <5>2. EndOf(frames[j]) \in Nat /\ depth \in Nat /\ StartOf(w) \in Int
          BY <2>2, <2>4, <1>2
        <5> QED
          BY <5>1, <5>2, Z3
      <4> QED
        BY <3>2, <4>1, <4>2, <2>1, <2>2, <1>2
    <3> QED
      BY <2>3, <3>1, <3>2
  <2>6. FramesDisjoint'
    <3> SUFFICES ASSUME NEW k \in 1..(n + 1)
                 PROVE  StartOf(frames'[k]) >=
                          (IF k = 1 THEN NGlobals + 7 ELSE EndOf(frames'[k - 1])) + frames'[k].left
      BY <1>2 DEF FramesDisjoint, StartOf, EndOf
    <3>1. CASE k \in 1..n
      <4>1. k # 1 => k - 1 \in 1..n
        BY <1>2, <3>1
      <4> QED
        BY <3>1, <4>1, <1>1, <1>2 DEF FramesDisjoint
    <3>2. CASE k = n + 1 /\ n = 0
      <4>1. depth = 0 /\ frames = <<>> /\ Len(stack) = NGlobals + 8 /\ ip = Main
        <5>1. frames = <<>>
          BY <1>1, <3>2, EmptySeq DEF TypeOK
        <5> QED
          BY <1>1, <5>1 DEF Running, Starting
      <4>2. NGlobals + 7 + w.left = NGlobals + 7
        BY <4>1, <2>2, StackAssumption
      <4> QED
        BY <3>2, <4>2, <2>1, <2>2, <1>2
    <3>3. CASE k = n + 1 /\ n # 0
      <4>1. k - 1 = n /\ n \in 1..n /\ k # 1
        BY <1>2, <3>3
      <4> QED
        BY <3>3, <4>1, <2>1, <2>2, <1>2
    <3> QED
      BY <2>3, <3>1, <3>2, <3>3
  <2>7. status' = "running" /\ ~Entering'
    BY <1>3, <1>6, ValueAssumption DEF Opens, Entering
  <2>8. /\ \A j \in 1..(Len(stack) - 1) : stack'[j] = stack[j]
        /\ stack'[Len(stack) + 1] = Arity[ip] /\ stack'[Len(stack) + 2] = Locals[ip]
        /\ stack'[Len(stack) + 3] = fp /\ stack'[Len(stack) + 4] = Top(1)
        /\ Len(stack') = Len(stack) + 4 + Locals[ip]
    <3>1. stack' = Full(ip)
      BY DEF Opens
    <3>2. Len(stack) > 0
      BY <1>2
    <3>3. /\ \A j \in 1..(Len(stack) - 1) : Full(ip)[j] = stack[j]
          /\ Full(ip)[Len(stack) + 1] = Arity[ip] /\ Full(ip)[Len(stack) + 2] = Locals[ip]
          /\ Full(ip)[Len(stack) + 3] = fp /\ Full(ip)[Len(stack) + 4] = Top(1)
          /\ Len(Full(ip)) = Len(stack) + 4 + Locals[ip]
      BY <1>1, <3>2, FullStack
    <3> QED
      BY <3>1, <3>3
  <2>9. ASSUME NEW k \in 1..n PROVE MetadataAt(stack, k)'
    <3>1. MetadataAt(stack, k)
      BY <1>1 DEF Running
    <3>2. ASSUME NEW m \in 2..5 PROVE stack'[frames[k].fp + m] = stack[frames[k].fp + m]
      <4>1. frames[k].fp + m \in Nat /\ frames[k].fp + m > NGlobals + 7
            /\ frames[k].fp + m <= EndOf(frames[k])
        BY MetadataPlaces
      <4>2. frames[k].fp + m \in 1..(Len(stack) - 1)
        <5> DEFINE p == frames[k].fp + m
                   e == EndOf(frames[k])
        <5>1. e + depth <= Len(stack) - 1 - Arity[ip] /\ e \in Nat /\ p \in Nat /\ p > NGlobals + 7 /\ p <= e
          BY <4>1, <2>1, <2>4
        <5> HIDE DEF p, e
        <5>2. p \in 1..(Len(stack) - 1)
          BY <5>1, <1>2, StackAssumption
        <5> QED
          BY <5>2 DEF p
      <4> QED
        BY <4>2, <2>8
    <3>3. /\ stack'[frames[k].fp + 2] = stack[frames[k].fp + 2]
          /\ stack'[frames[k].fp + 3] = stack[frames[k].fp + 3]
          /\ stack'[frames[k].fp + 4] = stack[frames[k].fp + 4]
          /\ stack'[frames[k].fp + 5] = stack[frames[k].fp + 5]
      BY <3>2, 2 \in 2..5, 3 \in 2..5, 4 \in 2..5, 5 \in 2..5
    <3>4. frames'[k] = frames[k] /\ (k # 1 => frames'[k - 1] = frames[k - 1])
      <4>1. k # 1 => k - 1 \in 1..n
        BY <1>2
      <4> QED
        BY <4>1, <1>2
    <3> QED
      BY <3>1, <3>3, <3>4 DEF MetadataAt
  <2>10. ASSUME NEW k, k = n + 1 PROVE MetadataAt(stack, k)'
    <3>1. fp = IF n + 1 = 1 THEN NGlobals ELSE frames'[n + 1 - 1].fp
      <4>1. CASE n = 0
        <5>1. frames = <<>>
          BY <1>1, <4>1, EmptySeq DEF TypeOK
        <5> QED
          BY <5>1, <4>1, <1>1 DEF Running, Starting
      <4>2. CASE n # 0
        <5>1. n \in 1..n /\ n + 1 - 1 = n /\ n + 1 # 1
          BY <1>2, <4>2
        <5>2. frames # <<>>
          BY <4>2, EmptySeq
        <5> QED
          BY <5>1, <5>2, <1>1, <1>2 DEF Running, Current, Innermost
      <4> QED
        BY <4>1, <4>2
    <3>2. w.fp + 2 = Len(stack) + 1 /\ w.fp + 3 = Len(stack) + 2
          /\ w.fp + 4 = Len(stack) + 3 /\ w.fp + 5 = Len(stack) + 4
      BY <1>2, <2>2
    <3>3. /\ stack'[w.fp + 2] = Arity[w.fun] /\ stack'[w.fp + 3] = Locals[w.fun]
          /\ stack'[w.fp + 4] = fp /\ stack'[w.fp + 5] = w.ret
      BY <3>2, <2>2, <2>8
    <3> QED
      BY <3>1, <3>3, <1>2, <2>10 DEF MetadataAt
  <2>11. \A k \in 1..Len(frames') : MetadataAt(stack, k)'
    BY <1>2, <2>3, <2>9, <2>10
  <2>12. Current'
    <3>1. Innermost' = w
      BY <1>2 DEF Innermost
    <3>2. EndOf(w) + depth' <= Len(stack')
      BY <1>2, <2>2, <2>8 DEF Opens
    <3>3. fp' = w.fp /\ argc' = Arity[w.fun] /\ locc' = Locals[w.fun]
      BY <2>2 DEF Opens
    <3>4. EndOf(Innermost)' = EndOf(w)
      BY <3>1 DEF EndOf
    <3>5. EndOf(w) + depth' <= Len(stack') - 0
      BY <3>2, <1>2, <2>8
    <3> QED
      BY <3>1, <3>3, <3>4, <3>5, <2>7 DEF Current
  <2>13. Starting' /\ Returns'
    <3>1. frames' # <<>>
      BY <1>2, EmptySeq
    <3> QED
      BY <3>1, <2>7 DEF Starting, Returns
  <2>14. ASSUME "ArityMatches" \in Discipline PROVE StackBalanced'
    <3>1. StackBalanced
      BY <2>14 DEF Inv
    <3> SUFFICES ASSUME NEW k \in 1..(n + 1)
                 PROVE  (TempsEnd(k) - EndOf(frames[k]))' =
                          IF k < n + 1 THEN frames'[k + 1].left ELSE depth'
      BY <1>2 DEF StackBalanced
    <3>2. CASE k \in 1..n /\ k < n
      <4>1. k + 1 \in 1..n /\ k < n + 1
        BY <1>2, <3>2
      <4>2. StartOf(frames[k + 1]) - EndOf(frames[k]) = frames[k + 1].left
        BY <3>1, <3>2 DEF StackBalanced, TempsEnd
      <4>3. frames'[k + 1] = frames[k + 1] /\ frames'[k] = frames[k]
        BY <1>2, <3>2, <4>1
      <4> QED
        BY <4>1, <4>2, <4>3, <1>2 DEF TempsEnd, StartOf, EndOf
    <3>3. CASE k \in 1..n /\ k = n
      <4>1. k < n + 1 /\ frames'[k + 1] = w /\ frames'[k] = frames[k] /\ ~(k < n)
        BY <1>2, <3>3
      <4>2. Len(stack) - (1 + Arity[ip]) - EndOf(frames[k]) = depth
        BY <3>1, <3>3, <4>1 DEF StackBalanced, TempsEnd
      <4>3. StartOf(w) - EndOf(frames[k]) = w.left
        BY <4>2, <2>2, <2>4, <1>2, <3>3
      <4> QED
        BY <4>1, <4>3, <1>2 DEF TempsEnd, StartOf, EndOf
    <3>4. CASE k = n + 1
      <4>1. ~(k < n + 1) /\ depth' = 0
        BY <1>2, <3>4 DEF Opens
      <4>2. Len(stack') - 0 - EndOf(w) = 0
        BY <1>2, <2>2, <2>8
      <4> QED
        BY <3>4, <4>1, <4>2, <1>2, <2>7 DEF TempsEnd, EndOf
    <3>5. k \in 1..n => k < n \/ k = n
      BY <1>2
    <3> QED
      BY <2>3, <3>2, <3>3, <3>4, <3>5
  <2> QED
    BY <1>2, <2>5, <2>6, <2>7, <2>11, <2>12, <2>13, <2>14 DEF Inv, Running
<1> QED
  BY <1>5, <1>6

LEMMA BeginKeeps == ASSUME Inv, Begin PROVE Inv'
<1>1. TypeOK /\ status = "running" /\ Entering /\ ip \in Fun /\ Returns
  BY DEF Inv, Begin, Entering, Running
<1>2. Len(stack) \in Nat \ {0} /\ Len(stack) <= MaxStack /\ stack \in Seq(Slot)
  BY <1>1, Lengths DEF Returns, TypeOK
<1>3. CASE Fail(stack)
  BY <1>1, <1>2, <1>3, FailingAsItIs
<1>4. CASE Fail(Below(1))
  <2>1. 1 \in 0..Len(stack)
    BY <1>2
  <2>2. Below(1) \in Seq(Slot) /\ Len(Below(1)) = Len(stack) - 1
    BY <1>1, <2>1, BelowTop
  <2>3. Len(Below(1)) <= MaxStack
    BY <1>2, <2>2, StackAssumption
  <2> QED
    BY <1>1, <1>4, <2>2, <2>3, FailingAsItIs
<1>5. CASE /\ fp' = Len(stack) - 1 /\ argc' = Arity[ip] /\ locc' = Locals[ip]
           /\ Len(Full(ip)) > MaxStack
           /\ stack' = SubSeq(Full(ip), 1, MaxStack) /\ status' = "error"
           /\ UNCHANGED <<ip, history>>
  <2>1. Len(stack) > 0
    BY <1>2
  <2> DEFINE full == Full(ip)
  <2>2. full \in Seq(Slot)
    BY <1>1, <2>1, FullStack
  <2> HIDE DEF full
  <2>3. \A j \in 1..MaxStack : full[j] \in Slot
    <3>1. Len(full) > MaxStack /\ Len(full) \in Nat
      BY <1>5, <2>2, LenProperties DEF full
    <3>2. \A j \in 1..MaxStack : j \in 1..Len(full)
      BY <3>1, StackAssumption
    <3> QED
      BY <2>2, <3>2, ElementOfSeq
  <2>4. /\ SubSeq(full, 1, MaxStack) \in Seq(Slot)
        /\ Len(SubSeq(full, 1, MaxStack)) = IF 1 <= MaxStack THEN MaxStack - 1 + 1 ELSE 0
    <3>1. 1 \in Int /\ MaxStack \in Int
      BY StackAssumption
    <3> QED
      BY <2>3, <3>1, SubSeqProperties
  <2>5. stack' \in Seq(Slot) /\ Len(stack') <= MaxStack
    <3>1. stack' = SubSeq(full, 1, MaxStack)
      BY <1>5 DEF full
    <3> QED
      BY <2>4, <3>1, StackAssumption
  <2>6. fp' \in Nat /\ argc' \in Nat /\ locc' \in Nat
    BY <1>1, <1>2, <1>5, FunAssumption
  <2> QED
    BY <1>1, <1>5, <2>5, <2>6, Failing
<1>6. CASE Opens
  BY <1>1, <1>6, Opening
<1> QED
  BY <1>3, <1>4, <1>5, <1>6 DEF Begin, Full, Zeros, Opens

-----------------------------------------------------------------------------
(* END.                                                                    *)

\* Where the frame that is left is, and what it has kept of its caller.
LEMMA Leaving ==
  ASSUME Inv, End
  PROVE  /\ TypeOK /\ Stacked /\ FramesDisjoint /\ Running /\ status = "running" /\ ~Entering
         /\ Len(frames) \in Nat \ {0} /\ Len(frames) \in 1..Len(frames)
         /\ ArgumentsStart = StartOf(Innermost) /\ ArgumentsStart \in Nat
         /\ ArgumentsStart >= NGlobals + 7 /\ ArgumentsStart + 5 <= Len(stack)
         /\ Len(stack) \in Nat /\ depth \in Nat
         /\ fp' = IF Len(frames) = 1 THEN NGlobals ELSE frames[Len(frames) - 1].fp
         /\ ip' = Innermost.ret /\ Innermost.ret \in Site \cup {0} /\ Innermost.left \in Nat
         /\ depth' = 1 + Innermost.left
<1> DEFINE n == Len(frames)
<1>1. TypeOK /\ Stacked /\ FramesDisjoint /\ Running /\ status = "running" /\ ~Entering
  BY DEF Inv, End, Executing
<1>2. frames # <<>> /\ n \in Nat \ {0} /\ n \in 1..n /\ Len(stack) \in Nat /\ depth \in Nat
  BY <1>1, HasFrame, Lengths DEF TypeOK
<1>3. /\ Innermost = frames[n] /\ fp = Innermost.fp /\ argc = Arity[Innermost.fun]
      /\ EndOf(Innermost) + depth <= Len(stack)
  BY <1>1, <1>2 DEF Running, Current, Innermost
<1>4. /\ Innermost.ret \in Site \cup {0} /\ Innermost.left \in Nat /\ Innermost.fp \in Nat
      /\ Arity[Innermost.fun] \in Nat
      /\ EndOf(Innermost) \in Nat /\ EndOf(Innermost) >= Innermost.fp + 5
      /\ StartOf(Innermost) \in Int /\ StartOf(Innermost) <= Innermost.fp
  BY <1>1, <1>2, <1>3, FrameTypes
<1>5. StartOf(Innermost) >= NGlobals + 7
  BY <1>1, <1>2, <1>3 DEF Stacked
<1>6. ArgumentsStart = StartOf(Innermost)
  BY <1>3 DEF ArgumentsStart, StartOf
<1>7. ArgumentsStart \in Nat /\ ArgumentsStart >= NGlobals + 7 /\ ArgumentsStart + 5 <= Len(stack)
  BY <1>2, <1>3, <1>4, <1>5, <1>6, StackAssumption
<1>8. fp' = (IF n = 1 THEN NGlobals ELSE frames[n - 1].fp) /\ ip' = Innermost.ret
  <2>1. MetadataAt(stack, n)
    BY <1>1, <1>2 DEF Running
  <2>2. fp + 3 + 1 = Innermost.fp + 4 /\ fp + 4 + 1 = Innermost.fp + 5
    BY <1>3, <1>4
  <2>3. fp' = stack[fp + 3 + 1] /\ ip' = stack[fp + 4 + 1]
    BY DEF End, At
  <2> QED
    BY <2>1, <2>2, <2>3, <1>3 DEF MetadataAt
<1>9. depth' = 1 + Innermost.left
  BY DEF End
<1> QED
  BY <1>1, <1>2, <1>4, <1>6, <1>7, <1>8, <1>9

\* The stack and the frames behind END.
LEMMA LeftBehind ==
  ASSUME Inv, End
  PROVE  /\ stack' \in Seq(Slot) /\ Len(stack') = ArgumentsStart + 1 /\ Len(stack') <= MaxStack
         /\ \A j \in 1..ArgumentsStart : stack'[j] = stack[j]
         /\ stack'[ArgumentsStart + 1] = Top(1)
         /\ frames' \in Seq(Frame) /\ Len(frames') = Len(frames) - 1
         /\ \A k \in 1..(Len(frames) - 1) : frames'[k] = frames[k]
<1> DEFINE n == Len(frames)
           start == ArgumentsStart
           kept == SubSeq(stack, 1, start)
<1>1. /\ TypeOK /\ n \in Nat \ {0} /\ start \in Nat /\ start + 5 <= Len(stack) /\ Len(stack) \in Nat
      /\ Len(stack) <= MaxStack /\ stack \in Seq(Slot) /\ frames \in Seq(Frame)
  BY Leaving, Lengths DEF TypeOK
<1>2. stack' = Append(kept, Top(1)) /\ frames' = SubSeq(frames, 1, n - 1)
  BY DEF End
<1>3. Top(1) \in Slot
  <2>1. Len(stack) + 1 - 1 \in 1..Len(stack)
    BY <1>1
  <2> QED
    BY <1>1, <2>1, ElementOfSeq DEF Top
<1> HIDE DEF start, n
<1>4. kept \in Seq(Slot) /\ Len(kept) = start /\ \A j \in 1..start : kept[j] = stack[j]
  <2>1. \A j \in 1..start : stack[j] \in Slot
    <3>1. \A j \in 1..start : j \in 1..Len(stack)
      BY <1>1
    <3> QED
      BY <1>1, <3>1, ElementOfSeq
  <2>2. 1 \in Int /\ start \in Int
    BY <1>1
  <2>3. /\ kept \in Seq(Slot) /\ Len(kept) = IF 1 <= start THEN start - 1 + 1 ELSE 0
        /\ \A j \in 1..(start - 1 + 1) : kept[j] = stack[1 + j - 1]
    BY <2>1, <2>2, SubSeqProperties
  <2> HIDE DEF kept
  <2>4. start - 1 + 1 = start /\ (IF 1 <= start THEN start - 1 + 1 ELSE 0) = start
        /\ \A j \in 1..start : 1 + j - 1 = j
    BY <1>1
  <2> QED
    BY <2>3, <2>4
<1>5. frames' \in Seq(Frame) /\ Len(frames') = n - 1 /\ \A k \in 1..(n - 1) : frames'[k] = frames[k]
  <2>1. \A k \in 1..(n - 1) : frames[k] \in Frame
    <3>1. \A k \in 1..(n - 1) : k \in 1..Len(frames)
      BY <1>1 DEF n
    <3> QED
      BY <1>1, <3>1, ElementOfSeq
  <2>2. 1 \in Int /\ n - 1 \in Int
    BY <1>1
  <2> DEFINE callers == SubSeq(frames, 1, n - 1)
  <2>3. /\ callers \in Seq(Frame) /\ Len(callers) = IF 1 <= n - 1 THEN n - 1 - 1 + 1 ELSE 0
        /\ \A k \in 1..(n - 1 - 1 + 1) : callers[k] = frames[1 + k - 1]
    BY <2>1, <2>2, SubSeqProperties
  <2> HIDE DEF callers
  <2>4. n - 1 - 1 + 1 = n - 1 /\ (IF 1 <= n - 1 THEN n - 1 - 1 + 1 ELSE 0) = n - 1
        /\ \A k \in 1..(n - 1) : 1 + k - 1 = k
    BY <1>1
  <2>5. frames' = callers
    BY <1>2 DEF callers
  <2> QED
    BY <2>3, <2>4, <2>5
<1> HIDE DEF kept
<1>6. stack' \in Seq(Slot) /\ Len(stack') = start + 1 /\ (\A j \in 1..start : stack'[j] = stack[j])
      /\ stack'[start + 1] = Top(1)
  BY <1>1, <1>2, <1>3, <1>4
<1>7. start + 1 <= MaxStack
  BY <1>1, StackAssumption
<1> QED
  BY <1>5, <1>6, <1>7 DEF start, n

\* The frames that stay are as they were to each other.
LEMMA CallersStay ==
  ASSUME Inv, End
  PROVE  Stacked' /\ FramesDisjoint'
<1> DEFINE n == Len(frames)
<1>1. Stacked /\ FramesDisjoint /\ n \in Nat \ {0}
  BY Leaving
<1>2. Len(frames') = n - 1 /\ \A k \in 1..(n - 1) : frames'[k] = frames[k]
  BY LeftBehind
<1>3. \A k \in 1..(n - 1) : k \in 1..n
  BY <1>1
<1>4. Stacked'
  <2> SUFFICES ASSUME NEW k \in 1..(n - 1)
               PROVE  /\ StartOf(frames'[k]) >= NGlobals + 7
                      /\ \A j \in 1..(n - 1) : j < k => EndOf(frames'[j]) <= StartOf(frames'[k])
    BY <1>2 DEF Stacked, StartOf, EndOf
  <2> QED
    BY <1>1, <1>2, <1>3 DEF Stacked
<1>5. FramesDisjoint'
  <2> SUFFICES ASSUME NEW k \in 1..(n - 1)
               PROVE  StartOf(frames'[k]) >=
                        (IF k = 1 THEN NGlobals + 7 ELSE EndOf(frames'[k - 1])) + frames'[k].left
    BY <1>2 DEF FramesDisjoint, StartOf, EndOf
  <2>1. k # 1 => k - 1 \in 1..(n - 1)
    BY <1>1
  <2> QED
    BY <2>1, <1>1, <1>2, <1>3 DEF FramesDisjoint
<1> QED
  BY <1>4, <1>5

\* A return to a caller, which finds its own frame.
LEMMA Resuming ==
  ASSUME Inv, End, Len(frames) # 1
  PROVE  /\ fp' # NGlobals /\ fp' \in Nat
         /\ argc' = stack'[fp' + 2] /\ locc' = stack'[fp' + 3] /\ status' = status =>
              argc' \in Nat /\ locc' \in Nat /\ Running'
<1> DEFINE n == Len(frames)
           u == frames[n - 1]
<1>1. /\ TypeOK /\ Stacked /\ FramesDisjoint /\ Running /\ status = "running" /\ ~Entering
      /\ n \in Nat \ {0} /\ n \in 1..n
      /\ ArgumentsStart = StartOf(Innermost) /\ ArgumentsStart \in Nat
      /\ Len(stack) \in Nat /\ depth \in Nat
      /\ fp' = (IF n = 1 THEN NGlobals ELSE frames[n - 1].fp)
      /\ ip' = Innermost.ret /\ Innermost.ret \in Site \cup {0} /\ Innermost.left \in Nat
      /\ depth' = 1 + Innermost.left /\ Innermost = frames[n]
  BY Leaving DEF Innermost
<1>2. /\ Len(stack') = ArgumentsStart + 1 /\ Len(frames') = n - 1
      /\ \A j \in 1..ArgumentsStart : stack'[j] = stack[j]
      /\ \A k \in 1..(n - 1) : frames'[k] = frames[k]
  BY LeftBehind
<1>3. n - 1 \in 1..(n - 1) /\ n - 1 \in 1..n /\ n - 1 < n /\ \A k \in 1..(n - 1) : k \in 1..n /\ k < n
  <2>1. n \in Nat \ {0} /\ n # 1
    BY <1>1
  <2> HIDE DEF n
  <2>2. n - 1 \in Nat \ {0}
    BY <2>1
  <2> QED
    BY <2>1, <2>2
<1>4. /\ u.fp \in Nat /\ EndOf(u) \in Nat /\ EndOf(u) >= u.fp + 5
      /\ StartOf(u) >= NGlobals + 7 /\ StartOf(u) <= u.fp /\ StartOf(u) \in Int
  BY <1>1, <1>3, FrameTypes DEF Stacked
<1>5. fp' = u.fp /\ fp' # NGlobals /\ fp' \in Nat
  BY <1>1, <1>4, StackAssumption, SMTT(20)
<1>6. SUFFICES ASSUME argc' = stack'[fp' + 2], locc' = stack'[fp' + 3], status' = status
               PROVE  argc' \in Nat /\ locc' \in Nat /\ Running'
  BY <1>5
<1>7. ASSUME NEW k \in 1..(n - 1) PROVE MetadataAt(stack, k)'
  <2>1. k \in 1..n /\ MetadataAt(stack, k)
    BY <1>1, <1>3 DEF Running
  <2>2. ASSUME NEW m \in 2..5 PROVE stack'[frames[k].fp + m] = stack[frames[k].fp + m]
    <3>1. frames[k].fp + m \in Nat /\ frames[k].fp + m > NGlobals + 7
          /\ frames[k].fp + m <= EndOf(frames[k])
      BY <1>1, <2>1, MetadataPlaces
    <3>2. EndOf(frames[k]) <= ArgumentsStart /\ EndOf(frames[k]) \in Nat
      BY <1>1, <1>3, FrameTypes DEF Stacked
    <3> DEFINE p == frames[k].fp + m
               e == EndOf(frames[k])
    <3>3. p \in Nat /\ p > NGlobals + 7 /\ p <= e /\ e <= ArgumentsStart /\ e \in Nat
      BY <3>1, <3>2
    <3> HIDE DEF p, e
    <3>4. p \in 1..ArgumentsStart
      BY <3>3, <1>1, StackAssumption
    <3>5. stack'[p] = stack[p]
      BY <3>4, <1>2
    <3> QED
      BY <3>5 DEF p
  <2>3. /\ stack'[frames[k].fp + 2] = stack[frames[k].fp + 2]
        /\ stack'[frames[k].fp + 3] = stack[frames[k].fp + 3]
        /\ stack'[frames[k].fp + 4] = stack[frames[k].fp + 4]
        /\ stack'[frames[k].fp + 5] = stack[frames[k].fp + 5]
    BY <2>2, 2 \in 2..5, 3 \in 2..5, 4 \in 2..5, 5 \in 2..5
  <2>4. frames'[k] = frames[k] /\ (k # 1 => frames'[k - 1] = frames[k - 1])
    <3>1. k # 1 => k - 1 \in 1..(n - 1)
      BY <1>1
    <3> QED
      BY <3>1, <1>2
  <2> QED
    BY <2>1, <2>3, <2>4 DEF MetadataAt
<1>8. argc' = Arity[u.fun] /\ locc' = Locals[u.fun] /\ argc' \in Nat /\ locc' \in Nat
  <2>1. frames'[n - 1] = u
    BY <1>2, <1>3
  <2>2. ASSUME NEW k \in 1..(n - 1), k = n - 1
        PROVE  stack'[u.fp + 2] = Arity[u.fun] /\ stack'[u.fp + 3] = Locals[u.fun]
    BY <2>1, <2>2, <1>7 DEF MetadataAt
  <2>3. Arity[u.fun] \in Nat /\ Locals[u.fun] \in Nat
    BY <1>1, <1>3, FrameTypes
  <2> QED
    BY <2>2, <2>3, <1>3, <1>5, <1>6
<1>9. ~Entering'
  BY <1>1, ValueAssumption DEF Entering
<1>10. frames' # <<>> /\ Innermost' = u
  BY <1>1, <1>2, <1>3, EmptySeq DEF Innermost
<1>11. EndOf(u) + depth' <= Len(stack') - 0
  <2>1. StartOf(frames[n]) >= EndOf(frames[n - 1]) + frames[n].left
    BY <1>1 DEF FramesDisjoint
  <2>2. /\ StartOf(frames[n]) \in Nat /\ frames[n].left \in Nat /\ EndOf(u) \in Nat
        /\ Len(stack') = StartOf(frames[n]) + 1 /\ depth' = 1 + frames[n].left
    BY <1>1, <1>2, <1>4
  <2>3. \A s, e, l \in Nat : s >= e + l => e + (1 + l) <= s + 1 - 0
    OBVIOUS
  <2> QED
    BY <2>1, <2>2, <2>3
<1>12. Current'
  <2>1. EndOf(Innermost)' = EndOf(u)
    BY <1>10 DEF EndOf
  <2> QED
    BY <2>1, <1>5, <1>8, <1>9, <1>10, <1>11 DEF Current
<1>13. \A k \in 1..Len(frames') : MetadataAt(stack, k)'
  BY <1>2, <1>7
<1> QED
  BY <1>8, <1>9, <1>10, <1>12, <1>13 DEF Running, Starting, Returns

\* The caller finds as many temporaries as the compiled code takes it to have.
LEMMA StillBalanced ==
  ASSUME Inv, End, Len(frames) # 1, StackBalanced, ~Entering'
  PROVE  StackBalanced'
<1> DEFINE n == Len(frames)
<1>1. /\ status = "running" /\ n \in Nat \ {0} /\ n \in 1..n /\ TypeOK
      /\ ArgumentsStart = StartOf(frames[n]) /\ ArgumentsStart \in Nat
      /\ depth' = 1 + frames[n].left /\ frames[n].left \in Nat
  BY Leaving DEF Innermost
<1>2. /\ Len(stack') = ArgumentsStart + 1 /\ Len(frames') = n - 1
      /\ \A k \in 1..(n - 1) : frames'[k] = frames[k]
  BY LeftBehind
<1> SUFFICES ASSUME NEW k \in 1..(n - 1)
             PROVE  (TempsEnd(k) - EndOf(frames[k]))' =
                      IF k < n - 1 THEN frames'[k + 1].left ELSE depth'
  BY <1>2 DEF StackBalanced
<1>3. k \in 1..n /\ k < n /\ k + 1 \in 1..n
  BY <1>1
<1>4. StartOf(frames[k + 1]) - EndOf(frames[k]) = frames[k + 1].left
  BY <1>1, <1>3 DEF StackBalanced, TempsEnd
<1>5. CASE k < n - 1
  <2>1. k + 1 \in 1..(n - 1)
    BY <1>1, <1>5
  <2>2. frames'[k + 1] = frames[k + 1] /\ frames'[k] = frames[k]
    BY <1>2, <2>1
  <2> QED
    BY <1>2, <1>4, <1>5, <2>2 DEF TempsEnd, StartOf, EndOf
<1>6. CASE ~(k < n - 1)
  <2>1. k = n - 1 /\ k + 1 = n /\ frames'[k] = frames[k]
    BY <1>1, <1>2, <1>6
  <2>2. EndOf(frames[k]) \in Nat
    BY <1>1, <1>3, FrameTypes
  <2>3. StartOf(frames[n]) - EndOf(frames[k]) = frames[n].left
    BY <1>4, <2>1
  <2>4. StartOf(frames[n]) \in Int /\ EndOf(frames[k]) \in Int /\ frames[n].left \in Int
        /\ Len(stack') = StartOf(frames[n]) + 1
    BY <1>1, <1>2, <2>2
  <2>5. Len(stack') - 0 - EndOf(frames[k]) = depth'
    <3>1. StartOf(frames[n]) + 1 - 0 - EndOf(frames[k]) = 1 + frames[n].left
      BY <2>3, <2>4, AboveReturning
    <3> QED
      BY <3>1, <2>4, <1>1
  <2> QED
    BY <1>2, <1>6, <2>1, <2>5 DEF TempsEnd, EndOf
<1> QED
  BY <1>5, <1>6

LEMMA EndKeeps == ASSUME Inv, End PROVE Inv'
<1>1. /\ TypeOK /\ status = "running" /\ ip' \in Site \cup {0} /\ depth' \in Nat
      /\ Len(frames) \in Nat \ {0}
      /\ fp' = IF Len(frames) = 1 THEN NGlobals ELSE frames[Len(frames) - 1].fp
  BY Leaving
<1>2. stack' \in Seq(Slot) /\ Len(stack') <= MaxStack /\ frames' \in Seq(Frame)
  BY LeftBehind
<1>3. Stacked' /\ FramesDisjoint'
  BY CallersStay
<1>4. CASE Len(frames) = 1
  <2>1. fp' = NGlobals
    BY <1>1, <1>4
  <2>2. status' = "finished" /\ UNCHANGED <<argc, locc>>
    BY <2>1 DEF End
  <2>3. TypeOK'
    BY <1>1, <1>2, <2>1, <2>2, StackAssumption DEF TypeOK, Terminal
  <2> QED
    BY <1>3, <2>2, <2>3 DEF Inv, StackBalanced
<1>5. CASE Len(frames) # 1
  <2>1. fp' # NGlobals /\ fp' \in Nat
    BY <1>5, Resuming
  <2>2. argc' = stack'[fp' + 2] /\ locc' = stack'[fp' + 3] /\ status' = status
    BY <2>1 DEF End, Reload
  <2>3. argc' \in Nat /\ locc' \in Nat /\ Running'
    BY <1>5, <2>2, Resuming
  <2>4. TypeOK'
    BY <1>1, <1>2, <2>1, <2>2, <2>3 DEF TypeOK, Terminal
  <2>5. "ArityMatches" \in Discipline => StackBalanced'
    <3>1. ~Entering'
      BY <1>1, ValueAssumption DEF Entering
    <3> QED
      BY <3>1, <1>5, StillBalanced DEF Inv
  <2> QED
    BY <1>1, <1>3, <2>2, <2>3, <2>4, <2>5 DEF Inv
<1> QED
  BY <1>4, <1>5

-----------------------------------------------------------------------------
(* The machine.                                                            *)

LEMMA InitKeeps == Init => Inv
<1> SUFFICES ASSUME Init PROVE Inv
  OBVIOUS
<1> DEFINE first == [i \in 1..(NGlobals + 8) |-> IF i = NGlobals + 2 THEN 2 ELSE 0]
<1>1. /\ stack = first /\ fp = NGlobals /\ argc = 2 /\ locc = 0 /\ ip = Main
      /\ status = "running" /\ depth = 0 /\ frames = <<>>
  BY DEF Init
<1>2. NGlobals + 8 \in Nat /\ NGlobals + 8 <= MaxStack /\ NGlobals \in Nat /\ NGlobals + 8 # NGlobals + 2
      /\ NGlobals + 8 \in 1..(NGlobals + 8)
  BY StackAssumption
<1>3. first \in Seq(Slot) /\ Len(first) = NGlobals + 8 /\ first[NGlobals + 8] = 0
  <2>1. 0 \in Slot /\ 2 \in Slot
    BY DEF Slot
  <2>2. first \in [1..(NGlobals + 8) -> Slot]
    BY <2>1
  <2> QED
    BY <2>2, <1>2
<1> HIDE DEF first
<1>4. TypeOK
  BY <1>1, <1>2, <1>3, FunAssumption DEF TypeOK, Frame
<1>5. Len(frames) = 0 /\ 1..Len(frames) = {}
  BY <1>1, EmptySeq
<1>6. Stacked /\ FramesDisjoint /\ StackBalanced
  BY <1>5 DEF Stacked, FramesDisjoint, StackBalanced
<1>7. Running
  <2>1. Len(stack) + 1 - 1 = NGlobals + 8 /\ Len(stack) > 0
    BY <1>1, <1>2, <1>3
  <2>2. Top(1) = 0
    BY <2>1, <1>1, <1>3 DEF Top
  <2> QED
    BY <1>1, <1>3, <1>5, <2>1, <2>2 DEF Running, Current, Starting, Returns
<1> QED
  BY <1>1, <1>4, <1>6, <1>7 DEF Inv

LEMMA StutterKeeps == ASSUME Inv, UNCHANGED vars PROVE Inv'
<1>1. TypeOK' = TypeOK /\ Stacked' = Stacked /\ FramesDisjoint' = FramesDisjoint
  BY DEF vars, TypeOK, Stacked, FramesDisjoint, StartOf, EndOf
<1>2. StackBalanced' = StackBalanced
  BY DEF vars, StackBalanced, TempsEnd, StartOf, EndOf, Entering
<1>3. Running' = Running
  BY DEF vars, Running, MetadataAt, Current, Starting, Returns, Entering, Innermost, EndOf, Top
<1> QED
  BY <1>1, <1>2, <1>3 DEF Inv, vars

LEMMA NextKeeps == Inv /\ [Next]_vars => Inv'
<1> SUFFICES ASSUME Inv, [Next]_vars PROVE Inv'
  OBVIOUS
<1>1. ASSUME NEW v \in Value, Make(v) PROVE Inv'
  BY <1>1, Making
<1>2. CASE Drop
  BY <1>2, Dropping
<1>3. CASE Begin
  BY <1>3, BeginKeeps
<1>4. CASE End
  BY <1>4, EndKeeps
<1>5. CASE Stopped \/ UNCHANGED vars
  BY <1>5, StutterKeeps DEF Stopped
<1>6. \A i \in Index : i \in Nat
  BY StackAssumption DEF Index
<1>7. ASSUME NEW i \in Index,
             LoadGlobal(i) \/ LoadArg(i) \/ LoadLocal(i) \/ StoreGlobal(i) \/ StoreArg(i) \/ StoreLocal(i)
      PROVE  Inv'
  BY <1>6, <1>7, Loading, Storing
<1>8. ASSUME NEW n \in Index, NEW r \in Site, CallClosure(n, r) PROVE Inv'
  BY <1>6, <1>8, CallClosureKeeps
<1>9. ASSUME NEW n \in Index, NEW r \in Site, NEW f \in Callable, Call(f, n, r) PROVE Inv'
  BY <1>6, <1>9, CallKeeps
<1> QED
  BY <1>1, <1>2, <1>3, <1>4, <1>5, <1>7, <1>8, <1>9 DEF Next

\* Four words in a row.
LEMMA FourWords ==
  ASSUME NEW s, NEW p \in Int
  PROVE  SubSeq(s, p + 2, p + 5) = <<s[p + 2], s[p + 3], s[p + 4], s[p + 5]>>
<1> DEFINE T == {s[p + 2], s[p + 3], s[p + 4], s[p + 5]}
           four == <<s[p + 2], s[p + 3], s[p + 4], s[p + 5]>>
           part == SubSeq(s, p + 2, p + 5)
<1>1. \A i \in (p + 2)..(p + 5) : s[i] \in T
  <2>1. \A i \in (p + 2)..(p + 5) : i = p + 2 \/ i = p + 3 \/ i = p + 4 \/ i = p + 5
    OBVIOUS
  <2> QED
    BY <2>1
<1>2. four \in Seq(T) /\ Len(four) = 4
  OBVIOUS
<1> HIDE DEF T
<1>3. p + 2 \in Int /\ p + 5 \in Int /\ p + 5 - (p + 2) + 1 = 4 /\ p + 2 <= p + 5
  OBVIOUS
<1>4. /\ part \in Seq(T) /\ Len(part) = IF p + 2 <= p + 5 THEN p + 5 - (p + 2) + 1 ELSE 0
      /\ \A i \in 1..(p + 5 - (p + 2) + 1) : part[i] = s[p + 2 + i - 1]
  BY <1>1, <1>3, SubSeqProperties
<1> HIDE DEF part
<1>5. Len(part) = 4 /\ \A i \in 1..4 : part[i] = s[p + 2 + i - 1]
  BY <1>3, <1>4
<1>6. p + 2 + 1 - 1 = p + 2 /\ p + 2 + 2 - 1 = p + 3 /\ p + 2 + 3 - 1 = p + 4 /\ p + 2 + 4 - 1 = p + 5
  OBVIOUS
<1>7. part[1] = s[p + 2] /\ part[2] = s[p + 3] /\ part[3] = s[p + 4] /\ part[4] = s[p + 5]
  BY <1>5, <1>6, 1 \in 1..4, 2 \in 1..4, 3 \in 1..4, 4 \in 1..4
<1>8. \A i \in 1..4 : part[i] = four[i]
  <2>1. \A i \in 1..4 : i = 1 \/ i = 2 \/ i = 3 \/ i = 4
    OBVIOUS
  <2> QED
    BY <1>7, <2>1
<1> HIDE DEF four
<1>9. part = four
  BY <1>2, <1>4, <1>5, <1>8, SeqEqual
<1> QED
  BY <1>9 DEF part, four

LEMMA InvChain == Inv => ChainIntact
<1> SUFFICES ASSUME Inv, status = "running" PROVE ChainIntact
  BY DEF ChainIntact
<1>1. TypeOK /\ Running
  BY DEF Inv
<1>2. ASSUME NEW k \in 1..Len(frames)
      PROVE  /\ EndOf(frames[k]) <= Len(stack)
             /\ SubSeq(stack, frames[k].fp + 2, frames[k].fp + 5) =
                  <<Arity[frames[k].fun], Locals[frames[k].fun],
                    IF k = 1 THEN NGlobals ELSE frames[k - 1].fp, frames[k].ret>>
  <2>1. frames[k].fp \in Int /\ EndOf(frames[k]) \in Nat
    BY <1>1, FrameTypes
  <2>2. MetadataAt(stack, k)
    BY <1>1 DEF Running
  <2>3. EndOf(frames[k]) <= Len(stack)
    <3>1. /\ EndOf(frames[k]) <= EndOf(Innermost) /\ EndOf(Innermost) \in Nat
          /\ EndOf(Innermost) + depth <= Len(stack) - (IF Entering THEN 1 ELSE 0)
      BY InnermostEndsLast
    <3>2. depth \in Nat /\ Len(stack) \in Nat
      BY <1>1, Lengths DEF TypeOK
    <3> QED
      BY <2>1, <3>1, <3>2
  <2> QED
    BY <2>1, <2>2, <2>3, FourWords DEF MetadataAt
<1> QED
  BY <1>1, <1>2 DEF ChainIntact, Running, Current

-----------------------------------------------------------------------------
LEMMA InvAlways == Spec => []Inv
BY InitKeeps, NextKeeps, PTL DEF Spec

\* Whatever is called, with however many arguments, every value is where a value can be,
\* the stack stays within its limit, and addresses and counts in the registers are such.
\* (push, eval_begin, eval_end)
THEOREM FramesTyped == Spec => []TypeOK
<1>1. Inv => TypeOK
  BY DEF Inv
<1> QED
  BY <1>1, InvAlways, PTL

\* Whatever is called, with however many arguments, the metadata of every open frame
\* stay what BEGIN put there, and the registers are those of the innermost frame.
\* (eval_call, eval_call_closure, eval_begin, eval_end, loads and stores)
THEOREM MetadataKept == Spec => []ChainIntact
BY InvChain, InvAlways, PTL

\* If every call has the arguments its function takes, a frame is apart from the
\* temporaries, the locals and the metadata of its caller.  (eval_begin)
THEOREM FramesApart ==
  ASSUME "ArityMatches" \in Discipline
  PROVE  Spec => []FramesDisjoint
<1>1. Inv => FramesDisjoint
  BY DEF Inv
<1> QED
  BY <1>1, InvAlways, PTL

\* If every call has the arguments its function takes, a return leaves the stack as deep
\* as the compiled code takes it to be, however deep the call went.  (eval_end)
THEOREM ReturnsBalanced ==
  ASSUME "ArityMatches" \in Discipline
  PROVE  Spec => []StackBalanced
<1>1. Inv => StackBalanced
  BY DEF Inv
<1> QED
  BY <1>1, InvAlways, PTL
=============================================================================
