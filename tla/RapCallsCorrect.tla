--------------------------- MODULE RapCallsCorrect ---------------------------
(***************************************************************************)
(* Frames implement activations: if every call has the arguments that its  *)
(* function takes, each step of RapFrames is a step of RapCalls or changes *)
(* nothing there.                                                          *)
(*                                                                         *)
(* An activation is made of three parts of the stack.  What a step does to *)
(* the slots of the innermost frame says what its activation becomes; all  *)
(* others, whose slots are below, stay as they are.                        *)
(***************************************************************************)
EXTENDS RapFramesCorrect

-----------------------------------------------------------------------------
(* Parts of sequences.                                                     *)

\* (A name for it: provers expand an equation of functions, and then lose sight of it.)
Part(s, m, n) == SubSeq(s, m, n)

LEMMA PartOf ==
  ASSUME NEW s, NEW m \in Int, NEW n \in Int
  PROVE  /\ SubSeq(s, m, n) \in Seq({s[i] : i \in m..n})
         /\ Len(SubSeq(s, m, n)) = IF m <= n THEN n - m + 1 ELSE 0
         /\ \A i \in 1..(n - m + 1) : SubSeq(s, m, n)[i] = s[m + i - 1]
<1> DEFINE S == {s[i] : i \in m..n}
<1>1. \A i \in m..n : s[i] \in S
  OBVIOUS
<1> HIDE DEF S
<1>2. /\ SubSeq(s, m, n) \in Seq(S)
      /\ Len(SubSeq(s, m, n)) = IF m <= n THEN n - m + 1 ELSE 0
      /\ \A i \in 1..(n - m + 1) : SubSeq(s, m, n)[i] = s[m + i - 1]
  BY <1>1, SubSeqProperties
<1> QED
  BY <1>2 DEF S

\* A sequence is a part of another one if it has its length and its elements.
LEMMA IsPart ==
  ASSUME NEW S, NEW t \in Seq(S), NEW s, NEW m \in Int, NEW n \in Int,
         Len(t) = n - m + 1, \A i \in 1..Len(t) : t[i] = s[m + i - 1]
  PROVE  SubSeq(s, m, n) = t
<1>1. Len(t) \in Nat /\ \A i \in 1..Len(t) : t[i] \in S
  BY LenProperties, ElementOfSeq
<1>2. \A i \in m..n : s[i] \in S
  <2> SUFFICES ASSUME NEW i \in m..n PROVE s[i] \in S
    OBVIOUS
  <2>1. i - m + 1 \in 1..(n - m + 1) /\ m + (i - m + 1) - 1 = i
    OBVIOUS
  <2> QED
    BY <2>1, <1>1
<1>3. /\ SubSeq(s, m, n) \in Seq(S)
      /\ Len(SubSeq(s, m, n)) = IF m <= n THEN n - m + 1 ELSE 0
      /\ \A i \in 1..(n - m + 1) : SubSeq(s, m, n)[i] = s[m + i - 1]
  BY <1>2, SubSeqProperties
<1>4. Len(SubSeq(s, m, n)) = Len(t)
  BY <1>1, <1>3
<1> QED
  BY <1>3, <1>4, SeqEqual

\* The same part of two sequences, at other places.
Moved(s, m, n, t, p, q) ==
  /\ m \in Int /\ n \in Int /\ p \in Int /\ q \in Int
  /\ n + 1 >= m /\ n - m = q - p
  /\ \A i \in 1..(n - m + 1) : s[m + i - 1] = t[p + i - 1]

LEMMA MovedPart ==
  ASSUME NEW s, NEW m, NEW n, NEW t, NEW p, NEW q, Moved(s, m, n, t, p, q)
  PROVE  Part(s, m, n) = Part(t, p, q)
<1> DEFINE S == {t[i] : i \in p..q}
           u == SubSeq(t, p, q)
<1>1. /\ m \in Int /\ n \in Int /\ p \in Int /\ q \in Int /\ n + 1 >= m /\ n - m = q - p
      /\ \A i \in 1..(n - m + 1) : s[m + i - 1] = t[p + i - 1]
  BY DEF Moved
<1>2. u \in Seq(S) /\ Len(u) = (IF p <= q THEN q - p + 1 ELSE 0)
      /\ \A i \in 1..(q - p + 1) : u[i] = t[p + i - 1]
  <2>1. \A i \in p..q : t[i] \in S
    OBVIOUS
  <2> HIDE DEF S
  <2> QED
    BY <1>1, <2>1, SubSeqProperties
<1> HIDE DEF S, u
<1>3. Len(u) = n - m + 1
  BY <1>1, <1>2
<1>4. \A i \in 1..Len(u) : u[i] = s[m + i - 1]
  <2>1. 1..(q - p + 1) = 1..(n - m + 1) /\ 1..Len(u) = 1..(n - m + 1)
    BY <1>1, <1>3
  <2> QED
    BY <1>1, <1>2, <2>1
<1>5. SubSeq(s, m, n) = u
  BY <1>1, <1>2, <1>3, <1>4, IsPart
<1> QED
  BY <1>5 DEF u, Part

LEMMA SamePart ==
  ASSUME NEW s, NEW t, NEW m \in Int, NEW n \in Int, m <= n + 1,
         \A i \in m..n : s[i] = t[i]
  PROVE  Part(s, m, n) = Part(t, m, n)
<1>1. \A i \in 1..(n - m + 1) : m + i - 1 \in m..n
  OBVIOUS
<1>2. Moved(s, m, n, t, m, n)
  BY <1>1 DEF Moved
<1> QED
  BY <1>2, MovedPart

\* A part that ends one slot further.
LEMMA LongerPart ==
  ASSUME NEW s, NEW t, NEW m \in Int, NEW n \in Int, m <= n + 1,
         \A i \in m..n : t[i] = s[i]
  PROVE  SubSeq(t, m, n + 1) = Append(SubSeq(s, m, n), t[n + 1])
<1> DEFINE S == {s[i] : i \in m..n}
           T == S \cup {t[n + 1]}
           u == SubSeq(s, m, n)
           l == n - m + 1
<1>1. u \in Seq(S) /\ Len(u) = (IF m <= n THEN l ELSE 0)
      /\ \A i \in 1..l : u[i] = s[m + i - 1]
  BY PartOf
<1>2. l \in Nat /\ l = n - m + 1
  OBVIOUS
<1> HIDE DEF u, S, l
<1>3. Len(u) = l
  BY <1>1, <1>2
<1>4. u \in Seq(T)
  BY <1>1, SeqMonotonic
<1>5. /\ Append(u, t[n + 1]) \in Seq(T) /\ Len(Append(u, t[n + 1])) = l + 1
      /\ \A i \in 1..l : Append(u, t[n + 1])[i] = u[i]
      /\ Append(u, t[n + 1])[l + 1] = t[n + 1]
  BY <1>3, <1>4, AppendProperties
<1>6. ASSUME NEW i \in 1..(l + 1) PROVE Append(u, t[n + 1])[i] = t[m + i - 1]
  <2>1. CASE i \in 1..l
    <3>1. m + i - 1 \in m..n
      BY <1>2, <2>1
    <3> QED
      BY <1>1, <1>5, <2>1, <3>1
  <2>2. CASE i = l + 1
    <3>1. m + i - 1 = n + 1
      BY <1>2, <2>2
    <3> QED
      BY <1>5, <2>2, <3>1
  <2>3. i \in 1..l \/ i = l + 1
    BY <1>2
  <2> QED
    BY <2>1, <2>2, <2>3
<1>7. l + 1 = (n + 1) - m + 1 /\ n + 1 \in Int
  BY <1>2
<1> HIDE DEF T
<1>8. SubSeq(t, m, n + 1) = Append(u, t[n + 1])
  BY <1>5, <1>6, <1>7, IsPart
<1> QED
  BY <1>8 DEF u

\* A sequence that begins like another one.
LEMMA BeginsLike ==
  ASSUME NEW S, NEW s \in Seq(S), NEW T, NEW t \in Seq(T), NEW m \in Nat,
         Len(t) = m + 1, m <= Len(s), \A k \in 1..m : t[k] = s[k]
  PROVE  t = Append(SubSeq(s, 1, m), t[m + 1])
<1>1. SubSeq(t, 1, m + 1) = Append(SubSeq(s, 1, m), t[m + 1])
  BY LongerPart
<1>2. SubSeq(t, 1, m + 1) = t
  BY SubSeqFull
<1> QED
  BY <1>1, <1>2

-----------------------------------------------------------------------------
(* The activations, one by one.                                            *)

ActivationSet == {ActivationOf(k) : k \in 1..Len(frames)} \cup {Callee}

\* One for each frame, and one for a callee that has not begun.
OneForEach ==
  /\ Activations \in Seq(ActivationSet)
  /\ Len(Activations) = Len(frames) + (IF Entering THEN 1 ELSE 0)
  /\ \A k \in 1..Len(frames) : Activations[k] = ActivationOf(k)
  /\ Entering => Activations[Len(frames) + 1] = Callee

LEMMA SameRange == ASSUME NEW m \in Nat, NEW n \in Nat, 1..m = 1..n PROVE m = n
<1>1. m <= n
  <2>1. m = 0 \/ m \in 1..n
    OBVIOUS
  <2> QED
    BY <2>1
<1>2. n <= m
  <2>1. n = 0 \/ n \in 1..m
    OBVIOUS
  <2> QED
    BY <2>1
<1> QED
  BY <1>1, <1>2

LEMMA Glued ==
  ASSUME NEW S, NEW f \in Seq(S), NEW c \in S, NEW b \in BOOLEAN,
         NEW s, s = f \o (IF b THEN <<c>> ELSE <<>>)
  PROVE  /\ s \in Seq(S) /\ Len(s) = Len(f) + (IF b THEN 1 ELSE 0)
         /\ \A k \in 1..Len(f) : s[k] = f[k]
         /\ b => s[Len(f) + 1] = c
<1>1. Len(f) \in Nat
  BY LenProperties
<1>2. CASE b
  <2>1. <<c>> \in Seq(S) /\ Len(<<c>>) = 1 /\ <<c>>[1] = c
    OBVIOUS
  <2>2. /\ f \o <<c>> \in Seq(S) /\ Len(f \o <<c>>) = Len(f) + 1
        /\ \A k \in 1..(Len(f) + 1) :
             (f \o <<c>>)[k] = IF k <= Len(f) THEN f[k] ELSE <<c>>[k - Len(f)]
    BY <2>1, ConcatProperties
  <2>3. s = f \o <<c>>
    BY <1>2
  <2>4. \A k \in 1..Len(f) : k \in 1..(Len(f) + 1) /\ k <= Len(f)
    BY <1>1
  <2>5. /\ Len(f) + 1 \in 1..(Len(f) + 1) /\ ~(Len(f) + 1 <= Len(f)) /\ Len(f) + 1 - Len(f) = 1
    BY <1>1
  <2>6. s[Len(f) + 1] = c
    BY <2>1, <2>2, <2>3, <2>5
  <2> QED
    BY <1>2, <2>2, <2>3, <2>4, <2>6
<1>3. CASE ~b
  <2>1. s = f
    BY <1>3, ConcatEmptySeq
  <2> QED
    BY <1>1, <1>3, <2>1
<1> QED
  BY <1>2, <1>3

LEMMA ActivationsAre == TypeOK => OneForEach
<1> SUFFICES ASSUME TypeOK PROVE OneForEach
  OBVIOUS
<1> DEFINE n == Len(frames)
           S == ActivationSet
           f == [k \in 1..n |-> ActivationOf(k)]
<1>1. n \in Nat
  BY Lengths
<1>2. f \in [1..n -> S] /\ Callee \in S /\ DOMAIN f = 1..n
  BY DEF ActivationSet
<1>3. \A k \in 1..n : f[k] = ActivationOf(k)
  OBVIOUS
<1>4. Activations = f \o (IF Entering THEN <<Callee>> ELSE <<>>) /\ Entering \in BOOLEAN
  BY DEF Activations, Entering
<1> HIDE DEF f, S, n
<1>5. f \in Seq(S)
  BY <1>1, <1>2, SeqDef
<1>6. Len(f) = n
  <2>1. Len(f) \in Nat /\ DOMAIN f = 1..Len(f)
    BY <1>5, LenProperties
  <2> QED
    BY <2>1, <1>1, <1>2, SameRange
<1>7. /\ Activations \in Seq(S) /\ Len(Activations) = n + (IF Entering THEN 1 ELSE 0)
      /\ \A k \in 1..n : Activations[k] = f[k]
      /\ Entering => Activations[n + 1] = Callee
  BY <1>2, <1>4, <1>5, <1>6, Glued
<1> QED
  BY <1>3, <1>7 DEF n, S, OneForEach

LEMMA ActivationsAreNext == TypeOK' => OneForEach'
BY ActivationsAre, PTL

-----------------------------------------------------------------------------
(* The variables of RapCalls.                                              *)

\* Those of the mapping.
Globals == SubSeq(stack, 1, NGlobals)
Acts == IF status = "running" THEN Activations ELSE <<>>
Result == IF status = "finished" THEN Top(1) ELSE 0

\* The running activation is that of the innermost frame.
LEMMA CurrentIs ==
  ASSUME Inv, status = "running", ~Entering
  PROVE  /\ Acts = Activations /\ Len(Acts) = Len(frames) /\ Len(frames) \in Nat \ {0}
         /\ \A k \in 1..Len(frames) : Acts[k] = ActivationOf(k)
         /\ Acts \in Seq(ActivationSet) /\ Acts # <<>>
         /\ Calls!Running /\ Calls!Current = ActivationOf(Len(frames))
         /\ Calls!Callers = SubSeq(Acts, 1, Len(frames) - 1)
<1>1. TypeOK /\ frames # <<>> /\ Len(frames) \in 1..Len(frames) /\ Len(frames) \in Nat
  BY HasFrame, Lengths DEF Inv
<1>2. OneForEach
  BY <1>1, ActivationsAre
<1>3. Acts = Activations
  BY DEF Acts
<1>4. Len(Acts) = Len(frames)
  BY <1>1, <1>2, <1>3 DEF OneForEach
<1>5. Acts # <<>>
  <2>1. Len(Acts) # 0
    BY <1>1, <1>4
  <2> QED
    BY <2>1, EmptySeq
<1>6. Calls!Running /\ Calls!Current = Acts[Len(Acts)]
      /\ Calls!Callers = SubSeq(Acts, 1, Len(Acts) - 1)
  BY <1>5 DEF Calls!Running, Calls!Current, Calls!Callers, Acts
<1> QED
  BY <1>1, <1>2, <1>3, <1>4, <1>5, <1>6 DEF OneForEach

-----------------------------------------------------------------------------
(* Activations that a step leaves alone.                                   *)

LEMMA SameActivation ==
  ASSUME TypeOK, NEW k \in 1..Len(frames), frames'[k] = frames[k],
         TempsEnd(k)' = TempsEnd(k), TempsEnd(k) \in Int, EndOf(frames[k]) <= TempsEnd(k),
         \A j \in (StartOf(frames[k]) + 1)..TempsEnd(k) : stack'[j] = stack[j]
  PROVE  ActivationOf(k)' = ActivationOf(k)
<1> DEFINE w == frames[k]
           a == StartOf(w)
           e == EndOf(w)
           z == TempsEnd(k)
<1>1. /\ w.fp \in Nat /\ e \in Nat /\ e >= w.fp + 5 /\ a \in Int /\ a <= w.fp
      /\ z \in Int /\ e <= z
  BY FrameTypes
<1>2. \A j \in (a + 1)..z : stack'[j] = stack[j]
  OBVIOUS
<1>3. StartOf(w)' = a /\ EndOf(w)' = e /\ w' = w /\ TempsEnd(k)' = z
  BY DEF StartOf, EndOf
<1> HIDE DEF a, e, z, w
<1>4. Part(stack', a + 1, w.fp) = Part(stack, a + 1, w.fp)
  <2>1. \A j \in (a + 1)..w.fp : j \in (a + 1)..z
    BY <1>1
  <2>2. a + 1 \in Int /\ w.fp \in Int /\ a + 1 <= w.fp + 1
    BY <1>1
  <2> QED
    BY <1>2, <2>1, <2>2, SamePart
<1>5. Part(stack', w.fp + 6, e) = Part(stack, w.fp + 6, e)
  <2>1. \A j \in (w.fp + 6)..e : j \in (a + 1)..z
    BY <1>1
  <2>2. w.fp + 6 \in Int /\ e \in Int /\ w.fp + 6 <= e + 1
    BY <1>1
  <2> QED
    BY <1>2, <2>1, <2>2, SamePart
<1>6. Part(stack', e + 1, z) = Part(stack, e + 1, z)
  <2>1. \A j \in (e + 1)..z : j \in (a + 1)..z
    BY <1>1
  <2>2. e + 1 \in Int /\ z \in Int /\ e + 1 <= z + 1
    BY <1>1
  <2> QED
    BY <1>2, <2>1, <2>2, SamePart
<1> QED
  BY <1>3, <1>4, <1>5, <1>6 DEF ActivationOf, Part, a, e, z, w

\* Where the activation of a frame ends that is not the innermost one.
LEMMA CallerPlaces ==
  ASSUME TypeOK, Stacked, NEW k \in 1..(Len(frames) - 1)
  PROVE  /\ k \in 1..Len(frames) /\ k + 1 \in 1..Len(frames) /\ k < Len(frames)
         /\ TempsEnd(k) = StartOf(frames[k + 1]) /\ TempsEnd(k) \in Int
         /\ EndOf(frames[k]) <= TempsEnd(k) /\ TempsEnd(k) <= StartOf(Innermost)
         /\ StartOf(frames[k]) >= NGlobals + 7
         /\ StartOf(Innermost) \in Int /\ StartOf(frames[k]) \in Int
<1> DEFINE n == Len(frames)
<1>1. n \in Nat
  BY Lengths
<1>2. k \in 1..n /\ k + 1 \in 1..n /\ k < n /\ n \in 1..n /\ k < k + 1
  BY <1>1
<1>3. /\ StartOf(frames[k + 1]) \in Int /\ StartOf(frames[n]) \in Int /\ StartOf(frames[k]) \in Int
      /\ EndOf(frames[k + 1]) \in Nat
      /\ StartOf(frames[k + 1]) <= frames[k + 1].fp /\ frames[k + 1].fp \in Nat
      /\ EndOf(frames[k + 1]) >= frames[k + 1].fp + 5
  BY <1>2, FrameTypes
<1>4. TempsEnd(k) = StartOf(frames[k + 1])
  BY <1>2 DEF TempsEnd
<1>5. EndOf(frames[k]) <= StartOf(frames[k + 1]) /\ StartOf(frames[k]) >= NGlobals + 7
  BY <1>2 DEF Stacked
<1>6. StartOf(frames[k + 1]) <= StartOf(frames[n])
  <2>1. CASE k + 1 = n
    BY <2>1, <1>3
  <2>2. CASE k + 1 # n
    <3>1. k + 1 < n
      BY <1>2, <1>1, <2>2
    <3>2. EndOf(frames[k + 1]) <= StartOf(frames[n])
      BY <3>1, <1>2 DEF Stacked
    <3> QED
      BY <3>2, <1>3
  <2> QED
    BY <2>1, <2>2
<1> QED
  BY <1>2, <1>3, <1>4, <1>5, <1>6 DEF Innermost

LEMMA CallerUnaffected ==
  ASSUME TypeOK, Stacked, NEW k \in 1..(Len(frames) - 1), k < Len(frames'),
         frames'[k] = frames[k], frames'[k + 1] = frames[k + 1],
         \A j \in (NGlobals + 8)..StartOf(Innermost) : stack'[j] = stack[j]
  PROVE  ActivationOf(k)' = ActivationOf(k)
<1>1. /\ k \in 1..Len(frames)
      /\ TempsEnd(k) = StartOf(frames[k + 1]) /\ TempsEnd(k) \in Int
      /\ EndOf(frames[k]) <= TempsEnd(k) /\ TempsEnd(k) <= StartOf(Innermost)
      /\ StartOf(frames[k]) >= NGlobals + 7
      /\ StartOf(Innermost) \in Int /\ StartOf(frames[k]) \in Int
  BY CallerPlaces
<1>2. TempsEnd(k)' = TempsEnd(k)
  BY <1>1 DEF TempsEnd, StartOf
<1>3. ASSUME NEW j \in (StartOf(frames[k]) + 1)..TempsEnd(k) PROVE stack'[j] = stack[j]
  <2>1. j \in (NGlobals + 8)..StartOf(Innermost)
    BY <1>1, StackAssumption
  <2> QED
    BY <2>1
<1> QED
  BY <1>1, <1>2, <1>3, SameActivation

-----------------------------------------------------------------------------
(* Instructions of a body.                                                 *)

LEMMA TopChanges ==
  ASSUME Inv, Inv', status = "running", ~Entering, UNCHANGED <<ip, status, frames>>,
         \A j \in (NGlobals + 8)..StartOf(Innermost) : stack'[j] = stack[j]
  PROVE  Acts' = Append(Calls!Callers, ActivationOf(Len(frames))') /\ Result' = Result
<1> DEFINE n == Len(frames)
           S == ActivationSet
           s == Activations
           T == ActivationSet'
           t == Activations'
<1>1. TypeOK /\ Stacked /\ TypeOK' /\ ~Entering' /\ Len(frames') = n
  BY DEF Inv, Entering
<1>2. /\ Acts = s /\ n \in Nat \ {0} /\ Calls!Callers = SubSeq(s, 1, n - 1)
  BY CurrentIs
<1>3. s \in Seq(S) /\ Len(s) = n + 0 /\ \A k \in 1..n : s[k] = ActivationOf(k)
  BY <1>1, ActivationsAre DEF OneForEach
<1>4. t \in Seq(T) /\ Len(t) = n + 0 /\ \A k \in 1..n : t[k] = ActivationOf(k)'
  BY <1>1, ActivationsAreNext DEF OneForEach
<1>5. ASSUME NEW k \in 1..(n - 1) PROVE ActivationOf(k)' = ActivationOf(k)
  <2>1. k < Len(frames')
    BY <1>1, <1>2
  <2> QED
    BY <1>1, <2>1, CallerUnaffected
<1>6. Acts' = t /\ Result' = Result
  BY DEF Acts, Result
<1> HIDE DEF s, t, S, T, n
<1>7. ASSUME NEW k \in 1..(n - 1) PROVE t[k] = s[k]
  <2>1. k \in 1..n
    BY <1>2
  <2>2. ActivationOf(k)' = ActivationOf(k)
    BY <1>5
  <2> QED
    BY <2>1, <2>2, <1>3, <1>4
<1>8. n - 1 \in Nat /\ Len(t) = n - 1 + 1 /\ n - 1 <= Len(s) /\ n - 1 + 1 = n /\ n \in 1..n
  BY <1>2, <1>3, <1>4
<1>9. t = Append(SubSeq(s, 1, n - 1), t[n])
  BY <1>3, <1>4, <1>7, <1>8, BeginsLike
<1>10. t[n] = ActivationOf(Len(frames))'
  <2>1. ASSUME NEW k \in 1..n, k = n PROVE t[k] = ActivationOf(k)'
    BY <1>4
  <2>2. \A k \in 1..Len(frames) : k = n => t[k] = ActivationOf(k)'
    BY <2>1 DEF n
  <2>3. Len(frames)' = Len(frames)
    OBVIOUS
  <2> QED
    BY <1>4, <1>8, <2>3 DEF n
<1> QED
  BY <1>2, <1>6, <1>9, <1>10 DEF n

\* The parts of the innermost frame.
Args == SubSeq(stack, StartOf(Innermost) + 1, Innermost.fp)
Locs == SubSeq(stack, Innermost.fp + 6, EndOf(Innermost))
Temps == SubSeq(stack, EndOf(Innermost) + 1, Len(stack))

InnermostMade ==
  [fun |-> Innermost.fun, args |-> Args, locals |-> Locs, temps |-> Temps, ret |-> Innermost.ret]

MadeOfParts == ~Entering => ActivationOf(Len(frames)) = InnermostMade

LEMMA InnermostIs == MadeOfParts
<1> SUFFICES ASSUME ~Entering PROVE ActivationOf(Len(frames)) = InnermostMade
  BY DEF MadeOfParts
<1>1. TempsEnd(Len(frames)) = Len(stack) - 0
  BY DEF TempsEnd
<1>2. Len(stack) - 0 = Len(stack)
  OBVIOUS
<1> QED
  BY <1>1, <1>2 DEF ActivationOf, Args, Locs, Temps, Innermost, InnermostMade

LEMMA InnermostIsNext == MadeOfParts'
BY InnermostIs, PTL

\* Where the innermost frame and its temporaries are.
LEMMA InnermostPlaces ==
  ASSUME Inv, status = "running", ~Entering
  PROVE  /\ TypeOK /\ Stacked /\ Current /\ Len(frames) \in 1..Len(frames)
         /\ StartOf(Innermost) \in Int /\ StartOf(Innermost) >= NGlobals + 7
         /\ StartOf(Innermost) <= Innermost.fp /\ Innermost.fp \in Nat
         /\ EndOf(Innermost) >= Innermost.fp + 5 /\ EndOf(Innermost) \in Nat
         /\ EndOf(Innermost) + depth <= Len(stack) /\ Len(stack) \in Nat /\ depth \in Nat
         /\ EndOf(Innermost) > NGlobals
<1>1. TypeOK /\ Stacked /\ Current
  BY DEF Inv, Running
<1>2. frames # <<>> /\ Len(frames) \in 1..Len(frames) /\ Len(stack) \in Nat /\ depth \in Nat
  BY <1>1, HasFrame, Lengths DEF TypeOK
<1>3. /\ StartOf(Innermost) \in Int /\ StartOf(Innermost) <= Innermost.fp /\ Innermost.fp \in Nat
      /\ EndOf(Innermost) >= Innermost.fp + 5 /\ EndOf(Innermost) \in Nat
  BY <1>1, <1>2, FrameTypes DEF Innermost
<1>4. StartOf(Innermost) >= NGlobals + 7
  BY <1>1, <1>2 DEF Stacked, Innermost
<1>5. EndOf(Innermost) + depth <= Len(stack)
  BY <1>1, <1>2 DEF Current
<1>6. EndOf(Innermost) > NGlobals
  BY <1>3, <1>4, StackAssumption
<1> QED
  BY <1>1, <1>2, <1>3, <1>4, <1>5, <1>6

\* The innermost activation is made anew of the slots of its frame.
LEMMA TopBecomes ==
  ASSUME Inv, Inv', status = "running", ~Entering, UNCHANGED <<ip, status, frames>>,
         \A j \in (NGlobals + 8)..StartOf(Innermost) : stack'[j] = stack[j]
  PROVE  /\ Calls!Current = InnermostMade
         /\ Acts' = Append(Calls!Callers, InnermostMade')
         /\ Result' = Result
<1>1. ActivationOf(Len(frames)) = InnermostMade
  BY InnermostIs DEF MadeOfParts
<1>2. ActivationOf(Len(frames))' = InnermostMade'
  BY InnermostIsNext DEF MadeOfParts, Entering
<1> QED
  BY <1>1, <1>2, CurrentIs, TopChanges

LEMMA GlobalsStay ==
  ASSUME \A j \in 1..NGlobals : stack'[j] = stack[j]
  PROVE  Globals' = Globals
<1>1. 1 \in Int /\ NGlobals \in Int /\ 1 <= NGlobals + 1
  BY StackAssumption
<1> QED
  BY <1>1, SamePart DEF Globals, Part

LEMMA ArgsStay ==
  ASSUME Inv, status = "running", ~Entering, UNCHANGED frames,
         \A j \in (StartOf(Innermost) + 1)..Innermost.fp : stack'[j] = stack[j]
  PROVE  Args' = Args
<1>1. StartOf(Innermost) \in Int /\ StartOf(Innermost) <= Innermost.fp /\ Innermost.fp \in Nat
  BY InnermostPlaces
<1>2. StartOf(Innermost)' = StartOf(Innermost) /\ Innermost' = Innermost
  BY DEF Innermost, StartOf
<1>3. /\ StartOf(Innermost) + 1 \in Int /\ Innermost.fp \in Int
      /\ StartOf(Innermost) + 1 <= Innermost.fp + 1
  BY <1>1
<1>4. Part(stack', StartOf(Innermost) + 1, Innermost.fp) = Part(stack, StartOf(Innermost) + 1, Innermost.fp)
  BY <1>3, SamePart
<1> QED
  BY <1>2, <1>4 DEF Args, Part

LEMMA LocsStay ==
  ASSUME Inv, status = "running", ~Entering, UNCHANGED frames,
         \A j \in (Innermost.fp + 6)..EndOf(Innermost) : stack'[j] = stack[j]
  PROVE  Locs' = Locs
<1>1. EndOf(Innermost) \in Nat /\ EndOf(Innermost) >= Innermost.fp + 5 /\ Innermost.fp \in Nat
  BY InnermostPlaces
<1>2. EndOf(Innermost)' = EndOf(Innermost) /\ Innermost' = Innermost
  BY DEF Innermost, EndOf
<1>3. /\ Innermost.fp + 6 \in Int /\ EndOf(Innermost) \in Int
      /\ Innermost.fp + 6 <= EndOf(Innermost) + 1
  BY <1>1
<1>4. Part(stack', Innermost.fp + 6, EndOf(Innermost)) = Part(stack, Innermost.fp + 6, EndOf(Innermost))
  BY <1>3, SamePart
<1> QED
  BY <1>2, <1>4 DEF Locs, Part

\* An instruction that changes nothing but temporaries.
LEMMA TempsChange ==
  ASSUME Inv, Inv', status = "running", ~Entering, UNCHANGED <<ip, status, frames>>,
         \A j \in 1..EndOf(Innermost) : stack'[j] = stack[j]
  PROVE  /\ Calls!Running /\ Calls!Current = InnermostMade /\ Calls!Current.temps = Temps
         /\ Acts' = Calls!With(Temps') /\ Globals' = Globals /\ Result' = Result
<1> DEFINE a == StartOf(Innermost)
           p == Innermost.fp
           e == EndOf(Innermost)
<1>1. a \in Int /\ a >= NGlobals + 7 /\ a <= p /\ p \in Nat /\ e >= p + 5 /\ e \in Nat
  BY InnermostPlaces
<1>2. \A j \in 1..e : stack'[j] = stack[j]
  OBVIOUS
<1> HIDE DEF a, p, e
<1>3. /\ \A j \in (NGlobals + 8)..a : j \in 1..e
      /\ \A j \in 1..NGlobals : j \in 1..e
      /\ \A j \in (a + 1)..p : j \in 1..e
      /\ \A j \in (p + 6)..e : j \in 1..e
  BY <1>1, StackAssumption
<1>4. Args' = Args /\ Locs' = Locs /\ Globals' = Globals
  BY <1>2, <1>3, ArgsStay, LocsStay, GlobalsStay DEF a, p, e
<1>5. /\ Calls!Current = InnermostMade /\ Result' = Result
      /\ Acts' = Append(Calls!Callers, InnermostMade')
  BY <1>2, <1>3, TopBecomes DEF a
<1>6. InnermostMade' = [InnermostMade EXCEPT !.temps = Temps'] /\ InnermostMade.temps = Temps
  BY <1>4 DEF InnermostMade, Innermost
<1>7. Calls!Running
  BY CurrentIs
<1> QED
  BY <1>4, <1>5, <1>6, <1>7 DEF Calls!With

-----------------------------------------------------------------------------
(* Errors.                                                                 *)

LEMMA IsRunning ==
  ASSUME Inv, status = "running"
  PROVE  Calls!Running
<1>1. TypeOK /\ Len(frames) \in Nat
  BY Lengths DEF Inv
<1>2. OneForEach
  BY <1>1, ActivationsAre
<1>3. CASE Entering
  <2>1. Len(Activations) # 0
    BY <1>1, <1>2, <1>3 DEF OneForEach
  <2>2. Activations # <<>>
    BY <2>1, EmptySeq
  <2> QED
    BY <2>2 DEF Calls!Running
<1> QED
  BY <1>3, CurrentIs

LEMMA FailIs ==
  ASSUME Inv, status = "running", status' = "error", instr' = instr,
         \A j \in 1..NGlobals : stack'[j] = stack[j]
  PROVE  Calls!Fail
<1>1. Calls!Running
  BY IsRunning
<1>2. Globals' = Globals
  BY GlobalsStay
<1> QED
  BY <1>1, <1>2 DEF Calls!Fail, Globals

-----------------------------------------------------------------------------
(* Instructions of a body, one by one.                                     *)

LEMMA TempsAre ==
  ASSUME Inv, status = "running", ~Entering
  PROVE  /\ Len(Temps) = Len(stack) - EndOf(Innermost) /\ Len(Temps) \in Nat
         /\ \A j \in 1..Len(Temps) : Temps[j] = stack[EndOf(Innermost) + j]
         /\ Len(Temps) >= depth
         /\ depth >= 1 => Temps # <<>> /\ Temps[Len(Temps)] = Top(1)
<1> DEFINE l == Len(stack)
           e == EndOf(Innermost)
<1>1. l \in Nat /\ e \in Nat /\ depth \in Nat /\ e + depth <= l
  BY InnermostPlaces
<1>2. Temps = SubSeq(stack, e + 1, l) /\ Top(1) = stack[l + 1 - 1]
  BY DEF Temps, Top
<1> HIDE DEF l, e
<1>3. e + 1 \in Int /\ l \in Int
  BY <1>1
<1>4. /\ Len(Temps) = IF e + 1 <= l THEN l - (e + 1) + 1 ELSE 0
      /\ \A j \in 1..(l - (e + 1) + 1) : Temps[j] = stack[e + 1 + j - 1]
      /\ Temps \in Seq({stack[i] : i \in (e + 1)..l})
  BY <1>2, <1>3, PartOf
<1>5. l - (e + 1) + 1 = l - e /\ (IF e + 1 <= l THEN l - (e + 1) + 1 ELSE 0) = l - e
      /\ l - e \in Nat /\ l - e >= depth /\ \A j \in 1..(l - e) : e + 1 + j - 1 = e + j
  BY <1>1
<1>6. Len(Temps) = l - e /\ \A j \in 1..(l - e) : Temps[j] = stack[e + j]
  BY <1>4, <1>5
<1>7. ASSUME depth >= 1 PROVE Temps # <<>> /\ Temps[Len(Temps)] = Top(1)
  <2>1. l - e \in 1..(l - e) /\ e + (l - e) = l + 1 - 1 /\ l - e # 0
    BY <1>1, <1>7
  <2>2. Temps # <<>>
    BY <1>6, <2>1, EmptySeq
  <2>3. Temps[l - e] = stack[e + (l - e)]
    BY <1>6, <2>1
  <2> QED
    BY <1>2, <1>6, <2>1, <2>2, <2>3
<1> QED
  BY <1>5, <1>6, <1>7 DEF l, e

LEMMA PushIs ==
  ASSUME Inv, Inv', NEW v \in Slot, NEW what, Executing(0), Push(v, what)
  PROVE  Calls!Fail \/ (Calls!Push(v) /\ instr' = what)
<1>1. Inv /\ status = "running" /\ ~Entering /\ stack \in Seq(Slot)
  BY DEF Executing, Inv, TypeOK
<1>2. CASE Fail(stack)
  BY <1>1, <1>2, FailIs DEF Fail, history
<1>3. CASE /\ stack' = Append(stack, v) /\ instr' = what
           /\ UNCHANGED <<regs, ip, status, frames>>
  <2> DEFINE l == Len(stack)
             e == EndOf(Innermost)
  <2>1. l \in Nat /\ e \in Nat /\ depth \in Nat /\ e + depth <= l
    BY <1>1, InnermostPlaces
  <2>2. Len(stack') = l + 1 /\ stack'[l + 1] = v /\ \A j \in 1..l : stack'[j] = stack[j]
    BY <1>1, <1>3
  <2>3. EndOf(Innermost)' = e
    BY <1>3 DEF Innermost, EndOf
  <2>4. Temps = SubSeq(stack, e + 1, l) /\ Temps' = SubSeq(stack', e + 1, l + 1)
    BY <2>2, <2>3 DEF Temps
  <2> HIDE DEF l, e
  <2>5. /\ e + 1 \in Int /\ l \in Int /\ e + 1 <= l + 1
        /\ \A j \in (e + 1)..l : j \in 1..l
        /\ \A j \in 1..e : j \in 1..l
    BY <2>1
  <2>6. \A j \in (e + 1)..l : stack'[j] = stack[j]
    BY <2>2, <2>5
  <2>7. Temps' = Append(Temps, v)
    BY <2>2, <2>4, <2>5, <2>6, LongerPart
  <2>8. \A j \in 1..e : stack'[j] = stack[j]
    BY <2>2, <2>5
  <2>9. /\ Calls!Running /\ Calls!Current.temps = Temps
        /\ Acts' = Calls!With(Temps') /\ Globals' = Globals /\ Result' = Result
    BY <1>1, <1>3, <2>8, TempsChange DEF e
  <2> QED
    BY <1>3, <2>7, <2>9 DEF Calls!Push, Acts, Globals, Result
<1> QED
  BY <1>2, <1>3 DEF Push

LEMMA MakeIs ==
  ASSUME Inv, Inv', NEW v \in Value, Make(v)
  PROVE  Calls!Next
<1>1. v \in Slot
  BY DEF Value, Callable, Slot
<1>2. Calls!Fail \/ Calls!Make(v)
  BY <1>1, PushIs DEF Make, Calls!Make
<1> QED
  BY <1>2 DEF Calls!Next

\* The variables of the running body, each in its part of the stack.
LEMMA VariablesAre ==
  ASSUME Inv, status = "running", ~Entering, NEW i \in Nat
  PROVE  /\ i < NGlobals => Globals[i + 1] = At(i) /\ i + 1 \in 1..Len(stack)
         /\ argc = Arity[Innermost.fun]
         /\ i < argc => Args[i + 1] = At(ArgSlot(i)) /\ ArgSlot(i) + 1 \in 1..Len(stack)
         /\ locc = Locals[Innermost.fun]
         /\ i < locc => Locs[i + 1] = At(LocalSlot(i)) /\ LocalSlot(i) + 1 \in 1..Len(stack)
<1> DEFINE a == StartOf(Innermost)
           p == Innermost.fp
           e == EndOf(Innermost)
           l == Len(stack)
<1>1. /\ a \in Int /\ a >= NGlobals + 7 /\ a <= p /\ p \in Nat /\ e >= p + 5 /\ e \in Nat
      /\ l \in Nat /\ e <= l
  <2>1. a \in Int /\ a >= NGlobals + 7 /\ a <= p /\ p \in Nat /\ e >= p + 5 /\ e \in Nat
        /\ l \in Nat /\ depth \in Nat /\ e + depth <= l
    BY InnermostPlaces
  <2> HIDE DEF a, p, e, l
  <2> QED
    BY <2>1
<1>2. TypeOK /\ fp = p /\ argc = Arity[Innermost.fun] /\ locc = Locals[Innermost.fun]
  BY InnermostPlaces, HasFrame DEF Current
<1>3. a = p - argc /\ e = p + 5 + locc /\ argc \in Nat /\ locc \in Nat
  BY <1>2 DEF StartOf, EndOf, TypeOK
<1>4. /\ Globals = SubSeq(stack, 1, NGlobals) /\ Args = SubSeq(stack, a + 1, p)
      /\ Locs = SubSeq(stack, p + 6, e)
  BY DEF Globals, Args, Locs
<1>5. /\ At(i) = stack[i + 1] /\ At(ArgSlot(i)) = stack[ArgSlot(i) + 1]
      /\ At(LocalSlot(i)) = stack[LocalSlot(i) + 1]
      /\ ArgSlot(i) = p - argc + i /\ LocalSlot(i) = p + 5 + i
  BY <1>2 DEF At, ArgSlot, LocalSlot
<1> HIDE DEF a, p, e, l
<1>6. ASSUME i < NGlobals PROVE Globals[i + 1] = At(i) /\ i + 1 \in 1..l
  <2>1. i + 1 \in 1..(NGlobals - 1 + 1) /\ 1 + (i + 1) - 1 = i + 1 /\ i + 1 \in 1..l
    BY <1>1, <1>6, StackAssumption
  <2>2. 1 \in Int /\ NGlobals \in Int
    BY StackAssumption
  <2>3. Globals[i + 1] = stack[1 + (i + 1) - 1]
    BY <1>4, <2>1, <2>2, PartOf
  <2> QED
    BY <1>5, <2>1, <2>3
<1>7. ASSUME i < argc PROVE Args[i + 1] = At(ArgSlot(i)) /\ ArgSlot(i) + 1 \in 1..l
  <2>1. /\ i + 1 \in 1..(p - (a + 1) + 1) /\ a + 1 + (i + 1) - 1 = p - argc + i + 1
        /\ p - argc + i + 1 \in 1..l
    BY <1>1, <1>3, <1>7, StackAssumption
  <2>2. a + 1 \in Int /\ p \in Int
    BY <1>1
  <2>3. Args[i + 1] = stack[a + 1 + (i + 1) - 1]
    BY <1>4, <2>1, <2>2, PartOf
  <2> QED
    BY <1>5, <2>1, <2>3
<1>8. ASSUME i < locc PROVE Locs[i + 1] = At(LocalSlot(i)) /\ LocalSlot(i) + 1 \in 1..l
  <2>1. /\ i + 1 \in 1..(e - (p + 6) + 1) /\ p + 6 + (i + 1) - 1 = p + 5 + i + 1
        /\ p + 5 + i + 1 \in 1..l
    BY <1>1, <1>3, <1>8, StackAssumption
  <2>2. p + 6 \in Int /\ e \in Int
    BY <1>1
  <2>3. Locs[i + 1] = stack[p + 6 + (i + 1) - 1]
    BY <1>4, <2>1, <2>2, PartOf
  <2> QED
    BY <1>5, <2>1, <2>3
<1> QED
  BY <1>2, <1>6, <1>7, <1>8 DEF l

\* A load of the slot that a variable is in.
LEMMA LoadSlotIs ==
  ASSUME Inv, Inv', NEW slot, NEW i, NEW count, NEW what, Load(slot, i, count, what),
         i < count => slot + 1 \in 1..Len(stack)
  PROVE  \/ Calls!Fail
         \/ i < count /\ Calls!Push(At(slot)) /\ instr' = <<what, i>>
<1>1. TypeOK /\ status = "running" /\ Executing(0)
  BY DEF Inv, Load, Executing
<1>2. CASE Fail(stack)
  BY <1>1, <1>2, FailIs DEF Fail, history
<1>3. CASE i < count /\ Push(At(slot), <<what, i>>)
  <2>1. At(slot) \in Slot
    BY <1>1, <1>3, ElementOfSeq DEF TypeOK, At
  <2> QED
    BY <1>1, <1>3, <2>1, PushIs
<1> QED
  BY <1>2, <1>3 DEF Load

LEMMA LoadIs ==
  ASSUME Inv, Inv', NEW i \in Index, LoadGlobal(i) \/ LoadArg(i) \/ LoadLocal(i)
  PROVE  Calls!Next
<1>1. status = "running" /\ ~Entering /\ i \in Nat
  <2>1. Executing(0)
    BY DEF LoadGlobal, LoadArg, LoadLocal, Load
  <2> QED
    BY <2>1, StackAssumption DEF Executing, Index
<1>2. Calls!Running /\ Calls!Current = InnermostMade
  BY <1>1, InnermostIs, CurrentIs DEF MadeOfParts
<1>3. /\ i < NGlobals => Globals[i + 1] = At(i) /\ i + 1 \in 1..Len(stack)
      /\ argc = Arity[Innermost.fun]
      /\ i < argc => Args[i + 1] = At(ArgSlot(i)) /\ ArgSlot(i) + 1 \in 1..Len(stack)
      /\ locc = Locals[Innermost.fun]
      /\ i < locc => Locs[i + 1] = At(LocalSlot(i)) /\ LocalSlot(i) + 1 \in 1..Len(stack)
  BY <1>1, VariablesAre
<1>4. InnermostMade.fun = Innermost.fun /\ InnermostMade.args = Args /\ InnermostMade.locals = Locs
  BY DEF InnermostMade
<1>5. CASE LoadGlobal(i)
  <2>1. Calls!Fail \/ (i < NGlobals /\ Calls!Push(At(i)) /\ instr' = <<"LOAD global", i>>)
    BY <1>3, <1>5, LoadSlotIs DEF LoadGlobal
  <2>2. Calls!Fail \/ Calls!LoadGlobal(i)
    BY <1>3, <2>1 DEF Calls!LoadGlobal, Globals
  <2> QED
    BY <2>2 DEF Calls!Next
<1>6. CASE LoadArg(i)
  <2>1. Calls!Fail \/ (i < argc /\ Calls!Push(At(ArgSlot(i))) /\ instr' = <<"LOAD arg", i>>)
    BY <1>3, <1>6, LoadSlotIs DEF LoadArg
  <2>2. Calls!Fail \/ Calls!LoadArg(i)
    BY <1>2, <1>3, <1>4, <2>1 DEF Calls!LoadArg
  <2> QED
    BY <2>2 DEF Calls!Next
<1>7. CASE LoadLocal(i)
  <2>1. Calls!Fail \/ (i < locc /\ Calls!Push(At(LocalSlot(i))) /\ instr' = <<"LOAD local", i>>)
    BY <1>3, <1>7, LoadSlotIs DEF LoadLocal
  <2>2. Calls!Fail \/ Calls!LoadLocal(i)
    BY <1>2, <1>3, <1>4, <2>1 DEF Calls!LoadLocal
  <2> QED
    BY <2>2 DEF Calls!Next
<1> QED
  BY <1>5, <1>6, <1>7

\* An instruction that takes one value.
LEMMA TempsPopped ==
  ASSUME Inv, status = "running", ~Entering, depth >= 1, UNCHANGED frames,
         Len(stack') = Len(stack) - 1,
         \A j \in (EndOf(Innermost) + 1)..(Len(stack) - 1) : stack'[j] = stack[j]
  PROVE  /\ Temps # <<>> /\ Temps[Len(Temps)] = Top(1)
         /\ Temps' = Calls!Rest(Temps, 1)
<1> DEFINE l == Len(stack)
           e == EndOf(Innermost)
           m == Len(Temps) - 1
           p == e + 1
           q == l - 1
<1>1. l \in Nat /\ e \in Nat /\ depth \in Nat /\ e + depth <= l
  BY InnermostPlaces
<1>2. /\ Len(Temps) = l - e /\ Len(Temps) \in Nat /\ Temps # <<>> /\ Temps[Len(Temps)] = Top(1)
      /\ \A j \in 1..Len(Temps) : Temps[j] = stack[e + j]
  BY TempsAre
<1>3. \A j \in p..q : stack'[j] = stack[j]
  OBVIOUS
<1>4. EndOf(Innermost)' = e
  BY DEF Innermost, EndOf
<1>5. Temps' = SubSeq(stack', p, q)
  BY <1>4 DEF Temps
<1> HIDE DEF l, e
<1>6. m = l - e - 1 /\ m \in Nat
  BY <1>1, <1>2
<1>7. p \in Int /\ q \in Int /\ m \in Nat /\ m = q - p + 1 /\ m = m - 1 + 1
  BY <1>1, <1>6
<1>8. ASSUME NEW j \in 1..m PROVE Temps[1 + j - 1] = stack'[p + j - 1]
  <2>1. /\ j \in Int /\ 1 + j - 1 = j /\ j \in 1..(l - e)
        /\ p + j - 1 = e + j /\ e + j \in p..q
    BY <1>1, <1>6
  <2> QED
    BY <1>2, <1>3, <2>1
<1> HIDE DEF m, p, q
<1>9. Part(Temps, 1, m) = Part(stack', p, q)
  <2>1. Moved(Temps, 1, m, stack', p, q)
    <3>1. 1..(m - 1 + 1) = 1..m /\ 1 \in Int /\ m \in Int /\ m + 1 >= 1 /\ m - 1 = q - p
      BY <1>7
    <3> QED
      BY <1>7, <1>8, <3>1 DEF Moved
  <2> QED
    BY <2>1, MovedPart
<1> QED
  BY <1>2, <1>5, <1>9 DEF m, Calls!Rest, Part

LEMMA DropIs ==
  ASSUME Inv, Inv', Drop
  PROVE  Calls!Next
<1> DEFINE l == Len(stack)
           e == EndOf(Innermost)
<1>1. status = "running" /\ ~Entering /\ depth >= 1
  BY DEF Drop, Executing
<1>2. l \in Nat /\ e \in Nat /\ depth \in Nat /\ e + depth <= l /\ TypeOK
  BY <1>1, InnermostPlaces
<1>3. /\ instr' = <<"DROP", 0>> /\ UNCHANGED <<ip, status, frames>> /\ stack' = Below(1)
  BY DEF Drop
<1>4. Len(stack') = l - 1 /\ \A j \in 1..(l - 1) : stack'[j] = stack[j]
  <2>1. 1 \in 0..Len(stack)
    BY <1>1, <1>2
  <2> QED
    BY <1>2, <1>3, <2>1, BelowTop
<1> HIDE DEF l, e
<1>5. (\A j \in 1..e : j \in 1..(l - 1)) /\ (\A j \in (e + 1)..(l - 1) : j \in 1..(l - 1))
  BY <1>1, <1>2
<1>6. Temps # <<>> /\ Temps' = Calls!Rest(Temps, 1)
  BY <1>1, <1>3, <1>4, <1>5, TempsPopped DEF l, e
<1>7. /\ Calls!Running /\ Calls!Current.temps = Temps
      /\ Acts' = Calls!With(Temps') /\ Globals' = Globals /\ Result' = Result
  BY <1>1, <1>3, <1>4, <1>5, TempsChange DEF e
<1>8. Calls!Drop
  BY <1>3, <1>6, <1>7 DEF Calls!Drop, Acts, Globals, Result
<1> QED
  BY <1>8 DEF Calls!Next

\* A store pops its value before it looks for the slot.
LEMMA StoreSlotIs ==
  ASSUME Inv, Inv', NEW slot, NEW i, NEW count, NEW what, Store(slot, i, count, what),
         i < count => slot + 1 \in 1..EndOf(Innermost)
  PROVE  \/ Calls!Fail
         \/ /\ i < count /\ slot + 1 \in 1..EndOf(Innermost) /\ instr' = <<what, i>>
            /\ UNCHANGED <<ip, status, frames>>
            /\ Temps # <<>> /\ Temps[Len(Temps)] = Top(1) /\ Temps' = Calls!Rest(Temps, 1)
            /\ \A j \in 1..EndOf(Innermost) :
                 stack'[j] = IF j = slot + 1 THEN Top(1) ELSE stack[j]
<1> DEFINE l == Len(stack)
           e == EndOf(Innermost)
<1>1. status = "running" /\ ~Entering /\ depth >= 1
  BY DEF Store, Executing
<1>2. l \in Nat /\ e \in Nat /\ depth \in Nat /\ e + depth <= l /\ TypeOK /\ e > NGlobals
  BY <1>1, InnermostPlaces
<1>3. /\ Below(1) \in Seq(Slot) /\ Len(Below(1)) = l - 1
      /\ \A j \in 1..(l - 1) : Below(1)[j] = stack[j]
  <2>1. 1 \in 0..Len(stack)
    BY <1>1, <1>2
  <2> QED
    BY <1>2, <2>1, BelowTop
<1>4. Top(1) \in Slot
  <2>1. Len(stack) + 1 - 1 \in 1..Len(stack)
    BY <1>1, <1>2
  <2> QED
    BY <1>2, <2>1, ElementOfSeq DEF TypeOK, Top
<1> HIDE DEF l, e
<1>6. /\ \A j \in 1..e : j \in 1..(l - 1)
      /\ \A j \in 1..NGlobals : j \in 1..(l - 1)
      /\ \A j \in (e + 1)..(l - 1) : j \in 1..(l - 1) /\ j \notin 1..e
  BY <1>1, <1>2, StackAssumption
<1>7. CASE Fail(Below(1))
  <2>1. \A j \in 1..NGlobals : stack'[j] = stack[j]
    BY <1>3, <1>6, <1>7 DEF Fail
  <2> QED
    BY <1>1, <1>7, <2>1, FailIs DEF Fail, history
<1>8. CASE /\ i < count /\ stack' = [Below(1) EXCEPT ![slot + 1] = Top(1)]
           /\ instr' = <<what, i>> /\ UNCHANGED <<regs, ip, status, frames>>
  <2>1. slot + 1 \in 1..e /\ slot + 1 \in 1..Len(Below(1))
    BY <1>3, <1>6, <1>8 DEF e
  <2>2. Len(stack') = l - 1
        /\ \A j \in 1..(l - 1) : stack'[j] = IF j = slot + 1 THEN Top(1) ELSE stack[j]
    BY <1>3, <1>4, <1>8, <2>1, ExceptSeq
  <2>3. \A j \in (e + 1)..(l - 1) : stack'[j] = stack[j]
    <3> SUFFICES ASSUME NEW j \in (e + 1)..(l - 1) PROVE stack'[j] = stack[j]
      OBVIOUS
    <3>1. j \in 1..(l - 1) /\ j # slot + 1
      BY <1>6, <2>1
    <3> QED
      BY <2>2, <3>1
  <2>4. Temps # <<>> /\ Temps[Len(Temps)] = Top(1) /\ Temps' = Calls!Rest(Temps, 1)
    BY <1>1, <1>8, <2>2, <2>3, TempsPopped DEF l, e
  <2>5. \A j \in 1..e : stack'[j] = IF j = slot + 1 THEN Top(1) ELSE stack[j]
    BY <1>6, <2>2
  <2> QED
    BY <1>8, <2>1, <2>4, <2>5 DEF e
<1> QED
  BY <1>7, <1>8 DEF Store

\* One element of a part.
Put(s, k, v) == [s EXCEPT ![k] = v]

LEMMA ExceptPart ==
  ASSUME NEW s, NEW t, NEW m \in Int, NEW n \in Int, NEW k \in 1..(n - m + 1), NEW v,
         \A j \in m..n : t[j] = IF j = m + k - 1 THEN v ELSE s[j]
  PROVE  Part(t, m, n) = Put(Part(s, m, n), k, v)
<1> DEFINE S == {s[i] : i \in m..n}
           T == S \cup {v}
           u == SubSeq(s, m, n)
           w == [u EXCEPT ![k] = v]
           l == n - m + 1
<1>1. u \in Seq(S) /\ Len(u) = (IF m <= n THEN l ELSE 0)
      /\ \A i \in 1..l : u[i] = s[m + i - 1]
  BY PartOf, SMTT(30)
<1>2. l \in Nat /\ k \in 1..l /\ m <= n /\ l = n - m + 1
  OBVIOUS
<1> HIDE DEF u, S, l
<1>3. u \in Seq(T) /\ Len(u) = l /\ v \in T
  BY <1>1, <1>2, SeqMonotonic
<1>4. w \in Seq(T) /\ Len(w) = l /\ \A i \in 1..l : w[i] = IF i = k THEN v ELSE u[i]
  BY <1>2, <1>3, ExceptSeq
<1>5. ASSUME NEW i \in 1..l PROVE w[i] = t[m + i - 1]
  <2>1. m + i - 1 \in m..n /\ (m + i - 1 = m + k - 1 <=> i = k)
    BY <1>2
  <2> QED
    BY <1>1, <1>4, <2>1
<1> HIDE DEF w, T
<1>6. SubSeq(t, m, n) = w
  BY <1>2, <1>4, <1>5, IsPart, SMTT(30)
<1> QED
  BY <1>6 DEF w, u, Put, Part

\* Where the variables of the running body are.
LEMMA SlotPlaces ==
  ASSUME Inv, status = "running", ~Entering, NEW i \in Nat
  PROVE  /\ i < NGlobals => i + 1 \in 1..EndOf(Innermost) /\ i + 1 \in 1..NGlobals
         /\ argc = Arity[Innermost.fun] /\ locc = Locals[Innermost.fun]
         /\ i < argc => /\ ArgSlot(i) + 1 \in (StartOf(Innermost) + 1)..Innermost.fp
                        /\ ArgSlot(i) + 1 \in 1..EndOf(Innermost)
                        /\ ArgSlot(i) + 1 = StartOf(Innermost) + 1 + (i + 1) - 1
                        /\ i + 1 \in 1..(Innermost.fp - (StartOf(Innermost) + 1) + 1)
         /\ i < locc => /\ LocalSlot(i) + 1 \in (Innermost.fp + 6)..EndOf(Innermost)
                        /\ LocalSlot(i) + 1 \in 1..EndOf(Innermost)
                        /\ LocalSlot(i) + 1 = Innermost.fp + 6 + (i + 1) - 1
                        /\ i + 1 \in 1..(EndOf(Innermost) - (Innermost.fp + 6) + 1)
<1> DEFINE a == StartOf(Innermost)
           p == Innermost.fp
           e == EndOf(Innermost)
<1>1. a \in Int /\ a >= NGlobals + 7 /\ a <= p /\ p \in Nat /\ e >= p + 5 /\ e \in Nat
  BY InnermostPlaces
<1>2. TypeOK /\ fp = p /\ argc = Arity[Innermost.fun] /\ locc = Locals[Innermost.fun]
  BY InnermostPlaces, HasFrame DEF Current
<1>3. a = p - argc /\ e = p + 5 + locc /\ argc \in Nat /\ locc \in Nat
  BY <1>2 DEF StartOf, EndOf, TypeOK
<1>4. ArgSlot(i) = p - argc + i /\ LocalSlot(i) = p + 5 + i
  BY <1>2 DEF ArgSlot, LocalSlot
<1> HIDE DEF a, p, e
<1>5. i < NGlobals => i + 1 \in 1..e /\ i + 1 \in 1..NGlobals
  BY <1>1, StackAssumption
<1>6. i < argc => /\ ArgSlot(i) + 1 \in (a + 1)..p /\ ArgSlot(i) + 1 \in 1..e
                  /\ ArgSlot(i) + 1 = a + 1 + (i + 1) - 1
                  /\ i + 1 \in 1..(p - (a + 1) + 1)
  BY <1>1, <1>3, <1>4, StackAssumption
<1>7. i < locc => /\ LocalSlot(i) + 1 \in (p + 6)..e /\ LocalSlot(i) + 1 \in 1..e
                  /\ LocalSlot(i) + 1 = p + 6 + (i + 1) - 1
                  /\ i + 1 \in 1..(e - (p + 6) + 1)
  BY <1>1, <1>3, <1>4
<1> QED
  BY <1>2, <1>5, <1>6, <1>7 DEF a, p, e

\* What a store leaves alone.
LEMMA StoreLeaves ==
  ASSUME Inv, status = "running", ~Entering, UNCHANGED frames, NEW q \in Int, NEW v,
         \A j \in 1..EndOf(Innermost) : stack'[j] = IF j = q THEN v ELSE stack[j]
  PROVE  /\ q \notin 1..NGlobals => Globals' = Globals
         /\ q \notin (StartOf(Innermost) + 1)..Innermost.fp => Args' = Args
         /\ q \notin (Innermost.fp + 6)..EndOf(Innermost) => Locs' = Locs
         /\ q \notin (NGlobals + 8)..StartOf(Innermost) =>
              \A j \in (NGlobals + 8)..StartOf(Innermost) : stack'[j] = stack[j]
<1> DEFINE a == StartOf(Innermost)
           p == Innermost.fp
           e == EndOf(Innermost)
<1>1. a \in Int /\ a >= NGlobals + 7 /\ a <= p /\ p \in Nat /\ e >= p + 5 /\ e \in Nat
  BY InnermostPlaces
<1>2. \A j \in 1..e : j # q => stack'[j] = stack[j]
  OBVIOUS
<1> HIDE DEF a, p, e
<1>3. /\ \A j \in (NGlobals + 8)..a : j \in 1..e
      /\ \A j \in 1..NGlobals : j \in 1..e
      /\ \A j \in (a + 1)..p : j \in 1..e
      /\ \A j \in (p + 6)..e : j \in 1..e
  BY <1>1, StackAssumption
<1>4. ASSUME q \notin 1..NGlobals PROVE Globals' = Globals
  BY <1>2, <1>3, <1>4, GlobalsStay
<1>5. ASSUME q \notin (a + 1)..p PROVE Args' = Args
  BY <1>2, <1>3, <1>5, ArgsStay DEF a, p
<1>6. ASSUME q \notin (p + 6)..e PROVE Locs' = Locs
  BY <1>2, <1>3, <1>6, LocsStay DEF e, p
<1>7. ASSUME q \notin (NGlobals + 8)..a
      PROVE  \A j \in (NGlobals + 8)..a : stack'[j] = stack[j]
  BY <1>2, <1>3, <1>7
<1> QED
  BY <1>4, <1>5, <1>6, <1>7 DEF a, p, e

\* Slots of one kind are none of the others.
LEMMA SlotsApart ==
  ASSUME Inv, status = "running", ~Entering, NEW q \in Int
  PROVE  /\ q \in 1..NGlobals =>
              /\ q \notin (StartOf(Innermost) + 1)..Innermost.fp
              /\ q \notin (Innermost.fp + 6)..EndOf(Innermost)
              /\ q \notin (NGlobals + 8)..StartOf(Innermost)
         /\ q \in (StartOf(Innermost) + 1)..Innermost.fp =>
              /\ q \notin 1..NGlobals
              /\ q \notin (Innermost.fp + 6)..EndOf(Innermost)
              /\ q \notin (NGlobals + 8)..StartOf(Innermost)
         /\ q \in (Innermost.fp + 6)..EndOf(Innermost) =>
              /\ q \notin 1..NGlobals
              /\ q \notin (StartOf(Innermost) + 1)..Innermost.fp
              /\ q \notin (NGlobals + 8)..StartOf(Innermost)
<1> DEFINE a == StartOf(Innermost)
           p == Innermost.fp
           e == EndOf(Innermost)
<1>1. a \in Int /\ a >= NGlobals + 7 /\ a <= p /\ p \in Nat /\ e >= p + 5 /\ e \in Nat
  BY InnermostPlaces
<1> HIDE DEF a, p, e
<1>2. /\ q \in 1..NGlobals =>
           q \notin (a + 1)..p /\ q \notin (p + 6)..e /\ q \notin (NGlobals + 8)..a
      /\ q \in (a + 1)..p =>
           q \notin 1..NGlobals /\ q \notin (p + 6)..e /\ q \notin (NGlobals + 8)..a
      /\ q \in (p + 6)..e =>
           q \notin 1..NGlobals /\ q \notin (a + 1)..p /\ q \notin (NGlobals + 8)..a
  BY <1>1, StackAssumption
<1> QED
  BY <1>2 DEF a, p, e

\* A record with another value in it.
MadeOf(f, a, l, t, r) == [fun |-> f, args |-> a, locals |-> l, temps |-> t, ret |-> r]
WithTemps(w, x) == [w EXCEPT !.temps = x]
WithArg(w, x, k, v) == [w EXCEPT !.temps = x, !.args[k] = v]
WithLocal(w, x, k, v) == [w EXCEPT !.temps = x, !.locals[k] = v]

LEMMA TempsAnew ==
  ASSUME NEW f, NEW a, NEW l, NEW t, NEW r, NEW x
  PROVE  WithTemps(MadeOf(f, a, l, t, r), x) = MadeOf(f, a, l, x, r)
BY DEF MadeOf, WithTemps

LEMMA MadeAnew ==
  ASSUME NEW f, NEW a, NEW l, NEW t, NEW r, NEW k, NEW v, NEW x
  PROVE  /\ WithArg(MadeOf(f, a, l, t, r), x, k, v) = MadeOf(f, Put(a, k, v), l, x, r)
         /\ WithLocal(MadeOf(f, a, l, t, r), x, k, v) = MadeOf(f, a, Put(l, k, v), x, r)
<1>1. [MadeOf(f, a, l, t, r) EXCEPT !.temps = x] = MadeOf(f, a, l, x, r)
  BY TempsAnew DEF WithTemps
<1>2. [MadeOf(f, a, l, x, r) EXCEPT !.args[k] = v] = MadeOf(f, [a EXCEPT ![k] = v], l, x, r)
  BY DEF MadeOf
<1>3. [MadeOf(f, a, l, x, r) EXCEPT !.locals[k] = v] = MadeOf(f, a, [l EXCEPT ![k] = v], x, r)
  BY DEF MadeOf
<1>4. [MadeOf(f, a, l, t, r) EXCEPT !.temps = x, !.args[k] = v] =
        [[MadeOf(f, a, l, t, r) EXCEPT !.temps = x] EXCEPT !.args[k] = v]
  BY Zenon
<1>5. [MadeOf(f, a, l, t, r) EXCEPT !.temps = x, !.locals[k] = v] =
        [[MadeOf(f, a, l, t, r) EXCEPT !.temps = x] EXCEPT !.locals[k] = v]
  BY Zenon
<1> QED
  BY <1>1, <1>2, <1>3, <1>4, <1>5 DEF WithArg, WithLocal, Put

LEMMA StoreGlobalIs ==
  ASSUME Inv, Inv', NEW i \in Nat, StoreGlobal(i)
  PROVE  Calls!Fail \/ Calls!StoreGlobal(i)
<1> DEFINE k == i + 1
<1>1. status = "running" /\ ~Entering /\ i < NGlobals
  BY DEF StoreGlobal, Store, Executing
<1>2. k \in 1..EndOf(Innermost) /\ k \in 1..NGlobals
  BY <1>1, SlotPlaces
<1>3. SUFFICES ASSUME ~Calls!Fail PROVE Calls!StoreGlobal(i)
  OBVIOUS
<1>4. /\ instr' = <<"STORE global", i>> /\ UNCHANGED <<ip, status, frames>>
      /\ Temps # <<>> /\ Temps[Len(Temps)] = Top(1) /\ Temps' = Calls!Rest(Temps, 1)
      /\ \A j \in 1..EndOf(Innermost) : stack'[j] = IF j = k THEN Top(1) ELSE stack[j]
  BY <1>2, <1>3, StoreSlotIs DEF StoreGlobal
<1>5. k \in Int
  OBVIOUS
<1> HIDE DEF k
<1>6. /\ k \notin (StartOf(Innermost) + 1)..Innermost.fp
      /\ k \notin (Innermost.fp + 6)..EndOf(Innermost)
      /\ k \notin (NGlobals + 8)..StartOf(Innermost)
  BY <1>1, <1>2, <1>5, SlotsApart
<1>7. /\ Args' = Args /\ Locs' = Locs
      /\ \A j \in (NGlobals + 8)..StartOf(Innermost) : stack'[j] = stack[j]
  BY <1>1, <1>4, <1>5, <1>6, StoreLeaves
<1>8. Globals' = Put(Globals, k, Top(1))
  <2>1. 1 \in Int /\ NGlobals \in Int /\ k \in 1..(NGlobals - 1 + 1) /\ k = 1 + k - 1
    BY <1>2, StackAssumption
  <2>2. \A j \in 1..NGlobals : j \in 1..EndOf(Innermost)
    BY <1>1, InnermostPlaces, StackAssumption
  <2>3. \A j \in 1..NGlobals : stack'[j] = IF j = 1 + k - 1 THEN Top(1) ELSE stack[j]
    BY <1>4, <2>1, <2>2
  <2>4. Part(stack', 1, NGlobals) = Put(Part(stack, 1, NGlobals), k, Top(1))
    BY <2>1, <2>3, ExceptPart
  <2> QED
    BY <2>4 DEF Globals, Part
<1>9. /\ Calls!Current = InnermostMade /\ Result' = Result
      /\ Acts' = Append(Calls!Callers, InnermostMade')
  BY <1>1, <1>4, <1>7, TopBecomes
<1>10. Innermost' = Innermost
  BY <1>4 DEF Innermost
<1>11. InnermostMade' = WithTemps(InnermostMade, Temps') /\ InnermostMade.temps = Temps
  <2>1. /\ InnermostMade = MadeOf(Innermost.fun, Args, Locs, Temps, Innermost.ret)
        /\ InnermostMade' = MadeOf(Innermost.fun, Args', Locs', Temps', Innermost.ret)
    BY <1>10 DEF InnermostMade, MadeOf
  <2>2. WithTemps(InnermostMade, Temps') = MadeOf(Innermost.fun, Args, Locs, Temps', Innermost.ret)
    BY <2>1, TempsAnew
  <2> QED
    BY <2>1, <2>2, <1>7 DEF InnermostMade
<1>12. Calls!Assigning /\ Calls!Assigned = Top(1) /\ Calls!Left = Temps'
  BY <1>1, <1>4, <1>9, <1>11, CurrentIs DEF Calls!Assigning, Calls!Assigned, Calls!Left
<1> QED
  BY <1>1, <1>4, <1>8, <1>9, <1>11, <1>12
  DEF k, Put, WithTemps, Calls!StoreGlobal, Calls!With, Acts, Globals, Result

LEMMA StoreArgIs ==
  ASSUME Inv, Inv', NEW i \in Nat, StoreArg(i)
  PROVE  Calls!Fail \/ Calls!StoreArg(i)
<1> DEFINE k == i + 1
           q == ArgSlot(i) + 1
           m == StartOf(Innermost) + 1
           n == Innermost.fp
           e == EndOf(Innermost)
<1>1. status = "running" /\ ~Entering
  BY DEF StoreArg, Store, Executing
<1>2. /\ argc = Arity[Innermost.fun]
      /\ i < argc => q \in m..n /\ q \in 1..e /\ q = m + k - 1 /\ k \in 1..(n - m + 1)
  BY <1>1, SlotPlaces
<1>3. SUFFICES ASSUME ~Calls!Fail PROVE Calls!StoreArg(i)
  OBVIOUS
<1>4. /\ i < argc /\ instr' = <<"STORE arg", i>> /\ UNCHANGED <<ip, status, frames>>
      /\ Temps # <<>> /\ Temps[Len(Temps)] = Top(1) /\ Temps' = Calls!Rest(Temps, 1)
      /\ \A j \in 1..e : stack'[j] = IF j = q THEN Top(1) ELSE stack[j]
  BY <1>2, <1>3, StoreSlotIs DEF StoreArg
<1>5. m \in Int /\ n \in Int /\ e \in Int /\ \A j \in m..n : j \in 1..e
  <2> DEFINE a == StartOf(Innermost)
  <2>1. a \in Int /\ a >= NGlobals + 7 /\ a <= n /\ n \in Nat /\ e >= n + 5 /\ e \in Nat
    BY <1>1, InnermostPlaces
  <2> HIDE DEF a, n, e
  <2>2. a + 1 \in Int /\ n \in Int /\ e \in Int /\ \A j \in (a + 1)..n : j \in 1..e
    BY <2>1, StackAssumption
  <2> QED
    BY <2>2 DEF a
<1>6. m' = m /\ n' = n /\ Innermost' = Innermost
  BY <1>4 DEF Innermost, StartOf, EndOf
<1>7. Args = SubSeq(stack, m, n) /\ Args' = SubSeq(stack', m, n)
  BY <1>6 DEF Args
<1> HIDE DEF k, q
<1>8. q \in m..n /\ q \in 1..e /\ q = m + k - 1 /\ k \in 1..(n - m + 1)
  BY <1>2, <1>4
<1> HIDE DEF m, n, e
<1>9. q \in Int
  BY <1>5, <1>8
<1>10. /\ q \notin 1..NGlobals /\ q \notin (Innermost.fp + 6)..EndOf(Innermost)
       /\ q \notin (NGlobals + 8)..StartOf(Innermost)
  BY <1>1, <1>8, <1>9, SlotsApart DEF m, n
<1>11. /\ Globals' = Globals /\ Locs' = Locs
       /\ \A j \in (NGlobals + 8)..StartOf(Innermost) : stack'[j] = stack[j]
  BY <1>1, <1>4, <1>9, <1>10, StoreLeaves DEF e
<1>12. Args' = Put(Args, k, Top(1))
  <2>1. \A j \in m..n : stack'[j] = IF j = m + k - 1 THEN Top(1) ELSE stack[j]
    BY <1>4, <1>5, <1>8
  <2>2. m \in Int /\ n \in Int /\ k \in 1..(n - m + 1)
    BY <1>5, <1>8
  <2>3. Part(stack', m, n) = Put(Part(stack, m, n), k, Top(1))
    BY <2>1, <2>2, ExceptPart
  <2> QED
    BY <1>7, <2>3 DEF Part
<1>13. /\ Calls!Current = InnermostMade /\ Result' = Result
       /\ Acts' = Append(Calls!Callers, InnermostMade')
  BY <1>1, <1>4, <1>11, TopBecomes
<1>14. /\ InnermostMade' = WithArg(InnermostMade, Temps', k, Top(1))
       /\ InnermostMade.temps = Temps /\ InnermostMade.fun = Innermost.fun
  <2>1. /\ InnermostMade = MadeOf(Innermost.fun, Args, Locs, Temps, Innermost.ret)
        /\ InnermostMade' = MadeOf(Innermost.fun, Args', Locs', Temps', Innermost.ret)
    BY <1>6 DEF InnermostMade, MadeOf
  <2>2. WithArg(InnermostMade, Temps', k, Top(1)) =
          MadeOf(Innermost.fun, Put(Args, k, Top(1)), Locs, Temps', Innermost.ret)
    BY <2>1, MadeAnew
  <2> QED
    BY <2>1, <2>2, <1>11, <1>12 DEF InnermostMade
<1>15. Calls!Assigning /\ Calls!Assigned = Top(1) /\ Calls!Left = Temps'
  BY <1>1, <1>4, <1>13, <1>14, CurrentIs DEF Calls!Assigning, Calls!Assigned, Calls!Left
<1>16. /\ i < Arity[Calls!Current.fun]
       /\ Acts' = Append(Calls!Callers, WithArg(Calls!Current, Calls!Left, k, Calls!Assigned))
  BY <1>2, <1>4, <1>13, <1>14, <1>15
<1> QED
  BY <1>4, <1>11, <1>13, <1>15, <1>16 DEF k, WithArg, Calls!StoreArg, Acts, Globals, Result

LEMMA StoreLocalIs ==
  ASSUME Inv, Inv', NEW i \in Nat, StoreLocal(i)
  PROVE  Calls!Fail \/ Calls!StoreLocal(i)
<1> DEFINE k == i + 1
           q == LocalSlot(i) + 1
           m == Innermost.fp + 6
           n == EndOf(Innermost)
           e == EndOf(Innermost)
<1>1. status = "running" /\ ~Entering
  BY DEF StoreLocal, Store, Executing
<1>2. /\ locc = Locals[Innermost.fun]
      /\ i < locc => q \in m..n /\ q \in 1..e /\ q = m + k - 1 /\ k \in 1..(n - m + 1)
  BY <1>1, SlotPlaces
<1>3. SUFFICES ASSUME ~Calls!Fail PROVE Calls!StoreLocal(i)
  OBVIOUS
<1>4. /\ i < locc /\ instr' = <<"STORE local", i>> /\ UNCHANGED <<ip, status, frames>>
      /\ Temps # <<>> /\ Temps[Len(Temps)] = Top(1) /\ Temps' = Calls!Rest(Temps, 1)
      /\ \A j \in 1..e : stack'[j] = IF j = q THEN Top(1) ELSE stack[j]
  BY <1>2, <1>3, StoreSlotIs DEF StoreLocal
<1>5. m \in Int /\ n \in Int /\ e \in Int /\ \A j \in m..n : j \in 1..e
  <2> DEFINE p == Innermost.fp
  <2>1. p \in Nat /\ e >= p + 5 /\ e \in Nat
    BY <1>1, InnermostPlaces
  <2>2. n = e
    OBVIOUS
  <2> HIDE DEF p, n, e
  <2>3. p + 6 \in Int /\ n \in Int /\ e \in Int /\ \A j \in (p + 6)..n : j \in 1..e
    BY <2>1, <2>2
  <2> QED
    BY <2>3 DEF p
<1>6. m' = m /\ n' = n /\ Innermost' = Innermost
  BY <1>4 DEF Innermost, StartOf, EndOf
<1>7. Locs = SubSeq(stack, m, n) /\ Locs' = SubSeq(stack', m, n)
  BY <1>6 DEF Locs
<1> HIDE DEF k, q
<1>8. q \in m..n /\ q \in 1..e /\ q = m + k - 1 /\ k \in 1..(n - m + 1)
  BY <1>2, <1>4
<1> HIDE DEF m, n, e
<1>9. q \in Int
  BY <1>5, <1>8
<1>10. /\ q \notin 1..NGlobals /\ q \notin (StartOf(Innermost) + 1)..Innermost.fp
       /\ q \notin (NGlobals + 8)..StartOf(Innermost)
  BY <1>1, <1>8, <1>9, SlotsApart DEF m, n
<1>11. /\ Globals' = Globals /\ Args' = Args
       /\ \A j \in (NGlobals + 8)..StartOf(Innermost) : stack'[j] = stack[j]
  BY <1>1, <1>4, <1>9, <1>10, StoreLeaves DEF e
<1>12. Locs' = Put(Locs, k, Top(1))
  <2>1. \A j \in m..n : stack'[j] = IF j = m + k - 1 THEN Top(1) ELSE stack[j]
    BY <1>4, <1>5, <1>8
  <2>2. m \in Int /\ n \in Int /\ k \in 1..(n - m + 1)
    BY <1>5, <1>8
  <2>3. Part(stack', m, n) = Put(Part(stack, m, n), k, Top(1))
    BY <2>1, <2>2, ExceptPart
  <2> QED
    BY <1>7, <2>3 DEF Part
<1>13. /\ Calls!Current = InnermostMade /\ Result' = Result
       /\ Acts' = Append(Calls!Callers, InnermostMade')
  BY <1>1, <1>4, <1>11, TopBecomes
<1>14. /\ InnermostMade' = WithLocal(InnermostMade, Temps', k, Top(1))
       /\ InnermostMade.temps = Temps /\ InnermostMade.fun = Innermost.fun
  <2>1. /\ InnermostMade = MadeOf(Innermost.fun, Args, Locs, Temps, Innermost.ret)
        /\ InnermostMade' = MadeOf(Innermost.fun, Args', Locs', Temps', Innermost.ret)
    BY <1>6 DEF InnermostMade, MadeOf
  <2>2. WithLocal(InnermostMade, Temps', k, Top(1)) =
          MadeOf(Innermost.fun, Args, Put(Locs, k, Top(1)), Temps', Innermost.ret)
    BY <2>1, MadeAnew
  <2> QED
    BY <2>1, <2>2, <1>11, <1>12 DEF InnermostMade
<1>15. Calls!Assigning /\ Calls!Assigned = Top(1) /\ Calls!Left = Temps'
  BY <1>1, <1>4, <1>13, <1>14, CurrentIs DEF Calls!Assigning, Calls!Assigned, Calls!Left
<1>16. /\ i < Locals[Calls!Current.fun]
       /\ Acts' = Append(Calls!Callers, WithLocal(Calls!Current, Calls!Left, k, Calls!Assigned))
  BY <1>2, <1>4, <1>13, <1>14, <1>15
<1> QED
  BY <1>4, <1>11, <1>13, <1>15, <1>16 DEF k, WithLocal, Calls!StoreLocal, Acts, Globals, Result

LEMMA StoreIs ==
  ASSUME Inv, Inv', NEW i \in Index, StoreGlobal(i) \/ StoreArg(i) \/ StoreLocal(i)
  PROVE  Calls!Next
<1>1. i \in Nat
  BY StackAssumption DEF Index
<1> QED
  BY <1>1, StoreGlobalIs, StoreArgIs, StoreLocalIs DEF Calls!Next

-----------------------------------------------------------------------------
(* Calls.                                                                  *)

\* Two more at the end.
LEMMA BeginsLikeBoth ==
  ASSUME NEW S, NEW s \in Seq(S), NEW T, NEW t \in Seq(T), NEW m \in Nat,
         Len(t) = m + 2, m <= Len(s), \A k \in 1..m : t[k] = s[k]
  PROVE  t = Append(Append(SubSeq(s, 1, m), t[m + 1]), t[m + 2])
<1>1. SubSeq(t, 1, m + 1) = Append(SubSeq(s, 1, m), t[m + 1])
  BY LongerPart
<1>2. m + 1 + 1 = m + 2 /\ m + 1 \in Int /\ 1 <= m + 1 + 1
  OBVIOUS
<1>3. SubSeq(t, 1, m + 1 + 1) = Append(SubSeq(t, 1, m + 1), t[m + 1 + 1])
  BY <1>2, LongerPart
<1>4. SubSeq(t, 1, m + 2) = t
  BY SubSeqFull
<1> QED
  BY <1>1, <1>2, <1>3, <1>4

\* What a call that gives its callee the n values on top makes of the stack; c is 1 if
\* the callable below them is removed, 0 if there is none.
Passing(n, c, r) ==
  /\ Len(stack') = Len(stack) - c + 1 /\ stack'[Len(stack')] = r
  /\ \A j \in 1..(Len(stack) - n - c) : stack'[j] = stack[j]
  /\ \A j \in 1..n : stack'[Len(stack) - n - c + j] = stack[Len(stack) - n + j]

\* The caller keeps what is below the arguments.
LEMMA CallerKeeps ==
  ASSUME Inv, status = "running", ~Entering, NEW f \in Fun, NEW c \in {0, 1}, NEW r,
         depth >= Arity[f] + c, Passing(Arity[f], c, r), ip' = f, UNCHANGED <<status, frames>>
  PROVE  ActivationOf(Len(frames))' = WithTemps(InnermostMade, Calls!Rest(Temps, Arity[f] + c))
<1> DEFINE l == Len(stack)
           e == EndOf(Innermost)
           a == StartOf(Innermost)
           p == Innermost.fp
           n == Arity[f]
           q == l - n - c
           m == Len(Temps) - (n + c)
           d == e + 1
<1>1. /\ l \in Nat /\ e \in Nat /\ depth \in Nat /\ e + depth <= l /\ n \in Nat /\ c \in Int
      /\ depth >= n + c /\ a \in Int /\ a >= NGlobals + 7 /\ a <= p /\ p \in Nat /\ e >= p + 5
  BY InnermostPlaces, FunAssumption
<1>2. Len(Temps) = l - e /\ \A j \in 1..Len(Temps) : Temps[j] = stack[e + j]
  BY TempsAre
<1>3. Len(stack') = l - c + 1 /\ \A j \in 1..q : stack'[j] = stack[j]
  BY DEF Passing
<1>4. /\ Innermost' = Innermost /\ EndOf(Innermost)' = e /\ StartOf(Innermost)' = a /\ Entering'
      /\ Len(frames)' = Len(frames) /\ ip' \in Fun
  BY DEF Innermost, EndOf, StartOf, Entering
<1>5. TempsEnd(Len(frames))' = Len(stack') - (1 + n)
  BY <1>4 DEF TempsEnd
<1> HIDE DEF l, e, a, p, n
<1>6. Len(stack') - (1 + n) = q
  BY <1>1, <1>3
<1>7. q \in Int /\ e <= q /\ m = q - e /\ m \in Nat
  BY <1>1, <1>2
<1>8. /\ \A j \in (a + 1)..p : j \in 1..q
      /\ \A j \in (p + 6)..e : j \in 1..q
  BY <1>1, <1>7, StackAssumption
<1>9. Args' = Args /\ Locs' = Locs
  BY <1>3, <1>8, ArgsStay, LocsStay DEF a, p, e
<1>10. SubSeq(stack', e + 1, q) = Calls!Rest(Temps, n + c)
  <2>1. d \in Int /\ q \in Int /\ m \in Nat /\ m = q - d + 1 /\ m = m - 1 + 1
    BY <1>1, <1>7
  <2>2. ASSUME NEW j \in 1..m PROVE Temps[1 + j - 1] = stack'[d + j - 1]
    <3>1. /\ j \in Int /\ 1 + j - 1 = j /\ j \in 1..(l - e)
          /\ d + j - 1 = e + j /\ e + j \in 1..q
      BY <1>1, <1>2, <1>7
    <3> QED
      BY <1>2, <1>3, <3>1
  <2> HIDE DEF m, d, q
  <2>3. Moved(Temps, 1, m, stack', d, q)
    <3>1. 1..(m - 1 + 1) = 1..m /\ 1 \in Int /\ m \in Int /\ m + 1 >= 1 /\ m - 1 = q - d
      BY <2>1
    <3> QED
      BY <2>1, <2>2, <3>1 DEF Moved
  <2>4. Part(Temps, 1, m) = Part(stack', d, q)
    BY <2>3, MovedPart
  <2> QED
    BY <2>4 DEF m, d, Calls!Rest, Part
<1>11. /\ ActivationOf(Len(frames))' =
            MadeOf(Innermost.fun, Args', Locs', SubSeq(stack', e + 1, q), Innermost.ret)
       /\ InnermostMade = MadeOf(Innermost.fun, Args, Locs, Temps, Innermost.ret)
  <2>1. frames[Len(frames)]' = Innermost /\ frames[Len(frames)] = Innermost
    BY <1>4 DEF Innermost
  <2>2. TempsEnd(Len(frames))' = q
    BY <1>5, <1>6
  <2>3. /\ Args' = SubSeq(stack', a + 1, p) /\ Locs' = SubSeq(stack', p + 6, e)
    BY <1>4 DEF Args, Locs, p
  <2>4. StartOf(frames[Len(frames)])' = a /\ EndOf(frames[Len(frames)])' = e
    BY <1>4 DEF Innermost, StartOf, EndOf
  <2> QED
    BY <2>1, <2>2, <2>3, <2>4 DEF ActivationOf, MadeOf, InnermostMade, p
<1>12. WithTemps(InnermostMade, Calls!Rest(Temps, n + c)) =
         MadeOf(Innermost.fun, Args, Locs, Calls!Rest(Temps, n + c), Innermost.ret)
  BY <1>11, TempsAnew
<1> QED
  BY <1>9, <1>10, <1>11, <1>12 DEF n

\* The callee gets the values on top, and the address to return to.
LEMMA CalleeGets ==
  ASSUME Inv, status = "running", ~Entering, NEW f \in Fun, NEW c \in {0, 1}, NEW r,
         depth >= Arity[f] + c, Passing(Arity[f], c, r), ip' = f
  PROVE  Callee' = Calls!Activation(f, Calls!Topmost(Temps, Arity[f]), r)
<1> DEFINE l == Len(stack)
           x == Len(stack')
           e == EndOf(Innermost)
           n == Arity[f]
           m == x - n
           q == x - 1
           p == Len(Temps) + 1 - n
           o == Len(Temps)
<1>1. /\ l \in Nat /\ e \in Nat /\ depth \in Nat /\ e + depth <= l /\ n \in Nat /\ c \in Int
      /\ depth >= n + c
  BY InnermostPlaces, FunAssumption
<1>2. Len(Temps) = l - e /\ \A j \in 1..Len(Temps) : Temps[j] = stack[e + j]
  BY TempsAre
<1>3. /\ x = l - c + 1 /\ stack'[x] = r
      /\ \A j \in 1..n : stack'[l - n - c + j] = stack[l - n + j]
  BY DEF Passing
<1>4. Callee' = [fun |-> f, args |-> SubSeq(stack', m, q),
                 locals |-> [i \in 1..Locals[f] |-> 0], temps |-> <<>>, ret |-> stack'[x + 1 - 1]]
  BY DEF Callee, Top
<1> HIDE DEF l, x, e, n
<1>5. x + 1 - 1 = x
  BY <1>1, <1>3
<1>6. SubSeq(stack', m, q) = SubSeq(Temps, p, o)
  <2>1. m \in Int /\ q \in Int /\ p \in Int /\ o \in Int /\ n = q - m + 1 /\ n = o - p + 1
    BY <1>1, <1>2, <1>3
  <2>2. ASSUME NEW j \in 1..n PROVE stack'[m + j - 1] = Temps[p + j - 1]
    <3>1. /\ m + j - 1 = l - n - c + j /\ p + j - 1 \in 1..Len(Temps)
          /\ e + (p + j - 1) = l - n + j
      BY <1>1, <1>2, <1>3
    <3> QED
      BY <1>2, <1>3, <3>1
  <2> HIDE DEF m, q, p, o
  <2>3. Moved(stack', m, q, Temps, p, o)
    <3>1. 1..(q - m + 1) = 1..n /\ q + 1 >= m /\ q - m = o - p
      BY <1>1, <2>1
    <3> QED
      BY <2>1, <2>2, <3>1 DEF Moved
  <2>4. Part(stack', m, q) = Part(Temps, p, o)
    BY <2>3, MovedPart
  <2> QED
    BY <2>4 DEF Part
<1>7. Calls!Topmost(Temps, n) = SubSeq(Temps, p, o)
  BY DEF Calls!Topmost
<1> HIDE DEF m, q, p, o
<1>8. Calls!Activation(f, SubSeq(Temps, p, o), r) =
        [fun |-> f, args |-> SubSeq(Temps, p, o),
         locals |-> [i \in 1..Locals[f] |-> 0], temps |-> <<>>, ret |-> r]
  BY DEF Calls!Activation, Calls!Zeros
<1> QED
  BY <1>3, <1>4, <1>5, <1>6, <1>7, <1>8 DEF n

LEMMA CallingIs ==
  ASSUME Inv, Inv', status = "running", ~Entering, NEW f \in Fun, NEW c \in {0, 1}, NEW r,
         depth >= Arity[f] + c, Passing(Arity[f], c, r), ip' = f, UNCHANGED <<status, frames>>
  PROVE  /\ Calls!Running /\ Calls!Current.temps = Temps
         /\ Acts' = Append(Calls!With(Calls!Rest(Temps, Arity[f] + c)),
                           Calls!Activation(f, Calls!Topmost(Temps, Arity[f]), r))
         /\ Globals' = Globals /\ Result' = Result
<1> DEFINE n == Len(frames)
           S == ActivationSet
           s == Activations
           T == ActivationSet'
           t == Activations'
<1>1. TypeOK /\ Stacked /\ TypeOK' /\ Entering' /\ Len(frames') = n
  BY DEF Inv, Entering
<1>2. /\ Acts = s /\ n \in Nat \ {0} /\ Calls!Callers = SubSeq(s, 1, n - 1) /\ Calls!Running
      /\ Calls!Current = ActivationOf(n)
  BY CurrentIs
<1>3. s \in Seq(S) /\ Len(s) = n + 0 /\ \A k \in 1..n : s[k] = ActivationOf(k)
  BY <1>1, ActivationsAre DEF OneForEach
<1>4. t \in Seq(T) /\ Len(t) = n + 1 /\ (\A k \in 1..n : t[k] = ActivationOf(k)') /\ t[n + 1] = Callee'
  BY <1>1, ActivationsAreNext DEF OneForEach
<1>5. ASSUME NEW j \in 1..EndOf(Innermost) PROVE stack'[j] = stack[j]
  <2> DEFINE l == Len(stack)
             e == EndOf(Innermost)
             a == Arity[f]
  <2>1. /\ l \in Nat /\ e \in Nat /\ depth \in Nat /\ e + depth <= l /\ a \in Nat /\ c \in Int
        /\ depth >= a + c
    BY InnermostPlaces, FunAssumption
  <2>2. \A i \in 1..(l - a - c) : stack'[i] = stack[i]
    BY DEF Passing
  <2> HIDE DEF l, e, a
  <2>3. \A i \in 1..e : i \in 1..(l - a - c)
    BY <2>1
  <2> QED
    BY <2>2, <2>3 DEF e
<1>6. /\ \A j \in (NGlobals + 8)..StartOf(Innermost) : j \in 1..EndOf(Innermost)
      /\ \A j \in 1..NGlobals : j \in 1..EndOf(Innermost)
  <2> DEFINE a == StartOf(Innermost)
             e == EndOf(Innermost)
  <2>1. /\ a \in Int /\ a <= Innermost.fp /\ Innermost.fp \in Nat /\ e >= Innermost.fp + 5
        /\ e \in Nat /\ e > NGlobals
    BY InnermostPlaces
  <2> HIDE DEF a, e
  <2>2. (\A j \in (NGlobals + 8)..a : j \in 1..e) /\ (\A j \in 1..NGlobals : j \in 1..e)
    BY <2>1, StackAssumption
  <2> QED
    BY <2>2 DEF a, e
<1>7. Globals' = Globals
  BY <1>5, <1>6, GlobalsStay
<1>8. ASSUME NEW k \in 1..(n - 1) PROVE ActivationOf(k)' = ActivationOf(k)
  <2>1. k < Len(frames')
    BY <1>1, <1>2
  <2>2. \A j \in (NGlobals + 8)..StartOf(Innermost) : stack'[j] = stack[j]
    BY <1>5, <1>6
  <2> QED
    BY <1>1, <2>1, <2>2, CallerUnaffected
<1>9. ActivationOf(n) = InnermostMade
  BY InnermostIs DEF MadeOfParts
<1>10. t[n] = ActivationOf(Len(frames))'
  <2>1. Len(frames)' = n /\ n \in 1..n
    BY <1>1, <1>2
  <2> HIDE DEF t, T, s, S
  <2> QED
    BY <1>4, <2>1
<1>11. t[n] = WithTemps(InnermostMade, Calls!Rest(Temps, Arity[f] + c))
  BY <1>10, CallerKeeps
<1>12. t[n + 1] = Calls!Activation(f, Calls!Topmost(Temps, Arity[f]), r)
  BY <1>4, CalleeGets
<1>13. Acts' = t /\ Result' = Result
  BY DEF Acts, Result
<1> HIDE DEF s, t, S, T, n
<1>14. ASSUME NEW k \in 1..(n - 1) PROVE t[k] = s[k]
  <2>1. k \in 1..n
    BY <1>2
  <2>2. ActivationOf(k)' = ActivationOf(k)
    BY <1>8
  <2> QED
    BY <2>1, <2>2, <1>3, <1>4
<1>15. n - 1 \in Nat /\ Len(t) = n - 1 + 2 /\ n - 1 <= Len(s) /\ n - 1 + 1 = n /\ n - 1 + 2 = n + 1
  BY <1>2, <1>3, <1>4
<1>16. t = Append(Append(SubSeq(s, 1, n - 1), t[n]), t[n + 1])
  BY <1>3, <1>4, <1>14, <1>15, BeginsLikeBoth
<1>17. Calls!With(Calls!Rest(Temps, Arity[f] + c)) =
         Append(SubSeq(s, 1, n - 1), WithTemps(InnermostMade, Calls!Rest(Temps, Arity[f] + c)))
  BY <1>2, <1>9 DEF Calls!With, WithTemps
<1>18. InnermostMade.temps = Temps
  BY DEF InnermostMade
<1> QED
  BY <1>2, <1>7, <1>9, <1>11, <1>12, <1>13, <1>16, <1>17, <1>18

\* A call whose callee has begun to have what it is given.
LEMMA CalledIs ==
  ASSUME Inv, Inv', status = "running", ~Entering,
         NEW f \in Fun, NEW b \in BOOLEAN, NEW c \in {0, 1}, c = IF b THEN 1 ELSE 0, NEW r \in Site,
         depth >= Arity[f] + c, Passing(Arity[f], c, r), ip' = f, UNCHANGED <<status, frames>>,
         instr' = <<"CALL", Arity[f]>>, b => Temps[Len(Temps) - Arity[f]] = f
  PROVE  Calls!Next
<1> DEFINE n == Arity[f] + c
<1>1. /\ Calls!Running /\ Calls!Current.temps = Temps
      /\ Acts' = Append(Calls!With(Calls!Rest(Temps, n)),
                        Calls!Activation(f, Calls!Topmost(Temps, Arity[f]), r))
      /\ Globals' = Globals /\ Result' = Result
  BY CallingIs
<1>2. Len(Temps) >= n /\ n = Arity[f] + (IF b THEN 1 ELSE 0)
  <2>1. Len(Temps) \in Nat /\ Len(Temps) >= depth /\ depth \in Nat /\ Arity[f] \in Nat
    BY TempsAre, InnermostPlaces, FunAssumption
  <2> QED
    BY <2>1
<1> HIDE DEF n
<1>3. Calls!Call(f, r, b)
  BY <1>1, <1>2 DEF Calls!Call, Acts, Globals, Result
<1> QED
  BY <1>3 DEF Calls!Next

LEMMA CallIs ==
  ASSUME Inv, Inv', "ArityMatches" \in Discipline,
         NEW f \in Callable, NEW n \in Nat, NEW r \in Site, Call(f, n, r)
  PROVE  Calls!Next
<1>1. /\ f \in Fun /\ status = "running" /\ ~Entering /\ depth >= n /\ n = Arity[f] /\ TypeOK
      /\ depth \in Nat /\ r \in Slot
  BY DEF Call, Executing, Callable, Inv, TypeOK, Slot
<1>2. CASE Fail(stack)
  <2>1. Calls!Fail
    BY <1>1, <1>2, FailIs DEF Fail, history
  <2> QED
    BY <2>1 DEF Calls!Next
<1>3. CASE /\ stack' = Append(stack, r) /\ ip' = f /\ instr' = <<"CALL", n>>
           /\ UNCHANGED <<regs, status, frames>>
  <2> DEFINE l == Len(stack)
  <2>1. l \in Nat /\ depth <= l
    <3>1. EndOf(Innermost) + depth <= Len(stack) /\ EndOf(Innermost) \in Nat /\ l \in Nat
      BY <1>1, InnermostPlaces
    <3> HIDE DEF l
    <3> QED
      BY <3>1, <1>1 DEF l
  <2>2. Len(stack') = l + 1 /\ stack'[l + 1] = r /\ \A j \in 1..l : stack'[j] = stack[j]
    BY <1>1, <1>3 DEF TypeOK
  <2> HIDE DEF l
  <2>3. /\ l - 0 + 1 = l + 1
        /\ \A j \in 1..(l - n - 0) : j \in 1..l
        /\ \A j \in 1..n : l - n - 0 + j = l - n + j /\ l - n + j \in 1..l
    BY <1>1, <2>1
  <2>4. Passing(n, 0, r)
    BY <2>2, <2>3 DEF Passing, l
  <2>5. depth >= Arity[f] + 0 /\ 0 \in {0, 1} /\ FALSE \in BOOLEAN /\ 0 = IF FALSE THEN 1 ELSE 0
    BY <1>1
  <2> QED
    BY <1>1, <1>3, <2>4, <2>5, CalledIs
<1> QED
  BY <1>2, <1>3 DEF Call

LEMMA CallClosureIs ==
  ASSUME Inv, Inv', NEW n \in Nat, NEW r \in Site, CallClosure(n, r)
  PROVE  Calls!Next
<1> DEFINE f == Top(n + 1)
           l == Len(stack)
           e == EndOf(Innermost)
<1>1. /\ status = "running" /\ ~Entering /\ depth >= n + 1 /\ TypeOK /\ depth \in Nat /\ r \in Slot
  BY DEF CallClosure, Executing, Inv, TypeOK, Slot
<1>2. CASE Fail(stack)
  <2>1. Calls!Fail
    BY <1>1, <1>2, FailIs DEF Fail, history
  <2> QED
    BY <2>1 DEF Calls!Next
<1>3. CASE /\ f \in Fun /\ Arity[f] = n
           /\ stack' = Append(Below(n + 1) \o Operands(n), r)
           /\ ip' = f /\ instr' = <<"CALL", n>> /\ UNCHANGED <<regs, status, frames>>
  <2>1. e + depth <= l /\ e \in Nat /\ l \in Nat
    BY <1>1, InnermostPlaces
  <2>2. f = stack[l + 1 - (n + 1)] /\ stack' = WithoutCallable(n, r)
    BY <1>3 DEF Top, WithoutCallable
  <2>3. /\ Len(Temps) = l - e /\ \A j \in 1..Len(Temps) : Temps[j] = stack[e + j]
    BY <1>1, TempsAre
  <2>4. n + 1 <= l
    <3> HIDE DEF l, e
    <3> QED
      BY <1>1, <2>1
  <2>5. /\ Len(stack') = l /\ stack'[l] = r
        /\ \A j \in 1..(l - (n + 1)) : stack'[j] = stack[j]
        /\ \A j \in 1..n : stack'[l - (n + 1) + j] = stack[l - n + j]
    BY <1>1, <2>2, <2>4, CallableRemoved
  <2> HIDE DEF f, l, e
  <2>6. l - 1 + 1 = l /\ l - (n + 1) = l - n - 1
    BY <2>1
  <2>7. Passing(n, 1, r)
    BY <2>5, <2>6 DEF Passing, l
  <2>8. Temps[Len(Temps) - n] = f
    <3>1. l - e - n \in 1..(l - e) /\ e + (l - e - n) = l + 1 - (n + 1)
      BY <1>1, <2>1
    <3>2. Temps[l - e - n] = stack[e + (l - e - n)]
      BY <2>3, <3>1
    <3> QED
      BY <2>2, <2>3, <3>1, <3>2
  <2>9. depth >= Arity[f] + 1 /\ 1 \in {0, 1} /\ TRUE \in BOOLEAN /\ 1 = IF TRUE THEN 1 ELSE 0
    BY <1>1, <1>3
  <2> QED
    BY <1>1, <1>3, <2>7, <2>8, <2>9, CalledIs
<1> QED
  BY <1>2, <1>3 DEF CallClosure

-----------------------------------------------------------------------------
(* BEGIN: nothing changes but where the callee is.                         *)

\* The slots that a frame is opened above.
LEMMA BelowOpening ==
  ASSUME Inv, status = "running", Entering, "ArityMatches" \in Discipline
  PROVE  /\ TypeOK /\ Stacked /\ OwnArguments /\ ip \in Fun
         /\ Len(stack) \in Nat \ {0} /\ Arity[ip] \in Nat /\ Locals[ip] \in Nat
         /\ Len(stack) - 1 - Arity[ip] >= NGlobals + 7
         /\ \A k \in 1..Len(frames) : EndOf(frames[k]) <= Len(stack) - 1 - Arity[ip]
<1>1. TypeOK /\ Stacked /\ ip \in Fun /\ Returns /\ depth \in Nat
  BY DEF Inv, Entering, Running, TypeOK
<1>2. OwnArguments
  BY ArgumentsMatch
<1>3. Len(stack) \in Nat \ {0} /\ Arity[ip] \in Nat /\ Locals[ip] \in Nat
  BY <1>1, Lengths, FunAssumption DEF Returns
<1>4. /\ Len(stack) - 1 - Arity[ip] >= NGlobals + 7
      /\ \A k \in 1..Len(frames) : EndOf(frames[k]) + depth <= Len(stack) - 1 - Arity[ip]
  BY <1>2, NewFrameAbove
<1>5. ASSUME NEW k \in 1..Len(frames) PROVE EndOf(frames[k]) <= Len(stack) - 1 - Arity[ip]
  <2> DEFINE e == EndOf(frames[k])
             l == Len(stack) - 1 - Arity[ip]
  <2>1. e \in Nat /\ l \in Int /\ e + depth <= l
    BY <1>1, <1>3, <1>4, FrameTypes
  <2> HIDE DEF e, l
  <2>2. e <= l
    BY <1>1, <2>1
  <2> QED
    BY <2>2 DEF e, l
<1> QED
  BY <1>1, <1>2, <1>3, <1>4, <1>5

\* Callers keep their activations: their slots are below the new frame.
LEMMA CallersWait ==
  ASSUME Inv, status = "running", Entering, "ArityMatches" \in Discipline, Opens,
         NEW k \in 1..Len(frames)
  PROVE  ActivationOf(k)' = ActivationOf(k)
<1> DEFINE n == Len(frames)
           l == Len(stack)
           z == l - 1 - Arity[ip]
<1>1. /\ TypeOK /\ Stacked /\ l \in Nat \ {0} /\ Arity[ip] \in Nat /\ z >= NGlobals + 7 /\ ip \in Fun
      /\ \A i \in 1..n : EndOf(frames[i]) <= z
  BY BelowOpening
<1>2. /\ n \in Nat /\ Len(frames') = n + 1 /\ \A i \in 1..n : frames'[i] = frames[i]
      /\ frames'[n + 1] = [fun |-> ip, fp |-> l - 1, ret |-> Top(1), left |-> depth]
  BY OpeningTypes
<1>3. \A j \in 1..(l - 1) : stack'[j] = stack[j]
  BY <1>1, FullStack, SMTT(30) DEF Opens
<1>4. k \in 1..n
  OBVIOUS
<1>5. /\ StartOf(frames[k]) \in Int /\ StartOf(frames[k]) >= NGlobals + 7
      /\ EndOf(frames[k]) \in Nat
  BY <1>1, <1>4, FrameTypes DEF Stacked
<1>6. CASE k = n
  <2>1. TempsEnd(k) = l - (1 + Arity[ip])
    BY <1>6 DEF TempsEnd
  <2>2. frames'[k + 1].fp = l - 1 /\ frames'[k + 1].fun = ip /\ k < Len(frames')
    BY <1>2, <1>4, <1>6
  <2>3. TempsEnd(k)' = l - 1 - Arity[ip]
    BY <2>2 DEF TempsEnd, StartOf
  <2>4. l - (1 + Arity[ip]) = z /\ z \in Int
    <3>1. l \in Int /\ Arity[ip] \in Int
      BY <1>1
    <3> HIDE DEF l
    <3> QED
      BY <3>1
  <2>5. TempsEnd(k)' = TempsEnd(k) /\ TempsEnd(k) = z /\ TempsEnd(k) \in Int
    BY <2>1, <2>3, <2>4
  <2>6. EndOf(frames[k]) <= TempsEnd(k)
    BY <1>1, <1>4, <2>5
  <2>7. ASSUME NEW j \in (StartOf(frames[k]) + 1)..TempsEnd(k) PROVE stack'[j] = stack[j]
    <3> DEFINE a == StartOf(frames[k])
    <3>1. a \in Int /\ a >= NGlobals + 7 /\ j \in (a + 1)..z
      BY <1>5, <2>5
    <3> HIDE DEF a
    <3>2. j \in 1..(l - 1)
      <4>1. z <= l - 1 /\ z \in Int /\ l - 1 \in Int
        BY <1>1
      <4> HIDE DEF z, l
      <4> QED
        BY <3>1, <4>1, StackAssumption
    <3> QED
      BY <1>3, <3>2
  <2>8. frames'[k] = frames[k]
    BY <1>2, <1>4
  <2> QED
    BY <1>1, <1>4, <2>5, <2>6, <2>7, <2>8, SameActivation
<1>7. CASE k # n
  <2>1. k \in 1..(n - 1) /\ k + 1 \in 1..n /\ n \in 1..n /\ k < n + 1
    BY <1>2, <1>4, <1>7
  <2>2. k < Len(frames') /\ frames'[k] = frames[k] /\ frames'[k + 1] = frames[k + 1]
    BY <1>2, <1>4, <2>1
  <2>3. /\ EndOf(Innermost) <= z /\ StartOf(Innermost) <= Innermost.fp /\ Innermost.fp \in Nat
        /\ EndOf(Innermost) >= Innermost.fp + 5 /\ EndOf(Innermost) \in Nat
        /\ StartOf(Innermost) \in Int
    BY <1>1, <2>1, FrameTypes DEF Innermost
  <2>4. ASSUME NEW j \in (NGlobals + 8)..StartOf(Innermost) PROVE stack'[j] = stack[j]
    <3> DEFINE a == StartOf(Innermost)
               e == EndOf(Innermost)
               p == Innermost.fp
    <3>1. a <= p /\ p \in Nat /\ e >= p + 5 /\ e \in Nat /\ a \in Int /\ e <= z /\ j \in (NGlobals + 8)..a
      BY <2>3
    <3> HIDE DEF a, e, p
    <3>2. j \in 1..(l - 1)
      <4>1. z <= l - 1 /\ z \in Int /\ l - 1 \in Int
        BY <1>1
      <4> HIDE DEF z, l
      <4> QED
        BY <3>1, <4>1, StackAssumption
    <3> QED
      BY <1>3, <3>2
  <2> QED
    BY <1>1, <2>1, <2>2, <2>4, CallerUnaffected
<1> QED
  BY <1>6, <1>7

\* The callee has what it had before its frame was there.
LEMMA CalleeBegins ==
  ASSUME Inv, Inv', status = "running", Entering, "ArityMatches" \in Discipline, Opens,
         NEW k \in Nat, k = Len(frames) + 1
  PROVE  ActivationOf(k)' = Callee
<1> DEFINE l == Len(stack)
           a == Arity[ip]
           c == Locals[ip]
           w == frames'[k]
           b == l - a
           o == l - 1
           x == l + 5
           y == l + 4 + c
<1>1. /\ TypeOK /\ l \in Nat \ {0} /\ a \in Nat /\ c \in Nat /\ ip \in Fun
      /\ l - 1 - a >= NGlobals + 7
  BY BelowOpening
<1>2. /\ k \in Nat /\ Len(frames') = k
      /\ w = [fun |-> ip, fp |-> l - 1, ret |-> Top(1), left |-> depth]
  BY OpeningTypes
<1>3. /\ \A j \in 1..(l - 1) : stack'[j] = stack[j]
      /\ \A j \in 1..c : stack'[l + 4 + j] = 0
      /\ Len(stack') = l + 4 + c
  BY <1>1, FullStack, SMTT(30) DEF Opens
<1>4. ~Entering'
  BY <1>1, ValueAssumption DEF Opens, Entering
<1>5. w.fun = ip /\ w.fp = l - 1 /\ w.ret = Top(1)
  BY <1>2
<1>6. /\ frames[k]' = w
      /\ StartOf(frames[k])' = l - 1 - a /\ EndOf(frames[k])' = l - 1 + 5 + c
  BY <1>5 DEF StartOf, EndOf
<1>7. TempsEnd(k)' = Len(stack') - 0
  BY <1>2, <1>4 DEF TempsEnd
<1>8. /\ l - 1 - a + 1 = b /\ l - 1 = o /\ l - 1 + 6 = x /\ l - 1 + 5 + c = y
      /\ l + 4 + c - 0 = y /\ b \in Int /\ o \in Int /\ x \in Int /\ y \in Int
  <2> HIDE DEF l, a, c
  <2> QED
    BY <1>1
<1>9. ActivationOf(k)' =
        [fun |-> w.fun, args |-> SubSeq(stack', l - 1 - a + 1, w.fp),
         locals |-> SubSeq(stack', w.fp + 6, l - 1 + 5 + c),
         temps |-> SubSeq(stack', l - 1 + 5 + c + 1, Len(stack') - 0), ret |-> w.ret]
  BY <1>6, <1>7 DEF ActivationOf
<1>10. ActivationOf(k)' =
         [fun |-> ip, args |-> SubSeq(stack', b, o), locals |-> SubSeq(stack', x, y),
          temps |-> SubSeq(stack', y + 1, y), ret |-> Top(1)]
  <2>1. Len(stack') - 0 = y
    BY <1>3, <1>8
  <2>2. /\ SubSeq(stack', l - 1 - a + 1, w.fp) = SubSeq(stack', b, o)
        /\ SubSeq(stack', w.fp + 6, l - 1 + 5 + c) = SubSeq(stack', x, y)
    <3>1. w.fp = o /\ w.fp + 6 = x
      BY <1>5, <1>8
    <3> QED
      BY <3>1, <1>8
  <2>3. SubSeq(stack', l - 1 + 5 + c + 1, Len(stack') - 0) = SubSeq(stack', y + 1, y)
    BY <2>1, <1>8
  <2> QED
    BY <1>5, <1>9, <2>2, <2>3
<1>11. Callee = [fun |-> ip, args |-> SubSeq(stack, b, o), locals |-> Zeros(ip),
                 temps |-> <<>>, ret |-> Top(1)]
  BY DEF Callee, Zeros
<1>12. Part(stack', b, o) = Part(stack, b, o)
  <2>1. b <= o + 1 /\ \A j \in b..o : j \in 1..(l - 1)
    <3> HIDE DEF l, a
    <3> QED
      BY <1>1, StackAssumption
  <2> HIDE DEF b, o
  <2>2. \A j \in b..o : stack'[j] = stack[j]
    BY <1>3, <2>1
  <2>3. b \in Int /\ o \in Int /\ b <= o + 1
    BY <1>8, <2>1
  <2> QED
    BY <2>2, <2>3, SamePart
<1>13. SubSeq(stack', x, y) = Zeros(ip)
  <2>1. Zeros(ip) \in Seq({0}) /\ Len(Zeros(ip)) = c /\ \A i \in 1..c : Zeros(ip)[i] = 0
    <3>1. Zeros(ip) \in [1..Locals[ip] -> {0}] /\ Locals[ip] \in Nat
      BY <1>1 DEF Zeros
    <3> QED
      BY <3>1, <1>1 DEF Zeros
  <2>2. c = y - x + 1 /\ \A i \in 1..c : x + i - 1 = l + 4 + i
    <3> HIDE DEF l, c
    <3> QED
      BY <1>1
  <2>3. Len(Zeros(ip)) = y - x + 1
    BY <2>1, <2>2
  <2>4. ASSUME NEW i \in 1..Len(Zeros(ip)) PROVE Zeros(ip)[i] = stack'[x + i - 1]
    <3>1. i \in 1..c
      BY <2>1
    <3>2. x + i - 1 = l + 4 + i /\ Zeros(ip)[i] = 0 /\ stack'[l + 4 + i] = 0
      BY <1>3, <2>1, <2>2, <3>1
    <3> HIDE DEF l, x
    <3> QED
      BY <3>2
  <2> HIDE DEF x, y, c, l
  <2> QED
    BY <1>8, <2>1, <2>3, <2>4, IsPart
<1>14. SubSeq(stack', y + 1, y) = <<>>
  <2> HIDE DEF y
  <2>1. y + 1 \in Int /\ y \in Int /\ y < y + 1
    BY <1>8
  <2> QED
    BY <2>1, SubSeqEmpty
<1> HIDE DEF b, o, x, y
<1> QED
  BY <1>10, <1>11, <1>12, <1>13, <1>14 DEF Part

\* A BEGIN that puts a frame on the stack is a stutter of RapCalls.
LEMMA OpeningIs ==
  ASSUME Inv, Inv', status = "running", Entering, "ArityMatches" \in Discipline, Opens
  PROVE  status' = status /\ Acts' = Acts /\ Globals' = Globals /\ Result' = Result
<1> DEFINE n == Len(frames)
           S == ActivationSet
           s == Activations
           T == ActivationSet'
           t == Activations'
<1>1. /\ TypeOK /\ TypeOK' /\ ip \in Fun /\ OwnArguments
      /\ Len(stack) \in Nat \ {0} /\ Arity[ip] \in Nat /\ Len(stack) - 1 - Arity[ip] >= NGlobals + 7
  BY BelowOpening DEF Inv
<1>2. status' = status
  BY <1>1 DEF Opens, OwnArguments
<1>3. ~Entering'
  BY <1>1, ValueAssumption DEF Opens, Entering
<1>4. n \in Nat /\ Len(frames') = n + 1
  BY OpeningTypes
<1>5. s \in Seq(S) /\ Len(s) = n + 1 /\ (\A k \in 1..n : s[k] = ActivationOf(k)) /\ s[n + 1] = Callee
  BY <1>1, ActivationsAre DEF OneForEach
<1>6. t \in Seq(T) /\ Len(t) = n + 1 + 0 /\ \A k \in 1..(n + 1) : t[k] = ActivationOf(k)'
  BY <1>1, <1>3, <1>4, ActivationsAreNext DEF OneForEach
<1>7. \A k \in 1..n : ActivationOf(k)' = ActivationOf(k)
  BY CallersWait
<1>8. \A k \in Nat : k = n + 1 => ActivationOf(k)' = Callee
  BY CalleeBegins
<1>9. \A j \in 1..NGlobals : stack'[j] = stack[j]
  <2>1. \A j \in 1..(Len(stack) - 1) : stack'[j] = stack[j]
    <3>1. Len(stack) > 0
      BY <1>1
    <3>2. \A j \in 1..(Len(stack) - 1) : Full(ip)[j] = stack[j]
      BY <1>1, <3>1, FullStack
    <3> QED
      BY <3>2 DEF Opens
  <2>2. \A j \in 1..NGlobals : j \in 1..(Len(stack) - 1)
    BY <1>1, StackAssumption
  <2> QED
    BY <2>1, <2>2
<1>10. Acts = s /\ Acts' = t /\ Globals' = Globals /\ Result = 0 /\ Result' = 0
  BY <1>2, <1>9, GlobalsStay DEF Acts, Result
<1> HIDE DEF s, t, S, T, n
<1>11. \A k \in 1..n : t[k] = s[k]
  <2>1. \A k \in 1..n : k \in 1..(n + 1)
    BY <1>4
  <2> QED
    BY <2>1, <1>5, <1>6, <1>7
<1>12. t[n + 1] = s[n + 1]
  <2>1. n + 1 \in 1..(n + 1) /\ n + 1 \in Nat
    BY <1>4
  <2> QED
    BY <2>1, <1>5, <1>6, <1>8
<1>13. Len(t) = n + 1 /\ n <= Len(s)
  BY <1>4, <1>5, <1>6
<1>14. t = Append(SubSeq(s, 1, n), t[n + 1])
  BY <1>4, <1>5, <1>6, <1>11, <1>13, BeginsLike
<1>15. s = Append(SubSeq(s, 1, n), s[n + 1])
  BY <1>4, <1>5, <1>13, BeginsLike
<1> QED
  BY <1>2, <1>10, <1>12, <1>14, <1>15

LEMMA BeginIs ==
  ASSUME Inv, Inv', Begin, "ArityMatches" \in Discipline
  PROVE  Calls!Next \/ UNCHANGED Calls!vars
<1>1. status = "running" /\ Entering
  BY DEF Begin
<1>2. /\ TypeOK /\ ip \in Fun /\ Len(stack) \in Nat \ {0} /\ Arity[ip] \in Nat
      /\ Len(stack) - 1 - Arity[ip] >= NGlobals + 7
  BY <1>1, BelowOpening
<1>3. \A j \in 1..NGlobals : j \in 1..(Len(stack) - 1) /\ j \in 1..MaxStack
  <2> DEFINE l == Len(stack)
             a == Arity[ip]
  <2>1. l \in Nat /\ a \in Nat /\ l - 1 - a >= NGlobals + 7
    BY <1>2
  <2> HIDE DEF l, a
  <2>2. \A j \in 1..NGlobals : j \in 1..(l - 1) /\ j \in 1..MaxStack
    BY <2>1, StackAssumption
  <2> QED
    BY <2>2 DEF l
<1>4. CASE Fail(stack)
  <2>1. Calls!Fail
    BY <1>1, <1>4, FailIs DEF Fail, history
  <2> QED
    BY <2>1 DEF Calls!Next
<1>5. CASE Fail(Below(1))
  <2>1. 1 \in 0..Len(stack)
    BY <1>2
  <2>2. \A j \in 1..NGlobals : Below(1)[j] = stack[j]
    BY <1>2, <1>3, <2>1, BelowTop
  <2>3. Calls!Fail
    BY <1>1, <1>5, <2>2, FailIs DEF Fail, history
  <2> QED
    BY <2>3 DEF Calls!Next
<1>6. CASE /\ stack' = SubSeq(Full(ip), 1, MaxStack) /\ status' = "error"
           /\ UNCHANGED <<ip, history>>
  <2> DEFINE full == Full(ip)
  <2>1. \A j \in 1..(Len(stack) - 1) : full[j] = stack[j]
    <3>1. Len(stack) > 0
      BY <1>2
    <3> QED
      BY <1>2, <3>1, FullStack
  <2>2. stack' = SubSeq(full, 1, MaxStack)
    BY <1>6
  <2> HIDE DEF full
  <2>3. \A i \in 1..(MaxStack - 1 + 1) : stack'[i] = full[1 + i - 1]
    <3>1. 1 \in Int /\ MaxStack \in Int
      BY StackAssumption
    <3> QED
      BY <2>2, <3>1, PartOf
  <2>4. ASSUME NEW j \in 1..NGlobals PROVE stack'[j] = stack[j]
    <3>1. j \in 1..(MaxStack - 1 + 1) /\ 1 + j - 1 = j
      BY <1>3, StackAssumption
    <3> QED
      BY <1>3, <2>1, <2>3, <3>1
  <2>5. Calls!Fail
    BY <1>1, <1>6, <2>4, FailIs DEF history
  <2> QED
    BY <2>5 DEF Calls!Next
<1>7. CASE Opens /\ instr' = instr
  <2>1. status' = status /\ Acts' = Acts /\ Globals' = Globals /\ Result' = Result
    BY <1>1, <1>7, OpeningIs
  <2> QED
    BY <1>7, <2>1 DEF Calls!vars, Acts, Globals, Result
<1> QED
  BY <1>4, <1>5, <1>6, <1>7 DEF Begin, Full, Zeros, Opens

-----------------------------------------------------------------------------
(* END.                                                                    *)

\* The caller finds its activation as it left it, with the result on top.
LEMMA CallerResumes ==
  ASSUME Inv, Inv', End, NEW k \in 1..(Len(frames) - 1), k = Len(frames) - 1
  PROVE  ActivationOf(k)' = WithTemps(ActivationOf(k), Append(ActivationOf(k).temps, Top(1)))
<1> DEFINE w == frames[k]
           a == StartOf(w)
           e == EndOf(w)
           p == w.fp
           z == ArgumentsStart
           ts == SubSeq(stack, e + 1, z)
<1>1. /\ TypeOK /\ Stacked /\ z \in Nat /\ z = StartOf(Innermost) /\ Innermost.ret \in Site \cup {0}
      /\ ip' = Innermost.ret
  BY Leaving
<1>2. /\ Len(stack') = z + 1 /\ (\A j \in 1..z : stack'[j] = stack[j]) /\ stack'[z + 1] = Top(1)
      /\ Len(frames') = Len(frames) - 1 /\ frames'[k] = w
  BY LeftBehind
<1>3. k \in 1..Len(frames) /\ k + 1 = Len(frames) /\ Len(frames) \in Nat
  BY <1>1, Lengths
<1>4. TempsEnd(k) = z
  <2>1. TempsEnd(k) = StartOf(frames[k + 1])
    BY <1>1, CallerPlaces
  <2>2. frames[k + 1] = Innermost
    BY <1>3 DEF Innermost
  <2> QED
    BY <1>1, <2>1, <2>2
<1>5. p \in Nat /\ e \in Nat /\ e >= p + 5 /\ a \in Int /\ a <= p /\ a >= NGlobals + 7 /\ e <= z
  <2>1. p \in Nat /\ e \in Nat /\ e >= p + 5 /\ a \in Int /\ a <= p
    BY <1>1, <1>3, FrameTypes
  <2>2. a >= NGlobals + 7 /\ e <= TempsEnd(k)
    BY <1>1, CallerPlaces
  <2> QED
    BY <1>4, <2>1, <2>2
<1>6. ~Entering'
  BY <1>1, ValueAssumption DEF Entering
<1>7. TempsEnd(k)' = Len(stack') - 0
  BY <1>2, <1>6 DEF TempsEnd
<1>8. w' = w /\ StartOf(w)' = a /\ EndOf(w)' = e
  BY <1>2 DEF StartOf, EndOf
<1> HIDE DEF z, a, e, p
<1>9. Len(stack') - 0 = z + 1
  BY <1>1, <1>2
<1>10. ActivationOf(k) = MadeOf(w.fun, SubSeq(stack, a + 1, p), SubSeq(stack, p + 6, e), ts, w.ret)
  BY <1>4 DEF ActivationOf, MadeOf, a, e, p, ts
<1>11. ActivationOf(k)' = MadeOf(w.fun, SubSeq(stack', a + 1, p), SubSeq(stack', p + 6, e),
                                 SubSeq(stack', e + 1, z + 1), w.ret)
  BY <1>7, <1>8, <1>9 DEF ActivationOf, MadeOf, p
<1>12. Part(stack', a + 1, p) = Part(stack, a + 1, p)
  <2>1. a + 1 \in Int /\ p \in Int /\ a + 1 <= p + 1 /\ \A j \in (a + 1)..p : j \in 1..z
    BY <1>1, <1>5, StackAssumption
  <2>2. \A j \in (a + 1)..p : stack'[j] = stack[j]
    BY <1>2, <2>1
  <2> QED
    BY <2>1, <2>2, SamePart
<1>13. Part(stack', p + 6, e) = Part(stack, p + 6, e)
  <2>1. p + 6 \in Int /\ e \in Int /\ p + 6 <= e + 1 /\ \A j \in (p + 6)..e : j \in 1..z
    BY <1>1, <1>5, StackAssumption
  <2>2. \A j \in (p + 6)..e : stack'[j] = stack[j]
    BY <1>2, <2>1
  <2> QED
    BY <2>1, <2>2, SamePart
<1>14. SubSeq(stack', e + 1, z + 1) = Append(ts, Top(1))
  <2> DEFINE b == e + 1
  <2>1. b \in Int /\ z \in Int /\ b <= z + 1 /\ \A j \in b..z : j \in 1..z
    BY <1>1, <1>5
  <2> HIDE DEF b
  <2>2. \A j \in b..z : stack'[j] = stack[j]
    BY <1>2, <2>1
  <2>3. SubSeq(stack', b, z + 1) = Append(SubSeq(stack, b, z), stack'[z + 1])
    BY <2>1, <2>2, LongerPart
  <2> QED
    BY <1>2, <2>3 DEF b
<1> HIDE DEF ts, w
<1>15. ActivationOf(k)' = MadeOf(w.fun, SubSeq(stack, a + 1, p), SubSeq(stack, p + 6, e),
                                 Append(ts, Top(1)), w.ret)
  BY <1>11, <1>12, <1>13, <1>14 DEF Part
<1>16. ActivationOf(k).temps = ts
  BY <1>10 DEF MadeOf
<1> QED
  BY <1>10, <1>15, <1>16, TempsAnew

\* A return hands one value to the caller, or ends the run.
LEMMA EndIs ==
  ASSUME Inv, Inv', End
  PROVE  Calls!Next
<1> DEFINE n == Len(frames)
           S == ActivationSet
           s == Activations
           T == ActivationSet'
           t == Activations'
           z == ArgumentsStart
<1>1. /\ TypeOK /\ TypeOK' /\ Stacked /\ status = "running" /\ ~Entering /\ n \in Nat \ {0}
      /\ z \in Nat /\ z >= NGlobals + 7 /\ z = StartOf(Innermost)
      /\ fp' = IF n = 1 THEN NGlobals ELSE frames[n - 1].fp
      /\ ip' = Innermost.ret /\ Innermost.ret \in Site \cup {0}
  BY Leaving DEF Inv
<1>2. /\ Len(stack') = z + 1 /\ (\A j \in 1..z : stack'[j] = stack[j]) /\ stack'[z + 1] = Top(1)
      /\ Len(frames') = n - 1 /\ \A k \in 1..(n - 1) : frames'[k] = frames[k]
  BY LeftBehind
<1>3. depth >= 1 /\ instr' = <<"END", 0>>
  BY DEF End, Executing
<1>4. /\ Acts = s /\ Len(Acts) = n /\ Calls!Running /\ Calls!Current = ActivationOf(n)
  BY <1>1, CurrentIs
<1>5. Calls!Current.temps = Temps /\ Temps # <<>> /\ Temps[Len(Temps)] = Top(1)
  <2>1. ActivationOf(n) = InnermostMade
    BY <1>1, InnermostIs DEF MadeOfParts
  <2> QED
    BY <1>1, <1>3, <1>4, <2>1, TempsAre DEF InnermostMade
<1>6. Globals' = Globals
  <2> HIDE DEF z
  <2>1. \A j \in 1..NGlobals : j \in 1..z
    BY <1>1, StackAssumption
  <2> QED
    BY <1>2, <2>1, GlobalsStay
<1>7. CASE n = 1
  <2>1. status' = "finished"
    BY <1>1, <1>7 DEF End
  <2>2. Top(1)' = stack'[Len(stack') + 1 - 1]
    BY DEF Top
  <2> HIDE DEF z
  <2>3. Len(stack') + 1 - 1 = z + 1
    BY <1>1, <1>2
  <2>4. Result' = Top(1) /\ Acts' = <<>>
    BY <1>2, <2>1, <2>2, <2>3 DEF Result, Acts
  <2> HIDE DEF n, s
  <2>5. Calls!Return
    BY <1>3, <1>4, <1>5, <1>6, <1>7, <2>1, <2>4 DEF Calls!Return, Acts, Globals, Result
  <2> QED
    BY <2>5 DEF Calls!Next
<1>8. CASE n # 1
  <2>1. status' = status
    BY <1>1, <1>8, Resuming DEF End
  <2>2. Acts' = t /\ Result' = Result
    BY <1>1, <2>1 DEF Acts, Result
  <2>3. ~Entering'
    BY <1>1, ValueAssumption DEF Entering
  <2>4. s \in Seq(S) /\ Len(s) = n + 0 /\ \A k \in 1..n : s[k] = ActivationOf(k)
    BY <1>1, ActivationsAre DEF OneForEach
  <2>5. t \in Seq(T) /\ Len(t) = n - 1 + 0 /\ \A k \in 1..(n - 1) : t[k] = ActivationOf(k)'
    BY <1>1, <1>2, <2>3, ActivationsAreNext DEF OneForEach
  <2>6. ASSUME NEW k \in 1..(n - 2) PROVE ActivationOf(k)' = ActivationOf(k)
    <3>1. k \in 1..(n - 1) /\ k + 1 \in 1..(n - 1) /\ k < n - 1
      BY <1>1
    <3>2. k < Len(frames') /\ frames'[k] = frames[k] /\ frames'[k + 1] = frames[k + 1]
      BY <1>2, <3>1
    <3>3. ASSUME NEW j \in (NGlobals + 8)..StartOf(Innermost) PROVE stack'[j] = stack[j]
      <4>1. j \in (NGlobals + 8)..z
        BY <1>1
      <4> HIDE DEF z
      <4>2. j \in 1..z
        BY <1>1, <4>1, StackAssumption
      <4> QED
        BY <1>2, <4>2
    <3> QED
      BY <1>1, <3>1, <3>2, <3>3, CallerUnaffected
  <2>7. \A k \in 1..(n - 1) : k = n - 1 =>
          ActivationOf(k)' = WithTemps(ActivationOf(k), Append(ActivationOf(k).temps, Top(1)))
    BY CallerResumes
  <2> HIDE DEF s, t, S, T, n
  <2>8. /\ n - 2 \in Nat /\ Len(t) = n - 2 + 1 /\ n - 2 <= Len(s) /\ n - 2 + 1 = n - 1
        /\ n - 1 \in 1..(n - 1) /\ n - 1 \in 1..n
    BY <1>1, <1>8, <2>4, <2>5
  <2>9. ASSUME NEW k \in 1..(n - 2) PROVE t[k] = s[k]
    <3>1. k \in 1..(n - 1) /\ k \in 1..n
      BY <1>1
    <3> QED
      BY <2>4, <2>5, <2>6, <3>1
  <2>10. t = Append(SubSeq(s, 1, n - 2), t[n - 1])
    BY <2>4, <2>5, <2>8, <2>9, BeginsLike
  <2>11. t[n - 1] = WithTemps(s[n - 1], Append(s[n - 1].temps, Top(1)))
    BY <2>4, <2>5, <2>7, <2>8
  <2>12. Acts' = Append(SubSeq(Acts, 1, Len(Acts) - 2),
                        WithTemps(Acts[Len(Acts) - 1], Append(Acts[Len(Acts) - 1].temps, Top(1))))
    BY <1>4, <2>2, <2>10, <2>11
  <2>13. Len(Acts) # 1
    BY <1>4, <1>8
  <2>14. Calls!Return
    BY <1>3, <1>4, <1>5, <1>6, <2>1, <2>2, <2>12, <2>13
    DEF Calls!Return, WithTemps, Acts, Globals, Result
  <2> QED
    BY <2>14 DEF Calls!Next
<1> QED
  BY <1>7, <1>8

-----------------------------------------------------------------------------
(* The machine.                                                            *)

LEMMA InitIs == Init => Calls!Init
<1> SUFFICES ASSUME Init PROVE Calls!Init
  OBVIOUS
<1> DEFINE l == NGlobals + 8
<1>1. TypeOK
  BY InitKeeps DEF Inv
<1>2. Main \in Fun /\ Arity[Main] = 0 /\ NGlobals \in Nat /\ l \in Nat
  BY FunAssumption, StackAssumption
<1>3. Len(stack) = l /\ \A i \in 1..l : i # NGlobals + 2 => stack[i] = 0
  BY <1>2 DEF Init
<1>4. ip = Main /\ frames = <<>> /\ status = "running" /\ instr = <<"NONE", 0>> /\ Entering
  BY <1>2 DEF Init, Entering
<1> HIDE DEF l
<1>5. Callee = Calls!Activation(Main, <<>>, 0)
  <2>1. l - 0 \in Int /\ l - 1 \in Int /\ l - 1 < l - 0
    BY <1>2
  <2>2. SubSeq(stack, l - 0, l - 1) = <<>>
    BY <2>1, SubSeqEmpty
  <2>3. l + 1 - 1 \in 1..l /\ l + 1 - 1 # NGlobals + 2
    BY <1>2 DEF l
  <2>4. Top(1) = 0
    BY <1>3, <2>3 DEF Top
  <2> QED
    BY <1>2, <1>3, <1>4, <2>2, <2>4 DEF Callee, Calls!Activation, Calls!Zeros
<1>6. Acts = <<Callee>>
  <2>1. /\ Activations \in Seq(ActivationSet) /\ Len(Activations) = 0 + 1
        /\ Activations[0 + 1] = Callee
    BY <1>1, <1>4, ActivationsAre DEF OneForEach
  <2>2. Acts = Activations
    BY <1>4 DEF Acts
  <2> HIDE DEF Activations, Acts
  <2>3. /\ Callee \in {Callee} /\ <<Callee>> \in Seq({Callee}) /\ Len(<<Callee>>) = 1
        /\ <<Callee>>[1] = Callee
    OBVIOUS
  <2>4. Activations \in Seq(ActivationSet) /\ Len(Activations) = 1 /\ Activations[1] = Callee
    BY <2>1
  <2>5. \A i \in 1..1 : Activations[i] = <<Callee>>[i]
    BY <2>3, <2>4
  <2> QED
    BY <2>2, <2>3, <2>4, <2>5, SeqEqual
<1>7. Globals = Calls!Zeros(NGlobals)
  <2> DEFINE z == [i \in 1..NGlobals |-> 0]
  <2>1. z \in Seq({0}) /\ Len(z) = NGlobals /\ \A i \in 1..NGlobals : z[i] = 0
    BY <1>2
  <2>2. Calls!Zeros(NGlobals) = z
    BY DEF Calls!Zeros
  <2> HIDE DEF z
  <2>3. 1 \in Int /\ NGlobals \in Int /\ Len(z) = NGlobals - 1 + 1
    BY <1>2, <2>1
  <2>4. ASSUME NEW i \in 1..Len(z) PROVE z[i] = stack[1 + i - 1]
    <3>1. i \in 1..NGlobals /\ 1 + i - 1 = i
      BY <2>1
    <3>2. i \in 1..l /\ i # NGlobals + 2
      BY <1>2, <3>1 DEF l
    <3> QED
      BY <1>3, <2>1, <3>1, <3>2
  <2>5. SubSeq(stack, 1, NGlobals) = z
    BY <2>1, <2>3, <2>4, IsPart
  <2> QED
    BY <2>2, <2>5 DEF Globals
<1> QED
  BY <1>4, <1>5, <1>6, <1>7 DEF Calls!Init, Acts, Globals

LEMMA NextIs ==
  ASSUME "ArityMatches" \in Discipline
  PROVE  Inv /\ Inv' /\ [Next]_vars => [Calls!Next]_(Calls!vars)
<1> SUFFICES ASSUME Inv, Inv', [Next]_vars PROVE Calls!Next \/ UNCHANGED Calls!vars
  OBVIOUS
<1>1. ASSUME UNCHANGED vars PROVE UNCHANGED Calls!vars
  <2>1. UNCHANGED <<stack, ip, status, frames, instr>>
    BY <1>1 DEF vars
  <2> QED
    BY <2>1 DEF Calls!vars, Activations, ActivationOf, Callee, TempsEnd, StartOf, EndOf, Entering, Top
<1>2. ASSUME NEW v \in Value, Make(v) PROVE Calls!Next
  BY <1>2, MakeIs
<1>3. ASSUME Drop PROVE Calls!Next
  BY <1>3, DropIs
<1>4. ASSUME Begin PROVE Calls!Next \/ UNCHANGED Calls!vars
  BY <1>4, BeginIs
<1>5. ASSUME End PROVE Calls!Next
  BY <1>5, EndIs
<1>6. ASSUME Stopped PROVE UNCHANGED Calls!vars
  BY <1>6, <1>1 DEF Stopped
<1>7. ASSUME NEW i \in Index, LoadGlobal(i) \/ LoadArg(i) \/ LoadLocal(i) PROVE Calls!Next
  BY <1>7, LoadIs
<1>8. ASSUME NEW i \in Index, StoreGlobal(i) \/ StoreArg(i) \/ StoreLocal(i) PROVE Calls!Next
  BY <1>8, StoreIs
<1>9. ASSUME NEW n \in Index, NEW r \in Site, CallClosure(n, r) PROVE Calls!Next
  <2>1. n \in Nat
    BY StackAssumption DEF Index
  <2> QED
    BY <1>9, <2>1, CallClosureIs
<1>10. ASSUME NEW n \in Index, NEW r \in Site, NEW f \in Callable, Call(f, n, r) PROVE Calls!Next
  <2>1. n \in Nat
    BY StackAssumption DEF Index
  <2> QED
    BY <1>10, <2>1, CallIs
<1> QED
  BY <1>1, <1>2, <1>3, <1>4, <1>5, <1>6, <1>7, <1>8, <1>9, <1>10 DEF Next

\* If every call has the arguments its function takes, the machine with its one stack
\* does what calls promise: a callee has the arguments it was passed and locals of its
\* own, a caller finds all its values as it left them and one result more, and it goes
\* on where it called.  (eval_call, eval_call_closure, eval_begin, eval_end, loads and
\* stores)
THEOREM CallsCorrect ==
  ASSUME "ArityMatches" \in Discipline
  PROVE  Spec => CallsSpec
<1>1. Init => Inv
  BY InitKeeps
<1>2. Inv /\ [Next]_vars => Inv'
  BY NextKeeps
<1>3. Init => Calls!Init
  BY InitIs
<1>4. Inv /\ Inv' /\ [Next]_vars => [Calls!Next]_(Calls!vars)
  BY NextIs
<1> QED
  BY <1>1, <1>2, <1>3, <1>4, PTL DEF Spec, CallsSpec, Calls!Spec

=============================================================================
