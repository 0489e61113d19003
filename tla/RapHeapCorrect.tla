--------------------------- MODULE RapHeapCorrect ---------------------------
(***************************************************************************)
(* Reference counts are exact: a proof for every value of the constants,   *)
(* for programs that do not assign to slices and put only characters into  *)
(* texts.                                                                  *)
(*                                                                         *)
(* The invariant is Inv.  Balanced, the sum it is about, needs two more    *)
(* parts while RAP_dec_ref is at work: an object whose destructor runs has *)
(* a count of zero, so nobody owns it and RAP_free_object never starts on  *)
(* it again (FreeingZero), and what STA is about to store still has an     *)
(* owner (AssignHeld).  A few rules reduce a handler to a sum: one for a   *)
(* handler that changes no item, one for one that makes an object, one for *)
(* one that changes the items of an object, and one for one that stops.    *)
(* Then there is one lemma for each instruction, which says which of the   *)
(* rules the handler is an instance of, and the theorems.  First come      *)
(* lemmas about Occurs and HeapRefs, the two ways in which RapHeap counts  *)
(* references: in a sequence of values, and in the items of all objects.   *)
(***************************************************************************)
EXTENDS RapHeapTypes, FunctionTheorems

-----------------------------------------------------------------------------
(* Counting places of a sequence.                                          *)

\* Two finite sets that a function maps onto one another, one to one, have the
\* same number of elements.
LEMMA SameSize ==
  ASSUME NEW A, NEW B, IsFiniteSet(A), NEW f \in [A -> B],
         \A x, y \in A : f[x] = f[y] => x = y,
         \A z \in B : \E x \in A : f[x] = z
  PROVE  IsFiniteSet(B) /\ Cardinality(A) = Cardinality(B)
<1>1. f \in Bijection(A, B)
  BY Fun_IsBij
<1> QED BY <1>1, FS_Bijection, Fun_ExistsBij

LEMMA OccursEmpty == ASSUME NEW a PROVE Occurs(<<>>, a) = 0
<1>1. {i \in DOMAIN <<>> : <<>>[i] = a} = {}
  OBVIOUS
<1> QED BY <1>1, FS_EmptySet DEF Occurs

LEMMA OccursSingle ==
  ASSUME NEW v, NEW a PROVE Occurs(<<v>>, a) = IF v = a THEN 1 ELSE 0
<1>1. CASE v = a
  <2>1. {i \in DOMAIN <<v>> : <<v>>[i] = a} = {1}
    BY <1>1
  <2> QED BY <1>1, <2>1, FS_Singleton DEF Occurs
<1>2. CASE v # a
  <2>1. {i \in DOMAIN <<v>> : <<v>>[i] = a} = {}
    BY <1>2
  <2> QED BY <1>2, <2>1, FS_EmptySet DEF Occurs
<1> QED BY <1>1, <1>2

\* A value occurs in two sequences together as often as in each.
LEMMA OccursConcat ==
  ASSUME NEW S, NEW s \in Seq(S), NEW t \in Seq(S), NEW a
  PROVE  Occurs(s \o t, a) = Occurs(s, a) + Occurs(t, a)
<1> DEFINE n == Len(s)
           m == Len(t)
           A == {i \in 1..n : s[i] = a}
           B == {i \in 1..m : t[i] = a}
           C == {i \in 1..(n + m) : (s \o t)[i] = a}
           D == {i \in (n + 1)..(n + m) : t[i - n] = a}
           f == [j \in B |-> j + n]
<1>1. n \in Nat /\ m \in Nat /\ DOMAIN s = 1..n /\ DOMAIN t = 1..m
  BY LenProperties
<1>2. s \o t \in Seq(S) /\ Len(s \o t) = n + m
      /\ \A i \in 1..(n + m) : (s \o t)[i] = IF i <= n THEN s[i] ELSE t[i - n]
  BY ConcatProperties
<1>3. DOMAIN (s \o t) = 1..(n + m)
  BY <1>2, LenProperties
<1>4. Occurs(s, a) = Cardinality(A) /\ Occurs(t, a) = Cardinality(B)
      /\ Occurs(s \o t, a) = Cardinality(C) /\ IsFiniteSet(A) /\ IsFiniteSet(B)
  BY <1>1, <1>3, OccursNat DEF Occurs
<1>5. IsFiniteSet(D) /\ Cardinality(B) = Cardinality(D)
  <2> HIDE DEF n, m
  <2>1. f \in [B -> D]
    BY <1>1
  <2>2. \A x, y \in B : f[x] = f[y] => x = y
    BY <1>1
  <2>3. ASSUME NEW z \in D PROVE \E x \in B : f[x] = z
    <3>1. z - n \in B /\ (z - n) + n = z
      BY <1>1
    <3> QED BY <3>1
  <2>4. \A z \in D : \E x \in B : f[x] = z
    <3> HIDE DEF B, D, f
    <3> QED BY <2>3
  <2> HIDE DEF A, B, C, D, f, n, m
  <2>5. IsFiniteSet(B)
    BY <1>4
  <2> QED BY <2>1, <2>2, <2>4, <2>5, SameSize
<1>6. C = A \cup D
  <2> HIDE DEF n, m
  <2>1. ASSUME NEW i PROVE i \in C <=> i \in A \cup D
    BY <1>1, <1>2
  <2> HIDE DEF A, C, D
  <2> QED BY <2>1
<1>7. A \cap D = {}
  <2> HIDE DEF n, m
  <2> QED BY <1>1
<1>8. Cardinality(A) \in Nat /\ Cardinality(D) \in Nat
  BY <1>4, <1>5, FS_CardinalityType
<1> HIDE DEF A, B, C, D
<1>9. Cardinality(C) = Cardinality(A) + Cardinality(D) - Cardinality({})
  BY <1>4, <1>5, <1>6, <1>7, FS_Union
<1> QED BY <1>4, <1>5, <1>8, <1>9, FS_EmptySet

LEMMA OccursAppend ==
  ASSUME NEW S, NEW s \in Seq(S), NEW v \in S, NEW a
  PROVE  Occurs(Append(s, v), a) = Occurs(s, a) + Occurs(<<v>>, a)
<1>1. Append(s, v) = s \o <<v>> /\ <<v>> \in Seq(S)
  BY AppendIsConcat
<1>2. Occurs(s \o <<v>>, a) = Occurs(s, a) + Occurs(<<v>>, a)
  <2> DEFINE t == <<v>>
  <2>1. t \in Seq(S)
    BY <1>1
  <2> HIDE DEF t
  <2>2. Occurs(s \o t, a) = Occurs(s, a) + Occurs(t, a)
    BY <2>1, OccursConcat
  <2> QED BY <2>2 DEF t
<1> QED BY <1>1, <1>2

LEMMA OccursHeadTail ==
  ASSUME NEW S, NEW s \in Seq(S), s # <<>>, NEW a
  PROVE  Occurs(s, a) = Occurs(<<Head(s)>>, a) + Occurs(Tail(s), a)
<1>1. /\ Head(s) \in S /\ Tail(s) \in Seq(S) /\ Len(Tail(s)) = Len(s) - 1
      /\ \A i \in 1..Len(Tail(s)) : Tail(s)[i] = s[i + 1]
  BY HeadTailProperties
<1>2. <<Head(s)>> \in Seq(S) /\ Len(<<Head(s)>>) = 1 /\ <<Head(s)>>[1] = Head(s)
  BY <1>1
<1>3. Len(s) \in Nat \ {0}
  BY EmptySeq
<1>4. s = <<Head(s)>> \o Tail(s)
  <2>1. /\ <<Head(s)>> \o Tail(s) \in Seq(S)
        /\ Len(<<Head(s)>> \o Tail(s)) = 1 + Len(Tail(s))
        /\ \A i \in 1..(1 + Len(Tail(s))) : (<<Head(s)>> \o Tail(s))[i] =
             IF i <= 1 THEN <<Head(s)>>[i] ELSE Tail(s)[i - 1]
    BY <1>1, <1>2, ConcatProperties
  <2>2. Len(s) = Len(<<Head(s)>> \o Tail(s))
    BY <1>1, <1>3, <2>1
  <2>3. ASSUME NEW i \in 1..Len(s) PROVE s[i] = (<<Head(s)>> \o Tail(s))[i]
    <3>1. CASE i = 1
      BY <1>2, <1>3, <2>1, <2>2, <3>1
    <3>2. CASE i # 1
      <4>1. i - 1 \in 1..Len(Tail(s)) /\ (i - 1) + 1 = i
        BY <1>1, <1>3, <3>2
      <4>2. (<<Head(s)>> \o Tail(s))[i] = Tail(s)[i - 1]
        BY <1>1, <1>3, <2>1, <3>2
      <4> QED BY <1>1, <4>1, <4>2
    <3> QED BY <3>1, <3>2
  <2> QED BY <2>1, <2>2, <2>3, SeqEqual
<1>5. Occurs(<<Head(s)>> \o Tail(s), a) = Occurs(<<Head(s)>>, a) + Occurs(Tail(s), a)
  BY <1>1, <1>2, OccursConcat
<1> QED BY <1>4, <1>5

\* What a sequence holds is in its last n elements or in what is before them.
LEMMA OccursSplit ==
  ASSUME NEW S, NEW s \in Seq(S), NEW n \in 0..Len(s), NEW a
  PROVE  Occurs(s, a) = Occurs(SubSeq(s, 1, Len(s) - n), a)
                          + Occurs(SubSeq(s, Len(s) + 1 - n, Len(s)), a)
<1>1. Len(s) \in Nat
  BY LenProperties
<1>2. /\ SubSeq(s, 1, Len(s) - n) \in Seq(S)
      /\ SubSeq(s, Len(s) + 1 - n, Len(s)) \in Seq(S)
  BY SplitSeq
<1>3. s = SubSeq(s, 1, Len(s) - n) \o SubSeq(s, Len(s) + 1 - n, Len(s))
  <2>1. /\ 1 \in 1..(Len(s) + 1) /\ Len(s) - n \in (1 - 1)..Len(s)
        /\ Len(s) \in (Len(s) - n)..Len(s) /\ (Len(s) - n) + 1 = Len(s) + 1 - n
    BY <1>1
  <2>2. SubSeq(s, 1, Len(s) - n) \o SubSeq(s, (Len(s) - n) + 1, Len(s)) = SubSeq(s, 1, Len(s))
    BY <2>1, ConcatAdjacentSubSeq
  <2> QED BY <2>1, <2>2, SubSeqFull
<1> DEFINE x == SubSeq(s, 1, Len(s) - n)
           y == SubSeq(s, Len(s) + 1 - n, Len(s))
<1>4. x \in Seq(S) /\ y \in Seq(S) /\ s = x \o y
  BY <1>2, <1>3
<1> HIDE DEF x, y
<1>5. Occurs(x \o y, a) = Occurs(x, a) + Occurs(y, a)
  BY <1>4, OccursConcat
<1> QED BY <1>4, <1>5 DEF x, y

\* One item replaced by another.
LEMMA OccursExcept ==
  ASSUME NEW S, NEW s \in Seq(S), NEW g \in 1..Len(s), NEW v \in S, NEW a
  PROVE  Occurs([s EXCEPT ![g] = v], a) + Occurs(<<s[g]>>, a)
           = Occurs(s, a) + Occurs(<<v>>, a)
<1> DEFINE t == [s EXCEPT ![g] = v]
           E == {i \in 1..Len(s) : i # g /\ s[i] = a}
           P == {i \in 1..Len(s) : s[i] = a}
           Q == {i \in 1..Len(s) : t[i] = a}
<1>1. /\ Len(s) \in Nat /\ DOMAIN s = 1..Len(s) /\ t \in Seq(S) /\ Len(t) = Len(s)
      /\ \A j \in 1..Len(s) : t[j] = IF j = g THEN v ELSE s[j]
  BY LenProperties, ExceptSeq
<1>2. DOMAIN t = 1..Len(s)
  BY <1>1, LenProperties
<1>3. Occurs(s, a) = Cardinality(P) /\ Occurs(t, a) = Cardinality(Q) /\ IsFiniteSet(P)
  BY <1>1, <1>2, OccursNat DEF Occurs
<1>4. IsFiniteSet(E) /\ g \notin E
  <2>1. E \in SUBSET P
    OBVIOUS
  <2> HIDE DEF P
  <2> QED BY <1>3, <2>1, FS_Subset
<1>5. P = IF s[g] = a THEN E \cup {g} ELSE E
  OBVIOUS
<1>6. Q = IF v = a THEN E \cup {g} ELSE E
  <2> HIDE DEF t
  <2> QED BY <1>1
<1>7. Cardinality(E \cup {g}) = Cardinality(E) + 1 /\ Cardinality(E) \in Nat
  <2> HIDE DEF E
  <2> QED BY <1>4, FS_AddElement, FS_CardinalityType
<1>8. /\ Occurs(<<s[g]>>, a) = IF s[g] = a THEN 1 ELSE 0
      /\ Occurs(<<v>>, a) = IF v = a THEN 1 ELSE 0
  BY OccursSingle
<1> HIDE DEF E, P, Q, t
<1>9. Occurs(t, a) + Occurs(<<s[g]>>, a) = Occurs(s, a) + Occurs(<<v>>, a)
  BY <1>3, <1>5, <1>6, <1>7, <1>8
<1> QED BY <1>9 DEF t

\* A sequence and its reversal hold the same.
LEMMA OccursReverse ==
  ASSUME NEW S, NEW s \in Seq(S), NEW t \in Seq(S), Len(t) = Len(s),
         \A i \in 1..Len(s) : t[i] = s[Len(s) + 1 - i], NEW a
  PROVE  Occurs(t, a) = Occurs(s, a)
<1> DEFINE n == Len(s)
           A == {i \in 1..n : s[i] = a}
           B == {i \in 1..n : t[i] = a}
           f == [i \in A |-> n + 1 - i]
<1>1. n \in Nat /\ DOMAIN s = 1..n /\ DOMAIN t = 1..n
  BY LenProperties
<1>2. Occurs(s, a) = Cardinality(A) /\ Occurs(t, a) = Cardinality(B) /\ IsFiniteSet(A)
  BY <1>1, OccursNat DEF Occurs
<1>3. \A i \in 1..n : t[i] = s[n + 1 - i]
  OBVIOUS
<1> HIDE DEF n
<1>4. f \in [A -> B]
  <2>1. ASSUME NEW i \in A PROVE n + 1 - i \in B
    <3>1. n + 1 - i \in 1..n /\ n + 1 - (n + 1 - i) = i
      BY <1>1
    <3> QED BY <1>3, <3>1
  <2> HIDE DEF A, B
  <2> QED BY <2>1
<1>5. \A x, y \in A : f[x] = f[y] => x = y
  BY <1>1
<1>6. ASSUME NEW z \in B PROVE \E x \in A : f[x] = z
  <2>1. n + 1 - z \in 1..n /\ n + 1 - (n + 1 - z) = z
    BY <1>1
  <2>2. n + 1 - z \in A
    BY <1>3, <2>1
  <2> QED BY <2>1, <2>2
<1> HIDE DEF A, B, f
<1> QED BY <1>2, <1>4, <1>5, <1>6, SameSize

LEMMA OccursZero ==
  ASSUME NEW S, NEW s \in Seq(S), NEW a
  PROVE  Occurs(s, a) = 0 <=> \A i \in 1..Len(s) : s[i] # a
<1> DEFINE A == {i \in DOMAIN s : s[i] = a}
<1>1. DOMAIN s = 1..Len(s) /\ IsFiniteSet(A) /\ Occurs(s, a) = Cardinality(A)
  <2>1. DOMAIN s = 1..Len(s)
    BY LenProperties
  <2>2. IsFiniteSet(A)
    BY OccursNat
  <2> QED BY <2>1, <2>2 DEF Occurs
<1>2. Cardinality(A) = 0 <=> A = {}
  <2> HIDE DEF A
  <2> QED BY <1>1, FS_EmptySet
<1> QED BY <1>1, <1>2

\* A part of a sequence holds nothing the sequence does not hold.
LEMMA OccursPart ==
  ASSUME NEW S, NEW s \in Seq(S), NEW t \in Seq(S), NEW a, Occurs(s, a) = 0,
         \A i \in 1..Len(t) : \E j \in 1..Len(s) : t[i] = s[j]
  PROVE  Occurs(t, a) = 0
<1>1. \A i \in 1..Len(s) : s[i] # a
  BY OccursZero
<1>2. \A i \in 1..Len(t) : t[i] # a
  BY <1>1
<1> QED BY <1>2, OccursZero

-----------------------------------------------------------------------------
(* Counting places of the heap.                                            *)

\* HeapRefs for an arbitrary heap, and for all of it but one object.
PlacesOf(its) == UNION {{x} \X DOMAIN its[x] : x \in Addr}
RefsIn(its, a) == Cardinality({c \in PlacesOf(its) : its[c[1]][c[2]] = a})
RefsBut(its, x, a) == Cardinality({c \in PlacesOf(its) : its[c[1]][c[2]] = a /\ c[1] # x})

LEMMA PlacesFinite ==
  ASSUME NEW its \in [Addr -> Seq(Value)]
  PROVE  IsFiniteSet(PlacesOf(its))
<1> DEFINE F == [x \in Addr |-> {x} \X DOMAIN its[x]]
           T == {{x} \X DOMAIN its[x] : x \in Addr}
<1>1. IsFiniteSet(T)
  <2>1. F \in Surjection(Addr, T)
    <3>1. F \in [Addr -> T]
      OBVIOUS
    <3>2. \A t \in T : \E x \in Addr : F[x] = t
      OBVIOUS
    <3> QED BY <3>1, <3>2 DEF Surjection
  <2> HIDE DEF F, T
  <2> QED BY <2>1, AddrAssumption, FS_Surjection
<1>2. ASSUME NEW t \in T PROVE IsFiniteSet(t)
  <2>1. PICK x \in Addr : t = {x} \X DOMAIN its[x]
    OBVIOUS
  <2>2. DOMAIN its[x] = 1..Len(its[x]) /\ Len(its[x]) \in Nat
    BY LenProperties
  <2>3. IsFiniteSet({x}) /\ IsFiniteSet(DOMAIN its[x])
    <3>1. IsFiniteSet({x})
      BY FS_Singleton
    <3>2. IsFiniteSet(1..Len(its[x]))
      BY <2>2, FS_Interval
    <3> QED BY <2>2, <3>1, <3>2
  <2> QED BY <2>1, <2>3, FS_Product
<1> HIDE DEF T
<1>3. IsFiniteSet(UNION T)
  BY <1>1, <1>2, FS_UNION
<1> QED BY <1>3 DEF PlacesOf, T

\* The references the heap holds are those of one object and those of the rest.
LEMMA RefsSplit ==
  ASSUME NEW its \in [Addr -> Seq(Value)], NEW x \in Addr, NEW a
  PROVE  /\ RefsIn(its, a) = Occurs(its[x], a) + RefsBut(its, x, a)
         /\ RefsIn(its, a) \in Nat /\ RefsBut(its, x, a) \in Nat
<1> DEFINE P == {c \in PlacesOf(its) : its[c[1]][c[2]] = a}
           R == {c \in PlacesOf(its) : its[c[1]][c[2]] = a /\ c[1] # x}
           X == {c \in PlacesOf(its) : its[c[1]][c[2]] = a /\ c[1] = x}
           A == {i \in DOMAIN its[x] : its[x][i] = a}
           f == [i \in A |-> <<x, i>>]
<1>1. IsFiniteSet(P) /\ IsFiniteSet(R) /\ IsFiniteSet(X)
  <2>1. P \in SUBSET PlacesOf(its) /\ R \in SUBSET PlacesOf(its) /\ X \in SUBSET PlacesOf(its)
    OBVIOUS
  <2> HIDE DEF P, R, X
  <2> QED BY <2>1, PlacesFinite, FS_Subset
<1>2. P = X \cup R /\ X \cap R = {}
  OBVIOUS
<1>3. Cardinality(A) = Cardinality(X)
  <2>1. IsFiniteSet(A)
    BY OccursNat
  <2>2. f \in [A -> X]
    <3>1. ASSUME NEW i \in A PROVE <<x, i>> \in X
      <4>1. <<x, i>> \in PlacesOf(its)
        BY DEF PlacesOf
      <4> QED BY <4>1
    <3> HIDE DEF A, X
    <3> QED BY <3>1
  <2>3. \A y, z \in A : f[y] = f[z] => y = z
    OBVIOUS
  <2>4. ASSUME NEW c \in X PROVE \E i \in A : f[i] = c
    <3>1. PICK y \in Addr : c \in {y} \X DOMAIN its[y]
      BY DEF PlacesOf
    <3>2. y = x /\ c = <<x, c[2]>> /\ c[2] \in A
      BY <3>1
    <3> QED BY <3>2
  <2> HIDE DEF A, X, f
  <2> QED BY <2>1, <2>2, <2>3, <2>4, SameSize
<1> HIDE DEF P, R, X
<1>4. /\ Cardinality(X) \in Nat /\ Cardinality(R) \in Nat /\ Cardinality(P) \in Nat
      /\ Cardinality({}) = 0
  BY <1>1, FS_CardinalityType, FS_EmptySet
<1>5. Cardinality(P) = Cardinality(X) + Cardinality(R) - Cardinality({})
  BY <1>1, <1>2, FS_Union
<1> QED BY <1>3, <1>4, <1>5 DEF RefsIn, RefsBut, P, R, Occurs

\* When the items of one object change, so do its references and no others.
ChangesOnly(v, its, new) ==
  /\ its \in [Addr -> Seq(Value)] /\ new \in [Addr -> Seq(Value)]
  /\ \A y \in Addr \ {v} : new[y] = its[y]

LEMMA ItemsChange ==
  ASSUME NEW its, NEW new, NEW v \in Addr, ChangesOnly(v, its, new), NEW x
  PROVE  RefsIn(new, x) + Occurs(its[v], x) = RefsIn(its, x) + Occurs(new[v], x)
<1>1. /\ its \in [Addr -> Seq(Value)] /\ new \in [Addr -> Seq(Value)]
      /\ \A y \in Addr \ {v} : new[y] = its[y]
  BY DEF ChangesOnly
<1>2. {c \in PlacesOf(new) : new[c[1]][c[2]] = x /\ c[1] # v}
        = {c \in PlacesOf(its) : its[c[1]][c[2]] = x /\ c[1] # v}
  BY <1>1 DEF PlacesOf
<1>3. RefsBut(new, v, x) = RefsBut(its, v, x)
  BY <1>2 DEF RefsBut
<1>4. /\ RefsIn(new, x) = Occurs(new[v], x) + RefsBut(new, v, x)
      /\ RefsIn(its, x) = Occurs(its[v], x) + RefsBut(its, v, x)
      /\ RefsBut(its, v, x) \in Nat
  BY <1>1, RefsSplit
<1>5. Occurs(new[v], x) \in Nat /\ Occurs(its[v], x) \in Nat
  BY <1>1, OccursNat
<1> QED BY <1>3, <1>4, <1>5

-----------------------------------------------------------------------------
(* What the objects own, while a release is going on and between.           *)

LEMMA HeapRefsIn ==
  ASSUME NEW a
  PROVE  HeapRefs(a) = RefsIn(Held, a) /\ HeapRefs(a)' = RefsIn(Held', a)
BY DEF HeapRefs, RefsIn, Places, PlacesOf

\* One place of a sequence is overwritten, if it is there.
LEMMA ExceptAnywhere ==
  ASSUME NEW s \in Seq(Value), NEW i, NEW v \in Value
  PROVE  [s EXCEPT ![i] = v] \in Seq(Value)
<1>1. DOMAIN s = 1..Len(s)
  BY LenProperties
<1>2. CASE i \in 1..Len(s)
  BY <1>2, ExceptSeq
<1>3. CASE i \notin 1..Len(s)
  <2>1. s = [j \in DOMAIN s |-> s[j]]
    BY <1>1
  <2>2. [s EXCEPT ![i] = v] = s
    BY <1>1, <1>3, <2>1
  <2> QED BY <2>2
<1> QED BY <1>2, <1>3

HeldOK == Held \in [Addr -> Seq(Value)]

LEMMA HeldType == TypeOK => HeldOK
<1> SUFFICES ASSUME TypeOK PROVE HeldOK
  OBVIOUS
<1>1. items \in [Addr -> Seq(Value)] /\ Imm \in Value
  BY DEF TypeOK, HeapOK, Value
<1>2. \A a \in Addr : [items[a] EXCEPT ![assigning.index] = Imm] \in Seq(Value)
  BY <1>1, ExceptAnywhere
<1>3. <<>> \in Seq(Value)
  OBVIOUS
<1> QED BY <1>1, <1>2, <1>3 DEF HeldOK, Held

LEMMA HeldTypePrimed == TypeOK' => HeldOK'
BY HeldType, PTL

\* Between two instructions every object owns what it shows.
AllHeld == freeing = <<>> /\ assigning = NoAssign => Held = items

LEMMA HeldSettled == TypeOK => AllHeld
BY DEF AllHeld, Held, BeingFreed, TypeOK, HeapOK

LEMMA HeldSettledPrimed == TypeOK' => AllHeld'
BY HeldSettled, PTL

\* A handler that leaves nothing behind but decrements.
Quiet == Settled /\ UNCHANGED <<freeing, assigning>>

LEMMA HandlerQuiet ==
  ASSUME NEW name, NEW n, Handler(name, n) PROVE Quiet /\ pending = <<>>
BY DEF Handler, Ready, Quiet, Settled

-----------------------------------------------------------------------------
(* The inductive invariant.                                                *)

\* The references to x that are not in the heap, lost ones among them.
Owned(x) == Occurs(stack, x) + Occurs(pending, x) + leaked[x]

\* Every count is the number of owners, also where there is no object: that is
\* what an allocation at the address will rely on.
Balanced == \A x \in Addr : rc[x] = Owned(x) + HeapRefs(x)
FreeClean == \A x \in Addr : tag[x] = "free" => rc[x] = 0 /\ items[x] = <<>>
TextChars ==
  \A x \in Addr : tag[x] = "text" => \A i \in 1..Len(items[x]) : items[x][i] = Imm

\* Nobody owns an object whose destructor is running, and no other destructor of it
\* is running.
FreeingZero ==
  /\ \A i \in DOMAIN freeing : tag[freeing[i].object] # "free" /\ rc[freeing[i].object] = 0
  /\ \A i, j \in DOMAIN freeing : freeing[i].object = freeing[j].object => i = j

\* What STA is about to store is a character or still on the stack.
AssignHeld ==
  assigning # NoAssign =>
    assigning.item \in {Imm, Top(3)} /\ (tag[Top(1)] = "text" => assigning.item = Imm)

Exact == Balanced /\ FreeClean /\ TextChars /\ FreeingZero /\ AssignHeld
Inv == TypeOK /\ AssignOK /\ Exact

LEMMA Numbers ==
  ASSUME Inv, NEW x \in Addr
  PROVE  /\ Occurs(stack, x) \in Nat /\ Occurs(pending, x) \in Nat /\ leaked[x] \in Nat
         /\ Owned(x) \in Nat /\ HeapRefs(x) \in Nat /\ rc[x] \in Nat
         /\ \A y \in Addr : Occurs(Held[y], x) \in Nat /\ Occurs(Held[y], x) <= HeapRefs(x)
<1>1. stack \in Seq(Value) /\ pending \in Seq(Value) /\ Held \in [Addr -> Seq(Value)]
  BY HeldType DEF Inv, TypeOK, HeapOK, HeldOK
<1>2. Occurs(stack, x) \in Nat /\ Occurs(pending, x) \in Nat
  BY <1>1, OccursNat
<1>3. leaked[x] \in Nat
  BY DEF Inv, TypeOK
<1>4. Owned(x) \in Nat
  BY <1>2, <1>3 DEF Owned
<1>5. ASSUME NEW y \in Addr
      PROVE  /\ Occurs(Held[y], x) \in Nat /\ HeapRefs(x) \in Nat
             /\ Occurs(Held[y], x) <= HeapRefs(x)
  <2>1. Occurs(Held[y], x) \in Nat
    BY <1>1, OccursNat
  <2>2. /\ RefsIn(Held, x) = Occurs(Held[y], x) + RefsBut(Held, y, x)
        /\ RefsIn(Held, x) \in Nat /\ RefsBut(Held, y, x) \in Nat
    BY <1>1, RefsSplit
  <2> QED BY <2>1, <2>2, HeapRefsIn
<1>6. rc[x] \in Nat
  BY <1>4, <1>5 DEF Inv, Exact, Balanced
<1> QED BY <1>2, <1>3, <1>4, <1>5, <1>6

\* The same in the next state.
LEMMA NumbersPrimed ==
  ASSUME TypeOK', NEW x \in Addr
  PROVE  /\ Owned(x)' \in Nat /\ HeapRefs(x)' \in Nat /\ rc'[x] \in Int
         /\ Owned(x)' = Occurs(stack', x) + Occurs(pending', x) + leaked'[x]
<1>1. stack' \in Seq(Value) /\ pending' \in Seq(Value) /\ Held' \in [Addr -> Seq(Value)]
  BY HeldTypePrimed DEF TypeOK, HeapOK, HeldOK
<1>2. Occurs(stack', x) \in Nat /\ Occurs(pending', x) \in Nat
  BY <1>1, OccursNat
<1>3. leaked'[x] \in Nat /\ rc'[x] \in Int
  BY DEF TypeOK, HeapOK
<1>4. RefsIn(Held', x) \in Nat
  BY <1>1, RefsSplit
<1>5. Owned(x)' = Occurs(stack', x) + Occurs(pending', x) + leaked'[x]
  BY DEF Owned
<1> QED BY <1>2, <1>3, <1>4, <1>5, HeapRefsIn

\* Nothing refers to an address that malloc may return, nor to an object whose
\* destructor is running.
LEMMA ZeroUnowned ==
  ASSUME Inv, NEW x \in Addr, rc[x] = 0
  PROVE  /\ Occurs(stack, x) = 0 /\ Occurs(pending, x) = 0 /\ HeapRefs(x) = 0
         /\ leaked[x] = 0 /\ \A y \in Addr : Occurs(Held[y], x) = 0
<1>1. /\ Occurs(stack, x) \in Nat /\ Occurs(pending, x) \in Nat /\ leaked[x] \in Nat
      /\ Owned(x) \in Nat /\ HeapRefs(x) \in Nat
      /\ \A y \in Addr : Occurs(Held[y], x) \in Nat /\ Occurs(Held[y], x) <= HeapRefs(x)
  BY Numbers
<1>2. rc[x] = Owned(x) + HeapRefs(x)
  BY DEF Inv, Exact, Balanced
<1>3. Owned(x) = 0 /\ HeapRefs(x) = 0
  BY <1>1, <1>2
<1>4. Occurs(stack, x) = 0 /\ Occurs(pending, x) = 0 /\ leaked[x] = 0
  BY <1>1, <1>3 DEF Owned
<1>5. \A y \in Addr : Occurs(Held[y], x) = 0
  BY <1>1, <1>3
<1> QED BY <1>2, <1>3, <1>4, <1>5

LEMMA FreeUnowned ==
  ASSUME Inv, NEW x \in Addr, tag[x] = "free" \/ BeingFreed(x)
  PROVE  /\ Occurs(stack, x) = 0 /\ Occurs(pending, x) = 0 /\ HeapRefs(x) = 0
         /\ leaked[x] = 0 /\ rc[x] = 0 /\ \A y \in Addr : Occurs(Held[y], x) = 0
<1>1. rc[x] = 0
  BY DEF Inv, Exact, FreeClean, FreeingZero, BeingFreed
<1> QED BY <1>1, ZeroUnowned

\* A value on the operand stack, or owned by an object, is no free address, and it
\* is not being freed.
LEMMA HeldIsLive ==
  ASSUME Inv
  PROVE  /\ \A i \in 1..Len(stack) :
              stack[i] \in Addr => tag[stack[i]] # "free" /\ ~BeingFreed(stack[i])
         /\ \A x \in Addr : \A i \in 1..Len(Held[x]) :
              Held[x][i] \in Addr => tag[Held[x][i]] # "free"
<1>1. stack \in Seq(Value) /\ Held \in [Addr -> Seq(Value)]
  BY HeldType DEF Inv, TypeOK, HeapOK, HeldOK
<1>2. ASSUME NEW i \in 1..Len(stack), stack[i] \in Addr,
             tag[stack[i]] = "free" \/ BeingFreed(stack[i])
      PROVE FALSE
  <2>1. Occurs(stack, stack[i]) = 0
    BY <1>2, FreeUnowned
  <2> QED BY <1>1, <2>1, OccursZero
<1>3. ASSUME NEW x \in Addr, NEW i \in 1..Len(Held[x]), Held[x][i] \in Addr,
             tag[Held[x][i]] = "free"
      PROVE FALSE
  <2>1. Occurs(Held[x], Held[x][i]) = 0
    BY <1>3, FreeUnowned
  <2> QED BY <1>1, <2>1, OccursZero
<1> QED BY <1>2, <1>3

-----------------------------------------------------------------------------
(* The rules.                                                              *)

\* Nothing that counts has changed.
LEMMA Idle ==
  ASSUME Inv, UNCHANGED <<heapVars, stack, pending, freeing, assigning, leaked>>, TypeOK'
  PROVE  Exact'
<1>1. UNCHANGED <<tag, rc, items, win, num>>
  BY DEF heapVars
<1>2. Held' = Held
  BY <1>1 DEF Held, BeingFreed, Top
<1>3. ASSUME NEW x \in Addr PROVE rc'[x] = Owned(x)' + HeapRefs(x)'
  <2>1. Owned(x)' = Owned(x)
    BY DEF Owned
  <2>2. HeapRefs(x)' = HeapRefs(x)
    BY <1>2, HeapRefsIn
  <2> QED BY <1>1, <2>1, <2>2 DEF Inv, Exact, Balanced
<1>4. Balanced'
  BY <1>3 DEF Balanced
<1>5. FreeClean' /\ TextChars' /\ FreeingZero' /\ AssignHeld'
  BY <1>1 DEF Inv, Exact, FreeClean, TextChars, FreeingZero, AssignHeld, Top
<1> QED BY <1>4, <1>5 DEF Exact

\* Counts change, and who is outside the heap owns something else.
LEMMA Shifting ==
  ASSUME Inv, UNCHANGED <<tag, items>>, Held' = Held, FreeingZero', AssignHeld', TypeOK',
         \A x \in Addr : tag[x] = "free" => rc'[x] = 0,
         \A x \in Addr : rc'[x] + Owned(x) = rc[x] + Owned(x)'
  PROVE  Exact'
<1>1. FreeClean' /\ TextChars'
  BY DEF Inv, Exact, FreeClean, TextChars
<1>2. ASSUME NEW x \in Addr PROVE rc'[x] = Owned(x)' + HeapRefs(x)'
  <2>1. HeapRefs(x)' = HeapRefs(x)
    BY HeapRefsIn
  <2>2. rc[x] = Owned(x) + HeapRefs(x)
    BY DEF Inv, Exact, Balanced
  <2>3. Owned(x) \in Nat /\ HeapRefs(x) \in Nat /\ rc[x] \in Nat
    BY Numbers
  <2>4. Owned(x)' \in Nat /\ rc'[x] \in Int
    BY NumbersPrimed
  <2>5. rc'[x] + Owned(x) = rc[x] + Owned(x)'
    OBVIOUS
  <2> QED BY <2>1, <2>2, <2>3, <2>4, <2>5
<1>3. Balanced'
  BY <1>2 DEF Balanced
<1> QED BY <1>1, <1>3 DEF Exact

\* Between two instructions the objects own their items.
LEMMA QuietHeld ==
  ASSUME Inv, TypeOK', Quiet
  PROVE  /\ Held = items /\ Held' = items' /\ FreeingZero' /\ AssignHeld'
         /\ \A x : HeapRefs(x) = RefsIn(items, x) /\ HeapRefs(x)' = RefsIn(items', x)
<1>1. freeing = <<>> /\ assigning = NoAssign /\ freeing' = <<>> /\ assigning' = NoAssign
  BY DEF Quiet, Settled
<1>2. Held = items
  BY <1>1, HeldSettled DEF AllHeld, Inv
<1>3. Held' = items'
  BY <1>1, HeldSettledPrimed DEF AllHeld
<1>4. FreeingZero' /\ AssignHeld'
  BY <1>1 DEF FreeingZero, AssignHeld
<1> QED BY <1>2, <1>3, <1>4, HeapRefsIn

\* A handler that makes no object and changes no item.
LEMMA Rebalance ==
  ASSUME Inv, Quiet, UNCHANGED <<tag, items>>, TypeOK',
         \A x \in Addr : tag[x] = "free" => rc'[x] = 0,
         \A x \in Addr : rc'[x] + Owned(x) = rc[x] + Owned(x)'
  PROVE  Exact'
<1>1. Held' = Held /\ FreeingZero' /\ AssignHeld'
  BY QuietHeld
<1> QED BY <1>1, Shifting

\* What a handler does to the references outside the heap: it takes n operands
\* off the stack, pushes t, and loses d on the way; it counts c.
Takes(n, t, d) ==
  /\ n \in 0..Len(stack) /\ stack' = Below(n) \o t
  /\ \A y \in Addr : leaked'[y] = leaked[y] + Occurs(d, y)
Counts(c) == \A y \in Addr : rc'[y] = rc[y] + Occurs(c, y)
Alive(c) == \A y \in Addr : tag[y] = "free" => Occurs(c, y) = 0

\* Every reference in the first two sequences is in one of the others.
Even(c, gone, t, d, p) ==
  \A y \in Addr :
    Occurs(c, y) + Occurs(gone, y) = Occurs(t, y) + Occurs(d, y) + Occurs(p, y)

LEMMA OwnedChange ==
  ASSUME TypeOK, TypeOK', pending = <<>>,
         NEW n, NEW t \in Seq(Value), NEW d \in Seq(Value), Takes(n, t, d), NEW x \in Addr
  PROVE  /\ Owned(x)' + Occurs(Operands(n), x)
              = Owned(x) + Occurs(t, x) + Occurs(d, x) + Occurs(pending', x)
         /\ Occurs(Operands(n), x) \in Nat /\ Occurs(t, x) \in Nat
         /\ Occurs(d, x) \in Nat /\ Occurs(pending', x) \in Nat
<1>1. stack \in Seq(Value) /\ pending' \in Seq(Value)
  BY DEF TypeOK
<1>2. /\ n \in 0..Len(stack) /\ stack' = Below(n) \o t
      /\ leaked'[x] = leaked[x] + Occurs(d, x)
  BY DEF Takes
<1>3. Below(n) \in Seq(Value) /\ Operands(n) \in Seq(Value)
  BY <1>1, <1>2, SplitSeq DEF Below, Operands
<1>4. /\ Occurs(Operands(n), x) \in Nat /\ Occurs(t, x) \in Nat /\ Occurs(d, x) \in Nat
      /\ Occurs(pending', x) \in Nat /\ Occurs(Below(n), x) \in Nat
  BY <1>1, <1>3, OccursNat
<1>5. Occurs(stack, x) = Occurs(Below(n), x) + Occurs(Operands(n), x)
  BY <1>1, <1>2, OccursSplit DEF Below, Operands
<1>6. Occurs(stack', x) = Occurs(Below(n), x) + Occurs(t, x)
  BY <1>2, <1>3, OccursConcat
<1>7. Occurs(pending, x) = 0
  BY OccursEmpty
<1>8. leaked[x] \in Nat
  BY DEF TypeOK
<1>9. Owned(x) = Occurs(Below(n), x) + Occurs(Operands(n), x) + leaked[x]
  BY <1>4, <1>5, <1>7, <1>8 DEF Owned
<1>10. Owned(x)' = Occurs(Below(n), x) + Occurs(t, x) + Occurs(pending', x)
                    + (leaked[x] + Occurs(d, x))
  BY <1>2, <1>6, NumbersPrimed
<1> QED BY <1>4, <1>8, <1>9, <1>10, SMTT(20)

\* A handler that makes no object and changes no item.
LEMMA Counting ==
  ASSUME Inv, TypeOK', Quiet, UNCHANGED <<tag, items>>,
         NEW n, NEW t \in Seq(Value), NEW d \in Seq(Value), NEW c \in Seq(Value),
         Takes(n, t, d), Counts(c), Alive(c), Even(c, Operands(n), t, d, pending')
  PROVE  Exact'
<1>1. ASSUME NEW x \in Addr PROVE rc'[x] + Owned(x) = rc[x] + Owned(x)'
  <2> DEFINE own == Owned(x)      ownNew == Owned(x)'
             r == rc[x]           rNew == rc'[x]
             counted == Occurs(c, x)
             gone == Occurs(Operands(n), x)
             pushed == Occurs(t, x)
             lost == Occurs(d, x)
             due == Occurs(pending', x)
  <2>1. /\ ownNew + gone = own + pushed + lost + due
        /\ gone \in Nat /\ pushed \in Nat /\ lost \in Nat /\ due \in Nat
    BY OwnedChange DEF Inv, Quiet, Settled
  <2>2. counted \in Nat
    BY OccursNat
  <2>3. own \in Nat /\ ownNew \in Nat /\ r \in Nat
    BY Numbers, NumbersPrimed DEF Inv
  <2>4. rNew = r + counted
    BY DEF Counts
  <2>5. counted + gone = pushed + lost + due
    BY DEF Even
  <2>6. rNew + own = r + ownNew
    <3> HIDE DEF own, ownNew, r, rNew, counted, gone, pushed, lost, due
    <3> QED BY <2>1, <2>2, <2>3, <2>4, <2>5
  <2> QED BY <2>6
<1>2. ASSUME NEW x \in Addr, tag[x] = "free" PROVE rc'[x] = 0
  <2>1. rc[x] = 0
    BY <1>2 DEF Inv, Exact, FreeClean
  <2>2. rc'[x] = rc[x] + Occurs(c, x) /\ Occurs(c, x) = 0
    BY <1>2 DEF Counts, Alive
  <2> QED BY <2>1, <2>2
<1> QED BY <1>1, <1>2, Rebalance

\* A handler that changes the items of the object v to `its'.
ChangesItems(v, its) == items' = [items EXCEPT ![v] = its]
CharsIn(k, its) == k = "text" => \A i \in 1..Len(its) : its[i] = Imm
EvenItems(c, old, gone, its, t, d, p) ==
  \A y \in Addr :
    Occurs(c, y) + Occurs(old, y) + Occurs(gone, y)
      = Occurs(its, y) + Occurs(t, y) + Occurs(d, y) + Occurs(p, y)

LEMMA Changing ==
  ASSUME Inv, TypeOK', Quiet, UNCHANGED tag,
         NEW v \in Addr, NEW its \in Seq(Value), ChangesItems(v, its),
         tag[v] # "free", CharsIn(tag[v], its),
         NEW n, NEW t \in Seq(Value), NEW d \in Seq(Value), NEW c \in Seq(Value),
         Takes(n, t, d), Counts(c), Alive(c),
         EvenItems(c, items[v], Operands(n), its, t, d, pending')
  PROVE  Exact'
<1>1. /\ items \in [Addr -> Seq(Value)] /\ items' \in [Addr -> Seq(Value)]
      /\ items'[v] = its /\ \A y \in Addr \ {v} : items'[y] = items[y]
  BY SMTT(20) DEF Inv, TypeOK, HeapOK, ChangesItems
<1>2. FreeClean'
  <2> SUFFICES ASSUME NEW x \in Addr, tag[x] = "free" PROVE rc'[x] = 0 /\ items'[x] = <<>>
    BY DEF FreeClean
  <2>1. rc[x] = 0 /\ items[x] = <<>>
    BY DEF Inv, Exact, FreeClean
  <2>2. rc'[x] = rc[x] + Occurs(c, x) /\ Occurs(c, x) = 0
    BY DEF Counts, Alive
  <2> QED BY <1>1, <2>1, <2>2
<1>3. TextChars'
  BY <1>1 DEF Inv, Exact, TextChars, CharsIn
<1>4. ASSUME NEW x \in Addr PROVE rc'[x] = Owned(x)' + HeapRefs(x)'
  <2> DEFINE own == Owned(x)      ownNew == Owned(x)'
             r == rc[x]           rNew == rc'[x]
             refs == HeapRefs(x)  refsNew == HeapRefs(x)'
             counted == Occurs(c, x)
             old == Occurs(items[v], x)
             new == Occurs(its, x)
             gone == Occurs(Operands(n), x)
             pushed == Occurs(t, x)
             lost == Occurs(d, x)
             due == Occurs(pending', x)
  <2>1. /\ ownNew + gone = own + pushed + lost + due
        /\ gone \in Nat /\ pushed \in Nat /\ lost \in Nat /\ due \in Nat
    BY OwnedChange DEF Inv, Quiet, Settled
  <2>2. counted \in Nat /\ old \in Nat /\ new \in Nat
    BY <1>1, OccursNat
  <2>3. own \in Nat /\ ownNew \in Nat /\ r \in Nat /\ refs \in Nat /\ refsNew \in Nat
    BY Numbers, NumbersPrimed DEF Inv
  <2>4. rNew = r + counted /\ r = own + refs
    BY DEF Inv, Exact, Balanced, Counts
  <2>5. counted + old + gone = new + pushed + lost + due
    BY DEF EvenItems
  <2>6. refsNew + old = refs + new
    <3> DEFINE h == items   g == items'
    <3>1. ChangesOnly(v, h, g)
      BY <1>1 DEF ChangesOnly
    <3>2. refsNew = RefsIn(g, x) /\ refs = RefsIn(h, x)
      BY QuietHeld
    <3>3. new = Occurs(g[v], x) /\ old = Occurs(h[v], x)
      BY <1>1
    <3> HIDE DEF h, g
    <3>4. RefsIn(g, x) + Occurs(h[v], x) = RefsIn(h, x) + Occurs(g[v], x)
      BY <3>1, ItemsChange
    <3> HIDE DEF refs, refsNew, old, new
    <3> QED BY <3>2, <3>3, <3>4
  <2>7. rNew = ownNew + refsNew
    <3> HIDE DEF own, ownNew, r, rNew, refs, refsNew, counted, old, new, gone, pushed,
                 lost, due
    <3> QED BY <2>1, <2>2, <2>3, <2>4, <2>5, <2>6
  <2> QED BY <2>7
<1>5. Balanced'
  BY <1>4 DEF Balanced
<1> QED BY <1>2, <1>3, <1>5, QuietHeld DEF Exact

\* A handler that makes an object of the kind k at a and counts s.
LEMMA Making ==
  ASSUME Inv, TypeOK', Quiet,
         NEW a \in Addr, NEW k \in Tag \ {"free"}, NEW its \in Seq(Value),
         NEW w, NEW f, NEW s \in Seq(Value), Alloc(a, k, its, w, f, s), CharsIn(k, its),
         NEW n, NEW t \in Seq(Value), NEW d \in Seq(Value), Takes(n, t, d), Alive(s),
         EvenItems(s, <<a>>, Operands(n), its, t, d, pending')
  PROVE  Exact'
<1>1. /\ tag' = [tag EXCEPT ![a] = k] /\ items' = [items EXCEPT ![a] = its]
      /\ rc' = [Counted(s) EXCEPT ![a] = 1] /\ tag[a] = "free"
  BY DEF Alloc, Place
<1>2. tag \in [Addr -> Tag] /\ items \in [Addr -> Seq(Value)] /\ rc \in [Addr -> Int]
  BY DEF Inv, TypeOK, HeapOK
<1>3. rc[a] = 0 /\ items[a] = <<>> /\ Occurs(s, a) = 0
  BY <1>1 DEF Inv, Exact, FreeClean, Alive
<1>4. FreeClean'
  <2> SUFFICES ASSUME NEW x \in Addr, tag'[x] = "free" PROVE rc'[x] = 0 /\ items'[x] = <<>>
    BY DEF FreeClean
  <2>1. x # a /\ tag[x] = "free"
    BY <1>1, <1>2
  <2>2. rc'[x] = rc[x] + Occurs(s, x) /\ items'[x] = items[x]
    BY <1>1, <1>2, <2>1 DEF Counted
  <2> QED BY <2>1, <2>2 DEF Inv, Exact, FreeClean, Alive
<1>5. TextChars'
  BY <1>1, <1>2 DEF Inv, Exact, TextChars, CharsIn
<1>6. ASSUME NEW x \in Addr PROVE rc'[x] = Owned(x)' + HeapRefs(x)'
  <2> DEFINE own == Owned(x)      ownNew == Owned(x)'
             r == rc[x]           rNew == rc'[x]
             refs == HeapRefs(x)  refsNew == HeapRefs(x)'
             counted == Occurs(s, x)
             made == Occurs(<<a>>, x)
             new == Occurs(its, x)
             gone == Occurs(Operands(n), x)
             pushed == Occurs(t, x)
             lost == Occurs(d, x)
             due == Occurs(pending', x)
  <2>1. /\ ownNew + gone = own + pushed + lost + due
        /\ gone \in Nat /\ pushed \in Nat /\ lost \in Nat /\ due \in Nat
    BY OwnedChange DEF Inv, Quiet, Settled
  <2>2. counted \in Nat /\ new \in Nat /\ made \in Nat
    <3>1. <<a>> \in Seq(Value)
      BY DEF Value
    <3> QED BY <3>1, OccursNat
  <2>3. own \in Nat /\ ownNew \in Nat /\ r \in Nat /\ refs \in Nat /\ refsNew \in Nat
    BY Numbers, NumbersPrimed DEF Inv
  <2>4. rNew = r + counted + made
    <3>1. CASE x = a
      BY <1>1, <1>2, <1>3, <3>1, OccursSingle DEF Counted
    <3>2. CASE x # a
      <4>1. rNew = r + counted
        BY <1>1, <3>2 DEF Counted
      <4>2. made = 0
        BY <3>2, OccursSingle
      <4> HIDE DEF r, rNew, counted, made
      <4> QED BY <2>2, <2>3, <4>1, <4>2
    <3> QED BY <3>1, <3>2
  <2>5. refsNew = refs + new
    <3> DEFINE h == items   g == items'
               none == Occurs(h[a], x)
    <3>1. ChangesOnly(a, h, g) /\ g[a] = its
      BY <1>1, <1>2 DEF ChangesOnly
    <3>2. none = 0
      BY <1>3, OccursEmpty
    <3>3. refsNew = RefsIn(g, x) /\ refs = RefsIn(h, x)
      BY QuietHeld
    <3>4. new = Occurs(g[a], x)
      BY <3>1
    <3> HIDE DEF h, g
    <3>5. RefsIn(g, x) + none = RefsIn(h, x) + Occurs(g[a], x)
      BY <3>1, ItemsChange
    <3> HIDE DEF refs, refsNew, new, none
    <3> QED BY <2>2, <2>3, <3>2, <3>3, <3>4, <3>5
  <2>6. counted + made + gone = new + pushed + lost + due
    BY DEF EvenItems
  <2>7. r = own + refs
    BY DEF Inv, Exact, Balanced
  <2>8. rNew = ownNew + refsNew
    <3> HIDE DEF own, ownNew, r, rNew, refs, refsNew, counted, made, new, gone, pushed,
                 lost, due
    <3> QED BY <2>1, <2>2, <2>3, <2>4, <2>5, <2>6, <2>7
  <2> QED BY <2>8
<1>7. Balanced'
  BY <1>6 DEF Balanced
<1> QED BY <1>4, <1>5, <1>7, QuietHeld DEF Exact

-----------------------------------------------------------------------------
(* Operands by name.                                                       *)

LEMMA OperandsAre ==
  ASSUME TypeOK
  PROVE  /\ Operands(0) = <<>> /\ Below(0) = stack
         /\ 1 <= Len(stack) => Operands(1) = <<Top(1)>>
         /\ 2 <= Len(stack) => Operands(2) = <<Top(2), Top(1)>>
         /\ 3 <= Len(stack) => Operands(3) = <<Top(3), Top(2), Top(1)>>
<1>1. stack \in Seq(Value) /\ Len(stack) \in Nat
  BY LenProperties DEF TypeOK
<1>2. Operands(0) = <<>>
  <2>1. 0 \in 0..Len(stack)
    BY <1>1
  <2>2. Operands(0) \in Seq(Value) /\ Len(Operands(0)) = 0
    BY <1>1, <2>1, SplitSeq DEF Operands
  <2> QED BY <2>2, EmptySeq
<1>3. Below(0) = stack
  BY <1>1 DEF Below
<1>4. ASSUME NEW n \in {1, 2, 3}, n <= Len(stack)
      PROVE  /\ Operands(n) \in Seq(Value) /\ Len(Operands(n)) = n
             /\ \A i \in 1..n : Operands(n)[i] = Top(n + 1 - i)
  <2>1. n \in 0..Len(stack)
    BY <1>1, <1>4
  <2>2. \A i \in 1..n : Operands(n)[i] = stack[Len(stack) - n + i]
    BY <1>1, <2>1, SplitSeq DEF Operands
  <2>3. \A i \in 1..n : Len(stack) + 1 - (n + 1 - i) = Len(stack) - n + i
    BY <1>1
  <2> QED BY <1>1, <2>1, <2>2, <2>3, SplitSeq DEF Operands, Top
<1>5. 1 <= Len(stack) => Operands(1) = <<Top(1)>>
  BY <1>4
<1>6. 2 <= Len(stack) => Operands(2) = <<Top(2), Top(1)>>
  BY <1>4
<1>7. 3 <= Len(stack) => Operands(3) = <<Top(3), Top(2), Top(1)>>
  BY <1>4
<1> QED BY <1>2, <1>3, <1>5, <1>6, <1>7

\* Short sequences, value by value.
LEMMA OccursShort ==
  ASSUME NEW u \in Value, NEW v \in Value, NEW y
  PROVE  /\ Occurs(<<u>>, y) \in Nat /\ Occurs(<<>>, y) = 0
         /\ Occurs(<<u, v>>, y) = Occurs(<<u>>, y) + Occurs(<<v>>, y)
<1>1. <<u>> \in Seq(Value) /\ <<v>> \in Seq(Value) /\ <<u, v>> \in Seq(Value)
  OBVIOUS
<1>2. Append(<<u>>, v) = <<u, v>>
  <2>1. /\ Append(<<u>>, v) \in Seq(Value) /\ Len(Append(<<u>>, v)) = 2
        /\ Append(<<u>>, v)[1] = u /\ Append(<<u>>, v)[2] = v
    BY <1>1, AppendProperties
  <2>2. Len(<<u, v>>) = 2 /\ <<u, v>>[1] = u /\ <<u, v>>[2] = v
    OBVIOUS
  <2>3. \A i \in 1..2 : Append(<<u>>, v)[i] = <<u, v>>[i]
    BY <2>1, <2>2
  <2> QED BY <1>1, <2>1, <2>2, <2>3, SeqEqual
<1>3. Occurs(Append(<<u>>, v), y) = Occurs(<<u>>, y) + Occurs(<<v>>, y)
  BY <1>1, OccursAppend
<1> QED BY <1>1, <1>2, <1>3, OccursNat, OccursEmpty

LEMMA OccursThree ==
  ASSUME NEW u \in Value, NEW v \in Value, NEW w \in Value, NEW y
  PROVE  Occurs(<<u, v, w>>, y) = Occurs(<<u>>, y) + Occurs(<<v>>, y) + Occurs(<<w>>, y)
<1>1. <<u, v>> \in Seq(Value) /\ <<u, v, w>> \in Seq(Value)
  OBVIOUS
<1>2. Append(<<u, v>>, w) = <<u, v, w>>
  <2>1. /\ Append(<<u, v>>, w) \in Seq(Value) /\ Len(Append(<<u, v>>, w)) = 3
        /\ Append(<<u, v>>, w)[1] = u /\ Append(<<u, v>>, w)[2] = v
        /\ Append(<<u, v>>, w)[3] = w
    BY <1>1, AppendProperties
  <2>2. /\ Len(<<u, v, w>>) = 3 /\ <<u, v, w>>[1] = u /\ <<u, v, w>>[2] = v
        /\ <<u, v, w>>[3] = w
    OBVIOUS
  <2>3. \A i \in 1..3 : Append(<<u, v>>, w)[i] = <<u, v, w>>[i]
    BY <2>1, <2>2
  <2> QED BY <1>1, <2>1, <2>2, <2>3, SeqEqual
<1>3. Occurs(Append(<<u, v>>, w), y) = Occurs(<<u, v>>, y) + Occurs(<<w>>, y)
  BY <1>1, OccursAppend
<1>4. Occurs(<<u, v>>, y) = Occurs(<<u>>, y) + Occurs(<<v>>, y)
  BY OccursShort
<1> QED BY <1>2, <1>3, <1>4

LEMMA OccursImm ==
  ASSUME NEW s \in Seq(Value), \A i \in 1..Len(s) : s[i] = Imm, NEW y \in Addr
  PROVE  Occurs(s, y) = 0
BY OccursZero, AddrAssumption

LEMMA AliveAre ==
  ASSUME NEW c \in Seq(Value), \A i \in 1..Len(c) : c[i] \in Addr => tag[c[i]] # "free"
  PROVE  Alive(c)
<1> SUFFICES ASSUME NEW y \in Addr, tag[y] = "free" PROVE Occurs(c, y) = 0
  BY DEF Alive
<1>1. \A i \in 1..Len(c) : c[i] # y
  OBVIOUS
<1> QED BY <1>1, OccursZero

LEMMA AliveOne ==
  ASSUME NEW v, v \in Addr => tag[v] # "free"
  PROVE  Alive(<<v>>)
<1>1. ASSUME NEW y \in Addr, tag[y] = "free" PROVE Occurs(<<v>>, y) = 0
  <2>1. v # y
    BY <1>1
  <2> QED BY <2>1, OccursSingle
<1> QED BY <1>1 DEF Alive

LEMMA AliveEmpty == Alive(<<>>)
BY OccursEmpty DEF Alive

\* The operands of a handler, and what an object holds, are alive.
LEMMA AliveOperand ==
  ASSUME Inv
  PROVE  /\ \A n \in 1..Len(stack) :
              Top(n) \in Addr => tag[Top(n)] # "free" /\ ~BeingFreed(Top(n))
         /\ \A n \in 1..Len(stack) : Top(n) \in Value /\ Alive(<<Top(n)>>)
<1>1. stack \in Seq(Value) /\ Len(stack) \in Nat
  BY LenProperties DEF Inv, TypeOK
<1>2. ASSUME NEW n \in 1..Len(stack)
      PROVE  /\ Top(n) \in Value
             /\ Top(n) \in Addr => tag[Top(n)] # "free" /\ ~BeingFreed(Top(n))
  <2>1. Len(stack) + 1 - n \in 1..Len(stack)
    BY <1>1
  <2> QED BY <1>1, <2>1, HeldIsLive, ElementOfSeq DEF Top
<1>3. ASSUME NEW n \in 1..Len(stack) PROVE Alive(<<Top(n)>>)
  <2>1. Top(n) \in Addr => tag[Top(n)] # "free"
    BY <1>2
  <2> QED BY <2>1, AliveOne
<1> QED BY <1>2, <1>3

LEMMA AliveHeld ==
  ASSUME Inv, Quiet
  PROVE  /\ \A n \in 1..Len(stack) : Top(n) \in Addr => tag[Top(n)] # "free"
         /\ \A n \in 1..Len(stack) : Alive(<<Top(n)>>)
         /\ \A v \in Addr : \A k \in 1..Len(items[v]) :
              Alive(<<items[v][k]>>) /\ (items[v][k] \in Addr => tag[items[v][k]] # "free")
<1>1. Held = items
  BY HeldSettled DEF AllHeld, Inv, Quiet, Settled
<1>2. ASSUME NEW v \in Addr, NEW k \in 1..Len(items[v])
      PROVE  Alive(<<items[v][k]>>) /\ (items[v][k] \in Addr => tag[items[v][k]] # "free")
  <2>1. items[v][k] \in Addr => tag[items[v][k]] # "free"
    BY <1>1, HeldIsLive
  <2> QED BY <2>1, AliveOne
<1> QED BY <1>2, AliveOperand

-----------------------------------------------------------------------------
(* The parts of a handler.                                                 *)

LEMMA TakesAre ==
  ASSUME TypeOK, NEW n \in Nat, n <= Len(stack)
  PROVE  /\ stack' = Below(n) /\ UNCHANGED leaked => Takes(n, <<>>, <<>>)
         /\ Fail(n) => Takes(n, <<>>, Operands(n))
         /\ \A v \in Value : Replace(n, v) => Takes(n, <<v>>, <<>>)
         /\ \A v \in Value : \A d : stack' = Append(Below(n), v) /\ Leak(d) => Takes(n, <<v>>, d)
<1>1. Below(n) \in Seq(Value) /\ n \in 0..Len(stack)
  <2>1. Len(stack) \in Nat
    BY LenProperties DEF TypeOK
  <2> QED BY <2>1, StackParts
<1>2. Below(n) \o <<>> = Below(n) /\ \A v \in Value : Append(Below(n), v) = Below(n) \o <<v>>
  BY <1>1, AppendIsConcat, ConcatEmptySeq
<1>3. UNCHANGED leaked => \A y \in Addr : leaked'[y] = leaked[y] + Occurs(<<>>, y)
  BY OccursEmpty DEF TypeOK
<1>4. \A d : Leak(d) => \A y \in Addr : leaked'[y] = leaked[y] + Occurs(d, y)
  BY DEF Leak
<1> QED BY <1>1, <1>2, <1>3, <1>4 DEF Takes, Fail, Replace

LEMMA TakesPush ==
  ASSUME TypeOK, NEW v \in Value, Push(v)
  PROVE  Takes(0, <<v>>, <<>>) \/ Takes(0, <<>>, <<v>>)
<1>1. 0 <= Len(stack) /\ stack \in Seq(Value)
  BY LenProperties DEF TypeOK
<1>2. Below(0) = stack
  BY OperandsAre
<1>3. CASE Len(stack) < MaxStack
  BY <1>1, <1>2, <1>3, TakesAre DEF Push, Replace
<1>4. CASE ~(Len(stack) < MaxStack)
  <2>1. stack' = Below(0) \o <<>> /\ Leak(<<v>>)
    BY <1>1, <1>2, <1>4, ConcatEmptySeq DEF Push
  <2>2. 0 \in 0..Len(stack)
    BY <1>1, LenProperties
  <2> QED BY <2>1, <2>2 DEF Takes, Leak
<1> QED BY <1>3, <1>4

LEMMA CountsAre ==
  ASSUME TypeOK
  PROVE  /\ UNCHANGED rc => Counts(<<>>)
         /\ \A c : rc' = Counted(c) => Counts(c)
<1>1. UNCHANGED rc => \A y \in Addr : rc'[y] = rc[y] + Occurs(<<>>, y)
  BY OccursEmpty DEF TypeOK, HeapOK
<1> QED BY <1>1 DEF Counts, Counted

-----------------------------------------------------------------------------
(* Instructions that push, and instructions that stop.                     *)

LEMMA PushExact ==
  ASSUME Inv, TypeOK', Quiet, pending' = <<>>, UNCHANGED <<tag, items>>,
         NEW v \in Value, Push(v), NEW c \in Seq(Value), Counts(c), Alive(c),
         \A y \in Addr : Occurs(c, y) = Occurs(<<v>>, y)
  PROVE  Exact'
<1>1. <<>> \in Seq(Value) /\ <<v>> \in Seq(Value)
  OBVIOUS
<1>2. Operands(0) = <<>>
  BY OperandsAre DEF Inv
<1>3. ASSUME NEW y \in Addr
      PROVE Occurs(<<>>, y) = 0 /\ Occurs(<<v>>, y) \in Nat /\ Occurs(c, y) = Occurs(<<v>>, y)
  BY <1>1, OccursEmpty, OccursNat
<1>4. /\ Even(c, Operands(0), <<v>>, <<>>, pending')
      /\ Even(c, Operands(0), <<>>, <<v>>, pending')
  BY <1>2, <1>3 DEF Even
<1>5. Takes(0, <<v>>, <<>>) \/ Takes(0, <<>>, <<v>>)
  BY TakesPush DEF Inv
<1>6. CASE Takes(0, <<v>>, <<>>)
  BY <1>1, <1>4, <1>6, Counting
<1>7. CASE Takes(0, <<>>, <<v>>)
  BY <1>1, <1>4, <1>7, Counting
<1> QED BY <1>5, <1>6, <1>7

LEMMA ConstExact == ASSUME Inv, TypeOK', Const PROVE Exact'
<1>1. Imm \in Value /\ <<Imm>> \in Seq(Value) /\ <<>> \in Seq(Value)
  BY DEF Value
<1>2. ASSUME NEW y \in Addr PROVE Occurs(<<>>, y) = Occurs(<<Imm>>, y)
  <2>1. Imm # y
    BY AddrAssumption
  <2> QED BY <2>1, OccursEmpty, OccursSingle
<1>3. Counts(<<>>) /\ Alive(<<>>)
  BY CountsAre, AliveEmpty DEF Inv, Const, heapVars
<1>4. pending = <<>> /\ Quiet /\ pending' = <<>> /\ UNCHANGED <<tag, items>> /\ Push(Imm)
  BY HandlerQuiet DEF Const, heapVars
<1> QED BY <1>1, <1>2, <1>3, <1>4, PushExact

LEMMA LoadExact ==
  ASSUME Inv, TypeOK', NEW g \in 1..NGlobals, Load(g) PROVE Exact'
<1>1. g \in 1..Len(stack) /\ stack \in Seq(Value)
  <2>1. stack \in Seq(Value) /\ Len(stack) \in Nat
    BY LenProperties DEF Inv, TypeOK
  <2> QED BY <2>1, SizeAssumption DEF Load, Handler, Ready, Ready
<1>2. stack[g] \in Value /\ <<stack[g]>> \in Seq(Value)
  BY <1>1, ElementOfSeq
<1>3. Counts(<<stack[g]>>) /\ Alive(<<stack[g]>>)
  BY <1>1, CountsAre, AliveOne, HeldIsLive DEF Inv, Load
<1>4. pending = <<>> /\ Quiet /\ pending' = <<>> /\ UNCHANGED <<tag, items>> /\ Push(stack[g])
  BY HandlerQuiet DEF Load
<1> QED BY <1>2, <1>3, <1>4, PushExact

\* A new object that holds no pointer.
LEMMA FreshExact ==
  ASSUME Inv, TypeOK', Quiet, pending' = <<>>,
         NEW a \in Addr, NEW k \in Tag \ {"free"}, NEW its \in Seq(Value),
         \A i \in 1..Len(its) : its[i] = Imm,
         NEW w, NEW f, Alloc(a, k, its, w, f, <<>>), Push(a)
  PROVE  Exact'
<1>1. <<>> \in Seq(Value) /\ a \in Value /\ <<a>> \in Seq(Value)
  BY DEF Value
<1>2. Operands(0) = <<>>
  BY OperandsAre DEF Inv
<1>3. ASSUME NEW y \in Addr
      PROVE Occurs(<<>>, y) = 0 /\ Occurs(<<a>>, y) \in Nat /\ Occurs(its, y) = 0
  BY <1>1, OccursEmpty, OccursNat, OccursImm
<1>4. /\ EvenItems(<<>>, <<a>>, Operands(0), its, <<a>>, <<>>, pending')
      /\ EvenItems(<<>>, <<a>>, Operands(0), its, <<>>, <<a>>, pending')
  BY <1>2, <1>3 DEF EvenItems
<1>5. Takes(0, <<a>>, <<>>) \/ Takes(0, <<>>, <<a>>)
  BY <1>1, TakesPush DEF Inv
<1>6. CharsIn(k, its) /\ Alive(<<>>)
  BY AliveEmpty DEF CharsIn
<1>7. CASE Takes(0, <<a>>, <<>>)
  BY <1>1, <1>4, <1>6, <1>7, Making
<1>8. CASE Takes(0, <<>>, <<a>>)
  BY <1>1, <1>4, <1>6, <1>8, Making
<1> QED BY <1>5, <1>7, <1>8

LEMMA ConstfExact ==
  ASSUME Inv, TypeOK', NEW a \in Addr, NEW f \in FloatVal, Constf(a, f) PROVE Exact'
<1>1. /\ <<>> \in Seq(Value) /\ "float" \in Tag \ {"free"}
      /\ \A i \in 1..Len(<<>>) : <<>>[i] = Imm
  BY DEF Tag
<1>2. pending = <<>> /\ Quiet /\ pending' = <<>>
  BY HandlerQuiet DEF Constf
<1> QED BY <1>1, <1>2, FreshExact DEF Constf

LEMMA NullExact == ASSUME Inv, TypeOK', NEW a \in Addr, Null(a) PROVE Exact'
<1>1. /\ <<>> \in Seq(Value) /\ "null" \in Tag \ {"free"}
      /\ \A i \in 1..Len(<<>>) : <<>>[i] = Imm
  BY DEF Tag
<1>2. pending = <<>> /\ Quiet /\ pending' = <<>>
  BY HandlerQuiet DEF Null
<1> QED BY <1>1, <1>2, FreshExact DEF Null

LEMMA ClosureExact == ASSUME Inv, TypeOK', NEW a \in Addr, Closure(a) PROVE Exact'
<1>1. /\ <<>> \in Seq(Value) /\ "callable" \in Tag \ {"free"}
      /\ \A i \in 1..Len(<<>>) : <<>>[i] = Imm
  BY DEF Tag
<1>2. pending = <<>> /\ Quiet /\ pending' = <<>>
  BY HandlerQuiet DEF Closure
<1> QED BY <1>1, <1>2, FreshExact DEF Closure

LEMMA TextExact ==
  ASSUME Inv, TypeOK', NEW a \in Addr, NEW n \in Nat, Text(a, n) PROVE Exact'
<1> DEFINE its == [i \in 1..n |-> Imm]
<1>1. its \in Seq(Value) /\ "text" \in Tag \ {"free"}
  BY DEF Tag, Value
<1>2. \A i \in 1..Len(its) : its[i] = Imm
  <2>1. Len(its) = n
    BY <1>1
  <2> QED BY <2>1
<1>3. pending = <<>> /\ Quiet /\ pending' = <<>>
  BY HandlerQuiet DEF Text
<1>4. Alloc(a, "text", its, NoWin, NoNum, <<>>) /\ Push(a)
  BY DEF Text
<1> HIDE DEF its
<1> QED BY <1>1, <1>2, <1>3, <1>4, FreshExact

LEMMA FailExact ==
  ASSUME Inv, TypeOK', Quiet, NEW n \in Nat, n <= Len(stack), Fail(n)
  PROVE  Exact'
<1>1. <<>> \in Seq(Value) /\ Operands(n) \in Seq(Value)
  BY StackParts DEF Inv
<1>2. Takes(n, <<>>, Operands(n)) /\ Counts(<<>>) /\ Alive(<<>>)
  BY TakesAre, CountsAre, AliveEmpty DEF Inv, Fail, heapVars
<1>3. Even(<<>>, Operands(n), <<>>, Operands(n), pending')
  <2> SUFFICES ASSUME NEW y \in Addr
               PROVE  Occurs(<<>>, y) + Occurs(Operands(n), y)
                        = Occurs(<<>>, y) + Occurs(Operands(n), y) + Occurs(pending', y)
    BY DEF Even
  <2>1. Occurs(<<>>, y) = 0 /\ Occurs(Operands(n), y) \in Nat /\ pending' = <<>>
    BY <1>1, OccursEmpty, OccursNat DEF Fail, Quiet, Settled
  <2> QED BY <2>1
<1>4. UNCHANGED <<tag, items>>
  BY DEF Fail, heapVars
<1> QED BY <1>1, <1>2, <1>3, <1>4, Counting

LEMMA StopExact == ASSUME Inv, TypeOK', Quiet, Fatal \/ Undefined PROVE Exact'
BY Idle DEF Fatal, Undefined, Quiet, Settled

-----------------------------------------------------------------------------
(* Instructions that copy, move or drop what is on the stack.              *)

LEMMA DupExact == ASSUME Inv, TypeOK', Dup PROVE Exact'
<1> DEFINE v == Top(1)
<1>1. /\ 1 <= Len(stack) /\ Len(stack) \in Nat /\ v \in Value /\ pending = <<>> /\ Quiet
      /\ Below(1) \in Seq(Value)
  BY HandlerParts, HandlerQuiet DEF Inv, Dup
<1>2. CASE Len(stack) < MaxStack
  <2>1. Counts(<<v>>) /\ Alive(<<v>>)
    BY <1>1, <1>2, CountsAre, AliveHeld DEF Inv, Dup
  <2>2. pending' = <<>> /\ UNCHANGED <<tag, items>> /\ Push(v)
    BY <1>1, <1>2 DEF Dup, Push
  <2>3. <<v>> \in Seq(Value)
    BY <1>1
  <2> QED BY <1>1, <2>1, <2>2, <2>3, PushExact
<1>3. CASE Len(stack) = MaxStack
  <2>1. UNCHANGED <<heapVars, stack, pending, freeing, assigning, leaked>>
    BY <1>1, <1>3, SizeAssumption DEF Dup, heapVars, Quiet
  <2> QED BY <2>1, Idle
<1> QED BY <1>2, <1>3 DEF Dup

LEMMA StoreExact ==
  ASSUME Inv, TypeOK', NEW g \in 1..NGlobals, Store(g) PROVE Exact'
<1> DEFINE v == Top(1)
           old == stack[g]
<1>1. /\ 1 <= Len(stack) /\ Len(stack) \in Nat /\ v \in Value /\ pending = <<>> /\ Quiet
      /\ Below(1) \in Seq(Value) /\ Len(Below(1)) = Len(stack) - 1
  BY HandlerParts, HandlerQuiet DEF Inv, Store
<1>2. g \in 1..Len(Below(1)) /\ g \in 1..Len(stack) /\ 1 \in 0..Len(stack)
  BY <1>1, SizeAssumption DEF Store, Handler, Ready
<1>3. stack \in Seq(Value) /\ old \in Value /\ Below(1)[g] = old
  <2>1. stack \in Seq(Value)
    BY DEF Inv, TypeOK
  <2>2. Below(1)[g] = old
    BY <1>1, <1>2, <2>1, SplitSeq DEF Below
  <2> QED BY <1>2, <2>1, <2>2, ElementOfSeq
<1>4. ASSUME NEW x \in Addr PROVE rc'[x] + Owned(x) = rc[x] + Owned(x)'
  <2> DEFINE own == Owned(x)      ownNew == Owned(x)'
             r == rc[x]           rNew == rc'[x]
             before == Occurs(stack, x)
             after == Occurs(stack', x)
             below == Occurs(Below(1), x)
             lost == leaked[x]
             moved == Occurs(<<v>>, x)
             gone == Occurs(<<old>>, x)
  <2>1. before = below + moved
    <3>1. Occurs(stack, x) = Occurs(Below(1), x) + Occurs(Operands(1), x)
      BY <1>2, <1>3, OccursSplit DEF Below, Operands
    <3>2. Operands(1) = <<v>>
      BY <1>1, OperandsAre DEF Inv
    <3> QED BY <3>1, <3>2
  <2>2. after + gone = below + moved
    <3>1. Occurs([Below(1) EXCEPT ![g] = v], x) + Occurs(<<Below(1)[g]>>, x)
            = Occurs(Below(1), x) + Occurs(<<v>>, x)
      BY <1>1, <1>2, OccursExcept
    <3> QED BY <1>3, <3>1 DEF Store
  <2>3. own = before + lost
    <3>1. Occurs(pending, x) = 0 /\ leaked[x] \in Nat /\ Occurs(stack, x) \in Nat
      BY <1>1, OccursEmpty, Numbers DEF Inv
    <3> QED BY <3>1 DEF Owned
  <2>4. ownNew = after + gone + lost
    BY NumbersPrimed DEF Store, Release
  <2>5. rNew = r
    BY DEF Store, heapVars
  <2>6. rNew + own = r + ownNew
    <3>1. r \in Nat /\ lost \in Nat /\ below \in Nat /\ moved \in Nat /\ after \in Nat
      <4>1. <<v>> \in Seq(Value) /\ stack' \in Seq(Value)
        BY <1>1 DEF TypeOK
      <4> QED BY <1>1, <4>1, OccursNat, Numbers DEF Inv
    <3>2. gone \in Nat
      <4>1. <<old>> \in Seq(Value)
        BY <1>3
      <4> QED BY <4>1, OccursNat
    <3> HIDE DEF own, ownNew, r, rNew, before, after, below, lost, moved, gone
    <3> QED BY <2>1, <2>2, <2>3, <2>4, <2>5, <3>1, <3>2
  <2> QED BY <2>6
<1>5. \A x \in Addr : tag[x] = "free" => rc'[x] = 0
  BY DEF Inv, Exact, FreeClean, Store, heapVars
<1>6. UNCHANGED <<tag, items>>
  BY DEF Store, heapVars
<1> QED BY <1>1, <1>4, <1>5, <1>6, Rebalance

LEMMA DropExact == ASSUME Inv, TypeOK', Drop PROVE Exact'
<1> DEFINE v == Top(1)
<1>1. 1 <= Len(stack) /\ v \in Value /\ pending = <<>> /\ Quiet
  BY HandlerParts, HandlerQuiet DEF Inv, Drop
<1>2. Takes(1, <<>>, <<>>) /\ Counts(<<>>) /\ Alive(<<>>) /\ Operands(1) = <<v>>
  BY <1>1, TakesAre, CountsAre, AliveEmpty, OperandsAre DEF Inv, Drop, heapVars
<1>3. Even(<<>>, Operands(1), <<>>, <<>>, pending')
  <2> SUFFICES ASSUME NEW y \in Addr
               PROVE  Occurs(<<>>, y) + Occurs(<<v>>, y)
                        = Occurs(<<>>, y) + Occurs(<<>>, y) + Occurs(pending', y)
    BY <1>2 DEF Even
  <2>1. Occurs(<<>>, y) = 0 /\ Occurs(<<v>>, y) \in Nat /\ pending' = <<v>>
    BY <1>1, OccursShort DEF Drop, Release
  <2> QED BY <2>1
<1>4. UNCHANGED <<tag, items>> /\ <<>> \in Seq(Value)
  BY DEF Drop, heapVars
<1> QED BY <1>1, <1>2, <1>3, <1>4, Counting

LEMMA SwapExact == ASSUME Inv, TypeOK', Swap PROVE Exact'
<1> DEFINE u == Top(2)
           v == Top(1)
<1>1. /\ 2 <= Len(stack) /\ Len(stack) \in Nat /\ u \in Value /\ v \in Value
      /\ pending = <<>> /\ Quiet
  BY HandlerParts, HandlerQuiet DEF Inv, Swap
<1>2. <<v, u>> \in Seq(Value) /\ <<>> \in Seq(Value) /\ Operands(2) = <<u, v>>
  BY <1>1, OperandsAre DEF Inv
<1>3. Takes(2, <<v, u>>, <<>>)
  <2>1. 2 \in 0..Len(stack)
    BY <1>1
  <2>2. \A y \in Addr : leaked'[y] = leaked[y] + Occurs(<<>>, y)
    BY OccursEmpty DEF Swap, Inv, TypeOK
  <2> QED BY <2>1, <2>2 DEF Takes, Swap
<1>4. Even(<<>>, Operands(2), <<v, u>>, <<>>, pending')
  <2> SUFFICES ASSUME NEW y \in Addr
               PROVE  Occurs(<<>>, y) + Occurs(<<u, v>>, y)
                        = Occurs(<<v, u>>, y) + Occurs(<<>>, y) + Occurs(pending', y)
    BY <1>2 DEF Even
  <2>1. Occurs(<<>>, y) = 0 /\ Occurs(<<u>>, y) \in Nat /\ Occurs(<<v>>, y) \in Nat
    BY <1>1, OccursShort
  <2>2. /\ Occurs(<<u, v>>, y) = Occurs(<<u>>, y) + Occurs(<<v>>, y)
        /\ Occurs(<<v, u>>, y) = Occurs(<<v>>, y) + Occurs(<<u>>, y)
    BY <1>1, OccursShort
  <2>3. pending' = <<>>
    BY <1>1 DEF Swap
  <2> QED BY <2>1, <2>2, <2>3
<1>5. Counts(<<>>) /\ Alive(<<>>) /\ UNCHANGED <<tag, items>>
  BY CountsAre, AliveEmpty DEF Inv, Swap, heapVars
<1> QED BY <1>1, <1>2, <1>3, <1>4, <1>5, Counting

-----------------------------------------------------------------------------
(* Instructions that replace their operands by a result.                   *)

LEMMA ReplaceExact ==
  ASSUME Inv, TypeOK', Quiet, UNCHANGED <<tag, items>>,
         NEW n \in Nat, n <= Len(stack), NEW v \in Value, Replace(n, v),
         NEW c \in Seq(Value), Counts(c), Alive(c),
         \A y \in Addr : Occurs(c, y) + Occurs(Operands(n), y)
                           = Occurs(<<v>>, y) + Occurs(pending', y)
  PROVE  Exact'
<1>1. <<>> \in Seq(Value) /\ <<v>> \in Seq(Value) /\ pending' \in Seq(Value)
  BY DEF TypeOK
<1>2. Takes(n, <<v>>, <<>>)
  BY TakesAre DEF Inv
<1>3. Even(c, Operands(n), <<v>>, <<>>, pending')
  <2> SUFFICES ASSUME NEW y \in Addr
               PROVE  Occurs(c, y) + Occurs(Operands(n), y)
                        = Occurs(<<v>>, y) + Occurs(<<>>, y) + Occurs(pending', y)
    BY DEF Even
  <2>1. Occurs(<<>>, y) = 0 /\ Occurs(<<v>>, y) \in Nat /\ Occurs(pending', y) \in Nat
    BY <1>1, OccursEmpty, OccursNat
  <2> QED BY <2>1
<1> QED BY <1>1, <1>2, <1>3, Counting

\* The result is a new object that holds its; s is counted, p is released.
Makes(a, k, its, s) ==
  /\ k \in Tag \ {"free"} /\ its \in Seq(Value) /\ s \in Seq(Value)
  /\ \E w, f : Alloc(a, k, its, w, f, s)
  /\ CharsIn(k, its) /\ Alive(s)
Moves(s, n, its, p) ==
  \A y \in Addr : Occurs(s, y) + Occurs(Operands(n), y) = Occurs(its, y) + Occurs(p, y)

LEMMA MakeExact ==
  ASSUME Inv, TypeOK', Quiet,
         NEW a \in Addr, NEW k, NEW its, NEW s, Makes(a, k, its, s),
         NEW n \in Nat, n <= Len(stack), Replace(n, a) \/ (n = 0 /\ Push(a)),
         Moves(s, n, its, pending')
  PROVE  Exact'
<1>0. PICK w, f : Alloc(a, k, its, w, f, s)
  BY DEF Makes
<1>a. /\ k \in Tag \ {"free"} /\ its \in Seq(Value) /\ s \in Seq(Value)
      /\ CharsIn(k, its) /\ Alive(s)
  BY DEF Makes
<1>1. /\ <<>> \in Seq(Value) /\ a \in Value /\ <<a>> \in Seq(Value)
      /\ pending' \in Seq(Value)
  BY DEF Value, TypeOK
<1>2. ASSUME NEW y \in Addr
      PROVE  /\ Occurs(<<>>, y) = 0 /\ Occurs(<<a>>, y) \in Nat
             /\ Occurs(pending', y) \in Nat /\ Occurs(its, y) \in Nat
             /\ Occurs(s, y) \in Nat /\ Occurs(Operands(n), y) \in Nat
             /\ Occurs(s, y) + Occurs(Operands(n), y) = Occurs(its, y) + Occurs(pending', y)
  <2>1. Operands(n) \in Seq(Value)
    BY StackParts DEF Inv
  <2> QED BY <1>1, <1>a, <2>1, OccursEmpty, OccursNat DEF Moves
<1>3. /\ EvenItems(s, <<a>>, Operands(n), its, <<a>>, <<>>, pending')
      /\ EvenItems(s, <<a>>, Operands(n), its, <<>>, <<a>>, pending')
  <2> SUFFICES ASSUME NEW y \in Addr
               PROVE  /\ Occurs(s, y) + Occurs(<<a>>, y) + Occurs(Operands(n), y)
                           = Occurs(its, y) + Occurs(<<a>>, y) + Occurs(<<>>, y) + Occurs(pending', y)
                      /\ Occurs(s, y) + Occurs(<<a>>, y) + Occurs(Operands(n), y)
                           = Occurs(its, y) + Occurs(<<>>, y) + Occurs(<<a>>, y) + Occurs(pending', y)
    BY DEF EvenItems
  <2> DEFINE counted == Occurs(s, y)
             gone == Occurs(Operands(n), y)
             new == Occurs(its, y)
             due == Occurs(pending', y)
             made == Occurs(<<a>>, y)
             none == Occurs(<<>>, y)
  <2>1. /\ none = 0 /\ made \in Nat /\ due \in Nat /\ new \in Nat /\ counted \in Nat
        /\ gone \in Nat /\ counted + gone = new + due
    BY <1>2
  <2> HIDE DEF counted, gone, new, due, made, none
  <2>2. /\ counted + made + gone = new + made + none + due
        /\ counted + made + gone = new + none + made + due
    BY <2>1
  <2> QED BY <2>2 DEF counted, gone, new, due, made, none
<1>4. Takes(n, <<a>>, <<>>) \/ Takes(n, <<>>, <<a>>)
  <2>1. CASE Replace(n, a)
    BY <1>1, <2>1, TakesAre DEF Inv
  <2>2. CASE n = 0 /\ Push(a)
    BY <1>1, <2>2, TakesPush DEF Inv
  <2> QED BY <2>1, <2>2
<1>5. CASE Takes(n, <<a>>, <<>>)
  BY <1>0, <1>a, <1>1, <1>3, <1>5, Making
<1>6. CASE Takes(n, <<>>, <<a>>)
  BY <1>0, <1>a, <1>1, <1>3, <1>6, Making
<1> QED BY <1>4, <1>5, <1>6

LEMMA EndExact == ASSUME Inv, TypeOK', NEW n \in Nat \ {0}, End(n) PROVE Exact'
<1> DEFINE slots == SubSeq(stack, Len(stack) - n, Len(stack) - 1)
           v == Top(1)
<1>1. n + 1 \in Nat /\ 1 \in 1..(n + 1) /\ Handler("END", n + 1)
  BY DEF End
<1>2. /\ n + 1 <= Len(stack) /\ Len(stack) \in Nat /\ v \in Value
      /\ pending = <<>> /\ Quiet /\ stack \in Seq(Value)
  BY <1>1, HandlerParts, HandlerQuiet DEF Inv, TypeOK
<1>3. pending' = slots /\ slots \in Seq(Value)
  BY DEF End, Release, TypeOK
<1>4. Operands(n + 1) = slots \o <<v>>
  <2>1. /\ Len(stack) - n \in 1..Len(stack) /\ Len(stack) \in (Len(stack) - n)..Len(stack)
        /\ Len(stack) + 1 - (n + 1) = Len(stack) - n /\ Len(stack) + 1 - 1 = Len(stack)
    BY <1>2
  <2>2. SubSeq(stack, Len(stack) - n, Len(stack)) = slots \o <<stack[Len(stack)]>>
    BY <1>2, <2>1, SubSeqRecursiveSecond
  <2> QED BY <2>1, <2>2 DEF Operands, Top
<1>5. ASSUME NEW y \in Addr
      PROVE  Occurs(<<>>, y) + Occurs(Operands(n + 1), y)
               = Occurs(<<v>>, y) + Occurs(pending', y)
  <2>1. <<v>> \in Seq(Value)
    BY <1>2
  <2>2. Occurs(slots \o <<v>>, y) = Occurs(slots, y) + Occurs(<<v>>, y)
    BY <1>3, <2>1, OccursConcat
  <2>3. Occurs(<<>>, y) = 0 /\ Occurs(slots, y) \in Nat /\ Occurs(<<v>>, y) \in Nat
    BY <1>3, <2>1, OccursEmpty, OccursNat
  <2>4. /\ Occurs(Operands(n + 1), y) = Occurs(slots, y) + Occurs(<<v>>, y)
        /\ Occurs(pending', y) = Occurs(slots, y)
    BY <1>3, <1>4, <2>2
  <2> HIDE DEF slots, v
  <2> QED BY <2>3, <2>4
<1>6. /\ Counts(<<>>) /\ Alive(<<>>) /\ UNCHANGED <<tag, items>> /\ <<>> \in Seq(Value)
      /\ Replace(n + 1, v)
  BY CountsAre, AliveEmpty DEF Inv, End, heapVars
<1> HIDE DEF slots
<1> QED BY <1>1, <1>2, <1>5, <1>6, ReplaceExact

LEMMA AnswerExact ==
  ASSUME Inv, TypeOK', NEW name, Handler(name, 1), Replace(1, Imm), Release(<<Top(1)>>),
         UNCHANGED heapVars
  PROVE  Exact'
<1> DEFINE v == Top(1)
<1>1. 1 <= Len(stack) /\ v \in Value /\ pending = <<>> /\ Quiet /\ Imm \in Value
  BY HandlerParts, HandlerQuiet DEF Inv, Value
<1>2. /\ Counts(<<>>) /\ Alive(<<>>) /\ Operands(1) = <<v>> /\ <<>> \in Seq(Value)
      /\ UNCHANGED <<tag, items>>
  BY <1>1, CountsAre, AliveEmpty, OperandsAre DEF Inv, heapVars
<1>3. ASSUME NEW y \in Addr
      PROVE  Occurs(<<>>, y) + Occurs(Operands(1), y) = Occurs(<<Imm>>, y) + Occurs(pending', y)
  <2>1. Occurs(<<>>, y) = 0 /\ Occurs(<<v>>, y) \in Nat /\ pending' = <<v>>
    BY <1>1, OccursShort DEF Release
  <2>2. Imm # y
    BY AddrAssumption
  <2>3. Occurs(<<Imm>>, y) = 0
    BY <2>2, OccursSingle
  <2> QED BY <1>2, <2>1, <2>3
<1> QED BY <1>1, <1>2, <1>3, ReplaceExact

LEMMA InspectExact == ASSUME Inv, TypeOK', Inspect PROVE Exact'
BY AnswerExact DEF Inspect

LEMMA VariantTagExact == ASSUME Inv, TypeOK', VariantTag PROVE Exact'
<1>1. 1 <= Len(stack) /\ pending = <<>> /\ Quiet
  BY HandlerParts, HandlerQuiet DEF Inv, VariantTag
<1> QED BY <1>1, FailExact, AnswerExact DEF VariantTag

LEMMA BranchExact == ASSUME Inv, TypeOK', Branch PROVE Exact'
<1>1. 1 <= Len(stack) /\ pending = <<>> /\ Quiet /\ <<>> \in Seq(Value)
  BY HandlerParts, HandlerQuiet DEF Inv, Branch
<1>2. CASE Fail(1)
  BY <1>1, <1>2, FailExact
<1>3. CASE Top(1) = Imm /\ stack' = Below(1) /\ UNCHANGED <<heapVars, pending, leaked, status>>
  <2>1. /\ Takes(1, <<>>, <<>>) /\ Counts(<<>>) /\ Alive(<<>>) /\ Operands(1) = <<Imm>>
        /\ UNCHANGED <<tag, items>>
    BY <1>1, <1>3, TakesAre, CountsAre, AliveEmpty, OperandsAre DEF Inv, heapVars
  <2>2. ASSUME NEW y \in Addr PROVE Occurs(<<>>, y) = 0 /\ Occurs(<<Imm>>, y) = 0
    <3>1. Imm # y
      BY AddrAssumption
    <3> QED BY <3>1, OccursEmpty, OccursSingle
  <2>3. Even(<<>>, Operands(1), <<>>, <<>>, pending')
    BY <1>1, <1>3, <2>1, <2>2 DEF Even
  <2> QED BY <1>1, <2>1, <2>3, Counting
<1> QED BY <1>2, <1>3 DEF Branch

-----------------------------------------------------------------------------
(* Tuples, texts, variants and slices.                                     *)

LEMMA AliveOperands ==
  ASSUME Inv, NEW n \in Nat, n <= Len(stack)
  PROVE  Operands(n) \in Seq(Value) /\ Alive(Operands(n))
<1>1. stack \in Seq(Value) /\ Len(stack) \in Nat
  BY LenProperties DEF Inv, TypeOK
<1>2. /\ Operands(n) \in Seq(Value) /\ Len(Operands(n)) = n
      /\ \A i \in 1..n : Operands(n)[i] = stack[Len(stack) - n + i]
  <2>1. n \in 0..Len(stack)
    BY <1>1
  <2> QED BY <1>1, <2>1, SplitSeq DEF Operands
<1>3. ASSUME NEW i \in 1..Len(Operands(n)), Operands(n)[i] \in Addr
      PROVE  tag[Operands(n)[i]] # "free"
  <2>1. Len(stack) - n + i \in 1..Len(stack)
    BY <1>1, <1>2
  <2> QED BY <1>2, <1>3, <2>1, HeldIsLive
<1> QED BY <1>2, <1>3, AliveAre

LEMMA TupleExact ==
  ASSUME Inv, TypeOK', NEW a \in Addr, NEW n \in Nat, Tuple(a, n) PROVE Exact'
<1> DEFINE its == Operands(n)
           rev == [i \in 1..n |-> Top(i)]
<1>1. /\ n <= Len(stack) /\ Len(stack) \in Nat /\ pending = <<>> /\ Quiet
      /\ Len(its) = n /\ its \in Seq(Value) /\ \A i \in 1..n : Top(i) \in Value
  BY HandlerParts, HandlerQuiet DEF Inv, Tuple
<1>2. rev \in Seq(Value) /\ Len(rev) = n
  BY <1>1
<1>3. \A i \in 1..Len(its) : rev[i] = its[Len(its) + 1 - i]
  <2> SUFFICES ASSUME NEW i \in 1..n PROVE Top(i) = its[n + 1 - i]
    BY <1>1
  <2>1. n \in 0..Len(stack) /\ stack \in Seq(Value) /\ n + 1 - i \in 1..n
    BY <1>1 DEF Inv, TypeOK
  <2>2. its[n + 1 - i] = stack[Len(stack) - n + (n + 1 - i)]
    BY <2>1, SplitSeq DEF Operands
  <2>3. Len(stack) - n + (n + 1 - i) = Len(stack) + 1 - i
    BY <1>1, <2>1
  <2> QED BY <2>2, <2>3 DEF Top
<1>4. ASSUME NEW y \in Addr
      PROVE  Occurs(its, y) + Occurs(Operands(n), y) = Occurs(its, y) + Occurs(pending', y)
  <2>1. Occurs(rev, y) = Occurs(its, y)
    BY <1>1, <1>2, <1>3, OccursReverse
  <2> QED BY <2>1 DEF Tuple, Release
<1>5. Alive(its) /\ "tuple" \in Tag \ {"free"} /\ CharsIn("tuple", its)
  BY <1>1, AliveOperands DEF Tag, CharsIn
<1>6. Makes(a, "tuple", its, its)
  BY <1>1, <1>5 DEF Tuple, Makes
<1>7. Replace(n, a) \/ (n = 0 /\ Push(a))
  BY DEF Tuple
<1>8. Moves(its, n, its, pending')
  BY <1>4 DEF Moves
<1> HIDE DEF its, rev
<1> QED BY <1>1, <1>6, <1>7, <1>8, MakeExact

LEMMA VariantExact ==
  ASSUME Inv, TypeOK', NEW a \in Addr, NEW n \in Nat, Variant(a, n) PROVE Exact'
<1> DEFINE its == Operands(n)
<1>1. n <= Len(stack) /\ pending = <<>> /\ Quiet /\ its \in Seq(Value)
  BY HandlerParts, HandlerQuiet DEF Inv, Variant
<1>2. ASSUME NEW y \in Addr
      PROVE  Occurs(<<>>, y) + Occurs(Operands(n), y) = Occurs(its, y) + Occurs(pending', y)
  <2>1. Occurs(<<>>, y) = 0 /\ Occurs(its, y) \in Nat /\ pending' = <<>>
    BY <1>1, OccursEmpty, OccursNat DEF Variant
  <2> QED BY <2>1
<1>3. /\ Alive(<<>>) /\ <<>> \in Seq(Value) /\ "variant" \in Tag \ {"free"}
      /\ CharsIn("variant", its)
  BY AliveEmpty DEF Tag, CharsIn
<1>4. Makes(a, "variant", its, <<>>)
  BY <1>1, <1>3 DEF Variant, Makes
<1>5. Replace(n, a) \/ (n = 0 /\ Push(a))
  BY DEF Variant
<1>6. Moves(<<>>, n, its, pending')
  BY <1>2 DEF Moves
<1> HIDE DEF its
<1> QED BY <1>1, <1>4, <1>5, <1>6, MakeExact

LEMMA FieldExact ==
  ASSUME Inv, TypeOK', NEW k \in Nat \ {0}, Field(k) PROVE Exact'
<1> DEFINE v == Top(1)
<1>1. 1 <= Len(stack) /\ v \in Value /\ pending = <<>> /\ Quiet
  BY HandlerParts, HandlerQuiet DEF Inv, Field
<1>2. CASE Fail(1)
  BY <1>1, <1>2, FailExact
<1>3. CASE Fatal
  BY <1>1, <1>3, StopExact
<1>4. CASE /\ Kind(v) = "variant" /\ k <= Len(items[v])
           /\ rc' = Counted(<<items[v][k]>>)
           /\ Replace(1, items[v][k]) /\ Release(<<v>>)
           /\ UNCHANGED <<tag, items, win, num>>
  <2> DEFINE x == items[v][k]
  <2>1. v \in Addr /\ k \in 1..Len(items[v])
    <3>1. v \in Addr
      BY <1>4 DEF Kind
    <3>2. Len(items[v]) \in Nat
      BY <3>1, LenProperties DEF Inv, TypeOK, HeapOK
    <3> QED BY <1>4, <3>1, <3>2
  <2>2. x \in Value /\ <<x>> \in Seq(Value)
    BY <2>1, ItemType DEF Inv
  <2>3. Counts(<<x>>) /\ Alive(<<x>>) /\ Operands(1) = <<v>>
    BY <1>1, <1>4, <2>1, CountsAre, AliveHeld, OperandsAre DEF Inv
  <2>4. \A y \in Addr : Occurs(<<x>>, y) + Occurs(Operands(1), y)
                          = Occurs(<<x>>, y) + Occurs(pending', y)
    BY <1>4, <2>3 DEF Release
  <2> QED BY <1>1, <1>4, <2>2, <2>3, <2>4, ReplaceExact
<1> QED BY <1>2, <1>3, <1>4 DEF Field

\* One item of an object is replaced.
LEMMA ItemOut ==
  ASSUME TypeOK, NEW v \in Addr, NEW k \in 1..Len(items[v]), NEW x \in Value
  PROVE  /\ [items[v] EXCEPT ![k] = x] \in Seq(Value)
         /\ items[v][k] \in Value
         /\ \A y \in Addr : Occurs([items[v] EXCEPT ![k] = x], y) + Occurs(<<items[v][k]>>, y)
                              = Occurs(items[v], y) + Occurs(<<x>>, y)
<1>1. items[v] \in Seq(Value)
  BY DEF TypeOK, HeapOK
<1>2. [items[v] EXCEPT ![k] = x] \in Seq(Value)
  BY <1>1, ExceptSeq
<1>3. items[v][k] \in Value
  BY <1>1, ElementOfSeq
<1>4. \A y \in Addr : Occurs([items[v] EXCEPT ![k] = x], y) + Occurs(<<items[v][k]>>, y)
                        = Occurs(items[v], y) + Occurs(<<x>>, y)
  <2> TAKE y \in Addr
  <2> DEFINE s == items[v]
  <2>1. s \in Seq(Value) /\ k \in 1..Len(s)
    BY <1>1
  <2>2. Occurs([s EXCEPT ![k] = x], y) + Occurs(<<s[k]>>, y) = Occurs(s, y) + Occurs(<<x>>, y)
    <3>1. x \in Value /\ s[k] \in Value
      BY <1>3
    <3> HIDE DEF s
    <3> QED BY <2>1, <3>1, OccursExcept, SMTT(30)
  <2> QED BY <2>2
<1> QED BY <1>2, <1>3, <1>4

LEMMA ItemSet ==
  ASSUME Inv, NEW v \in Addr, NEW k \in 1..Len(items[v]), NEW x \in Value,
         items' = [items EXCEPT ![v][k] = x]
  PROVE  /\ [items[v] EXCEPT ![k] = x] \in Seq(Value)
         /\ ChangesItems(v, [items[v] EXCEPT ![k] = x])
         /\ items[v][k] \in Value
         /\ \A y \in Addr : Occurs([items[v] EXCEPT ![k] = x], y) + Occurs(<<items[v][k]>>, y)
                              = Occurs(items[v], y) + Occurs(<<x>>, y)
<1>1. ChangesItems(v, [items[v] EXCEPT ![k] = x])
  BY DEF Inv, TypeOK, HeapOK, ChangesItems
<1> QED BY <1>1, ItemOut DEF Inv

LEMMA SetFieldExact ==
  ASSUME Inv, TypeOK', NEW k \in Nat \ {0}, SetField(k) PROVE Exact'
<1> DEFINE v == Top(1)
           new == Top(2)
<1>1. 2 <= Len(stack) /\ v \in Value /\ new \in Value /\ pending = <<>> /\ Quiet
  BY HandlerParts, HandlerQuiet DEF Inv, SetField
<1>2. CASE Fail(2)
  BY <1>1, <1>2, FailExact
<1>3. CASE Fatal
  BY <1>1, <1>3, StopExact
<1>4. CASE /\ Kind(v) = "variant" /\ k <= Len(items[v])
           /\ rc' = Counted(<<new>>)
           /\ items' = [items EXCEPT ![v][k] = new]
           /\ stack' = Below(2) /\ Release(<<items[v][k], new, v>>)
           /\ UNCHANGED <<tag, win, num, leaked, status>>
  <2> DEFINE old == items[v][k]
             its == [items[v] EXCEPT ![k] = new]
  <2>1. v \in Addr /\ k \in 1..Len(items[v]) /\ tag[v] = "variant"
    <3>1. v \in Addr /\ tag[v] = "variant"
      BY <1>4 DEF Kind
    <3>2. Len(items[v]) \in Nat
      BY <3>1, LenProperties DEF Inv, TypeOK, HeapOK
    <3> QED BY <1>4, <3>1, <3>2
  <2>2. /\ its \in Seq(Value) /\ ChangesItems(v, its) /\ old \in Value
        /\ \A y \in Addr : Occurs(its, y) + Occurs(<<old>>, y)
                             = Occurs(items[v], y) + Occurs(<<new>>, y)
    BY <1>1, <1>4, <2>1, ItemSet
  <2>3. /\ Takes(2, <<>>, <<>>) /\ Counts(<<new>>) /\ Alive(<<new>>)
        /\ Operands(2) = <<new, v>>
    <3>1. 2 \in 1..Len(stack)
      BY <1>1, LenProperties DEF Inv, TypeOK
    <3> QED BY <1>1, <1>4, <3>1, TakesAre, CountsAre, AliveHeld, OperandsAre DEF Inv
  <2>4. EvenItems(<<new>>, items[v], Operands(2), its, <<>>, <<>>, pending')
    <3> SUFFICES ASSUME NEW y \in Addr
                 PROVE  Occurs(<<new>>, y) + Occurs(items[v], y) + Occurs(<<new, v>>, y)
                          = Occurs(its, y) + Occurs(<<>>, y) + Occurs(<<>>, y)
                              + Occurs(<<old, new, v>>, y)
      BY <1>4, <2>3 DEF EvenItems, Release
    <3> DEFINE nNew == Occurs(<<new>>, y)    nAll == Occurs(items[v], y)
               nTwo == Occurs(<<new, v>>, y) nIts == Occurs(its, y)
               nNone == Occurs(<<>>, y)      nDue == Occurs(<<old, new, v>>, y)
               nOld == Occurs(<<old>>, y)    nV == Occurs(<<v>>, y)
    <3>1. /\ nNew \in Nat /\ nV \in Nat /\ nOld \in Nat /\ nNone = 0
          /\ nTwo = nNew + nV /\ nDue = nOld + nNew + nV
      <4>1. /\ Occurs(<<new>>, y) \in Nat /\ Occurs(<<>>, y) = 0
            /\ Occurs(<<new, v>>, y) = Occurs(<<new>>, y) + Occurs(<<v>>, y)
        BY <1>1, OccursShort
      <4>2. Occurs(<<v>>, y) \in Nat
        BY <1>1, OccursShort
      <4>3. /\ Occurs(<<old>>, y) \in Nat
            /\ Occurs(<<old, new, v>>, y)
                 = Occurs(<<old>>, y) + Occurs(<<new>>, y) + Occurs(<<v>>, y)
        <5>1. old \in Value /\ new \in Value /\ v \in Value
          BY <1>1, <2>2
        <5> HIDE DEF old, new, v
        <5>2. Occurs(<<old>>, y) \in Nat
          BY <5>1, OccursShort
        <5> QED BY <5>1, <5>2, OccursThree
      <4> QED BY <4>1, <4>2, <4>3
    <3>2. nAll \in Nat /\ nIts \in Nat
      <4>1. items[v] \in Seq(Value)
        BY <2>1 DEF Inv, TypeOK, HeapOK
      <4> QED BY <2>2, <4>1, OccursNat
    <3>3. nIts + nOld = nAll + nNew
      BY <2>2
    <3>4. nNew + nAll + nTwo = nIts + nNone + nNone + nDue
      <4> HIDE DEF nNew, nAll, nTwo, nIts, nNone, nDue, nOld, nV
      <4> QED BY <3>1, <3>2, <3>3
    <3> QED BY <3>4
  <2>5. CharsIn(tag[v], its) /\ tag[v] # "free" /\ UNCHANGED tag
    BY <1>4, <2>1 DEF CharsIn
  <2>6. <<>> \in Seq(Value) /\ <<new>> \in Seq(Value)
    BY <1>1
  <2> HIDE DEF its
  <2> QED BY <1>1, <2>1, <2>2, <2>3, <2>4, <2>5, <2>6, Changing
<1> QED BY <1>2, <1>3, <1>4 DEF SetField

\* What an index of a container that is not stale reads.
LEMMA ShownItem ==
  ASSUME Inv, Quiet, NEW c, Sized(c), NEW k \in 1..Length(c), Lo(c) + k <= Len(items[Root(c)])
  PROVE  LET x == items[Root(c)][Lo(c) + k]
         IN /\ x \in Value /\ Alive(<<x>>)
            /\ tag[Root(c)] = "text" => x = Imm
<1>1. /\ Root(c) \in Addr /\ Lo(c) \in Nat /\ Length(c) \in Nat /\ Len(items[Root(c)]) \in Nat
      /\ items[Root(c)] \in Seq(Value)
  BY SizedParts DEF Inv
<1>2. Lo(c) + k \in 1..Len(items[Root(c)])
  BY <1>1
<1>3. items[Root(c)][Lo(c) + k] \in Value
  BY <1>1, <1>2, ElementOfSeq
<1>4. Alive(<<items[Root(c)][Lo(c) + k]>>)
  BY <1>1, <1>2, AliveHeld
<1>5. tag[Root(c)] = "text" => items[Root(c)][Lo(c) + k] = Imm
  BY <1>1, <1>2 DEF Inv, Exact, TextChars
<1> QED BY <1>3, <1>4, <1>5

LEMMA ElemExact ==
  ASSUME Inv, TypeOK', NEW a \in Addr, NEW k \in Nat \ {0}, Elem(a, k) PROVE Exact'
<1> DEFINE c == Top(2)
           i == Top(1)
           x == items[Root(c)][Lo(c) + k]
<1>1. 2 <= Len(stack) /\ i \in Value /\ c \in Value /\ pending = <<>> /\ Quiet
  BY HandlerParts, HandlerQuiet DEF Inv, Elem
<1>2. CASE Fail(2)
  BY <1>1, <1>2, FailExact
<1>3. CASE Fatal \/ Undefined
  BY <1>1, <1>3, StopExact
<1>4. CASE /\ Sized(c) /\ k \in 1..Length(c)
           /\ ~Orphan(c) /\ Lo(c) + k <= Len(items[Root(c)])
           /\ IF RootTag(c) = "text"
              THEN Alloc(a, "text", <<x>>, NoWin, NoNum, <<>>) /\ Replace(2, a)
              ELSE /\ rc' = Counted(<<x>>) /\ Replace(2, x)
                   /\ UNCHANGED <<tag, items, win, num>>
           /\ Release(<<c, i>>)
  <2>1. x \in Value /\ Alive(<<x>>) /\ (tag[Root(c)] = "text" => x = Imm)
    BY <1>1, <1>4, ShownItem
  <2>2. <<x>> \in Seq(Value) /\ <<>> \in Seq(Value)
    BY <2>1
  <2>3. ASSUME NEW y \in Addr
        PROVE  /\ Occurs(Operands(2), y) = Occurs(<<c>>, y) + Occurs(<<i>>, y)
               /\ Occurs(pending', y) = Occurs(<<c>>, y) + Occurs(<<i>>, y)
               /\ Occurs(<<c>>, y) \in Nat /\ Occurs(<<i>>, y) \in Nat
    <3>1. Operands(2) = <<c, i>> /\ pending' = <<c, i>>
      BY <1>1, <1>4, OperandsAre DEF Inv, Release
    <3>2. Occurs(<<c, i>>, y) = Occurs(<<c>>, y) + Occurs(<<i>>, y)
      BY <1>1, OccursShort
    <3>3. Occurs(<<c>>, y) \in Nat /\ Occurs(<<i>>, y) \in Nat
      BY <1>1, OccursShort
    <3> QED BY <3>1, <3>2, <3>3
  <2>4. CASE RootTag(c) = "text"
    <3>1. Alloc(a, "text", <<x>>, NoWin, NoNum, <<>>) /\ Replace(2, a)
      BY <1>4, <2>4
    <3>2. x = Imm
      <4>1. tag[Root(c)] = "text"
        BY <1>4, <2>4 DEF RootTag, Root, Kind, Sized
      <4> QED BY <2>1, <4>1
    <3>3. CharsIn("text", <<x>>) /\ Alive(<<>>) /\ "text" \in Tag \ {"free"}
      BY <3>2, AliveEmpty DEF CharsIn, Tag
    <3>4. ASSUME NEW y \in Addr
          PROVE  Occurs(<<>>, y) + Occurs(Operands(2), y) = Occurs(<<x>>, y) + Occurs(pending', y)
      <4>1. Imm # y
        BY AddrAssumption
      <4>2. Occurs(<<>>, y) = 0 /\ Occurs(<<x>>, y) = 0
        BY <3>2, <4>1, OccursEmpty, OccursSingle
      <4> HIDE DEF x, c, i
      <4> QED BY <2>3, <4>2
    <3>5. Makes(a, "text", <<x>>, <<>>)
      BY <2>2, <3>1, <3>3 DEF Makes
    <3>6. Moves(<<>>, 2, <<x>>, pending')
      BY <3>4 DEF Moves
    <3> HIDE DEF x
    <3> QED BY <1>1, <3>1, <3>5, <3>6, MakeExact
  <2>5. CASE RootTag(c) # "text"
    <3>1. rc' = Counted(<<x>>) /\ Replace(2, x) /\ UNCHANGED <<tag, items>>
      BY <1>4, <2>5
    <3>2. Counts(<<x>>)
      BY <3>1, CountsAre DEF Inv
    <3>3. \A y \in Addr : Occurs(<<x>>, y) + Occurs(Operands(2), y)
                            = Occurs(<<x>>, y) + Occurs(pending', y)
      BY <2>3
    <3> HIDE DEF x
    <3> QED BY <1>1, <2>1, <2>2, <3>1, <3>2, <3>3, ReplaceExact
  <2> QED BY <2>4, <2>5
<1> QED BY <1>2, <1>3, <1>4 DEF Elem

\* The item that is replaced is due, and its container does not own it any more.
LEMMA StaExact ==
  ASSUME Inv, TypeOK', "TextGetsChar" \in Discipline, NEW k \in Nat \ {0}, Sta(k)
  PROVE  Exact'
<1> DEFINE c == Top(1)
           new == Top(3)
           x == IF Kind(c) = "text" /\ Kind(new) = "text" /\ Len(items[new]) = 1
                THEN items[new][1] ELSE new
<1>1. 3 <= Len(stack) /\ c \in Value /\ new \in Value /\ Settled /\ pending = <<>>
  BY HandlerParts, SMTT(30) DEF Inv, Sta
<1>2. CASE (Fatal /\ UNCHANGED <<freeing, assigning>>) \/ Undefined
  <2>1. Quiet
    BY <1>1, <1>2 DEF Quiet, Undefined
  <2> QED BY <1>2, <2>1, StopExact
<1>3. CASE /\ Sized(c) /\ Kind(c) # "slice" /\ k \in 1..Len(items[c])
           /\ (Kind(c) = "text" /\ "TextGetsChar" \in Discipline) => x = Imm
           /\ ReleaseItem(k, x)
  <2> DEFINE old == items[c][k]
             its == [items[c] EXCEPT ![k] = Imm]
  <2>1. c \in Addr /\ k \in 1..Len(items[c]) /\ tag[c] \in {"text", "tuple"}
    BY <1>3 DEF Sized, Kind
  <2>2. x \in {Imm, new} /\ (tag[c] = "text" => x = Imm)
    BY <1>3, <2>1 DEF Kind
  <2>3. /\ pending' = <<old>> /\ assigning' = [index |-> k, item |-> x]
        /\ UNCHANGED <<tag, rc, items, stack, freeing, leaked>>
    BY <1>3 DEF ReleaseItem, Release, heapVars
  <2> HIDE DEF x, new
  <2>4. /\ its \in Seq(Value) /\ old \in Value
        /\ \A y \in Addr : Occurs(its, y) + Occurs(<<old>>, y)
                             = Occurs(items[c], y) + Occurs(<<Imm>>, y)
    <3>1. Imm \in Value
      BY DEF Value
    <3> HIDE DEF c
    <3> QED BY <2>1, <3>1, ItemOut DEF Inv
  <2>5. Held = items
    BY <1>1, HeldSettled DEF AllHeld, Inv, Settled
  <2>6. Held'[c] = its /\ ChangesOnly(c, Held, Held')
    <3>1. freeing' = <<>> /\ assigning' # NoAssign /\ assigning'.index = k
      BY <1>1, <2>3 DEF Settled, NoAssign
    <3>2. Held' = [y \in Addr |-> IF y = c THEN its ELSE items[y]]
      BY <2>3, <3>1 DEF Held, BeingFreed, Top
    <3>3. Held \in [Addr -> Seq(Value)] /\ Held' \in [Addr -> Seq(Value)]
      BY HeldType, HeldTypePrimed DEF Inv, HeldOK
    <3> HIDE DEF its, c
    <3> QED BY <2>1, <2>5, <3>2, <3>3 DEF ChangesOnly
  <2>7. ASSUME NEW y \in Addr PROVE rc'[y] = Owned(y)' + HeapRefs(y)'
    <3> DEFINE own == Owned(y)      ownNew == Owned(y)'
               refs == HeapRefs(y)  refsNew == HeapRefs(y)'
               held == Occurs(stack, y)  lost == leaked[y]
               due == Occurs(<<old>>, y) all == Occurs(items[c], y)
               left == Occurs(its, y)    none == Occurs(<<Imm>>, y)
               r == rc[y]
    <3>1. own = held + lost /\ ownNew = held + due + lost
      <4>1. Occurs(pending, y) = 0
        BY <1>1, OccursEmpty
      <4>2. held \in Nat /\ lost \in Nat
        BY Numbers
      <4> QED BY <2>3, <4>1, <4>2, NumbersPrimed DEF Owned
    <3>2. refsNew + all = refs + left
      <4> DEFINE h == Held   g == Held'
      <4>1. ChangesOnly(c, h, g) /\ all = Occurs(h[c], y) /\ left = Occurs(g[c], y)
        BY <2>5, <2>6
      <4>2. refsNew = RefsIn(g, y) /\ refs = RefsIn(h, y)
        BY HeapRefsIn
      <4> HIDE DEF h, g, c, refs, refsNew, all, left
      <4> QED BY <2>1, <4>1, <4>2, ItemsChange
    <3>3. left + due = all + none /\ none = 0
      <4>1. Imm # y
        BY AddrAssumption
      <4> QED BY <2>4, <4>1, OccursSingle
    <3>4. r = own + refs
      BY DEF Inv, Exact, Balanced
    <3>5. held \in Nat /\ lost \in Nat /\ refs \in Nat /\ refsNew \in Nat
      BY Numbers, NumbersPrimed
    <3>6. left \in Nat /\ all \in Nat
      <4>1. its \in Seq(Value) /\ items[c] \in Seq(Value)
        BY <2>1, <2>4 DEF Inv, TypeOK, HeapOK
      <4> HIDE DEF its, c
      <4> QED BY <4>1, OccursNat
    <3>7. due \in Nat
      <4>1. old \in Value
        BY <2>4
      <4> HIDE DEF old
      <4> QED BY <4>1, OccursShort
    <3>8. r = ownNew + refsNew
      <4> HIDE DEF own, ownNew, refs, refsNew, held, lost, due, all, left, none, r
      <4> QED BY <3>1, <3>2, <3>3, <3>4, <3>5, <3>6, <3>7
    <3> QED BY <2>3, <3>8
  <2>8. Balanced'
    BY <2>7 DEF Balanced
  <2>9. FreeClean' /\ TextChars'
    BY <2>3 DEF Inv, Exact, FreeClean, TextChars
  <2>10. FreeingZero'
    BY <1>1, <2>3 DEF FreeingZero, Settled
  <2>11. AssignHeld'
    BY <2>2, <2>3 DEF AssignHeld, Top, new
  <2> QED BY <2>8, <2>9, <2>10, <2>11 DEF Exact
<1> QED BY <1>2, <1>3 DEF Sta

\* The container that STA changes, c, has no item k until the new one, x, is stored.
SetsItem(c, i, new, k, x) ==
  /\ pending = <<>> /\ freeing = <<>> /\ assigning # NoAssign /\ 3 <= Len(stack)
  /\ c = Top(1) /\ i = Top(2) /\ new = Top(3)
  /\ c \in Addr /\ i \in Value /\ new \in Value /\ tag[c] \notin {"free", "slice"}
  /\ k \in 1..Len(items[c]) /\ x \in Value /\ (x \in Addr => tag[x] # "free")
  /\ tag[c] = "text" => x = Imm
  /\ rc' = Counted(<<x>>) /\ Replace(3, c) /\ pending' = <<i, new>>
  /\ assigning' = NoAssign /\ UNCHANGED <<tag, win, num, freeing>>
  /\ items' = [items EXCEPT ![c][k] = x]
  /\ items' = [items EXCEPT ![c] = [items[c] EXCEPT ![k] = x]]
  /\ [items[c] EXCEPT ![k] = Imm] \in Seq(Value) /\ [items[c] EXCEPT ![k] = x] \in Seq(Value)
  /\ items[c][k] \in Value
  /\ ChangesOnly(c, Held, Held')
  /\ Held[c] = [items[c] EXCEPT ![k] = Imm] /\ Held'[c] = [items[c] EXCEPT ![k] = x]

LEMMA SetItemParts ==
  ASSUME Inv, TypeOK', SetItem
  PROVE  \E c, i, new, k, x : SetsItem(c, i, new, k, x)
<1> PICK c, i, new : c = Top(1) /\ i = Top(2) /\ new = Top(3)
  OBVIOUS
<1> PICK x, k : x = assigning.item /\ k = assigning.index
  OBVIOUS
<1> PICK left, its : left = [items[c] EXCEPT ![k] = Imm] /\ its = [items[c] EXCEPT ![k] = x]
  OBVIOUS
<1>1. /\ pending = <<>> /\ freeing = <<>> /\ assigning # NoAssign
      /\ 3 <= Len(stack) /\ c \in Addr /\ x \in {Imm, new} /\ (tag[c] = "text" => x = Imm)
  BY DEF SetItem, Inv, AssignOK, Exact, AssignHeld
<1>2. /\ c \in Value /\ i \in Value /\ new \in Value /\ tag[c] \notin {"free", "slice"}
      /\ new \in Addr => tag[new] # "free"
  <2>1. Len(stack) \in Nat
    BY LenProperties DEF Inv, TypeOK
  <2>2. 1 \in 1..Len(stack) /\ 2 \in 1..Len(stack) /\ 3 \in 1..Len(stack)
    BY <1>1, <2>1
  <2>3. tag[c] # "slice"
    BY <1>1 DEF Inv, AssignOK
  <2> QED BY <1>1, <2>2, <2>3, AliveOperand
<1>3. k \in 1..Len(items[c]) /\ x \in Value /\ (x \in Addr => tag[x] # "free")
  <2>1. Imm \in Value /\ Imm \notin Addr
    BY AddrAssumption DEF Value
  <2>2. k \in 1..Len(items[c])
    BY <1>1, <1>2 DEF Inv, AssignOK
  <2> QED BY <1>1, <1>2, <2>1, <2>2
<1>4. /\ rc' = Counted(<<x>>) /\ items' = [items EXCEPT ![c][k] = x]
      /\ Replace(3, c) /\ pending' = <<i, new>> /\ assigning' = NoAssign
      /\ UNCHANGED <<tag, win, num, freeing>>
  <2>1. \A v \in {c, x} \ {Imm} : tag[v] # "free"
    BY <1>2, <1>3 DEF Value
  <2> QED BY <2>1 DEF SetItem, Release
<1>5. items' = [items EXCEPT ![c] = its]
  BY <1>1, <1>4 DEF Inv, TypeOK, HeapOK
<1>6. left \in Seq(Value) /\ its \in Seq(Value) /\ items[c][k] \in Value
  <2>1. Imm \in Value
    BY DEF Value
  <2> QED BY <1>1, <1>3, <2>1, ItemOut DEF Inv
<1>7. /\ ChangesOnly(c, Held, Held') /\ Held[c] = left /\ Held'[c] = its
  <2>1. Held = [y \in Addr |-> IF y = c THEN left ELSE items[y]]
    BY <1>1 DEF Held, BeingFreed
  <2>2. Held' = items'
    BY <1>1, <1>4, HeldSettledPrimed DEF AllHeld
  <2>3. Held \in [Addr -> Seq(Value)] /\ Held' \in [Addr -> Seq(Value)]
    BY HeldType, HeldTypePrimed DEF Inv, HeldOK
  <2>4. items \in [Addr -> Seq(Value)]
    BY DEF Inv, TypeOK, HeapOK
  <2>5. Held[c] = left /\ \A y \in Addr \ {c} : Held[y] = items[y]
    BY <1>1, <2>1
  <2>6. Held'[c] = its /\ \A y \in Addr \ {c} : Held'[y] = items[y]
    BY <1>1, <1>5, <2>2, <2>4
  <2> QED BY <2>3, <2>5, <2>6 DEF ChangesOnly
<1>8. SetsItem(c, i, new, k, x)
  BY <1>1, <1>2, <1>3, <1>4, <1>5, <1>6, <1>7 DEF SetsItem
<1> QED BY <1>8

\* The operands are taken off the stack, and the container owns the new item.
LEMMA SetItemExact ==
  ASSUME Inv, TypeOK', SetItem PROVE Exact'
<1> PICK c, i, new, k, x : SetsItem(c, i, new, k, x)
  BY SetItemParts
<1> PICK left, its : left = [items[c] EXCEPT ![k] = Imm] /\ its = [items[c] EXCEPT ![k] = x]
  OBVIOUS
<1>1. /\ pending = <<>> /\ freeing = <<>> /\ assigning # NoAssign /\ 3 <= Len(stack)
      /\ c \in Addr /\ tag[c] # "free" /\ (tag[c] = "text" => x = Imm)
  BY DEF SetsItem
<1>2. c \in Value /\ i \in Value /\ new \in Value
  BY DEF SetsItem, Value
<1>3. k \in 1..Len(items[c]) /\ x \in Value /\ (x \in Addr => tag[x] # "free")
  BY DEF SetsItem
<1>4. /\ Replace(3, c) /\ pending' = <<i, new>> /\ assigning' = NoAssign
      /\ UNCHANGED <<tag, freeing>>
  BY DEF SetsItem
<1>5. \A y \in Addr : rc'[y] = rc[y] + Occurs(<<x>>, y)
  BY DEF SetsItem, Counted
<1>6. items' = [items EXCEPT ![c] = its]
  BY DEF SetsItem
<1>7. /\ left \in Seq(Value) /\ its \in Seq(Value)
      /\ \A y \in Addr : Occurs(left, y) + Occurs(<<items[c][k]>>, y)
                           = Occurs(items[c], y) + Occurs(<<Imm>>, y)
      /\ \A y \in Addr : Occurs(its, y) + Occurs(<<items[c][k]>>, y)
                           = Occurs(items[c], y) + Occurs(<<x>>, y)
      /\ items[c][k] \in Value
  <2>1. Imm \in Value
    BY DEF Value
  <2> QED BY <1>1, <1>3, <2>1, ItemOut DEF Inv
<1>8. ChangesOnly(c, Held, Held') /\ Held[c] = left /\ Held'[c] = its
  BY DEF SetsItem
<1>9. ASSUME NEW y \in Addr PROVE rc'[y] = Owned(y)' + HeapRefs(y)'
  <2> DEFINE own == Owned(y)      ownNew == Owned(y)'
             refs == HeapRefs(y)  refsNew == HeapRefs(y)'
             gone == Occurs(Operands(3), y)  due == Occurs(pending', y)
             before == Occurs(left, y)       after == Occurs(its, y)
             counted == Occurs(<<x>>, y)     none == Occurs(<<Imm>>, y)
             old == Occurs(<<items[c][k]>>, y)   all == Occurs(items[c], y)
             kept == Occurs(<<c>>, y)        empty == Occurs(<<>>, y)
             r == rc[y]           rNew == rc'[y]
             nI == Occurs(<<i>>, y)   nNew == Occurs(<<new>>, y)
  <2>1. ownNew + gone = own + kept + empty + due
    <3> DEFINE t == <<c>>   d == <<>>
    <3>1. Takes(3, t, d) /\ t \in Seq(Value) /\ d \in Seq(Value)
      BY <1>1, <1>2, <1>4, TakesAre DEF Inv
    <3>2. TypeOK
      BY DEF Inv
    <3> HIDE DEF t, d
    <3>3. ownNew + gone = own + Occurs(t, y) + Occurs(d, y) + due
      BY <1>1, <3>1, <3>2, OwnedChange
    <3> QED BY <3>3 DEF t, d
  <2>2. gone = nNew + nI + kept /\ due = nI + nNew
    <3>1. Operands(3) = <<new, i, c>>
      <4>1. c = Top(1) /\ i = Top(2) /\ new = Top(3) /\ 3 <= Len(stack) /\ TypeOK
        BY DEF SetsItem, Inv
      <4>2. Operands(3) = <<Top(3), Top(2), Top(1)>>
        BY <4>1, OperandsAre
      <4> QED BY <4>1, <4>2
    <3>2. Occurs(<<new, i, c>>, y) = Occurs(<<new>>, y) + Occurs(<<i>>, y) + Occurs(<<c>>, y)
      BY <1>2, OccursThree
    <3>3. Occurs(<<i, new>>, y) = Occurs(<<i>>, y) + Occurs(<<new>>, y)
      BY <1>2, OccursShort
    <3> QED BY <1>4, <3>1, <3>2, <3>3
  <2>3. refsNew + before = refs + after
    <3> DEFINE h == Held   g == Held'
    <3>1. ChangesOnly(c, h, g) /\ before = Occurs(h[c], y) /\ after = Occurs(g[c], y)
      BY <1>8
    <3>2. refsNew = RefsIn(g, y) /\ refs = RefsIn(h, y)
      BY HeapRefsIn
    <3> HIDE DEF h, g, refs, refsNew, before, after
    <3> QED BY <1>1, <3>1, <3>2, ItemsChange
  <2>4. before + old = all + none /\ after + old = all + counted
    BY <1>7
  <2>5. none = 0 /\ empty = 0
    <3>1. Imm # y
      BY AddrAssumption
    <3> QED BY <3>1, OccursSingle, OccursEmpty
  <2>6. rNew = r + counted /\ r = own + refs
    BY <1>5 DEF Inv, Exact, Balanced
  <2>7. own \in Nat /\ refs \in Nat /\ ownNew \in Nat /\ refsNew \in Nat
    BY Numbers, NumbersPrimed
  <2>8. kept \in Nat /\ nI \in Nat /\ nNew \in Nat /\ counted \in Nat /\ old \in Nat
    <3> DEFINE item == items[c][k]
    <3>1. item \in Value
      BY <1>7
    <3> HIDE DEF item
    <3>2. /\ Occurs(<<c>>, y) \in Nat /\ Occurs(<<i>>, y) \in Nat /\ Occurs(<<new>>, y) \in Nat
          /\ Occurs(<<x>>, y) \in Nat /\ Occurs(<<item>>, y) \in Nat
      BY <1>2, <1>3, <3>1, OccursShort
    <3> QED BY <3>2 DEF item
  <2>9. before \in Nat /\ after \in Nat /\ all \in Nat
    <3>1. items[c] \in Seq(Value)
      BY <1>1 DEF Inv, TypeOK, HeapOK
    <3> QED BY <1>7, <3>1, OccursNat
  <2>10. rNew = ownNew + refsNew
    <3> HIDE DEF own, ownNew, refs, refsNew, gone, due, before, after, counted, none, old,
                 all, kept, empty, r, rNew, nI, nNew
    <3> QED BY <2>1, <2>2, <2>3, <2>4, <2>5, <2>6, <2>7, <2>8, <2>9
  <2> QED BY <2>10
<1>10. Balanced'
  BY <1>9 DEF Balanced
<1>11. FreeClean'
  <2> SUFFICES ASSUME NEW y \in Addr, tag[y] = "free" PROVE rc'[y] = 0 /\ items'[y] = <<>>
    BY <1>4 DEF FreeClean
  <2>1. rc[y] = 0 /\ items[y] = <<>>
    BY DEF Inv, Exact, FreeClean
  <2>2. Occurs(<<x>>, y) = 0
    <3>1. x # y
      BY <1>3
    <3> QED BY <3>1, OccursSingle
  <2>3. items'[y] = items[y]
    BY <1>1, <1>6 DEF Inv, TypeOK, HeapOK
  <2> QED BY <1>5, <2>1, <2>2, <2>3
<1>12. TextChars'
  <2> SUFFICES ASSUME NEW y \in Addr, tag[y] = "text", NEW j \in 1..Len(items'[y])
               PROVE  items'[y][j] = Imm
    BY <1>4 DEF TextChars
  <2>1. CASE y # c
    BY <1>6, <2>1 DEF Inv, TypeOK, HeapOK, Exact, TextChars
  <2>2. CASE y = c
    <3>1. items'[y] = its /\ x = Imm /\ items[c] \in Seq(Value)
      BY <1>1, <1>6, <2>2 DEF Inv, TypeOK, HeapOK
    <3>2. j \in 1..Len(items[c]) /\ its[j] = IF j = k THEN x ELSE items[c][j]
      <4> QED BY <1>3, <3>1, ExceptSeq
    <3>3. items[c][j] = Imm
      BY <1>1, <2>2, <3>2 DEF Inv, Exact, TextChars
    <3> QED BY <3>1, <3>2, <3>3
  <2> QED BY <2>1, <2>2
<1>13. FreeingZero' /\ AssignHeld'
  BY <1>1, <1>4 DEF FreeingZero, AssignHeld
<1> QED BY <1>10, <1>11, <1>12, <1>13 DEF Exact

\* The bounds are popped and forgotten.
LEMMA SliceExact ==
  ASSUME Inv, TypeOK', NEW a \in Addr, NEW hasFrom \in BOOLEAN, NEW hasTo \in BOOLEAN,
         NEW from \in Int, NEW to \in Int, Slice(a, hasFrom, hasTo, from, to)
  PROVE  Exact'
<1> DEFINE n == (IF hasFrom THEN 1 ELSE 0) + (IF hasTo THEN 1 ELSE 0)
           c == Top(n + 1)
           root == Root(c)
<1>1. /\ n \in Nat /\ n + 1 \in Nat /\ n + 1 \in 1..(n + 1) /\ Handler("SLICE", n + 1)
      /\ pending = <<>> /\ Quiet
  BY HandlerQuiet DEF Slice
<1>2. CASE Fatal \/ Undefined
  BY <1>1, <1>2, StopExact
<1>3. CASE /\ Sized(c) /\ ~Orphan(c)
           /\ Alloc(a, "slice", <<root>>, Window(c, from, to), NoNum, <<root>>)
           /\ stack' = Append(Below(n + 1), a)
           /\ Leak(Operands(n)) /\ Release(<<c>>) /\ UNCHANGED status
  <2> HIDE DEF n
  <2>1. /\ n + 1 <= Len(stack) /\ Len(stack) \in Nat /\ c \in Value /\ pending = <<>> /\ Quiet
        /\ stack \in Seq(Value) /\ n <= Len(stack)
    <3>1. n + 1 <= Len(stack) /\ Len(stack) \in Nat /\ c \in Value /\ pending = <<>> /\ Quiet
      BY <1>1, HandlerParts, HandlerQuiet DEF Inv
    <3> QED BY <1>1, <3>1 DEF Inv, TypeOK
  <2>2. Operands(n) \in Seq(Value) /\ Operands(n + 1) = <<c>> \o Operands(n)
    <3>1. Operands(n) \in Seq(Value)
      BY <1>1, <2>1, AliveOperands
    <3>2. /\ Len(stack) - n \in 1..Len(stack) /\ Len(stack) \in (Len(stack) - n)..Len(stack)
          /\ Len(stack) + 1 - (n + 1) = Len(stack) - n
          /\ (Len(stack) - n) + 1 = Len(stack) + 1 - n
      BY <1>1, <2>1
    <3>3. SubSeq(stack, Len(stack) - n, Len(stack))
            = <<stack[Len(stack) - n]>> \o SubSeq(stack, (Len(stack) - n) + 1, Len(stack))
      BY <2>1, <3>2, SubSeqRecursiveFirst
    <3> QED BY <3>1, <3>2, <3>3 DEF Operands, Top
  <2>3. root \in Addr /\ root \in Value /\ Alive(<<root>>)
    <3>1. root \in Addr
      BY <1>3, SizedParts DEF Inv
    <3>2. tag[root] # "free"
      BY <1>3, <3>1 DEF Sized, Orphan, Root, Kind
    <3> HIDE DEF root
    <3> QED BY <3>1, <3>2, AliveOne DEF Value
  <2>4. Takes(n + 1, <<a>>, Operands(n))
    BY <1>1, <1>3, <2>1, TakesAre DEF Inv, Value
  <2>5. EvenItems(<<root>>, <<a>>, Operands(n + 1), <<root>>, <<a>>, Operands(n), pending')
    <3> SUFFICES ASSUME NEW y \in Addr
                 PROVE  Occurs(<<root>>, y) + Occurs(<<a>>, y) + Occurs(Operands(n + 1), y)
                          = Occurs(<<root>>, y) + Occurs(<<a>>, y) + Occurs(Operands(n), y)
                              + Occurs(<<c>>, y)
      BY <1>3 DEF EvenItems, Release
    <3> DEFINE nRoot == Occurs(<<root>>, y)  nNew == Occurs(<<a>>, y)
               nAll == Occurs(Operands(n + 1), y)
               nLost == Occurs(Operands(n), y)
               nC == Occurs(<<c>>, y)
    <3>1. <<c>> \in Seq(Value) /\ <<root>> \in Seq(Value) /\ <<a>> \in Seq(Value)
      BY <2>1, <2>3 DEF Value
    <3>2. nRoot \in Nat /\ nNew \in Nat /\ nC \in Nat /\ nLost \in Nat
      BY <2>2, <3>1, OccursNat
    <3>3. nAll = nC + nLost
      <4>1. Occurs(<<c>> \o Operands(n), y) = Occurs(<<c>>, y) + Occurs(Operands(n), y)
        <5> DEFINE s == <<c>>
                   t == Operands(n)
        <5>1. s \in Seq(Value) /\ t \in Seq(Value)
          BY <2>2, <3>1
        <5>2. Occurs(s \o t, y) = Occurs(s, y) + Occurs(t, y)
          <6> HIDE DEF s, t
          <6> QED BY <5>1, OccursConcat
        <5> QED BY <5>2
      <4> QED BY <2>2, <4>1
    <3>4. nRoot + nNew + nAll = nRoot + nNew + nLost + nC
      <4> HIDE DEF nRoot, nNew, nAll, nLost, nC
      <4> QED BY <3>2, <3>3
    <3> QED BY <3>4
  <2> DEFINE its == <<root>>
             new == <<a>>
             w == Window(c, from, to)
  <2>6. /\ its \in Seq(Value) /\ new \in Seq(Value) /\ Alive(its)
        /\ "slice" \in Tag \ {"free"} /\ CharsIn("slice", its)
        /\ Alloc(a, "slice", its, w, NoNum, its)
    BY <1>3, <2>3 DEF Tag, CharsIn, Value
  <2>7. /\ Takes(n + 1, new, Operands(n))
        /\ EvenItems(its, <<a>>, Operands(n + 1), its, new, Operands(n), pending')
    BY <2>4, <2>5
  <2> HIDE DEF its, new, w, root, c
  <2> QED BY <2>1, <2>2, <2>6, <2>7, Making
<1> QED BY <1>2, <1>3 DEF Slice

-----------------------------------------------------------------------------
(* Operators.                                                              *)

LEMMA ConsumedMoves ==
  ASSUME TypeOK, NEW name, Handler(name, 2), Consumed, NEW y \in Addr
  PROVE  /\ Occurs(pending', y) = Occurs(Operands(2), y)
         /\ Occurs(Operands(2), y) = Occurs(<<Top(2)>>, y) + Occurs(<<Top(1)>>, y)
         /\ Occurs(Operands(2), y) \in Nat
         /\ Occurs(<<Top(2)>>, y) \in Nat /\ Occurs(<<Top(1)>>, y) \in Nat
<1> DEFINE u == Top(1)
           v == Top(2)
<1>1. 2 <= Len(stack) /\ u \in Value /\ v \in Value /\ Operands(2) \in Seq(Value)
  BY HandlerParts, HandlerQuiet
<1>2. pending' = <<u, v>> /\ Operands(2) = <<v, u>>
  BY <1>1, OperandsAre DEF Consumed, Release
<1>3. Occurs(<<u, v>>, y) = Occurs(<<u>>, y) + Occurs(<<v>>, y)
  BY <1>1, OccursShort
<1>4. Occurs(<<v, u>>, y) = Occurs(<<v>>, y) + Occurs(<<u>>, y)
  BY <1>1, OccursShort
<1>5. Occurs(<<u>>, y) \in Nat /\ Occurs(<<v>>, y) \in Nat
  BY <1>1, OccursShort
<1>6. Occurs(<<v, u>>, y) \in Nat /\ Occurs(<<u, v>>, y) = Occurs(<<v, u>>, y)
  BY <1>3, <1>4, <1>5
<1> QED BY <1>2, <1>4, <1>5, <1>6

\* The result is a new float.
LEMMA FloatResult ==
  ASSUME Inv, TypeOK', NEW name, Handler(name, 2), NEW a \in Addr, NEW f \in FloatVal,
         Alloc(a, "float", <<>>, NoWin, f, <<>>), Replace(2, a), Consumed
  PROVE  Exact'
<1>1. 2 <= Len(stack) /\ pending = <<>> /\ Quiet
  BY HandlerParts, HandlerQuiet DEF Inv
<1>2. Makes(a, "float", <<>>, <<>>)
  BY AliveEmpty DEF Makes, Tag, CharsIn
<1>3. Moves(<<>>, 2, <<>>, pending')
  BY ConsumedMoves DEF Moves, Inv
<1> QED BY <1>1, <1>2, <1>3, MakeExact

LEMMA MixedBinopExact ==
  ASSUME Inv, TypeOK', NEW a \in Addr, NEW f \in FloatVal, MixedBinop(a, f) PROVE Exact'
BY FloatResult DEF MixedBinop

\* One operand is kept and takes the result, the other one is released.
LEMMA ReuseExact ==
  ASSUME Inv, TypeOK', NEW name, Handler(name, 2), NEW kept \in Value, NEW gone \in Value,
         \/ kept = Top(1) /\ gone = Top(2)
         \/ kept = Top(2) /\ gone = Top(1),
         Replace(2, kept), Release(<<gone>>), UNCHANGED <<tag, rc, items>>
  PROVE  Exact'
<1>1. 2 <= Len(stack) /\ pending = <<>> /\ Quiet /\ Top(1) \in Value /\ Top(2) \in Value
  BY HandlerParts, HandlerQuiet DEF Inv
<1>2. Counts(<<>>) /\ Alive(<<>>) /\ <<>> \in Seq(Value)
  BY CountsAre, AliveEmpty DEF Inv
<1>3. ASSUME NEW y \in Addr
      PROVE  Occurs(<<>>, y) + Occurs(Operands(2), y) = Occurs(<<kept>>, y) + Occurs(pending', y)
  <2>1. Operands(2) = <<Top(2), Top(1)>> /\ pending' = <<gone>>
    BY <1>1, OperandsAre DEF Inv, Release
  <2>2. Occurs(<<Top(2), Top(1)>>, y) = Occurs(<<Top(2)>>, y) + Occurs(<<Top(1)>>, y)
    BY <1>1, OccursShort
  <2>3. Occurs(<<Top(2)>>, y) \in Nat /\ Occurs(<<Top(1)>>, y) \in Nat /\ Occurs(<<>>, y) = 0
    BY <1>1, OccursShort
  <2>4. CASE kept = Top(1) /\ gone = Top(2)
    <3>1. /\ Occurs(<<kept>>, y) = Occurs(<<Top(1)>>, y)
          /\ Occurs(pending', y) = Occurs(<<Top(2)>>, y)
          /\ Occurs(Operands(2), y) = Occurs(<<Top(2)>>, y) + Occurs(<<Top(1)>>, y)
      BY <2>1, <2>2, <2>4
    <3> QED BY <2>3, <3>1
  <2>5. CASE kept = Top(2) /\ gone = Top(1)
    <3>1. /\ Occurs(<<kept>>, y) = Occurs(<<Top(2)>>, y)
          /\ Occurs(pending', y) = Occurs(<<Top(1)>>, y)
          /\ Occurs(Operands(2), y) = Occurs(<<Top(2)>>, y) + Occurs(<<Top(1)>>, y)
      BY <2>1, <2>2, <2>5
    <3> QED BY <2>3, <3>1
  <2> QED BY <2>4, <2>5
<1> QED BY <1>1, <1>2, <1>3, ReplaceExact

LEMMA FloatBinopExact ==
  ASSUME Inv, TypeOK', NEW a \in Addr, NEW f \in FloatVal, FloatBinop(a, f) PROVE Exact'
<1> DEFINE right == Top(1)
           left == Top(2)
           Reuse(kept, gone) ==
             /\ num' = [num EXCEPT ![kept] = f]
             /\ Replace(2, kept) /\ Release(<<gone>>)
             /\ UNCHANGED <<tag, rc, items, win>>
<1>1. right \in Value /\ left \in Value /\ Handler("FLOATOP", 2)
  BY HandlerParts, HandlerQuiet DEF Inv, FloatBinop
<1>2. CASE Reuse(left, right) \/ Reuse(right, left)
  BY <1>1, <1>2, ReuseExact
<1>3. CASE Alloc(a, "float", <<>>, NoWin, f, <<>>) /\ Replace(2, a) /\ Consumed
  BY <1>1, <1>3, FloatResult
<1> HIDE DEF left, right
<1>4. Reuse(left, right) \/ Reuse(right, left)
      \/ (Alloc(a, "float", <<>>, NoWin, f, <<>>) /\ Replace(2, a) /\ Consumed)
  BY DEF FloatBinop, left, right
<1> QED BY <1>2, <1>3, <1>4

LEMMA DivideByZeroExact == ASSUME Inv, TypeOK', DivideByZero PROVE Exact'
<1>1. 2 <= Len(stack) /\ pending = <<>> /\ Quiet
  BY HandlerParts, HandlerQuiet DEF Inv, DivideByZero
<1> QED BY <1>1, FailExact DEF DivideByZero

LEMMA NegateExact ==
  ASSUME Inv, TypeOK', NEW a \in Addr, NEW f \in FloatVal, Negate(a, f) PROVE Exact'
<1> DEFINE v == Top(1)
<1>1. /\ 1 <= Len(stack) /\ v \in Value /\ pending = <<>> /\ Quiet /\ Imm \in Value
      /\ <<>> \in Seq(Value)
  BY HandlerParts, HandlerQuiet DEF Inv, Negate, Value
<1>2. Operands(1) = <<v>> /\ Alive(<<>>)
  BY <1>1, OperandsAre, AliveEmpty DEF Inv
<1>3. CASE Fatal
  BY <1>1, <1>3, StopExact
<1>4. CASE v = Imm /\ Replace(1, Imm) /\ UNCHANGED <<heapVars, pending>>
  <2>1. Counts(<<>>) /\ UNCHANGED <<tag, items>>
    BY <1>4, CountsAre DEF Inv, heapVars
  <2>2. ASSUME NEW y \in Addr
        PROVE  Occurs(<<>>, y) + Occurs(Operands(1), y) = Occurs(<<Imm>>, y) + Occurs(pending', y)
    <3>1. pending' = <<>> /\ Operands(1) = <<Imm>>
      BY <1>1, <1>2, <1>4
    <3>2. Occurs(<<>>, y) = 0 /\ Occurs(<<Imm>>, y) \in Nat
      BY <1>1, OccursShort
    <3> QED BY <3>1, <3>2
  <2> QED BY <1>1, <1>2, <1>4, <2>1, <2>2, ReplaceExact
<1>5. CASE /\ Alloc(a, "float", <<>>, NoWin, f, <<>>)
           /\ Replace(1, a) /\ Release(<<v>>)
  <2>1. Makes(a, "float", <<>>, <<>>)
    BY <1>1, <1>2, <1>5 DEF Makes, Tag, CharsIn
  <2>2. Moves(<<>>, 1, <<>>, pending')
    BY <1>2, <1>5 DEF Moves, Release
  <2> QED BY <1>1, <1>5, <2>1, <2>2, MakeExact
<1> QED BY <1>3, <1>4, <1>5 DEF Negate

\* What a container that is not stale shows.
LEMMA ShownHeld ==
  ASSUME Inv, Quiet, NEW v, Sized(v), ~Stale(v)
  PROVE  /\ Shown(v) \in Seq(Value) /\ Alive(Shown(v))
         /\ tag[Root(v)] = "text" => \A i \in 1..Len(Shown(v)) : Shown(v)[i] = Imm
<1> DEFINE s == Shown(v)
           old == items[Root(v)]
<1>1. /\ s \in Seq(Value) /\ Len(s) = Length(v) /\ Hi(v) <= Len(old)
      /\ \A i \in 1..Length(v) : s[i] = old[Lo(v) + i]
  BY ShownType DEF Inv
<1>2. /\ Root(v) \in Addr /\ Lo(v) \in Nat /\ Hi(v) \in Nat /\ Length(v) \in Nat
      /\ Hi(v) = Lo(v) + Length(v) /\ Len(old) \in Nat
  BY SizedParts DEF Inv
<1>3. ASSUME NEW i \in 1..Len(s) PROVE Lo(v) + i \in 1..Len(old) /\ s[i] = old[Lo(v) + i]
  BY <1>1, <1>2
<1>4. \A i \in 1..Len(s) : s[i] \in Addr => tag[s[i]] # "free"
  BY <1>2, <1>3, AliveHeld
<1>5. tag[Root(v)] = "text" => \A i \in 1..Len(s) : s[i] = Imm
  BY <1>2, <1>3 DEF Inv, Exact, TextChars
<1>6. Alive(s)
  <2> HIDE DEF s
  <2> QED BY <1>1, <1>4, AliveAre
<1> QED BY <1>1, <1>5, <1>6

LEMMA AliveConcat ==
  ASSUME NEW s \in Seq(Value), NEW t \in Seq(Value), Alive(s), Alive(t)
  PROVE  s \o t \in Seq(Value) /\ Alive(s \o t)
<1>1. s \o t \in Seq(Value)
  BY ConcatProperties
<1>2. ASSUME NEW y \in Addr, tag[y] = "free" PROVE Occurs(s \o t, y) = 0
  <2>1. Occurs(s \o t, y) = Occurs(s, y) + Occurs(t, y)
    BY OccursConcat
  <2>2. Occurs(s, y) = 0 /\ Occurs(t, y) = 0
    BY <1>2 DEF Alive
  <2> QED BY <2>1, <2>2
<1> QED BY <1>1, <1>2 DEF Alive

LEMMA CharsConcat ==
  ASSUME NEW s \in Seq(Value), NEW t \in Seq(Value),
         \A i \in 1..Len(s) : s[i] = Imm, \A i \in 1..Len(t) : t[i] = Imm
  PROVE  \A i \in 1..Len(s \o t) : (s \o t)[i] = Imm
BY ConcatProperties, LenProperties

LEMMA AddExact == ASSUME Inv, TypeOK', NEW a \in Addr, Add(a) PROVE Exact'
<1> DEFINE right == Top(1)
           left == Top(2)
           l == Shown(left)
           r == Shown(right)
           joined == l \o r
           joins == /\ Kind(left) \in {"tuple", "text", "slice"} /\ Kind(left) = Kind(right)
                    /\ RootTag(left) = RootTag(right)
                    /\ ~(Kind(left) = "slice" /\ RootTag(left) = "text")
<1>1. CASE Fatal \/ Undefined
  BY <1>1, HandlerQuiet, StopExact DEF Add
<1>2. CASE /\ joins /\ ~Stale(left) /\ ~Stale(right)
           /\ Alloc(a, RootTag(left), joined, NoWin, NoNum, joined)
           /\ Replace(2, a) /\ Consumed
  <2>1. 2 <= Len(stack) /\ pending = <<>> /\ Quiet /\ Handler("ADD", 2)
    BY HandlerParts, HandlerQuiet DEF Inv, Add
  <2>2. Sized(left) /\ Sized(right)
    BY <1>2 DEF Sized
  <2>3. /\ l \in Seq(Value) /\ Alive(l) /\ r \in Seq(Value) /\ Alive(r)
        /\ tag[Root(left)] = "text" => \A i \in 1..Len(l) : l[i] = Imm
        /\ tag[Root(right)] = "text" => \A i \in 1..Len(r) : r[i] = Imm
    BY <1>2, <2>1, <2>2, ShownHeld
  <2>4. RootTag(left) \in {"text", "tuple"}
    BY <1>2, <2>2 DEF Stale, Orphan, RootTag, Root, Kind, Sized
  <2>5. RootTag(left) = "text" => tag[Root(left)] = "text" /\ tag[Root(right)] = "text"
    BY <1>2, <2>2 DEF RootTag, Root, Kind, Sized
  <2>6. joined \in Seq(Value) /\ Alive(joined)
    <3> HIDE DEF l, r
    <3> QED BY <2>3, AliveConcat
  <2>7. CharsIn(RootTag(left), joined)
    <3> SUFFICES ASSUME RootTag(left) = "text"
                 PROVE  \A i \in 1..Len(joined) : joined[i] = Imm
      BY DEF CharsIn
    <3>1. (\A i \in 1..Len(l) : l[i] = Imm) /\ (\A i \in 1..Len(r) : r[i] = Imm)
      BY <2>3, <2>5
    <3> HIDE DEF l, r
    <3> QED BY <2>3, <3>1, CharsConcat
  <2> DEFINE k == RootTag(left)
  <2>8. Makes(a, k, joined, joined)
    <3>1. Alloc(a, k, joined, NoWin, NoNum, joined) /\ k \in Tag \ {"free"}
      BY <1>2, <2>4 DEF Tag
    <3> HIDE DEF joined, k
    <3> QED BY <2>6, <2>7, <3>1 DEF Makes, k
  <2>9. Moves(joined, 2, joined, pending')
    <3> SUFFICES ASSUME NEW y \in Addr
                 PROVE  Occurs(joined, y) + Occurs(Operands(2), y)
                          = Occurs(joined, y) + Occurs(pending', y)
      BY DEF Moves
    <3>1. Occurs(pending', y) = Occurs(Operands(2), y)
      BY <1>2, <2>1, ConsumedMoves DEF Inv
    <3> QED BY <3>1
  <2> HIDE DEF joined, k
  <2> QED BY <1>2, <2>1, <2>8, <2>9, MakeExact
<1> QED BY <1>1, <1>2 DEF Add

\* Every item of the copies is an item of the original.
LEMMA CopiesPart ==
  ASSUME NEW s \in Seq(Value), NEW n \in Nat
  PROVE  /\ Copies(s, n) \in Seq(Value)
         /\ \A i \in 1..Len(Copies(s, n)) : \E j \in 1..Len(s) : Copies(s, n)[i] = s[j]
<1> DEFINE m == n * Len(s)
           t == Copies(s, n)
<1>1. Len(s) \in Nat /\ m \in Nat
  BY LenProperties
<1>2. t \in Seq(Value)
  BY CopiesType
<1>3. Len(t) = m /\ \A i \in 1..m : t[i] = s[((i - 1) % Len(s)) + 1]
  <2>1. t = [i \in 1..m |-> s[((i - 1) % Len(s)) + 1]]
    BY DEF Copies
  <2>2. DOMAIN t = 1..m /\ \A i \in 1..m : t[i] = s[((i - 1) % Len(s)) + 1]
    <3> HIDE DEF m, t
    <3> QED BY <2>1
  <2>3. Len(t) = m
    <3> HIDE DEF m, t
    <3> QED BY <1>1, <1>2, <2>2, LenProperties
  <2> QED BY <2>2, <2>3
<1>4. ASSUME NEW i \in 1..m PROVE ((i - 1) % Len(s)) + 1 \in 1..Len(s)
  <2>1. Len(s) # 0
    <3>1. Len(s) = 0 => m = 0
      OBVIOUS
    <3> QED BY <1>1, <1>4, <3>1
  <2>2. (i - 1) % Len(s) \in 0..(Len(s) - 1)
    <3> HIDE DEF m
    <3> QED BY <1>1, <1>4, <2>1
  <2> HIDE DEF m
  <2> QED BY <1>1, <2>2
<1>5. ASSUME NEW i \in 1..Len(t) PROVE \E j \in 1..Len(s) : t[i] = s[j]
  <2>1. i \in 1..m
    BY <1>3, <1>5
  <2> HIDE DEF m, t
  <2> QED BY <1>3, <1>4, <2>1
<1> HIDE DEF t
<1> QED BY <1>2, <1>5 DEF t

LEMMA RepeatExact ==
  ASSUME Inv, TypeOK', NEW a \in Addr, NEW n \in Nat, Repeat(a, n) PROVE Exact'
<1> DEFINE right == Top(1)
           left == Top(2)
           c == IF left = Imm THEN right ELSE left
           its == Copies(items[c], n)
           repeats == \/ Kind(left) \in {"tuple", "text"} /\ right = Imm
                      \/ left = Imm /\ Kind(right) = "text"
           twice == Kind(left) = "tuple"
           s == IF twice THEN its \o its ELSE its
           d == IF twice THEN its ELSE <<>>
<1>1. CASE Fatal
  BY <1>1, HandlerQuiet, StopExact DEF Repeat
<1>2. CASE /\ repeats
           /\ Alloc(a, Kind(c), its, NoWin, NoNum, s)
           /\ stack' = Append(Below(2), a)
           /\ Leak(d)
           /\ Consumed /\ UNCHANGED status
  <2>1. /\ 2 <= Len(stack) /\ Len(stack) \in Nat /\ pending = <<>> /\ Quiet /\ 2 \in Nat
        /\ Handler("REPEAT", 2)
    BY HandlerParts, HandlerQuiet DEF Inv, Repeat
  <2>2. c \in Addr /\ Kind(c) \in {"tuple", "text"} /\ Kind(c) = tag[c]
    <3>1. Imm \notin Addr
      BY AddrAssumption
    <3> QED BY <1>2, <3>1 DEF Kind
  <2> DEFINE old == items[c]
             k == Kind(c)
  <2>3. old \in Seq(Value) /\ k \in Tag \ {"free"}
    BY <2>2 DEF Inv, TypeOK, HeapOK, Tag
  <2>4. /\ its \in Seq(Value)
        /\ \A i \in 1..Len(its) : \E j \in 1..Len(old) : its[i] = old[j]
    <3>1. its = Copies(old, n)
      BY DEF old
    <3>2. /\ Copies(old, n) \in Seq(Value)
          /\ \A i \in 1..Len(Copies(old, n)) : \E j \in 1..Len(old) : Copies(old, n)[i] = old[j]
      <4> HIDE DEF old
      <4> QED BY <2>3, CopiesPart
    <3> HIDE DEF its, old
    <3> QED BY <3>1, <3>2
  <2>5. CharsIn(k, its)
    <3>1. k = "text" => \A j \in 1..Len(old) : old[j] = Imm
      BY <2>2 DEF Inv, Exact, TextChars
    <3> HIDE DEF its, old, k
    <3> QED BY <2>4, <3>1 DEF CharsIn
  <2>6. Alive(its)
    <3>1. \A y \in Addr : tag[y] = "free" => Occurs(old, y) = 0
      BY <2>1, <2>2, FreeUnowned, QuietHeld
    <3>2. ASSUME NEW y \in Addr, tag[y] = "free" PROVE Occurs(its, y) = 0
      <4>1. Occurs(old, y) = 0
        BY <3>1, <3>2
      <4> HIDE DEF its, old
      <4> QED BY <2>3, <2>4, <4>1, OccursPart
    <3> HIDE DEF its, old
    <3> QED BY <3>2 DEF Alive
  <2>7. /\ s \in Seq(Value) /\ Alive(s) /\ d \in Seq(Value)
        /\ \A y \in Addr : /\ Occurs(s, y) = Occurs(its, y) + Occurs(d, y)
                           /\ Occurs(its, y) \in Nat /\ Occurs(d, y) \in Nat
    <3> HIDE DEF its
    <3>1. CASE twice
      <4>1. s = its \o its /\ d = its
        BY <3>1
      <4>2. its \o its \in Seq(Value) /\ Alive(its \o its)
        BY <2>4, <2>6, AliveConcat
      <4>3. ASSUME NEW y \in Addr
            PROVE  /\ Occurs(its \o its, y) = Occurs(its, y) + Occurs(its, y)
                   /\ Occurs(its, y) \in Nat
        BY <2>4, OccursConcat, OccursNat
      <4> HIDE DEF s, d, twice
      <4> QED BY <2>4, <4>1, <4>2, <4>3
    <3>2. CASE ~twice
      <4>1. s = its /\ d = <<>>
        BY <3>2
      <4>2. ASSUME NEW y \in Addr PROVE Occurs(<<>>, y) = 0 /\ Occurs(its, y) \in Nat
        BY <2>4, OccursEmpty, OccursNat
      <4> HIDE DEF s, d, twice
      <4> QED BY <2>4, <2>6, <4>1, <4>2
    <3> HIDE DEF twice
    <3> QED BY <3>1, <3>2
  <2>8. Takes(2, <<a>>, d)
    <3>1. stack' = Append(Below(2), a) /\ Leak(d)
      BY <1>2
    <3> HIDE DEF d
    <3> QED BY <2>1, <3>1, TakesAre DEF Inv, Value
  <2>9. EvenItems(s, <<a>>, Operands(2), its, <<a>>, d, pending')
    <3> SUFFICES ASSUME NEW y \in Addr
                 PROVE  Occurs(s, y) + Occurs(<<a>>, y) + Occurs(Operands(2), y)
                          = Occurs(its, y) + Occurs(<<a>>, y) + Occurs(d, y) + Occurs(pending', y)
      BY DEF EvenItems
    <3> DEFINE nS == Occurs(s, y)      nNew == Occurs(<<a>>, y)
               nOps == Occurs(Operands(2), y)
               nIts == Occurs(its, y)  nLost == Occurs(d, y)
               nDue == Occurs(pending', y)
    <3>1. nDue = nOps /\ nOps \in Nat
      BY <1>2, <2>1, ConsumedMoves DEF Inv
    <3>2. nS = nIts + nLost /\ nIts \in Nat /\ nLost \in Nat
      BY <2>7
    <3>3. nNew \in Nat
      <4>1. <<a>> \in Seq(Value)
        BY DEF Value
      <4> QED BY <4>1, OccursNat
    <3>4. nS + nNew + nOps = nIts + nNew + nLost + nDue
      <4> HIDE DEF nS, nNew, nOps, nIts, nLost, nDue
      <4> QED BY <3>1, <3>2, <3>3
    <3> QED BY <3>4
  <2>10. Alloc(a, k, its, NoWin, NoNum, s)
    BY <1>2
  <2> DEFINE new == <<a>>
  <2>11. /\ new \in Seq(Value) /\ Takes(2, new, d)
         /\ EvenItems(s, <<a>>, Operands(2), its, new, d, pending')
    BY <2>8, <2>9 DEF Value
  <2> HIDE DEF its, s, d, k, new
  <2> QED BY <2>1, <2>3, <2>4, <2>5, <2>7, <2>10, <2>11, Making
<1> QED BY <1>1, <1>2 DEF Repeat

LEMMA MaterializedHeld ==
  ASSUME Inv, Quiet, NEW v, ~Stale(v)
  PROVE  Materialized(v) \in Seq(Value) /\ Alive(Materialized(v))
<1>1. CASE Kind(v) = "slice" /\ RootTag(v) = "tuple"
  <2>1. Sized(v)
    BY <1>1 DEF Sized
  <2>2. Shown(v) \in Seq(Value) /\ Alive(Shown(v))
    BY <2>1, ShownHeld
  <2> QED BY <1>1, <2>2 DEF Materialized
<1>2. CASE ~(Kind(v) = "slice" /\ RootTag(v) = "tuple")
  BY <1>2, AliveEmpty DEF Materialized
<1> QED BY <1>1, <1>2

LEMMA EqualExact == ASSUME Inv, TypeOK', Equal PROVE Exact'
<1> DEFINE right == Top(1)
           left == Top(2)
           l == Materialized(left)
           r == Materialized(right)
           copied == l \o r
<1>1. /\ 2 <= Len(stack) /\ pending = <<>> /\ Quiet /\ Handler("EQ", 2) /\ 2 \in Nat
      /\ Imm \in Value /\ <<Imm>> \in Seq(Value)
  BY HandlerParts, HandlerQuiet DEF Inv, Equal, Value
<1>2. ~Stale(left) /\ ~Stale(right)
  BY DEF Equal
<1>3. CASE Fatal
  BY <1>1, <1>3, StopExact
<1>4. CASE /\ rc' = Counted(copied) /\ Leak(copied)
           /\ stack' = Append(Below(2), Imm) /\ Consumed
           /\ UNCHANGED <<tag, items, win, num, status>>
  <2>1. copied \in Seq(Value) /\ Alive(copied)
    <3>1. l \in Seq(Value) /\ Alive(l) /\ r \in Seq(Value) /\ Alive(r)
      BY <1>1, <1>2, MaterializedHeld
    <3> HIDE DEF l, r
    <3> QED BY <3>1, AliveConcat
  <2>2. /\ rc' = Counted(copied) /\ Leak(copied) /\ stack' = Append(Below(2), Imm)
        /\ UNCHANGED <<tag, items>>
    BY <1>4
  <2> HIDE DEF copied
  <2>3. Takes(2, <<Imm>>, copied) /\ Counts(copied)
    BY <1>1, <2>2, TakesAre, CountsAre DEF Inv
  <2>4. Even(copied, Operands(2), <<Imm>>, copied, pending')
    <3> SUFFICES ASSUME NEW y \in Addr
                 PROVE  Occurs(copied, y) + Occurs(Operands(2), y)
                          = Occurs(<<Imm>>, y) + Occurs(copied, y) + Occurs(pending', y)
      BY DEF Even
    <3>1. Occurs(pending', y) = Occurs(Operands(2), y) /\ Occurs(Operands(2), y) \in Nat
      BY <1>1, <1>4, ConsumedMoves DEF Inv
    <3>2. Imm # y
      BY AddrAssumption
    <3>3. Occurs(<<Imm>>, y) = 0 /\ Occurs(copied, y) \in Nat
      BY <2>1, <3>2, OccursSingle, OccursNat
    <3> QED BY <3>1, <3>3
  <2> QED BY <1>1, <2>1, <2>2, <2>3, <2>4, Counting
<1> QED BY <1>3, <1>4 DEF Equal

-----------------------------------------------------------------------------
(* Releasing, and the end of a run.                                        *)

\* The next decrement is taken off the list; it may add some.
LEMMA OwnedVisit ==
  ASSUME TypeOK, TypeOK', pending # <<>>, UNCHANGED <<stack, leaked>>,
         NEW more \in Seq(Value), pending' = more \o Tail(pending), NEW x \in Addr
  PROVE  /\ Owned(x)' + Occurs(<<Head(pending)>>, x) = Owned(x) + Occurs(more, x)
         /\ Occurs(<<Head(pending)>>, x) \in Nat /\ Occurs(more, x) \in Nat
         /\ Occurs(<<Head(pending)>>, x) <= Owned(x)
<1> DEFINE own == Owned(x)      ownNew == Owned(x)'
           held == Occurs(stack, x)
           lost == leaked[x]
           due == Occurs(pending, x)
           dueNew == Occurs(pending', x)
           first == Occurs(<<Head(pending)>>, x)
           left == Occurs(Tail(pending), x)
           added == Occurs(more, x)
<1>1. pending \in Seq(Value) /\ stack \in Seq(Value)
  BY DEF TypeOK
<1>2. Head(pending) \in Value /\ Tail(pending) \in Seq(Value)
  BY <1>1, HeadTailProperties
<1>3. due = first + left
  BY <1>1, OccursHeadTail
<1>4. dueNew = added + left
  BY <1>2, OccursConcat
<1>5. own = held + due + lost
  BY DEF Owned
<1>6. ownNew = held + dueNew + lost
  BY NumbersPrimed
<1>7. held \in Nat /\ lost \in Nat /\ left \in Nat /\ added \in Nat /\ first \in Nat
  <2>1. <<Head(pending)>> \in Seq(Value)
    BY <1>2
  <2> QED BY <1>1, <1>2, <2>1, OccursNat DEF TypeOK
<1>8. ownNew + first = own + added /\ first <= own
  <2> HIDE DEF own, ownNew, held, lost, due, dueNew, first, left, added
  <2> QED BY <1>3, <1>4, <1>5, <1>6, <1>7
<1> QED BY <1>7, <1>8

LEMMA NoneAdded ==
  ASSUME NEW s \in Seq(Value) PROVE <<>> \o s = s /\ <<>> \in Seq(Value)
BY ConcatEmptySeq

\* A value that is due is owned.
LEMMA DueIsCounted ==
  ASSUME Inv, pending # <<>>, Head(pending) \in Addr
  PROVE  /\ rc[Head(pending)] >= 1 /\ tag[Head(pending)] # "free"
         /\ ~BeingFreed(Head(pending))
         /\ rc[Head(pending)] = 1 => Occurs(stack, Head(pending)) = 0
<1> DEFINE v == Head(pending)
           due == Occurs(pending, v)
           first == Occurs(<<v>>, v)
           left == Occurs(Tail(pending), v)
           held == Occurs(stack, v)
           lost == leaked[v]
           own == Owned(v)
           refs == HeapRefs(v)
           r == rc[v]
<1>1. pending \in Seq(Value)
  BY DEF Inv, TypeOK
<1>2. due = first + left
  BY <1>1, OccursHeadTail
<1>3. first = 1
  BY OccursSingle
<1>4. left \in Nat
  <2>1. Tail(pending) \in Seq(Value)
    BY <1>1, HeadTailProperties
  <2> QED BY <2>1, OccursNat
<1>5. held \in Nat /\ lost \in Nat /\ refs \in Nat
  BY Numbers
<1>6. own = held + due + lost
  BY DEF Owned
<1>7. r = own + refs
  BY DEF Inv, Exact, Balanced
<1>8. r >= 1 /\ (r = 1 => held = 0)
  <2> HIDE DEF due, first, left, held, lost, own, refs, r
  <2> QED BY <1>2, <1>3, <1>4, <1>5, <1>6, <1>7
<1>9. rc[v] # 0
  <2> HIDE DEF v
  <2> QED BY <1>8
<1>10. tag[v] # "free" /\ ~BeingFreed(v)
  BY <1>9, FreeUnowned
<1> QED BY <1>8, <1>10

\* What the objects own does not change, nor who is freed and what STA will store.
LEMMA SameHeld ==
  ASSUME Inv, UNCHANGED <<tag, items, stack, freeing, assigning>>,
         \A x \in Addr : BeingFreed(x) => rc'[x] = 0
  PROVE  Held' = Held /\ FreeingZero' /\ AssignHeld'
<1>1. Held' = Held
  BY DEF Held, BeingFreed, Top
<1>2. FreeingZero'
  <2>1. \A i \in DOMAIN freeing : freeing[i] \in Call
    BY ElementOfSeq, LenProperties DEF Inv, TypeOK
  <2>2. \A i \in DOMAIN freeing : freeing[i].object \in Addr
    BY <2>1 DEF Call
  <2>3. \A i \in DOMAIN freeing : rc'[freeing[i].object] = 0
    BY <2>2 DEF BeingFreed
  <2> QED BY <2>3 DEF Inv, Exact, FreeingZero
<1>3. AssignHeld'
  BY DEF Inv, Exact, AssignHeld, Top
<1> QED BY <1>1, <1>2, <1>3

LEMMA DecRefImmExact ==
  ASSUME Inv, TypeOK', DecRefImm(Head(pending), Tail(pending)) PROVE Exact'
<1> DEFINE v == Head(pending)
<1>1. /\ pending # <<>> /\ v = Imm /\ pending' = Tail(pending)
      /\ UNCHANGED <<tag, rc, items, stack, leaked, freeing, assigning>>
  BY DEF DecRefImm, Visiting, heapVars
<1>2. pending' = <<>> \o Tail(pending) /\ <<>> \in Seq(Value)
  <2>1. pending' \in Seq(Value)
    BY DEF TypeOK
  <2> QED BY <1>1, <2>1, NoneAdded
<1>3. ASSUME NEW x \in Addr PROVE rc'[x] + Owned(x) = rc[x] + Owned(x)'
  <2> DEFINE own == Owned(x)      ownNew == Owned(x)'
             first == Occurs(<<v>>, x)
             added == Occurs(<<>>, x)
             r == rc[x]           rNew == rc'[x]
  <2>1. ownNew + first = own + added
    BY <1>1, <1>2, OwnedVisit DEF Inv
  <2>2. first = 0 /\ added = 0
    <3>1. Imm # x
      BY AddrAssumption
    <3> QED BY <1>1, <3>1, OccursSingle, OccursEmpty
  <2>3. own \in Nat /\ ownNew \in Nat /\ r \in Nat /\ rNew = r
    BY <1>1, Numbers, NumbersPrimed DEF Inv
  <2>4. rNew + own = r + ownNew
    <3> HIDE DEF own, ownNew, first, added, r, rNew
    <3> QED BY <2>1, <2>2, <2>3
  <2> QED BY <2>4
<1>4. \A x \in Addr : tag[x] = "free" \/ BeingFreed(x) => rc'[x] = 0
  BY <1>1, FreeUnowned
<1>5. Held' = Held /\ FreeingZero' /\ AssignHeld'
  BY <1>1, <1>4, SameHeld
<1> QED BY <1>1, <1>3, <1>4, <1>5, Shifting

LEMMA DecRefSharedExact ==
  ASSUME Inv, TypeOK', DecRefShared(Head(pending), Tail(pending)) PROVE Exact'
<1> DEFINE v == Head(pending)
<1>1. /\ pending # <<>> /\ v # Imm /\ pending' = Tail(pending)
      /\ ~(rc[v] <= 1) /\ rc' = [rc EXCEPT ![v] = @ - 1]
      /\ UNCHANGED <<tag, items, stack, leaked, freeing, assigning>>
  BY DEF DecRefShared, Visiting, LastOwner
<1>2. pending' = <<>> \o Tail(pending) /\ <<>> \in Seq(Value)
  <2>1. pending' \in Seq(Value)
    BY DEF TypeOK
  <2> QED BY <1>1, <2>1, NoneAdded
<1>3. v \in Addr /\ rc \in [Addr -> Int]
  <2>1. v \in Value
    BY <1>1, HeadTailProperties DEF Inv, TypeOK
  <2> QED BY <1>1, <2>1 DEF Value, Inv, TypeOK, HeapOK
<1>4. ASSUME NEW x \in Addr PROVE rc'[x] + Owned(x) = rc[x] + Owned(x)'
  <2> DEFINE own == Owned(x)      ownNew == Owned(x)'
             first == Occurs(<<v>>, x)
             added == Occurs(<<>>, x)
             r == rc[x]           rNew == rc'[x]
  <2>1. ownNew + first = own + added
    BY <1>1, <1>2, OwnedVisit DEF Inv
  <2>2. added = 0 /\ own \in Nat /\ ownNew \in Nat /\ r \in Nat /\ first \in Nat
    BY <1>1, <1>2, OwnedVisit, Numbers, NumbersPrimed, OccursEmpty DEF Inv
  <2>3. rNew + first = r
    <3>1. first = IF v = x THEN 1 ELSE 0
      BY OccursSingle
    <3>2. rNew = IF v = x THEN r - 1 ELSE r
      BY <1>1, <1>3
    <3>3. r \in Nat
      BY <2>2
    <3> HIDE DEF v, first, r, rNew
    <3> QED BY <3>1, <3>2, <3>3
  <2>4. rNew + own = r + ownNew
    <3>1. rNew \in Int
      BY NumbersPrimed
    <3> HIDE DEF own, ownNew, first, added, r, rNew
    <3> QED BY <2>1, <2>2, <2>3, <3>1
  <2> QED BY <2>4
<1>5. ASSUME NEW x \in Addr, tag[x] = "free" \/ BeingFreed(x) PROVE rc'[x] = 0
  <2>1. rc[x] = 0
    BY <1>5, FreeUnowned
  <2>2. x # v
    BY <1>1, <2>1
  <2> HIDE DEF v
  <2> QED BY <1>1, <1>3, <2>1, <2>2
<1>6. Held' = Held /\ FreeingZero' /\ AssignHeld'
  BY <1>1, <1>5, SameHeld
<1> QED BY <1>1, <1>4, <1>5, <1>6, Shifting

\* The destructor of an object starts when one owner is left, which lets it go; the
\* items of the object are due.
StartsFreeing(v, call) ==
  /\ v = Head(pending) /\ call = [object |-> v, left |-> Len(Tail(pending))]
  /\ pending # <<>> /\ v \in Addr /\ rc[v] = 1 /\ tag[v] # "free" /\ ~BeingFreed(v)
  /\ rc' = [rc EXCEPT ![v] = @ - 1] /\ pending' = items[v] \o Tail(pending)
  /\ UNCHANGED <<tag, items, win, num, stack, assigning, leaked>>
  /\ DOMAIN freeing = 1..Len(freeing) /\ Len(freeing) \in Nat
  /\ DOMAIN freeing' = 1..(Len(freeing) + 1)
  /\ \A i \in 1..Len(freeing) : freeing'[i] = freeing[i]
  /\ freeing'[Len(freeing) + 1] = call
  /\ Held[v] = items[v] /\ Held'[v] = <<>> /\ ChangesOnly(v, Held, Held')

LEMMA FreeObjectParts ==
  ASSUME Inv, TypeOK', FreeObject(Head(pending), Tail(pending))
  PROVE  \E v, call : StartsFreeing(v, call)
<1> PICK v, call : v = Head(pending) /\ call = [object |-> v, left |-> Len(Tail(pending))]
  OBVIOUS
<1>1. /\ pending # <<>> /\ v # Imm /\ rc[v] <= 1
      /\ rc' = [rc EXCEPT ![v] = @ - 1]
      /\ pending' = items[v] \o Tail(pending) /\ freeing' = Append(freeing, call)
      /\ UNCHANGED <<tag, items, win, num, stack, assigning, leaked>>
  BY DEF FreeObject, Visiting, Children, LastOwner
<1>2. v \in Addr /\ rc \in [Addr -> Int] /\ items \in [Addr -> Seq(Value)]
  <2>1. v \in Value
    BY <1>1, HeadTailProperties DEF Inv, TypeOK
  <2> QED BY <1>1, <2>1 DEF Value, Inv, TypeOK, HeapOK
<1>3. rc[v] = 1 /\ tag[v] # "free" /\ ~BeingFreed(v) /\ Occurs(stack, v) = 0
  <2>1. rc[v] >= 1 /\ rc[v] <= 1 /\ rc[v] \in Int
    BY <1>1, <1>2, DueIsCounted
  <2>2. rc[v] = 1
    BY <2>1
  <2> QED BY <1>1, <1>2, <2>2, DueIsCounted
<1>4. assigning # NoAssign => Top(1) # v
  <2> SUFFICES ASSUME assigning # NoAssign PROVE Top(1) # v
    OBVIOUS
  <2>1. stack \in Seq(Value) /\ Len(stack) \in Nat /\ 3 <= Len(stack)
    BY LenProperties DEF Inv, TypeOK, AssignOK
  <2>2. \A i \in 1..Len(stack) : stack[i] # v
    BY <1>3, <2>1, OccursZero
  <2>3. Len(stack) + 1 - 1 \in 1..Len(stack)
    BY <2>1
  <2> QED BY <2>2, <2>3 DEF Top
<1>5. /\ freeing' \in Seq(Call) /\ DOMAIN freeing = 1..Len(freeing) /\ Len(freeing) \in Nat
      /\ DOMAIN freeing' = 1..(Len(freeing) + 1)
      /\ \A i \in 1..Len(freeing) : freeing'[i] = freeing[i]
      /\ freeing'[Len(freeing) + 1] = call
  <2>1. freeing \in Seq(Call) /\ call \in Call
    <3>1. Tail(pending) \in Seq(Value)
      BY <1>1, HeadTailProperties DEF Inv, TypeOK
    <3>2. Len(Tail(pending)) \in Nat
      BY <3>1, LenProperties
    <3> QED BY <1>2, <3>2 DEF Inv, TypeOK, Call
  <2>2. freeing' \in Seq(Call) /\ Len(freeing') = Len(freeing) + 1
    BY <1>1, <2>1, AppendProperties
  <2> QED BY <1>1, <2>1, <2>2, AppendProperties, LenProperties
<1>6. \A y \in Addr : BeingFreed(y)' <=> BeingFreed(y) \/ y = v
  <2>1. call.object = v
    OBVIOUS
  <2> QED BY <1>5, <2>1 DEF BeingFreed
<1>7. Held[v] = items[v] /\ Held'[v] = <<>> /\ ChangesOnly(v, Held, Held')
  <2>1. Held \in [Addr -> Seq(Value)] /\ Held' \in [Addr -> Seq(Value)]
    BY HeldType, HeldTypePrimed DEF Inv, HeldOK
  <2>2. Held[v] = items[v]
    BY <1>2, <1>3, <1>4 DEF Held
  <2>3. Held'[v] = <<>>
    BY <1>2, <1>6 DEF Held
  <2>4. ASSUME NEW y \in Addr \ {v} PROVE Held'[y] = Held[y]
    <3>1. BeingFreed(y)' <=> BeingFreed(y)
      BY <1>6
    <3> QED BY <1>1, <3>1 DEF Held, Top
  <2> QED BY <2>1, <2>2, <2>3, <2>4 DEF ChangesOnly
<1>8. StartsFreeing(v, call)
  BY <1>1, <1>2, <1>3, <1>5, <1>7 DEF StartsFreeing
<1> QED BY <1>8

LEMMA FreeObjectExact ==
  ASSUME Inv, TypeOK', FreeObject(Head(pending), Tail(pending)) PROVE Exact'
<1> PICK v, call : StartsFreeing(v, call)
  BY FreeObjectParts
<1>1. /\ pending # <<>> /\ rc' = [rc EXCEPT ![v] = @ - 1]
      /\ pending' = items[v] \o Tail(pending)
      /\ UNCHANGED <<tag, items, stack, assigning, leaked>>
  BY DEF StartsFreeing
<1>2. v \in Addr /\ rc \in [Addr -> Int] /\ items \in [Addr -> Seq(Value)]
  BY DEF StartsFreeing, Inv, TypeOK, HeapOK
<1>3. rc[v] = 1 /\ tag[v] # "free" /\ ~BeingFreed(v)
  BY DEF StartsFreeing
<1>4. /\ DOMAIN freeing = 1..Len(freeing) /\ Len(freeing) \in Nat
      /\ DOMAIN freeing' = 1..(Len(freeing) + 1)
      /\ \A i \in 1..Len(freeing) : freeing'[i] = freeing[i]
      /\ freeing'[Len(freeing) + 1] = call
  BY DEF StartsFreeing
<1>5. Held[v] = items[v] /\ Held'[v] = <<>> /\ ChangesOnly(v, Held, Held')
  BY DEF StartsFreeing
<1>6. ASSUME NEW x \in Addr PROVE rc'[x] = Owned(x)' + HeapRefs(x)'
  <2> DEFINE own == Owned(x)      ownNew == Owned(x)'
             r == rc[x]           rNew == rc'[x]
             refs == HeapRefs(x)  refsNew == HeapRefs(x)'
             first == Occurs(<<v>>, x)
             held == Occurs(items[v], x)
             none == Occurs(<<>>, x)
  <2>1. ownNew + first = own + held /\ first \in Nat /\ held \in Nat
    BY <1>1, <1>2, OwnedVisit DEF Inv, StartsFreeing
  <2>2. r = own + refs
    BY DEF Inv, Exact, Balanced
  <2>3. refsNew + held = refs + none
    <3> DEFINE h == Held   g == Held'
    <3>1. ChangesOnly(v, h, g) /\ held = Occurs(h[v], x) /\ none = Occurs(g[v], x)
      BY <1>5
    <3>2. refsNew = RefsIn(g, x) /\ refs = RefsIn(h, x)
      BY HeapRefsIn
    <3> HIDE DEF h, g, refs, refsNew, held, none
    <3> QED BY <1>2, <3>1, <3>2, ItemsChange
  <2>4. rNew + first = r
    <3>1. first = IF v = x THEN 1 ELSE 0
      BY OccursSingle
    <3>2. rNew = IF v = x THEN r - 1 ELSE r
      BY <1>1, <1>2
    <3>3. r \in Nat
      BY Numbers
    <3> HIDE DEF first, r, rNew
    <3> QED BY <3>1, <3>2, <3>3
  <2>5. none = 0
    BY OccursEmpty
  <2>6. rNew = ownNew + refsNew
    <3>1. own \in Nat /\ ownNew \in Nat /\ r \in Nat /\ rNew \in Int /\ refs \in Nat
          /\ refsNew \in Nat
      BY Numbers, NumbersPrimed
    <3> HIDE DEF own, ownNew, r, rNew, refs, refsNew, first, held, none
    <3> QED BY <2>1, <2>2, <2>3, <2>4, <2>5, <3>1
  <2> QED BY <2>6
<1>7. Balanced'
  BY <1>6 DEF Balanced
<1>8. FreeClean' /\ TextChars'
  <2>1. \A x \in Addr : tag[x] = "free" => rc'[x] = rc[x]
    BY <1>1, <1>2, <1>3
  <2> QED BY <1>1, <2>1 DEF Inv, Exact, FreeClean, TextChars
<1>9. FreeingZero'
  <2>1. ASSUME NEW i \in DOMAIN freeing
        PROVE  /\ freeing[i].object \in Addr /\ freeing[i].object # v
               /\ tag[freeing[i].object] # "free" /\ rc[freeing[i].object] = 0
    <3>1. freeing[i] \in Call
      BY ElementOfSeq, LenProperties DEF Inv, TypeOK
    <3> QED BY <1>3, <3>1 DEF Call, BeingFreed, Inv, Exact, FreeingZero
  <2>2. call.object = v
    BY DEF StartsFreeing
  <2>3. ASSUME NEW i \in DOMAIN freeing'
        PROVE  /\ tag'[freeing'[i].object] # "free" /\ rc'[freeing'[i].object] = 0
               /\ \A j \in DOMAIN freeing' : freeing'[i].object = freeing'[j].object => i = j
    <3>1. CASE i \in DOMAIN freeing
      <4>1. tag'[freeing'[i].object] # "free" /\ rc'[freeing'[i].object] = 0
        BY <1>1, <1>2, <1>4, <2>1, <3>1
      <4>2. ASSUME NEW j \in DOMAIN freeing', freeing'[i].object = freeing'[j].object PROVE i = j
        BY <1>4, <2>1, <2>2, <3>1, <4>2 DEF Inv, Exact, FreeingZero
      <4> QED BY <4>1, <4>2
    <3>2. CASE i = Len(freeing) + 1
      <4>1. tag'[freeing'[i].object] # "free" /\ rc'[freeing'[i].object] = 0
        BY <1>1, <1>2, <1>3, <1>4, <2>2, <3>2
      <4>2. ASSUME NEW j \in DOMAIN freeing', freeing'[i].object = freeing'[j].object PROVE i = j
        BY <1>4, <2>1, <2>2, <3>2, <4>2
      <4> QED BY <4>1, <4>2
    <3> QED BY <1>4, <3>1, <3>2
  <2> QED BY <2>3 DEF FreeingZero
<1>10. AssignHeld'
  BY <1>1 DEF Inv, Exact, AssignHeld, Top
<1> QED BY <1>7, <1>8, <1>9, <1>10 DEF Exact

LEMMA DecRefExact == ASSUME Inv, TypeOK', DecRef PROVE Exact'
<1>1. CASE \/ StackExhausted(Head(pending), Tail(pending))
           \/ DecRefFreed(Head(pending), Tail(pending))
  <2>1. UNCHANGED <<heapVars, stack, pending, freeing, assigning, leaked>>
    BY <1>1 DEF StackExhausted, DecRefFreed, Undefined
  <2> QED BY <2>1, Idle
<1> QED BY <1>1, DecRefImmExact, DecRefSharedExact, FreeObjectExact DEF DecRef

\* The innermost of the running destructors has done its work.
LEMMA FreeMemoryParts ==
  ASSUME Inv, TypeOK', FreeMemory, NEW v, v = Innermost.object, NEW n, n = Len(freeing)
  PROVE  /\ v \in Addr /\ rc[v] = 0 /\ tag[v] # "free" /\ n \in Nat \ {0} /\ DOMAIN freeing = 1..n
         /\ tag' = [tag EXCEPT ![v] = "free"] /\ rc' = [rc EXCEPT ![v] = 0]
         /\ items' = [items EXCEPT ![v] = <<>>]
         /\ UNCHANGED <<stack, pending, assigning, leaked>>
         /\ DOMAIN freeing' = 1..(n - 1) /\ \A i \in 1..(n - 1) : freeing'[i] = freeing[i]
         /\ \A i \in 1..(n - 1) : freeing[i].object # v
         /\ assigning # NoAssign => Top(1) # v
         /\ Held' = Held
<1>1. /\ tag' = [tag EXCEPT ![v] = "free"] /\ rc' = [rc EXCEPT ![v] = 0]
      /\ items' = [items EXCEPT ![v] = <<>>] /\ freeing' = SubSeq(freeing, 1, n - 1)
      /\ UNCHANGED <<stack, pending, assigning, leaked>>
  BY DEF FreeMemory
<1>2. v \in Addr /\ n \in Nat \ {0} /\ DOMAIN freeing = 1..n /\ v = freeing[n].object
  <2>1. freeing # <<>>
    BY DEF FreeMemory
  <2>2. freeing \in Seq(Call)
    BY DEF Inv, TypeOK
  <2>3. v \in Addr
    BY <2>1, FreeingParts DEF Inv, Call
  <2> QED BY <2>1, <2>2, <2>3, EmptySeq, LenProperties DEF Innermost
<1>3. DOMAIN freeing' = 1..(n - 1) /\ \A i \in 1..(n - 1) : freeing'[i] = freeing[i]
  <2>1. freeing \in Seq(Call)
    BY DEF Inv, TypeOK
  <2>2. 1 \in 0..Len(freeing)
    BY <1>2
  <2> DEFINE t == SubSeq(freeing, 1, Len(freeing) - 1)
  <2>3. t \in Seq(Call) /\ Len(t) = n - 1 /\ \A i \in 1..(n - 1) : t[i] = freeing[i]
    <3>1. \A m \in 0..Len(freeing) :
            /\ SubSeq(freeing, 1, Len(freeing) - m) \in Seq(Call)
            /\ Len(SubSeq(freeing, 1, Len(freeing) - m)) = Len(freeing) - m
            /\ \A i \in 1..(Len(freeing) - m) :
                 SubSeq(freeing, 1, Len(freeing) - m)[i] = freeing[i]
      BY <2>1, SplitSeq
    <3> QED BY <2>2, <3>1
  <2>4. freeing' = t
    BY <1>1
  <2> HIDE DEF t
  <2> QED BY <2>3, <2>4, LenProperties
<1>4. rc[v] = 0 /\ tag[v] # "free" /\ BeingFreed(v)
  BY <1>2 DEF BeingFreed, Inv, Exact, FreeingZero
<1>5. \A i \in 1..(n - 1) : freeing[i].object # v
  <2> SUFFICES ASSUME NEW i \in 1..(n - 1) PROVE freeing[i].object # v
    OBVIOUS
  <2>1. i \in 1..n /\ n \in 1..n /\ i # n
    BY <1>2
  <2> QED BY <1>2, <2>1 DEF Inv, Exact, FreeingZero
<1>6. \A y \in Addr : BeingFreed(y)' <=> BeingFreed(y) /\ y # v
  <2>1. ASSUME NEW y \in Addr, BeingFreed(y)' PROVE BeingFreed(y) /\ y # v
    <3>1. PICK i \in 1..(n - 1) : freeing[i].object = y
      BY <1>3, <2>1 DEF BeingFreed
    <3>2. i \in 1..n
      BY <1>2
    <3> QED BY <1>2, <1>5, <3>1, <3>2 DEF BeingFreed
  <2>2. ASSUME NEW y \in Addr, BeingFreed(y), y # v PROVE BeingFreed(y)'
    <3>1. PICK i \in 1..n : freeing[i].object = y
      BY <1>2, <2>2 DEF BeingFreed
    <3>2. i \in 1..(n - 1)
      BY <1>2, <2>2, <3>1
    <3> QED BY <1>3, <3>1, <3>2 DEF BeingFreed
  <2> QED BY <2>1, <2>2
<1>7. assigning # NoAssign => Top(1) # v
  <2> SUFFICES ASSUME assigning # NoAssign PROVE Top(1) # v
    OBVIOUS
  <2>1. Len(stack) \in Nat /\ 3 <= Len(stack)
    BY LenProperties DEF Inv, TypeOK, AssignOK
  <2>2. 1 \in 1..Len(stack)
    BY <2>1
  <2> QED BY <1>2, <1>4, <2>2, AliveOperand
<1>8. /\ items \in [Addr -> Seq(Value)] /\ tag \in [Addr -> Tag] /\ rc \in [Addr -> Int]
  BY DEF Inv, TypeOK, HeapOK
<1>9. Held' = Held
  <2>1. ASSUME NEW y \in Addr PROVE Held'[y] = Held[y]
    <3>1. CASE y = v
      <4>1. Held[v] = <<>>
        BY <1>2, <1>4 DEF Held
      <4>2. ~BeingFreed(y)'
        BY <1>6, <3>1
      <4>3. items'[y] = <<>>
        BY <1>1, <1>2, <1>8, <3>1
      <4>4. assigning' # NoAssign => Top(1)' # y
        BY <1>1, <1>7, <3>1 DEF Top
      <4>5. Held'[y] = <<>>
        BY <4>2, <4>3, <4>4 DEF Held
      <4> QED BY <3>1, <4>1, <4>5
    <3>2. CASE y # v
      <4>1. (BeingFreed(y)' <=> BeingFreed(y)) /\ items'[y] = items[y]
        BY <1>1, <1>6, <1>8, <3>2
      <4> QED BY <1>1, <4>1 DEF Held, Top
    <3> QED BY <3>1, <3>2
  <2>2. Held \in [Addr -> Seq(Value)] /\ Held' \in [Addr -> Seq(Value)]
    BY HeldType, HeldTypePrimed DEF Inv, HeldOK
  <2> DEFINE h == Held   g == Held'
  <2>3. h \in [Addr -> Seq(Value)] /\ g \in [Addr -> Seq(Value)] /\ \A y \in Addr : g[y] = h[y]
    BY <2>1, <2>2
  <2> HIDE DEF h, g
  <2>4. g = h
    BY <2>3
  <2> QED BY <2>4 DEF g, h
<1> QED BY <1>1, <1>2, <1>3, <1>4, <1>5, <1>7, <1>9

LEMMA FreeMemoryExact == ASSUME Inv, TypeOK', FreeMemory PROVE Exact'
<1> PICK v, n : v = Innermost.object /\ n = Len(freeing)
  OBVIOUS
<1>1. /\ tag' = [tag EXCEPT ![v] = "free"] /\ rc' = [rc EXCEPT ![v] = 0]
      /\ items' = [items EXCEPT ![v] = <<>>]
      /\ UNCHANGED <<stack, pending, assigning, leaked>>
  BY FreeMemoryParts
<1>2. v \in Addr /\ n \in Nat \ {0} /\ DOMAIN freeing = 1..n
  BY FreeMemoryParts
<1>3. DOMAIN freeing' = 1..(n - 1) /\ \A i \in 1..(n - 1) : freeing'[i] = freeing[i]
  BY FreeMemoryParts
<1>4. rc[v] = 0 /\ (assigning # NoAssign => Top(1) # v)
  BY FreeMemoryParts
<1>5. \A i \in 1..(n - 1) : freeing[i].object # v
  BY FreeMemoryParts
<1>6. /\ items \in [Addr -> Seq(Value)] /\ tag \in [Addr -> Tag] /\ rc \in [Addr -> Int]
  BY DEF Inv, TypeOK, HeapOK
<1>7. Held' = Held
  BY FreeMemoryParts
<1>8. Balanced'
  <2> SUFFICES ASSUME NEW x \in Addr PROVE rc'[x] = Owned(x)' + HeapRefs(x)'
    BY DEF Balanced
  <2>1. rc'[x] = rc[x]
    BY <1>1, <1>2, <1>4, <1>6
  <2>2. Owned(x)' = Owned(x)
    BY <1>1 DEF Owned
  <2>3. HeapRefs(x)' = HeapRefs(x)
    BY <1>7, HeapRefsIn
  <2> QED BY <2>1, <2>2, <2>3 DEF Inv, Exact, Balanced
<1>9. FreeClean' /\ TextChars'
  BY <1>1, <1>2, <1>6 DEF Inv, Exact, FreeClean, TextChars
<1>10. FreeingZero'
  <2>1. ASSUME NEW i \in 1..(n - 1)
        PROVE  tag'[freeing'[i].object] # "free" /\ rc'[freeing'[i].object] = 0
    <3>1. i \in 1..n
      BY <1>2
    <3>2. freeing[i] \in Call
      BY <1>2, <3>1, ElementOfSeq DEF Inv, TypeOK
    <3> DEFINE o == freeing[i].object
    <3>3. o \in Addr /\ o # v
      BY <1>5, <3>2 DEF Call
    <3>4. tag[o] # "free" /\ rc[o] = 0
      BY <1>2, <3>1 DEF Inv, Exact, FreeingZero
    <3>5. freeing'[i].object = o
      BY <1>3
    <3> HIDE DEF o
    <3> QED BY <1>1, <1>6, <3>3, <3>4, <3>5
  <2>2. ASSUME NEW i \in 1..(n - 1), NEW j \in 1..(n - 1), freeing'[i].object = freeing'[j].object
        PROVE  i = j
    <3>1. i \in 1..n /\ j \in 1..n
      BY <1>2
    <3> QED BY <1>2, <1>3, <2>2, <3>1 DEF Inv, Exact, FreeingZero
  <2> QED BY <1>3, <2>1, <2>2 DEF FreeingZero
<1>11. AssignHeld'
  <2> SUFFICES ASSUME assigning # NoAssign
               PROVE  /\ assigning.item \in {Imm, Top(3)}
                      /\ tag'[Top(1)] = "text" => assigning.item = Imm
    BY <1>1 DEF AssignHeld, Top
  <2>1. Top(1) \in Addr
    BY DEF Inv, AssignOK
  <2> QED BY <1>1, <1>4, <1>6, <2>1 DEF Inv, Exact, AssignHeld
<1> QED BY <1>8, <1>9, <1>10, <1>11 DEF Exact

\* Everything that is left on the operand stack is released.
LEMMA DrainExact ==
  ASSUME Inv, TypeOK', Finish \/ DropInterpreter PROVE Exact'
<1>1. /\ pending = <<>> /\ stack' = <<>> /\ pending' = stack
      /\ UNCHANGED <<heapVars, leaked>>
  BY DEF Finish, DropInterpreter, Release, Settled
<1>2. ASSUME NEW x \in Addr PROVE rc'[x] + Owned(x) = rc[x] + Owned(x)'
  <2>1. Occurs(<<>>, x) = 0
    BY OccursEmpty
  <2>2. Owned(x)' = Owned(x)
    <3>1. Owned(x) = Occurs(stack, x) + 0 + leaked[x]
      BY <1>1, <2>1 DEF Owned
    <3>2. Owned(x)' = 0 + Occurs(stack, x) + leaked[x]
      BY <1>1, <2>1 DEF Owned
    <3>3. Occurs(stack, x) \in Nat /\ leaked[x] \in Nat
      BY Numbers DEF Inv
    <3> QED BY <3>1, <3>2, <3>3
  <2> QED BY <1>1, <2>2 DEF heapVars
<1>3. UNCHANGED <<tag, items>> /\ \A x \in Addr : tag[x] = "free" => rc'[x] = 0
  BY <1>1 DEF Inv, Exact, FreeClean, heapVars
<1>4. Quiet
  BY DEF Finish, DropInterpreter, Quiet
<1> QED BY <1>2, <1>3, <1>4, Rebalance

LEMMA InitExact == ASSUME Init PROVE Exact
<1>1. TypeOK
  BY InitType
<1>2. FreeClean /\ TextChars /\ FreeingZero /\ AssignHeld
  BY DEF Init, FreeClean, TextChars, FreeingZero, AssignHeld
<1>3. ASSUME NEW x \in Addr PROVE rc[x] = Owned(x) + HeapRefs(x)
  <2>1. Occurs(stack, x) = 0
    <3>1. stack \in Seq(Value) /\ Len(stack) = NGlobals /\ \A i \in 1..NGlobals : stack[i] = Imm
      BY <1>1, SizeAssumption DEF Init, TypeOK
    <3> QED BY <3>1, OccursImm
  <2>2. Occurs(pending, x) = 0
    BY OccursEmpty DEF Init
  <2>3. HeapRefs(x) = 0
    <3>1. Held = items
      BY <1>1, HeldSettled DEF AllHeld, Init
    <3>2. Places = {}
      BY <3>1 DEF Places, Init
    <3>3. {c \in Places : Held[c[1]][c[2]] = x} = {}
      BY <3>2
    <3> QED BY <3>3, FS_EmptySet DEF HeapRefs
  <2> QED BY <2>1, <2>2, <2>3 DEF Owned, Init
<1> QED BY <1>2, <1>3 DEF Exact, Balanced

-----------------------------------------------------------------------------
(* The theorem.                                                            *)

LEMMA AllocatingExact ==
  ASSUME Inv, TypeOK', NEW a \in Addr, Allocating(a) PROVE Exact'
<1>1. ASSUME NEW f \in FloatVal,
             Constf(a, f) \/ FloatBinop(a, f) \/ MixedBinop(a, f) \/ Negate(a, f)
      PROVE  Exact'
  BY <1>1, ConstfExact, FloatBinopExact, MixedBinopExact, NegateExact
<1>2. CASE Null(a) \/ Closure(a) \/ Add(a)
  BY <1>2, NullExact, ClosureExact, AddExact
<1>3. ASSUME NEW n \in 0..MaxItems, Text(a, n) \/ Tuple(a, n) \/ Variant(a, n) \/ Repeat(a, n)
      PROVE  Exact'
  <2>1. n \in Nat
    BY SizeAssumption
  <2> QED BY <1>3, <2>1, TextExact, TupleExact, VariantExact, RepeatExact
<1>4. ASSUME NEW k \in Index, Elem(a, k) PROVE Exact'
  <2>1. k \in Nat \ {0}
    BY SizeAssumption DEF Index
  <2> QED BY <1>4, <2>1, ElemExact
<1>5. ASSUME NEW hasFrom \in BOOLEAN, NEW hasTo \in BOOLEAN, NEW from \in Position,
             NEW to \in Position, Slice(a, hasFrom, hasTo, from, to)
      PROVE  Exact'
  <2>1. from \in Int /\ to \in Int
    BY SizeAssumption DEF Position
  <2> QED BY <1>5, <2>1, SliceExact
<1> QED BY <1>1, <1>2, <1>3, <1>4, <1>5 DEF Allocating

LEMMA NoSts == ASSUME "STS" \notin Instrs, Sts PROVE FALSE
<1>1. Handler("STS", 2)
  BY Zenon DEF Sts
<1> QED BY <1>1 DEF Handler, Ready

LEMMA InstructionExact ==
  ASSUME Inv, TypeOK', "STS" \notin Instrs, "TextGetsChar" \in Discipline, Instruction
  PROVE  Exact'
<1>1. ASSUME NEW a \in Addr, Allocating(a) PROVE Exact'
  BY <1>1, AllocatingExact
<1>2. CASE Const \/ Dup \/ Drop \/ Swap \/ Inspect
  BY <1>2, ConstExact, DupExact, DropExact, SwapExact, InspectExact
<1>3. CASE VariantTag \/ Branch \/ Equal \/ DivideByZero
  BY <1>3, VariantTagExact, BranchExact, EqualExact, DivideByZeroExact
<1>4. CASE Sts
  BY <1>4, NoSts
<1>5. ASSUME NEW g \in 1..NGlobals, Load(g) \/ Store(g) PROVE Exact'
  BY <1>5, LoadExact, StoreExact
<1>6. ASSUME NEW n \in 1..MaxItems, End(n) PROVE Exact'
  <2>1. n \in Nat \ {0}
    BY SizeAssumption
  <2> QED BY <1>6, <2>1, EndExact
<1>7. ASSUME NEW k \in Index, Field(k) \/ SetField(k) \/ Sta(k) PROVE Exact'
  <2>1. k \in Nat \ {0}
    BY SizeAssumption DEF Index
  <2> QED BY <1>7, <2>1, FieldExact, SetFieldExact, StaExact
<1> QED BY <1>1, <1>2, <1>3, <1>4, <1>5, <1>6, <1>7 DEF Instruction

LEMMA NextExact ==
  ASSUME Inv, TypeOK', "STS" \notin Instrs, "TextGetsChar" \in Discipline, [Next]_vars
  PROVE  Exact'
<1>1. CASE Instruction
  BY <1>1, InstructionExact
<1>2. CASE Continue
  BY <1>2, DecRefExact, FreeMemoryExact, SetItemExact DEF Continue
<1>3. CASE Finish \/ DropInterpreter
  BY <1>3, DrainExact
<1>4. CASE UNCHANGED vars
  BY <1>4, Idle DEF vars, heapVars
<1> QED BY <1>1, <1>2, <1>3, <1>4 DEF Next, Stopped

LEMMA ExactMeans ==
  ASSUME Inv PROVE CountsExact /\ NoDangling
<1>1. CountsExact
  <2> SUFFICES ASSUME NEW a \in Live PROVE rc[a] = Refs(a) + leaked[a]
    BY DEF CountsExact
  <2> DEFINE held == Occurs(stack, a)   due == Occurs(pending, a)
             refs == HeapRefs(a)        lost == leaked[a]
             r == rc[a]                 all == Refs(a)
             own == Owned(a)
  <2>1. a \in Addr
    BY DEF Live
  <2>2. held \in Nat /\ due \in Nat /\ refs \in Nat /\ lost \in Nat
    BY <2>1, Numbers DEF Inv
  <2>3. r = own + refs
    BY <2>1 DEF Inv, Exact, Balanced
  <2>4. own = held + due + lost /\ all = held + due + refs
    BY DEF Owned, Refs
  <2>5. r = all + lost
    <3> HIDE DEF held, due, refs, lost, r, all, own
    <3> QED BY <2>2, <2>3, <2>4
  <2> QED BY <2>5
<1>2. NoDangling
  <2> SUFFICES ASSUME NEW a \in Addr, tag[a] = "free" \/ BeingFreed(a)
               PROVE  Refs(a) = 0 /\ assigning.item # a
    <3>1. \A a \in Addr : a \notin Live <=> tag[a] = "free"
      BY DEF Live
    <3> QED BY <3>1 DEF NoDangling
  <2>1. Occurs(stack, a) = 0 /\ Occurs(pending, a) = 0 /\ HeapRefs(a) = 0
    BY FreeUnowned
  <2>2. CASE assigning = NoAssign
    <3>1. assigning.item # a
      BY <2>2, AddrAssumption DEF NoAssign
    <3> QED BY <2>1, <3>1 DEF Refs
  <2>3. CASE assigning # NoAssign
    <3>1. Len(stack) \in Nat /\ 3 <= Len(stack) /\ assigning.item \in {Imm, Top(3)}
      BY <2>3, LenProperties DEF Inv, TypeOK, AssignOK, Exact, AssignHeld
    <3>2. 3 \in 1..Len(stack)
      BY <3>1
    <3>3. Top(3) # a
      BY <3>2, AliveOperand
    <3> QED BY <2>1, <3>1, <3>3, AddrAssumption DEF Refs
  <2> QED BY <2>1, <2>2, <2>3 DEF Refs
<1> QED BY <1>1, <1>2

LEMMA InvNext ==
  ASSUME Inv, "STS" \notin Instrs, "TextGetsChar" \in Discipline, [Next]_vars
  PROVE  Inv'
<1>1. TypeOK' /\ AssignOK'
  BY NextType DEF Inv
<1>2. Exact'
  BY <1>1, NextExact
<1> QED BY <1>1, <1>2 DEF Inv

LEMMA InvAlways ==
  ASSUME "STS" \notin Instrs, "TextGetsChar" \in Discipline
  PROVE  Spec => []Inv
<1>1. Init => Inv
  BY InitType, InitExact DEF Inv
<1>2. Inv /\ [Next]_vars => Inv'
  BY InvNext
<1> QED BY <1>1, <1>2, PTL DEF Spec

-----------------------------------------------------------------------------
(* An instruction starts when nothing is left of the last one.             *)

LEMMA AllocatingWaits == ASSUME NEW a \in Addr, Allocating(a) PROVE Settled
<1>1. ASSUME NEW f \in FloatVal, Constf(a, f) \/ FloatBinop(a, f) \/ MixedBinop(a, f) \/ Negate(a, f)
      PROVE  Settled
  BY <1>1 DEF Constf, FloatBinop, MixedBinop, Negate, Handler, Ready
<1>2. CASE Null(a) \/ Closure(a) \/ Add(a)
  BY <1>2 DEF Null, Closure, Add, Handler, Ready
<1>3. ASSUME NEW n \in 0..MaxItems, Text(a, n) \/ Tuple(a, n) \/ Variant(a, n) \/ Repeat(a, n)
      PROVE  Settled
  BY <1>3 DEF Text, Tuple, Variant, Repeat, Handler, Ready
<1>4. ASSUME NEW k \in Index, Elem(a, k) PROVE Settled
  BY <1>4 DEF Elem, Handler, Ready
<1>5. ASSUME NEW hasFrom \in BOOLEAN, NEW hasTo \in BOOLEAN, NEW from \in Position,
             NEW to \in Position, Slice(a, hasFrom, hasTo, from, to)
      PROVE  Settled
  BY <1>5 DEF Slice, Handler, Ready
<1> QED BY <1>1, <1>2, <1>3, <1>4, <1>5 DEF Allocating

LEMMA InstructionWaits == ASSUME Instruction PROVE Settled
<1>1. CASE \E a \in Addr : Allocating(a)
  BY <1>1, AllocatingWaits
<1>2. CASE Const \/ Dup \/ Drop \/ Swap \/ Inspect
  BY <1>2 DEF Const, Dup, Drop, Swap, Inspect, Handler, Ready
<1>3. CASE VariantTag \/ Branch \/ Equal \/ DivideByZero \/ Sts
  <2>1. \E name, n : Handler(name, n)
    BY Zenon, <1>3 DEF VariantTag, Branch, Equal, DivideByZero, Sts
  <2> QED BY <2>1, HandlerQuiet DEF Quiet
<1>4. ASSUME NEW g \in 1..NGlobals, Load(g) \/ Store(g) PROVE Settled
  BY <1>4 DEF Load, Store, Handler, Ready
<1>5. ASSUME NEW n \in 1..MaxItems, End(n) PROVE Settled
  BY <1>5 DEF End, Handler, Ready
<1>6. ASSUME NEW k \in Index, Field(k) \/ SetField(k) \/ Sta(k) PROVE Settled
  BY <1>6 DEF Field, SetField, Sta, Handler, Ready
<1> QED BY <1>1, <1>2, <1>3, <1>4, <1>5, <1>6 DEF Instruction

-----------------------------------------------------------------------------
(* What one step may do to the objects: keep them, but for an item or a     *)
(* count; make one at a free address; free one; or overwrite a float that   *)
(* is counted once and on top of the stack.                                 *)

\* An object that loses its last count is being freed.
StillCounted(x) == rc[x] > 0 => rc'[x] > 0 \/ BeingFreed(x)'
SameObject(x) ==
  /\ tag'[x] = tag[x] /\ items'[x] = items[x] /\ win'[x] = win[x] /\ num'[x] = num[x]
  /\ StillCounted(x)
ProperSlice(a) ==
  tag[a] = "slice" =>
    /\ Kind(items[a][1]) \in {"tuple", "text"}
    /\ win[a].lo <= win[a].hi /\ win[a].hi <= Len(items[items[a][1]])

\* Items may be replaced in an object that is no slice.
Keeps ==
  /\ UNCHANGED <<tag, win, num>>
  /\ \A x \in Addr :
       /\ Len(items'[x]) = Len(items[x]) /\ StillCounted(x)
       /\ tag[x] = "slice" => items'[x] = items[x]
MakesNew(a) ==
  /\ tag[a] = "free" /\ rc'[a] > 0 /\ ProperSlice(a)'
  /\ \A x \in Addr \ {a} : SameObject(x)
Frees(a) ==
  /\ tag'[a] = "free"
  /\ \A x \in Addr \ {a} : SameObject(x)
Overwrites(a) ==
  /\ UNCHANGED <<tag, rc, items, win>> /\ \A x \in Addr \ {a} : num'[x] = num[x]
  /\ rc[a] = 1 /\ stack' # <<>> /\ stack'[Len(stack')] = a

Orderly == Keeps \/ \E a \in Addr : MakesNew(a) \/ Frees(a) \/ Overwrites(a)

\* A run that has not ended, and does not with this step.
GoesOn == status' \notin {"finished", "dropped"}

LEMMA IdleKeeps == ASSUME UNCHANGED heapVars PROVE Orderly
BY DEF Orderly, Keeps, heapVars, StillCounted

\* References are counted.
LEMMA CountingGrows ==
  ASSUME TypeOK, NEW s \in Seq(Value), NEW x \in Addr, rc'[x] = rc[x] + Occurs(s, x)
  PROVE  StillCounted(x)
<1>1. Occurs(s, x) \in Nat /\ rc[x] \in Int
  BY OccursNat DEF TypeOK, HeapOK
<1> QED BY <1>1 DEF StillCounted

LEMMA CountingKeeps ==
  ASSUME TypeOK, NEW s \in Seq(Value), rc' = Counted(s), UNCHANGED <<tag, items, win, num>>
  PROVE  Orderly
<1>1. \A x \in Addr : StillCounted(x)
  <2>1. \A x \in Addr : rc'[x] = rc[x] + Occurs(s, x)
    BY DEF Counted
  <2> QED BY <2>1, CountingGrows
<1> QED BY <1>1 DEF Orderly, Keeps

\* An item is replaced.
LEMMA SettingKeeps ==
  ASSUME TypeOK, NEW v \in Addr, tag[v] # "slice", NEW k \in 1..Len(items[v]),
         NEW x \in Value, rc' = Counted(<<x>>),
         items' = [items EXCEPT ![v][k] = x], UNCHANGED <<tag, win, num>>
  PROVE  Orderly
<1>1. \A y \in Addr : StillCounted(y)
  <2>1. \A y \in Addr : rc'[y] = rc[y] + Occurs(<<x>>, y)
    BY DEF Counted
  <2>2. <<x>> \in Seq(Value)
    OBVIOUS
  <2> QED BY <2>1, <2>2, CountingGrows
<1>2. items \in [Addr -> Seq(Value)]
  BY DEF TypeOK, HeapOK
<1>3. \A y \in Addr \ {v} : items'[y] = items[y]
  BY <1>2
<1>4. Len(items'[v]) = Len(items[v])
  <2>1. items'[v] = [items[v] EXCEPT ![k] = x]
    BY <1>2
  <2>2. [items[v] EXCEPT ![k] = x] \in Seq(Value) /\ Len([items[v] EXCEPT ![k] = x]) = Len(items[v])
    BY <1>2, ExceptSeq
  <2> QED BY <2>1, <2>2
<1> QED BY <1>1, <1>3, <1>4 DEF Orderly, Keeps

\* An object is made.
LEMMA MakingNew ==
  ASSUME TypeOK, NEW a \in Addr, NEW t, NEW its, NEW w, NEW f,
         NEW s \in Seq(Value), Alloc(a, t, its, w, f, s), ProperSlice(a)'
  PROVE  Orderly
<1>1. /\ tag[a] = "free"
      /\ tag' = [tag EXCEPT ![a] = t] /\ items' = [items EXCEPT ![a] = its]
      /\ win' = [win EXCEPT ![a] = w] /\ num' = [num EXCEPT ![a] = f]
      /\ rc' = [Counted(s) EXCEPT ![a] = 1]
  BY DEF Alloc, Place
<1>2. \A x \in Addr \ {a} : rc'[x] = rc[x] + Occurs(s, x)
  BY <1>1 DEF Counted
<1>3. rc'[a] = 1
  BY <1>1 DEF Counted
<1>4. \A x \in Addr \ {a} : SameObject(x)
  <2>1. \A x \in Addr \ {a} : StillCounted(x)
    BY <1>2, CountingGrows
  <2> QED BY <1>1, <2>1 DEF SameObject, TypeOK, HeapOK
<1>5. MakesNew(a)
  BY <1>1, <1>3, <1>4 DEF MakesNew
<1> QED BY <1>5 DEF Orderly

LEMMA MakingPlain ==
  ASSUME TypeOK, NEW a \in Addr, NEW t, t # "slice", NEW its, NEW w, NEW f,
         NEW s \in Seq(Value), Alloc(a, t, its, w, f, s)
  PROVE  Orderly
<1>1. tag'[a] # "slice"
  BY DEF Alloc, Place, TypeOK, HeapOK
<1> QED BY <1>1, MakingNew DEF ProperSlice

LEMMA MakingBare ==
  ASSUME TypeOK, NEW a \in Addr, NEW t, t # "slice", NEW its, NEW w, NEW f,
         Alloc(a, t, its, w, f, <<>>)
  PROVE  Orderly
<1>1. <<>> \in Seq(Value)
  OBVIOUS
<1> QED BY <1>1, MakingPlain

-----------------------------------------------------------------------------
(* One lemma for each instruction that touches the heap.                    *)

LEMMA PlainOrderly ==
  ASSUME Const \/ Drop \/ Swap \/ Inspect \/ VariantTag \/ Branch \/ DivideByZero
           \/ Finish \/ DropInterpreter \/ Stopped \/ (\E g \in 1..NGlobals : Store(g))
           \/ \E n \in 1..MaxItems : End(n)
  PROVE  Orderly
<1>1. UNCHANGED heapVars
  BY DEF Const, Drop, Swap, Inspect, VariantTag, Branch, DivideByZero, Finish,
         DropInterpreter, Stopped, Store, End, Fail, vars, heapVars
<1> QED BY <1>1, IdleKeeps

LEMMA StopOrderly ==
  ASSUME Fatal \/ Undefined \/ \E n \in Nat : Fail(n)
  PROVE  Orderly
<1>1. UNCHANGED heapVars
  BY DEF Fatal, Undefined, Fail
<1> QED BY <1>1, IdleKeeps

LEMMA FreshOrderly ==
  ASSUME TypeOK, NEW a \in Addr, NEW f \in FloatVal, NEW n \in Nat,
         Constf(a, f) \/ MixedBinop(a, f) \/ Null(a) \/ Closure(a) \/ Text(a, n) \/ Variant(a, n)
  PROVE  Orderly
BY MakingBare DEF Constf, MixedBinop, Null, Closure, Text, Variant

LEMMA NegateOrderly ==
  ASSUME TypeOK, NEW a \in Addr, NEW f \in FloatVal, Negate(a, f) PROVE Orderly
BY MakingBare, IdleKeeps DEF Negate, Fatal

LEMMA TupleOrderly ==
  ASSUME TypeOK, NEW a \in Addr, NEW n \in Nat, Tuple(a, n) PROVE Orderly
<1>1. Operands(n) \in Seq(Value)
  BY HandlerParts DEF Tuple
<1> QED BY <1>1, MakingPlain DEF Tuple

LEMMA LoadOrderly ==
  ASSUME TypeOK, NEW g \in 1..NGlobals, Load(g) PROVE Orderly
<1>1. <<stack[g]>> \in Seq(Value)
  <2>1. g \in 1..Len(stack)
    BY SizeAssumption, LenProperties DEF TypeOK, Load, Handler, Ready
  <2> QED BY <2>1, ElementOfSeq DEF TypeOK
<1> QED BY <1>1, CountingKeeps DEF Load

LEMMA DupOrderly == ASSUME TypeOK, Dup PROVE Orderly
<1>1. <<Top(1)>> \in Seq(Value)
  BY HandlerParts DEF Dup
<1>2. CASE UNCHANGED rc
  BY <1>2, IdleKeeps DEF Dup, heapVars
<1>3. CASE rc' = Counted(<<Top(1)>>)
  BY <1>1, <1>3, CountingKeeps DEF Dup
<1> QED BY <1>2, <1>3 DEF Dup

LEMMA FieldOrderly == ASSUME TypeOK, NEW k \in Nat \ {0}, Field(k) PROVE Orderly
<1> DEFINE v == Top(1)
<1>1. CASE Fail(1) \/ Fatal
  BY <1>1, StopOrderly
<1>2. CASE /\ Kind(v) = "variant" /\ k <= Len(items[v])
           /\ rc' = Counted(<<items[v][k]>>)
           /\ UNCHANGED <<tag, items, win, num>>
  <2>1. v \in Addr
    BY <1>2 DEF Kind
  <2>2. items[v][k] \in Value
    <3>1. Len(items[v]) \in Nat
      BY <2>1, LenProperties DEF TypeOK, HeapOK
    <3> QED BY <1>2, <2>1, <3>1, ItemType
  <2>3. <<items[v][k]>> \in Seq(Value)
    BY <2>2
  <2> QED BY <1>2, <2>3, CountingKeeps
<1> QED BY <1>1, <1>2 DEF Field

LEMMA SetFieldOrderly == ASSUME TypeOK, NEW k \in Nat \ {0}, SetField(k) PROVE Orderly
<1> DEFINE v == Top(1)
           new == Top(2)
<1>1. CASE Fail(2) \/ Fatal
  BY <1>1, StopOrderly
<1>2. CASE /\ Kind(v) = "variant" /\ k <= Len(items[v])
           /\ rc' = Counted(<<new>>)
           /\ items' = [items EXCEPT ![v][k] = new]
           /\ UNCHANGED <<tag, win, num>>
  <2>1. v \in Addr /\ tag[v] # "slice"
    BY <1>2 DEF Kind
  <2>2. k \in 1..Len(items[v])
    <3>1. Len(items[v]) \in Nat
      BY <2>1, LenProperties DEF TypeOK, HeapOK
    <3> QED BY <1>2, <3>1
  <2>3. new \in Value
    BY HandlerParts, SMTT(30) DEF SetField
  <2> HIDE DEF v, new
  <2> QED BY <1>2, <2>1, <2>2, <2>3, SettingKeeps
<1> QED BY <1>1, <1>2 DEF SetField

LEMMA StaOrderly == ASSUME NEW k \in Nat \ {0}, Sta(k) PROVE Orderly
<1>1. UNCHANGED heapVars
  BY DEF Sta, Fatal, Undefined, ReleaseItem
<1> QED BY <1>1, IdleKeeps

LEMMA SetItemOrderly == ASSUME Inv, TypeOK', SetItem PROVE Orderly
<1>1. CASE Undefined
  BY <1>1, StopOrderly
<1>2. PICK c, i, new, k, x : SetsItem(c, i, new, k, x)
  BY SetItemParts
<1>3. /\ c \in Addr /\ tag[c] # "slice" /\ k \in 1..Len(items[c]) /\ x \in Value
      /\ rc' = Counted(<<x>>) /\ items' = [items EXCEPT ![c][k] = x]
      /\ UNCHANGED <<tag, win, num>>
  BY <1>2 DEF SetsItem
<1> QED BY <1>3, SettingKeeps DEF Inv

LEMMA ElemOrderly ==
  ASSUME TypeOK, NEW a \in Addr, NEW k \in Nat \ {0}, Elem(a, k) PROVE Orderly
<1> DEFINE c == Top(2)
           x == items[Root(c)][Lo(c) + k]
<1>1. CASE Fail(2) \/ Fatal \/ Undefined
  BY <1>1, StopOrderly
<1>2. CASE /\ Sized(c) /\ k \in 1..Length(c)
           /\ Lo(c) + k <= Len(items[Root(c)])
           /\ IF RootTag(c) = "text"
              THEN Alloc(a, "text", <<x>>, NoWin, NoNum, <<>>)
              ELSE rc' = Counted(<<x>>) /\ UNCHANGED <<tag, items, win, num>>
  <2>1. x \in Value
    BY <1>2, SizedParts, ItemType
  <2>2. <<x>> \in Seq(Value)
    BY <2>1
  <2>3. CASE RootTag(c) = "text"
    BY <1>2, <2>3, MakingBare
  <2>4. CASE RootTag(c) # "text"
    BY <1>2, <2>2, <2>4, CountingKeeps
  <2> QED BY <2>3, <2>4
<1> QED BY <1>1, <1>2 DEF Elem

LEMMA SliceOrderly ==
  ASSUME TypeOK, NEW a \in Addr, NEW hasFrom \in BOOLEAN, NEW hasTo \in BOOLEAN,
         NEW from \in Int, NEW to \in Int, Slice(a, hasFrom, hasTo, from, to)
  PROVE  Orderly
<1> DEFINE n == (IF hasFrom THEN 1 ELSE 0) + (IF hasTo THEN 1 ELSE 0)
           c == Top(n + 1)
<1>1. CASE Fatal \/ Undefined
  BY <1>1, StopOrderly
<1>2. CASE /\ Sized(c) /\ ~Orphan(c)
           /\ Alloc(a, "slice", <<Root(c)>>, Window(c, from, to), NoNum, <<Root(c)>>)
  <2> HIDE DEF n, c
  <2> DEFINE p == Root(c)
             w == Window(c, from, to)
  <2>1. p \in Addr /\ <<p>> \in Seq(Value)
    BY <1>2, SizedParts DEF Value
  <2>2. w.lo <= w.hi /\ w.hi <= Len(items[p])
    BY <1>2, WindowBounds
  <2>3. tag[p] \in {"text", "tuple"}
    BY <1>2 DEF Orphan, Sized, Kind, Root
  <2>4. Alloc(a, "slice", <<p>>, w, NoNum, <<p>>)
    BY <1>2
  <2> HIDE DEF p, w
  <2>5. p # a /\ items'[a] = <<p>> /\ win'[a] = w /\ tag'[p] = tag[p] /\ items'[p] = items[p]
    BY <2>1, <2>3, <2>4 DEF Alloc, Place, TypeOK, HeapOK
  <2>6. ProperSlice(a)'
    BY <2>1, <2>2, <2>3, <2>5 DEF ProperSlice, Kind
  <2> QED BY <2>1, <2>4, <2>6, MakingNew
<1> QED BY <1>1, <1>2 DEF Slice

LEMMA AddOrderly == ASSUME Inv, NEW a \in Addr, Add(a) PROVE Orderly
<1> DEFINE right == Top(1)
           left == Top(2)
           l == Shown(left)
           r == Shown(right)
           k == RootTag(left)
           joins == /\ Kind(left) \in {"tuple", "text", "slice"} /\ Kind(left) = Kind(right)
                    /\ RootTag(left) = RootTag(right)
<1>1. CASE Fatal \/ Undefined
  BY <1>1, StopOrderly
<1>2. CASE /\ joins /\ ~Stale(left) /\ ~Stale(right)
           /\ Alloc(a, k, l \o r, NoWin, NoNum, l \o r)
  <2>1. Sized(left) /\ Sized(right)
    BY <1>2 DEF Sized
  <2>2. l \in Seq(Value) /\ r \in Seq(Value)
    <3>1. Quiet
      BY HandlerQuiet DEF Add
    <3> QED BY <1>2, <2>1, <3>1, ShownHeld
  <2>3. k # "slice"
    BY <1>2, <2>1 DEF Stale, Orphan, RootTag, Root, Kind, Sized
  <2>4. TypeOK /\ Alloc(a, k, l \o r, NoWin, NoNum, l \o r)
    BY <1>2 DEF Inv
  <2> HIDE DEF l, r, k
  <2>5. l \o r \in Seq(Value)
    BY <2>2, ConcatProperties
  <2> QED BY <2>3, <2>4, <2>5, MakingPlain
<1> QED BY <1>1, <1>2 DEF Add

LEMMA RepeatOrderly ==
  ASSUME TypeOK, NEW a \in Addr, NEW n \in Nat, Repeat(a, n) PROVE Orderly
<1> DEFINE right == Top(1)
           left == Top(2)
           c == IF left = Imm THEN right ELSE left
           its == Copies(items[c], n)
           repeats == \/ Kind(left) \in {"tuple", "text"} /\ right = Imm
                      \/ left = Imm /\ Kind(right) = "text"
           s == IF Kind(left) = "tuple" THEN its \o its ELSE its
           k == Kind(c)
<1>1. CASE Fatal
  BY <1>1, StopOrderly
<1>2. CASE repeats /\ Alloc(a, k, its, NoWin, NoNum, s)
  <2>1. c \in Addr /\ k \in {"tuple", "text"}
    <3>1. Imm \notin Addr
      BY AddrAssumption
    <3> QED BY <1>2, <3>1 DEF Kind
  <2>2. items[c] \in Seq(Value)
    BY <2>1 DEF TypeOK, HeapOK
  <2>3. its \in Seq(Value)
    <3> HIDE DEF c
    <3> QED BY <2>2, CopiesType
  <2>4. s \in Seq(Value)
    <3> HIDE DEF its
    <3> QED BY <2>3, ConcatProperties
  <2>5. k # "slice" /\ Alloc(a, k, its, NoWin, NoNum, s)
    BY <1>2, <2>1
  <2> HIDE DEF its, s, k
  <2> QED BY <2>4, <2>5, MakingPlain
<1> QED BY <1>1, <1>2 DEF Repeat

LEMMA EqualOrderly == ASSUME Inv, Equal PROVE Orderly
<1> DEFINE right == Top(1)
           left == Top(2)
           l == Materialized(left)
           r == Materialized(right)
<1>1. CASE Fatal
  BY <1>1, StopOrderly
<1>2. CASE rc' = Counted(l \o r) /\ UNCHANGED <<tag, items, win, num>>
  <2>1. l \in Seq(Value) /\ r \in Seq(Value)
    <3>1. Quiet /\ ~Stale(left) /\ ~Stale(right)
      BY HandlerQuiet DEF Equal
    <3> HIDE DEF left, right
    <3> QED BY <3>1, MaterializedHeld
  <2>2. TypeOK /\ rc' = Counted(l \o r)
    BY <1>2 DEF Inv
  <2> HIDE DEF l, r
  <2>3. l \o r \in Seq(Value)
    BY <2>1, ConcatProperties
  <2> QED BY <1>2, <2>2, <2>3, CountingKeeps
<1> QED BY <1>1, <1>2 DEF Equal

\* The one way to change an object that is there: an operand takes the result.
LEMMA FloatBinopOrderly ==
  ASSUME TypeOK, NEW a \in Addr, NEW f \in FloatVal, FloatBinop(a, f) PROVE Orderly
<1> DEFINE right == Top(1)
           left == Top(2)
           Reuse(kept, gone) ==
             /\ num' = [num EXCEPT ![kept] = f]
             /\ Replace(2, kept) /\ Release(<<gone>>)
             /\ UNCHANGED <<tag, rc, items, win>>
<1>1. right \in Addr /\ left \in Addr /\ Below(2) \in Seq(Value)
  BY HandlerParts DEF FloatBinop, Kind
<1>2. ASSUME NEW kept \in Addr, NEW gone \in Addr, Unshared(kept), Reuse(kept, gone)
      PROVE  Orderly
  <2>1. stack' = Append(Below(2), kept) /\ kept \in Value
    BY <1>2 DEF Replace, Value
  <2>2. stack' # <<>> /\ stack'[Len(stack')] = kept
    BY <1>1, <2>1, AppendProperties
  <2>3. Overwrites(kept)
    BY <1>2, <2>2 DEF Overwrites, Unshared, TypeOK, HeapOK
  <2> QED BY <2>3 DEF Orderly
<1>3. CASE Alloc(a, "float", <<>>, NoWin, f, <<>>)
  BY <1>3, MakingBare
<1> HIDE DEF left, right
<1>4. \/ Unshared(left) /\ Reuse(left, right)
      \/ Unshared(right) /\ Reuse(right, left)
      \/ Alloc(a, "float", <<>>, NoWin, f, <<>>)
  BY DEF FloatBinop, left, right
<1> QED BY <1>1, <1>2, <1>3, <1>4

LEMMA DecRefOrderly == ASSUME Inv, TypeOK', DecRef PROVE Orderly
<1> DEFINE v == Head(pending)
           rest == Tail(pending)
<1>1. v \in Value
  BY HeadTailProperties DEF DecRef, Inv, TypeOK
<1>2. CASE FreeObject(v, rest)
  <2>1. PICK w, call : StartsFreeing(w, call)
    BY <1>2, FreeObjectParts
  <2>2. /\ w \in Addr /\ rc' = [rc EXCEPT ![w] = @ - 1]
        /\ UNCHANGED <<tag, items, win, num>>
    BY <2>1 DEF StartsFreeing
  <2>3. BeingFreed(w)'
    <3>1. Len(freeing) + 1 \in DOMAIN freeing' /\ freeing'[Len(freeing) + 1].object = w
      BY <2>1 DEF StartsFreeing
    <3> QED BY <3>1 DEF BeingFreed
  <2>4. ASSUME NEW x \in Addr PROVE StillCounted(x)
    BY <2>2, <2>3 DEF StillCounted, Inv, TypeOK, HeapOK
  <2> QED BY <2>2, <2>4 DEF Orderly, Keeps
<1> HIDE DEF v, rest
<1>3. CASE DecRefImm(v, rest) \/ StackExhausted(v, rest) \/ DecRefFreed(v, rest)
  <2>1. UNCHANGED heapVars
    BY <1>3 DEF DecRefImm, StackExhausted, DecRefFreed, Undefined
  <2> QED BY <2>1, IdleKeeps
<1>4. CASE DecRefShared(v, rest)
  <2>1. \A x \in Addr : StillCounted(x)
    BY <1>4 DEF DecRefShared, LastOwner, StillCounted, Inv, TypeOK, HeapOK
  <2> QED BY <1>4, <2>1 DEF DecRefShared, Orderly, Keeps
<1> QED BY <1>2, <1>3, <1>4 DEF DecRef, v, rest

LEMMA FreeMemoryOrderly == ASSUME TypeOK, FreeMemory PROVE Orderly
<1> PICK v : v = Innermost.object
  OBVIOUS
<1>1. v \in Addr
  BY FreeingParts DEF FreeMemory, Call
<1>2. /\ tag' = [tag EXCEPT ![v] = "free"] /\ rc' = [rc EXCEPT ![v] = 0]
      /\ items' = [items EXCEPT ![v] = <<>>]
      /\ win' = [win EXCEPT ![v] = NoWin] /\ num' = [num EXCEPT ![v] = NoNum]
  BY DEF FreeMemory
<1>3. Frees(v)
  BY <1>1, <1>2 DEF Frees, SameObject, StillCounted, TypeOK, HeapOK
<1> QED BY <1>1, <1>3 DEF Orderly

-----------------------------------------------------------------------------

LEMMA AllocatingOrderly == ASSUME Inv, NEW a \in Addr, Allocating(a) PROVE Orderly
<1>1. TypeOK
  BY DEF Inv
<1>2. ASSUME NEW f \in FloatVal,
             Constf(a, f) \/ FloatBinop(a, f) \/ MixedBinop(a, f) \/ Negate(a, f)
      PROVE  Orderly
  BY <1>1, <1>2, FreshOrderly, FloatBinopOrderly, NegateOrderly, 0 \in Nat
<1>3. CASE Null(a) \/ Closure(a) \/ Add(a)
  <2>1. NoNum \in FloatVal
    BY NoNumType
  <2> QED BY <1>1, <1>3, <2>1, FreshOrderly, AddOrderly, 0 \in Nat
<1>4. ASSUME NEW n \in 0..MaxItems, Text(a, n) \/ Tuple(a, n) \/ Variant(a, n) \/ Repeat(a, n)
      PROVE  Orderly
  <2>1. n \in Nat /\ NoNum \in FloatVal
    BY SizeAssumption, NoNumType
  <2> QED BY <1>1, <1>4, <2>1, FreshOrderly, TupleOrderly, RepeatOrderly
<1>5. ASSUME NEW k \in Index, Elem(a, k) PROVE Orderly
  <2>1. k \in Nat \ {0}
    BY SizeAssumption DEF Index
  <2> QED BY <1>1, <1>5, <2>1, ElemOrderly
<1>6. ASSUME NEW hasFrom \in BOOLEAN, NEW hasTo \in BOOLEAN, NEW from \in Position,
             NEW to \in Position, Slice(a, hasFrom, hasTo, from, to)
      PROVE  Orderly
  <2>1. from \in Int /\ to \in Int
    BY SizeAssumption DEF Position
  <2> QED BY <1>1, <1>6, <2>1, SliceOrderly
<1> QED BY <1>2, <1>3, <1>4, <1>5, <1>6 DEF Allocating

LEMMA InstructionOrderly ==
  ASSUME Inv, "STS" \notin Instrs, Instruction PROVE Orderly
<1>1. TypeOK
  BY DEF Inv
<1>2. ASSUME NEW a \in Addr, Allocating(a) PROVE Orderly
  BY <1>2, AllocatingOrderly
<1>3. CASE Const \/ Drop \/ Swap \/ Inspect \/ VariantTag \/ Branch \/ DivideByZero
  BY <1>3, PlainOrderly
<1>4. CASE Dup \/ Equal
  BY <1>1, <1>4, DupOrderly, EqualOrderly
<1>5. CASE Sts
  BY <1>5, NoSts
<1>6. ASSUME NEW g \in 1..NGlobals, Load(g) \/ Store(g) PROVE Orderly
  BY <1>1, <1>6, LoadOrderly, PlainOrderly
<1>7. ASSUME NEW n \in 1..MaxItems, End(n) PROVE Orderly
  BY <1>7, PlainOrderly
<1>8. ASSUME NEW k \in Index, Field(k) \/ SetField(k) \/ Sta(k) PROVE Orderly
  <2>1. k \in Nat \ {0}
    BY SizeAssumption DEF Index
  <2> QED BY <1>1, <1>8, <2>1, FieldOrderly, SetFieldOrderly, StaOrderly
<1> QED BY <1>2, <1>3, <1>4, <1>5, <1>6, <1>7, <1>8 DEF Instruction

LEMMA NextOrderly ==
  ASSUME Inv, TypeOK', "STS" \notin Instrs, [Next]_vars PROVE Orderly
<1>1. CASE Instruction
  BY <1>1, InstructionOrderly
<1>2. CASE Continue
  BY <1>2, DecRefOrderly, FreeMemoryOrderly, SetItemOrderly DEF Inv, Continue
<1>3. CASE Finish \/ DropInterpreter \/ Stopped
  BY <1>3, PlainOrderly
<1>4. CASE UNCHANGED vars
  BY <1>4, IdleKeeps DEF vars, heapVars
<1> QED BY <1>1, <1>2, <1>3, <1>4 DEF Next

-----------------------------------------------------------------------------
(* The operand stack is empty once the run has drained it.                  *)

LEMMA ReturnsGoOn ==
  ASSUME NEW name, NEW m, Ready(name, m) \/ Handler(name, m),
         \/ \E n, v : Push(v) \/ Replace(n, v) \/ Fail(n)
         \/ Fatal \/ Undefined \/ UNCHANGED status \/ status' = "error"
  PROVE  GoesOn
BY DEF Handler, Ready, GoesOn, Push, Replace, Fail, Fatal, Undefined

LEMMA AllocatingGoesOn == ASSUME NEW a \in Addr, Allocating(a) PROVE GoesOn
<1>1. ASSUME NEW f \in FloatVal, Constf(a, f) \/ MixedBinop(a, f) \/ Negate(a, f)
      PROVE  GoesOn
  BY <1>1, ReturnsGoOn DEF Constf, MixedBinop, Negate
<1>2. ASSUME NEW f \in FloatVal, FloatBinop(a, f) PROVE GoesOn
  BY <1>2, ReturnsGoOn DEF FloatBinop
<1>3. CASE Null(a) \/ Closure(a)
  BY <1>3, ReturnsGoOn DEF Null, Closure
<1>4. CASE Add(a)
  BY <1>4, ReturnsGoOn DEF Add
<1>5. ASSUME NEW n \in 0..MaxItems, Text(a, n) \/ Tuple(a, n) \/ Variant(a, n) PROVE GoesOn
  BY <1>5, ReturnsGoOn DEF Text, Tuple, Variant
<1>6. ASSUME NEW n \in 0..MaxItems, Repeat(a, n) PROVE GoesOn
  BY <1>6, ReturnsGoOn DEF Repeat
<1>7. ASSUME NEW k \in Index, Elem(a, k) PROVE GoesOn
  BY <1>7, ReturnsGoOn DEF Elem
<1>8. ASSUME NEW hasFrom \in BOOLEAN, NEW hasTo \in BOOLEAN, NEW from \in Position,
             NEW to \in Position, Slice(a, hasFrom, hasTo, from, to)
      PROVE  GoesOn
  BY <1>8, ReturnsGoOn DEF Slice
<1> QED BY <1>1, <1>2, <1>3, <1>4, <1>5, <1>6, <1>7, <1>8 DEF Allocating

LEMMA InstructionGoesOn == ASSUME Instruction PROVE GoesOn
<1>1. CASE \E a \in Addr : Allocating(a)
  BY <1>1, AllocatingGoesOn
<1>2. CASE Const \/ Drop \/ Swap \/ Inspect
  BY <1>2, ReturnsGoOn DEF Const, Drop, Swap, Inspect
<1>3. CASE VariantTag \/ Branch \/ DivideByZero
  BY <1>3, ReturnsGoOn DEF VariantTag, Branch, DivideByZero
<1>4. CASE Dup
  BY <1>4, ReturnsGoOn DEF Dup
<1>5. CASE Equal
  BY <1>5, ReturnsGoOn DEF Equal
<1>6. CASE Sts
  <2>1. Handler("STS", 2) /\ (Fatal \/ Undefined \/ UNCHANGED status)
    BY Zenon, <1>6 DEF Sts
  <2> QED BY <2>1, ReturnsGoOn
<1>7. ASSUME NEW g \in 1..NGlobals, Load(g) \/ Store(g) PROVE GoesOn
  BY <1>7, ReturnsGoOn DEF Load, Store
<1>8. ASSUME NEW n \in 1..MaxItems, End(n) PROVE GoesOn
  BY <1>8, ReturnsGoOn DEF End
<1>9. ASSUME NEW k \in Index, Field(k) \/ SetField(k) PROVE GoesOn
  BY <1>9, ReturnsGoOn DEF Field, SetField
<1>10. ASSUME NEW k \in Index, Sta(k) PROVE GoesOn
  BY <1>10, ReturnsGoOn DEF Sta, ReleaseItem
<1> QED BY <1>1, <1>2, <1>3, <1>4, <1>5, <1>6, <1>7, <1>8, <1>9, <1>10 DEF Instruction

Drained == status \in {"finished", "dropped"} => stack = <<>>

LEMMA NextDrained == ASSUME AssignOK, Drained, [Next]_vars PROVE Drained'
<1>1. CASE Instruction
  BY <1>1, InstructionGoesOn DEF GoesOn, Drained
<1>2. CASE DecRef \/ FreeMemory
  <2>1. stack' = stack /\ (status' = status \/ status' \in {"undefined", "crashed"})
    BY <1>2 DEF DecRef, DecRefImm, DecRefShared, FreeObject, StackExhausted, DecRefFreed,
                Undefined, FreeMemory
  <2> QED BY <2>1 DEF Drained
<1>5. CASE SetItem
  <2>1. status' = status \/ status' = "undefined"
    BY <1>5 DEF SetItem, Undefined, Replace
  <2>2. stack # <<>>
    <3>1. 3 <= Len(stack)
      BY <1>5 DEF SetItem, AssignOK
    <3>2. Len(<<>>) = 0
      OBVIOUS
    <3> QED BY <3>1, <3>2
  <2> QED BY <2>1, <2>2 DEF Drained
<1>3. CASE Finish \/ DropInterpreter
  BY <1>3 DEF Finish, DropInterpreter, Drained
<1>4. CASE UNCHANGED vars
  BY <1>4 DEF vars, Drained
<1> QED BY <1>1, <1>2, <1>3, <1>4, <1>5 DEF Next, Continue, Stopped

-----------------------------------------------------------------------------
(* What the objects keep.                                                   *)

\* An object counts an owner as long as its destructor has not started.
RcPositive == \A a \in Live : ~BeingFreed(a) => rc[a] > 0
Strong == Inv /\ RcPositive /\ SliceInWindow /\ Drained

\* A destructor that has started runs until the memory is given back.
LEMMA FreeingKept ==
  ASSUME Inv, TypeOK', [Next]_vars, NEW x \in Addr, BeingFreed(x)
  PROVE  BeingFreed(x)' \/ tag'[x] = "free"
<1>1. CASE Settled
  BY <1>1 DEF Settled, BeingFreed
<1>2. CASE UNCHANGED freeing
  BY <1>2 DEF BeingFreed
<1>3. CASE FreeObject(Head(pending), Tail(pending))
  <2>1. PICK v, call : StartsFreeing(v, call)
    BY <1>3, FreeObjectParts
  <2>2. PICK i \in DOMAIN freeing : freeing[i].object = x
    BY DEF BeingFreed
  <2>3. i \in DOMAIN freeing' /\ freeing'[i] = freeing[i]
    BY <2>1, <2>2 DEF StartsFreeing
  <2> QED BY <2>2, <2>3 DEF BeingFreed
<1>4. CASE FreeMemory
  <2> PICK v, n : v = Innermost.object /\ n = Len(freeing)
    OBVIOUS
  <2>1. PICK i \in DOMAIN freeing : freeing[i].object = x
    BY DEF BeingFreed
  <2>2. /\ v \in Addr /\ tag' = [tag EXCEPT ![v] = "free"] /\ n \in Nat \ {0}
        /\ DOMAIN freeing = 1..n /\ DOMAIN freeing' = 1..(n - 1)
        /\ \A j \in 1..(n - 1) : freeing'[j] = freeing[j]
    BY <1>4, FreeMemoryParts
  <2>3. CASE i = n
    <3>1. x = v
      BY <2>1, <2>3 DEF Innermost
    <3> QED BY <2>2, <3>1 DEF Inv, TypeOK, HeapOK
  <2>4. CASE i # n
    <3>1. i \in 1..(n - 1)
      BY <2>1, <2>2, <2>4
    <3> QED BY <2>1, <2>2, <3>1 DEF BeingFreed
  <2> QED BY <2>3, <2>4
<1>5. CASE DecRef
  BY <1>2, <1>3, <1>5 DEF DecRef, DecRefImm, DecRefShared, StackExhausted, DecRefFreed, Undefined
<1>6. CASE SetItem
  BY <1>2, <1>6 DEF SetItem, Undefined
<1>7. CASE Instruction
  BY <1>1, <1>7, InstructionWaits
<1> QED BY <1>1, <1>2, <1>4, <1>5, <1>6, <1>7
        DEF Next, Continue, Finish, DropInterpreter, Stopped, vars

LEMMA PositiveKept ==
  ASSUME Inv, TypeOK', [Next]_vars, RcPositive, Orderly PROVE RcPositive'
<1> SUFFICES ASSUME NEW x \in Addr, tag'[x] # "free", ~BeingFreed(x)' PROVE rc'[x] > 0
  BY DEF RcPositive, Live
<1>0. tag[x] # "free" => rc[x] > 0
  BY FreeingKept DEF RcPositive, Live
<1>1. CASE Keeps
  BY <1>0, <1>1 DEF Keeps, StillCounted
<1>2. ASSUME NEW a \in Addr, MakesNew(a) PROVE rc'[x] > 0
  BY <1>0, <1>2 DEF MakesNew, SameObject, StillCounted
<1>3. ASSUME NEW a \in Addr, Frees(a) PROVE rc'[x] > 0
  BY <1>0, <1>3 DEF Frees, SameObject, StillCounted
<1>4. ASSUME NEW a \in Addr, Overwrites(a) PROVE rc'[x] > 0
  BY <1>0, <1>4 DEF Overwrites
<1> QED BY <1>1, <1>2, <1>3, <1>4 DEF Orderly

\* The parent of a slice is an object that is there, before a step and after it.
ParentsLive ==
  \A x \in Addr : tag[x] = "slice" /\ ~BeingFreed(x) =>
    items[x][1] \in Addr /\ tag[items[x][1]] # "free"

LEMMA ParentIsLive == Inv => ParentsLive
<1> SUFFICES ASSUME Inv, NEW x \in Addr, tag[x] = "slice", ~BeingFreed(x)
             PROVE  items[x][1] \in Addr /\ tag[items[x][1]] # "free"
  BY DEF ParentsLive
<1>1. 1 \in 1..Len(items[x]) /\ items[x][1] \in Addr
  BY DEF Inv, TypeOK, HeapOK
<1>2. Held[x] = items[x]
  BY DEF Held, Inv, AssignOK
<1> QED BY <1>1, <1>2, HeldIsLive

LEMMA ParentStaysLive == Inv' => ParentsLive'
BY ParentIsLive, PTL

LEMMA WindowsKept ==
  ASSUME Inv, Inv', [Next]_vars, SliceInWindow, Orderly PROVE SliceInWindow'
<1> SUFFICES ASSUME NEW x \in Addr, tag'[x] = "slice", ~BeingFreed(x)' PROVE ProperSlice(x)'
  BY DEF SliceInWindow, ProperSlice, Live
<1>0. tag[x] = "slice" => ~BeingFreed(x)
  BY FreeingKept DEF Inv
<1>1. tag[x] = "slice" => ProperSlice(x)
  BY <1>0 DEF SliceInWindow, ProperSlice, Live
<1> DEFINE p == items'[x][1]
<1>2. p \in Addr /\ tag'[p] # "free"
  BY ParentStaysLive DEF ParentsLive
<1>3. tag[x] = "slice" => items[x][1] \in Addr /\ tag[items[x][1]] # "free"
  BY <1>0, ParentIsLive DEF ParentsLive
<1> HIDE DEF p
<1>4. CASE Keeps
  BY <1>1, <1>2, <1>4 DEF Keeps, ProperSlice, Kind, p
<1>5. ASSUME NEW a \in Addr, MakesNew(a) PROVE ProperSlice(x)'
  BY <1>1, <1>2, <1>3, <1>5 DEF MakesNew, SameObject, ProperSlice, Kind, p
<1>6. ASSUME NEW a \in Addr, Frees(a) PROVE ProperSlice(x)'
  BY <1>1, <1>2, <1>6 DEF Frees, SameObject, ProperSlice, Kind, p
<1>7. ASSUME NEW a \in Addr, Overwrites(a) PROVE ProperSlice(x)'
  BY <1>1, <1>7 DEF Overwrites, ProperSlice, Kind
<1> QED BY <1>4, <1>5, <1>6, <1>7 DEF Orderly

LEMMA StrongInit == Init => Strong
<1> SUFFICES ASSUME Init PROVE Strong
  OBVIOUS
<1>1. Live = {} /\ status = "running"
  BY DEF Init, Live
<1> QED BY <1>1, InitType, InitExact DEF Strong, Inv, RcPositive, SliceInWindow, Drained

LEMMA StrongAlways ==
  ASSUME "STS" \notin Instrs, "TextGetsChar" \in Discipline
  PROVE  Spec => []Strong
<1>1. Strong /\ [Next]_vars => Strong'
  <2> SUFFICES ASSUME Strong, [Next]_vars PROVE Strong'
    OBVIOUS
  <2>1. Inv /\ Inv' /\ Orderly
    <3>1. Inv /\ Inv'
      BY InvNext DEF Strong
    <3> QED BY <3>1, NextOrderly DEF Inv
  <2>2. RcPositive'
    BY <2>1, PositiveKept DEF Strong, Inv
  <2>3. SliceInWindow'
    BY <2>1, WindowsKept DEF Strong
  <2>4. Drained'
    BY NextDrained DEF Strong, Inv
  <2> QED BY <2>1, <2>2, <2>3, <2>4 DEF Strong
<1> QED BY <1>1, StrongInit, PTL DEF Spec

\* What is counted once and is on top of the stack is nowhere else.
LEMMA TopHeldOnce ==
  ASSUME Inv', NEW a \in Addr, rc'[a] = 1, stack' # <<>>, stack'[Len(stack')] = a
  PROVE  Occurs(stack', a) = 1 /\ Occurs(pending', a) = 0 /\ HeapRefs(a)' = 0
<1> DEFINE held == Occurs(stack', a)   due == Occurs(pending', a)
           refs == HeapRefs(a)'        lost == leaked'[a]
<1>1. TypeOK' /\ stack' \in Seq(Value) /\ lost \in Nat
  BY DEF Inv, TypeOK
<1>2. held \in Nat /\ due \in Nat /\ refs \in Nat
  BY <1>1, NumbersPrimed, OccursNat DEF Inv, TypeOK
<1>3. held # 0
  <2>1. Len(stack') \in 1..Len(stack')
    BY <1>1, EmptySeq, LenProperties
  <2> QED BY <1>1, <2>1, OccursZero
<1>4. 1 = held + due + lost + refs
  BY DEF Inv, Exact, Balanced, Owned
<1> HIDE DEF held, due, refs, lost
<1>5. held = 1 /\ due = 0 /\ refs = 0
  BY <1>1, <1>2, <1>3, <1>4
<1> QED BY <1>5 DEF held, due, refs

LEMMA OverwriteHidden ==
  ASSUME Inv, Inv', Orderly, NEW a \in Live, tag'[a] = "float", num'[a] # num[a]
  PROVE  /\ Occurs(stack', a) = 1 /\ stack'[Len(stack')] = a
         /\ Occurs(pending', a) = 0 /\ HeapRefs(a)' = 0
<1>1. a \in Addr /\ tag[a] # "free"
  BY DEF Live
<1>2. Overwrites(a)
  BY <1>1 DEF Orderly, Keeps, MakesNew, Frees, Overwrites, SameObject
<1> QED BY <1>1, <1>2, TopHeldOnce DEF Overwrites

-----------------------------------------------------------------------------
(* The theorems.                                                            *)

\* The reference counts of the virtual machine are exact along every run of a
\* program that does not assign to slices and puts only characters into texts:
\* every handler of interpreter.rs, error returns included, and every function
\* of src/runtime calls RAP_inc_ref and RAP_dec_ref once for each owner it makes
\* or unmakes.
THEOREM CountsCorrect ==
  ASSUME "STS" \notin Instrs, "TextGetsChar" \in Discipline
  PROVE  Spec => []CountsExact
<1>1. Inv => CountsExact
  BY ExactMeans
<1> QED BY <1>1, InvAlways, PTL

\* So nothing ever points at freed memory: no slot of the stack, no global, no
\* item of a live object and no release that is still to be made names an
\* object that RAP_free_object has already freed.
THEOREM NothingDangles ==
  ASSUME "STS" \notin Instrs, "TextGetsChar" \in Discipline
  PROVE  Spec => []NoDangling
<1>1. Inv => NoDangling
  BY ExactMeans
<1> QED BY <1>1, InvAlways, PTL

\* Every slice of a live object shows a part of a tuple or a text that is there:
\* RAP_create_slice clamps the bounds, an assignment to an element keeps the length,
\* and the parent outlives the slice, which counts it.
THEOREM SlicesInside ==
  ASSUME "STS" \notin Instrs, "TextGetsChar" \in Discipline
  PROVE  Spec => []SliceInWindow
<1>1. Strong => SliceInWindow
  BY DEF Strong
<1> QED BY <1>1, StrongAlways, PTL

\* However values are copied, held and released before, consume_float_binop overwrites
\* a float only where nobody sees it: the operand it keeps is in no other slot of the stack, in no object and
\* in no release that is due.
THEOREM OverwritesHidden ==
  ASSUME "STS" \notin Instrs, "TextGetsChar" \in Discipline
  PROVE  Spec => OverwriteUnobserved
<1>1. ASSUME Inv, [Next]_vars
      PROVE  [\A a \in Live :
                (tag'[a] = "float" /\ num'[a] # num[a]) =>
                  Occurs(stack', a) = 1 /\ stack'[Len(stack')] = a
                    /\ Occurs(pending', a) = 0 /\ HeapRefs(a)' = 0]_vars
  <2>1. Inv'
    BY <1>1, InvNext
  <2>2. Orderly
    BY <1>1, <2>1, NextOrderly DEF Inv
  <2> QED BY <1>1, <2>1, <2>2, OverwriteHidden
<1> QED BY <1>1, InvAlways, PTL DEF Spec, OverwriteUnobserved

\* When a run has drained its stack and every release is done, whatever is left is
\* held by something that is left, too, or was lost, by an error return or by one of
\* the handlers that lose a count when they succeed (a repeated tuple, compared slices,
\* bounds): no object stays without a holder, after any number of steps
\* (Interpreter::run, Drop).
THEOREM CleanHeap ==
  ASSUME "STS" \notin Instrs, "TextGetsChar" \in Discipline
  PROVE  Spec => []ResidueExplained
<1>1. Strong => ResidueExplained
  <2> SUFFICES ASSUME Strong, status \in {"finished", "dropped"}, Settled, NEW a \in Live
               PROVE  HeapRefs(a) > 0 \/ leaked[a] > 0
    BY DEF ResidueExplained
  <2> DEFINE refs == HeapRefs(a)   lost == leaked[a]
  <2>1. a \in Addr /\ rc[a] > 0 /\ stack = <<>>
    <3>1. ~BeingFreed(a)
      BY DEF Settled, BeingFreed
    <3> QED BY <3>1 DEF Strong, RcPositive, Drained, Live
  <2>2. Occurs(stack, a) = 0 /\ Occurs(pending, a) = 0
    BY <2>1, OccursEmpty DEF Settled
  <2>3. refs \in Nat /\ lost \in Nat
    BY <2>1, Numbers DEF Strong, Inv
  <2>4. 0 + 0 + lost + refs > 0
    BY <2>1, <2>2 DEF Strong, Inv, Exact, Balanced, Owned
  <2> HIDE DEF refs, lost
  <2>5. refs > 0 \/ lost > 0
    BY <2>3, <2>4
  <2> QED BY <2>5 DEF refs, lost
<1> QED BY <1>1, StrongAlways, PTL

-----------------------------------------------------------------------------
(* A release ends.                                                         *)

\* The places of the objects are those of one of them and those of the others.
LEMMA PlacesAt ==
  ASSUME NEW its \in [Addr -> Seq(Value)], NEW v \in Addr
  PROVE  /\ Cardinality(PlacesOf(its)) \in Nat /\ Len(its[v]) \in Nat
         /\ Cardinality({c \in PlacesOf(its) : c[1] # v}) \in Nat
         /\ Cardinality(PlacesOf(its)) =
              Cardinality({c \in PlacesOf(its) : c[1] # v}) + Len(its[v])
<1> DEFINE X == {v} \X DOMAIN its[v]
           P == PlacesOf(its)
           R == {c \in P : c[1] # v}
           n == Len(its[v])
<1>1. P = R \cup X /\ R \cap X = {}
  BY DEF PlacesOf
<1>2. IsFiniteSet(P) /\ IsFiniteSet(R)
  <2>1. IsFiniteSet(P)
    BY PlacesFinite
  <2> HIDE DEF P
  <2> QED BY <2>1, FS_Subset
<1>3. IsFiniteSet(X) /\ Cardinality(X) = n /\ n \in Nat
  <2>1. DOMAIN its[v] = 1..n /\ n \in Nat
    <3>1. its[v] \in Seq(Value)
      OBVIOUS
    <3> QED BY <3>1, LenProperties
  <2>2. IsFiniteSet({v}) /\ Cardinality({v}) = 1
    BY FS_Singleton
  <2> HIDE DEF n
  <2>3. IsFiniteSet(1..n) /\ Cardinality(1..n) = n
    <3>1. IsFiniteSet(1..n) /\ Cardinality(1..n) = IF 1 > n THEN 0 ELSE n - 1 + 1
      BY <2>1, FS_Interval
    <3> QED BY <2>1, <3>1
  <2>4. IsFiniteSet({v} \X (1..n)) /\ Cardinality({v} \X (1..n)) = Cardinality({v}) * Cardinality(1..n)
    BY <2>2, <2>3, FS_Product
  <2>5. Cardinality({v} \X (1..n)) = n
    BY <2>1, <2>2, <2>3, <2>4
  <2> QED BY <2>1, <2>4, <2>5
<1> HIDE DEF P, R, X, n
<1>4. Cardinality(R \cup X) = Cardinality(R) + Cardinality(X) - Cardinality(R \cap X)
  BY <1>2, <1>3, FS_Union
<1>5. Cardinality(P) \in Nat /\ Cardinality(R) \in Nat /\ Cardinality({}) = 0
  BY <1>2, FS_CardinalityType, FS_EmptySet
<1>6. Cardinality(P) = Cardinality(R) + Cardinality(X) - Cardinality({})
  BY Zenon, <1>1, <1>4
<1>7. Cardinality(P) = Cardinality(R) + n
  BY <1>3, <1>5, <1>6
<1> QED BY <1>3, <1>5, <1>7 DEF P, R, n

\* Where one object changes, its items make the difference.
LEMMA PlacesChange ==
  ASSUME NEW its, NEW new, NEW v \in Addr, ChangesOnly(v, its, new)
  PROVE  /\ Cardinality(PlacesOf(its)) \in Nat /\ Cardinality(PlacesOf(new)) \in Nat
         /\ Len(its[v]) \in Nat /\ Len(new[v]) \in Nat
         /\ Cardinality(PlacesOf(new)) + Len(its[v]) = Cardinality(PlacesOf(its)) + Len(new[v])
<1>1. /\ its \in [Addr -> Seq(Value)] /\ new \in [Addr -> Seq(Value)]
      /\ \A y \in Addr \ {v} : new[y] = its[y]
  BY DEF ChangesOnly
<1> DEFINE P == Cardinality(PlacesOf(its))   Q == Cardinality(PlacesOf(new))
           R == Cardinality({c \in PlacesOf(its) : c[1] # v})
           m == Len(its[v])                  n == Len(new[v])
<1>2. {c \in PlacesOf(new) : c[1] # v} = {c \in PlacesOf(its) : c[1] # v}
  BY <1>1 DEF PlacesOf
<1>3. P \in Nat /\ m \in Nat /\ R \in Nat /\ P = R + m
  BY <1>1, PlacesAt
<1>4. Q \in Nat /\ n \in Nat /\ Q = R + n
  <2>1. Q = Cardinality({c \in PlacesOf(new) : c[1] # v}) + n /\ Q \in Nat /\ n \in Nat
    BY <1>1, PlacesAt
  <2> QED BY <1>2, <2>1
<1>5. Q + m = P + n
  <2> HIDE DEF P, Q, R, m, n
  <2> QED BY <1>3, <1>4
<1> QED BY <1>3, <1>4, <1>5

\* What the measure is a sum of.
LEMMA OwedParts ==
  ASSUME Inv, TypeOK'
  PROVE  /\ Len(pending) \in Nat /\ Len(pending') \in Nat
         /\ Cardinality(PlacesOf(Held)) \in Nat /\ Cardinality(PlacesOf(Held')) \in Nat
         /\ IsFiniteSet(Live) /\ Cardinality(Live) \in Nat
         /\ Owed = Len(pending) + Cardinality(PlacesOf(Held)) + Cardinality(Live)
                     + (IF assigning = NoAssign THEN 0 ELSE 3)
         /\ Owed' = Len(pending') + Cardinality(PlacesOf(Held')) + Cardinality(Live')
                      + (IF assigning' = NoAssign THEN 0 ELSE 3)
<1>1. Len(pending) \in Nat /\ Len(pending') \in Nat
  BY LenProperties DEF Inv, TypeOK
<1>2. Held \in [Addr -> Seq(Value)] /\ Held' \in [Addr -> Seq(Value)]
  BY HeldType, HeldTypePrimed DEF Inv, HeldOK
<1>3. Cardinality(PlacesOf(Held)) \in Nat /\ Cardinality(PlacesOf(Held')) \in Nat
  <2> DEFINE h == Held   g == Held'
  <2>1. h \in [Addr -> Seq(Value)] /\ g \in [Addr -> Seq(Value)]
    BY <1>2
  <2> HIDE DEF h, g
  <2>2. Cardinality(PlacesOf(h)) \in Nat /\ Cardinality(PlacesOf(g)) \in Nat
    BY <2>1, PlacesFinite, FS_CardinalityType
  <2> QED BY <2>2 DEF h, g
<1>4. IsFiniteSet(Live) /\ Cardinality(Live) \in Nat
  <2>1. Live \subseteq Addr /\ IsFiniteSet(Addr)
    BY AddrAssumption DEF Live
  <2> QED BY <2>1, FS_Subset, FS_CardinalityType
<1> QED BY <1>1, <1>3, <1>4 DEF Owed, Places, PlacesOf

\* A decrement is done, and nothing else changes that is owed.
LEMMA VisitShrinks ==
  ASSUME Inv, TypeOK', pending # <<>>, pending' = Tail(pending), Held' = Held,
         UNCHANGED <<tag, assigning>>
  PROVE  Owed' < Owed
<1> DEFINE due == Len(pending)   left == Len(pending')
           places == Cardinality(PlacesOf(Held))   live == Cardinality(Live)
           half == IF assigning = NoAssign THEN 0 ELSE 3
<1>1. due = left + 1 /\ left \in Nat
  <2>1. due \in Nat /\ left \in Nat /\ Len(Tail(pending)) = due - 1
    BY OwedParts, HeadTailProperties DEF Inv, TypeOK
  <2> HIDE DEF due
  <2> QED BY <2>1
<1>2. places \in Nat /\ live \in Nat /\ half \in Nat
  BY OwedParts
<1>3. Owed = due + places + live + half
  BY OwedParts
<1>4. Owed' = left + places + live + half
  BY OwedParts DEF Live
<1> HIDE DEF due, left, places, live, half
<1> QED BY <1>1, <1>2, <1>3, <1>4

\* An object gives its items up: each is owed as a decrement instead.
LEMMA FreeObjectShrinks ==
  ASSUME Inv, TypeOK', FreeObject(Head(pending), Tail(pending)) PROVE Owed' < Owed
<1>1. PICK v, call : StartsFreeing(v, call)
  BY FreeObjectParts
<1> DEFINE due == Len(pending)   left == Len(Tail(pending))   dueNew == Len(pending')
           places == Cardinality(PlacesOf(Held))   placesNew == Cardinality(PlacesOf(Held'))
           live == Cardinality(Live)
           half == IF assigning = NoAssign THEN 0 ELSE 3
           n == Len(items[v])
<1>2. /\ v \in Addr /\ pending # <<>> /\ pending' = items[v] \o Tail(pending)
      /\ UNCHANGED <<tag, assigning>>
  BY <1>1 DEF StartsFreeing
<1>3. dueNew = n + left /\ due = left + 1 /\ left \in Nat /\ n \in Nat
  <2>1. pending \in Seq(Value) /\ items[v] \in Seq(Value)
    BY <1>2 DEF Inv, TypeOK, HeapOK
  <2>2. Tail(pending) \in Seq(Value) /\ Len(Tail(pending)) = Len(pending) - 1
    BY <1>2, <2>1, HeadTailProperties
  <2>3. n \in Nat /\ due \in Nat /\ left \in Nat
    BY <2>1, <2>2, LenProperties
  <2>4. dueNew = n + left
    BY <1>2, <2>1, <2>2, ConcatProperties
  <2>5. left = due - 1
    BY <2>2
  <2> HIDE DEF due, left, dueNew, n
  <2> QED BY <2>3, <2>4, <2>5
<1>4. placesNew + n = places + 0
  <2> DEFINE h == Held   g == Held'
  <2>1. ChangesOnly(v, h, g) /\ h[v] = items[v] /\ g[v] = <<>>
    BY <1>1 DEF StartsFreeing
  <2>2. Len(g[v]) = 0
    BY <2>1
  <2> HIDE DEF h, g
  <2>3. Cardinality(PlacesOf(g)) + Len(h[v]) = Cardinality(PlacesOf(h)) + Len(g[v])
    BY <1>2, <2>1, PlacesChange
  <2> QED BY <2>1, <2>2, <2>3 DEF h, g
<1>5. places \in Nat /\ placesNew \in Nat /\ live \in Nat /\ half \in Nat
  BY OwedParts
<1>6. Owed = due + places + live + half
  BY OwedParts
<1>7. Owed' = dueNew + placesNew + live + half
  BY <1>2, OwedParts DEF Live
<1> HIDE DEF due, left, dueNew, places, placesNew, live, half, n
<1> QED BY <1>3, <1>4, <1>5, <1>6, <1>7

\* There is one object less.
LEMMA FreeMemoryShrinks == ASSUME Inv, TypeOK', FreeMemory PROVE Owed' < Owed
<1> PICK v, n : v = Innermost.object /\ n = Len(freeing)
  OBVIOUS
<1>1. /\ v \in Addr /\ tag[v] # "free" /\ tag' = [tag EXCEPT ![v] = "free"]
      /\ UNCHANGED <<pending, assigning>> /\ Held' = Held
  BY FreeMemoryParts
<1> DEFINE due == Len(pending)   places == Cardinality(PlacesOf(Held))
           live == Cardinality(Live)   liveNew == Cardinality(Live')
           half == IF assigning = NoAssign THEN 0 ELSE 3
<1>2. due \in Nat /\ places \in Nat /\ live \in Nat /\ half \in Nat /\ IsFiniteSet(Live)
  BY OwedParts
<1>3. liveNew = live - 1
  <2>1. Live' = Live \ {v} /\ v \in Live
    BY <1>1 DEF Live, Inv, TypeOK, HeapOK
  <2> QED BY <1>2, <2>1, FS_RemoveElement
<1>4. Owed = due + places + live + half
  BY OwedParts
<1>5. Owed' = due + places + liveNew + half
  BY <1>1, OwedParts
<1> HIDE DEF due, places, live, liveNew, half
<1> QED BY <1>2, <1>3, <1>4, <1>5

\* The second half of an assignment makes place for two decrements.
LEMMA SetItemShrinks == ASSUME Inv, TypeOK', SetItem PROVE Owed' < Owed
<1>1. PICK c, i, new, k, x : SetsItem(c, i, new, k, x)
  BY SetItemParts
<1> DEFINE places == Cardinality(PlacesOf(Held))   placesNew == Cardinality(PlacesOf(Held'))
           live == Cardinality(Live)
<1>2. /\ c \in Addr /\ pending = <<>> /\ pending' = <<i, new>>
      /\ assigning # NoAssign /\ assigning' = NoAssign /\ UNCHANGED tag
  BY <1>1 DEF SetsItem
<1>3. places \in Nat /\ placesNew \in Nat /\ live \in Nat
  BY OwedParts
<1>4. placesNew = places
  <2> DEFINE h == Held   g == Held'
  <2>1. /\ ChangesOnly(c, h, g) /\ h[c] = [items[c] EXCEPT ![k] = Imm]
        /\ g[c] = [items[c] EXCEPT ![k] = x]
    BY <1>1 DEF SetsItem
  <2>2. Len(g[c]) = Len(h[c]) /\ Len(h[c]) \in Nat
    <3>1. items[c] \in Seq(Value) /\ k \in 1..Len(items[c]) /\ x \in Value /\ Imm \in Value
      BY <1>1, <1>2 DEF SetsItem, Inv, TypeOK, HeapOK, Value
    <3>2. Len(items[c]) \in Nat
      BY <3>1, LenProperties
    <3> QED BY <2>1, <3>1, <3>2, ExceptSeq
  <2> HIDE DEF h, g
  <2>3. /\ Cardinality(PlacesOf(g)) + Len(h[c]) = Cardinality(PlacesOf(h)) + Len(g[c])
        /\ Cardinality(PlacesOf(g)) \in Nat /\ Cardinality(PlacesOf(h)) \in Nat
    BY <1>2, <2>1, PlacesChange
  <2> DEFINE m == Len(h[c])   p == Cardinality(PlacesOf(h))   q == Cardinality(PlacesOf(g))
  <2>4. q + m = p + m /\ m \in Nat /\ p \in Nat /\ q \in Nat
    BY <2>2, <2>3
  <2>5. q = p
    <3> HIDE DEF m, p, q
    <3> QED BY <2>4
  <2> QED BY <2>5 DEF h, g
<1>5. Owed = 0 + places + live + 3
  BY <1>2, OwedParts
<1>6. Owed' = 2 + placesNew + live + 0
  BY <1>2, OwedParts DEF Live
<1> HIDE DEF places, placesNew, live
<1> QED BY <1>3, <1>4, <1>5, <1>6

LEMMA DecRefShrinks ==
  ASSUME Inv, TypeOK', DecRef
  PROVE  Owed' < Owed \/ (status' = "crashed" /\ Len(freeing) = MaxDepth)
<1> DEFINE v == Head(pending)   rest == Tail(pending)
<1>1. pending # <<>> /\ v \in Value
  BY HeadTailProperties DEF DecRef, Inv, TypeOK
<1>2. CASE DecRefImm(v, rest) \/ DecRefShared(v, rest)
  <2>1. \A x \in Addr : BeingFreed(x) => rc'[x] = 0
    <3>1. ASSUME NEW x \in Addr, BeingFreed(x) PROVE rc'[x] = 0
      <4>1. rc[x] = 0
        BY <3>1, FreeUnowned
      <4> HIDE DEF v, rest
      <4>2. CASE DecRefImm(v, rest)
        BY <4>1, <4>2 DEF DecRefImm, heapVars
      <4>3. CASE DecRefShared(v, rest)
        <5>1. rc' = [rc EXCEPT ![v] = @ - 1] /\ ~(rc[v] <= 1)
          BY <4>3 DEF DecRefShared, LastOwner
        <5>2. x # v
          BY <4>1, <5>1
        <5> QED BY <4>1, <5>1, <5>2 DEF Inv, TypeOK, HeapOK
      <4> QED BY <1>2, <4>2, <4>3
    <3> QED BY <3>1
  <2>2. pending' = rest /\ UNCHANGED <<tag, items, stack, freeing, assigning>>
    BY <1>2 DEF DecRefImm, DecRefShared, heapVars
  <2>3. Held' = Held
    BY <2>1, <2>2, SameHeld
  <2> QED BY <1>1, <2>2, <2>3, VisitShrinks
<1>3. CASE FreeObject(v, rest)
  BY <1>3, FreeObjectShrinks
<1>4. CASE StackExhausted(v, rest)
  BY <1>4 DEF StackExhausted
<1>5. CASE DecRefFreed(v, rest)
  <2>1. v \in Addr /\ tag[v] = "free"
    BY <1>1, <1>5 DEF DecRefFreed, Value
  <2> QED BY <1>1, <2>1, DueIsCounted
<1> HIDE DEF v, rest
<1> QED BY <1>2, <1>3, <1>4, <1>5 DEF DecRef, v, rest

\* As long as counts are right a release ends, in any structure, cycles through
\* assignments to items and fields included: each step takes back a reference that
\* it does not meet again, or gives memory back, unless the C stack has no room for
\* the calls a deep structure needs.  Counts are what this rests on: an object whose
\* destructor runs has no owner left (FreeingZero), so that RAP_dec_ref never comes
\* back to it, which is the only way RAP_free_object could start over.
THEOREM ReleaseEnds ==
  ASSUME "STS" \notin Instrs, "TextGetsChar" \in Discipline
  PROVE  Spec => ReleaseShrinks
<1>1. ASSUME Inv, [Next]_vars
      PROVE  [~Settled => Owed' < Owed \/ (status' = "crashed" /\ Len(freeing) = MaxDepth)]_vars
  <2>1. Inv /\ TypeOK'
    BY <1>1, InvNext DEF Inv
  <2>2. CASE Instruction
    BY <2>2, InstructionWaits
  <2>3. CASE Continue
    BY <2>1, <2>3, DecRefShrinks, FreeMemoryShrinks, SetItemShrinks DEF Continue
  <2>4. CASE Finish \/ DropInterpreter \/ Stopped
    BY <2>4 DEF Finish, DropInterpreter, Stopped
  <2>5. CASE UNCHANGED vars
    BY <2>5
  <2> QED BY <1>1, <2>2, <2>3, <2>4, <2>5 DEF Next
<1> QED BY <1>1, InvAlways, PTL DEF Spec, ReleaseShrinks

\* The memory of an object is given back once and after all its destructor does: no
\* second destructor of it has started before.  (RAP_free_object, RAP_dec_ref)
THEOREM FreedInTurn ==
  ASSUME "STS" \notin Instrs, "TextGetsChar" \in Discipline
  PROVE  Spec => []FreedOnce
<1>1. Inv => FreedOnce
  BY DEF Inv, Exact, FreeingZero, FreedOnce, BeingFreed
<1> QED BY <1>1, InvAlways, PTL

=============================================================================
