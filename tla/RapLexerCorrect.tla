--------------------------- MODULE RapLexerCorrect ---------------------------
(***************************************************************************)
(* The lexer, for any text: the levels of indentation nest, every Indent   *)
(* has its Dedent, blocks follow the indentation, faults are found, every  *)
(* word is returned once and in its turn, and no step goes back.           *)
(***************************************************************************)
EXTENDS RapOffside, FiniteSets, SequenceTheorems, FiniteSetTheorems, FunctionTheorems,
        WellFoundedInduction, TLAPS

-----------------------------------------------------------------------------
(* How often a kind of token occurs in a sequence of lexemes.              *)

HowMany(kind, s) == Cardinality(Count(kind, s))

LEMMA HowManyNat ==
  ASSUME NEW S, NEW s \in Seq(S), NEW kind
  PROVE  IsFiniteSet(Count(kind, s)) /\ HowMany(kind, s) \in Nat
<1>1. DOMAIN s = 1..Len(s) /\ Len(s) \in Nat
  BY LenProperties
<1>2. IsFiniteSet(1..Len(s))
  BY <1>1, FS_Interval
<1>3. Count(kind, s) \subseteq 1..Len(s)
  BY <1>1 DEF Count
<1>4. IsFiniteSet(Count(kind, s))
  BY <1>2, <1>3, FS_Subset
<1> QED
  BY <1>4, FS_CardinalityType DEF HowMany

LEMMA HowManyEmpty ==
  ASSUME NEW kind
  PROVE  HowMany(kind, <<>>) = 0
<1>1. Count(kind, <<>>) = {}
  BY DEF Count
<1> QED
  BY <1>1, FS_EmptySet DEF HowMany

LEMMA HowManySingle ==
  ASSUME NEW l, NEW kind
  PROVE  HowMany(kind, <<l>>) = IF l.token.kind = kind THEN 1 ELSE 0
<1>1. CASE l.token.kind = kind
  <2>1. Count(kind, <<l>>) = {1}
    BY <1>1 DEF Count
  <2> QED
    BY <1>1, <2>1, FS_Singleton DEF HowMany
<1>2. CASE l.token.kind # kind
  <2>1. Count(kind, <<l>>) = {}
    BY <1>2 DEF Count
  <2> QED
    BY <1>2, <2>1, FS_EmptySet DEF HowMany
<1> QED
  BY <1>1, <1>2

\* Two finite sets that a function maps onto one another, one to one.
LEMMA SameSize ==
  ASSUME NEW A, NEW B, IsFiniteSet(A), NEW f \in [A -> B],
         \A x, y \in A : f[x] = f[y] => x = y,
         \A z \in B : \E x \in A : f[x] = z
  PROVE  IsFiniteSet(B) /\ Cardinality(A) = Cardinality(B)
<1>1. f \in Bijection(A, B)
  BY Fun_IsBij
<1> QED
  BY <1>1, FS_Bijection, Fun_ExistsBij

LEMMA HowManyConcat ==
  ASSUME NEW S, NEW s \in Seq(S), NEW t \in Seq(S), NEW kind
  PROVE  HowMany(kind, s \o t) = HowMany(kind, s) + HowMany(kind, t)
<1> DEFINE n == Len(s)
           m == Len(t)
           A == {i \in 1..n : s[i].token.kind = kind}
           B == {i \in 1..m : t[i].token.kind = kind}
           C == {i \in 1..(n + m) : (s \o t)[i].token.kind = kind}
           D == {i \in (n + 1)..(n + m) : t[i - n].token.kind = kind}
           shift == [j \in B |-> j + n]
<1>1. n \in Nat /\ m \in Nat /\ DOMAIN s = 1..n /\ DOMAIN t = 1..m
  BY LenProperties
<1>2. s \o t \in Seq(S) /\ Len(s \o t) = n + m
      /\ \A i \in 1..(n + m) : (s \o t)[i] = IF i <= n THEN s[i] ELSE t[i - n]
  BY ConcatProperties
<1>3. DOMAIN (s \o t) = 1..(n + m)
  BY <1>2, LenProperties
<1>4. Count(kind, s) = A /\ Count(kind, t) = B /\ Count(kind, s \o t) = C
  BY <1>1, <1>3 DEF Count
<1>5. IsFiniteSet(A) /\ IsFiniteSet(B)
  BY <1>4, HowManyNat
<1>6. IsFiniteSet(D) /\ Cardinality(B) = Cardinality(D)
  <2> HIDE DEF n, m
  <2>1. shift \in [B -> D]
    BY <1>1
  <2>2. \A x, y \in B : shift[x] = shift[y] => x = y
    BY <1>1
  <2>3. ASSUME NEW z \in D PROVE \E x \in B : shift[x] = z
    <3>1. z - n \in B /\ (z - n) + n = z
      BY <1>1
    <3> QED
      BY <3>1
  <2>4. \A z \in D : \E x \in B : shift[x] = z
    <3> HIDE DEF B, D, shift
    <3> QED
      BY <2>3
  <2> HIDE DEF A, B, C, D, shift, n, m
  <2> QED
    BY <1>5, <2>1, <2>2, <2>4, SameSize
<1>7. C = A \cup D
  <2> HIDE DEF n, m
  <2>1. ASSUME NEW i PROVE i \in C <=> i \in A \cup D
    BY <1>1, <1>2
  <2> HIDE DEF A, C, D
  <2> QED
    BY <2>1
<1>8. A \cap D = {}
  <2> HIDE DEF n, m
  <2> QED
    BY <1>1
<1>9. Cardinality(A) \in Nat /\ Cardinality(D) \in Nat
  BY <1>5, <1>6, FS_CardinalityType
<1> HIDE DEF A, B, C, D
<1>10. Cardinality(C) = Cardinality(A) + Cardinality(D) - Cardinality({})
  BY <1>5, <1>6, <1>7, <1>8, FS_Union
<1> QED
  BY <1>4, <1>6, <1>9, <1>10, FS_EmptySet DEF HowMany

LEMMA HowManyAppend ==
  ASSUME NEW S, NEW s \in Seq(S), NEW l \in S, NEW kind
  PROVE  HowMany(kind, Append(s, l)) = HowMany(kind, s) + (IF l.token.kind = kind THEN 1 ELSE 0)
<1> DEFINE t == <<l>>
<1>1. Append(s, l) = s \o t /\ t \in Seq(S)
  BY AppendIsConcat
<1>2. HowMany(kind, t) = IF l.token.kind = kind THEN 1 ELSE 0
  BY HowManySingle
<1> HIDE DEF t
<1> QED
  BY <1>1, <1>2, HowManyConcat

LEMMA HeadThenTail ==
  ASSUME NEW S, NEW s \in Seq(S), s # <<>>
  PROVE  s = <<Head(s)>> \o Tail(s)
<1> DEFINE h == <<Head(s)>>
<1>1. /\ Head(s) \in S /\ Tail(s) \in Seq(S) /\ Len(Tail(s)) = Len(s) - 1
      /\ \A i \in 1..Len(Tail(s)) : Tail(s)[i] = s[i + 1]
  BY HeadTailProperties
<1>2. h \in Seq(S) /\ Len(h) = 1 /\ h[1] = Head(s)
  BY <1>1
<1>3. Len(s) \in Nat \ {0} /\ s[1] = Head(s)
  BY EmptySeq
<1> HIDE DEF h
<1>4. s = h \o Tail(s)
  <2>1. /\ h \o Tail(s) \in Seq(S) /\ Len(h \o Tail(s)) = 1 + Len(Tail(s))
        /\ \A i \in 1..(1 + Len(Tail(s))) : (h \o Tail(s))[i] = IF i <= 1 THEN h[i] ELSE Tail(s)[i - 1]
    <3> DEFINE r == Tail(s)
    <3>1. h \in Seq(S) /\ r \in Seq(S) /\ Len(h) = 1
      BY <1>1, <1>2
    <3> HIDE DEF r
    <3>2. /\ h \o r \in Seq(S) /\ Len(h \o r) = Len(h) + Len(r)
          /\ \A i \in 1..(Len(h) + Len(r)) : (h \o r)[i] = IF i <= Len(h) THEN h[i] ELSE r[i - Len(h)]
      BY <3>1, ConcatProperties
    <3> QED
      BY <3>1, <3>2 DEF r
  <2>2. Len(s) = Len(h \o Tail(s))
    BY <1>1, <1>3, <2>1
  <2>3. ASSUME NEW i \in 1..Len(s) PROVE s[i] = (h \o Tail(s))[i]
    <3>1. CASE i = 1
      BY <1>2, <1>3, <2>1, <2>2, <3>1
    <3>2. CASE i # 1
      <4>1. i - 1 \in 1..Len(Tail(s)) /\ (i - 1) + 1 = i
        BY <1>1, <1>3, <3>2
      <4>2. (h \o Tail(s))[i] = Tail(s)[i - 1]
        BY <1>1, <1>3, <2>1, <3>2
      <4> QED
        BY <1>1, <4>1, <4>2
    <3> QED
      BY <3>1, <3>2
  <2> QED
    BY <2>1, <2>2, <2>3, SeqEqual
<1> QED
  BY <1>4 DEF h

LEMMA HowManyHeadTail ==
  ASSUME NEW S, NEW s \in Seq(S), s # <<>>, NEW kind
  PROVE  HowMany(kind, s) = (IF Head(s).token.kind = kind THEN 1 ELSE 0) + HowMany(kind, Tail(s))
<1> DEFINE h == <<Head(s)>>
<1>1. Head(s) \in S /\ Tail(s) \in Seq(S)
  BY HeadTailProperties
<1>2. h \in Seq(S)
  BY <1>1
<1>3. HowMany(kind, h) = IF Head(s).token.kind = kind THEN 1 ELSE 0
  BY HowManySingle
<1>4. s = h \o Tail(s)
  BY HeadThenTail
<1> HIDE DEF h
<1>5. HowMany(kind, h \o Tail(s)) = HowMany(kind, h) + HowMany(kind, Tail(s))
  BY <1>1, <1>2, HowManyConcat
<1> QED
  BY <1>3, <1>4, <1>5

LEMMA HowManyDedents ==
  ASSUME NEW n \in Nat
  PROVE  HowMany("Dedent", Dedents(n)) = n /\ HowMany("Indent", Dedents(n)) = 0
<1>1. DOMAIN Dedents(n) = 1..n /\ \A i \in 1..n : Dedents(n)[i].token.kind = "Dedent"
  BY DEF Dedents, Lexeme, Token
<1>2. Count("Dedent", Dedents(n)) = 1..n /\ Count("Indent", Dedents(n)) = {}
  BY <1>1 DEF Count
<1>3. Cardinality(1..n) = n
  BY FS_Interval
<1> QED
  BY <1>2, <1>3, FS_EmptySet DEF HowMany

-----------------------------------------------------------------------------
(* A dedent finds the level it goes back to.                               *)

LEMMA KeptLevel ==
  ASSUME NEW stack \in Seq(Nat), stack # <<>>, stack[1] = 0, NEW indent \in Nat
  PROVE  /\ Kept(stack, indent) \in 1..Len(stack)
         /\ stack[Kept(stack, indent)] <= indent
         /\ \A j \in 1..Len(stack) : j > Kept(stack, indent) => stack[j] > indent
<1> DEFINE n == Len(stack)
           above == {d \in 0..n : n - d \in 1..n /\ stack[n - d] <= indent}
           less == {p \in Nat \X Nat : p[1] < p[2]}
<1>1. n \in Nat \ {0} /\ DOMAIN stack = 1..n /\ \A k \in 1..n : stack[k] \in Nat
  BY LenProperties, EmptySeq, ElementOfSeq
<1>2. n - 1 \in above /\ above \subseteq Nat
  <2> HIDE DEF n
  <2> QED
    BY <1>1
<1>3. OpToRel(<, Nat) = less
  BY Zenon DEF OpToRel
<1>4. IsWellFoundedOn(less, Nat)
  BY <1>3, NatLessThanWellFounded, Zenon
<1>5. PICK d \in above : \A e \in above : <<e, d>> \notin less
  <2> HIDE DEF less, above
  <2> QED
    BY <1>2, <1>4, WFMin
<1>6. ASSUME NEW j \in 1..n, j > n - d PROVE stack[j] > indent
  <2> HIDE DEF n
  <2>1. d \in 0..n /\ n - j \in 0..n /\ n - (n - j) = j /\ n - j < d
    BY <1>1, <1>5, <1>6
  <2>2. <<n - j, d>> \in less
    BY <1>1, <2>1
  <2>3. n - j \notin above
    BY <1>5, <2>2
  <2> QED
    BY <1>1, <1>6, <2>1, <2>3
<1>7. n - d \in 1..n /\ stack[n - d] <= indent
  OBVIOUS
<1>8. \E k \in DOMAIN stack : stack[k] <= indent /\ \A j \in DOMAIN stack : j > k => stack[j] > indent
  BY <1>1, <1>6, <1>7
<1> HIDE DEF n
<1> QED
  BY <1>1, <1>8, Zenon DEF Kept, n

-----------------------------------------------------------------------------
(* The invariant.                                                          *)

Marks == {Token(k) : k \in {"Newline", "Indent", "Dedent", "DedentError", "TabError"}}
Lexemes == {Lexeme(t, l, w) : t \in Word \cup Marks, l \in Nat, w \in Nat}

Types ==
  /\ source \in Sources /\ line \in 1..Len(source) /\ word \in Nat \ {0}
  /\ at_line_start \in BOOLEAN /\ paren_depth \in Nat /\ indent_stack \in Seq(Nat)
  /\ emitted_eof_dedents \in BOOLEAN /\ ended \in BOOLEAN
  /\ pending \in Seq(Lexemes) /\ returned \in Seq(Lexemes)

\* What has been opened and not closed is what the stack has above its first level.
Tally(kind) == HowMany(kind, returned) + HowMany(kind, pending)
Balanced == Tally("Indent") = Tally("Dedent") + Len(indent_stack) - 1

\* Nothing comes after the dedents of the end, and they come before it.
Finishing == emitted_eof_dedents => AtEndOfSource /\ ~at_line_start /\ indent_stack = <<0>>
Closed == ended => emitted_eof_dedents /\ pending = <<>>

Inv == Types /\ LineStartsOutside /\ BlocksNest /\ Balanced /\ Finishing /\ Closed

\* Paired: when the lexer has ended, it has returned as many Dedents as Indents.
Paired == ended => HowMany("Indent", returned) = HowMany("Dedent", returned)

LEMMA SourceType ==
  ASSUME Types
  PROVE  /\ Len(source) \in Nat \ {0}
         /\ Here.indent \in Nat /\ Here.tab \in BOOLEAN /\ Here.words \in Seq(Word)
<1>1. source \in Seq([indent : Nat, tab : BOOLEAN, words : Seq(Word)]) /\ source # <<>>
  BY SourcesAssumption DEF Types
<1>2. Len(source) \in Nat \ {0} /\ source[line] \in [indent : Nat, tab : BOOLEAN, words : Seq(Word)]
  BY <1>1, EmptySeq, LenProperties, ElementOfSeq DEF Types
<1> QED
  BY <1>2 DEF Here

LEMMA LexemeType ==
  ASSUME Types, NEW w \in Nat, NEW t \in Word \cup Marks
  PROVE  Lexeme(t, line, w) \in Lexemes /\ Lexeme(t, line, w).token = t
<1>1. line \in Nat
  BY SourceType DEF Types
<1>2. Lexeme(t, line, w) \in Lexemes
  BY <1>1 DEF Lexemes
<1> QED
  BY <1>2 DEF Lexeme

LEMMA MarkType ==
  ASSUME NEW k \in {"Newline", "Indent", "Dedent", "DedentError", "TabError"}
  PROVE  Token(k) \in Marks /\ Token(k).kind = k
BY DEF Marks, Token

\* One more is returned that opens and closes nothing.
LEMMA ReturnsPlain ==
  ASSUME Inv, NEW l \in Lexemes, l.token.kind \notin {"Indent", "Dedent"},
         returned' = Append(returned, l), UNCHANGED <<pending, indent_stack>>
  PROVE  returned' \in Seq(Lexemes) /\ Balanced'
<1>1. returned \in Seq(Lexemes)
  BY DEF Inv, Types
<1>2. returned' \in Seq(Lexemes)
  BY <1>1, AppendProperties
<1>3. HowMany("Indent", returned') = HowMany("Indent", returned)
      /\ HowMany("Dedent", returned') = HowMany("Dedent", returned)
  BY <1>1, HowManyAppend, HowManyNat
<1> QED
  BY <1>2, <1>3 DEF Inv, Balanced, Tally

LEMMA KeptReturnPending ==
  ASSUME Inv, ReturnPending
  PROVE  Inv'
<1>1. /\ returned \in Seq(Lexemes) /\ pending \in Seq(Lexemes) /\ pending # <<>>
      /\ returned' = Append(returned, Head(pending)) /\ pending' = Tail(pending)
      /\ UNCHANGED <<source, position, layout, ended>>
  BY DEF Inv, Types, ReturnPending
<1>2. /\ Head(pending) \in Lexemes /\ pending' \in Seq(Lexemes) /\ returned' \in Seq(Lexemes)
  BY <1>1, HeadTailProperties, AppendProperties
<1>3. ASSUME NEW kind PROVE Tally(kind)' = Tally(kind)
  <2>1. HowMany(kind, returned') = HowMany(kind, returned) + (IF Head(pending).token.kind = kind THEN 1 ELSE 0)
    BY <1>1, <1>2, HowManyAppend
  <2>2. HowMany(kind, pending) = (IF Head(pending).token.kind = kind THEN 1 ELSE 0) + HowMany(kind, pending')
    BY <1>1, HowManyHeadTail
  <2>3. HowMany(kind, returned) \in Nat /\ HowMany(kind, pending') \in Nat
    BY <1>1, <1>2, HowManyNat
  <2> QED
    BY <2>1, <2>2, <2>3 DEF Tally
<1>4. Balanced'
  BY <1>1, <1>3 DEF Inv, Balanced, layout
<1>5. ~ended
  BY <1>1 DEF Inv, Closed
<1> QED
  BY <1>1, <1>2, <1>4, <1>5
     DEF Inv, Types, LineStartsOutside, BlocksNest, Finishing, Closed, AtEndOfSource, AtLastLine,
         AtEndOfLine, Here, layout, position

LEMMA KeptSkipBlankLine ==
  ASSUME Inv, SkipBlankLine
  PROVE  Inv'
<1>1. /\ line' = line + 1 /\ line # Len(source) /\ at_line_start
      /\ UNCHANGED <<source, word, layout, pending, returned, ended>>
  BY DEF SkipBlankLine, AtLastLine
<1>2. line' \in 1..Len(source)
  BY <1>1, SourceType DEF Inv, Types
<1>3. Balanced'
  BY <1>1 DEF Inv, Balanced, Tally, layout
<1>4. ~emitted_eof_dedents
  BY <1>1 DEF Inv, Finishing
<1> QED
  BY <1>1, <1>2, <1>3, <1>4
     DEF Inv, Types, LineStartsOutside, BlocksNest, Finishing, Closed, layout

LEMMA KeptNextWord ==
  ASSUME Inv, NextWord
  PROVE  Inv'
<1> DEFINE token == Here.words[word]
<1>1. /\ Scanning /\ ~AtEndOfLine /\ word' = word + 1
      /\ returned' = Append(returned, Lexeme(token, line, word))
      /\ paren_depth' = DepthAfter(paren_depth, token.kind)
      /\ UNCHANGED <<source, line, at_line_start, indent_stack, emitted_eof_dedents, pending, ended>>
  BY DEF NextWord
<1>2. token \in Word
  <2>1. Here.words \in Seq(Word) /\ word \in 1..Len(Here.words)
    BY <1>1, SourceType, LenProperties DEF Inv, Types, AtEndOfLine
  <2> QED
    BY <2>1, ElementOfSeq
<1>3. token.kind \notin {"Indent", "Dedent"}
  BY <1>2, WordAssumption
<1> HIDE DEF token
<1>4. Lexeme(token, line, word) \in Lexemes /\ Lexeme(token, line, word).token = token
  BY <1>2, LexemeType DEF Inv, Types
<1>5. returned' \in Seq(Lexemes) /\ Balanced'
  BY <1>1, <1>3, <1>4, ReturnsPlain
<1>6. paren_depth' \in Nat
  BY <1>1 DEF Inv, Types, DepthAfter
<1>7. ~at_line_start /\ ~ended /\ ~emitted_eof_dedents
  BY <1>1 DEF Inv, Scanning, Finishing, AtEndOfSource
<1> QED
  BY <1>1, <1>5, <1>6, <1>7 DEF Inv, Types, LineStartsOutside, BlocksNest, Finishing, Closed

LEMMA KeptEndOfLine ==
  ASSUME Inv, EndOfLine
  PROVE  Inv'
<1>1. /\ Scanning /\ line # Len(source) /\ line' = line + 1 /\ word' = 1
      /\ UNCHANGED <<source, paren_depth, indent_stack, emitted_eof_dedents, pending, ended>>
  BY DEF EndOfLine, AtLastLine
<1>2. line' \in 1..Len(source) /\ ~ended /\ ~emitted_eof_dedents
  BY <1>1, SourceType DEF Inv, Types, Scanning, Finishing, AtEndOfSource, AtLastLine
<1>3. CASE paren_depth > 0 /\ UNCHANGED <<at_line_start, returned>>
  <2>1. Balanced'
    BY <1>1, <1>3 DEF Inv, Balanced, Tally
  <2> QED
    BY <1>1, <1>2, <1>3, <2>1 DEF Inv, Types, LineStartsOutside, BlocksNest, Finishing, Closed
<1>4. CASE /\ paren_depth = 0 /\ at_line_start' = TRUE
           /\ returned' = Append(returned, Lexeme(Token("Newline"), line, word))
  <2> DEFINE l == Lexeme(Token("Newline"), line, word)
  <2>1. l \in Lexemes /\ l.token = Token("Newline")
    BY LexemeType, MarkType DEF Inv, Types
  <2>2. l.token.kind \notin {"Indent", "Dedent"}
    BY <2>1, MarkType
  <2> HIDE DEF l
  <2>3. returned' = Append(returned, l)
    BY <1>4 DEF l
  <2>4. returned' \in Seq(Lexemes) /\ Balanced'
    BY <1>1, <2>1, <2>2, <2>3, ReturnsPlain
  <2> QED
    BY <1>1, <1>2, <1>4, <2>4 DEF Inv, Types, LineStartsOutside, BlocksNest, Finishing, Closed
<1> QED
  BY <1>3, <1>4 DEF EndOfLine

\* What becomes due accounts for what becomes of the stack.
LEMMA DueBalances ==
  ASSUME Inv, pending = <<>>, returned' = returned, pending' \in Seq(Lexemes),
         Len(indent_stack)' \in Nat,
         HowMany("Indent", pending') = HowMany("Dedent", pending') + Len(indent_stack)' - Len(indent_stack)
  PROVE  Balanced'
<1>1. returned \in Seq(Lexemes) /\ indent_stack \in Seq(Nat)
  BY DEF Inv, Types
<1>2. /\ HowMany("Indent", returned) \in Nat /\ HowMany("Dedent", returned) \in Nat
      /\ HowMany("Indent", pending') \in Nat /\ HowMany("Dedent", pending') \in Nat
      /\ Len(indent_stack) \in Nat
  BY <1>1, HowManyNat, LenProperties
<1>3. HowMany("Indent", returned) + 0 = HowMany("Dedent", returned) + 0 + Len(indent_stack) - 1
  BY HowManyEmpty DEF Inv, Balanced, Tally
<1>4. HowMany("Indent", returned') + HowMany("Indent", pending')
        = HowMany("Dedent", returned') + HowMany("Dedent", pending') + Len(indent_stack)' - 1
  BY <1>2, <1>3
<1> QED
  BY <1>4 DEF Balanced, Tally

LEMMA DedentsType ==
  ASSUME Types, NEW n \in Nat
  PROVE  Dedents(n) \in Seq(Lexemes)
<1>1. Lexeme(Token("Dedent"), line, 0) \in Lexemes
  BY LexemeType, MarkType
<1>2. Dedents(n) = [i \in 1..n |-> Lexeme(Token("Dedent"), line, 0)]
  BY DEF Dedents
<1> QED
  BY <1>1, <1>2, IsASeq

LEMMA DeeperLine ==
  ASSUME Inv, pending = <<>>, returned' = returned, NEW indent \in Nat,
         indent > indent_stack[Len(indent_stack)], indent_stack' = Append(indent_stack, indent),
         pending' = <<Lexeme(Token("Indent"), line, 0)>>
  PROVE  pending' \in Seq(Lexemes) /\ indent_stack' \in Seq(Nat) /\ BlocksNest' /\ Balanced'
<1> DEFINE l == Lexeme(Token("Indent"), line, 0)
           n == Len(indent_stack)
<1>1. l \in Lexemes /\ l.token.kind = "Indent"
  BY LexemeType, MarkType DEF Inv, Types
<1> HIDE DEF l
<1>2. pending' = <<l>> /\ pending' \in Seq(Lexemes)
  BY <1>1 DEF l
<1>3. indent_stack \in Seq(Nat) /\ n \in Nat \ {0} /\ indent_stack[1] = 0
      /\ \A i, j \in 1..n : i < j => indent_stack[i] < indent_stack[j]
  BY EmptySeq, LenProperties DEF Inv, Types, BlocksNest
<1>4. /\ indent_stack' \in Seq(Nat) /\ Len(indent_stack') = n + 1
      /\ \A i \in 1..n : indent_stack'[i] = indent_stack[i]
      /\ indent_stack'[n + 1] = indent
  BY <1>3, AppendProperties
<1>5. BlocksNest'
  <2>1. DOMAIN indent_stack' = 1..(n + 1) /\ indent_stack' # <<>>
    BY <1>3, <1>4, LenProperties
  <2>2. \A i \in 1..n : indent_stack[i] \in Nat
    BY <1>3, ElementOfSeq
  <2> HIDE DEF n
  <2>3. ASSUME NEW i \in 1..(n + 1), NEW j \in 1..(n + 1), i < j
        PROVE  indent_stack'[i] < indent_stack'[j]
    <3>1. CASE j = n + 1
      <4>1. i \in 1..n /\ (i = n \/ indent_stack[i] < indent_stack[n])
        BY <1>3, <2>3, <3>1
      <4>2. indent_stack[n] < indent
        BY DEF n
      <4>3. indent_stack[i] < indent
        BY <1>3, <2>2, <4>1, <4>2
      <4> QED
        BY <1>4, <3>1, <4>1, <4>3
    <3>2. CASE j # n + 1
      BY <1>3, <1>4, <2>3, <3>2
    <3> QED
      BY <3>1, <3>2
  <2> QED
    BY <1>3, <1>4, <2>1, <2>3, SMTT(20) DEF BlocksNest
<1>6. HowMany("Indent", pending') = 1 /\ HowMany("Dedent", pending') = 0
  BY <1>1, <1>2, HowManySingle
<1>7. Balanced'
  BY <1>2, <1>3, <1>4, <1>6, DueBalances
<1> QED
  BY <1>2, <1>4, <1>5, <1>7

\* The levels below a level that is kept nest like the whole stack.
LEMMA PrefixNests ==
  ASSUME NEW s \in Seq(Nat), NEW k \in 1..Len(s), s[1] = 0,
         \A i, j \in 1..Len(s) : i < j => s[i] < s[j],
         NEW t, t = SubSeq(s, 1, k)
  PROVE  /\ t \in Seq(Nat) /\ Len(t) = k /\ DOMAIN t = 1..k /\ t # <<>> /\ t[1] = 0
         /\ \A i, j \in 1..k : i < j => t[i] < t[j]
<1>1. Len(s) \in Nat /\ \A i \in 1..k : s[i] \in Nat
  <2>1. Len(s) \in Nat
    BY LenProperties
  <2> QED
    BY <2>1, ElementOfSeq
<1>2. 1 \in Int /\ k \in Int /\ 1 <= k
  BY <1>1
<1>3. /\ t \in Seq(Nat)
      /\ Len(t) = IF 1 <= k THEN k - 1 + 1 ELSE 0
      /\ \A i \in 1..(k - 1 + 1) : t[i] = s[1 + i - 1]
  BY <1>1, <1>2, SubSeqProperties
<1>4. Len(t) = k /\ \A i \in 1..k : t[i] = s[i]
  BY <1>2, <1>3
<1>5. DOMAIN t = 1..k
  BY <1>3, <1>4, LenProperties
<1>6. t # <<>>
  <2>1. Len(t) # 0
    BY <1>2, <1>4
  <2> QED
    BY <2>1, EmptySeq
<1>7. ASSUME NEW i \in 1..k, NEW j \in 1..k, i < j PROVE t[i] < t[j]
  <2>1. i \in 1..Len(s) /\ j \in 1..Len(s)
    BY <1>1, <1>2
  <2>2. s[i] < s[j]
    BY <1>7, <2>1
  <2> QED
    BY <1>4, <2>2
<1>8. t[1] = 0
  <2>1. 1 \in 1..k
    BY <1>2
  <2> QED
    BY <1>4, <2>1
<1> QED
  BY <1>3, <1>4, <1>5, <1>6, <1>7, <1>8

LEMMA ShallowerLine ==
  ASSUME Inv, pending = <<>>, returned' = returned, NEW indent \in Nat,
         indent_stack' = SubSeq(indent_stack, 1, Kept(indent_stack, indent)),
         NEW error \in {<<>>, <<Lexeme(Token("DedentError"), line, 0)>>},
         pending' = Dedents(Len(indent_stack) - Kept(indent_stack, indent)) \o error
  PROVE  pending' \in Seq(Lexemes) /\ indent_stack' \in Seq(Nat) /\ BlocksNest' /\ Balanced'
<1> DEFINE n == Len(indent_stack)
           kept == Kept(indent_stack, indent)
           below == SubSeq(indent_stack, 1, kept)
           due == Dedents(n - kept)
           both == due \o error
<1>1. indent_stack \in Seq(Nat) /\ n \in Nat \ {0} /\ indent_stack[1] = 0
      /\ \A i, j \in 1..n : i < j => indent_stack[i] < indent_stack[j]
  BY EmptySeq, LenProperties DEF Inv, Types, BlocksNest
<1>2. kept \in 1..n
  BY <1>1, KeptLevel, EmptySeq
<1>3. indent_stack' = below /\ pending' = both
  OBVIOUS
<1> HIDE DEF kept
<1>4. /\ below \in Seq(Nat) /\ Len(below) = kept /\ DOMAIN below = 1..kept /\ below # <<>> /\ below[1] = 0
      /\ \A i, j \in 1..kept : i < j => below[i] < below[j]
  BY <1>1, <1>2, PrefixNests
<1> HIDE DEF n, below
<1>5. indent_stack' \in Seq(Nat) /\ Len(indent_stack') = kept /\ BlocksNest'
  BY <1>3, <1>4 DEF BlocksNest
<1>6. error \in Seq(Lexemes) /\ HowMany("Indent", error) = 0 /\ HowMany("Dedent", error) = 0
  <2>1. CASE error = <<>>
    BY <2>1, HowManyEmpty
  <2>2. CASE error = <<Lexeme(Token("DedentError"), line, 0)>>
    <3> DEFINE l == Lexeme(Token("DedentError"), line, 0)
    <3>1. l \in Lexemes /\ l.token.kind = "DedentError"
      BY LexemeType, MarkType DEF Inv, Types
    <3> HIDE DEF l
    <3>2. error = <<l>>
      BY <2>2 DEF l
    <3> QED
      BY <3>1, <3>2, HowManySingle
  <2> QED
    BY <2>1, <2>2
<1>7. n - kept \in Nat
  BY <1>1, <1>2
<1>8. due \in Seq(Lexemes) /\ HowMany("Dedent", due) = n - kept /\ HowMany("Indent", due) = 0
  BY <1>7, DedentsType, HowManyDedents DEF Inv
<1> HIDE DEF due
<1>9. both \in Seq(Lexemes)
  BY <1>6, <1>8, ConcatProperties
<1>10. /\ HowMany("Dedent", both) = HowMany("Dedent", due) + HowMany("Dedent", error)
       /\ HowMany("Indent", both) = HowMany("Indent", due) + HowMany("Indent", error)
  BY <1>6, <1>8, HowManyConcat
<1> HIDE DEF both
<1>11. pending' \in Seq(Lexemes) /\ HowMany("Dedent", pending') = n - kept /\ HowMany("Indent", pending') = 0
  <2>1. HowMany("Dedent", both) = n - kept /\ HowMany("Indent", both) = 0
    BY <1>6, <1>7, <1>8, <1>10
  <2> QED
    BY <1>3, <1>9, <2>1
<1>12. /\ Len(indent_stack)' \in Nat
       /\ HowMany("Indent", pending') = HowMany("Dedent", pending') + Len(indent_stack)' - Len(indent_stack)
  <2>1. Len(indent_stack)' = kept /\ Len(indent_stack) = n
    BY <1>5 DEF n
  <2>2. kept \in Nat /\ 0 = (n - kept) + kept - n
    BY <1>1, <1>2
  <2> QED
    BY <1>11, <2>1, <2>2
<1>13. Balanced'
  BY <1>11, <1>12, DueBalances
<1> QED
  BY <1>5, <1>11, <1>13

LEMMA KeptLineStart ==
  ASSUME Inv, LineStart
  PROVE  Inv'
<1>1. /\ pending = <<>> /\ at_line_start /\ at_line_start' = FALSE
      /\ UNCHANGED <<source, position, paren_depth, emitted_eof_dedents, returned, ended>>
      /\ ~emitted_eof_dedents /\ ~ended
  BY DEF LineStart, Inv, Finishing, Closed
<1>2. /\ Here.indent \in Nat /\ indent_stack \in Seq(Nat) /\ indent_stack # <<>> /\ indent_stack[1] = 0
      /\ pending \in Seq(Lexemes)
  BY SourceType DEF Inv, Types, BlocksNest
<1>3. SUFFICES pending' \in Seq(Lexemes) /\ indent_stack' \in Seq(Nat) /\ BlocksNest' /\ Balanced'
  BY <1>1 DEF Inv, Types, LineStartsOutside, Finishing, Closed, position
<1>4. CASE Here.tab /\ pending' = <<Lexeme(Token("TabError"), line, 0)>> /\ UNCHANGED indent_stack
  <2> DEFINE l == Lexeme(Token("TabError"), line, 0)
  <2>1. l \in Lexemes /\ l.token.kind = "TabError"
    BY LexemeType, MarkType DEF Inv, Types
  <2> HIDE DEF l
  <2>2. pending' = <<l>>
    BY <1>4 DEF l
  <2>3. pending' \in Seq(Lexemes) /\ HowMany("Indent", pending') = 0 /\ HowMany("Dedent", pending') = 0
    BY <2>1, <2>2, HowManySingle
  <2>4. Len(indent_stack)' \in Nat /\ Len(indent_stack)' = Len(indent_stack)
    BY <1>2, <1>4, LenProperties
  <2>5. HowMany("Indent", pending') = HowMany("Dedent", pending') + Len(indent_stack)' - Len(indent_stack)
    BY <2>3, <2>4
  <2>6. Balanced'
    BY <1>1, <2>3, <2>4, <2>5, DueBalances
  <2> QED
    BY <1>2, <1>4, <2>3, <2>6 DEF Inv, BlocksNest
<1>5. CASE UNCHANGED <<pending, indent_stack>>
  BY <1>1, <1>2, <1>5 DEF Inv, BlocksNest, Balanced, Tally
<1>6. CASE Indentation(Here.indent)
  <2> DEFINE top == indent_stack[Len(indent_stack)]
             kept == Kept(indent_stack, Here.indent)
             error == IF indent_stack[kept] = Here.indent THEN <<>>
                      ELSE <<Lexeme(Token("DedentError"), line, 0)>>
  <2>1. CASE /\ Here.indent > top
             /\ indent_stack' = Append(indent_stack, Here.indent)
             /\ pending' = <<Lexeme(Token("Indent"), line, 0)>>
    BY <1>1, <1>2, <2>1, DeeperLine
  <2>2. CASE /\ indent_stack' = SubSeq(indent_stack, 1, kept)
             /\ pending' = Dedents(Len(indent_stack) - kept) \o error
    <3>1. error \in {<<>>, <<Lexeme(Token("DedentError"), line, 0)>>}
      OBVIOUS
    <3> HIDE DEF error
    <3> QED
      BY <1>1, <1>2, <2>2, <3>1, ShallowerLine
  <2> QED
    BY <1>5, <1>6, <2>1, <2>2 DEF Indentation
<1> QED
  BY <1>4, <1>5, <1>6 DEF LineStart

LEMMA KeptEmitEofDedents ==
  ASSUME Inv, EmitEofDedents
  PROVE  Inv'
<1> DEFINE n == Len(indent_stack)
<1>1. /\ pending = <<>> /\ ~at_line_start /\ ~ended /\ AtEndOfSource
      /\ emitted_eof_dedents' = TRUE /\ indent_stack' = <<0>> /\ pending' = Dedents(n - 1)
      /\ UNCHANGED <<source, position, at_line_start, paren_depth, returned, ended>>
  BY DEF EmitEofDedents, Scanning
<1>2. n \in Nat \ {0} /\ n - 1 \in Nat
  BY EmptySeq DEF Inv, Types, BlocksNest
<1> HIDE DEF n
<1>3. pending' \in Seq(Lexemes) /\ HowMany("Dedent", pending') = n - 1 /\ HowMany("Indent", pending') = 0
  BY <1>1, <1>2, DedentsType, HowManyDedents DEF Inv
<1>4. Len(indent_stack)' = 1 /\ indent_stack' \in Seq(Nat) /\ BlocksNest'
  BY <1>1 DEF BlocksNest
<1>5. HowMany("Indent", pending') = HowMany("Dedent", pending') + Len(indent_stack)' - Len(indent_stack)
  <2>1. 0 = (n - 1) + 1 - n
    BY <1>2
  <2> QED
    BY <1>3, <1>4, <2>1 DEF n
<1>6. Balanced'
  BY <1>1, <1>3, <1>4, <1>5, DueBalances
<1> QED
  BY <1>1, <1>3, <1>4, <1>6
     DEF Inv, Types, LineStartsOutside, Finishing, Closed, position, AtEndOfSource, AtLastLine, AtEndOfLine,
         Here

LEMMA KeptReturnNone ==
  ASSUME Inv, ReturnNone
  PROVE  Inv'
<1>1. /\ pending = <<>> /\ emitted_eof_dedents /\ ended' = TRUE
      /\ UNCHANGED <<source, position, layout, pending, returned>>
  BY DEF ReturnNone, Scanning
<1>2. Balanced'
  BY <1>1 DEF Inv, Balanced, Tally, layout
<1> QED
  BY <1>1, <1>2
     DEF Inv, Types, LineStartsOutside, BlocksNest, Finishing, Closed, layout, position, AtEndOfSource,
         AtLastLine, AtEndOfLine, Here

-----------------------------------------------------------------------------
(* The theorem.                                                            *)

LEMMA InitialInv == LexerInit => Inv
<1> SUFFICES ASSUME LexerInit PROVE Inv
  OBVIOUS
<1>1. Types
  <2>1. source \in Seq([indent : Nat, tab : BOOLEAN, words : Seq(Word)]) /\ source # <<>>
    BY SourcesAssumption DEF LexerInit
  <2>2. Len(source) \in Nat \ {0}
    BY <2>1, EmptySeq, LenProperties
  <2>3. <<>> \in Seq(Lexemes) /\ <<0>> \in Seq(Nat)
    <3> HIDE DEF Lexemes
    <3> QED
      BY EmptySeq
  <2>4. line \in 1..Len(source) /\ word \in Nat \ {0} /\ paren_depth \in Nat
    BY <2>2 DEF LexerInit
  <2>5. at_line_start \in BOOLEAN /\ emitted_eof_dedents \in BOOLEAN /\ ended \in BOOLEAN
    BY DEF LexerInit
  <2>6. source \in Sources /\ pending = <<>> /\ returned = <<>> /\ indent_stack = <<0>>
    BY DEF LexerInit
  <2> QED
    BY <2>3, <2>4, <2>5, <2>6, Zenon DEF Types
<1>2. Balanced
  <2>1. HowMany("Indent", <<>>) = 0 /\ HowMany("Dedent", <<>>) = 0
    BY HowManyEmpty
  <2>2. returned = <<>> /\ pending = <<>> /\ Len(indent_stack) = 1
    BY DEF LexerInit
  <2> QED
    BY <2>1, <2>2 DEF Balanced, Tally
<1> QED
  BY <1>1, <1>2 DEF LexerInit, Inv, LineStartsOutside, BlocksNest, Finishing, Closed

LEMMA InvPairs == Inv => Paired
<1> SUFFICES ASSUME Inv, ended PROVE HowMany("Indent", returned) = HowMany("Dedent", returned)
  BY DEF Paired
<1>1. returned \in Seq(Lexemes) /\ pending = <<>> /\ Len(indent_stack) = 1
  BY DEF Inv, Types, Finishing, Closed
<1>2. HowMany("Indent", returned) \in Nat /\ HowMany("Dedent", returned) \in Nat
  BY <1>1, HowManyNat
<1>3. HowMany("Indent", returned) + 0 = HowMany("Dedent", returned) + 0 + 1 - 1
  BY <1>1, HowManyEmpty DEF Inv, Balanced, Tally
<1> QED
  BY <1>2, <1>3

LEMMA KeptInv ==
  ASSUME Inv, [NextToken]_lexerVars
  PROVE  Inv'
<1>1. CASE UNCHANGED lexerVars
  BY <1>1
     DEF lexerVars, Inv, Types, LineStartsOutside, BlocksNest, Balanced, Tally, Finishing, Closed, layout,
         position, AtEndOfSource, AtLastLine, AtEndOfLine, Here
<1> QED
  BY <1>1, KeptReturnPending, KeptSkipBlankLine, KeptLineStart, KeptNextWord, KeptEndOfLine,
     KeptEmitEofDedents, KeptReturnNone
     DEF NextToken

\* Whatever the text, its blocks nest, a line is entered outside of delimiters,
\* and what next_token has returned when it first returns None has a Dedent for
\* every Indent: the errors of the lexer do not unbalance what it gives the
\* parser, which drops them.
THEOREM LexerCorrect == LexerSpec => [](BlocksNest /\ LineStartsOutside /\ Paired)
<1>1. Inv /\ [NextToken]_lexerVars => Inv'
  BY KeptInv
<1>2. Inv => BlocksNest /\ LineStartsOutside /\ Paired
  BY InvPairs DEF Inv
<1> QED
  BY <1>1, <1>2, InitialInv, PTL DEF LexerSpec

-----------------------------------------------------------------------------
(* Words and the delimiters before them.                                   *)

LEMMA LineType ==
  ASSUME NEW text \in Sources, NEW l \in 1..Len(text)
  PROVE  /\ Len(text) \in Nat \ {0} /\ DOMAIN text = 1..Len(text) /\ l \in Nat
         /\ text[l].indent \in Nat /\ text[l].tab \in BOOLEAN
         /\ text[l].words \in Seq(Word) /\ Len(text[l].words) \in Nat
         /\ DOMAIN text[l].words = 1..Len(text[l].words)
         /\ \A w \in 1..Len(text[l].words) : text[l].words[w] \in Word
<1>1. text \in Seq([indent : Nat, tab : BOOLEAN, words : Seq(Word)]) /\ text # <<>>
  BY SourcesAssumption
<1>2. Len(text) \in Nat \ {0} /\ DOMAIN text = 1..Len(text)
  BY <1>1, EmptySeq, LenProperties
<1>3. text[l] \in [indent : Nat, tab : BOOLEAN, words : Seq(Word)]
  BY <1>1, ElementOfSeq
<1>4. text[l].words \in Seq(Word)
  BY <1>3
<1>5. \A w \in 1..Len(text[l].words) : text[l].words[w] \in Word
  BY <1>4, ElementOfSeq
<1> QED
  BY <1>2, <1>3, <1>4, <1>5, LenProperties

LEMMA PlaceBefore ==
  ASSUME NEW text, NEW l, NEW w, NEW k, NEW v
  PROVE  <<k, v>> \in Before(text, l, w) <=>
           k \in 1..l /\ v \in DOMAIN text[k].words /\ (k < l \/ v < w)
BY DEF Before

LEMMA PairBefore ==
  ASSUME NEW text, NEW l, NEW w, NEW p \in Before(text, l, w)
  PROVE  p = <<p[1], p[2]>>
BY DEF Before

\* Going on by a word, or to the next line behind all words.
LEMMA BeforeNextWord ==
  ASSUME NEW text \in Sources, NEW l \in 1..Len(text), NEW w \in 1..Len(text[l].words)
  PROVE  /\ Before(text, l, w + 1) = Before(text, l, w) \cup {<<l, w>>}
         /\ <<l, w>> \notin Before(text, l, w)
<1>1. /\ l \in Nat /\ w \in Nat /\ w \in DOMAIN text[l].words
      /\ \A k \in 1..l : DOMAIN text[k].words \subseteq Nat
  BY LineType
<1>2. <<l, w>> \notin Before(text, l, w)
  BY <1>1, PlaceBefore
<1>3. ASSUME NEW k, NEW v
      PROVE  <<k, v>> \in Before(text, l, w + 1) <=> <<k, v>> \in Before(text, l, w) \/ (k = l /\ v = w)
  <2>1. k \in 1..l /\ v \in DOMAIN text[k].words =>
          (k < l \/ v < w + 1 <=> (k < l \/ v < w) \/ (k = l /\ v = w))
    BY <1>1
  <2>2. k = l /\ v = w => k \in 1..l /\ v \in DOMAIN text[k].words
    BY <1>1
  <2> QED
    BY <2>1, <2>2, PlaceBefore
<1>4. ASSUME NEW p PROVE p \in Before(text, l, w + 1) <=> p \in Before(text, l, w) \cup {<<l, w>>}
  <2>1. p \in Before(text, l, w + 1) => p = <<p[1], p[2]>>
    BY PairBefore
  <2>2. p \in Before(text, l, w) \cup {<<l, w>>} => p = <<p[1], p[2]>>
    BY PairBefore
  <2> QED
    BY <1>3, <2>1, <2>2
<1> QED
  BY <1>2, <1>4

LEMMA BeforeNextLine ==
  ASSUME NEW text \in Sources, NEW l \in 1..Len(text), l + 1 \in 1..Len(text),
         NEW w \in Nat, w > Len(text[l].words)
  PROVE  Before(text, l + 1, 1) = Before(text, l, w)
<1>1. l \in Nat /\ Len(text) \in Nat
  BY LineType
<1>2. ASSUME NEW k \in 1..(l + 1)
      PROVE  Len(text[k].words) \in Nat /\ DOMAIN text[k].words = 1..Len(text[k].words)
  BY <1>1, LineType
<1>3. ASSUME NEW k, NEW v
      PROVE  <<k, v>> \in Before(text, l + 1, 1) <=> <<k, v>> \in Before(text, l, w)
  <2>1. ASSUME k \in 1..(l + 1), v \in DOMAIN text[k].words, k < l + 1 \/ v < 1
        PROVE  k \in 1..l /\ (k < l \/ v < w)
    <3>1. v \in 1..Len(text[k].words) /\ Len(text[k].words) \in Nat
      BY <1>2, <2>1
    <3>2. k \in 1..l /\ (k < l \/ k = l)
      BY <1>1, <2>1, <3>1
    <3>3. CASE k = l
      BY <3>1, <3>2, <3>3
    <3> QED
      BY <3>2, <3>3
  <2>2. ASSUME k \in 1..l PROVE k \in 1..(l + 1) /\ k < l + 1
    BY <1>1, <2>2
  <2> QED
    BY <2>1, <2>2, PlaceBefore
<1>4. ASSUME NEW p PROVE p \in Before(text, l + 1, 1) <=> p \in Before(text, l, w)
  <2>1. p \in Before(text, l + 1, 1) => p = <<p[1], p[2]>>
    BY PairBefore
  <2>2. p \in Before(text, l, w) => p = <<p[1], p[2]>>
    BY PairBefore
  <2> QED
    BY <1>3, <2>1, <2>2
<1> QED
  BY <1>4

LEMMA BeforeFinite ==
  ASSUME NEW text \in Sources, NEW l \in 1..Len(text), NEW w
  PROVE  IsFiniteSet(Before(text, l, w))
<1> DEFINE Row(k) == {k} \X DOMAIN text[k].words
           row == [k \in 1..l |-> Row(k)]
           Rows == {Row(k) : k \in 1..l}
<1>1. l \in Nat /\ \A k \in 1..l : k \in 1..Len(text)
  BY LineType
<1>2. ASSUME NEW k \in 1..l PROVE IsFiniteSet(Row(k))
  <2>1. IsFiniteSet({k})
    BY FS_Singleton
  <2>2. DOMAIN text[k].words = 1..Len(text[k].words) /\ Len(text[k].words) \in Nat
    BY <1>1, LineType
  <2>3. IsFiniteSet(1..Len(text[k].words))
    <3> DEFINE n == Len(text[k].words)
    <3>1. n \in Nat
      BY <2>2
    <3> HIDE DEF n
    <3>2. IsFiniteSet(1..n)
      BY <3>1, FS_Interval
    <3> QED
      BY <3>2 DEF n
  <2> QED
    BY <2>1, <2>2, <2>3, FS_Product
<1>3. IsFiniteSet(Rows)
  <2>1. IsFiniteSet(1..l)
    BY <1>1, FS_Interval
  <2> HIDE DEF Row
  <2>2. row \in Surjection(1..l, Rows)
    BY Fun_IsSurj
  <2> QED
    BY <2>1, <2>2, FS_Surjection
<1>4. \A r \in Rows : IsFiniteSet(r)
  <2> HIDE DEF Row
  <2> QED
    BY <1>2
<1>5. IsFiniteSet(UNION Rows)
  BY <1>3, <1>4, FS_UNION
<1>6. Before(text, l, w) \subseteq UNION Rows
  BY DEF Before
<1> QED
  BY <1>5, <1>6, FS_Subset

OfKind(text, l, w, kinds) == {p \in Before(text, l, w) : text[p[1]].words[p[2]].kind \in kinds}

LEMMA OfKindNext ==
  ASSUME NEW text \in Sources, NEW l \in 1..Len(text), NEW w \in 1..Len(text[l].words), NEW kinds
  PROVE  /\ IsFiniteSet(OfKind(text, l, w, kinds)) /\ Cardinality(OfKind(text, l, w, kinds)) \in Nat
         /\ Cardinality(OfKind(text, l, w + 1, kinds)) =
              Cardinality(OfKind(text, l, w, kinds)) +
                (IF text[l].words[w].kind \in kinds THEN 1 ELSE 0)
<1> DEFINE all == OfKind(text, l, w, kinds)
           p == <<l, w>>
<1>1. IsFiniteSet(all)
  <2>1. all \subseteq Before(text, l, w)
    BY DEF OfKind
  <2> QED
    BY <2>1, BeforeFinite, FS_Subset
<1>2. p \notin all
  BY BeforeNextWord DEF OfKind
<1>3. OfKind(text, l, w + 1, kinds) =
        {q \in Before(text, l, w) \cup {p} : text[q[1]].words[q[2]].kind \in kinds}
  <2>1. Before(text, l, w + 1) = Before(text, l, w) \cup {p}
    BY ZenonT(30), BeforeNextWord
  <2> QED
    BY <2>1 DEF OfKind
<1> HIDE DEF p
<1>4. p[1] = l /\ p[2] = w
  BY DEF p
<1>5. CASE text[l].words[w].kind \in kinds
  <2>1. OfKind(text, l, w + 1, kinds) = all \cup {p}
    BY <1>3, <1>4, <1>5 DEF OfKind
  <2> HIDE DEF all
  <2>2. Cardinality(all \cup {p}) = Cardinality(all) + 1
    BY <1>1, <1>2, FS_AddElement
  <2> QED
    BY <1>1, <1>5, <2>1, <2>2, FS_CardinalityType DEF all
<1>6. CASE text[l].words[w].kind \notin kinds
  <2>1. OfKind(text, l, w + 1, kinds) = all
    BY <1>3, <1>4, <1>6 DEF OfKind
  <2> HIDE DEF all
  <2> QED
    BY <1>1, <1>6, <2>1, FS_CardinalityType DEF all
<1> QED
  BY <1>5, <1>6

LEMMA OpenNextWord ==
  ASSUME NEW text \in Sources, NEW l \in 1..Len(text), NEW w \in 1..Len(text[l].words)
  PROVE  /\ Open(text, l, w) \in Int
         /\ Open(text, l, w + 1) =
              IF text[l].words[w].kind \in Opening THEN Open(text, l, w) + 1
              ELSE IF text[l].words[w].kind \in Closing THEN Open(text, l, w) - 1
              ELSE Open(text, l, w)
<1> DEFINE kind == text[l].words[w].kind
           o == Cardinality(OfKind(text, l, w, Opening))
           c == Cardinality(OfKind(text, l, w, Closing))
<1>1. Open(text, l, w) = o - c
  BY DEF Open, OfKind
<1>2. Open(text, l, w + 1) =
        Cardinality(OfKind(text, l, w + 1, Opening)) - Cardinality(OfKind(text, l, w + 1, Closing))
  BY DEF Open, OfKind
<1>3. /\ o \in Nat /\ c \in Nat
      /\ Open(text, l, w + 1) =
           (o + (IF kind \in Opening THEN 1 ELSE 0)) - (c + (IF kind \in Closing THEN 1 ELSE 0))
  BY <1>2, OfKindNext
<1>4. ~(kind \in Opening /\ kind \in Closing)
  BY DEF Opening, Closing
<1> HIDE DEF kind, o, c
<1> QED
  BY <1>1, <1>3, <1>4 DEF kind

LEMMA OpenNextLine ==
  ASSUME NEW text \in Sources, NEW l \in 1..Len(text), l + 1 \in 1..Len(text),
         NEW w \in Nat, w > Len(text[l].words)
  PROVE  Open(text, l + 1, 1) = Open(text, l, w)
BY BeforeNextLine DEF Open

LEMMA OpenFirst ==
  ASSUME NEW text \in Sources
  PROVE  Open(text, 1, 1) = 0
<1>1. 1 \in 1..Len(text)
  <2>1. text \in Seq([indent : Nat, tab : BOOLEAN, words : Seq(Word)]) /\ text # <<>>
    BY SourcesAssumption
  <2>2. Len(text) \in Nat \ {0}
    BY <2>1, EmptySeq, LenProperties
  <2> QED
    BY <2>2
<1>2. DOMAIN text[1].words = 1..Len(text[1].words)
  BY <1>1, LineType
<1>3. Before(text, 1, 1) = {}
  <2>1. ASSUME NEW p \in Before(text, 1, 1) PROVE FALSE
    <3>1. <<p[1], p[2]>> \in Before(text, 1, 1)
      BY PairBefore
    <3>2. p[1] \in 1..1 /\ p[2] \in DOMAIN text[p[1]].words /\ (p[1] < 1 \/ p[2] < 1)
      BY <3>1, PlaceBefore
    <3>3. p[1] = 1
      BY <3>2
    <3>4. p[2] \in 1..Len(text[1].words) /\ p[2] < 1
      BY <1>2, <3>2, <3>3
    <3>5. Len(text[1].words) \in Nat
      BY <1>1, LineType
    <3> QED
      BY <3>4, <3>5
  <2> QED
    BY <2>1
<1>4. \A kinds : OfKind(text, 1, 1, kinds) = {}
  BY <1>3 DEF OfKind
<1>5. Open(text, 1, 1) = Cardinality({}) - Cardinality({})
  BY <1>4 DEF Open, OfKind
<1> QED
  BY <1>5, FS_EmptySet

-----------------------------------------------------------------------------
(* Blocks, line after line.                                                *)

LEMMA DepthsType ==
  ASSUME NEW text \in Sources, NEW l
  PROVE  /\ l \in DOMAIN Depths(text) <=>
              l \in 1..Len(text) /\ ~text[l].tab /\ ~Blank(text[l]) /\ Open(text, l, 1) = 0
         /\ l \in DOMAIN Depths(text) => /\ l \in Nat /\ Depths(text)[l] = text[l].indent
                                         /\ Depths(text)[l] \in Nat
<1>1. text \in Seq([indent : Nat, tab : BOOLEAN, words : Seq(Word)]) /\ text # <<>>
  BY SourcesAssumption
<1>2. DOMAIN text = 1..Len(text)
  BY <1>1, LenProperties
<1>3. l \in 1..Len(text) => l \in Nat /\ text[l].indent \in Nat
  BY LineType
<1> QED
  BY <1>2, <1>3 DEF Depths

IsDepth(depth) == \A k \in DOMAIN depth : k \in Nat /\ depth[k] \in Nat

LEMMA BlockIn ==
  ASSUME NEW depth, NEW l, NEW b
  PROVE  b \in Blocks(depth, l) <=>
           \E k \in DOMAIN depth :
             /\ k <= l /\ depth[k] > 0 /\ b = depth[k]
             /\ \A j \in DOMAIN depth : k <= j /\ j <= l => depth[j] >= depth[k]
BY DEF Blocks

\* A line whose indentation does not count neither ends a block nor begins one.
LEMMA BlocksSkip ==
  ASSUME NEW depth, IsDepth(depth), NEW l \in Nat, l \notin DOMAIN depth
  PROVE  Blocks(depth, l) = Blocks(depth, l - 1)
<1>1. \A k \in DOMAIN depth : k <= l <=> k <= l - 1
  BY DEF IsDepth
<1> QED
  BY <1>1 DEF Blocks

\* One whose indentation counts ends the deeper ones, and is in one itself.
LEMMA BlocksAt ==
  ASSUME NEW depth, IsDepth(depth), NEW l \in DOMAIN depth
  PROVE  Blocks(depth, l) =
           {b \in Blocks(depth, l - 1) : b <= depth[l]} \cup {b \in {depth[l]} : b > 0}
<1>1. /\ l \in Nat /\ depth[l] \in Nat
      /\ \A k \in DOMAIN depth : k \in Nat /\ depth[k] \in Nat
      /\ \A k \in DOMAIN depth : k <= l <=> k <= l - 1 \/ k = l
      /\ \A k \in DOMAIN depth : k <= l - 1 => ~(l <= k)
  BY DEF IsDepth
<1>2. ASSUME NEW b \in Blocks(depth, l)
      PROVE  (b \in Blocks(depth, l - 1) /\ b <= depth[l]) \/ (b = depth[l] /\ b > 0)
  <2>1. PICK k \in DOMAIN depth :
          /\ k <= l /\ depth[k] > 0 /\ b = depth[k]
          /\ \A j \in DOMAIN depth : k <= j /\ j <= l => depth[j] >= depth[k]
    BY BlockIn
  <2>2. CASE k = l
    BY <2>1, <2>2
  <2>3. CASE k # l
    <3>1. k <= l - 1 /\ depth[l] >= b
      BY <1>1, <2>1, <2>3
    <3>2. b \in Blocks(depth, l - 1)
      BY <1>1, <2>1, <3>1, BlockIn
    <3> QED
      BY <1>1, <2>1, <3>1, <3>2
  <2> QED
    BY <2>2, <2>3
<1>3. ASSUME NEW b \in Blocks(depth, l - 1), b <= depth[l]
      PROVE  b \in Blocks(depth, l)
  <2>1. PICK k \in DOMAIN depth :
          /\ k <= l - 1 /\ depth[k] > 0 /\ b = depth[k]
          /\ \A j \in DOMAIN depth : k <= j /\ j <= l - 1 => depth[j] >= depth[k]
    BY BlockIn
  <2>2. \A j \in DOMAIN depth : k <= j /\ j <= l => depth[j] >= depth[k]
    BY <1>1, <1>3, <2>1
  <2>3. k <= l
    BY <1>1, <2>1
  <2> QED
    BY <2>1, <2>2, <2>3, BlockIn
<1>4. ASSUME depth[l] > 0
      PROVE  depth[l] \in Blocks(depth, l)
  <2>1. \A j \in DOMAIN depth : l <= j /\ j <= l => depth[j] >= depth[l]
    BY <1>1
  <2>2. l <= l
    BY <1>1
  <2> QED
    BY <1>4, <2>1, <2>2, BlockIn
<1> QED
  BY <1>2, <1>3, <1>4

\* The levels of the stack above the first: the blocks the lexer has open.
Levels(stack) == {stack[i] : i \in 2..Len(stack)}
Nests(stack) ==
  /\ stack \in Seq(Nat) /\ stack # <<>> /\ stack[1] = 0
  /\ \A i, j \in 1..Len(stack) : i < j => stack[i] < stack[j]

LEMMA LevelsType ==
  ASSUME NEW stack, Nests(stack)
  PROVE  /\ Len(stack) \in Nat \ {0} /\ \A i \in 1..Len(stack) : stack[i] \in Nat
         /\ \A b \in Levels(stack) : b \in Nat /\ b > 0 /\ b <= stack[Len(stack)]
         /\ stack[Len(stack)] > 0 => stack[Len(stack)] \in Levels(stack)
<1>1. Len(stack) \in Nat \ {0} /\ \A i \in 1..Len(stack) : stack[i] \in Nat
  <2>1. Len(stack) \in Nat \ {0}
    BY EmptySeq, LenProperties DEF Nests
  <2>2. ASSUME NEW i \in 1..Len(stack) PROVE stack[i] \in Nat
    BY ElementOfSeq DEF Nests
  <2> QED
    BY <2>1, <2>2
<1>2. ASSUME NEW b \in Levels(stack)
      PROVE  b \in Nat /\ b > 0 /\ b <= stack[Len(stack)]
  <2>1. PICK i \in 2..Len(stack) : b = stack[i]
    BY DEF Levels
  <2>2. i \in 1..Len(stack) /\ 1 \in 1..Len(stack) /\ 1 < i
        /\ Len(stack) \in 1..Len(stack) /\ (i = Len(stack) \/ i < Len(stack))
    BY <1>1
  <2>3. stack[1] < stack[i] /\ (i = Len(stack) \/ stack[i] < stack[Len(stack)])
    BY <2>2 DEF Nests
  <2>4. stack[1] = 0 /\ stack[i] \in Nat /\ stack[Len(stack)] \in Nat
    BY <1>1, <2>2 DEF Nests
  <2> QED
    BY <2>1, <2>3, <2>4
<1>3. ASSUME stack[Len(stack)] > 0
      PROVE  stack[Len(stack)] \in Levels(stack)
  <2>1. Len(stack) # 1
    BY <1>3 DEF Nests
  <2>2. Len(stack) \in 2..Len(stack)
    <3> DEFINE n == Len(stack)
    <3>1. n \in Nat \ {0} /\ n # 1
      BY <1>1, <2>1
    <3> HIDE DEF n
    <3>2. n \in 2..n
      BY <3>1
    <3> QED
      BY <3>2 DEF n
  <2> QED
    BY <2>2 DEF Levels
<1> QED
  BY <1>1, <1>2, <1>3

LEMMA LevelsCount ==
  ASSUME NEW stack, Nests(stack)
  PROVE  Cardinality(Levels(stack)) = Len(stack) - 1
<1> DEFINE n == Len(stack)
           level == [i \in 2..n |-> stack[i]]
<1>1. n \in Nat \ {0}
  BY LevelsType
<1>2. IsFiniteSet(2..n) /\ Cardinality(2..n) = n - 1
  <2> HIDE DEF n
  <2>1. IsFiniteSet(2..n) /\ Cardinality(2..n) = IF 2 > n THEN 0 ELSE n - 2 + 1
    BY <1>1, FS_Interval
  <2> QED
    BY <1>1, <2>1
<1>3. level \in [2..n -> Levels(stack)]
  BY DEF Levels
<1>4. ASSUME NEW x \in 2..n, NEW y \in 2..n, level[x] = level[y] PROVE x = y
  <2>1. x \in 1..n /\ y \in 1..n /\ (x < y \/ y < x \/ x = y)
    BY <1>1
  <2>2. stack[x] = stack[y]
    BY <1>4
  <2>3. stack[x] \in Nat /\ stack[y] \in Nat
    BY <2>1, LevelsType
  <2>4. x < y => stack[x] < stack[y]
    BY <2>1 DEF Nests
  <2>5. y < x => stack[y] < stack[x]
    BY <2>1 DEF Nests
  <2> QED
    BY <2>1, <2>2, <2>3, <2>4, <2>5
<1>5. \A z \in Levels(stack) : \E x \in 2..n : level[x] = z
  BY DEF Levels
<1> HIDE DEF level, n
<1>6. Cardinality(2..n) = Cardinality(Levels(stack))
  BY <1>2, <1>3, <1>4, <1>5, SameSize
<1> QED
  BY <1>2, <1>6 DEF n

LEMMA LevelsDeeper ==
  ASSUME NEW stack, Nests(stack), NEW d \in Nat
  PROVE  Levels(Append(stack, d)) = Levels(stack) \cup {d}
<1> DEFINE n == Len(stack)
           t == Append(stack, d)
<1>1. n \in Nat \ {0}
  BY LevelsType
<1>2. Len(t) = n + 1 /\ t[n + 1] = d /\ \A i \in 1..n : t[i] = stack[i]
  BY AppendProperties DEF Nests
<1> HIDE DEF n, t
<1>3. 2..(n + 1) = (2..n) \cup {n + 1} /\ \A i \in 2..n : t[i] = stack[i]
  BY <1>1, <1>2
<1>4. Levels(t) = {t[i] : i \in (2..n) \cup {n + 1}}
  BY <1>2, <1>3 DEF Levels
<1>5. Levels(stack) = {t[i] : i \in 2..n}
  BY <1>3 DEF Levels, n
<1> QED
  BY <1>2, <1>4, <1>5 DEF t

LEMMA LevelsKept ==
  ASSUME NEW stack, Nests(stack), NEW d \in Nat
  PROVE  /\ Kept(stack, d) \in 1..Len(stack)
         /\ Levels(SubSeq(stack, 1, Kept(stack, d))) = {b \in Levels(stack) : b <= d}
         /\ stack[Kept(stack, d)] = d <=> d \in Levels(stack) \cup {0}
<1> DEFINE n == Len(stack)
           k == Kept(stack, d)
           t == SubSeq(stack, 1, k)
<1>1. n \in Nat \ {0} /\ \A i \in 1..n : stack[i] \in Nat
  BY LevelsType
<1>2. k \in 1..n /\ stack[k] <= d /\ \A j \in 1..n : j > k => stack[j] > d
  BY KeptLevel DEF Nests
<1> HIDE DEF k
<1>3. Len(t) = k /\ \A i \in 1..k : t[i] = stack[i]
  <2>1. stack \in Seq(Nat) /\ 1 <= k /\ k <= n /\ 1 \in Int /\ k \in Int
    BY <1>1, <1>2 DEF Nests
  <2>2. \A i \in 1..k : stack[i] \in Nat
    BY <1>1, <1>2
  <2>3. /\ Len(t) = IF 1 <= k THEN k - 1 + 1 ELSE 0
        /\ \A i \in 1..(k - 1 + 1) : t[i] = stack[1 + i - 1]
    BY <2>1, <2>2, SubSeqProperties
  <2> HIDE DEF t, n
  <2> QED
    BY <2>1, <2>3
<1> HIDE DEF n, t
<1>4. ASSUME NEW i \in 1..n PROVE stack[i] <= d <=> i <= k
  <2>1. i < k => stack[i] < stack[k]
    BY <1>2 DEF Nests, n
  <2>2. i \in Nat /\ k \in Nat /\ stack[i] \in Nat /\ stack[k] \in Nat
    BY <1>1, <1>2
  <2> QED
    BY <1>2, <2>1, <2>2
<1>5. Levels(t) = {stack[i] : i \in 2..k}
  <2>1. \A i \in 2..k : t[i] = stack[i]
    BY <1>1, <1>2, <1>3
  <2> QED
    BY <1>3, <2>1 DEF Levels
<1>6. Levels(stack) = {stack[i] : i \in 2..n}
  BY DEF Levels, n
<1>7. Levels(t) = {b \in Levels(stack) : b <= d}
  <2>1. ASSUME NEW b \in Levels(t) PROVE b \in Levels(stack) /\ b <= d
    <3>1. PICK i \in 2..k : b = stack[i]
      BY <1>5
    <3>2. i \in 2..n /\ i \in 1..n /\ i <= k
      BY <1>1, <1>2
    <3> QED
      BY <1>4, <1>6, <3>1, <3>2
  <2>2. ASSUME NEW b \in Levels(stack), b <= d PROVE b \in Levels(t)
    <3>1. PICK i \in 2..n : b = stack[i]
      BY <1>6
    <3>2. i \in 1..n
      BY <1>1
    <3>3. i <= k
      BY <1>4, <2>2, <3>1, <3>2
    <3>4. i \in 2..k
      BY <1>1, <1>2, <3>3
    <3> QED
      BY <1>5, <3>1, <3>4
  <2> QED
    BY <2>1, <2>2
<1>8. stack[k] = d => d \in Levels(stack) \cup {0}
  <2>1. k = 1 => stack[k] = 0
    BY DEF Nests
  <2>2. k # 1 => k \in 2..n
    BY <1>1, <1>2
  <2> QED
    BY <1>6, <2>1, <2>2
<1>9. ASSUME d \in Levels(stack) \cup {0} PROVE stack[k] = d
  <2>1. PICK i \in 1..n : stack[i] = d
    <3>1. CASE d = 0
      <4>1. 1 \in 1..n /\ stack[1] = d
        BY <1>1, <3>1 DEF Nests
      <4> QED
        BY <4>1
    <3>2. CASE d \in Levels(stack)
      <4>1. PICK i \in 2..n : stack[i] = d
        BY <1>6, <3>2
      <4>2. i \in 1..n
        BY <1>1
      <4> QED
        BY <4>1, <4>2
    <3> QED
      BY <1>9, <3>1, <3>2
  <2>2. i <= k
    BY <1>1, <1>4, <2>1
  <2>3. i < k => stack[i] < stack[k]
    BY <1>2, <2>1 DEF Nests, n
  <2>4. i \in Nat /\ k \in Nat /\ stack[k] \in Nat
    BY <1>1, <1>2, <2>1
  <2> QED
    BY <1>2, <2>1, <2>2, <2>3, <2>4
<1> QED
  BY <1>2, <1>7, <1>8, <1>9 DEF k, t, n

\* What the lexer does with its stack on a line is what the line does to the blocks.
LEMMA StackFollowsLine ==
  ASSUME NEW depth, IsDepth(depth), NEW l \in DOMAIN depth, NEW stack, Nests(stack),
         Levels(stack) = Blocks(depth, l - 1)
  PROVE  /\ depth[l] > stack[Len(stack)] =>
              GoesBack(depth, l) /\ Levels(Append(stack, depth[l])) = Blocks(depth, l)
         /\ depth[l] = stack[Len(stack)] => GoesBack(depth, l) /\ Levels(stack) = Blocks(depth, l)
         /\ depth[l] < stack[Len(stack)] =>
              /\ GoesBack(depth, l) <=> stack[Kept(stack, depth[l])] = depth[l]
              /\ GoesBack(depth, l) =>
                   Levels(SubSeq(stack, 1, Kept(stack, depth[l]))) = Blocks(depth, l)
<1> DEFINE d == depth[l]
           top == stack[Len(stack)]
           open == Levels(stack)
<1>1. d \in Nat
  BY DEF IsDepth
<1>2. /\ \A b \in open : b \in Nat /\ b > 0 /\ b <= top
      /\ top > 0 => top \in open
      /\ top \in Nat
  BY LevelsType
<1>3. Blocks(depth, l) = {b \in open : b <= d} \cup {b \in {d} : b > 0}
  BY BlocksAt
<1>4. GoesBack(depth, l) <=> d \in open \cup {0} \/ \A b \in open : d > b
  BY DEF GoesBack
<1>5. Levels(Append(stack, d)) = open \cup {d}
  BY <1>1, LevelsDeeper
<1>6. /\ Levels(SubSeq(stack, 1, Kept(stack, d))) = {b \in open : b <= d}
      /\ stack[Kept(stack, d)] = d <=> d \in open \cup {0}
  BY <1>1, LevelsKept
<1> HIDE DEF d, top, open
<1>7. ASSUME d > top PROVE GoesBack(depth, l) /\ Levels(Append(stack, d)) = Blocks(depth, l)
  <2>1. \A b \in open : d > b /\ b <= d
    BY <1>1, <1>2, <1>7
  <2>2. d > 0
    BY <1>1, <1>2, <1>7
  <2> QED
    BY <1>3, <1>4, <1>5, <2>1, <2>2
<1>8. ASSUME d = top PROVE GoesBack(depth, l) /\ open = Blocks(depth, l)
  <2>1. \A b \in open : b <= d
    BY <1>2, <1>8
  <2>2. d \in open \cup {0} /\ (d > 0 => d \in open)
    BY <1>1, <1>2, <1>8
  <2> QED
    BY <1>3, <1>4, <2>1, <2>2
<1>9. ASSUME d < top
      PROVE  /\ GoesBack(depth, l) <=> stack[Kept(stack, d)] = d
             /\ GoesBack(depth, l) => Levels(SubSeq(stack, 1, Kept(stack, d))) = Blocks(depth, l)
  <2>1. top \in open /\ ~(d > top)
    BY <1>1, <1>2, <1>9
  <2>2. GoesBack(depth, l) <=> d \in open \cup {0}
    BY <1>4, <2>1
  <2>3. d \in open \cup {0} => {b \in open : b <= d} = Blocks(depth, l)
    BY <1>1, <1>2, <1>3
  <2> QED
    BY <1>6, <2>2, <2>3
<1> QED
  BY <1>7, <1>8, <1>9 DEF d, top, open

-----------------------------------------------------------------------------
(* The stack follows the text.                                             *)

\* The last line whose start has been dealt with.
Current == IF at_line_start THEN line - 1 ELSE line
StartsAtWord == at_line_start => word = 1
DepthRight == Delimited(source) => paren_depth = Open(source, line, word)
\* No line up to l is lost.
Judged(text, l) == Delimited(text) /\ \A k \in Lost(Depths(text)) : k > l
Follows ==
  Judged(source, Current) /\ ~emitted_eof_dedents =>
    Levels(indent_stack) = Blocks(Depths(source), Current)
\* What is due stands before the words of its line.
MarksBeforeWords == \A i \in 1..Len(pending) : pending[i].at[2] = 0

OffsideInv == Inv /\ StartsAtWord /\ DepthRight /\ Follows /\ MarksBeforeWords

LEMMA InvNests ==
  ASSUME Inv
  PROVE  Nests(indent_stack)
<1>1. indent_stack \in Seq(Nat) /\ BlocksNest
  BY DEF Inv, Types
<1>2. DOMAIN indent_stack = 1..Len(indent_stack)
  BY <1>1, LenProperties
<1> QED
  BY <1>1, <1>2 DEF Nests, BlocksNest

LEMMA LineNumbers ==
  ASSUME Inv
  PROVE  /\ source \in Sources /\ line \in 1..Len(source) /\ line \in Nat /\ Len(source) \in Nat \ {0}
         /\ word \in Nat \ {0} /\ Len(source[line].words) \in Nat
         /\ Current \in Nat /\ (Current = line \/ Current = line - 1)
<1>1. source \in Sources /\ line \in 1..Len(source) /\ word \in Nat \ {0}
  BY DEF Inv, Types
<1>2. line \in Nat /\ Len(source) \in Nat \ {0} /\ Len(source[line].words) \in Nat
  BY <1>1, LineType
<1> QED
  BY <1>1, <1>2 DEF Current

\* A line without words ends where it begins.
LEMMA BlankIsOver ==
  ASSUME Inv, Blank(source[line])
  PROVE  Len(source[line].words) = 0
BY DEF Blank

LEMMA WordAt ==
  ASSUME Inv, ~AtEndOfLine
  PROVE  word \in 1..Len(source[line].words) /\ source[line].words[word] \in Word
<1>1. word \in 1..Len(source[line].words)
  BY LineNumbers DEF AtEndOfLine, Here
<1> QED
  BY <1>1, LineNumbers, LineType

\* The lexer counts the delimiters that are open.
LEMMA KeptDepthRight ==
  ASSUME Inv, StartsAtWord, DepthRight, NextToken
  PROVE  StartsAtWord' /\ DepthRight'
<1>1. PICK text \in Sources : text = source
  BY LineNumbers
<1>2. PICK l \in 1..Len(text) : l = line
  BY <1>1, LineNumbers
<1>3. PICK w \in Nat \ {0} : w = word
  BY LineNumbers
<1>4. PICK depth \in Nat : depth = paren_depth
  BY DEF Inv, Types
<1>5. Delimited(text) => depth = Open(text, l, w)
  BY <1>1, <1>2, <1>3, <1>4 DEF DepthRight
<1>6. CASE UNCHANGED <<source, line, word, paren_depth>> /\ (at_line_start' => at_line_start)
  BY <1>6 DEF StartsAtWord, DepthRight
<1>7. CASE SkipBlankLine
  <2>1. /\ source' = text /\ line' = l + 1 /\ word' = w /\ paren_depth' = depth
        /\ l + 1 \in 1..Len(text) /\ w = 1 /\ Len(text[l].words) = 0
    <3>1. at_line_start /\ Blank(source[line]) /\ line # Len(source) /\ line' = line + 1
          /\ UNCHANGED <<source, word, layout>>
      BY <1>7 DEF SkipBlankLine, Here, AtLastLine
    <3> QED
      BY <1>1, <1>2, <1>3, <1>4, <3>1, LineNumbers, BlankIsOver DEF layout, StartsAtWord
  <2>2. Open(text, l + 1, 1) = Open(text, l, 1)
    BY <2>1, OpenNextLine
  <2> QED
    BY <1>5, <2>1, <2>2 DEF StartsAtWord, DepthRight
<1>8. CASE NextWord
  <2> DEFINE kind == text[l].words[w].kind
  <2>1. /\ source' = text /\ line' = l /\ word' = w + 1 /\ paren_depth' = DepthAfter(depth, kind)
        /\ ~at_line_start'
    BY <1>1, <1>2, <1>3, <1>4, <1>8 DEF NextWord, Scanning, Here
  <2>2. w \in 1..Len(text[l].words)
    BY <1>1, <1>2, <1>3, <1>8, WordAt DEF NextWord
  <2>3. /\ Open(text, l, w) \in Int
        /\ Open(text, l, w + 1) =
              IF kind \in Opening THEN Open(text, l, w) + 1
              ELSE IF kind \in Closing THEN Open(text, l, w) - 1 ELSE Open(text, l, w)
    BY <2>2, OpenNextWord
  <2>4. Delimited(text) /\ kind \in Closing => Open(text, l, w) > 0
    <3>1. l \in DOMAIN text /\ w \in DOMAIN text[l].words
      BY <2>2, LineType
    <3> QED
      BY <3>1 DEF Delimited
  <2> HIDE DEF kind
  <2>5. Delimited(text) => DepthAfter(depth, kind) = Open(text, l, w + 1)
    BY <1>5, <2>3, <2>4 DEF DepthAfter
  <2> QED
    BY <2>1, <2>5 DEF StartsAtWord, DepthRight
<1>9. CASE EndOfLine
  <2>1. /\ source' = text /\ line' = l + 1 /\ word' = 1 /\ paren_depth' = depth
        /\ l + 1 \in 1..Len(text) /\ w > Len(text[l].words)
    BY <1>1, <1>2, <1>3, <1>4, <1>9, LineNumbers DEF EndOfLine, AtEndOfLine, AtLastLine, Here
  <2>2. Open(text, l + 1, 1) = Open(text, l, w)
    BY <2>1, OpenNextLine
  <2> QED
    BY <1>5, <2>1, <2>2 DEF StartsAtWord, DepthRight
<1>10. CASE ReturnPending \/ LineStart \/ EmitEofDedents \/ ReturnNone
  <2>1. UNCHANGED <<source, line, word, paren_depth>> /\ (at_line_start' => at_line_start)
    BY <1>10 DEF ReturnPending, LineStart, EmitEofDedents, ReturnNone, position, layout
  <2> QED
    BY <1>6, <2>1
<1> QED
  BY <1>7, <1>8, <1>9, <1>10 DEF NextToken

\* A line whose indentation does not count leaves the blocks as they are.
LEMMA FollowsOnward ==
  ASSUME Inv, Follows, ~emitted_eof_dedents,
         NEW l, l = Current + 1, Delimited(source) => l \notin DOMAIN Depths(source),
         UNCHANGED <<source, indent_stack>>, Current' = l
  PROVE  Follows'
<1>1. PICK text \in Sources : text = source
  BY LineNumbers
<1>2. PICK c \in Nat : c = Current
  BY LineNumbers
<1>3. PICK stack : stack = indent_stack
  OBVIOUS
<1>4. l = c + 1 /\ source' = text /\ indent_stack' = stack /\ Current' = l
  BY <1>1, <1>2, <1>3
<1>5. Judged(text, c) => Levels(stack) = Blocks(Depths(text), c)
  BY <1>1, <1>2, <1>3 DEF Follows
<1>6. ASSUME Judged(text, l) PROVE Levels(stack) = Blocks(Depths(text), l)
  <2>1. IsDepth(Depths(text))
    BY DepthsType DEF IsDepth
  <2>2. \A k \in Lost(Depths(text)) : k \in Nat
    BY <2>1 DEF IsDepth, Lost
  <2>3. Judged(text, c)
    BY <1>4, <1>6, <2>2 DEF Judged
  <2>4. l \notin DOMAIN Depths(text)
    BY <1>1, <1>6 DEF Judged
  <2>5. Blocks(Depths(text), l) = Blocks(Depths(text), l - 1)
    BY <1>4, <2>1, <2>4, BlocksSkip
  <2>6. l - 1 = c
    BY <1>4
  <2> QED
    BY <1>5, <2>3, <2>5, <2>6
<1> QED
  BY <1>4, <1>6 DEF Follows

LEMMA CountsHere ==
  ASSUME Inv, StartsAtWord, DepthRight, at_line_start, Delimited(source)
  PROVE  /\ Open(source, line, 1) = 0
         /\ line \in DOMAIN Depths(source) <=> ~source[line].tab /\ ~Blank(source[line])
<1>1. Open(source, line, 1) = 0
  BY DEF Inv, LineStartsOutside, StartsAtWord, DepthRight
<1> QED
  BY <1>1, LineNumbers, DepthsType

\* What Follows and StackFollowsLine say of a line whose indentation counts.
LEMMA LineStartFollows ==
  ASSUME Inv, StartsAtWord, DepthRight, Follows, at_line_start, Judged(source, line - 1),
         ~source[line].tab, ~Blank(source[line]),
         NEW d, d = source[line].indent, NEW top, top = indent_stack[Len(indent_stack)]
  PROVE  /\ line \in DOMAIN Depths(source) /\ d \in Nat /\ top \in Nat
         /\ line \in Lost(Depths(source)) <=>
              d < top /\ indent_stack[Kept(indent_stack, d)] # d
         /\ d > top => Levels(Append(indent_stack, d)) = Blocks(Depths(source), line)
         /\ d = top => Levels(indent_stack) = Blocks(Depths(source), line)
         /\ d < top /\ line \notin Lost(Depths(source)) =>
              Levels(SubSeq(indent_stack, 1, Kept(indent_stack, d))) = Blocks(Depths(source), line)
<1>1. PICK text \in Sources : text = source
  BY LineNumbers
<1>2. PICK l \in 1..Len(text) : l = line
  BY <1>1, LineNumbers
<1>3. PICK stack : stack = indent_stack
  OBVIOUS
<1> DEFINE depth == Depths(text)
<1>4. l \in DOMAIN depth
  BY <1>1, <1>2, CountsHere DEF Judged
<1>5. IsDepth(depth) /\ depth[l] = d
  BY <1>1, <1>2, <1>4, DepthsType DEF IsDepth
<1>6. Nests(stack) /\ top = stack[Len(stack)]
  BY <1>3, InvNests
<1>7. Levels(stack) = Blocks(depth, l - 1)
  <2>1. Current = l - 1 /\ ~emitted_eof_dedents
    BY <1>2 DEF Current, Inv, Finishing
  <2> QED
    BY <1>1, <1>2, <1>3, <2>1 DEF Follows
<1> HIDE DEF depth
<1>8. d \in Nat /\ top \in Nat
  BY <1>4, <1>5, <1>6, LevelsType DEF IsDepth
<1>9. /\ d > top => GoesBack(depth, l) /\ Levels(Append(stack, d)) = Blocks(depth, l)
      /\ d = top => GoesBack(depth, l) /\ Levels(stack) = Blocks(depth, l)
      /\ d < top =>
              /\ GoesBack(depth, l) <=> stack[Kept(stack, d)] = d
              /\ GoesBack(depth, l) => Levels(SubSeq(stack, 1, Kept(stack, d))) = Blocks(depth, l)
  BY <1>4, <1>5, <1>6, <1>7, StackFollowsLine
<1>10. l \in Lost(depth) <=> ~GoesBack(depth, l)
  BY <1>4 DEF Lost
<1>11. d > top \/ d = top \/ d < top
  BY <1>8
<1>12. ~(d > top /\ d < top) /\ ~(d = top /\ d < top)
  BY <1>8
<1>13. /\ l \in Lost(depth) <=> d < top /\ stack[Kept(stack, d)] # d
       /\ d > top => Levels(Append(stack, d)) = Blocks(depth, l)
       /\ d = top => Levels(stack) = Blocks(depth, l)
       /\ d < top /\ l \notin Lost(depth) =>
            Levels(SubSeq(stack, 1, Kept(stack, d))) = Blocks(depth, l)
  BY <1>9, <1>10, <1>11, <1>12
<1> QED
  BY <1>1, <1>2, <1>3, <1>4, <1>8, <1>13 DEF depth

LEMMA KeptFollows ==
  ASSUME Inv, StartsAtWord, DepthRight, Follows, NextToken
  PROVE  Follows'
<1>1. CASE ReturnPending \/ NextWord \/ ReturnNone
  <2>1. UNCHANGED <<source, line, at_line_start, indent_stack, emitted_eof_dedents>>
    BY <1>1 DEF ReturnPending, NextWord, ReturnNone, position, layout
  <2> QED
    BY <2>1 DEF Follows, Current
<1>2. CASE EmitEofDedents
  BY <1>2 DEF EmitEofDedents, Follows
<1>3. CASE SkipBlankLine
  <2>1. /\ at_line_start /\ Blank(source[line]) /\ line' = line + 1
        /\ UNCHANGED <<source, at_line_start, indent_stack, emitted_eof_dedents>>
    BY <1>3 DEF SkipBlankLine, Here, layout
  <2>2. Current + 1 = line /\ Current' = line /\ ~emitted_eof_dedents
    BY <2>1, LineNumbers DEF Current, Inv, Finishing
  <2>3. Delimited(source) => line \notin DOMAIN Depths(source)
    BY <2>1, CountsHere
  <2> QED
    BY <2>1, <2>2, <2>3, FollowsOnward
<1>4. CASE EndOfLine
  <2>1. /\ ~at_line_start /\ AtEndOfLine /\ ~AtLastLine /\ line' = line + 1
        /\ UNCHANGED <<source, paren_depth, indent_stack, emitted_eof_dedents>>
    BY <1>4 DEF EndOfLine, Scanning
  <2>2. CASE paren_depth > 0 /\ UNCHANGED at_line_start
    <3>1. Current + 1 = line + 1 /\ Current' = line + 1 /\ ~emitted_eof_dedents
      BY <2>1, <2>2 DEF Current, Inv, Finishing, AtEndOfSource
    <3>2. ASSUME Delimited(source) PROVE line + 1 \notin DOMAIN Depths(source)
      <4>1. paren_depth = Open(source, line, word)
        BY <3>2 DEF DepthRight
      <4>2. line + 1 \in 1..Len(source) /\ word > Len(source[line].words)
        BY <2>1, LineNumbers DEF AtEndOfLine, AtLastLine, Here
      <4>3. Open(source, line + 1, 1) = Open(source, line, word)
        BY <4>2, LineNumbers, OpenNextLine
      <4> QED
        BY <2>2, <4>1, <4>3, LineNumbers, DepthsType
    <3> QED
      BY <2>1, <3>1, <3>2, FollowsOnward
  <2>3. CASE at_line_start' = TRUE
    <3>1. Current' = Current
      BY <2>1, <2>3, LineNumbers DEF Current
    <3> QED
      BY <2>1, <3>1 DEF Follows
  <2> QED
    BY <1>4, <2>2, <2>3 DEF EndOfLine
<1>5. CASE LineStart
  <2>1. /\ at_line_start /\ ~at_line_start'
        /\ UNCHANGED <<source, line, emitted_eof_dedents>>
        /\ Current + 1 = line /\ Current = line - 1 /\ Current' = line /\ ~emitted_eof_dedents
    BY <1>5, LineNumbers DEF LineStart, position, Current, Inv, Finishing
  <2>2. CASE UNCHANGED indent_stack /\ (source[line].tab \/ Blank(source[line]))
    <3>1. Delimited(source) => line \notin DOMAIN Depths(source)
      BY <2>1, <2>2, CountsHere
    <3> QED
      BY <2>1, <2>2, <3>1, FollowsOnward
  <2>3. CASE ~source[line].tab /\ ~Blank(source[line]) /\ Indentation(source[line].indent)
    <3>1. SUFFICES ASSUME Judged(source, line) PROVE Levels(indent_stack') = Blocks(Depths(source), line)
      BY <2>1 DEF Follows
    <3>2. Judged(source, line - 1) /\ line \notin Lost(Depths(source))
      <4>1. \A k \in Lost(Depths(source)) : k \in Nat /\ k > line
        BY <3>1, LineNumbers, DepthsType DEF Judged, Lost
      <4> QED
        BY <3>1, <4>1, LineNumbers DEF Judged
    <3> DEFINE d == source[line].indent
               top == indent_stack[Len(indent_stack)]
    <3>3. /\ d > top => Levels(Append(indent_stack, d)) = Blocks(Depths(source), line)
          /\ d = top => Levels(indent_stack) = Blocks(Depths(source), line)
          /\ d < top => Levels(SubSeq(indent_stack, 1, Kept(indent_stack, d))) = Blocks(Depths(source), line)
      BY <2>1, <2>3, <3>2, LineStartFollows
    <3>4. \/ d > top /\ indent_stack' = Append(indent_stack, d)
          \/ d = top /\ indent_stack' = indent_stack
          \/ d < top /\ indent_stack' = SubSeq(indent_stack, 1, Kept(indent_stack, d))
      BY <2>3 DEF Indentation
    <3> QED
      BY <3>3, <3>4
  <2> QED
    BY <1>5, <2>2, <2>3 DEF LineStart, Here
<1> QED
  BY <1>1, <1>2, <1>3, <1>4, <1>5 DEF NextToken

-----------------------------------------------------------------------------
(* Where what is returned stands.                                          *)

LEMMA LexemeAt ==
  ASSUME NEW t, NEW l, NEW w
  PROVE  Lexeme(t, l, w).token = t /\ Lexeme(t, l, w).at[1] = l /\ Lexeme(t, l, w).at[2] = w
BY DEF Lexeme

LEMMA DedentsAre ==
  ASSUME NEW n \in Nat
  PROVE  /\ Len(Dedents(n)) = n
         /\ \A i \in 1..n : Dedents(n)[i] = Lexeme(Token("Dedent"), line, 0)
BY DEF Dedents

\* What the start of line l makes due: at most one fault, last, and nothing that
\* stands at a word.
Due(due, l, faults) ==
  /\ due \in Seq(Lexemes)
  /\ \A i \in 1..Len(due) : due[i].at[2] = 0
  /\ \A i \in 1..Len(due) : IsFault(due[i]) => due[i] \in faults /\ i = Len(due)
  /\ \A f \in faults : \E i \in 1..Len(due) : due[i] = f

LEMMA DueNothing ==
  ASSUME NEW l
  PROVE  Due(<<>>, l, {})
<1>1. <<>> \in Seq(Lexemes) /\ Len(<<>>) = 0
  <2> HIDE DEF Lexemes
  <2> QED
    BY EmptySeq
<1> QED
  BY <1>1 DEF Due

LEMMA DueOne ==
  ASSUME Types, NEW k \in {"Indent", "DedentError", "TabError"},
         NEW e, e = Lexeme(Token(k), line, 0)
  PROVE  Due(<<e>>, line, IF k = "Indent" THEN {} ELSE {e})
<1>1. e \in Lexemes /\ e.token.kind = k /\ e.at[2] = 0
  BY LexemeType, MarkType, LexemeAt
<1>2. IsFault(e) <=> k # "Indent"
  BY <1>1 DEF IsFault, Faults
<1>3. <<e>> \in Seq(Lexemes) /\ Len(<<e>>) = 1 /\ <<e>>[1] = e
  BY <1>1
<1> QED
  BY <1>1, <1>2, <1>3 DEF Due

LEMMA DueDedents ==
  ASSUME Types, NEW n \in Nat, NEW error, NEW faults, Len(error) \in {0, 1}, Due(error, line, faults)
  PROVE  Due(Dedents(n) \o error, line, faults)
<1> DEFINE due == Dedents(n)
           m == Len(error)
           both == due \o error
<1>1. Len(due) = n /\ due \in Seq(Lexemes) /\ error \in Seq(Lexemes) /\ m \in {0, 1}
  BY DedentsAre, DedentsType DEF Due
<1>2. ASSUME NEW i \in 1..n PROVE due[i].at[2] = 0 /\ ~IsFault(due[i])
  <2>1. due[i] = Lexeme(Token("Dedent"), line, 0)
    BY DedentsAre
  <2>2. due[i].token.kind = "Dedent" /\ due[i].at[2] = 0
    BY <2>1, LexemeAt, MarkType
  <2> QED
    BY <2>2 DEF IsFault, Faults
<1> HIDE DEF due, m
<1>3. /\ both \in Seq(Lexemes) /\ Len(both) = n + m
      /\ \A i \in 1..(n + m) : both[i] = IF i <= n THEN due[i] ELSE error[i - n]
  BY <1>1, ConcatProperties DEF m
<1> HIDE DEF both
<1>4. ASSUME NEW i \in 1..(n + m)
      PROVE  both[i].at[2] = 0 /\ (IsFault(both[i]) => both[i] \in faults /\ i = n + m)
  <2>1. CASE i <= n
    BY <1>2, <1>3, <2>1
  <2>2. CASE i > n
    <3>1. m = 1 /\ i = n + 1 /\ both[i] = error[1]
      BY <1>1, <1>3, <2>2
    <3>2. error[1].at[2] = 0 /\ (IsFault(error[1]) => error[1] \in faults)
      BY <3>1 DEF Due, m
    <3> QED
      BY <3>1, <3>2
  <2> QED
    BY <2>1, <2>2
<1>5. ASSUME NEW f \in faults PROVE \E i \in 1..(n + m) : both[i] = f
  <2>1. PICK j \in 1..m : error[j] = f
    BY DEF Due, m
  <2>2. n + j \in 1..(n + m) /\ ~(n + j <= n) /\ n + j - n = j
    BY <1>1, <2>1
  <2>3. both[n + j] = error[j]
    BY <1>3, <2>2
  <2> QED
    BY <2>1, <2>2, <2>3
<1>6. Due(both, line, faults)
  BY <1>3, <1>4, <1>5 DEF Due
<1> QED
  BY <1>6 DEF both, due

\* The fault of the line that is entered, if it has one.
FaultAtStart(l, d, stack) ==
  IF source[l].tab THEN {Lexeme(Token("TabError"), l, 0)}
  ELSE IF ~Blank(source[l]) /\ d < stack[Len(stack)] /\ stack[Kept(stack, d)] # d
       THEN {Lexeme(Token("DedentError"), l, 0)} ELSE {}

LEMMA DueAtLineStart ==
  ASSUME Inv, LineStart
  PROVE  Due(pending', line, FaultAtStart(line, source[line].indent, indent_stack))
<1> DEFINE d == source[line].indent
           top == indent_stack[Len(indent_stack)]
           kept == Kept(indent_stack, d)
           error == Lexeme(Token("DedentError"), line, 0)
           tab == Lexeme(Token("TabError"), line, 0)
           indent == Lexeme(Token("Indent"), line, 0)
           faults == FaultAtStart(line, d, indent_stack)
<1>1. Types /\ pending = <<>> /\ d \in Nat
  BY SourceType DEF Inv, LineStart, Here
<1>2. CASE source[line].tab /\ pending' = <<tab>>
  <2>1. Due(<<tab>>, line, {tab})
    BY <1>1, DueOne
  <2>2. faults = {tab}
    BY <1>2 DEF FaultAtStart
  <2> QED
    BY <1>2, <2>1, <2>2
<1>3. CASE Blank(source[line]) /\ pending' = pending
  <2>1. faults = {}
    BY <1>3 DEF FaultAtStart, Blank
  <2> QED
    BY <1>1, <1>3, <2>1, DueNothing
<1>4. CASE ~source[line].tab /\ ~Blank(source[line]) /\ Indentation(d)
  <2>1. top \in Nat /\ kept \in 1..Len(indent_stack) /\ Len(indent_stack) \in Nat
    <3>1. Nests(indent_stack)
      BY InvNests
    <3>2. Len(indent_stack) \in Nat \ {0} /\ \A i \in 1..Len(indent_stack) : indent_stack[i] \in Nat
      BY <3>1, LevelsType
    <3>3. kept \in 1..Len(indent_stack)
      BY <1>1, <3>1, LevelsKept
    <3>4. Len(indent_stack) \in 1..Len(indent_stack)
      BY <3>2
    <3> QED
      BY <3>2, <3>3, <3>4
  <2>2. faults = IF d < top /\ indent_stack[kept] # d THEN {error} ELSE {}
    BY <1>4 DEF FaultAtStart
  <2>3. CASE d > top /\ pending' = <<indent>>
    <3>1. Due(<<indent>>, line, {})
      BY <1>1, DueOne
    <3>2. faults = {}
      BY <1>1, <2>1, <2>2, <2>3
    <3> QED
      BY <2>3, <3>1, <3>2
  <2>4. CASE d = top /\ pending' = pending
    <3>1. faults = {}
      BY <1>1, <2>1, <2>2, <2>4
    <3> QED
      BY <1>1, <2>4, <3>1, DueNothing
  <2>5. CASE d < top /\ pending' = Dedents(Len(indent_stack) - kept) \o
                                     (IF indent_stack[kept] = d THEN <<>> ELSE <<error>>)
    <3>1. Len(indent_stack) - kept \in Nat
      BY <2>1
    <3>2. Due(<<error>>, line, {error}) /\ Due(<<>>, line, {}) /\ Len(<<error>>) = 1 /\ Len(<<>>) = 0
      BY <1>1, DueOne, DueNothing
    <3> HIDE DEF error, kept
    <3>3. CASE indent_stack[kept] = d
      <4>1. faults = {}
        BY <2>2, <3>3
      <4>2. Due(Dedents(Len(indent_stack) - kept) \o <<>>, line, {})
        <5> DEFINE n == Len(indent_stack) - kept
                   none == <<>>
        <5>1. n \in Nat /\ Len(none) \in {0, 1} /\ Due(none, line, {})
          BY <3>1, <3>2
        <5> HIDE DEF n, none
        <5>2. Due(Dedents(n) \o none, line, {})
          BY <1>1, <5>1, DueDedents
        <5> QED
          BY <5>2 DEF n, none
      <4> QED
        BY <2>5, <3>3, <4>1, <4>2
    <3>4. CASE indent_stack[kept] # d
      <4>1. faults = {error}
        BY <2>2, <2>5, <3>4
      <4>2. Due(Dedents(Len(indent_stack) - kept) \o <<error>>, line, {error})
        BY <1>1, <3>1, <3>2, DueDedents
      <4> QED
        BY <2>5, <3>4, <4>1, <4>2
    <3> QED
      BY <3>3, <3>4
  <2> QED
    BY <1>4, <2>3, <2>4, <2>5 DEF Indentation
<1> QED
  BY <1>2, <1>3, <1>4 DEF LineStart, Here

LEMMA KeptMarks ==
  ASSUME Inv, MarksBeforeWords, NextToken
  PROVE  MarksBeforeWords'
<1>1. CASE ReturnPending
  <2>1. pending \in Seq(Lexemes) /\ pending # <<>> /\ pending' = Tail(pending)
    BY <1>1 DEF ReturnPending, Inv, Types
  <2>2. /\ Len(pending') = Len(pending) - 1 /\ Len(pending) \in Nat
        /\ \A i \in 1..Len(pending') : pending'[i] = pending[i + 1]
    BY <2>1, HeadTailProperties, LenProperties
  <2>3. ASSUME NEW i \in 1..Len(pending') PROVE pending'[i].at[2] = 0
    <3>1. i + 1 \in 1..Len(pending)
      BY <2>2
    <3> QED
      BY <2>2, <3>1 DEF MarksBeforeWords
  <2> QED
    BY <2>3 DEF MarksBeforeWords
<1>2. CASE LineStart
  BY <1>2, DueAtLineStart DEF Due, MarksBeforeWords
<1>3. CASE EmitEofDedents
  <2> DEFINE n == Len(indent_stack) - 1
  <2>1. n \in Nat /\ pending' = Dedents(n)
    BY <1>3, InvNests, LevelsType DEF EmitEofDedents
  <2> HIDE DEF n
  <2>2. ASSUME NEW i \in 1..Len(pending') PROVE pending'[i].at[2] = 0
    BY <2>1, DedentsAre, LexemeAt
  <2> QED
    BY <2>2 DEF MarksBeforeWords
<1>4. CASE UNCHANGED pending
  BY <1>4 DEF MarksBeforeWords
<1> QED
  BY <1>1, <1>2, <1>3, <1>4 DEF NextToken, SkipBlankLine, NextWord, EndOfLine, ReturnNone

-----------------------------------------------------------------------------
(* Blocks follow the indentation.                                          *)

\* What BlocksFollowIndentation says of the last that has been returned.
AtFirstWord(made, text) ==
  LET last == made[Len(made)]
      l == last.at[1]
  IN made # <<>> /\ last.at[2] = 1 /\ l \in DOMAIN Depths(text) /\ Judged(text, l) =>
       HowMany("Indent", made) - HowMany("Dedent", made) = Cardinality(Blocks(Depths(text), l))

LEMMA FirstWordAfter ==
  ASSUME NEW made \in Seq(Lexemes), NEW e \in Lexemes, NEW text,
         e.at[2] = 1 /\ e.at[1] \in DOMAIN Depths(text) /\ Judged(text, e.at[1]) =>
           HowMany("Indent", Append(made, e)) - HowMany("Dedent", Append(made, e)) =
             Cardinality(Blocks(Depths(text), e.at[1]))
  PROVE  AtFirstWord(Append(made, e), text)
<1> DEFINE t == Append(made, e)
<1>1. Len(t) = Len(made) + 1 /\ t[Len(made) + 1] = e
  BY AppendProperties
<1>2. t[Len(t)] = e
  BY <1>1
<1> HIDE DEF t
<1> QED
  BY <1>2 DEF AtFirstWord, t

LEMMA KeptAtFirstWord ==
  ASSUME OffsideInv, AtFirstWord(returned, source), NextToken
  PROVE  AtFirstWord(returned', source')
<1>1. returned \in Seq(Lexemes) /\ pending \in Seq(Lexemes)
  BY DEF OffsideInv, Inv, Types
<1>2. source' = source
  BY DEF NextToken, ReturnPending, SkipBlankLine, LineStart, NextWord, EndOfLine, EmitEofDedents, ReturnNone
<1>3. CASE UNCHANGED returned
  BY <1>2, <1>3
<1>4. CASE ReturnPending
  <2> DEFINE e == Head(pending)
  <2>1. pending # <<>> /\ returned' = Append(returned, e)
    BY <1>4 DEF ReturnPending
  <2>2. e \in Lexemes /\ e = pending[1] /\ 1 \in 1..Len(pending)
    BY <1>1, <2>1, HeadTailProperties, EmptySeq, LenProperties
  <2>3. e.at[2] = 0
    BY <2>2 DEF OffsideInv, MarksBeforeWords
  <2> HIDE DEF e
  <2> QED
    BY <1>1, <1>2, <2>1, <2>2, <2>3, FirstWordAfter
<1>5. CASE NextWord
  <2> DEFINE token == source[line].words[word]
             e == Lexeme(token, line, word)
  <2>1. /\ returned' = Append(returned, e) /\ pending = <<>> /\ ~at_line_start /\ ~AtEndOfLine
    BY <1>5 DEF NextWord, Scanning, Here
  <2>2. token \in Word /\ token.kind \notin {"Indent", "Dedent"}
    BY <2>1, WordAt, WordAssumption DEF OffsideInv
  <2> HIDE DEF token
  <2>3. e \in Lexemes /\ e.token = token /\ e.at[1] = line /\ e.at[2] = word
    BY <2>2, LexemeType, LexemeAt, LineNumbers DEF OffsideInv, Inv
  <2> HIDE DEF e
  <2>4. ASSUME Judged(source, line)
        PROVE  HowMany("Indent", Append(returned, e)) - HowMany("Dedent", Append(returned, e)) =
                 Cardinality(Blocks(Depths(source), line))
    <3> DEFINE opened == HowMany("Indent", returned)
               closed == HowMany("Dedent", returned)
               n == Len(indent_stack)
    <3>1. ~emitted_eof_dedents /\ Current = line
      BY <2>1 DEF OffsideInv, Inv, Finishing, AtEndOfSource, Current
    <3>2. Levels(indent_stack) = Blocks(Depths(source), line)
      BY <2>4, <3>1 DEF OffsideInv, Follows
    <3>3. Cardinality(Levels(indent_stack)) = n - 1 /\ n \in Nat
      BY InvNests, LevelsCount, LevelsType DEF OffsideInv
    <3>4. HowMany("Indent", Append(returned, e)) = opened + 0 /\ HowMany("Dedent", Append(returned, e)) = closed + 0
      BY <1>1, <2>2, <2>3, HowManyAppend
    <3>5. opened \in Nat /\ closed \in Nat
      BY <1>1, HowManyNat
    <3>6. opened + 0 = closed + 0 + n - 1
      BY <2>1, HowManyEmpty DEF OffsideInv, Inv, Balanced, Tally
    <3> HIDE DEF opened, closed, n
    <3>7. (opened + 0) - (closed + 0) = n - 1
      BY <3>3, <3>5, <3>6
    <3> QED
      BY <3>2, <3>3, <3>4, <3>7
  <2> QED
    BY <1>1, <1>2, <2>1, <2>3, <2>4, FirstWordAfter
<1>6. CASE EndOfLine /\ returned' = Append(returned, Lexeme(Token("Newline"), line, word))
  <2> DEFINE e == Lexeme(Token("Newline"), line, word)
  <2>1. e \in Lexemes /\ e.at[1] = line /\ e.at[2] = word
    BY LexemeType, MarkType, LexemeAt, LineNumbers DEF OffsideInv, Inv
  <2>2. word = 1 => line \notin DOMAIN Depths(source)
    <3>1. SUFFICES ASSUME word = 1 PROVE ~source[line].tab => Blank(source[line])
      BY LineNumbers, DepthsType DEF OffsideInv
    <3>2. /\ source[line].words \in Seq(Word) /\ Len(source[line].words) \in Nat
          /\ word > Len(source[line].words)
      BY <1>6, LineNumbers, LineType DEF OffsideInv, EndOfLine, AtEndOfLine, Here
    <3>3. source[line].words = <<>>
      BY <3>1, <3>2, EmptySeq
    <3> QED
      BY <3>3 DEF Blank
  <2>3. returned' = Append(returned, e)
    BY <1>6
  <2> HIDE DEF e
  <2> QED
    BY <1>1, <1>2, <2>1, <2>2, <2>3, FirstWordAfter
<1>7. CASE EndOfLine /\ UNCHANGED returned
  BY <1>3, <1>7
<1>8. EndOfLine => \/ UNCHANGED returned
                   \/ returned' = Append(returned, Lexeme(Token("Newline"), line, word))
  BY DEF EndOfLine
<1> QED
  BY <1>3, <1>4, <1>5, <1>6, <1>7, <1>8
     DEF NextToken, SkipBlankLine, LineStart, EmitEofDedents, ReturnNone

LEMMA InvFollows ==
  ASSUME Inv, AtFirstWord(returned, source)
  PROVE  BlocksFollowIndentation
<1>1. Paired
  BY InvPairs
<1>2. \A l : Judged(source, l) <=> (\A k \in Lost(Depths(source)) : k > l) /\ Delimited(source)
  BY DEF Judged
<1> QED
  BY <1>1, <1>2 DEF BlocksFollowIndentation, AtFirstWord, Paired, Returned, HowMany

-----------------------------------------------------------------------------
(* Faults, one after another.                                              *)

LEMMA Least ==
  ASSUME NEW S, S \subseteq Nat, S # {}
  PROVE  \E l \in S : \A k \in S : l <= k
<1> DEFINE less == {p \in Nat \X Nat : p[1] < p[2]}
<1>1. OpToRel(<, Nat) = less
  BY Zenon DEF OpToRel
<1>2. IsWellFoundedOn(less, Nat)
  BY <1>1, NatLessThanWellFounded, Zenon
<1>3. PICK l \in S : \A k \in S : <<k, l>> \notin less
  <2> HIDE DEF less
  <2> QED
    BY <1>2, WFMin
<1>4. ASSUME NEW k \in S PROVE l <= k
  <2>1. <<k, l>> \notin less /\ k \in Nat /\ l \in Nat
    BY <1>3
  <2>2. ~(k < l)
    BY <2>1
  <2> QED
    BY <2>1, <2>2
<1> QED
  BY <1>4

LEMMA FirstLost ==
  ASSUME NEW text \in Sources, NEW last, last = LastJudged(text),
         NEW lost, lost = Lost(Depths(text))
  PROVE  /\ lost \subseteq DOMAIN Depths(text) /\ last \in 1..Len(text) /\ last \in Nat
         /\ lost # {} => last \in lost
         /\ \A k \in lost : last <= k
<1>1. lost \subseteq DOMAIN Depths(text) /\ \A l \in DOMAIN Depths(text) : l \in Nat /\ l \in 1..Len(text)
  BY DepthsType DEF Lost
<1>2. CASE lost = {}
  <2>1. text \in Seq([indent : Nat, tab : BOOLEAN, words : Seq(Word)]) /\ text # <<>>
    BY SourcesAssumption
  <2>2. Len(text) \in Nat \ {0} /\ last = Len(text)
    BY <1>2, <2>1, EmptySeq, LenProperties DEF LastJudged
  <2> HIDE DEF LastJudged
  <2> QED
    BY <1>1, <1>2, <2>2
<1>3. CASE lost # {}
  <2>1. PICK c : c = CHOOSE l \in lost : \A k \in lost : l <= k
    OBVIOUS
  <2>2. \E l \in lost : \A k \in lost : l <= k
    BY <1>1, <1>3, Least
  <2>3. c \in lost /\ \A k \in lost : c <= k
    BY <2>1, <2>2
  <2>4. last = c
    BY <1>3, <2>1 DEF LastJudged
  <2> QED
    BY <1>1, <2>3, <2>4
<1> QED
  BY <1>2, <1>3

LEMMA FaultIn ==
  ASSUME NEW text \in Sources, NEW f, NEW last, last = LastJudged(text)
  PROVE  f \in FaultsIn(text) <=>
           \/ \E l \in 1..Len(text) :
                f = Lexeme(Token("TabError"), l, 0) /\ text[l].tab /\ Open(text, l, 1) = 0 /\ l <= last
           \/ \E l \in 1..Len(text) : \E w \in 1..Len(text[l].words) :
                f = Lexeme(Bad, l, w) /\ text[l].words[w] = Bad /\ l <= last
           \/ Lost(Depths(text)) # {} /\ f = Lexeme(Token("DedentError"), last, 0)
<1>1. DOMAIN text = 1..Len(text)
  BY OpenFirst, SourcesAssumption, LenProperties
<1>2. \A l \in 1..Len(text) : DOMAIN text[l].words = 1..Len(text[l].words)
  BY LineType
<1>3. f \in TabFaults(text) /\ f.at[1] <= last <=>
        \E l \in 1..Len(text) :
          f = Lexeme(Token("TabError"), l, 0) /\ text[l].tab /\ Open(text, l, 1) = 0 /\ l <= last
  BY <1>1, LexemeAt DEF TabFaults
<1>4. f \in WordFaults(text) <=>
        \E l \in 1..Len(text) : \E w \in 1..Len(text[l].words) :
          f = Lexeme(Bad, l, w) /\ text[l].words[w] = Bad
  BY <1>1, <1>2 DEF WordFaults
<1>5. f \in WordFaults(text) /\ f.at[1] <= last <=>
        \E l \in 1..Len(text) : \E w \in 1..Len(text[l].words) :
          f = Lexeme(Bad, l, w) /\ text[l].words[w] = Bad /\ l <= last
  BY <1>4, LexemeAt
<1>6. f \in FaultsIn(text) <=>
        \/ f \in TabFaults(text) /\ f.at[1] <= last
        \/ f \in WordFaults(text) /\ f.at[1] <= last
        \/ Lost(Depths(text)) # {} /\ f = Lexeme(Token("DedentError"), last, 0)
  BY DEF FaultsIn
<1> QED
  BY <1>3, <1>5, <1>6

\* The lexer has gone over where this stands: in front of the words of a line, or
\* at a word.
Passed(f, current, l, w) ==
  IF f.at[2] = 0 THEN f.at[1] <= current ELSE f.at[1] < l \/ (f.at[1] = l /\ f.at[2] < w)

\* The faults it has passed are what it has made of them, each once.
Found(made, text, current, l, w) ==
  /\ \A i \in 1..Len(made) :
       IsFault(made[i]) =>
         /\ Passed(made[i], current, l, w)
         /\ made[i].at[1] <= LastJudged(text) => made[i] \in FaultsIn(text)
  /\ \A f \in FaultsIn(text) : Passed(f, current, l, w) => \E i \in 1..Len(made) : made[i] = f
  /\ \A i, j \in 1..Len(made) : IsFault(made[i]) /\ made[i] = made[j] => i = j

FaultsSoFar == Delimited(source) => Found(returned \o pending, source, Current, line, word)

\* Going on finds what it passes, and nothing a second time.
LEMMA FoundMore ==
  ASSUME NEW made \in Seq(Lexemes), NEW new \in Seq(Lexemes), NEW text,
         NEW c, NEW l, NEW w, NEW c2, NEW l2, NEW w2,
         Found(made, text, c, l, w),
         \A f \in Lexemes : Passed(f, c, l, w) => Passed(f, c2, l2, w2),
         \A i \in 1..Len(new) : IsFault(new[i]) =>
           /\ ~Passed(new[i], c, l, w) /\ Passed(new[i], c2, l2, w2)
           /\ new[i].at[1] <= LastJudged(text) => new[i] \in FaultsIn(text),
         \A f \in FaultsIn(text) : Passed(f, c2, l2, w2) =>
           Passed(f, c, l, w) \/ \E i \in 1..Len(new) : new[i] = f,
         \A i, j \in 1..Len(new) : IsFault(new[i]) /\ new[i] = new[j] => i = j
  PROVE  Found(made \o new, text, c2, l2, w2)
<1> DEFINE n == Len(made)
           m == Len(new)
           all == made \o new
<1>1. n \in Nat /\ m \in Nat /\ \A i \in 1..n : made[i] \in Lexemes
  BY LenProperties, ElementOfSeq
<1>2. /\ Len(all) = n + m
      /\ \A i \in 1..(n + m) : all[i] = IF i <= n THEN made[i] ELSE new[i - n]
  BY ConcatProperties
<1> HIDE DEF all
<1>3. \A i \in 1..n : i \in 1..(n + m) /\ all[i] = made[i]
  <2> HIDE DEF n, m
  <2> QED
    BY <1>1, <1>2
<1>4. \A i \in 1..m : n + i \in 1..(n + m) /\ all[n + i] = new[i]
  <2> HIDE DEF n, m
  <2>1. ASSUME NEW i \in 1..m PROVE n + i \in 1..(n + m) /\ all[n + i] = new[i]
    <3>1. PICK k : k = n + i
      OBVIOUS
    <3>2. k \in 1..(n + m) /\ ~(k <= n) /\ k - n = i
      BY <1>1, <3>1
    <3>3. all[k] = new[k - n]
      BY <1>2, <3>2
    <3> QED
      BY <3>1, <3>2, <3>3
  <2> QED
    BY <2>1
<1>5. ASSUME NEW i \in 1..(n + m) PROVE i \in 1..n \/ \E k \in 1..m : i = n + k
  <2> HIDE DEF n, m
  <2>1. CASE i <= n
    BY <1>1, <2>1
  <2>2. CASE i > n
    <3>1. i - n \in 1..m /\ i = n + (i - n)
      BY <1>1, <2>2
    <3> QED
      BY <3>1
  <2> QED
    BY <1>1, <2>1, <2>2
<1>6. \A i \in 1..n : IsFault(made[i]) =>
        /\ Passed(made[i], c, l, w)
        /\ made[i].at[1] <= LastJudged(text) => made[i] \in FaultsIn(text)
  BY DEF Found
<1>7. \A f \in FaultsIn(text) : Passed(f, c, l, w) => \E i \in 1..n : made[i] = f
  BY DEF Found
<1>8. \A i, j \in 1..n : IsFault(made[i]) /\ made[i] = made[j] => i = j
  BY DEF Found
<1> HIDE DEF n, m
<1>9. ASSUME NEW i \in 1..(n + m), IsFault(all[i])
      PROVE  /\ Passed(all[i], c2, l2, w2)
             /\ all[i].at[1] <= LastJudged(text) => all[i] \in FaultsIn(text)
  <2>1. CASE i \in 1..n
    BY <1>1, <1>3, <1>6, <1>9, <2>1
  <2>2. CASE \E k \in 1..m : i = n + k
    BY <1>4, <1>9, <2>2 DEF m
  <2> QED
    BY <1>5, <2>1, <2>2
<1>10. ASSUME NEW f \in FaultsIn(text), Passed(f, c2, l2, w2)
       PROVE  \E i \in 1..(n + m) : all[i] = f
  <2>1. CASE Passed(f, c, l, w)
    BY <1>3, <1>7, <2>1
  <2>2. CASE \E k \in 1..m : new[k] = f
    BY <1>4, <2>2
  <2> QED
    BY <1>10, <2>1, <2>2 DEF m
<1>11. ASSUME NEW i \in 1..(n + m), NEW j \in 1..(n + m), IsFault(all[i]), all[i] = all[j]
       PROVE  i = j
  <2>1. CASE i \in 1..n /\ j \in 1..n
    BY <1>3, <1>8, <1>11, <2>1
  <2>2. CASE (\E k \in 1..m : i = n + k) /\ (\E k \in 1..m : j = n + k)
    <3>1. PICK k1 \in 1..m : i = n + k1
      BY <2>2
    <3>2. PICK k2 \in 1..m : j = n + k2
      BY <2>2
    <3>3. k1 = k2
      BY <1>4, <1>11, <3>1, <3>2 DEF m
    <3> QED
      BY <3>1, <3>2, <3>3
  <2>3. ASSUME NEW a \in 1..n, NEW k \in 1..m, IsFault(made[a]), made[a] = new[k] PROVE FALSE
    BY <1>6, <2>3 DEF m
  <2>4. CASE i \in 1..n /\ \E k \in 1..m : j = n + k
    BY <1>3, <1>4, <1>11, <2>3, <2>4
  <2>5. CASE j \in 1..n /\ \E k \in 1..m : i = n + k
    BY <1>3, <1>4, <1>11, <2>3, <2>5
  <2> QED
    BY <1>5, <2>1, <2>2, <2>4, <2>5
<1>12. Found(all, text, c2, l2, w2)
  BY <1>2, <1>9, <1>10, <1>11 DEF Found
<1> QED
  BY <1>12 DEF all

LEMMA FoundNoMore ==
  ASSUME NEW made \in Seq(Lexemes), NEW text,
         NEW c, NEW l, NEW w, NEW c2, NEW l2, NEW w2,
         Found(made, text, c, l, w),
         \A f \in Lexemes : Passed(f, c, l, w) => Passed(f, c2, l2, w2),
         \A f \in FaultsIn(text) : Passed(f, c2, l2, w2) => Passed(f, c, l, w)
  PROVE  Found(made, text, c2, l2, w2)
<1>1. \A i \in 1..Len(made) : made[i] \in Lexemes
  BY ElementOfSeq
<1> QED
  BY <1>1 DEF Found

LEMMA FaultBefore ==
  ASSUME NEW text \in Sources, NEW f \in FaultsIn(text), f.at[2] = 0,
         NEW l, l = f.at[1], NEW last, last = LastJudged(text)
  PROVE  /\ l \in 1..Len(text) /\ l <= last /\ Open(text, l, 1) = 0 /\ ~Blank(text[l])
         /\ \/ f = Lexeme(Token("TabError"), l, 0) /\ text[l].tab
            \/ f = Lexeme(Token("DedentError"), l, 0) /\ l \in Lost(Depths(text)) /\ ~text[l].tab
<1>1. CASE \E k \in 1..Len(text) :
             f = Lexeme(Token("TabError"), k, 0) /\ text[k].tab /\ Open(text, k, 1) = 0 /\ k <= last
  BY <1>1, LexemeAt DEF Blank
<1>2. CASE \E k \in 1..Len(text) : \E w \in 1..Len(text[k].words) : f = Lexeme(Bad, k, w)
  <2>1. PICK k \in 1..Len(text) : \E w \in 1..Len(text[k].words) : f = Lexeme(Bad, k, w)
    BY <1>2
  <2>2. PICK w \in 1..Len(text[k].words) : f = Lexeme(Bad, k, w)
    BY <2>1
  <2>3. w = 0 /\ Len(text[k].words) \in Nat
    BY <2>1, <2>2, LexemeAt, LineType
  <2> QED
    BY <2>2, <2>3
<1>3. CASE Lost(Depths(text)) # {} /\ f = Lexeme(Token("DedentError"), last, 0)
  <2>1. last \in Lost(Depths(text)) /\ last \in DOMAIN Depths(text) /\ last \in Nat
    BY <1>3, FirstLost
  <2>2. l = last
    BY <1>3, LexemeAt
  <2> QED
    BY <1>3, <2>1, <2>2, DepthsType
<1> QED
  BY <1>1, <1>2, <1>3, FaultIn

LEMMA FaultAtWord ==
  ASSUME NEW text \in Sources, NEW f \in FaultsIn(text), f.at[2] # 0
  PROVE  /\ f.at[1] \in 1..Len(text) /\ f.at[2] \in 1..Len(text[f.at[1]].words)
         /\ f = Lexeme(text[f.at[1]].words[f.at[2]], f.at[1], f.at[2])
<1>1. PICK k \in 1..Len(text) :
        \E w \in 1..Len(text[k].words) : f = Lexeme(Bad, k, w) /\ text[k].words[w] = Bad
  BY FaultIn, LexemeAt
<1>2. PICK w \in 1..Len(text[k].words) : f = Lexeme(Bad, k, w) /\ text[k].words[w] = Bad
  BY <1>1
<1>3. f.at[1] = k /\ f.at[2] = w
  BY <1>2, LexemeAt
<1> QED
  BY <1>2, <1>3

LEMMA FaultNumbers ==
  ASSUME NEW text \in Sources, NEW f \in FaultsIn(text)
  PROVE  f.at[1] \in Nat /\ f.at[2] \in Nat
<1>1. CASE f.at[2] = 0
  <2>1. f.at[1] \in 1..Len(text)
    BY <1>1, FaultBefore
  <2> QED
    BY <1>1, <2>1, LineType
<1>2. CASE f.at[2] # 0
  <2>1. f.at[1] \in 1..Len(text) /\ f.at[2] \in 1..Len(text[f.at[1]].words)
    BY <1>2, FaultAtWord
  <2>2. Len(text[f.at[1]].words) \in Nat /\ f.at[1] \in Nat
    BY <2>1, LineType
  <2> QED
    BY <2>1, <2>2
<1> QED
  BY <1>1, <1>2

LEMMA LexemeNumbers ==
  ASSUME NEW f \in Lexemes
  PROVE  f.at[1] \in Nat /\ f.at[2] \in Nat
BY LexemeAt DEF Lexemes

\* What is returned next is the same whether it is due or returned.
LEMMA MadeReturned ==
  ASSUME NEW r \in Seq(Lexemes), NEW p \in Seq(Lexemes), p # <<>>
  PROVE  Append(r, Head(p)) \o Tail(p) = r \o p
<1> DEFINE h == <<Head(p)>>
           t == Tail(p)
<1>1. Head(p) \in Lexemes /\ t \in Seq(Lexemes) /\ p = h \o t
  BY HeadTailProperties, HeadThenTail
<1>2. h \in Seq(Lexemes) /\ Append(r, Head(p)) = r \o h
  BY <1>1, AppendIsConcat
<1> HIDE DEF h, t
<1>3. (r \o h) \o t = r \o (h \o t)
  BY <1>1, <1>2, ConcatAssociative
<1> QED
  BY <1>1, <1>2, <1>3 DEF t

LEMMA KeptFaultsPlain ==
  ASSUME OffsideInv, FaultsSoFar, ReturnPending \/ ReturnNone
  PROVE  FaultsSoFar'
<1>1. UNCHANGED <<source, line, word, at_line_start>>
  BY DEF ReturnPending, ReturnNone, position, layout
<1>2. (returned \o pending)' = returned \o pending
  <2>1. CASE ReturnPending
    BY <2>1, MadeReturned DEF ReturnPending, OffsideInv, Inv, Types
  <2>2. CASE ReturnNone
    BY <2>2 DEF ReturnNone
  <2> QED
    BY <2>1, <2>2
<1> QED
  BY <1>1, <1>2 DEF FaultsSoFar, Current

LEMMA KeptFaultsSkipBlankLine ==
  ASSUME OffsideInv, FaultsSoFar, SkipBlankLine
  PROVE  FaultsSoFar'
<1>1. PICK text \in Sources : text = source
  BY LineNumbers DEF OffsideInv
<1>2. PICK l \in 1..Len(text) : l = line
  BY <1>1, LineNumbers DEF OffsideInv
<1>3. PICK made \in Seq(Lexemes) : made = returned \o pending
  BY ConcatProperties DEF OffsideInv, Inv, Types
<1>4. /\ at_line_start /\ word = 1 /\ Blank(text[l]) /\ Len(text[l].words) = 0
      /\ line' = l + 1 /\ word' = 1 /\ at_line_start' = at_line_start /\ source' = text
      /\ (returned \o pending)' = made
  BY <1>1, <1>2, <1>3, BlankIsOver DEF SkipBlankLine, Here, layout, OffsideInv, StartsAtWord
<1>5. l \in Nat /\ l - 1 \in Nat /\ Current = l - 1 /\ Current' = l
  BY <1>2, <1>4, LineType DEF Current
<1>6. ASSUME Found(made, text, l - 1, l, 1) PROVE Found(made, text, l, l + 1, 1)
  <2>1. ASSUME NEW f \in Lexemes, Passed(f, l - 1, l, 1) PROVE Passed(f, l, l + 1, 1)
    BY <1>5, <2>1, LexemeNumbers DEF Passed
  <2>2. ASSUME NEW f \in FaultsIn(text), Passed(f, l, l + 1, 1) PROVE Passed(f, l - 1, l, 1)
    <3>1. f.at[1] \in Nat /\ f.at[2] \in Nat
      BY FaultNumbers
    <3>2. CASE f.at[2] = 0
      <4>1. f.at[1] # l
        BY <1>4, <3>2, FaultBefore
      <4> QED
        BY <1>5, <2>2, <3>1, <3>2, <4>1 DEF Passed
    <3>3. CASE f.at[2] # 0
      <4>1. f.at[1] # l
        BY <1>4, <3>1, <3>3, FaultAtWord
      <4> QED
        BY <1>5, <2>2, <3>1, <3>3, <4>1 DEF Passed
    <3> QED
      BY <3>2, <3>3
  <2> QED
    BY <1>6, <2>1, <2>2, FoundNoMore
<1> QED
  BY <1>1, <1>2, <1>3, <1>4, <1>5, <1>6 DEF FaultsSoFar

LEMMA KeptFaultsNextWord ==
  ASSUME OffsideInv, FaultsSoFar, NextWord
  PROVE  FaultsSoFar'
<1>1. PICK text \in Sources : text = source
  BY LineNumbers DEF OffsideInv
<1>2. PICK l \in 1..Len(text) : l = line
  BY <1>1, LineNumbers DEF OffsideInv
<1>3. PICK w \in 1..Len(text[l].words) : w = word
  BY <1>1, <1>2, WordAt DEF OffsideInv, NextWord
<1>4. PICK made \in Seq(Lexemes) : made = returned
  BY DEF OffsideInv, Inv, Types
<1>5. PICK token \in Word : token = text[l].words[w]
  BY <1>1, <1>2, <1>3, WordAt DEF OffsideInv, NextWord
<1>6. PICK e \in Lexemes : e = Lexeme(token, l, w)
  BY <1>2, <1>3, LexemeType, LineNumbers DEF OffsideInv, Inv
<1>7. /\ pending = <<>> /\ pending' = <<>> /\ ~at_line_start /\ ~at_line_start'
      /\ source' = text /\ line' = l /\ word' = w + 1 /\ returned' = Append(made, e)
  BY <1>1, <1>2, <1>3, <1>4, <1>5, <1>6 DEF NextWord, Scanning, Here
<1>8. Current = l /\ Current' = l /\ l \in Nat /\ w \in Nat \ {0}
  BY <1>2, <1>3, <1>7, LineNumbers DEF Current, OffsideInv
<1> DEFINE new == <<e>>
<1>9. new \in Seq(Lexemes) /\ Len(new) = 1 /\ new[1] = e
  OBVIOUS
<1>10. returned \o pending = made /\ (returned \o pending)' = made \o new
  <2>1. Append(made, e) \in Seq(Lexemes) /\ Append(made, e) = made \o new
    BY AppendProperties, AppendIsConcat
  <2> HIDE DEF new
  <2> QED
    BY <1>4, <1>7, <2>1, ConcatEmptySeq
<1> HIDE DEF new
<1>11. e.token = token /\ e.at[1] = l /\ e.at[2] = w
  BY <1>6, LexemeAt
<1>12. ASSUME Found(made, text, l, l, w) PROVE Found(made \o new, text, l, l, w + 1)
  <2>1. ASSUME NEW f \in Lexemes, Passed(f, l, l, w) PROVE Passed(f, l, l, w + 1)
    BY <1>8, <2>1, LexemeNumbers DEF Passed
  <2>2. ~Passed(e, l, l, w) /\ Passed(e, l, l, w + 1)
    BY <1>8, <1>11 DEF Passed
  <2>3. ASSUME IsFault(e), e.at[1] <= LastJudged(text) PROVE e \in FaultsIn(text)
    <3>1. token.kind = "Bad"
      BY <1>11, <2>3, WordAssumption DEF IsFault, Faults
    <3>2. token = Bad
      BY <3>1, WordAssumption
    <3> QED
      BY ZenonT(30), <1>5, <1>6, <1>11, <2>3, <3>2, FaultIn
  <2>4. ASSUME NEW f \in FaultsIn(text), Passed(f, l, l, w + 1), ~Passed(f, l, l, w)
        PROVE  f = e
    <3>1. f.at[1] \in Nat /\ f.at[2] \in Nat
      BY FaultNumbers
    <3>2. f.at[1] = l /\ f.at[2] = w
      BY <1>8, <2>4, <3>1 DEF Passed
    <3> QED
      BY <1>5, <1>6, <1>8, <3>2, FaultAtWord
  <2>5. \A i \in 1..Len(new) : i = 1 /\ new[i] = e
    BY <1>9
  <2>6. \A i \in 1..Len(new) : IsFault(new[i]) =>
           /\ ~Passed(new[i], l, l, w) /\ Passed(new[i], l, l, w + 1)
           /\ new[i].at[1] <= LastJudged(text) => new[i] \in FaultsIn(text)
    BY <2>2, <2>3, <2>5
  <2>7. \A f \in FaultsIn(text) : Passed(f, l, l, w + 1) =>
           Passed(f, l, l, w) \/ \E i \in 1..Len(new) : new[i] = f
    BY <1>9, <2>4
  <2>8. \A i, j \in 1..Len(new) : IsFault(new[i]) /\ new[i] = new[j] => i = j
    BY <2>5
  <2> QED
    BY <1>9, <1>12, <2>1, <2>6, <2>7, <2>8, FoundMore
<1> QED
  BY <1>1, <1>2, <1>3, <1>7, <1>8, <1>10, <1>12 DEF FaultsSoFar

LEMMA KeptFaultsEndOfLine ==
  ASSUME OffsideInv, FaultsSoFar, EndOfLine
  PROVE  FaultsSoFar'
<1>1. PICK text \in Sources : text = source
  BY LineNumbers DEF OffsideInv
<1>2. PICK l \in 1..Len(text) : l = line
  BY <1>1, LineNumbers DEF OffsideInv
<1>3. PICK w \in Nat \ {0} : w = word
  BY LineNumbers DEF OffsideInv
<1>4. PICK made \in Seq(Lexemes) : made = returned
  BY DEF OffsideInv, Inv, Types
<1>5. /\ pending = <<>> /\ pending' = <<>> /\ ~at_line_start /\ w > Len(text[l].words)
      /\ source' = text /\ line' = l + 1 /\ word' = 1 /\ l + 1 \in 1..Len(text)
  BY <1>1, <1>2, <1>3, LineNumbers
     DEF EndOfLine, Scanning, AtEndOfLine, AtLastLine, Here, OffsideInv
<1>6. Current = l /\ l \in Nat /\ Len(text[l].words) \in Nat
  BY <1>2, <1>5, LineType DEF Current
<1>7. returned \o pending = made
  BY <1>4, <1>5, ConcatEmptySeq
\* Nothing is wrong behind the words of a line.
<1>8. ASSUME NEW f \in FaultsIn(text), f.at[2] # 0, Passed(f, l, l + 1, 1) PROVE Passed(f, l, l, w)
  <2>1. /\ f.at[1] \in Nat /\ f.at[2] \in Nat
        /\ f.at[2] \in 1..Len(text[f.at[1]].words)
    BY <1>8, FaultNumbers, FaultAtWord
  <2>2. f.at[1] < l \/ f.at[1] = l
    BY <1>6, <1>8, <2>1 DEF Passed
  <2>3. f.at[1] = l => f.at[2] < w
    BY <1>5, <1>6, <2>1
  <2> QED
    BY <1>8, <2>2, <2>3 DEF Passed
<1>9. CASE paren_depth > 0 /\ UNCHANGED <<at_line_start, returned>>
  <2>1. Current' = l + 1 /\ (returned \o pending)' = made
    BY <1>4, <1>5, <1>9, <1>7 DEF Current
  <2>2. ASSUME Delimited(text), Found(made, text, l, l, w)
        PROVE  Found(made, text, l + 1, l + 1, 1)
    <3>1. Open(text, l + 1, 1) # 0
      <4>1. Open(text, l + 1, 1) = Open(text, l, w)
        BY <1>5, OpenNextLine
      <4>2. paren_depth = Open(text, l, w)
        BY <1>1, <1>2, <1>3, <2>2 DEF OffsideInv, DepthRight
      <4> QED
        BY <1>9, <4>1, <4>2
    <3>2. ASSUME NEW f \in Lexemes, Passed(f, l, l, w) PROVE Passed(f, l + 1, l + 1, 1)
      BY <1>6, <3>2, LexemeNumbers DEF Passed
    <3>3. ASSUME NEW f \in FaultsIn(text), Passed(f, l + 1, l + 1, 1) PROVE Passed(f, l, l, w)
      <4>1. CASE f.at[2] = 0
        <5>1. f.at[1] # l + 1 /\ f.at[1] \in Nat
          BY <3>1, <4>1, FaultBefore, FaultNumbers
        <5> QED
          BY <1>6, <3>3, <4>1, <5>1 DEF Passed
      <4>2. CASE f.at[2] # 0
        <5>1. Passed(f, l, l + 1, 1)
          BY <3>3, <4>2 DEF Passed
        <5> QED
          BY <1>8, <4>2, <5>1
      <4> QED
        BY <4>1, <4>2
    <3> QED
      BY <2>2, <3>2, <3>3, FoundNoMore
  <2> QED
    BY <1>1, <1>2, <1>3, <1>5, <1>6, <1>7, <2>1, <2>2 DEF FaultsSoFar
<1>10. CASE at_line_start' = TRUE /\ returned' = Append(returned, Lexeme(Token("Newline"), line, word))
  <2>1. PICK e \in Lexemes : e = Lexeme(Token("Newline"), line, word) /\ e.token.kind = "Newline"
    BY <1>3, LexemeType, MarkType DEF OffsideInv, Inv
  <2> DEFINE new == <<e>>
  <2>2. new \in Seq(Lexemes) /\ Len(new) = 1 /\ new[1] = e
    OBVIOUS
  <2>3. (returned \o pending)' = made \o new
    <3>1. Append(made, e) \in Seq(Lexemes) /\ Append(made, e) = made \o new
      BY AppendProperties, AppendIsConcat
    <3> HIDE DEF new
    <3> QED
      BY <1>4, <1>5, <1>10, <2>1, <3>1, ConcatEmptySeq
  <2>4. Current' = l
    BY <1>5, <1>6, <1>10 DEF Current
  <2> HIDE DEF new
  <2>5. ASSUME Found(made, text, l, l, w) PROVE Found(made \o new, text, l, l + 1, 1)
    <3>1. ASSUME NEW f \in Lexemes, Passed(f, l, l, w) PROVE Passed(f, l, l + 1, 1)
      BY <1>6, <3>1, LexemeNumbers DEF Passed
    <3>2. ASSUME NEW f \in FaultsIn(text), Passed(f, l, l + 1, 1) PROVE Passed(f, l, l, w)
      <4>1. CASE f.at[2] = 0
        BY <3>2, <4>1 DEF Passed
      <4>2. CASE f.at[2] # 0
        BY <1>8, <3>2, <4>2
      <4> QED
        BY <4>1, <4>2
    <3>3. \A i \in 1..Len(new) : ~IsFault(new[i])
      BY <2>1, <2>2 DEF IsFault, Faults
    <3> QED
      BY <2>2, <2>5, <3>1, <3>2, <3>3, FoundMore
  <2> QED
    BY <1>1, <1>2, <1>3, <1>5, <1>6, <1>7, <2>3, <2>4, <2>5 DEF FaultsSoFar
<1> QED
  BY <1>9, <1>10 DEF EndOfLine

LEMMA KeptFaultsEmitEofDedents ==
  ASSUME OffsideInv, FaultsSoFar, EmitEofDedents
  PROVE  FaultsSoFar'
<1>1. PICK made \in Seq(Lexemes) : made = returned
  BY DEF OffsideInv, Inv, Types
<1>2. PICK n \in Nat : n = Len(indent_stack) - 1
  <2>1. Len(indent_stack) \in Nat \ {0}
    BY InvNests, LevelsType DEF OffsideInv
  <2>2. Len(indent_stack) - 1 \in Nat
    BY <2>1
  <2> QED
    BY <2>2
<1> DEFINE new == Dedents(n)
<1>3. /\ pending = <<>> /\ pending' = new /\ returned' = made
      /\ UNCHANGED <<source, line, word, at_line_start>>
  BY <1>1, <1>2 DEF EmitEofDedents, Scanning, position
<1>4. new \in Seq(Lexemes) /\ Len(new) = n
  BY DedentsType, DedentsAre DEF OffsideInv, Inv
<1>5. ASSUME NEW i \in 1..n PROVE ~IsFault(new[i])
  <2>1. new[i].token.kind = "Dedent"
    BY DedentsAre, LexemeAt, MarkType
  <2> QED
    BY <2>1 DEF IsFault, Faults
<1> HIDE DEF new
<1>6. returned \o pending = made /\ (returned \o pending)' = made \o new
  BY <1>1, <1>3, ConcatEmptySeq
<1>7. ASSUME NEW text, NEW c, NEW l, NEW w, Found(made, text, c, l, w)
      PROVE  Found(made \o new, text, c, l, w)
  <2>1. \A i \in 1..Len(new) : ~IsFault(new[i])
    BY <1>4, <1>5
  <2> QED
    BY <1>4, <1>7, <2>1, FoundMore
<1> QED
  BY <1>3, <1>6, <1>7 DEF FaultsSoFar, Current

\* The faults of the line that is entered are those the lexer is to find there.
LEMMA FaultsOfLine ==
  ASSUME OffsideInv, LineStart, Delimited(source), NEW text, text = source, NEW l, l = line,
         NEW faults, faults = FaultAtStart(line, source[line].indent, indent_stack)
  PROVE  /\ \A f \in faults : f.at[1] = l /\ f.at[2] = 0 /\ (l <= LastJudged(text) => f \in FaultsIn(text))
         /\ \A f \in FaultsIn(text) : f.at[1] = l /\ f.at[2] = 0 => f \in faults
<1> DEFINE tab == Lexeme(Token("TabError"), l, 0)
           error == Lexeme(Token("DedentError"), l, 0)
           last == LastJudged(text)
           lost == Lost(Depths(text))
           d == source[line].indent
           top == indent_stack[Len(indent_stack)]
<1>1. text \in Sources /\ l \in 1..Len(text) /\ l \in Nat
  BY LineNumbers DEF OffsideInv
<1>2. at_line_start /\ Open(text, l, 1) = 0
  BY CountsHere DEF OffsideInv, LineStart
<1>3. tab.at[1] = l /\ tab.at[2] = 0 /\ error.at[1] = l /\ error.at[2] = 0
  BY LexemeAt
<1>4. /\ last \in Nat /\ (lost # {} => last \in lost) /\ \A k \in lost : last <= k /\ k \in Nat
  BY <1>1, FirstLost, DepthsType
\* Up to the first line that is lost, the stack tells which one that is.
<1>5. ASSUME l <= last, ~text[l].tab, ~Blank(text[l])
      PROVE  l \in lost <=> d < top /\ indent_stack[Kept(indent_stack, d)] # d
  <2>1. Judged(source, line - 1)
    <3>1. \A k \in lost : k > l - 1
      BY <1>1, <1>4, <1>5
    <3> QED
      BY <3>1 DEF Judged
  <2> QED
    BY <1>2, <1>5, <2>1, LineStartFollows DEF OffsideInv
<1> HIDE DEF last, lost
<1>6. ASSUME NEW f \in faults
      PROVE  f.at[1] = l /\ f.at[2] = 0 /\ (l <= last => f \in FaultsIn(text))
  <2>1. CASE text[l].tab
    <3>1. f = tab
      BY <1>6, <2>1 DEF FaultAtStart
    <3>2. l <= last => tab \in FaultsIn(text)
      BY <1>1, <1>2, <2>1, FaultIn DEF last
    <3> QED
      BY <1>3, <3>1, <3>2
  <2>2. CASE ~text[l].tab
    <3>1. f = error /\ ~Blank(text[l]) /\ d < top /\ indent_stack[Kept(indent_stack, d)] # d
      BY <1>6, <2>2 DEF FaultAtStart
    <3>2. ASSUME l <= last PROVE error \in FaultsIn(text)
      <4>1. l \in lost
        BY <1>5, <2>2, <3>1, <3>2
      <4>2. l = last
        BY <1>1, <1>4, <3>2, <4>1
      <4> QED
        BY <1>1, <4>1, <4>2, FaultIn DEF last, lost
    <3> QED
      BY <1>3, <3>1, <3>2
  <2> QED
    BY <2>1, <2>2
<1>7. ASSUME NEW f \in FaultsIn(text), f.at[1] = l, f.at[2] = 0
      PROVE  f \in faults
  <2>1. /\ l <= last /\ ~Blank(text[l])
        /\ \/ f = tab /\ text[l].tab
           \/ f = error /\ l \in lost /\ ~text[l].tab
    BY <1>1, <1>7, FaultBefore DEF last, lost
  <2>2. CASE f = tab /\ text[l].tab
    BY <2>2 DEF FaultAtStart
  <2>3. CASE f = error /\ l \in lost /\ ~text[l].tab
    <3>1. d < top /\ indent_stack[Kept(indent_stack, d)] # d
      BY <1>5, <2>1, <2>3
    <3> QED
      BY <2>1, <2>3, <3>1 DEF FaultAtStart
  <2> QED
    BY <2>1, <2>2, <2>3
<1> QED
  BY <1>6, <1>7 DEF last

LEMMA KeptFaultsLineStart ==
  ASSUME OffsideInv, FaultsSoFar, LineStart
  PROVE  FaultsSoFar'
<1>1. PICK text \in Sources : text = source
  BY LineNumbers DEF OffsideInv
<1>2. PICK l \in 1..Len(text) : l = line
  BY <1>1, LineNumbers DEF OffsideInv
<1>3. PICK made \in Seq(Lexemes) : made = returned
  BY DEF OffsideInv, Inv, Types
<1>4. PICK faults : faults = FaultAtStart(line, source[line].indent, indent_stack)
  OBVIOUS
<1>5. Due(pending', l, faults)
  BY <1>2, <1>4, DueAtLineStart DEF OffsideInv
<1>6. PICK new \in Seq(Lexemes) : new = pending'
  BY <1>5 DEF Due
<1>7. /\ at_line_start /\ ~at_line_start' /\ pending = <<>> /\ returned' = made
      /\ source' = text /\ line' = l /\ word = 1 /\ word' = 1
  BY <1>1, <1>2, <1>3 DEF LineStart, position, OffsideInv, StartsAtWord
<1>8. l \in Nat /\ Current = l - 1 /\ Current' = l
  BY <1>2, <1>7, LineNumbers DEF Current, OffsideInv
<1>9. returned \o pending = made /\ (returned \o pending)' = made \o new
  BY <1>3, <1>6, <1>7, ConcatEmptySeq
<1>10. ASSUME Delimited(text), Found(made, text, l - 1, l, 1) PROVE Found(made \o new, text, l, l, 1)
  <2>1. /\ \A f \in faults : f.at[1] = l /\ f.at[2] = 0 /\ (l <= LastJudged(text) => f \in FaultsIn(text))
        /\ \A f \in FaultsIn(text) : f.at[1] = l /\ f.at[2] = 0 => f \in faults
    BY <1>1, <1>2, <1>4, <1>10, FaultsOfLine
  <2>2. /\ \A i \in 1..Len(new) : IsFault(new[i]) => new[i] \in faults /\ i = Len(new)
        /\ \A f \in faults : \E i \in 1..Len(new) : new[i] = f
    BY <1>5, <1>6 DEF Due
  <2>3. ASSUME NEW f \in Lexemes, Passed(f, l - 1, l, 1) PROVE Passed(f, l, l, 1)
    BY <1>8, <2>3, LexemeNumbers DEF Passed
  <2>4. ASSUME NEW f \in faults PROVE ~Passed(f, l - 1, l, 1) /\ Passed(f, l, l, 1)
    BY <1>8, <2>1, <2>4 DEF Passed
  <2>5. ASSUME NEW f \in FaultsIn(text), Passed(f, l, l, 1), ~Passed(f, l - 1, l, 1)
        PROVE  \E i \in 1..Len(new) : new[i] = f
    <3>1. f.at[1] \in Nat /\ f.at[2] \in Nat
      BY FaultNumbers
    <3>2. f.at[1] = l /\ f.at[2] = 0
      BY <1>8, <2>5, <3>1 DEF Passed
    <3> QED
      BY <2>1, <2>2, <3>2
  <2>6. \A i \in 1..Len(new) : IsFault(new[i]) =>
           /\ ~Passed(new[i], l - 1, l, 1) /\ Passed(new[i], l, l, 1)
           /\ new[i].at[1] <= LastJudged(text) => new[i] \in FaultsIn(text)
    BY <2>1, <2>2, <2>4
  <2>7. \A i, j \in 1..Len(new) : IsFault(new[i]) /\ new[i] = new[j] => i = j
    BY <2>2
  <2> QED
    BY <1>10, <2>3, <2>5, <2>6, <2>7, FoundMore
<1> QED
  BY <1>1, <1>2, <1>7, <1>8, <1>9, <1>10 DEF FaultsSoFar

-----------------------------------------------------------------------------
(* Both properties, for every text.                                        *)

LEMMA KeptOffsideInv ==
  ASSUME OffsideInv, Inv', NextToken
  PROVE  OffsideInv'
BY KeptDepthRight, KeptFollows, KeptMarks DEF OffsideInv

LEMMA KeptFaultsSoFar ==
  ASSUME OffsideInv, FaultsSoFar, NextToken
  PROVE  FaultsSoFar'
BY KeptFaultsPlain, KeptFaultsSkipBlankLine, KeptFaultsNextWord, KeptFaultsEndOfLine,
   KeptFaultsLineStart, KeptFaultsEmitEofDedents DEF NextToken

LEMMA InitialOffside ==
  ASSUME LexerInit
  PROVE  OffsideInv /\ FaultsSoFar /\ AtFirstWord(returned, source)
<1>1. Inv
  BY InitialInv
<1>2. /\ source \in Sources /\ line = 1 /\ word = 1 /\ at_line_start /\ paren_depth = 0
      /\ indent_stack = <<0>> /\ pending = <<>> /\ returned = <<>>
  BY DEF LexerInit
<1>3. PICK text \in Sources : text = source
  BY <1>2
<1>4. Current = 0
  BY <1>2 DEF Current
<1>5. Open(text, 1, 1) = 0
  BY OpenFirst
<1>6. Levels(<<0>>) = {} /\ Blocks(Depths(text), 0) = {}
  <2>1. Blocks(Depths(text), 0) = {}
    <3>1. \A k \in DOMAIN Depths(text) : k \in 1..Len(text)
      BY DepthsType
    <3>2. \A k \in DOMAIN Depths(text) : ~(k <= 0)
      BY <3>1, LineType
    <3> QED
      BY <3>2 DEF Blocks
  <2>2. Levels(<<0>>) = {}
    BY DEF Levels
  <2> QED
    BY <2>1, <2>2
<1>7. Follows
  BY <1>2, <1>3, <1>4, <1>6 DEF Follows
<1>8. FaultsSoFar
  <2>1. ASSUME NEW f \in FaultsIn(text) PROVE ~Passed(f, 0, 1, 1)
    <3>1. f.at[1] \in Nat /\ f.at[2] \in Nat
      BY FaultNumbers
    <3>2. f.at[1] \in 1..Len(text)
      BY FaultBefore, FaultAtWord
    <3> QED
      BY <3>1, <3>2 DEF Passed
  <2>2. Found(<<>>, text, 0, 1, 1)
    BY <2>1 DEF Found
  <2>3. returned \o pending = <<>>
    BY <1>2
  <2> QED
    BY <1>2, <1>3, <1>4, <2>2, <2>3 DEF FaultsSoFar
<1> QED
  BY <1>1, <1>2, <1>3, <1>5, <1>7, <1>8
     DEF OffsideInv, StartsAtWord, DepthRight, MarksBeforeWords, AtFirstWord

LEMMA InvFaults ==
  ASSUME OffsideInv, FaultsSoFar
  PROVE  FaultsFound
<1> SUFFICES ASSUME ended, Delimited(source) PROVE
      LET last == LastJudged(source)
          there == FaultsIn(source)
          found == {i \in DOMAIN returned : IsFault(returned[i]) /\ returned[i].at[1] <= last}
      IN {returned[i] : i \in found} = there /\ Cardinality(found) = Cardinality(there)
  BY DEF FaultsFound
<1>1. PICK text \in Sources : text = source
  BY LineNumbers DEF OffsideInv
<1>2. PICK made \in Seq(Lexemes) : made = returned
  BY DEF OffsideInv, Inv, Types
<1> DEFINE last == LastJudged(text)
           there == FaultsIn(text)
           found == {i \in DOMAIN made : IsFault(made[i]) /\ made[i].at[1] <= last}
           l == Len(text)
<1>3. DOMAIN made = 1..Len(made) /\ Len(made) \in Nat
  BY LenProperties
<1>4. /\ pending = <<>> /\ ~at_line_start /\ line = l /\ word > Len(text[l].words)
      /\ word \in Nat /\ l \in Nat /\ l \in 1..Len(text) /\ Len(text[l].words) \in Nat
  BY <1>1, LineNumbers DEF OffsideInv, Inv, Closed, Finishing, AtEndOfSource, AtLastLine, AtEndOfLine, Here
<1>5. PICK w \in Nat : w = word
  BY <1>4
<1>6. Found(made, text, l, l, w)
  <2>1. Current = l /\ returned \o pending = made
    BY <1>2, <1>4, ConcatEmptySeq DEF Current
  <2> QED
    BY <1>1, <1>4, <1>5, <2>1 DEF FaultsSoFar
<1>7. ASSUME NEW f \in there
      PROVE  Passed(f, l, l, w) /\ IsFault(f) /\ f.at[1] <= last
  <2>1. f.at[1] \in Nat /\ f.at[2] \in Nat
    BY FaultNumbers
  <2>2. f.at[1] \in 1..Len(text)
    BY FaultBefore, FaultAtWord
  <2>3. f.at[2] # 0 => f.at[2] \in 1..Len(text[f.at[1]].words)
    BY FaultAtWord
  <2>4. Passed(f, l, l, w)
    BY <1>4, <1>5, <2>1, <2>2, <2>3 DEF Passed
  <2>5. last \in Nat
    BY FirstLost
  <2>6. f.token \in {Token("TabError"), Bad, Token("DedentError")} /\ f.at[1] <= last
    BY <2>5, FaultIn, LexemeAt
  <2> QED
    BY <2>4, <2>6 DEF IsFault, Faults, Token, Bad
<1>8. ASSUME NEW f \in there PROVE \E i \in found : made[i] = f
  <2> HIDE DEF there, last
  <2>1. PICK i \in 1..Len(made) : made[i] = f
    BY <1>6, <1>7 DEF Found, there
  <2> QED
    BY <1>3, <1>7, <2>1
<1>9. ASSUME NEW i \in found PROVE made[i] \in there
  BY <1>3, <1>6 DEF Found
<1>10. ASSUME NEW i \in found, NEW j \in found, made[i] = made[j] PROVE i = j
  BY <1>3, <1>6, <1>10 DEF Found
<1>11. IsFiniteSet(found)
  <2>1. IsFiniteSet(1..Len(made))
    BY <1>3, FS_Interval
  <2> QED
    BY <1>3, <2>1, FS_Subset
<1> DEFINE fault == [i \in found |-> made[i]]
<1>12. Cardinality(found) = Cardinality(there)
  <2> HIDE DEF found, there
  <2>1. fault \in [found -> there]
    BY <1>9
  <2>2. \A x, y \in found : fault[x] = fault[y] => x = y
    BY <1>10
  <2>3. \A z \in there : \E x \in found : fault[x] = z
    BY <1>8
  <2> HIDE DEF fault
  <2> QED
    BY <1>11, <2>1, <2>2, <2>3, SameSize
<1>13. {made[i] : i \in found} = there
  <2> HIDE DEF found, there
  <2> QED
    BY <1>8, <1>9
<1> QED
  BY <1>1, <1>2, <1>12, <1>13

OffsideAll == OffsideInv /\ FaultsSoFar /\ AtFirstWord(returned, source)

LEMMA OffsideInvariant == LexerSpec => []OffsideAll
<1>1. LexerInit => OffsideAll
  BY InitialOffside DEF OffsideAll
<1>2. Inv /\ [NextToken]_lexerVars => Inv'
  BY KeptInv
<1>3. OffsideAll /\ [NextToken]_lexerVars => OffsideAll'
  <2> SUFFICES ASSUME OffsideAll, [NextToken]_lexerVars PROVE OffsideAll'
    OBVIOUS
  <2>1. CASE UNCHANGED lexerVars
    BY <2>1
       DEF OffsideAll, lexerVars, layout, position, OffsideInv, Inv, Types, LineStartsOutside, BlocksNest, Balanced,
           Tally, Finishing, Closed, AtEndOfSource, AtLastLine, AtEndOfLine, Here, StartsAtWord,
           DepthRight, Follows, Current, MarksBeforeWords, FaultsSoFar
  <2>2. CASE NextToken
    <3>1. Inv'
      BY <1>2, <2>2 DEF OffsideAll, OffsideInv
    <3> QED
      BY <2>2, <3>1, KeptOffsideInv, KeptFaultsSoFar, KeptAtFirstWord DEF OffsideAll
  <2> QED
    BY <2>1, <2>2
<1> QED
  BY <1>1, <1>3, PTL DEF LexerSpec

\* For every text: when the first word of a line is returned, as many blocks have been
\* opened and not closed as the line is in, over blank lines, delimiters, tabs and
\* whatever the lines before go back to, and all are closed in the end.
THEOREM BlocksCorrect == LexerSpec => []BlocksFollowIndentation
<1>1. OffsideAll => BlocksFollowIndentation
  BY InvFollows DEF OffsideAll, OffsideInv
<1> QED
  BY <1>1, OffsideInvariant, PTL

\* For every text: the lexer has returned each fault up to the first line that is lost
\* once when it ends, and no other up to there.
THEOREM FaultsCorrect == LexerSpec => []FaultsFound
<1>1. OffsideAll => FaultsFound
  BY InvFaults DEF OffsideAll
<1> QED
  BY <1>1, OffsideInvariant, PTL
-----------------------------------------------------------------------------
(* Every word is returned, once and in its turn.                           *)

InOrder(made) ==
  \A i, j \in 1..Len(made) :
    i < j /\ ~IsDedent(made[i]) /\ ~IsDedent(made[j]) => Precedes(made[i].at, made[j].at)
\* All but the ends of blocks stands before word w of line l.
Within(made, l, w) == \A i \in 1..Len(made) : ~IsDedent(made[i]) => Precedes(made[i].at, <<l, w>>)
Complete(made, text, l, w) ==
  \A p \in Before(text, l, w) : \E i \in 1..Len(made) :
    made[i] = Lexeme(text[p[1]].words[p[2]], p[1], p[2])

\* What is due at line l: Dedents, and at most one mark behind them.
OnlyDedents(due) == \A i \in 1..Len(due) : IsDedent(due[i])
MarkLast(due, l) ==
  \A i \in 1..Len(due) : ~IsDedent(due[i]) => i = Len(due) /\ due[i].at = <<l, 0>>

\* Nothing has been returned of a line that is not entered or whose mark is due.
TextSoFar ==
  /\ InOrder(returned) /\ Within(returned, line, word) /\ Complete(returned, source, line, word)
  /\ MarkLast(pending, line) /\ (at_line_start => pending = <<>>)
  /\ at_line_start \/ ~OnlyDedents(pending) => Within(returned, line, 0)

LEMMA AppendedAt ==
  ASSUME NEW made \in Seq(Lexemes), NEW e \in Lexemes
  PROVE  /\ Len(Append(made, e)) = Len(made) + 1 /\ Len(made) \in Nat
         /\ Append(made, e)[Len(made) + 1] = e
         /\ \A i \in 1..Len(made) : Append(made, e)[i] = made[i]
<1> HIDE DEF Lexemes
<1> QED
  BY AppendProperties, LenProperties

\* What comes next stands behind all that came before.
LEMMA AppendInOrder ==
  ASSUME NEW made \in Seq(Lexemes), NEW e \in Lexemes, InOrder(made),
         NEW l, NEW w, IsDedent(e) \/ (e.at = <<l, w>> /\ Within(made, l, w))
  PROVE  InOrder(Append(made, e))
<1> DEFINE t == Append(made, e)
           n == Len(made)
<1>1. /\ Len(t) = n + 1 /\ n \in Nat /\ t[n + 1] = e
      /\ \A i \in 1..n : t[i] = made[i]
  BY AppendedAt
<1> HIDE DEF t
<1>2. SUFFICES ASSUME NEW i \in 1..Len(t), NEW j \in 1..Len(t), i < j, ~IsDedent(t[i]), ~IsDedent(t[j])
               PROVE  Precedes(t[i].at, t[j].at)
  BY DEF InOrder, t
<1>3. i \in 1..n /\ t[i] = made[i]
  BY <1>1, <1>2
<1>4. CASE j \in 1..n
  <2>1. t[j] = made[j]
    BY <1>1, <1>4
  <2> QED
    BY <1>2, <1>3, <1>4, <2>1 DEF InOrder
<1>5. CASE j = n + 1
  BY <1>1, <1>2, <1>3, <1>5 DEF Within
<1> QED
  BY <1>1, <1>4, <1>5

LEMMA AppendWithin ==
  ASSUME NEW made \in Seq(Lexemes), NEW e \in Lexemes, NEW l, NEW w, Within(made, l, w),
         IsDedent(e) \/ Precedes(e.at, <<l, w>>)
  PROVE  Within(Append(made, e), l, w)
<1> DEFINE t == Append(made, e)
           n == Len(made)
<1>1. /\ Len(t) = n + 1 /\ n \in Nat /\ t[n + 1] = e
      /\ \A i \in 1..n : t[i] = made[i]
  BY AppendedAt
<1> HIDE DEF t
<1>2. ASSUME NEW i \in 1..Len(t), ~IsDedent(t[i]) PROVE Precedes(t[i].at, <<l, w>>)
  <2>1. CASE i \in 1..n
    BY <1>1, <1>2, <2>1 DEF Within
  <2>2. CASE i = n + 1
    BY <1>1, <1>2, <2>2
  <2> QED
    BY <1>1, <2>1, <2>2
<1> QED
  BY <1>2 DEF Within, t

LEMMA WithinLater ==
  ASSUME NEW made \in Seq(Lexemes), NEW l \in Nat, NEW w \in Nat, NEW m \in Nat, NEW v \in Nat,
         Within(made, l, w), l < m \/ (l = m /\ w <= v)
  PROVE  Within(made, m, v)
<1>1. SUFFICES ASSUME NEW i \in 1..Len(made), ~IsDedent(made[i]) PROVE Precedes(made[i].at, <<m, v>>)
  BY DEF Within
<1>2. made[i] \in Lexemes
  <2> HIDE DEF Lexemes
  <2> QED
    BY ElementOfSeq
<1>3. made[i].at[1] \in Nat /\ made[i].at[2] \in Nat
  BY <1>2, LexemeNumbers
<1>4. Precedes(made[i].at, <<l, w>>)
  BY <1>1 DEF Within
<1> QED
  BY <1>3, <1>4 DEF Precedes

LEMMA AppendComplete ==
  ASSUME NEW made \in Seq(Lexemes), NEW e \in Lexemes, NEW text, NEW l, NEW w, Complete(made, text, l, w)
  PROVE  Complete(Append(made, e), text, l, w)
<1> DEFINE t == Append(made, e)
<1>1. /\ Len(t) = Len(made) + 1 /\ Len(made) \in Nat
      /\ \A i \in 1..Len(made) : t[i] = made[i]
  BY AppendedAt
<1> HIDE DEF t
<1>2. ASSUME NEW p \in Before(text, l, w)
      PROVE  \E i \in 1..Len(t) : t[i] = Lexeme(text[p[1]].words[p[2]], p[1], p[2])
  <2>1. PICK i \in 1..Len(made) : made[i] = Lexeme(text[p[1]].words[p[2]], p[1], p[2])
    BY DEF Complete
  <2>2. i \in 1..Len(t) /\ t[i] = made[i]
    BY <1>1
  <2> QED
    BY <2>1, <2>2
<1> QED
  BY <1>2 DEF Complete, t

LEMMA NothingDue == ASSUME NEW l PROVE OnlyDedents(<<>>) /\ MarkLast(<<>>, l)
<1>1. \A i : i \notin 1..Len(<<>>)
  OBVIOUS
<1> QED
  BY <1>1 DEF OnlyDedents, MarkLast

LEMMA OneDue ==
  ASSUME NEW t, NEW l
  PROVE  MarkLast(<<Lexeme(t, l, 0)>>, l)
<1>1. Len(<<Lexeme(t, l, 0)>>) = 1 /\ <<Lexeme(t, l, 0)>>[1].at = <<l, 0>>
  BY DEF Lexeme
<1>2. \A i \in 1..1 : i = 1
  OBVIOUS
<1> QED
  BY <1>1, <1>2 DEF MarkLast

LEMMA DedentsOnly == ASSUME NEW n \in Nat PROVE OnlyDedents(Dedents(n)) /\ MarkLast(Dedents(n), line)
<1>1. \A i \in 1..Len(Dedents(n)) : Dedents(n)[i].token.kind = "Dedent"
  BY DedentsAre, LexemeAt, MarkType
<1> QED
  BY <1>1 DEF OnlyDedents, MarkLast, IsDedent

LEMMA DedentsThenMark ==
  ASSUME Types, NEW n \in Nat, NEW e \in Lexemes, e.at = <<line, 0>>
  PROVE  MarkLast(Dedents(n) \o <<e>>, line)
<1> DEFINE due == Dedents(n)
           mark == <<e>>
           both == due \o mark
<1>1. Len(due) = n /\ due \in Seq(Lexemes) /\ OnlyDedents(due)
  BY DedentsAre, DedentsType, DedentsOnly
<1>2. mark \in Seq(Lexemes) /\ Len(mark) = 1 /\ mark[1] = e
  BY DEF mark
<1> HIDE DEF due, mark
<1>3. /\ Len(both) = n + 1
      /\ \A i \in 1..(n + 1) : both[i] = IF i <= n THEN due[i] ELSE mark[i - n]
  <2>1. /\ Len(both) = Len(due) + Len(mark)
        /\ \A i \in 1..(Len(due) + Len(mark)) : both[i] = IF i <= Len(due) THEN due[i] ELSE mark[i - Len(due)]
    <3> HIDE DEF Lexemes
    <3> QED
      BY Zenon, <1>1, <1>2, ConcatProperties
  <2> QED
    BY <1>1, <1>2, <2>1
<1> HIDE DEF both
<1>4. ASSUME NEW i \in 1..(n + 1), ~IsDedent(both[i]) PROVE i = n + 1 /\ both[i].at = <<line, 0>>
  <2>1. CASE i <= n
    BY <1>1, <1>3, <1>4, <2>1 DEF OnlyDedents
  <2>2. CASE i = n + 1
    <3>1. both[i] = mark[1]
      BY <1>3, <2>2
    <3> QED
      BY <1>2, <2>2, <3>1
  <2> QED
    BY <2>1, <2>2
<1>5. MarkLast(both, line)
  BY <1>3, <1>4 DEF MarkLast
<1> QED
  BY <1>5 DEF both, due, mark

LEMMA MarkAtLineStart ==
  ASSUME Inv, LineStart
  PROVE  MarkLast(pending', line)
<1> DEFINE d == source[line].indent
           n == Len(indent_stack) - Kept(indent_stack, d)
           e == Lexeme(Token("DedentError"), line, 0)
<1>1. pending = <<>> /\ d \in Nat /\ Types
  BY SourceType DEF LineStart, Inv, Here
<1>2. CASE pending' = <<Lexeme(Token("TabError"), line, 0)>> \/ pending' = <<Lexeme(Token("Indent"), line, 0)>>
  BY <1>2, OneDue
<1>3. CASE pending' = pending
  BY <1>1, <1>3, NothingDue
<1>4. CASE pending' = Dedents(n) \o (IF indent_stack[Kept(indent_stack, d)] = d THEN <<>> ELSE <<e>>)
  <2>1. n \in Nat
    <3>1. Nests(indent_stack)
      BY InvNests
    <3>2. Kept(indent_stack, d) \in 1..Len(indent_stack) /\ Len(indent_stack) \in Nat
      BY <1>1, <3>1, LevelsKept, LevelsType
    <3> QED
      BY <3>2
  <2>2. e \in Lexemes /\ e.at = <<line, 0>>
    BY <1>1, LexemeType, MarkType DEF Lexeme
  <2> HIDE DEF n, e
  <2>3. Dedents(n) \in Seq(Lexemes)
    BY <1>1, <2>1, DedentsType
  <2>4. Dedents(n) \o <<>> = Dedents(n)
    <3> HIDE DEF Lexemes
    <3> QED
      BY <2>3, ConcatEmptySeq
  <2>5. MarkLast(Dedents(n), line) /\ MarkLast(Dedents(n) \o <<e>>, line)
    BY <1>1, <2>1, <2>2, DedentsOnly, DedentsThenMark
  <2> QED
    BY <1>4, <2>4, <2>5
<1> QED
  BY <1>2, <1>3, <1>4 DEF LineStart, Indentation, Here

LEMMA KeptTextSoFar ==
  ASSUME OffsideInv, TextSoFar, NextToken
  PROVE  TextSoFar'
<1>1. /\ Inv /\ returned \in Seq(Lexemes) /\ pending \in Seq(Lexemes) /\ source \in Sources
      /\ line \in 1..Len(source) /\ line \in Nat /\ word \in Nat \ {0} /\ source' = source
  BY LineNumbers
     DEF OffsideInv, Inv, Types, NextToken, ReturnPending, SkipBlankLine, LineStart, NextWord, EndOfLine,
         EmitEofDedents, ReturnNone
<1>2. CASE ReturnPending
  <2> DEFINE e == Head(pending)
  <2>1. /\ pending # <<>> /\ returned' = Append(returned, e) /\ pending' = Tail(pending)
        /\ UNCHANGED <<source, line, word, at_line_start>> /\ ~at_line_start
    BY <1>2 DEF ReturnPending, position, layout, TextSoFar
  <2>2. /\ e \in Lexemes /\ e = pending[1] /\ Len(pending) \in Nat /\ 1 \in 1..Len(pending)
        /\ Len(pending') = Len(pending) - 1 /\ \A i \in 1..Len(pending') : pending'[i] = pending[i + 1]
    <3> HIDE DEF Lexemes
    <3> QED
      BY <1>1, <2>1, HeadTailProperties, EmptySeq, LenProperties
  <2> HIDE DEF e
  <2>3. ASSUME NEW i \in 1..Len(pending')
        PROVE  i + 1 \in 1..Len(pending) /\ pending'[i] = pending[i + 1] /\ (i + 1 = Len(pending) => i = Len(pending'))
    BY <2>2
  <2>4. MarkLast(pending', line)
    BY <2>3 DEF MarkLast, TextSoFar
  <2>5. IsDedent(e) \/ (e.at = <<line, 0>> /\ Within(returned, line, 0) /\ Len(pending) = 1)
    BY <2>2 DEF MarkLast, OnlyDedents, TextSoFar
  <2>6. InOrder(returned')
    BY <1>1, <2>1, <2>2, <2>5, AppendInOrder DEF TextSoFar
  <2>7. IsDedent(e) \/ Precedes(e.at, <<line, word>>)
    BY <1>1, <2>5 DEF Precedes
  <2>8. Within(returned', line, word) /\ Complete(returned', source, line, word)
    BY <1>1, <2>1, <2>2, <2>7, AppendWithin, AppendComplete DEF TextSoFar
  <2>9. ASSUME ~OnlyDedents(pending') PROVE Within(returned', line, 0)
    <3>1. PICK i \in 1..Len(pending') : ~IsDedent(pending'[i])
      BY <2>9 DEF OnlyDedents
    <3>2. i + 1 \in 1..Len(pending) /\ ~IsDedent(pending[i + 1])
      BY <2>3, <3>1
    <3>3. ~OnlyDedents(pending)
      BY <3>2 DEF OnlyDedents
    <3>4. Len(pending) # 1
      BY <2>2, <3>1
    <3>5. IsDedent(e) /\ Within(returned, line, 0)
      BY <2>5, <3>3, <3>4 DEF TextSoFar
    <3> QED
      BY <1>1, <2>1, <2>2, <3>5, AppendWithin
  <2> QED
    BY <2>1, <2>4, <2>6, <2>8, <2>9 DEF TextSoFar
<1>3. CASE SkipBlankLine
  <2>1. /\ at_line_start /\ word = 1 /\ pending = <<>> /\ line' = line + 1
        /\ UNCHANGED <<word, at_line_start, pending, returned>>
        /\ Len(source[line].words) = 0 /\ line # Len(source)
    BY <1>1, <1>3, BlankIsOver DEF SkipBlankLine, Here, layout, OffsideInv, StartsAtWord, AtLastLine
  <2>2. line + 1 \in 1..Len(source) /\ line < line + 1
    BY <1>1, <2>1, LineNumbers
  <2>3. Before(source, line + 1, 1) = Before(source, line, 1)
    BY <1>1, <2>1, <2>2, BeforeNextLine
  <2>4. Within(returned, line + 1, 0) /\ Within(returned, line + 1, 1)
    BY <1>1, <2>1, <2>2, WithinLater DEF TextSoFar
  <2> QED
    BY <1>1, <2>1, <2>3, <2>4, NothingDue DEF TextSoFar, Complete
<1>4. CASE LineStart
  <2>1. at_line_start /\ at_line_start' = FALSE /\ UNCHANGED <<line, word, returned>>
    BY <1>4 DEF LineStart, position
  <2>2. MarkLast(pending', line)
    BY <1>1, <1>4, MarkAtLineStart
  <2> QED
    BY <1>1, <2>1, <2>2 DEF TextSoFar
<1>5. CASE NextWord
  <2> DEFINE token == source[line].words[word]
             e == Lexeme(token, line, word)
  <2>1. /\ returned' = Append(returned, e) /\ pending = <<>> /\ ~at_line_start /\ ~AtEndOfLine
        /\ word' = word + 1 /\ UNCHANGED <<line, pending, at_line_start>>
    BY <1>5 DEF NextWord, Scanning, Here
  <2>2. word \in 1..Len(source[line].words) /\ token \in Word
    BY <1>1, <2>1, WordAt
  <2>3. e \in Lexemes /\ e.at = <<line, word>>
    BY <1>1, <2>2, LexemeType DEF Inv, Lexeme
  <2>4. Precedes(e.at, <<line, word + 1>>)
    BY <1>1, <2>3 DEF Precedes
  <2>5. Within(returned, line, word + 1)
    BY <1>1, WithinLater DEF TextSoFar
  <2>6. Before(source, line, word + 1) = Before(source, line, word) \cup {<<line, word>>}
    BY <1>1, <2>2, BeforeNextWord
  <2>7. ASSUME NEW p \in Before(source, line, word + 1)
        PROVE  \E i \in 1..Len(returned') : returned'[i] = Lexeme(source[p[1]].words[p[2]], p[1], p[2])
    <3>1. CASE p = <<line, word>>
      <4>1. Lexeme(source[p[1]].words[p[2]], p[1], p[2]) = e
        BY <3>1
      <4>2. Len(returned') = Len(returned) + 1 /\ Len(returned) \in Nat /\ returned'[Len(returned) + 1] = e
        BY <1>1, <2>1, <2>3, AppendedAt
      <4> QED
        BY <4>1, <4>2
    <3>2. CASE p \in Before(source, line, word)
      <4>1. Complete(returned', source, line, word)
        BY <1>1, <2>1, <2>3, AppendComplete DEF TextSoFar
      <4> QED
        BY <3>2, <4>1 DEF Complete
    <3> QED
      BY <2>6, <3>1, <3>2
  <2> HIDE DEF e
  <2>8. InOrder(returned')
    BY <1>1, <2>1, <2>3, AppendInOrder DEF TextSoFar
  <2>9. Within(returned', line, word + 1)
    BY <1>1, <2>1, <2>3, <2>4, <2>5, AppendWithin
  <2> QED
    BY <1>1, <2>1, <2>7, <2>8, <2>9, NothingDue DEF TextSoFar, Complete
<1>6. CASE EndOfLine
  <2> DEFINE e == Lexeme(Token("Newline"), line, word)
  <2>1. /\ pending = <<>> /\ pending' = pending /\ AtEndOfLine /\ line # Len(source)
        /\ line' = line + 1 /\ word' = 1
        /\ returned' = returned \/ returned' = Append(returned, e)
    BY <1>6 DEF EndOfLine, Scanning, AtLastLine
  <2>2. line + 1 \in 1..Len(source) /\ line < line + 1 /\ word > Len(source[line].words)
    BY <1>1, <2>1, LineNumbers DEF AtEndOfLine, Here
  <2>3. Before(source, line + 1, 1) = Before(source, line, word)
    BY <1>1, <2>2, BeforeNextLine
  <2>4. Within(returned, line + 1, 0) /\ Within(returned, line + 1, 1)
    BY <1>1, <2>2, WithinLater DEF TextSoFar
  <2>5. e \in Lexemes /\ e.at = <<line, word>>
    BY <1>1, LexemeType, MarkType DEF Inv, Lexeme
  <2>6. Precedes(e.at, <<line + 1, 0>>) /\ Precedes(e.at, <<line + 1, 1>>)
    BY <2>2, <2>5 DEF Precedes
  <2> HIDE DEF e
  <2>7. InOrder(returned') /\ Complete(returned', source, line, word)
    BY <1>1, <2>1, <2>5, AppendInOrder, AppendComplete DEF TextSoFar
  <2>8. Within(returned', line + 1, 0) /\ Within(returned', line + 1, 1)
    BY <1>1, <2>1, <2>4, <2>5, <2>6, AppendWithin
  <2> QED
    BY <1>1, <2>1, <2>3, <2>7, <2>8, NothingDue DEF TextSoFar, Complete
<1>7. CASE EmitEofDedents
  <2> DEFINE n == Len(indent_stack) - 1
  <2>1. n \in Nat
    BY <1>1, InvNests, LevelsType
  <2>2. pending' = Dedents(n) /\ ~at_line_start /\ UNCHANGED <<line, word, at_line_start, returned>>
    BY <1>7 DEF EmitEofDedents, Scanning, position
  <2> HIDE DEF n
  <2>3. OnlyDedents(pending') /\ MarkLast(pending', line)
    BY <2>1, <2>2, DedentsOnly
  <2> QED
    BY <1>1, <2>2, <2>3 DEF TextSoFar
<1>8. CASE ReturnNone
  BY <1>1, <1>8 DEF ReturnNone, position, layout, TextSoFar
<1> QED
  BY <1>2, <1>3, <1>4, <1>5, <1>6, <1>7, <1>8 DEF NextToken

LEMMA InitialText ==
  ASSUME LexerInit
  PROVE  TextSoFar
<1>1. /\ source \in Sources /\ line = 1 /\ word = 1 /\ at_line_start /\ pending = <<>> /\ returned = <<>>
  BY DEF LexerInit
<1>2. ASSUME NEW p \in Before(source, 1, 1) PROVE FALSE
  <2>1. p[1] \in 1..1 /\ p[2] \in DOMAIN source[p[1]].words /\ (p[1] < 1 \/ p[2] < 1)
    BY DEF Before
  <2>2. 1 \in 1..Len(source)
    BY <1>1, InitialInv, LineNumbers
  <2>3. DOMAIN source[1].words = 1..Len(source[1].words)
    BY <1>1, <2>2, LineType
  <2> QED
    BY <2>1, <2>3
<1>3. Len(<<>>) = 0 /\ \A i : i \notin 1..0
  OBVIOUS
<1> QED
  BY <1>1, <1>2, <1>3, NothingDue DEF TextSoFar, InOrder, Within, Complete

TextAll == OffsideAll /\ TextSoFar

LEMMA TextInvariant == LexerSpec => []TextAll
<1>1. LexerInit => TextSoFar
  BY InitialText
<1>2. OffsideAll /\ TextSoFar /\ [NextToken]_lexerVars => TextSoFar'
  <2> SUFFICES ASSUME OffsideAll, TextSoFar, [NextToken]_lexerVars PROVE TextSoFar'
    OBVIOUS
  <2>1. CASE UNCHANGED lexerVars
    BY <2>1 DEF lexerVars, layout, position, TextSoFar
  <2>2. CASE NextToken
    BY <2>2, KeptTextSoFar DEF OffsideAll
  <2> QED
    BY <2>1, <2>2
<1> QED
  BY <1>1, <1>2, OffsideInvariant, PTL DEF LexerSpec, TextAll

\* For every text: the lexer returns every word that it passes, no word twice and no
\* word before one that stands before it, with the marks of a line ahead of its words.
THEOREM TextCorrect == LexerSpec => []TextReturned
<1>1. TextAll => TextReturned
  <2> SUFFICES ASSUME TextAll PROVE TextReturned
    OBVIOUS
  <2>1. returned \in Seq(Lexemes)
    BY DEF TextAll, OffsideAll, OffsideInv, Inv, Types
  <2>2. DOMAIN returned = 1..Len(returned)
    <3> HIDE DEF Lexemes
    <3> QED
      BY <2>1, LenProperties
  <2> QED
    BY <2>2 DEF TextAll, TextSoFar, InOrder, Complete, TextReturned
<1> QED
  BY <1>1, TextInvariant, PTL

\* For every text: no step of the lexer leaves it where it was.
THEOREM LexerGoesOn == LexerSpec => LexerAdvances
<1>1. ASSUME TextAll, NextToken
      PROVE  \/ Precedes(position, position')
             \/ UNCHANGED position /\ at_line_start /\ ~at_line_start'
             \/ UNCHANGED <<position, at_line_start>> /\ ~emitted_eof_dedents /\ emitted_eof_dedents'
             \/ UNCHANGED <<position, layout>> /\ Len(pending') < Len(pending)
             \/ UNCHANGED <<position, layout, pending>> /\ ~ended /\ ended'
  <2>1. Inv /\ line \in Nat /\ word \in Nat /\ pending \in Seq(Lexemes)
    BY <1>1, LineNumbers DEF TextAll, OffsideAll, OffsideInv, Inv, Types
  <2>2. CASE ReturnPending
    <3>1. pending # <<>> /\ pending' = Tail(pending) /\ UNCHANGED <<position, layout>>
      BY <2>2 DEF ReturnPending
    <3>2. Len(pending') = Len(pending) - 1 /\ Len(pending) \in Nat
      <4> HIDE DEF Lexemes
      <4> QED
        BY <2>1, <3>1, HeadTailProperties, LenProperties
    <3>3. Len(pending') < Len(pending)
      BY <3>2
    <3> QED
      BY Zenon, <3>1, <3>3
  <2>3. CASE SkipBlankLine \/ EndOfLine
    <3>1. line' = line + 1
      BY <2>3 DEF SkipBlankLine, EndOfLine
    <3> QED
      BY <2>1, <3>1 DEF Precedes, position
  <2>4. CASE LineStart
    BY <2>4 DEF LineStart
  <2>5. CASE NextWord
    <3>1. word' = word + 1 /\ line' = line
      BY <2>5 DEF NextWord
    <3> QED
      BY <2>1, <3>1 DEF Precedes, position
  <2>6. CASE EmitEofDedents
    BY <2>6 DEF EmitEofDedents
  <2>7. CASE ReturnNone
    BY <2>7 DEF ReturnNone, Scanning
  <2> QED
    BY <1>1, <2>2, <2>3, <2>4, <2>5, <2>6, <2>7 DEF NextToken
<1>2. TextAll /\ [NextToken]_lexerVars =>
        [\/ Precedes(position, position')
         \/ UNCHANGED position /\ at_line_start /\ ~at_line_start'
         \/ UNCHANGED <<position, at_line_start>> /\ ~emitted_eof_dedents /\ emitted_eof_dedents'
         \/ UNCHANGED <<position, layout>> /\ Len(pending') < Len(pending)
         \/ UNCHANGED <<position, layout, pending>> /\ ~ended /\ ended']_lexerVars
  BY <1>1
<1> QED
  BY <1>2, TextInvariant, PTL DEF LexerSpec, LexerAdvances
=============================================================================
