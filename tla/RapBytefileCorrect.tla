------------------------- MODULE RapBytefileCorrect -------------------------
(***************************************************************************)
(* What is written as bytes is read again, for all instructions; the       *)
(* offsets that labels are given are those where the code comes to stand,  *)
(* so that a jump finds the instruction behind its label;                  *)
(* and the sections of a file are found where they were put.               *)
(***************************************************************************)
EXTENDS RapBytefile, SequenceTheorems, WellFoundedInduction, TLAPS

Word == Operand(4)
Byte == 0..255

\* The byte k of a number.
ByteOf(v, k) == (v \div Weight[k]) % 256

-----------------------------------------------------------------------------
(* Numbers.                                                                *)

LEMMA WordIs == \A v : v \in Word <=> v \in Int /\ -2147483648 <= v /\ v <= 2147483647
<1>1. \A v : v \in Word <=> v \in Int /\ -MaxI32 - 1 <= v /\ v <= MaxI32
  <2>1. MaxI32 \in Int
    BY SMT DEF MaxI32
  <2> QED
    BY <2>1 DEF Word, Operand
<1>2. \A v \in Int : (-MaxI32 - 1 <= v <=> -2147483648 <= v) /\ (v <= MaxI32 <=> v <= 2147483647)
  BY SMT DEF MaxI32
<1> QED
  BY SMT, <1>1, <1>2

LEMMA OperandInt == \A width : Operand(width) \subseteq Int
<1>1. MaxI32 \in Int
  BY SMT DEF MaxI32
<1> QED
  BY <1>1 DEF Operand

LEMMA LowByte ==
  ASSUME NEW v \in Int
  PROVE  v = 256 * (v \div 256) + (v % 256) /\ v % 256 \in 0..255 /\ v \div 256 \in Int
  BY SMT

LEMMA HigherBytes ==
  ASSUME NEW v \in Int
  PROVE  /\ (v \div 256) \div 256 = v \div 65536
         /\ (v \div 65536) \div 256 = v \div 16777216
         /\ v \div 65536 \in Int /\ v \div 16777216 \in Int
  BY SMT

LEMMA FourBytes ==
  ASSUME NEW v \in Word
  PROVE  LET b1 == v % 256
             b2 == (v \div 256) % 256
             b3 == (v \div 65536) % 256
             b4 == (v \div 16777216) % 256
         IN b1 + 256 * b2 + 65536 * b3 + 16777216 * (IF b4 > 127 THEN b4 - 256 ELSE b4) = v
<1> DEFINE q1 == v \div 256
           q2 == v \div 65536
           q3 == v \div 16777216
<1>1. v \in Int /\ -2147483648 <= v /\ v <= 2147483647
  BY WordIs
<1>2. v = 256 * q1 + (v % 256) /\ v % 256 \in 0..255 /\ q1 \in Int
  BY <1>1, LowByte
<1>3. q1 = 256 * q2 + (q1 % 256) /\ q1 % 256 \in 0..255 /\ q2 \in Int
  BY <1>1, <1>2, LowByte, HigherBytes
<1>4. q2 = 256 * q3 + (q2 % 256) /\ q2 % 256 \in 0..255 /\ q3 \in Int
  BY <1>1, <1>3, LowByte, HigherBytes
<1>5. q3 % 256 = IF q3 < 0 THEN q3 + 256 ELSE q3
  <2> HIDE DEF q1, q2, q3
  <2>1. -128 <= q3 /\ q3 <= 127
    BY <1>1, <1>2, <1>3, <1>4
  <2> QED
    BY <1>4, <2>1
<1>6. q3 >= -128 /\ q3 <= 127
  <2> HIDE DEF q1, q2, q3
  <2> QED
    BY <1>1, <1>2, <1>3, <1>4
<1> DEFINE b1 == v % 256
           b2 == q1 % 256
           b3 == q2 % 256
           b4 == q3 % 256
<1>7. b1 + 256 * b2 + 65536 * b3 + 16777216 * (IF b4 > 127 THEN b4 - 256 ELSE b4) = v
  <2>1. (IF b4 > 127 THEN b4 - 256 ELSE b4) = q3
    <3> HIDE DEF q3
    <3> QED
      BY <1>4, <1>5, <1>6
  <2> HIDE DEF q1, q2, q3, b4
  <2> QED
    BY <1>1, <1>2, <1>3, <1>4, <2>1
<1> QED
  BY <1>7

LEMMA BytesOf ==
  ASSUME NEW v \in Int, NEW width \in {1, 4, 8}
  PROVE  /\ LeBytes(v, width) \in Seq(Byte) /\ Len(LeBytes(v, width)) = width
         /\ \A k \in 1..width : ~(k > 4) => LeBytes(v, width)[k] = ByteOf(v, k)
<1>1. Weight[1] = 1 /\ Weight[2] = 256 /\ Weight[3] = 65536 /\ Weight[4] = 16777216
  BY DEF Weight
<1>2. \A k \in 1..4 : ByteOf(v, k) \in Byte
  <2>1. ASSUME NEW k \in 1..4 PROVE ByteOf(v, k) \in Byte
    <3>1. Weight[k] \in Nat \ {0}
      BY <1>1
    <3>2. v \div Weight[k] \in Int
      BY <3>1
    <3> QED
      BY <3>2 DEF Byte, ByteOf
  <2> QED
    BY <2>1
<1>3. \A k \in 1..width :
        (IF k > 4 THEN (IF v < 0 THEN 255 ELSE 0) ELSE ByteOf(v, k)) \in Byte
  <2>1. 0 \in Byte /\ 255 \in Byte
    BY DEF Byte
  <2>2. \A k \in 1..width : ~(k > 4) => k \in 1..4
    OBVIOUS
  <2> QED
    BY <1>2, <2>1, <2>2
<1>4. LeBytes(v, width) \in [1..width -> Byte] /\ width \in Nat
  BY <1>3 DEF LeBytes, ByteOf
<1>5. LeBytes(v, width) \in Seq(Byte) /\ Len(LeBytes(v, width)) = width
  BY <1>4
<1>6. \A k \in 1..width : ~(k > 4) => LeBytes(v, width)[k] = ByteOf(v, k)
  BY DEF LeBytes, ByteOf
<1> QED
  BY ZenonT(30), <1>5, <1>6

LEMMA BytesAre ==
  \A v \in Int, width \in {1, 4, 8} :
    LeBytes(v, width) \in Seq(Byte) /\ Len(LeBytes(v, width)) = width
  BY ZenonT(30), BytesOf

\* Every operand comes back.
LEMMA OperandBack ==
  ASSUME NEW width \in {1, 4, 8}, NEW v \in Operand(width)
  PROVE  FromLeBytes(LeBytes(v, width)) = v
<1>1. v \in Int
  BY ZenonT(30), OperandInt
<1> DEFINE b == LeBytes(v, width)
<1>4. Len(b) = width /\ \A k \in 1..width : ~(k > 4) => b[k] = ByteOf(v, k)
  BY ZenonT(30), <1>1, BytesOf
<1>5. FromLeBytes(b) =
        IF Len(b) = 1 THEN b[1]
        ELSE b[1] + 256 * b[2] + 65536 * b[3] + 16777216 * (IF b[4] > 127 THEN b[4] - 256 ELSE b[4])
  BY DEF FromLeBytes
<1>2. CASE width = 1
  <2>1. v \div 1 = v /\ v % 256 = v
    BY <1>1, <1>2 DEF Operand
  <2> HIDE DEF b
  <2>2. b[1] = (v \div 1) % 256
    BY <1>2, <1>4 DEF Weight, ByteOf
  <2> QED
    BY <1>2, <1>4, <1>5, <2>1, <2>2 DEF b
<1>3. CASE width # 1
  <2>1. v \in Word
    BY <1>3 DEF Word, Operand
  <2> HIDE DEF Word
  <2>2. width > 1
    BY <1>3
  <2> HIDE DEF b
  <2>3. /\ b[1] = v % 256
        /\ b[2] = (v \div 256) % 256
        /\ b[3] = (v \div 65536) % 256
        /\ b[4] = (v \div 16777216) % 256
    <3>1. /\ b[1] = (v \div Weight[1]) % 256 /\ b[2] = (v \div Weight[2]) % 256
          /\ b[3] = (v \div Weight[3]) % 256 /\ b[4] = (v \div Weight[4]) % 256
      BY <1>3, <1>4 DEF ByteOf
    <3>2. Weight[1] = 1 /\ Weight[2] = 256 /\ Weight[3] = 65536 /\ Weight[4] = 16777216
      BY SMT DEF Weight
    <3>3. v \div 1 = v
      BY <1>1
    <3> QED
      BY SMT, <3>1, <3>2, <3>3
  <2>4. FromLeBytes(b) =
          b[1] + 256 * b[2] + 65536 * b[3] + 16777216 * (IF b[4] > 127 THEN b[4] - 256 ELSE b[4])
    BY <1>3, <1>4, <1>5
  <2>5. FromLeBytes(b) = v
    BY SMT, <2>1, <2>3, <2>4, FourBytes
  <2> QED
    BY <2>5 DEF b
<1> QED
  BY <1>2, <1>3

-----------------------------------------------------------------------------
(* Operands.                                                               *)

\* The bytes stand in the code behind the first `at' bytes.
Holds(code, at, bytes) ==
  at + Len(bytes) <= Len(code) /\ \A k \in 1..Len(bytes) : code[at + k] = bytes[k]

LEMMA HoldsParts ==
  ASSUME NEW B, NEW code \in Seq(B), NEW at \in Nat, NEW l \in Seq(B), NEW r \in Seq(B),
         Holds(code, at, l \o r)
  PROVE  Holds(code, at, l) /\ Holds(code, at + Len(l), r)
<1>1. Len(l) \in Nat /\ Len(r) \in Nat /\ Len(code) \in Nat
  BY LenProperties
<1>2. /\ Len(l \o r) = Len(l) + Len(r)
      /\ \A k \in 1..(Len(l) + Len(r)) : (l \o r)[k] = IF k <= Len(l) THEN l[k] ELSE r[k - Len(l)]
  BY ConcatProperties
<1>3. Holds(code, at, l)
  BY <1>1, <1>2 DEF Holds
<1>4. ASSUME NEW k \in 1..Len(r) PROVE code[at + Len(l) + k] = r[k]
  <2>1. Len(l) + k \in 1..(Len(l) + Len(r)) /\ ~(Len(l) + k <= Len(l)) /\ (Len(l) + k) - Len(l) = k
    BY <1>1
  <2>2. code[at + (Len(l) + k)] = (l \o r)[Len(l) + k]
    BY <1>2, <2>1 DEF Holds
  <2>3. at + (Len(l) + k) = at + Len(l) + k
    BY <1>1
  <2> QED
    BY <1>2, <2>1, <2>2, <2>3
<1>5. at + Len(l) + Len(r) <= Len(code)
  BY <1>1, <1>2 DEF Holds
<1> QED
  BY <1>3, <1>4, <1>5 DEF Holds

LEMMA HeldBytes ==
  ASSUME NEW B, NEW code \in Seq(B), NEW at \in Nat, NEW bytes \in Seq(B), Holds(code, at, bytes)
  PROVE  SubSeq(code, at + 1, at + Len(bytes)) = bytes
<1> DEFINE n == Len(bytes)
           s == SubSeq(code, at + 1, at + n)
<1>1. n \in Nat /\ Len(code) \in Nat
  BY LenProperties
<1>2. at + 1 \in 1..(Len(code) + 1) /\ at + n \in at..Len(code)
  BY <1>1 DEF Holds
<1>3. s \in Seq(B) /\ Len(s) = n /\ \A k \in 1..n : s[k] = code[at + k]
  <2>1. s = [k \in 1..n |-> code[at + k]]
    <3>1. (at + n) - (at + 1) + 1 = n /\ \A k \in 1..n : at + 1 + k - 1 = at + k
      BY <1>1
    <3> HIDE DEF n
    <3> QED
      BY <1>1, <3>1
  <2>2. \A k \in 1..n : code[at + k] \in B
    <3>1. \A k \in 1..n : at + k \in 1..Len(code)
      <4> HIDE DEF n
      <4> QED
        BY <1>1, <1>2
    <3> QED
      BY <3>1, ElementOfSeq
  <2>3. s \in [1..n -> B]
    <3> HIDE DEF n, s
    <3> QED
      BY <2>1, <2>2
  <2> HIDE DEF n, s
  <2>4. s \in Seq(B) /\ Len(s) = n
    BY <1>1, <2>3
  <2>5. \A k \in 1..n : s[k] = code[at + k]
    BY <2>1
  <2> QED
    BY <2>4, <2>5
<1>4. \A k \in 1..n : s[k] = bytes[k]
  BY <1>3 DEF Holds
<1> HIDE DEF s
<1>5. s = bytes
  BY <1>3, <1>4, SeqEqual
<1> QED
  BY <1>5 DEF s

\* What the operands `args' are written as, and read from.
Written(args, widths) ==
  CASE Len(widths) = 0 -> <<>>
    [] Len(widths) = 1 -> LeBytes(args[1], widths[1])
    [] OTHER -> LeBytes(args[1], widths[1]) \o LeBytes(args[2], widths[2])

LEMMA ReadsWritten ==
  ASSUME NEW code \in Seq(Byte), NEW at \in Nat, NEW head,
         NEW widths \in Seq({1, 4, 8}), Len(widths) <= 2,
         NEW args \in Seq(Int), Len(args) = Len(widths),
         \A k \in 1..Len(widths) : args[k] \in Operand(widths[k]),
         Holds(code, at, Written(args, widths))
  PROVE  Read(code, at, head, widths) =
           [instr |-> head \o args, next |-> at + Len(Written(args, widths))]
<1> DEFINE n == Len(widths)
           Start(k) == at + (IF k > 1 THEN widths[1] ELSE 0) + (IF k > 2 THEN widths[2] ELSE 0)
           back == [k \in DOMAIN widths |->
                      FromLeBytes(SubSeq(code, Start(k) + 1, Start(k) + widths[k]))]
<1>1. n \in {0, 1, 2} /\ DOMAIN widths = 1..n /\ \A k \in 1..n : widths[k] \in {1, 4, 8}
  <2>1. n \in Nat /\ DOMAIN widths = 1..n
    BY LenProperties
  <2> QED
    BY <2>1, ElementOfSeq
<1>2. \A k \in 1..n : args[k] \in Int
  <2> HIDE DEF n
  <2>1. \A k \in 1..Len(args) : args[k] \in Int
    BY ElementOfSeq
  <2>2. n = Len(args)
    BY DEF n
  <2> QED
    BY <2>1, <2>2
<1>3. ASSUME NEW k \in 1..n
      PROVE  /\ LeBytes(args[k], widths[k]) \in Seq(Byte)
             /\ Len(LeBytes(args[k], widths[k])) = widths[k]
             /\ FromLeBytes(LeBytes(args[k], widths[k])) = args[k]
  <2>1. args[k] \in Int /\ widths[k] \in {1, 4, 8} /\ args[k] \in Operand(widths[k])
    BY <1>1, <1>2
  <2>2. /\ LeBytes(args[k], widths[k]) \in Seq(Byte)
        /\ Len(LeBytes(args[k], widths[k])) = widths[k]
    BY ZenonT(30), <2>1, BytesAre
  <2>3. FromLeBytes(LeBytes(args[k], widths[k])) = args[k]
    BY ZenonT(30), <2>1, OperandBack
  <2> QED
    BY <2>2, <2>3
<1>4. /\ Start(n + 1) = at + Len(Written(args, widths)) /\ Start(n + 1) <= Len(code)
      /\ \A k \in 1..n : Holds(code, Start(k), LeBytes(args[k], widths[k])) /\ Start(k) \in Nat
  <2>1. CASE n = 0
    <3>1. Written(args, widths) = <<>> /\ Len(<<>>) = 0
      BY <2>1 DEF Written
    <3> QED
      BY <1>1, <2>1, <3>1 DEF Holds
  <2>2. CASE n = 1
    <3>1. Written(args, widths) = LeBytes(args[1], widths[1])
      BY <2>2 DEF Written
    <3>2. Len(LeBytes(args[1], widths[1])) = widths[1] /\ widths[1] \in {1, 4, 8}
      BY <1>1, <1>3, <2>2
    <3>3. Start(n + 1) = at + widths[1] /\ Start(1) = at
      BY <1>1, <2>2
    <3> QED
      BY <2>2, <3>1, <3>2, <3>3 DEF Holds
  <2>3. CASE n = 2
    <3> DEFINE l == LeBytes(args[1], widths[1])
               r == LeBytes(args[2], widths[2])
    <3>1. Written(args, widths) = l \o r
      BY <2>3 DEF Written
    <3>2. /\ l \in Seq(Byte) /\ r \in Seq(Byte) /\ Len(l) = widths[1] /\ Len(r) = widths[2]
          /\ widths[1] \in Nat /\ widths[2] \in Nat
      BY <1>1, <1>3, <2>3
    <3>3. Start(1) = at /\ Start(2) = at + widths[1] /\ Start(n + 1) = at + widths[1] + widths[2]
      BY <2>3, <3>2
    <3> HIDE DEF l, r, Start
    <3>4. Holds(code, at, l) /\ Holds(code, at + widths[1], r)
      <4>1. Holds(code, at, l \o r)
        BY <3>1
      <4>2. Holds(code, at, l) /\ Holds(code, at + Len(l), r)
        BY ZenonT(30), <4>1, <3>2, HoldsParts
      <4> QED
        BY <3>2, <4>2
    <3>5. Len(l \o r) = widths[1] + widths[2]
      <4>1. Len(l \o r) = Len(l) + Len(r)
        BY ZenonT(30), <3>2, ConcatProperties
      <4> QED
        BY <3>2, <4>1
    <3>6. at + Len(l \o r) <= Len(code)
      BY <3>1 DEF Holds
    <3>7. Start(n + 1) = at + Len(Written(args, widths)) /\ Start(n + 1) <= Len(code)
      <4>1. Len(Written(args, widths)) = widths[1] + widths[2]
        BY <3>1, <3>5
      <4>2. at + (widths[1] + widths[2]) = at + widths[1] + widths[2]
        BY <3>2
      <4>3. at + (widths[1] + widths[2]) <= Len(code)
        BY <3>5, <3>6
      <4> QED
        BY ZenonT(30), <3>3, <4>1, <4>2, <4>3
    <3>8. ASSUME NEW k \in 1..n
          PROVE  Holds(code, Start(k), LeBytes(args[k], widths[k])) /\ Start(k) \in Nat
      <4>1. k = 1 \/ k = 2
        BY <2>3
      <4>2. Start(1) \in Nat /\ Start(2) \in Nat
        BY <3>2, <3>3
      <4>3. Holds(code, Start(1), l) /\ Holds(code, Start(2), r)
        BY ZenonT(30), <3>3, <3>4
      <4> QED
        BY ZenonT(30), <4>1, <4>2, <4>3 DEF l, r
    <3> QED
      BY <3>7, <3>8
  <2> QED
    BY <1>1, <2>1, <2>2, <2>3
<1>5. ASSUME NEW k \in 1..n
      PROVE  FromLeBytes(SubSeq(code, Start(k) + 1, Start(k) + widths[k])) = args[k]
  <2> DEFINE start == Start(k)
             bytes == LeBytes(args[k], widths[k])
  <2>1. Holds(code, start, bytes) /\ start \in Nat /\ bytes \in Seq(Byte) /\ Len(bytes) = widths[k]
        /\ FromLeBytes(bytes) = args[k]
    BY <1>3, <1>4
  <2> HIDE DEF start, bytes
  <2>2. SubSeq(code, start + 1, start + widths[k]) = bytes
    BY <2>1, HeldBytes
  <2>3. FromLeBytes(SubSeq(code, start + 1, start + widths[k])) = args[k]
    BY <2>1, <2>2
  <2> QED
    BY <2>3 DEF start
<1>6. back = args
  <2>1. back = [k \in 1..n |-> args[k]]
    <3> HIDE DEF Start
    <3> QED
      BY <1>1, <1>5
  <2>2. args = [k \in 1..n |-> args[k]]
    BY <1>1
  <2> QED
    BY <2>1, <2>2
<1>7. Len(code) \in Nat /\ Start(n + 1) \in Int
  <2>1. CASE n = 0
    BY <2>1, LenProperties
  <2>2. CASE n = 1
    BY <1>1, <2>2, LenProperties
  <2>3. CASE n = 2
    BY <1>1, <2>3, LenProperties
  <2> QED
    BY <1>1, <2>1, <2>2, <2>3
<1>8. ~(Start(n + 1) > Len(code))
  BY <1>4, <1>7
<1>9. Read(code, at, head, widths) =
        IF Start(n + 1) > Len(code) THEN [instr |-> <<"EOF">>, next |-> at]
        ELSE [instr |-> head \o back, next |-> Start(n + 1)]
  BY DEF Read
<1> HIDE DEF back, Start
<1> QED
  BY <1>4, <1>6, <1>8, <1>9

-----------------------------------------------------------------------------
(* Opcodes.                                                                *)

PlainNames == DOMAIN PlainCode

LEMMA PlainBytes ==
  \A name \in PlainNames : /\ PlainCode[name] \in {0} \cup 16..28 \cup 82..86 \cup 88..94 \cup {117, 118}
                           /\ name \notin {"BINOP", "UNARY", "LOAD", "STORE", "CJMP", "CALLBUILTIN"}
  BY SMTT(30) DEF PlainNames, PlainCode

LEMMA PlainDistinct ==
  \A m, n \in PlainNames : PlainCode[m] = PlainCode[n] => m = n
  BY SMTT(60) DEF PlainNames, PlainCode

LEMMA BuiltinBytes ==
  \A name \in DOMAIN BuiltinCode :
    /\ BuiltinCode[name] \in 0..4 \cup 7..15
    /\ BuiltinCode[name] \in {0, 1} <=> name \in Counting
  BY SMTT(30) DEF BuiltinCode, Counting

LEMMA BuiltinDistinct ==
  \A m, n \in DOMAIN BuiltinCode : BuiltinCode[m] = BuiltinCode[n] => m = n
  BY SMTT(60) DEF BuiltinCode

LEMMA PlaceOf ==
  ASSUME NEW s, NEW x, \E k \in DOMAIN s : x = s[k]
  PROVE  Place(s, x) \in DOMAIN s /\ s[Place(s, x)] = x
  BY ZenonT(30) DEF Place

LEMMA Packed ==
  /\ DOMAIN Ops = 1..15 /\ DOMAIN Rels = 1..4 /\ DOMAIN UnaryOps = 1..2 /\ DOMAIN Kinds = 1..2
  BY DEF Ops, Rels, UnaryOps, Kinds

LEMMA Halves ==
  ASSUME NEW b \in Byte
  PROVE  /\ b \div 16 \in 0..15 /\ b % 16 \in 0..15 /\ b = (16 * (b \div 16)) + (b % 16)
  BY SMT DEF Byte

\* What comes before the operands, and how they are written.
HeadOf(i) ==
  CASE i[1] \in {"BINOP", "UNARY", "LOAD", "STORE", "CJMP"} -> <<i[1], i[2]>>
    [] i[1] = "CALLBUILTIN" /\ i[2] \in Counting -> <<i[1], i[2]>>
    [] i[1] = "CALLBUILTIN" /\ i[2] \notin Counting -> <<i[1], i[2], 0>>
    [] OTHER -> <<i[1]>>
WidthsOf(i) ==
  CASE i[1] \in {"BINOP", "UNARY"} -> <<>>
    [] i[1] \in {"LOAD", "STORE", "CJMP"} -> <<4>>
    [] i[1] = "CALLBUILTIN" /\ i[2] \in Counting -> <<4>>
    [] i[1] = "CALLBUILTIN" /\ i[2] \notin Counting -> <<>>
    [] OTHER -> Widths(i[1])

Packing == {"BINOP", "UNARY", "LOAD", "STORE", "CJMP"}

\* The two halves of the opcode, and the names it is the plain opcode of.
PlainOf(b) == {name \in DOMAIN PlainCode : PlainCode[name] = b}

LEMMA NotPlain ==
  ASSUME NEW b \in Byte,
         b \in 1..15 \cup 32..81 \cup 112..116 \cup 119..127
  PROVE  PlainOf(b) = {}
<1>1. \A name \in DOMAIN PlainCode : PlainCode[name] # b
  BY PlainBytes DEF PlainNames
<1> QED
  BY <1>1 DEF PlainOf

LEMMA PlainIs ==
  ASSUME NEW name \in DOMAIN PlainCode
  PROVE  PlainOf(PlainCode[name]) = {name}
  BY ZenonT(30), PlainDistinct DEF PlainOf, PlainNames

\* The cases of Fetch, with the parts it names.
IsBinop(high, low) == high = 0 /\ low # 0
IsLoad(high, low) == high = 2 /\ low \in DOMAIN Rels
IsUnary(high, low) == high = 3 /\ low + 1 \in DOMAIN UnaryOps
IsStore(high, low) == high = 4 /\ low \in DOMAIN Rels
IsCjmp(high, low) == high = 5 /\ low + 1 \in DOMAIN Kinds
IsBuiltin(high, plain) == high = 7 /\ plain = {}
ReadBuiltin(code, at, low) ==
  LET builtin == CHOOSE name \in DOMAIN BuiltinCode : BuiltinCode[name] = low
  IN IF low \in {0, 1} THEN Read(code, at + 1, <<"CALLBUILTIN", builtin>>, <<4>>)
     ELSE Read(code, at + 1, <<"CALLBUILTIN", builtin, 0>>, <<>>)
ReadPlain(code, at, plain) ==
  LET name == CHOOSE n \in plain : TRUE IN Read(code, at + 1, <<name>>, Widths(name))
FetchBy(code, at, byte, high, low, plain) ==
  CASE IsBinop(high, low) -> Read(code, at + 1, <<"BINOP", Ops[low]>>, <<>>)
    [] IsLoad(high, low) -> Read(code, at + 1, <<"LOAD", Rels[low]>>, <<4>>)
    [] IsUnary(high, low) -> Read(code, at + 1, <<"UNARY", UnaryOps[low + 1]>>, <<>>)
    [] IsStore(high, low) -> Read(code, at + 1, <<"STORE", Rels[low]>>, <<4>>)
    [] IsCjmp(high, low) -> Read(code, at + 1, <<"CJMP", Kinds[low + 1]>>, <<4>>)
    [] plain # {} -> ReadPlain(code, at, plain)
    [] IsBuiltin(high, plain) -> ReadBuiltin(code, at, low)
    [] OTHER -> [instr |-> <<"INVALID", byte>>, next |-> at]

LEMMA FetchCases ==
  ASSUME NEW code \in Seq(Byte), NEW at \in Nat, at < Len(code)
  PROVE  LET byte == code[at + 1]
         IN Fetch(code, at) = FetchBy(code, at, byte, byte \div 16, byte % 16, PlainOf(byte))
<1>1. ~(at >= Len(code))
  BY LenProperties
<1> QED
  BY ZenonT(60), <1>1 DEF Fetch, FetchBy, PlainOf, IsBinop, IsLoad, IsUnary, IsStore, IsCjmp, IsBuiltin,
                          ReadBuiltin, ReadPlain

\* No two of the cases hold.
LEMMA OneCase ==
  ASSUME NEW high \in 0..15, NEW low \in 0..15, NEW plain
  PROVE  /\ IsBinop(high, low) => /\ ~IsLoad(high, low) /\ ~IsUnary(high, low) /\ ~IsStore(high, low)
                                  /\ ~IsCjmp(high, low) /\ ~IsBuiltin(high, plain)
         /\ IsLoad(high, low) => /\ ~IsUnary(high, low) /\ ~IsStore(high, low)
                                 /\ ~IsCjmp(high, low) /\ ~IsBuiltin(high, plain)
         /\ IsUnary(high, low) => ~IsStore(high, low) /\ ~IsCjmp(high, low) /\ ~IsBuiltin(high, plain)
         /\ IsStore(high, low) => ~IsCjmp(high, low) /\ ~IsBuiltin(high, plain)
         /\ IsCjmp(high, low) => ~IsBuiltin(high, plain)
         /\ IsBuiltin(high, plain) => plain = {}
<1>1. /\ IsBinop(high, low) => high = 0
      /\ IsLoad(high, low) => high = 2
      /\ IsUnary(high, low) => high = 3
      /\ IsStore(high, low) => high = 4
      /\ IsCjmp(high, low) => high = 5
      /\ IsBuiltin(high, plain) => high = 7 /\ plain = {}
  BY DEF IsBinop, IsLoad, IsUnary, IsStore, IsCjmp, IsBuiltin
<1> QED
  BY <1>1

LEMMA Decoded ==
  ASSUME NEW code \in Seq(Byte), NEW at \in Nat, at < Len(code),
         NEW i, IsInstruction(i), code[at + 1] = Opcode(i)
  PROVE  Fetch(code, at) = Read(code, at + 1, HeadOf(i), WidthsOf(i))
<1> DEFINE byte == code[at + 1]
           high == byte \div 16
           low == byte % 16
           plain == PlainOf(byte)
<1>1. byte \in Byte
  <2>1. at + 1 \in 1..Len(code)
    BY LenProperties
  <2> QED
    BY <2>1, ElementOfSeq
<1>2. /\ high \in 0..15 /\ low \in 0..15 /\ byte = (16 * high) + low
  BY <1>1, Halves
<1>3. Fetch(code, at) = FetchBy(code, at, byte, high, low, plain)
  BY FetchCases
<1>4. byte = Opcode(i)
  OBVIOUS
<1> HIDE DEF byte, high, low, plain
<1>12. /\ IsBinop(high, low) => /\ ~IsLoad(high, low) /\ ~IsUnary(high, low) /\ ~IsStore(high, low)
                                /\ ~IsCjmp(high, low) /\ ~IsBuiltin(high, plain)
       /\ IsLoad(high, low) => /\ ~IsUnary(high, low) /\ ~IsStore(high, low)
                               /\ ~IsCjmp(high, low) /\ ~IsBuiltin(high, plain)
       /\ IsUnary(high, low) => ~IsStore(high, low) /\ ~IsCjmp(high, low) /\ ~IsBuiltin(high, plain)
       /\ IsStore(high, low) => ~IsCjmp(high, low) /\ ~IsBuiltin(high, plain)
       /\ IsCjmp(high, low) => ~IsBuiltin(high, plain)
       /\ IsBuiltin(high, plain) => plain = {}
  BY <1>2, OneCase
<1>5. CASE i[1] = "BINOP"
  <2> DEFINE p == Place(Ops, i[2])
  <2>1. \E k \in DOMAIN Ops : i[2] = Ops[k]
    BY <1>5 DEF IsInstruction
  <2>2. p \in 1..15 /\ Ops[p] = i[2]
    BY ZenonT(30), <2>1, PlaceOf, Packed
  <2>3. byte = p
    BY <1>4, <1>5 DEF Opcode
  <2> HIDE DEF p
  <2>8. p \in Int /\ 1 <= p /\ p <= 15
    BY <2>2
  <2>4. plain = {}
    <3>1. byte \in 1..15 \cup 32..81
      BY <2>8, <2>3
    <3> QED
      BY <1>1, <3>1, NotPlain DEF plain
  <2>5. IsBinop(high, low) /\ low = p
    BY <1>2, <2>8, <2>3, Packed DEF IsBinop
  <2>6. Fetch(code, at) = Read(code, at + 1, <<"BINOP", Ops[low]>>, <<>>)
    BY ZenonT(30), <1>3, <1>12, <2>4, <2>5 DEF FetchBy
  <2>7. HeadOf(i) = <<"BINOP", i[2]>> /\ WidthsOf(i) = <<>>
    BY <1>5 DEF HeadOf, WidthsOf
  <2> QED
    BY <2>2, <2>5, <2>6, <2>7
<1>6. CASE i[1] = "LOAD"
  <2> DEFINE p == Place(Rels, i[2])
  <2>1. \E k \in DOMAIN Rels : i[2] = Rels[k]
    BY <1>6 DEF IsInstruction
  <2>2. p \in 1..4 /\ Rels[p] = i[2]
    BY ZenonT(30), <2>1, PlaceOf, Packed
  <2>3. byte = 32 + p
    BY <1>4, <1>6 DEF Opcode
  <2> HIDE DEF p
  <2>8. p \in Int /\ 1 <= p /\ p <= 4
    BY <2>2
  <2>4. plain = {}
    <3>1. byte \in 1..15 \cup 32..81
      BY <2>8, <2>3
    <3> QED
      BY <1>1, <3>1, NotPlain DEF plain
  <2>5. IsLoad(high, low) /\ low = p
    BY <1>2, <2>8, <2>3, Packed DEF IsLoad
  <2>6. Fetch(code, at) = Read(code, at + 1, <<"LOAD", Rels[low]>>, <<4>>)
    BY ZenonT(30), <1>3, <1>12, <2>4, <2>5 DEF FetchBy
  <2>7. HeadOf(i) = <<"LOAD", i[2]>> /\ WidthsOf(i) = <<4>>
    BY <1>6 DEF HeadOf, WidthsOf
  <2> QED
    BY <2>2, <2>5, <2>6, <2>7
<1>7. CASE i[1] = "UNARY"
  <2> DEFINE p == Place(UnaryOps, i[2])
  <2>1. \E k \in DOMAIN UnaryOps : i[2] = UnaryOps[k]
    BY <1>7 DEF IsInstruction
  <2>2. p \in 1..2 /\ UnaryOps[p] = i[2]
    BY ZenonT(30), <2>1, PlaceOf, Packed
  <2>3. byte = 47 + p
    BY <1>4, <1>7 DEF Opcode
  <2> HIDE DEF p
  <2>8. p \in Int /\ 1 <= p /\ p <= 2
    BY <2>2
  <2>4. plain = {}
    <3>1. byte \in 1..15 \cup 32..81
      BY <2>8, <2>3
    <3> QED
      BY <1>1, <3>1, NotPlain DEF plain
  <2>5. IsUnary(high, low) /\ low + 1 = p
    BY <1>2, <2>8, <2>3, Packed DEF IsUnary
  <2>6. Fetch(code, at) = Read(code, at + 1, <<"UNARY", UnaryOps[low + 1]>>, <<>>)
    BY ZenonT(30), <1>3, <1>12, <2>4, <2>5 DEF FetchBy
  <2>7. HeadOf(i) = <<"UNARY", i[2]>> /\ WidthsOf(i) = <<>>
    BY <1>7 DEF HeadOf, WidthsOf
  <2> QED
    BY <2>2, <2>5, <2>6, <2>7
<1>8. CASE i[1] = "STORE"
  <2> DEFINE p == Place(Rels, i[2])
  <2>1. \E k \in DOMAIN Rels : i[2] = Rels[k]
    BY <1>8 DEF IsInstruction
  <2>2. p \in 1..4 /\ Rels[p] = i[2]
    BY ZenonT(30), <2>1, PlaceOf, Packed
  <2>3. byte = 64 + p
    BY <1>4, <1>8 DEF Opcode
  <2> HIDE DEF p
  <2>8. p \in Int /\ 1 <= p /\ p <= 4
    BY <2>2
  <2>4. plain = {}
    <3>1. byte \in 1..15 \cup 32..81
      BY <2>8, <2>3
    <3> QED
      BY <1>1, <3>1, NotPlain DEF plain
  <2>5. IsStore(high, low) /\ low = p
    BY <1>2, <2>8, <2>3, Packed DEF IsStore
  <2>6. Fetch(code, at) = Read(code, at + 1, <<"STORE", Rels[low]>>, <<4>>)
    BY ZenonT(30), <1>3, <1>12, <2>4, <2>5 DEF FetchBy
  <2>7. HeadOf(i) = <<"STORE", i[2]>> /\ WidthsOf(i) = <<4>>
    BY <1>8 DEF HeadOf, WidthsOf
  <2> QED
    BY <2>2, <2>5, <2>6, <2>7
<1>9. CASE i[1] = "CJMP"
  <2> DEFINE p == Place(Kinds, i[2])
  <2>1. \E k \in DOMAIN Kinds : i[2] = Kinds[k]
    BY <1>9 DEF IsInstruction
  <2>2. p \in 1..2 /\ Kinds[p] = i[2]
    BY ZenonT(30), <2>1, PlaceOf, Packed
  <2>3. byte = 79 + p
    BY <1>4, <1>9 DEF Opcode
  <2> HIDE DEF p
  <2>8. p \in Int /\ 1 <= p /\ p <= 2
    BY <2>2
  <2>4. plain = {}
    <3>1. byte \in 1..15 \cup 32..81
      BY <2>8, <2>3
    <3> QED
      BY <1>1, <3>1, NotPlain DEF plain
  <2>5. IsCjmp(high, low) /\ low + 1 = p
    BY <1>2, <2>8, <2>3, Packed DEF IsCjmp
  <2>6. Fetch(code, at) = Read(code, at + 1, <<"CJMP", Kinds[low + 1]>>, <<4>>)
    BY ZenonT(30), <1>3, <1>12, <2>4, <2>5 DEF FetchBy
  <2>7. HeadOf(i) = <<"CJMP", i[2]>> /\ WidthsOf(i) = <<4>>
    BY <1>9 DEF HeadOf, WidthsOf
  <2> QED
    BY <2>2, <2>5, <2>6, <2>7
<1>10. CASE i[1] = "CALLBUILTIN"
  <2> DEFINE builtin == CHOOSE name \in DOMAIN BuiltinCode : BuiltinCode[name] = low
  <2>1. i[2] \in DOMAIN BuiltinCode /\ byte = 112 + BuiltinCode[i[2]]
    BY <1>4, <1>10 DEF IsInstruction, Opcode
  <2>2. BuiltinCode[i[2]] \in 0..4 \cup 7..15 /\ (BuiltinCode[i[2]] \in {0, 1} <=> i[2] \in Counting)
    BY <2>1, BuiltinBytes
  <2> DEFINE c == BuiltinCode[i[2]]
  <2> HIDE DEF c
  <2>9. byte = 112 + c /\ c \in 0..4 \cup 7..15
    BY <2>1, <2>2 DEF c
  <2>3. plain = {}
    <3>1. byte \in 112..116 \cup 119..127
      BY <2>9
    <3> QED
      BY <1>1, <3>1, NotPlain DEF plain
  <2>4. high = 7 /\ low = BuiltinCode[i[2]]
    <3>1. high = 7 /\ low = c
      BY <1>2, <2>9
    <3> QED
      BY <3>1 DEF c
  <2>5. IsBuiltin(high, plain)
    BY <2>3, <2>4 DEF IsBuiltin
  <2>6. Fetch(code, at) = ReadBuiltin(code, at, low)
    BY ZenonT(30), <1>3, <1>12, <2>3, <2>5 DEF FetchBy
  <2>7. builtin = i[2]
    BY ZenonT(30), <2>1, <2>4, BuiltinDistinct
  <2>8. ReadBuiltin(code, at, low) =
          IF low \in {0, 1} THEN Read(code, at + 1, <<"CALLBUILTIN", builtin>>, <<4>>)
          ELSE Read(code, at + 1, <<"CALLBUILTIN", builtin, 0>>, <<>>)
    BY ZenonT(30) DEF ReadBuiltin
  <2> HIDE DEF builtin
  <2> QED
    BY <1>10, <2>2, <2>4, <2>6, <2>7, <2>8 DEF HeadOf, WidthsOf
<1>11. CASE i[1] \notin Packing \cup {"CALLBUILTIN"}
  <2>1. i[1] \in DOMAIN PlainCode /\ byte = PlainCode[i[1]]
    BY <1>4, <1>11 DEF IsInstruction, Opcode, Packing
  <2>2. byte \in {0} \cup 16..28 \cup 82..86 \cup 88..94 \cup {117, 118}
    BY <2>1, PlainBytes DEF PlainNames
  <2>3. plain = {i[1]}
    BY <2>1, PlainIs DEF plain
  <2>4. /\ ~IsBinop(high, low) /\ ~IsLoad(high, low) /\ ~IsUnary(high, low)
        /\ ~IsStore(high, low) /\ ~IsCjmp(high, low)
    BY <1>2, <2>2, Packed DEF IsBinop, IsLoad, IsUnary, IsStore, IsCjmp
  <2>5. plain # {}
    BY <2>3
  <2>6. Fetch(code, at) = ReadPlain(code, at, plain)
    BY ZenonT(30), <1>3, <1>12, <2>4, <2>5 DEF FetchBy
  <2>7. ReadPlain(code, at, plain) = Read(code, at + 1, <<i[1]>>, Widths(i[1]))
    BY ZenonT(30), <2>3 DEF ReadPlain
  <2>8. HeadOf(i) = <<i[1]>> /\ WidthsOf(i) = Widths(i[1])
    BY <1>11 DEF HeadOf, WidthsOf, Packing
  <2> QED
    BY <2>6, <2>7, <2>8
<1> QED
  BY <1>5, <1>6, <1>7, <1>8, <1>9, <1>10, <1>11 DEF Packing

-----------------------------------------------------------------------------
(* Instructions.                                                           *)

ArgsOf(i) == [k \in 1..Len(WidthsOf(i)) |-> i[Len(HeadOf(i)) + k]]

LEMMA WidthsShape ==
  \A name : Widths(name) \in {<<>>, <<1>>, <<4>>, <<8>>, <<4, 4>>}
  BY ZenonT(30) DEF Widths

LEMMA WidthsType ==
  ASSUME NEW widths \in {<<>>, << 1 >>, << 4 >>, << 8 >>, << 4, 4 >>}
  PROVE  widths \in Seq({1, 4, 8}) /\ Len(widths) \in 0..2 /\ DOMAIN widths = 1..Len(widths)
<1>1. CASE widths = <<>>
  BY <1>1
<1>2. CASE widths = <<1>>
  BY <1>2
<1>3. CASE widths = <<4>>
  BY <1>3
<1>4. CASE widths = <<8>>
  BY <1>4
<1>5. CASE widths = <<4, 4>>
  BY <1>5
<1> QED
  BY ZenonT(30), <1>1, <1>2, <1>3, <1>4, <1>5

\* The three kinds of head.
Packs(i) == i[1] \in Packing \/ (i[1] = "CALLBUILTIN" /\ i[2] \in Counting)
Full(i) == i[1] = "CALLBUILTIN" /\ i[2] \notin Counting
Plain(i) == i[1] \notin Packing \cup {"CALLBUILTIN"}

LEMMA Kind ==
  ASSUME NEW i
  PROVE  /\ Packs(i) \/ Full(i) \/ Plain(i)
         /\ Packs(i) => HeadOf(i) = <<i[1], i[2]>>
         /\ Full(i) => HeadOf(i) = <<i[1], i[2], 0>>
         /\ Plain(i) => HeadOf(i) = <<i[1]>>
<1>1. Packs(i) \/ Full(i) \/ Plain(i)
  BY DEF Packs, Full, Plain, Packing
<1>2. CASE Packs(i)
  BY <1>2 DEF Packs, Full, Plain, Packing, HeadOf
<1>3. CASE Full(i)
  BY <1>3 DEF Packs, Full, Plain, Packing, HeadOf
<1>4. CASE Plain(i)
  BY <1>4 DEF Packs, Full, Plain, Packing, HeadOf
<1> QED
  BY <1>1, <1>2, <1>3, <1>4

LEMMA Lengths ==
  ASSUME NEW i, IsInstruction(i)
  PROVE  /\ WidthsOf(i) \in {<<>>, <<1>>, <<4>>, <<8>>, <<4, 4>>}
         /\ Packs(i) => Len(i) = 2 + Len(WidthsOf(i))
         /\ Full(i) => WidthsOf(i) = <<>> /\ Len(i) = 3 /\ i[3] = 0
         /\ Plain(i) => Len(i) = 1 + Len(WidthsOf(i)) /\ WidthsOf(i) = Widths(i[1])
<1>1. CASE i[1] \in {"BINOP", "UNARY"}
  <2>1. WidthsOf(i) = <<>>
    BY <1>1 DEF WidthsOf
  <2>2. Packs(i) /\ ~Full(i) /\ ~Plain(i)
    BY <1>1 DEF Packs, Full, Plain, Packing
  <2>3. Len(i) = 2 + Len(<<>>)
    BY <1>1 DEF IsInstruction
  <2> QED
    BY <2>1, <2>2, <2>3
<1>2. CASE i[1] \in {"LOAD", "STORE", "CJMP"}
  <2>1. WidthsOf(i) = <<4>>
    BY <1>2 DEF WidthsOf
  <2>2. Packs(i) /\ ~Full(i) /\ ~Plain(i)
    BY <1>2 DEF Packs, Full, Plain, Packing
  <2>3. Len(i) = 2 + Len(<<4>>)
    BY <1>2 DEF IsInstruction
  <2> QED
    BY <2>1, <2>2, <2>3
<1>3. CASE i[1] = "CALLBUILTIN"
  <2>1. Len(i) = 2 + Len(<<4>>) /\ (i[3] # 0 <=> i[2] \in Counting)
    BY <1>3 DEF IsInstruction
  <2>2. Len(<<4>>) = 1
    OBVIOUS
  <2>3. i[2] \in Counting => WidthsOf(i) = <<4>>
    BY <1>3 DEF WidthsOf
  <2>4. i[2] \notin Counting => WidthsOf(i) = <<>>
    BY <1>3 DEF WidthsOf
  <2>5. (Packs(i) <=> i[2] \in Counting) /\ (Full(i) <=> i[2] \notin Counting) /\ ~Plain(i)
    BY <1>3 DEF Packs, Full, Plain, Packing
  <2>6. CASE i[2] \in Counting
    <3>1. WidthsOf(i) = <<4>> /\ Len(i) = 2 + Len(<<4>>) /\ ~Full(i) /\ ~Plain(i)
      BY <2>1, <2>3, <2>5, <2>6
    <3> QED
      BY ZenonT(30), <3>1
  <2>7. CASE i[2] \notin Counting
    <3>1. WidthsOf(i) = <<>> /\ Len(i) = 3 /\ i[3] = 0 /\ ~Packs(i) /\ ~Plain(i)
      BY <2>1, <2>2, <2>4, <2>5, <2>7
    <3> QED
      BY ZenonT(30), <3>1
  <2> QED
    BY <2>6, <2>7
<1>4. CASE i[1] \notin Packing \cup {"CALLBUILTIN"}
  <2>1. WidthsOf(i) = Widths(i[1])
    BY <1>4 DEF WidthsOf, Packing
  <2>2. Plain(i) /\ ~Packs(i) /\ ~Full(i)
    BY <1>4 DEF Packs, Full, Plain, Packing
  <2>3. Len(i) = 1 + Len(Widths(i[1]))
    BY <1>4 DEF IsInstruction, Packing
  <2> QED
    BY <2>1, <2>2, <2>3, WidthsShape
<1> QED
  BY <1>1, <1>2, <1>3, <1>4 DEF Packing

LEMMA OperandsFit ==
  ASSUME NEW i, IsInstruction(i)
  PROVE  \A k \in DOMAIN WidthsOf(i) : i[Len(HeadOf(i)) + k] \in Operand(WidthsOf(i)[k])
<1>0. Len(<<i[1], i[2]>>) = 2 /\ Len(<<i[1]>>) = 1 /\ DOMAIN <<4>> = {1} /\ <<4>>[1] = 4
      /\ DOMAIN <<>> = {}
  OBVIOUS
<1>1. CASE i[1] \in {"BINOP", "UNARY"}
  <2>1. WidthsOf(i) = <<>>
    BY <1>1 DEF WidthsOf
  <2> QED
    BY ZenonT(30), <1>0, <2>1
<1>2. CASE i[1] \in {"LOAD", "STORE", "CJMP"}
  <2>1. WidthsOf(i) = <<4>> /\ HeadOf(i) = <<i[1], i[2]>>
    BY <1>2 DEF WidthsOf, HeadOf
  <2>2. \A k \in DOMAIN <<4>> : i[2 + k] \in Operand(<<4>>[k])
    BY <1>2 DEF IsInstruction
  <2> QED
    BY ZenonT(30), <1>0, <2>1, <2>2
<1>3. CASE i[1] = "CALLBUILTIN"
  <2>1. \A k \in DOMAIN <<4>> : i[2 + k] \in Operand(<<4>>[k])
    BY <1>3 DEF IsInstruction
  <2>2. i[2] \in Counting => WidthsOf(i) = <<4>> /\ HeadOf(i) = <<i[1], i[2]>>
    BY <1>3 DEF WidthsOf, HeadOf
  <2>3. i[2] \notin Counting => WidthsOf(i) = <<>>
    BY <1>3 DEF WidthsOf
  <2>4. CASE i[2] \in Counting
    BY ZenonT(30), <1>0, <2>1, <2>2, <2>4
  <2>5. CASE i[2] \notin Counting
    BY ZenonT(30), <1>0, <2>3, <2>5
  <2> QED
    BY <2>4, <2>5
<1>4. CASE i[1] \notin Packing \cup {"CALLBUILTIN"}
  <2>1. WidthsOf(i) = Widths(i[1]) /\ HeadOf(i) = <<i[1]>>
    BY <1>4 DEF WidthsOf, HeadOf, Packing
  <2>2. \A k \in DOMAIN Widths(i[1]) : i[1 + k] \in Operand(Widths(i[1])[k])
    BY <1>4 DEF IsInstruction, Packing
  <2> QED
    BY ZenonT(30), <1>0, <2>1, <2>2
<1> QED
  BY <1>1, <1>2, <1>3, <1>4 DEF Packing

\* The payload is the operands, written one after the other.
LEMMA PayloadIs ==
  ASSUME NEW i, IsInstruction(i)
  PROVE  Payload(i) = Written(ArgsOf(i), WidthsOf(i))
<1> DEFINE args == ArgsOf(i)
<1>0. Len(<<i[1], i[2]>>) = 2 /\ Len(<<i[1]>>) = 1 /\ Len(<<4>>) = 1 /\ <<4>>[1] = 4
      /\ Len(<<>>) = 0
  OBVIOUS
<1>5. ASSUME WidthsOf(i) = <<>> PROVE Written(args, WidthsOf(i)) = <<>>
  <2>1. Len(WidthsOf(i)) = 0
    BY <1>0, <1>5
  <2> HIDE DEF args
  <2> QED
    BY <2>1 DEF Written
<1>6. ASSUME WidthsOf(i) = << 4 >>, HeadOf(i) = <<i[1], i[2]>>
      PROVE  Written(args, WidthsOf(i)) = LeBytes(i[3], 4)
  <2>1. Len(HeadOf(i)) = 2 /\ Len(WidthsOf(i)) = 1
    BY <1>0, <1>6
  <2>2. args[1] = i[3]
    <3>1. 1 \in 1..Len(WidthsOf(i)) /\ Len(HeadOf(i)) + 1 = 3
      BY <2>1
    <3> QED
      BY <3>1 DEF ArgsOf
  <2>3. Written(args, <<4>>) = LeBytes(args[1], <<4>>[1])
    <3> HIDE DEF args
    <3> QED
      BY <1>0 DEF Written
  <2> QED
    BY <1>0, <1>6, <2>2, <2>3
<1>1. CASE i[1] \in {"BINOP", "UNARY"}
  <2>1. WidthsOf(i) = <<>>
    BY <1>1 DEF WidthsOf
  <2>2. Payload(i) = <<>>
    BY <1>1 DEF Payload
  <2> QED
    BY <1>5, <2>1, <2>2
<1>2. CASE i[1] \in {"LOAD", "STORE", "CJMP"}
  <2>1. WidthsOf(i) = <<4>> /\ HeadOf(i) = <<i[1], i[2]>>
    BY <1>2 DEF WidthsOf, HeadOf
  <2>2. Payload(i) = LeBytes(i[3], 4)
    BY <1>2 DEF Payload
  <2> QED
    BY <1>6, <2>1, <2>2
<1>3. CASE i[1] = "CALLBUILTIN"
  <2>1. i[3] # 0 <=> i[2] \in Counting
    BY <1>3 DEF IsInstruction
  <2>2. i[2] \in Counting => WidthsOf(i) = <<4>> /\ HeadOf(i) = <<i[1], i[2]>>
    BY <1>3 DEF WidthsOf, HeadOf
  <2>3. i[2] \notin Counting => WidthsOf(i) = <<>>
    BY <1>3 DEF WidthsOf
  <2>6. Payload(i) = IF i[3] # 0 THEN LeBytes(i[3], 4) ELSE <<>>
    BY <1>3 DEF Payload
  <2>4. CASE i[2] \in Counting
    BY <1>6, <2>1, <2>2, <2>4, <2>6
  <2>5. CASE i[2] \notin Counting
    BY <1>5, <2>1, <2>3, <2>5, <2>6
  <2> QED
    BY <2>4, <2>5
<1>4. CASE i[1] \notin Packing \cup {"CALLBUILTIN"}
  <2>1. WidthsOf(i) = Widths(i[1]) /\ HeadOf(i) = <<i[1]>>
    BY <1>4 DEF WidthsOf, HeadOf, Packing
  <2>2. Payload(i) =
          CASE Len(WidthsOf(i)) = 0 -> <<>>
            [] Len(WidthsOf(i)) = 1 -> LeBytes(i[2], WidthsOf(i)[1])
            [] OTHER -> LeBytes(i[2], WidthsOf(i)[1]) \o LeBytes(i[3], WidthsOf(i)[2])
    BY <1>4, <2>1 DEF Payload, Packing
  <2>3. Len(WidthsOf(i)) \in 0..2
    BY <2>1, WidthsShape, WidthsType
  <2>4. Len(HeadOf(i)) = 1
    BY <1>0, <2>1
  <2>5. /\ Len(WidthsOf(i)) >= 1 => args[1] = i[2]
        /\ Len(WidthsOf(i)) = 2 => args[2] = i[3]
    <3>1. /\ Len(WidthsOf(i)) >= 1 => 1 \in 1..Len(WidthsOf(i))
          /\ Len(WidthsOf(i)) = 2 => 2 \in 1..Len(WidthsOf(i))
          /\ Len(HeadOf(i)) + 1 = 2 /\ Len(HeadOf(i)) + 2 = 3
      BY <2>3, <2>4
    <3> QED
      BY <3>1 DEF ArgsOf
  <2> HIDE DEF args
  <2>6. CASE Len(WidthsOf(i)) = 0
    BY <2>2, <2>6 DEF Written
  <2>7. CASE Len(WidthsOf(i)) = 1
    <3>1. Written(args, WidthsOf(i)) = LeBytes(args[1], WidthsOf(i)[1])
      BY <2>7 DEF Written
    <3>2. Payload(i) = LeBytes(i[2], WidthsOf(i)[1])
      BY <2>2, <2>7
    <3>3. args[1] = i[2]
      BY <2>5, <2>7
    <3> QED
      BY <3>1, <3>2, <3>3 DEF args
  <2>8. CASE Len(WidthsOf(i)) = 2
    <3>1. Written(args, WidthsOf(i)) = LeBytes(args[1], WidthsOf(i)[1]) \o LeBytes(args[2], WidthsOf(i)[2])
      BY <2>8 DEF Written
    <3>2. Payload(i) = LeBytes(i[2], WidthsOf(i)[1]) \o LeBytes(i[3], WidthsOf(i)[2])
      BY <2>2, <2>8
    <3>3. args[1] = i[2] /\ args[2] = i[3]
      BY <2>5, <2>8
    <3> QED
      BY <3>1, <3>2, <3>3 DEF args
  <2> QED
    BY <2>3, <2>6, <2>7, <2>8 DEF args
<1> QED
  BY <1>1, <1>2, <1>3, <1>4 DEF Packing

LEMMA OpcodeByte ==
  ASSUME NEW i, IsInstruction(i)
  PROVE  Opcode(i) \in Byte
<1>1. CASE i[1] = "BINOP"
  <2>1. \E k \in DOMAIN Ops : i[2] = Ops[k]
    BY <1>1 DEF IsInstruction
  <2>2. Place(Ops, i[2]) \in 1..15
    BY ZenonT(30), <2>1, PlaceOf, Packed
  <2>3. Opcode(i) = Place(Ops, i[2])
    BY <1>1 DEF Opcode
  <2> QED
    BY <2>2, <2>3 DEF Byte
<1>2. CASE i[1] \in {"LOAD", "STORE"}
  <2>1. \E k \in DOMAIN Rels : i[2] = Rels[k]
    BY <1>2 DEF IsInstruction
  <2>2. Place(Rels, i[2]) \in 1..4
    BY ZenonT(30), <2>1, PlaceOf, Packed
  <2>3. Opcode(i) = 32 + Place(Rels, i[2]) \/ Opcode(i) = 64 + Place(Rels, i[2])
    BY <1>2 DEF Opcode
  <2> QED
    BY <2>2, <2>3 DEF Byte
<1>3. CASE i[1] = "UNARY"
  <2>1. \E k \in DOMAIN UnaryOps : i[2] = UnaryOps[k]
    BY <1>3 DEF IsInstruction
  <2>2. Place(UnaryOps, i[2]) \in 1..2
    BY ZenonT(30), <2>1, PlaceOf, Packed
  <2>3. Opcode(i) = 47 + Place(UnaryOps, i[2])
    BY <1>3 DEF Opcode
  <2> QED
    BY <2>2, <2>3 DEF Byte
<1>4. CASE i[1] = "CJMP"
  <2>1. \E k \in DOMAIN Kinds : i[2] = Kinds[k]
    BY <1>4 DEF IsInstruction
  <2>2. Place(Kinds, i[2]) \in 1..2
    BY ZenonT(30), <2>1, PlaceOf, Packed
  <2>3. Opcode(i) = 79 + Place(Kinds, i[2])
    BY <1>4 DEF Opcode
  <2> QED
    BY <2>2, <2>3 DEF Byte
<1>5. CASE i[1] = "CALLBUILTIN"
  <2>1. i[2] \in DOMAIN BuiltinCode /\ Opcode(i) = 112 + BuiltinCode[i[2]]
    BY <1>5 DEF IsInstruction, Opcode
  <2>2. BuiltinCode[i[2]] \in 0..4 \cup 7..15
    BY <2>1, BuiltinBytes
  <2> QED
    BY <2>1, <2>2 DEF Byte
<1>6. CASE i[1] \notin Packing \cup {"CALLBUILTIN"}
  <2>1. i[1] \in DOMAIN PlainCode /\ Opcode(i) = PlainCode[i[1]]
    BY <1>6 DEF IsInstruction, Opcode, Packing
  <2> QED
    BY <2>1, PlainBytes DEF PlainNames, Byte
<1> QED
  BY <1>1, <1>2, <1>3, <1>4, <1>5, <1>6 DEF Packing

\* A label is no instruction: nothing is written for it.
LEMMA NotALabel ==
  ASSUME NEW i, IsInstruction(i)
  PROVE  i[1] # "LABEL"
<1>1. "LABEL" \notin DOMAIN PlainCode
  BY DEF PlainCode
<1>2. i[1] = "LABEL" => i[1] \in DOMAIN PlainCode
  BY DEF IsInstruction
<1> QED
  BY <1>1, <1>2

\* What an instruction's head and operands are.
LEMMA InstructionParts ==
  ASSUME NEW S, NEW i \in Seq(S), IsInstruction(i)
  PROVE  /\ WidthsOf(i) \in Seq({1, 4, 8}) /\ Len(WidthsOf(i)) \in 0..2
         /\ ArgsOf(i) \in Seq(Int) /\ Len(ArgsOf(i)) = Len(WidthsOf(i))
         /\ \A k \in 1..Len(WidthsOf(i)) : ArgsOf(i)[k] \in Operand(WidthsOf(i)[k])
         /\ HeadOf(i) \o ArgsOf(i) = i
<1> DEFINE widths == WidthsOf(i)
           args == ArgsOf(i)
           head == HeadOf(i)
           n == Len(widths)
           h == Len(head)
<1>1. widths \in Seq({1, 4, 8}) /\ n \in 0..2 /\ DOMAIN widths = 1..n
  BY Lengths, WidthsType
<1>2. Len(i) \in Nat /\ \A k \in 1..Len(i) : i[k] \in S
  BY LenProperties, ElementOfSeq
<1>3. h \in 1..3 /\ head \in Seq(S) /\ Len(i) = h + n /\ \A k \in 1..h : head[k] = i[k]
  <2>1. CASE Packs(i)
    <3>1. head = <<i[1], i[2]>> /\ Len(i) = 2 + n
      BY <2>1, Kind, Lengths
    <3>2. i[1] \in S /\ i[2] \in S
      BY <1>1, <1>2, <3>1
    <3> HIDE DEF head
    <3> QED
      BY <3>1, <3>2
  <2>2. CASE Full(i)
    <3>1. head = <<i[1], i[2], i[3]>> /\ Len(i) = 3 /\ widths = <<>>
      BY <2>2, Kind, Lengths
    <3>2. i[1] \in S /\ i[2] \in S /\ i[3] \in S
      BY <1>1, <1>2, <3>1
    <3> HIDE DEF head, widths
    <3> QED
      BY <3>1, <3>2
  <2>3. CASE Plain(i)
    <3>1. head = <<i[1]>> /\ Len(i) = 1 + n
      BY <2>3, Kind, Lengths
    <3>2. i[1] \in S
      BY <1>1, <1>2, <3>1
    <3> HIDE DEF head
    <3> QED
      BY <3>1, <3>2
  <2> QED
    BY <2>1, <2>2, <2>3, Kind
<1>4. \A k \in 1..n : i[h + k] \in Operand(widths[k])
  BY <1>1, OperandsFit
<1>5. \A k \in 1..n : i[h + k] \in Int
  BY ZenonT(30), <1>4, OperandInt
<1>6. args = [k \in 1..n |-> i[h + k]]
  BY DEF ArgsOf
<1> HIDE DEF head, widths, args, n, h
<1>7. args \in Seq(Int) /\ Len(args) = n /\ \A k \in 1..n : args[k] = i[h + k]
  <2>1. args \in [1..n -> Int] /\ n \in Nat
    BY <1>1, <1>5, <1>6
  <2>2. args \in Seq(Int) /\ Len(args) = n
    BY <2>1
  <2>3. \A k \in 1..n : args[k] = i[h + k]
    BY <1>6
  <2> QED
    BY <2>2, <2>3
<1>8. head \o args = i
  <2>1. args \in Seq(S)
    <3>1. \A k \in 1..n : i[h + k] \in S
      BY <1>1, <1>2, <1>3
    <3>2. args \in [1..n -> S] /\ n \in Nat
      BY <1>1, <1>6, <3>1
    <3> QED
      BY <3>2
  <2>2. /\ head \o args \in Seq(S) /\ Len(head \o args) = h + n
        /\ \A k \in 1..(h + n) : (head \o args)[k] = IF k <= h THEN head[k] ELSE args[k - h]
    BY ZenonT(30), <1>3, <1>7, <2>1, ConcatProperties DEF h
  <2>3. ASSUME NEW k \in 1..(h + n) PROVE (head \o args)[k] = i[k]
    <3>1. CASE k <= h
      BY <1>1, <1>3, <2>2, <3>1
    <3>2. CASE ~(k <= h)
      <4>1. k - h \in 1..n /\ h + (k - h) = k
        BY <1>1, <1>3, <3>2
      <4>2. (head \o args)[k] = args[k - h]
        BY <2>2, <3>2
      <4>3. args[k - h] = i[h + (k - h)]
        BY <1>7, <4>1
      <4> QED
        BY <4>1, <4>2, <4>3
    <3> QED
      BY <3>1, <3>2
  <2> QED
    BY <1>3, <2>2, <2>3, SeqEqual
<1> QED
  BY <1>1, <1>4, <1>7, <1>8 DEF head, widths, args, n, h

LEMMA WrittenBytes ==
  ASSUME NEW widths \in Seq({1, 4, 8}), Len(widths) \in 0..2,
         NEW args \in Seq(Int), Len(args) = Len(widths)
  PROVE  Written(args, widths) \in Seq(Byte)
<1>4. \A k \in 1..Len(widths) : widths[k] \in {1, 4, 8}
  BY ElementOfSeq
<1>5. \A k \in 1..Len(widths) : args[k] \in Int
  <2>1. \A k \in 1..Len(args) : args[k] \in Int
    BY ElementOfSeq
  <2> QED
    BY ZenonT(30), <2>1
<1>1. CASE Len(widths) = 0
  BY <1>1 DEF Written
<1>2. CASE Len(widths) = 1
  <2>1. widths[1] \in {1, 4, 8} /\ args[1] \in Int
    <3>1. 1 \in 1..Len(widths)
      BY <1>2
    <3> QED
      BY ZenonT(30), <1>4, <1>5, <3>1
  <2>2. LeBytes(args[1], widths[1]) \in Seq(Byte)
    BY ZenonT(30), <2>1, BytesAre
  <2>3. Written(args, widths) = LeBytes(args[1], widths[1])
    BY <1>2 DEF Written
  <2> QED
    BY <2>2, <2>3
<1>3. CASE Len(widths) = 2
  <2>1. /\ widths[1] \in {1, 4, 8} /\ args[1] \in Int
        /\ widths[2] \in {1, 4, 8} /\ args[2] \in Int
    <3>1. 1 \in 1..Len(widths) /\ 2 \in 1..Len(widths)
      BY <1>3
    <3> QED
      BY ZenonT(30), <1>4, <1>5, <3>1
  <2>2. LeBytes(args[1], widths[1]) \in Seq(Byte) /\ LeBytes(args[2], widths[2]) \in Seq(Byte)
    BY ZenonT(30), <2>1, BytesAre
  <2>3. Written(args, widths) = LeBytes(args[1], widths[1]) \o LeBytes(args[2], widths[2])
    BY <1>3 DEF Written
  <2>4. LeBytes(args[1], widths[1]) \o LeBytes(args[2], widths[2]) \in Seq(Byte)
    BY ZenonT(30), <2>2, ConcatProperties
  <2> QED
    BY <2>3, <2>4
<1> QED
  BY <1>1, <1>2, <1>3

LEMMA EncodedIs ==
  ASSUME NEW S, NEW i \in Seq(S), IsInstruction(i)
  PROVE  /\ Encode(i) = <<Opcode(i)>> \o Written(ArgsOf(i), WidthsOf(i))
         /\ <<Opcode(i)>> \in Seq(Byte)
         /\ Written(ArgsOf(i), WidthsOf(i)) \in Seq(Byte)
         /\ Encode(i) \in Seq(Byte) /\ Len(Encode(i)) = 1 + Len(Written(ArgsOf(i), WidthsOf(i)))
<1> DEFINE bytes == Written(ArgsOf(i), WidthsOf(i))
<1>1. Encode(i) = <<Opcode(i)>> \o bytes
  BY NotALabel, PayloadIs DEF Encode
<1>2. bytes \in Seq(Byte)
  <2>1. /\ WidthsOf(i) \in Seq({1, 4, 8}) /\ Len(WidthsOf(i)) \in 0..2
        /\ ArgsOf(i) \in Seq(Int) /\ Len(ArgsOf(i)) = Len(WidthsOf(i))
    BY ZenonT(30), InstructionParts
  <2> QED
    BY ZenonT(30), <2>1, WrittenBytes
<1>3. <<Opcode(i)>> \in Seq(Byte) /\ Len(<<Opcode(i)>>) = 1
  <2>1. Opcode(i) \in Byte
    BY ZenonT(30), OpcodeByte
  <2> QED
    BY <2>1
<1> HIDE DEF bytes
<1>4. Encode(i) \in Seq(Byte) /\ Len(Encode(i)) = 1 + Len(bytes)
  <2> DEFINE op == <<Opcode(i)>>
  <2>1. op \in Seq(Byte) /\ Len(op) = 1
    BY <1>3
  <2> HIDE DEF op
  <2>2. op \o bytes \in Seq(Byte) /\ Len(op \o bytes) = Len(op) + Len(bytes)
    BY ZenonT(30), <1>2, <2>1, ConcatProperties
  <2>3. Encode(i) = op \o bytes
    BY <1>1 DEF op
  <2> QED
    BY ZenonT(30), <2>1, <2>2, <2>3
<1> QED
  BY <1>1, <1>2, <1>3, <1>4 DEF bytes

\* What the decoder finds where an instruction was written is that instruction, and it
\* gets to where the next one was written.
THEOREM FetchesEncoded ==
  ASSUME NEW S, NEW i \in Seq(S), IsInstruction(i),
         NEW code \in Seq(Byte), NEW at \in Nat, Holds(code, at, Encode(i))
  PROVE  Fetch(code, at) = [instr |-> i, next |-> at + Len(Encode(i))]
<1> DEFINE bytes == Written(ArgsOf(i), WidthsOf(i))
           op == <<Opcode(i)>>
<1>1. /\ Encode(i) = op \o bytes /\ op \in Seq(Byte) /\ bytes \in Seq(Byte)
      /\ Len(Encode(i)) = 1 + Len(bytes)
  BY EncodedIs
<1>2. Len(op) = 1 /\ op[1] = Opcode(i) /\ Len(bytes) \in Nat /\ Len(code) \in Nat
  BY <1>1, LenProperties
<1> HIDE DEF bytes, op
<1>3. Holds(code, at, op) /\ Holds(code, at + 1, bytes)
  <2>1. Holds(code, at, op \o bytes)
    BY <1>1
  <2>2. Holds(code, at, op) /\ Holds(code, at + Len(op), bytes)
    BY ZenonT(30), <1>1, <2>1, HoldsParts
  <2> QED
    BY <1>2, <2>2
<1>4. at < Len(code) /\ code[at + 1] = Opcode(i)
  BY <1>2, <1>3 DEF Holds
<1>5. Fetch(code, at) = Read(code, at + 1, HeadOf(i), WidthsOf(i))
  BY <1>4, Decoded
<1>6. Read(code, at + 1, HeadOf(i), WidthsOf(i)) =
        [instr |-> HeadOf(i) \o ArgsOf(i), next |-> (at + 1) + Len(bytes)]
  <2>1. /\ WidthsOf(i) \in Seq({1, 4, 8}) /\ Len(WidthsOf(i)) <= 2
        /\ ArgsOf(i) \in Seq(Int) /\ Len(ArgsOf(i)) = Len(WidthsOf(i))
        /\ \A k \in 1..Len(WidthsOf(i)) : ArgsOf(i)[k] \in Operand(WidthsOf(i)[k])
    <3>1. Len(WidthsOf(i)) \in 0..2
      BY ZenonT(30), InstructionParts
    <3>2. Len(WidthsOf(i)) <= 2
      <4> DEFINE n == Len(WidthsOf(i))
      <4>1. n \in 0..2
        BY <3>1
      <4> HIDE DEF n
      <4>2. n <= 2
        BY <4>1
      <4> QED
        BY <4>2 DEF n
    <3> QED
      BY ZenonT(30), <3>2, InstructionParts
  <2>2. Holds(code, at + 1, Written(ArgsOf(i), WidthsOf(i))) /\ at + 1 \in Nat
    BY <1>3 DEF bytes
  <2> QED
    BY ZenonT(60), <2>1, <2>2, ReadsWritten DEF bytes
<1>7. HeadOf(i) \o ArgsOf(i) = i /\ (at + 1) + Len(bytes) = at + Len(Encode(i))
  <2>1. HeadOf(i) \o ArgsOf(i) = i
    BY InstructionParts
  <2> QED
    BY <1>1, <1>2, <2>1
<1> QED
  BY <1>5, <1>6, <1>7

-----------------------------------------------------------------------------
(* Offsets.                                                                *)

LEMMA Least ==
  ASSUME NEW N, N \subseteq Nat, N # {}
  PROVE  \E n \in N : \A k \in N : ~(k < n)
<1> DEFINE less == {p \in Nat \X Nat : p[1] < p[2]}
<1>1. OpToRel(<, Nat) = less
  BY Zenon DEF OpToRel
<1>2. IsWellFoundedOn(less, Nat)
  BY <1>1, NatLessThanWellFounded, Zenon
<1>3. PICK n \in N : \A k \in N : <<k, n>> \notin less
  <2> HIDE DEF less
  <2> QED
    BY <1>2, WFMin
<1>4. \A k \in N : ~(k < n)
  BY <1>3
<1> QED
  BY <1>4

\* There are sums of the first widths.
IsSum(o, w, n) == o \in [1..(n + 1) -> Nat] /\ o[1] = 0 /\ \A k \in 1..n : o[k + 1] = o[k] + w[k]

LEMMA SumExists ==
  ASSUME NEW n \in Nat, NEW w \in [1..n -> Nat]
  PROVE  \E o : IsSum(o, w, n)
<1> DEFINE N == {m \in Nat : m <= n /\ ~\E o : IsSum(o, w, m)}
<1> SUFFICES ASSUME n \in N PROVE FALSE
  OBVIOUS
<1>1. PICK m \in N : \A k \in N : ~(k < m)
  BY Least
<1>2. m \in Nat /\ m <= n /\ ~\E o : IsSum(o, w, m)
  BY <1>1
<1>3. CASE m = 0
  <2> DEFINE o == [k \in 1..1 |-> 0]
  <2>1. IsSum(o, w, m)
    BY <1>3 DEF IsSum
  <2> QED
    BY <1>2, <2>1
<1>4. CASE m # 0
  <2>1. m - 1 \in Nat /\ m - 1 <= n /\ m - 1 < m
    BY <1>2, <1>4
  <2>2. m - 1 \notin N
    BY <1>1, <2>1
  <2>3. PICK o : IsSum(o, w, m - 1)
    BY <2>1, <2>2
  <2> DEFINE more == [k \in 1..(m + 1) |-> IF k = m + 1 THEN o[m] + w[m] ELSE o[k]]
  <2>4. /\ m \in 1..m /\ o[m] \in Nat /\ w[m] \in Nat /\ o[1] = 0
        /\ \A k \in 1..m : o[k] \in Nat
        /\ \A k \in 1..(m - 1) : o[k + 1] = o[k] + w[k]
    BY <1>2, <1>4, <2>3 DEF IsSum
  <2>5. more \in [1..(m + 1) -> Nat]
    BY <1>2, <2>4
  <2>6. more[1] = 0
    BY <1>2, <1>4, <2>4
  <2>7. ASSUME NEW k \in 1..m PROVE more[k + 1] = more[k] + w[k]
    <3>1. more[k] = o[k]
      BY <1>2
    <3>2. CASE k = m
      BY <1>2, <3>1, <3>2
    <3>3. CASE k # m
      <4>1. k \in 1..(m - 1) /\ k + 1 \in 1..(m + 1) /\ k + 1 # m + 1
        BY <1>2, <3>3
      <4>2. more[k + 1] = o[k + 1]
        BY <4>1
      <4> QED
        BY <2>4, <3>1, <4>1, <4>2
    <3> QED
      BY <3>2, <3>3
  <2> HIDE DEF more
  <2>8. IsSum(more, w, m)
    BY <2>5, <2>6, <2>7 DEF IsSum
  <2> QED
    BY <1>2, <2>8
<1> QED
  BY <1>3, <1>4

LEMMA OffsetsSum ==
  ASSUME NEW S, NEW instrs \in Seq(S), \A k \in 1..Len(instrs) : Size(instrs[k]) \in Nat
  PROVE  IsSum(Offsets(instrs), [k \in 1..Len(instrs) |-> Size(instrs[k])], Len(instrs))
<1> DEFINE n == Len(instrs)
           w == [k \in 1..n |-> Size(instrs[k])]
           F(o) == [k \in 1..(n + 1) |-> IF k = 1 THEN 0 ELSE o[k - 1] + Size(instrs[k - 1])]
           offsets == CHOOSE o : o = F(o)
<1>1. n \in Nat
  BY LenProperties
<1>2. w \in [1..n -> Nat] /\ \A k \in 1..n : w[k] = Size(instrs[k])
  OBVIOUS
<1>3. Offsets(instrs) = offsets
  BY DEF Offsets
<1> HIDE DEF n, w
<1>4. PICK o : IsSum(o, w, n)
  BY <1>1, <1>2, SumExists
<1>5. o = F(o)
  <2>1. ASSUME NEW k \in 1..(n + 1)
        PROVE  o[k] = IF k = 1 THEN 0 ELSE o[k - 1] + Size(instrs[k - 1])
    <3>1. CASE k = 1
      BY <1>4, <3>1 DEF IsSum
    <3>2. CASE k # 1
      <4>1. k - 1 \in 1..n /\ (k - 1) + 1 = k
        BY <1>1, <3>2
      <4> QED
        BY <1>2, <1>4, <3>2, <4>1 DEF IsSum
    <3> QED
      BY <3>1, <3>2
  <2>2. o = [k \in 1..(n + 1) |-> o[k]]
    BY <1>4 DEF IsSum
  <2> QED
    BY <2>1, <2>2
<1>6. offsets = F(offsets)
  <2> HIDE DEF F
  <2> QED
    BY <1>5
<1> HIDE DEF offsets
<1>7. /\ offsets = [k \in 1..(n + 1) |-> offsets[k]]
      /\ \A k \in 1..(n + 1) : offsets[k] = IF k = 1 THEN 0 ELSE offsets[k - 1] + Size(instrs[k - 1])
      /\ o = [k \in 1..(n + 1) |-> o[k]]
      /\ \A k \in 1..(n + 1) : o[k] = IF k = 1 THEN 0 ELSE o[k - 1] + Size(instrs[k - 1])
  <2>1. offsets = [k \in 1..(n + 1) |-> offsets[k]]
    BY <1>6
  <2>2. o = [k \in 1..(n + 1) |-> o[k]]
    BY <1>5
  <2>3. \A k \in 1..(n + 1) : F(offsets)[k] = IF k = 1 THEN 0 ELSE offsets[k - 1] + Size(instrs[k - 1])
    OBVIOUS
  <2>4. \A k \in 1..(n + 1) : F(o)[k] = IF k = 1 THEN 0 ELSE o[k - 1] + Size(instrs[k - 1])
    OBVIOUS
  <2> HIDE DEF F
  <2> QED
    BY <1>5, <1>6, <2>1, <2>2, <2>3, <2>4
<1> DEFINE N == {k \in 1..(n + 1) : offsets[k] # o[k]}
<1>8. N = {}
  <2> SUFFICES ASSUME N # {} PROVE FALSE
    OBVIOUS
  <2>1. N \subseteq Nat
    BY <1>1
  <2>2. PICK m \in N : \A k \in N : ~(k < m)
    <3> HIDE DEF N
    <3> QED
      BY <2>1, Least
  <2>3. m \in 1..(n + 1) /\ offsets[m] # o[m]
    BY <2>2
  <2>4. m # 1
    BY <1>7, <2>3
  <2>5. m - 1 \in 1..(n + 1) /\ m - 1 < m
    BY <1>1, <2>3, <2>4
  <2>6. offsets[m - 1] = o[m - 1]
    BY <2>2, <2>5
  <2>7. offsets[m] = offsets[m - 1] + Size(instrs[m - 1])
    BY ZenonT(30), <1>7, <2>3, <2>4
  <2>8. o[m] = o[m - 1] + Size(instrs[m - 1])
    BY ZenonT(30), <1>7, <2>3, <2>4
  <2> QED
    BY ZenonT(30), <2>3, <2>6, <2>7, <2>8
<1>9. offsets = o
  <2>1. \A k \in 1..(n + 1) : offsets[k] = o[k]
    BY ZenonT(30), <1>8
  <2>2. [k \in 1..(n + 1) |-> offsets[k]] = [k \in 1..(n + 1) |-> o[k]]
    BY ZenonT(30), <2>1
  <2> QED
    BY ZenonT(30), <1>7, <2>2
<1> QED
  BY <1>3, <1>4, <1>9 DEF n, w

-----------------------------------------------------------------------------
(* The parts of a text that is put together.                               *)

\* The texts of the first parts, one for each number of parts.
IsFlat(f, e, n, B) ==
  f \in [1..n -> Seq(B)] /\ \A k \in 1..n : f[k] = IF k = 1 THEN e[k] ELSE f[k - 1] \o e[k]

LEMMA FlatExists ==
  ASSUME NEW B, NEW n \in Nat, NEW e \in [1..n -> Seq(B)]
  PROVE  \E f : IsFlat(f, e, n, B)
<1> DEFINE N == {m \in Nat : m <= n /\ ~\E f : IsFlat(f, e, m, B)}
<1> SUFFICES ASSUME n \in N PROVE FALSE
  OBVIOUS
<1>1. PICK m \in N : \A k \in N : ~(k < m)
  BY Least
<1>2. m \in Nat /\ m <= n /\ ~\E f : IsFlat(f, e, m, B)
  BY <1>1
<1>3. CASE m = 0
  <2> DEFINE f == [k \in 1..m |-> e[k]]
  <2>1. 1..m = {}
    BY <1>3
  <2>2. IsFlat(f, e, m, B)
    BY <2>1 DEF IsFlat
  <2> QED
    BY <1>2, <2>2
<1>4. CASE m # 0
  <2>1. m - 1 \in Nat /\ m - 1 <= n /\ m - 1 < m
    BY <1>2, <1>4
  <2>2. m - 1 \notin N
    BY <1>1, <2>1
  <2>3. PICK f : IsFlat(f, e, m - 1, B)
    BY <2>1, <2>2
  <2> DEFINE last == IF m = 1 THEN e[m] ELSE f[m - 1] \o e[m]
             more == [k \in 1..m |-> IF k = m THEN last ELSE f[k]]
  <2>4. /\ \A k \in 1..(m - 1) : f[k] \in Seq(B)
        /\ \A k \in 1..(m - 1) : f[k] = IF k = 1 THEN e[k] ELSE f[k - 1] \o e[k]
    BY <2>3 DEF IsFlat
  <2>5. last \in Seq(B)
    <3>1. e[m] \in Seq(B)
      BY <1>2, <1>4
    <3>2. m # 1 => f[m - 1] \in Seq(B)
      BY <1>2, <1>4, <2>4
    <3> QED
      BY ZenonT(30), <3>1, <3>2, ConcatProperties
  <2> HIDE DEF last
  <2>6. more \in [1..m -> Seq(B)]
    <3>1. \A k \in 1..m : k # m => k \in 1..(m - 1)
      BY <1>2
    <3> QED
      BY <2>4, <2>5, <3>1
  <2>7. ASSUME NEW k \in 1..m PROVE more[k] = IF k = 1 THEN e[k] ELSE more[k - 1] \o e[k]
    <3>1. k # 1 => more[k - 1] = f[k - 1]
      <4>1. k # 1 => k - 1 \in 1..m /\ k - 1 # m
        BY <1>2
      <4> QED
        BY <4>1
    <3>2. CASE k = m
      BY <3>1, <3>2 DEF last
    <3>3. CASE k # m
      <4>1. k \in 1..(m - 1)
        BY <1>2, <3>3
      <4>2. more[k] = f[k]
        BY <3>3
      <4> HIDE DEF more
      <4> QED
        BY <2>4, <3>1, <4>1, <4>2
    <3> QED
      BY <3>2, <3>3
  <2> HIDE DEF more
  <2>8. IsFlat(more, e, m, B)
    BY <2>6, <2>7 DEF IsFlat
  <2> QED
    BY <1>2, <2>8
<1> QED
  BY <1>3, <1>4

LEMMA FlattenedIs ==
  ASSUME NEW B, NEW n \in Nat, NEW e \in [1..n -> Seq(B)], Len(e) = n, n # 0
  PROVE  \E f : IsFlat(f, e, n, B) /\ FlattenSeq(e) = f[n]
<1> DEFINE F(f) == [k \in 1..Len(e) |-> IF k = 1 THEN e[k] ELSE f[k - 1] \o e[k]]
           flatten == CHOOSE f : f = F(f)
<1>1. FlattenSeq(e) = flatten[Len(e)]
  BY DEF FlattenSeq
<1>2. PICK f : IsFlat(f, e, n, B)
  BY FlatExists
<1>3. f = F(f)
  <2>1. f = [k \in 1..n |-> f[k]]
    BY <1>2 DEF IsFlat
  <2>2. \A k \in 1..n : f[k] = IF k = 1 THEN e[k] ELSE f[k - 1] \o e[k]
    BY <1>2 DEF IsFlat
  <2> QED
    BY <2>1, <2>2
<1>4. flatten = F(flatten)
  <2> HIDE DEF F
  <2> QED
    BY <1>3
<1> HIDE DEF flatten
<1>5. flatten = [k \in 1..n |-> flatten[k]]
  BY <1>4
<1>6. \A k \in 1..n : flatten[k] = IF k = 1 THEN e[k] ELSE flatten[k - 1] \o e[k]
  <2>1. \A k \in 1..n : F(flatten)[k] = IF k = 1 THEN e[k] ELSE flatten[k - 1] \o e[k]
    OBVIOUS
  <2> HIDE DEF F
  <2> QED
    BY <1>4, <2>1
<1>7. /\ f = [k \in 1..n |-> f[k]]
      /\ \A k \in 1..n : f[k] = IF k = 1 THEN e[k] ELSE f[k - 1] \o e[k]
  BY <1>2 DEF IsFlat
<1> DEFINE N == {k \in 1..n : flatten[k] # f[k]}
<1>8. N = {}
  <2> SUFFICES ASSUME N # {} PROVE FALSE
    OBVIOUS
  <2>1. N \subseteq Nat
    OBVIOUS
  <2>2. PICK m \in N : \A k \in N : ~(k < m)
    <3> HIDE DEF N
    <3> QED
      BY <2>1, Least
  <2>3. m \in 1..n /\ flatten[m] # f[m]
    BY <2>2
  <2>4. m # 1
    BY <1>6, <1>7, <2>3
  <2>5. m - 1 \in 1..n /\ m - 1 < m
    BY <2>3, <2>4
  <2>6. flatten[m - 1] = f[m - 1]
    BY <2>2, <2>5
  <2> HIDE DEF F
  <2>7. flatten[m] = flatten[m - 1] \o e[m]
    BY ZenonT(30), <1>6, <2>3, <2>4
  <2>8. f[m] = f[m - 1] \o e[m]
    BY ZenonT(30), <1>7, <2>3, <2>4
  <2> QED
    BY ZenonT(30), <2>3, <2>6, <2>7, <2>8
<1>9. flatten = f
  <2> HIDE DEF F
  <2>1. \A k \in 1..n : flatten[k] = f[k]
    BY ZenonT(30), <1>8
  <2>2. [k \in 1..n |-> flatten[k]] = [k \in 1..n |-> f[k]]
    BY ZenonT(30), <2>1
  <2> QED
    BY ZenonT(30), <1>5, <1>7, <2>2
<1> QED
  BY <1>1, <1>2, <1>9

LEMMA HoldsLonger ==
  ASSUME NEW B, NEW l \in Seq(B), NEW r \in Seq(B), NEW at \in Nat, NEW bytes \in Seq(B),
         Holds(l, at, bytes)
  PROVE  Holds(l \o r, at, bytes)
<1>1. Len(l) \in Nat /\ Len(r) \in Nat /\ Len(bytes) \in Nat
  BY LenProperties
<1>2. /\ Len(l \o r) = Len(l) + Len(r)
      /\ \A k \in 1..(Len(l) + Len(r)) : (l \o r)[k] = IF k <= Len(l) THEN l[k] ELSE r[k - Len(l)]
  BY ConcatProperties
<1>3. at + Len(bytes) <= Len(l) /\ \A k \in 1..Len(bytes) : l[at + k] = bytes[k]
  BY DEF Holds
<1>4. ASSUME NEW k \in 1..Len(bytes) PROVE (l \o r)[at + k] = bytes[k]
  <2>1. at + k \in 1..(Len(l) + Len(r)) /\ at + k <= Len(l)
    BY <1>1, <1>3
  <2> QED
    BY <1>2, <1>3, <2>1
<1> QED
  BY <1>1, <1>2, <1>3, <1>4 DEF Holds

LEMMA HoldsLast ==
  ASSUME NEW B, NEW l \in Seq(B), NEW r \in Seq(B)
  PROVE  Holds(l \o r, Len(l), r)
<1>1. Len(l) \in Nat /\ Len(r) \in Nat
  BY LenProperties
<1>2. /\ Len(l \o r) = Len(l) + Len(r)
      /\ \A k \in 1..(Len(l) + Len(r)) : (l \o r)[k] = IF k <= Len(l) THEN l[k] ELSE r[k - Len(l)]
  BY ConcatProperties
<1>3. ASSUME NEW k \in 1..Len(r) PROVE (l \o r)[Len(l) + k] = r[k]
  <2>1. Len(l) + k \in 1..(Len(l) + Len(r)) /\ ~(Len(l) + k <= Len(l)) /\ (Len(l) + k) - Len(l) = k
    BY <1>1
  <2> QED
    BY <1>2, <2>1
<1> QED
  BY <1>1, <1>2, <1>3 DEF Holds

\* Every part stands behind the sum of the lengths of those before it.
LEMMA PartsHeld ==
  ASSUME NEW B, NEW n \in Nat, NEW e \in [1..n -> Seq(B)], NEW f, IsFlat(f, e, n, B),
         NEW o, NEW w, IsSum(o, w, n), \A k \in 1..n : w[k] = Len(e[k])
  PROVE  \A m \in 1..n : Len(f[m]) = o[m + 1] /\ \A k \in 1..m : Holds(f[m], o[k], e[k])
<1> DEFINE Good(m) == Len(f[m]) = o[m + 1] /\ \A k \in 1..m : Holds(f[m], o[k], e[k])
           N == {m \in 1..n : ~Good(m)}
<1> SUFFICES ASSUME N # {} PROVE FALSE
  OBVIOUS
<1>1. N \subseteq Nat
  OBVIOUS
<1>2. PICK m \in N : \A k \in N : ~(k < m)
  <2> HIDE DEF N
  <2> QED
    BY <1>1, Least
<1>3. m \in 1..n /\ ~Good(m)
  BY <1>2
<1>4. /\ o[1] = 0 /\ o[m] \in Nat /\ o[m + 1] = o[m] + Len(e[m])
      /\ \A k \in 1..m : o[k] \in Nat
  <2>1. o \in [1..(n + 1) -> Nat] /\ o[1] = 0 /\ o[m + 1] = o[m] + w[m] /\ w[m] = Len(e[m])
    BY <1>3 DEF IsSum
  <2>2. \A k \in 1..m : k \in 1..(n + 1)
    BY <1>3
  <2>3. \A k \in 1..m : o[k] \in Nat
    BY <2>1, <2>2
  <2>4. m \in 1..m
    BY <1>3
  <2> QED
    BY <2>1, <2>3, <2>4
<1>5. e[m] \in Seq(B) /\ \A k \in 1..m : e[k] \in Seq(B)
  BY <1>3
<1>6. CASE m = 1
  <2>1. f[1] = e[1]
    BY <1>3, <1>6 DEF IsFlat
  <2>2. Len(e[1]) \in Nat
    BY <1>5, <1>6, LenProperties
  <2>3. Holds(e[1], 0, e[1])
    BY <2>2 DEF Holds
  <2>4. Len(f[1]) = o[1 + 1]
    BY <1>4, <1>6, <2>1, <2>2
  <2>5. \A k \in 1..1 : Holds(f[1], o[k], e[k])
    BY <1>4, <2>1, <2>3
  <2> QED
    BY <1>3, <1>6, <2>4, <2>5
<1>7. CASE m # 1
  <2> DEFINE l == f[m - 1]
             r == e[m]
  <2>1. m - 1 \in 1..n /\ m - 1 < m /\ (m - 1) + 1 = m
    BY <1>3, <1>7
  <2>2. Good(m - 1)
    <3> HIDE DEF Good
    <3> QED
      BY <1>2, <2>1
  <2>3. f[m] = l \o r /\ l \in Seq(B) /\ r \in Seq(B)
    BY <1>3, <1>5, <1>7, <2>1 DEF IsFlat
  <2>4. Len(l) = o[m] /\ \A k \in 1..(m - 1) : Holds(l, o[k], e[k])
    BY <2>1, <2>2
  <2> HIDE DEF l, r
  <2>5. Len(l \o r) = o[m + 1]
    <3>1. Len(l \o r) = Len(l) + Len(r)
      BY ZenonT(30), <2>3, ConcatProperties
    <3>2. Len(r) = Len(e[m])
      BY DEF r
    <3> QED
      BY <1>4, <2>4, <3>1, <3>2
  <2>6. ASSUME NEW k \in 1..m PROVE Holds(l \o r, o[k], e[k])
    <3>1. CASE k = m
      <4>1. Holds(l \o r, Len(l), r)
        BY ZenonT(30), <2>3, HoldsLast
      <4> QED
        BY <2>4, <3>1, <4>1 DEF r
    <3>2. CASE k # m
      <4>1. k \in 1..(m - 1)
        BY <1>3, <3>2
      <4>2. Holds(l, o[k], e[k]) /\ o[k] \in Nat /\ e[k] \in Seq(B)
        BY <1>4, <1>5, <2>4, <4>1
      <4> QED
        BY ZenonT(30), <2>3, <4>2, HoldsLonger
    <3> QED
      BY <3>1, <3>2
  <2>7. Good(m)
    BY <2>3, <2>5, <2>6
  <2> QED
    BY <1>3, <2>7
<1> QED
  BY <1>6, <1>7

LEMMA FlattenedParts ==
  ASSUME NEW B, NEW n \in Nat, NEW e \in [1..n -> Seq(B)],
         NEW o, NEW w, IsSum(o, w, n), \A k \in 1..n : w[k] = Len(e[k])
  PROVE  /\ FlattenSeq(e) \in Seq(B) /\ Len(FlattenSeq(e)) = o[n + 1]
         /\ \A k \in 1..n : Holds(FlattenSeq(e), o[k], e[k])
<1>1. Len(e) = n
  OBVIOUS
<1>2. CASE n = 0
  <2>1. FlattenSeq(e) = e
    BY <1>1, <1>2 DEF FlattenSeq
  <2>2. e = <<>>
    BY <1>1, <1>2
  <2>3. <<>> \in Seq(B) /\ Len(<<>>) = 0 /\ 1..n = {} /\ n + 1 = 1
    BY <1>2
  <2>4. o[1] = 0
    BY DEF IsSum
  <2> QED
    BY ZenonT(30), <2>1, <2>2, <2>3, <2>4
<1>3. CASE n # 0
  <2>1. PICK f : IsFlat(f, e, n, B) /\ FlattenSeq(e) = f[n]
    BY ZenonT(30), <1>1, <1>3, FlattenedIs
  <2>2. \A m \in 1..n : Len(f[m]) = o[m + 1] /\ \A k \in 1..m : Holds(f[m], o[k], e[k])
    BY ZenonT(30), <2>1, PartsHeld
  <2>3. n \in 1..n
    BY <1>3
  <2>4. f[n] \in Seq(B)
    BY <2>1, <2>3 DEF IsFlat
  <2> QED
    BY ZenonT(30), <2>1, <2>2, <2>3, <2>4
<1> QED
  BY <1>2, <1>3

-----------------------------------------------------------------------------
(* Instructions with labels.                                               *)

LEMMA WrittenLength ==
  ASSUME NEW args, NEW widths \in {<< 4 >>, << 4, 4 >>}, Len(args) = Len(widths), args \in Seq(Int)
  PROVE  Len(Written(args, widths)) = 4 * Len(widths)
<1>1. CASE widths = <<4>>
  <2>1. Len(widths) = 1 /\ widths[1] = 4 /\ args[1] \in Int
    BY <1>1, ElementOfSeq
  <2>2. Written(args, widths) = LeBytes(args[1], 4)
    BY <2>1 DEF Written
  <2>3. Len(LeBytes(args[1], 4)) = 4
    BY ZenonT(30), <2>1, BytesAre
  <2> QED
    BY <2>1, <2>2, <2>3
<1>2. CASE widths = <<4, 4>>
  <2>1. /\ Len(widths) = 2 /\ widths[1] = 4 /\ widths[2] = 4
        /\ args[1] \in Int /\ args[2] \in Int
    BY <1>2, ElementOfSeq
  <2>2. Written(args, widths) = LeBytes(args[1], 4) \o LeBytes(args[2], 4)
    BY <2>1 DEF Written
  <2>3. /\ Len(LeBytes(args[1], 4)) = 4 /\ LeBytes(args[1], 4) \in Seq(Byte)
        /\ Len(LeBytes(args[2], 4)) = 4 /\ LeBytes(args[2], 4) \in Seq(Byte)
    BY ZenonT(30), <2>1, BytesAre
  <2> DEFINE l == LeBytes(args[1], 4)
             r == LeBytes(args[2], 4)
  <2> HIDE DEF l, r
  <2>4. Len(l \o r) = 8
    <3>1. l \in Seq(Byte) /\ r \in Seq(Byte) /\ Len(l) = 4 /\ Len(r) = 4
      BY <2>3 DEF l, r
    <3>2. Len(l \o r) = Len(l) + Len(r)
      BY ZenonT(30), <3>1, ConcatProperties
    <3> QED
      BY <3>1, <3>2
  <2> QED
    BY <2>1, <2>2, <2>4 DEF l, r
<1> QED
  BY <1>1, <1>2

\* What a jump is before and after its label is known.
LEMMA ResolvedJump ==
  ASSUME NEW S, NEW i \in Seq(S), NEW labels, i[1] \in Jumps, IsInstruction(Resolve(i, labels))
  PROVE  /\ Len(Encode(Resolve(i, labels))) = Size(i)
         /\ Resolve(i, labels)[LabelPlace(i)] = labels[i[LabelPlace(i)]]
         /\ LabelPlace(i) \in 2..Len(i)
<1> DEFINE p == LabelPlace(i)
           x == labels[i[p]]
           r == Resolve(i, labels)
<1>1. p = (IF i[1] = "CJMP" THEN 3 ELSE 2)
  BY DEF LabelPlace
<1>2. r = [i EXCEPT ![p] = x]
  BY DEF Resolve
<1>3. i \in Seq(S \cup {x}) /\ x \in S \cup {x} /\ Len(i) \in Nat
  OBVIOUS
<1> HIDE DEF p, x, r
<1>4. r \in Seq(S \cup {x}) /\ Len(r) = Len(i) /\ \A k \in 1..Len(i) : r[k] = IF k = p THEN x ELSE i[k]
  <2>1. r = [k \in 1..Len(i) |-> IF k = p THEN x ELSE i[k]]
    <3>1. DOMAIN i = 1..Len(i)
      BY LenProperties
    <3>2. [i EXCEPT ![p] = x] = [k \in DOMAIN i |-> IF k = p THEN x ELSE i[k]]
      BY Zenon
    <3> QED
      BY <1>2, <3>1, <3>2
  <2>2. \A k \in 1..Len(i) : i[k] \in S \cup {x}
    BY <1>3, ElementOfSeq
  <2>3. r \in [1..Len(i) -> S \cup {x}]
    BY <2>1, <2>2
  <2>4. r \in Seq(S \cup {x}) /\ Len(r) = Len(i)
    BY <1>3, <2>3
  <2> QED
    BY <2>1, <2>4
<1>5. r[1] = i[1]
  BY <1>1, <1>2
<1>6. IsInstruction(r)
  BY DEF r
<1>7. i[1] \in {"JMP", "CJMP", "CALL", "CLOSURE"}
  BY DEF Jumps
<1>8. /\ WidthsOf(r) = (IF i[1] \in {"JMP", "CJMP"} THEN <<4>> ELSE <<4, 4>>)
      /\ Len(r) >= p
  <2>1. CASE i[1] = "CJMP"
    <3>1. WidthsOf(r) = <<4>> /\ Packs(r)
      BY <1>5, <2>1 DEF WidthsOf, Packs, Packing
    <3>2. Len(r) = 2 + Len(<<4>>)
      BY <1>6, <3>1, Lengths
    <3> QED
      BY <1>1, <2>1, <3>1, <3>2
  <2>2. CASE i[1] # "CJMP"
    <3>1. Plain(r)
      BY <1>5, <1>7, <2>2 DEF Plain, Packing
    <3>2. WidthsOf(r) = Widths(i[1]) /\ Len(r) = 1 + Len(WidthsOf(r))
      BY <1>5, <1>6, <3>1, Lengths
    <3>3. Widths(i[1]) = IF i[1] = "JMP" THEN <<4>> ELSE <<4, 4>>
      BY <1>7, <2>2 DEF Widths
    <3>4. Len(<<4>>) = 1 /\ Len(<<4, 4>>) = 2
      OBVIOUS
    <3>5. Len(r) >= 2
      BY <3>2, <3>3, <3>4
    <3> QED
      BY <1>1, <1>7, <2>2, <3>2, <3>3, <3>5
  <2> QED
    BY <2>1, <2>2
<1>9. Len(Encode(r)) = 1 + 4 * Len(WidthsOf(r))
  <2>1. Len(Encode(r)) = 1 + Len(Written(ArgsOf(r), WidthsOf(r)))
    BY ZenonT(30), <1>4, <1>6, EncodedIs
  <2>2. ArgsOf(r) \in Seq(Int) /\ Len(ArgsOf(r)) = Len(WidthsOf(r))
    BY ZenonT(30), <1>4, <1>6, InstructionParts
  <2>3. WidthsOf(r) \in {<<4>>, <<4, 4>>}
    BY <1>8
  <2>4. Len(Written(ArgsOf(r), WidthsOf(r))) = 4 * Len(WidthsOf(r))
    BY ZenonT(30), <2>2, <2>3, WrittenLength
  <2> QED
    BY <2>1, <2>4
<1>10. Size(i) = (IF i[1] \in {"JMP", "CJMP"} THEN 5 ELSE 9)
  BY <1>7 DEF Size
<1>11. Len(Encode(r)) = Size(i)
  <2>1. Len(<<4>>) = 1 /\ Len(<<4, 4>>) = 2
    OBVIOUS
  <2> QED
    BY <1>8, <1>9, <1>10, <2>1
<1>12. p \in 2..Len(i)
  BY <1>1, <1>3, <1>4, <1>8
<1>13. r[p] = x
  BY <1>4, <1>12
<1> QED
  BY <1>11, <1>12, <1>13 DEF r, p, x

LEMMA Resolving ==
  ASSUME NEW S, NEW i \in Seq(S), NEW labels,
         i[1] = "LABEL" \/ IsInstruction(Resolve(i, labels))
  PROVE  /\ Encode(Resolve(i, labels)) \in Seq(Byte)
         /\ Len(Encode(Resolve(i, labels))) = Size(i) /\ Size(i) \in Nat
         /\ \E T : Resolve(i, labels) \in Seq(T)
<1>1. CASE i[1] = "LABEL"
  <2>1. Resolve(i, labels) = i
    BY <1>1 DEF Resolve, Jumps
  <2>2. Encode(i) = <<>>
    BY <1>1 DEF Encode
  <2>3. Size(i) = Len(Encode(i))
    BY <1>1 DEF Size
  <2>4. <<>> \in Seq(Byte) /\ Len(<<>>) = 0
    OBVIOUS
  <2> QED
    BY <2>1, <2>2, <2>3, <2>4
<1>2. CASE i[1] # "LABEL"
  <2> DEFINE r == Resolve(i, labels)
  <2>1. IsInstruction(r)
    BY <1>2
  <2>2. PICK T : r \in Seq(T)
    <3> DEFINE x == labels[i[LabelPlace(i)]]
    <3>1. i \in Seq(S \cup {x}) /\ x \in S \cup {x} /\ DOMAIN i = 1..Len(i) /\ Len(i) \in Nat
      BY LenProperties
    <3>2. \A k \in DOMAIN i : i[k] \in S \cup {x}
      BY <3>1, ElementOfSeq
    <3> HIDE DEF x
    <3>3. CASE i[1] \in Jumps
      <4>1. r = [i EXCEPT ![LabelPlace(i)] = x]
        BY <3>3 DEF Resolve, x
      <4>2. r = [k \in DOMAIN i |-> IF k = LabelPlace(i) THEN x ELSE i[k]]
        BY Zenon, <4>1
      <4>3. r \in [1..Len(i) -> S \cup {x}]
        BY <3>1, <3>2, <4>2
      <4>4. r \in Seq(S \cup {x})
        <5> HIDE DEF r
        <5> QED
          BY <3>1, <4>3
      <4> QED
        BY <4>4
    <3>4. CASE i[1] \notin Jumps
      BY <3>4 DEF Resolve
    <3> QED
      BY <3>3, <3>4
  <2>3. Encode(r) \in Seq(Byte) /\ Len(Encode(r)) \in Nat
    <3>1. Encode(r) \in Seq(Byte)
      BY ZenonT(30), <2>1, <2>2, EncodedIs
    <3> QED
      BY <3>1, LenProperties
  <2>4. Len(Encode(r)) = Size(i)
    <3>1. CASE i[1] \in Jumps
      BY ZenonT(30), <2>1, <3>1, ResolvedJump
    <3>2. CASE i[1] \notin Jumps
      <4>1. r = i
        BY <3>2 DEF Resolve
      <4>2. Size(i) = Len(Encode(i))
        BY <3>2 DEF Size, Jumps
      <4> QED
        BY <4>1, <4>2
    <3> QED
      BY <3>1, <3>2
  <2> QED
    BY <2>2, <2>3, <2>4
<1> QED
  BY <1>1, <1>2

\* A list of instructions whose labels are all there is read again from the code it is
\* written as: every instruction stands at the offset that the first pass has found
\* for it, the decoder finds it there and gets to the offset of the next one, the code
\* ends with the last one, and every jump has got the offset of its label.
\* (add_instructions and encode of bytefile.rs, Decoder::encode, the operands the
\* handlers of interpreter.rs read)
THEOREM CodeReadBack ==
  ASSUME NEW S, NEW instrs \in Seq(Seq(S)), Assembles(instrs),
         \A k \in DOMAIN instrs : instrs[k][1] = "LABEL" \/ IsInstruction(Resolved(instrs)[k])
  PROVE  LET resolved == Resolved(instrs)
             offsets == Offsets(instrs)
             code == CodeSection(resolved)
         IN /\ Len(code) = offsets[Len(instrs) + 1]
            /\ \A k \in DOMAIN instrs :
                 instrs[k][1] # "LABEL" =>
                   Fetch(code, offsets[k]) = [instr |-> resolved[k], next |-> offsets[k + 1]]
            /\ \A k \in DOMAIN instrs :
                 instrs[k][1] = "LABEL" => offsets[k + 1] = offsets[k]
            /\ \A j, k \in DOMAIN instrs :
                 /\ instrs[j][1] \in Jumps /\ instrs[k][1] = "LABEL"
                 /\ instrs[j][LabelPlace(instrs[j])] = instrs[k][2]
                 => resolved[j][LabelPlace(instrs[j])] = offsets[k]
<1> DEFINE n == Len(instrs)
           labels == Labels(instrs)
           resolved == Resolved(instrs)
           offsets == Offsets(instrs)
           code == CodeSection(resolved)
           e == [k \in 1..n |-> Encode(resolved[k])]
           w == [k \in 1..n |-> Size(instrs[k])]
<1>1. n \in Nat /\ DOMAIN instrs = 1..n /\ \A k \in 1..n : instrs[k] \in Seq(S)
  BY LenProperties, ElementOfSeq
<1>2. resolved = [k \in 1..n |-> Resolve(instrs[k], labels)]
  BY <1>1 DEF Resolved
<1>3. code = FlattenSeq(e)
  <2>1. DOMAIN resolved = 1..n
    BY <1>2
  <2> QED
    BY <2>1 DEF CodeSection
<1> HIDE DEF n, labels, resolved, offsets, code
<1>4. ASSUME NEW k \in 1..n
      PROVE  /\ Encode(resolved[k]) \in Seq(Byte)
             /\ Len(Encode(resolved[k])) = Size(instrs[k]) /\ Size(instrs[k]) \in Nat
             /\ \E T : resolved[k] \in Seq(T)
  <2>1. resolved[k] = Resolve(instrs[k], labels)
    BY <1>2
  <2>2. instrs[k] \in Seq(S) /\ (instrs[k][1] = "LABEL" \/ IsInstruction(Resolve(instrs[k], labels)))
    BY <1>1, <2>1 DEF resolved
  <2>3. /\ Encode(Resolve(instrs[k], labels)) \in Seq(Byte)
        /\ Len(Encode(Resolve(instrs[k], labels))) = Size(instrs[k]) /\ Size(instrs[k]) \in Nat
        /\ \E T : Resolve(instrs[k], labels) \in Seq(T)
    BY ZenonT(30), <2>2, Resolving
  <2> QED
    BY ZenonT(30), <2>1, <2>3
<1>5. IsSum(offsets, w, n)
  <2>1. \A k \in 1..Len(instrs) : Size(instrs[k]) \in Nat
    BY <1>4 DEF n
  <2> QED
    BY ZenonT(30), <2>1, OffsetsSum DEF offsets, n
<1>6. e \in [1..n -> Seq(Byte)] /\ Len(e) = n /\ \A k \in 1..n : e[k] = Encode(resolved[k])
  <2>1. e \in [1..n -> Seq(Byte)]
    BY <1>4
  <2>2. \A k \in 1..n : e[k] = Encode(resolved[k])
    OBVIOUS
  <2> HIDE DEF e
  <2>3. Len(e) = n
    BY <1>1, <2>1
  <2> QED
    BY <2>1, <2>2, <2>3
<1>7. \A k \in 1..n : w[k] = Len(e[k]) /\ w[k] = Size(instrs[k])
  BY <1>4
<1> HIDE DEF e, w
<1>8. /\ offsets[1] = 0 /\ \A k \in 1..(n + 1) : offsets[k] \in Nat
      /\ \A k \in 1..n : offsets[k + 1] = offsets[k] + w[k]
  BY <1>1, <1>5 DEF IsSum
<1>9. /\ code \in Seq(Byte) /\ Len(code) = offsets[n + 1]
      /\ \A k \in 1..n : Holds(code, offsets[k], e[k])
  <2>1. n \in Nat /\ e \in [1..n -> Seq(Byte)] /\ \A k \in 1..n : w[k] = Len(e[k])
    BY ZenonT(30), <1>1, <1>6, <1>7
  <2> QED
    BY ZenonT(30), <1>3, <1>5, <2>1, FlattenedParts
<1>10. ASSUME NEW k \in 1..n, instrs[k][1] # "LABEL"
       PROVE  Fetch(code, offsets[k]) = [instr |-> resolved[k], next |-> offsets[k + 1]]
  <2>1. PICK T : resolved[k] \in Seq(T)
    BY <1>4
  <2>2. IsInstruction(resolved[k])
    BY <1>1, <1>10 DEF resolved
  <2>3. Holds(code, offsets[k], Encode(resolved[k])) /\ offsets[k] \in Nat
    <3>1. k \in 1..(n + 1)
      BY <1>1
    <3> QED
      BY <1>6, <1>8, <1>9, <3>1
  <2>4. Fetch(code, offsets[k]) =
          [instr |-> resolved[k], next |-> offsets[k] + Len(Encode(resolved[k]))]
    BY ZenonT(30), <1>9, <2>1, <2>2, <2>3, FetchesEncoded
  <2>5. offsets[k + 1] = offsets[k] + Len(Encode(resolved[k]))
    BY <1>6, <1>7, <1>8
  <2> QED
    BY <2>4, <2>5
<1>11. ASSUME NEW k \in 1..n, instrs[k][1] = "LABEL" PROVE offsets[k + 1] = offsets[k]
  <2>1. Size(instrs[k]) = Len(Encode(instrs[k])) /\ Encode(instrs[k]) = <<>>
    BY <1>11 DEF Size, Encode
  <2>2. w[k] = 0
    BY <1>7, <2>1
  <2>3. offsets[k] \in Nat
    <3>1. k \in 1..(n + 1)
      BY <1>1
    <3> QED
      BY <1>8, <3>1
  <2> QED
    BY <1>8, <2>2, <2>3
<1>12. ASSUME NEW j \in 1..n, NEW k \in 1..n, instrs[j][1] \in Jumps, instrs[k][1] = "LABEL",
              instrs[j][LabelPlace(instrs[j])] = instrs[k][2]
       PROVE  resolved[j][LabelPlace(instrs[j])] = offsets[k]
  <2> DEFINE l == instrs[k][2]
             At == CHOOSE m \in LabelsIn(instrs) : instrs[m][2] = l
  <2>1. k \in LabelsIn(instrs)
    BY <1>1, <1>12 DEF LabelsIn
  <2>2. At = k
    BY ZenonT(30), <2>1 DEF Assembles
  <2>3. labels = [x \in {instrs[m][2] : m \in LabelsIn(instrs)} |->
                    offsets[CHOOSE m \in LabelsIn(instrs) : instrs[m][2] = x]]
    BY ZenonT(30) DEF labels, Labels, offsets
  <2>4. l \in {instrs[m][2] : m \in LabelsIn(instrs)}
    BY ZenonT(30), <2>1
  <2>5. labels[l] = offsets[k]
    BY ZenonT(30), <2>2, <2>3, <2>4
  <2>6. resolved[j] = Resolve(instrs[j], labels)
    BY <1>2
  <2>7. instrs[j] \in Seq(S) /\ instrs[j][1] # "LABEL" /\ IsInstruction(Resolve(instrs[j], labels))
    <3>1. instrs[j][1] # "LABEL"
      BY <1>12 DEF Jumps
    <3>2. IsInstruction(resolved[j])
      BY <1>1, <3>1 DEF resolved
    <3> QED
      BY <1>1, <2>6, <3>1, <3>2
  <2>8. resolved[j][LabelPlace(instrs[j])] = labels[instrs[j][LabelPlace(instrs[j])]]
    BY ZenonT(30), <1>12, <2>6, <2>7, ResolvedJump
  <2> QED
    BY ZenonT(30), <1>12, <2>5, <2>8
<1> QED
  BY ZenonT(30), <1>1, <1>9, <1>10, <1>11, <1>12 DEF n, resolved, offsets, code

\* In the code of a list of instructions whose labels are all there, a jump leads to the
\* first instruction behind its label, however many labels stand there, and the decoder
\* finds that instruction whole; or to the end of the code if there is none.  No jump
\* leads into the middle of an instruction.
THEOREM JumpsFindInstructions ==
  ASSUME NEW S, NEW instrs \in Seq(Seq(S)), Assembles(instrs),
         \A k \in DOMAIN instrs : instrs[k][1] = "LABEL" \/ IsInstruction(Resolved(instrs)[k]),
         NEW k \in DOMAIN instrs, instrs[k][1] \in Jumps
  PROVE  LET resolved == Resolved(instrs)
             code == CodeSection(resolved)
             target == resolved[k][LabelPlace(instrs[k])]
         IN \E j \in LabelsIn(instrs), n \in 1..(Len(instrs) + 1) :
              /\ instrs[j][2] = instrs[k][LabelPlace(instrs[k])]
              /\ j < n /\ \A m \in j..(n - 1) : instrs[m][1] = "LABEL"
              /\ n \in DOMAIN instrs =>
                   instrs[n][1] # "LABEL" /\ Fetch(code, target).instr = resolved[n]
              /\ n \notin DOMAIN instrs => target = Len(code)
<1> DEFINE last == Len(instrs)
           resolved == Resolved(instrs)
           offsets == Offsets(instrs)
           code == CodeSection(resolved)
           target == resolved[k][LabelPlace(instrs[k])]
<1>1. last \in Nat /\ DOMAIN instrs = 1..last
  BY LenProperties
<1>2. /\ Len(code) = offsets[last + 1]
      /\ \A m \in DOMAIN instrs : instrs[m][1] # "LABEL" =>
           Fetch(code, offsets[m]) = [instr |-> resolved[m], next |-> offsets[m + 1]]
      /\ \A m \in DOMAIN instrs : instrs[m][1] = "LABEL" => offsets[m + 1] = offsets[m]
      /\ \A m \in DOMAIN instrs :
           instrs[m][1] = "LABEL" /\ instrs[k][LabelPlace(instrs[k])] = instrs[m][2] => target = offsets[m]
  BY ZenonT(30), CodeReadBack
<1> HIDE DEF last, resolved, offsets, code, target
<1>3. PICK j \in LabelsIn(instrs) : instrs[j][2] = instrs[k][LabelPlace(instrs[k])]
  BY DEF Assembles
<1>4. j \in 1..last /\ instrs[j][1] = "LABEL" /\ target = offsets[j]
  BY <1>1, <1>2, <1>3 DEF LabelsIn
<1> DEFINE N == {m \in (j + 1)..(last + 1) : m = last + 1 \/ instrs[m][1] # "LABEL"}
<1>5. N \subseteq Nat /\ last + 1 \in N
  BY <1>1, <1>4
<1>6. PICK n \in N : \A m \in N : ~(m < n)
  <2> HIDE DEF N
  <2> QED
    BY <1>5, Least
<1>7. n \in 1..(last + 1) /\ j < n /\ (n = last + 1 \/ instrs[n][1] # "LABEL")
  BY <1>1, <1>4, <1>6
<1>8. ASSUME NEW m \in j..(n - 1) PROVE m \in 1..last /\ instrs[m][1] = "LABEL"
  <2>1. m \in 1..last /\ (m = j \/ m \in (j + 1)..(last + 1)) /\ m < n
    BY <1>1, <1>4, <1>7
  <2>2. m \notin N
    <3> HIDE DEF N
    <3> QED
      BY <1>6, <2>1
  <2> QED
    BY <1>4, <2>1, <2>2
<1> HIDE DEF N
<1>9. offsets[n] = target
  <2> DEFINE D == {m \in j..n : offsets[m] # target}
  <2>1. SUFFICES ASSUME n \in D PROVE FALSE
    BY <1>1, <1>4, <1>7
  <2>2. D \subseteq Nat
    BY <1>1, <1>4, <1>7
  <2>3. PICK d \in D : \A m \in D : ~(m < d)
    <3> HIDE DEF D
    <3> QED
      BY <2>1, <2>2, Least
  <2>4. d \in j..n /\ offsets[d] # target
    OBVIOUS
  <2>5. d # j /\ d - 1 \in j..(n - 1) /\ d - 1 \in j..n /\ d - 1 < d /\ (d - 1) + 1 = d
    BY <1>1, <1>4, <1>7, <2>4
  <2>6. d - 1 \notin D
    <3> HIDE DEF D
    <3> QED
      BY <2>3, <2>5
  <2>7. offsets[d - 1] = target
    BY <2>5, <2>6
  <2>8. offsets[d] = offsets[d - 1]
    <3> DEFINE c == d - 1
    <3>1. c \in 1..last /\ instrs[c][1] = "LABEL" /\ c + 1 = d
      BY <1>8, <2>5
    <3> HIDE DEF c
    <3>2. offsets[c + 1] = offsets[c]
      BY <1>1, <1>2, <3>1
    <3> QED
      BY <3>1, <3>2 DEF c
  <2> QED
    BY <2>4, <2>7, <2>8
<1>10. n \in DOMAIN instrs => instrs[n][1] # "LABEL" /\ Fetch(code, target).instr = resolved[n]
  <2> SUFFICES ASSUME n \in DOMAIN instrs
               PROVE  instrs[n][1] # "LABEL" /\ Fetch(code, target).instr = resolved[n]
    OBVIOUS
  <2>1. instrs[n][1] # "LABEL"
    BY <1>1, <1>7
  <2>2. Fetch(code, target) = [instr |-> resolved[n], next |-> offsets[n + 1]]
    BY <1>2, <1>9, <2>1
  <2> QED
    BY <2>1, <2>2
<1>11. n \notin DOMAIN instrs => target = Len(code)
  <2>1. n \notin DOMAIN instrs => n = last + 1
    BY <1>1, <1>7
  <2> QED
    BY <1>2, <1>9, <2>1
<1>12. \E x \in LabelsIn(instrs), y \in 1..(last + 1) :
         /\ instrs[x][2] = instrs[k][LabelPlace(instrs[k])]
         /\ x < y /\ \A m \in x..(y - 1) : instrs[m][1] = "LABEL"
         /\ y \in DOMAIN instrs => instrs[y][1] # "LABEL" /\ Fetch(code, target).instr = resolved[y]
         /\ y \notin DOMAIN instrs => target = Len(code)
  BY <1>3, <1>7, <1>8, <1>10, <1>11
<1> QED
  BY ZenonT(30), <1>12 DEF last, resolved, code, target

-----------------------------------------------------------------------------
(* The bytefile.                                                           *)

\* What stands in a part of a text stands in the text.
LEMMA HeldWithin ==
  ASSUME NEW B, NEW file \in Seq(B), NEW at \in Nat, NEW part \in Seq(B), Holds(file, at, part),
         NEW there \in Nat, NEW bytes \in Seq(B), Holds(part, there, bytes)
  PROVE  Holds(file, at + there, bytes)
<1>1. Len(file) \in Nat /\ Len(part) \in Nat /\ Len(bytes) \in Nat
  BY LenProperties
<1>2. /\ at + Len(part) <= Len(file) /\ \A k \in 1..Len(part) : file[at + k] = part[k]
      /\ there + Len(bytes) <= Len(part) /\ \A k \in 1..Len(bytes) : part[there + k] = bytes[k]
  BY DEF Holds
<1>3. ASSUME NEW k \in 1..Len(bytes) PROVE file[at + there + k] = bytes[k]
  <2>1. there + k \in 1..Len(part) /\ at + (there + k) = at + there + k
    BY <1>1, <1>2
  <2>2. file[at + (there + k)] = part[there + k]
    BY <1>2, <2>1
  <2> QED
    BY <1>2, <2>1, <2>2
<1> QED
  BY <1>1, <1>2, <1>3 DEF Holds

\* Parts of two elements each.
LEMMA PairsHeld ==
  ASSUME NEW B, NEW n \in Nat, NEW e \in [1..n -> Seq(B)], \A k \in 1..n : Len(e[k]) = 2
  PROVE  /\ FlattenSeq(e) \in Seq(B) /\ Len(FlattenSeq(e)) = 2 * n
         /\ \A k \in 1..n : Holds(FlattenSeq(e), 2 * (k - 1), e[k])
<1> DEFINE o == [k \in 1..(n + 1) |-> 2 * (k - 1)]
           w == [k \in 1..n |-> 2]
<1>1. IsSum(o, w, n)
  <2>1. o \in [1..(n + 1) -> Nat] /\ o[1] = 0
    OBVIOUS
  <2>2. \A k \in 1..n : o[k + 1] = o[k] + w[k]
    OBVIOUS
  <2> QED
    BY <2>1, <2>2 DEF IsSum
<1>2. (\A k \in 1..n : w[k] = Len(e[k])) /\ o[n + 1] = 2 * n /\ \A k \in 1..n : o[k] = 2 * (k - 1)
  OBVIOUS
<1> HIDE DEF o, w
<1>3. /\ FlattenSeq(e) \in Seq(B) /\ Len(FlattenSeq(e)) = o[n + 1]
      /\ \A k \in 1..n : Holds(FlattenSeq(e), o[k], e[k])
  BY ZenonT(30), <1>1, <1>2, FlattenedParts
<1> QED
  BY ZenonT(30), <1>2, <1>3

\* The place of the first element that is one of those looked for.
LEMMA FirstFound ==
  ASSUME NEW n \in Nat, NEW I, I \subseteq 1..n, NEW i \in I, \A k \in I : i <= k
  PROVE  (IF I # {} THEN Min(I) ELSE 0) = i
<1>1. Min(I) = i
  <2>1. \A x \in I : (\A y \in I : x <= y) => x = i
    BY SMT
  <2> QED
    BY ZenonT(30), <2>1 DEF Min
<1> QED
  BY ZenonT(30), <1>1

\* A string of the table is found: behind as many strings, each with its terminator, as
\* come before it.
LEMMA StringFound ==
  ASSUME NEW S, NEW strings \in Seq(S), NEW x, \E k \in DOMAIN strings : strings[k] = x
  PROVE  \E k \in 1..Len(strings) : strings[k] = x /\ FindString(strings, x) = 2 * (k - 1)
<1> DEFINE n == Len(strings)
           I == {k \in 1..n : strings[k] = x}
<1>1. n \in Nat /\ DOMAIN strings = 1..n
  BY LenProperties
<1>2. I # {} /\ I \subseteq Nat /\ I \subseteq 1..n
  BY <1>1
<1>3. PICK i \in I : \A k \in I : ~(k < i)
  <2> HIDE DEF I
  <2> QED
    BY <1>2, Least
<1>4. \A k \in I : i <= k
  BY <1>1, <1>3
<1>5. FindString(strings, x) = 2 * ((IF I # {} THEN Min(I) ELSE 0) - 1)
  BY Zenon DEF FindString, SelectInSeq
<1>6. (IF I # {} THEN Min(I) ELSE 0) = i
  <2> HIDE DEF I, n
  <2> QED
    BY ZenonT(30), <1>1, <1>2, <1>3, <1>4, FirstFound
<1>7. i \in 1..n /\ strings[i] = x
  BY <1>3
<1> HIDE DEF I
<1> QED
  BY <1>5, <1>6, <1>7

\* A file as the compiler makes it: every string that is named is in its table.
Known(f, x) == \E k \in DOMAIN f.strings : f.strings[k] = x
IsSchema(f, s, B) ==
  /\ s \in [name : B, tag : B, fields : Seq(B)]
  /\ Known(f, s.name) /\ \A j \in DOMAIN s.fields : Known(f, s.fields[j])
IsFile(f, B) ==
  /\ Int \subseteq B /\ NUL \in B
  /\ f.globals \in B /\ f.strings \in Seq(B) /\ f.code \in Seq(B)
  /\ f.symbols \in Seq(B \X B) /\ \A k \in DOMAIN f.symbols : Known(f, f.symbols[k][1])
  /\ Len(f.schemas) \in Nat /\ f.schemas = [k \in 1..Len(f.schemas) |-> f.schemas[k]]
  /\ \A k \in 1..Len(f.schemas) : IsSchema(f, f.schemas[k], B)

StringTable(f) == FlattenSeq([k \in DOMAIN f.strings |-> <<f.strings[k], NUL>>])
SchemaTable(f) == FlattenSeq([k \in DOMAIN f.schemas |-> Schema(f, f.schemas[k])])

LEMMA PairIs ==
  ASSUME NEW B, NEW x \in B, NEW y \in B
  PROVE  <<x, y>> \in Seq(B) /\ Len(<<x, y>>) = 2 /\ <<x, y>>[1] = x /\ <<x, y>>[2] = y
  OBVIOUS

\* What is written as the place of a string leads to the string.
LEMMA StringsRead ==
  ASSUME NEW f, NEW B, IsFile(f, B)
  PROVE  /\ StringTable(f) \in Seq(B) /\ Len(StringTable(f)) = 2 * Len(f.strings)
         /\ \A x : Known(f, x) =>
              /\ FindString(f.strings, x) \in Int
              /\ StringTable(f)[FindString(f.strings, x) + 1] = x
<1> DEFINE n == Len(f.strings)
           e == [k \in 1..n |-> <<f.strings[k], NUL>>]
           t == StringTable(f)
<1>1. f.strings \in Seq(B) /\ NUL \in B
  BY DEF IsFile
<1>2. n \in Nat /\ DOMAIN f.strings = 1..n /\ \A k \in 1..n : f.strings[k] \in B
  BY <1>1, LenProperties, ElementOfSeq
<1>3. t = FlattenSeq(e)
  BY <1>2 DEF StringTable
<1> HIDE DEF n, t
<1>4. \A k \in 1..n : /\ <<f.strings[k], NUL>> \in Seq(B) /\ Len(<<f.strings[k], NUL>>) = 2
                      /\ <<f.strings[k], NUL>>[1] = f.strings[k]
  BY ZenonT(30), <1>1, <1>2, PairIs
<1>5. e \in [1..n -> Seq(B)] /\ \A k \in 1..n : Len(e[k]) = 2 /\ e[k][1] = f.strings[k]
  <2>1. e \in [1..n -> Seq(B)]
    BY ZenonT(30), <1>4
  <2>2. \A k \in 1..n : e[k] = <<f.strings[k], NUL>>
    BY ZenonT(30)
  <2> HIDE DEF e
  <2> QED
    BY ZenonT(30), <1>4, <2>1, <2>2
<1> HIDE DEF e
<1>6. /\ t \in Seq(B) /\ Len(t) = 2 * n
      /\ \A k \in 1..n : Holds(t, 2 * (k - 1), e[k])
  BY ZenonT(30), <1>2, <1>3, <1>5, PairsHeld
<1>7. ASSUME NEW x, Known(f, x)
      PROVE  FindString(f.strings, x) \in Int /\ t[FindString(f.strings, x) + 1] = x
  <2>1. PICK k \in 1..n : f.strings[k] = x /\ FindString(f.strings, x) = 2 * (k - 1)
    <3>1. \E k \in DOMAIN f.strings : f.strings[k] = x
      BY <1>7 DEF Known
    <3> QED
      BY ZenonT(30), <1>1, <3>1, StringFound DEF n
  <2>2. Holds(t, 2 * (k - 1), e[k]) /\ Len(e[k]) = 2 /\ e[k][1] = x
    BY <1>5, <1>6, <2>1
  <2>3. t[2 * (k - 1) + 1] = x
    <3>1. 1 \in 1..Len(e[k])
      BY <2>2
    <3> QED
      BY <2>2, <3>1 DEF Holds
  <2>4. 2 * (k - 1) \in Int
    BY <1>2
  <2> QED
    BY <2>1, <2>3, <2>4
<1> QED
  BY ZenonT(30), <1>6, <1>7 DEF t, n

LEMMA SymbolsHeld ==
  ASSUME NEW f, NEW B, IsFile(f, B)
  PROVE  /\ Symbols(f) \in Seq(B) /\ Len(Symbols(f)) = 2 * Len(f.symbols)
         /\ \A k \in 1..Len(f.symbols) :
              /\ Symbols(f)[2 * k - 1] = FindString(f.strings, f.symbols[k][1])
              /\ Symbols(f)[2 * k] = f.symbols[k][2]
<1> DEFINE n == Len(f.symbols)
           Pair(k) == <<FindString(f.strings, f.symbols[k][1]), f.symbols[k][2]>>
           e == [k \in 1..n |-> Pair(k)]
           t == Symbols(f)
<1>1. f.symbols \in Seq(B \X B) /\ Int \subseteq B /\ \A k \in DOMAIN f.symbols : Known(f, f.symbols[k][1])
  BY DEF IsFile
<1>2. n \in Nat /\ DOMAIN f.symbols = 1..n /\ \A k \in 1..n : f.symbols[k] \in B \X B
  BY <1>1, LenProperties, ElementOfSeq
<1>3. t = FlattenSeq(e)
  BY <1>2 DEF Symbols
<1> HIDE DEF n, t
<1>4. ASSUME NEW k \in 1..n
      PROVE  /\ Pair(k) \in Seq(B) /\ Len(Pair(k)) = 2
             /\ Pair(k)[1] = FindString(f.strings, f.symbols[k][1])
             /\ Pair(k)[2] = f.symbols[k][2]
  <2>1. FindString(f.strings, f.symbols[k][1]) \in Int
    BY ZenonT(30), <1>1, <1>2, StringsRead
  <2>2. FindString(f.strings, f.symbols[k][1]) \in B
    BY <1>1, <2>1
  <2>3. f.symbols[k][2] \in B
    BY <1>2
  <2> QED
    BY ZenonT(30), <2>2, <2>3, PairIs
<1> HIDE DEF Pair
<1>5. e \in [1..n -> Seq(B)] /\ \A k \in 1..n : Len(e[k]) = 2 /\ e[k] = Pair(k)
  <2>1. e \in [1..n -> Seq(B)]
    BY ZenonT(30), <1>4
  <2>2. \A k \in 1..n : e[k] = Pair(k)
    BY ZenonT(30)
  <2> HIDE DEF e
  <2> QED
    BY ZenonT(30), <1>4, <2>1, <2>2
<1> HIDE DEF e
<1>6. /\ t \in Seq(B) /\ Len(t) = 2 * n
      /\ \A k \in 1..n : Holds(t, 2 * (k - 1), e[k])
  BY ZenonT(30), <1>2, <1>3, <1>5, PairsHeld
<1>7. ASSUME NEW k \in 1..n
      PROVE  /\ t[2 * k - 1] = FindString(f.strings, f.symbols[k][1])
             /\ t[2 * k] = f.symbols[k][2]
  <2>1. Holds(t, 2 * (k - 1), e[k]) /\ Len(e[k]) = 2
    BY <1>5, <1>6
  <2>2. t[2 * (k - 1) + 1] = e[k][1] /\ t[2 * (k - 1) + 2] = e[k][2]
    <3>1. 1 \in 1..Len(e[k]) /\ 2 \in 1..Len(e[k])
      BY <2>1
    <3> QED
      BY <2>1, <3>1 DEF Holds
  <2>3. 2 * (k - 1) + 1 = 2 * k - 1 /\ 2 * (k - 1) + 2 = 2 * k
    BY <1>2
  <2>4. e[k][1] = FindString(f.strings, f.symbols[k][1]) /\ e[k][2] = f.symbols[k][2]
    BY <1>4, <1>5
  <2> QED
    BY ZenonT(30), <2>2, <2>3, <2>4
<1> QED
  BY ZenonT(30), <1>6, <1>7 DEF t, n

\* The elements that a schema is written as.
LEMMA SchemaIs ==
  ASSUME NEW f, NEW B, IsFile(f, B), NEW s, IsSchema(f, s, B)
  PROVE  /\ Schema(f, s) \in Seq(B) /\ Len(Schema(f, s)) = 3 + Len(s.fields)
         /\ Len(s.fields) \in Nat
         /\ Schema(f, s)[1] = FindString(f.strings, s.name) /\ Schema(f, s)[2] = s.tag
         /\ Schema(f, s)[3] = Len(s.fields)
         /\ \A j \in 1..Len(s.fields) :
              Schema(f, s)[3 + j] = FindString(f.strings, s.fields[j])
<1> DEFINE n == Len(s.fields)
           l == <<FindString(f.strings, s.name), s.tag, n>>
           r == [k \in 1..n |-> FindString(f.strings, s.fields[k])]
<1>1. s.name \in B /\ s.tag \in B /\ s.fields \in Seq(B) /\ Int \subseteq B
  BY DEF IsFile, IsSchema
<1>2. n \in Nat /\ DOMAIN s.fields = 1..n
  BY <1>1, LenProperties
<1>3. Schema(f, s) = l \o r
  BY <1>2 DEF Schema
<1>4. FindString(f.strings, s.name) \in B
  <2>1. FindString(f.strings, s.name) \in Int
    BY ZenonT(30), StringsRead DEF IsSchema
  <2> QED
    BY <1>1, <2>1
<1>5. \A k \in 1..n : FindString(f.strings, s.fields[k]) \in B
  <2>1. ASSUME NEW k \in 1..n PROVE FindString(f.strings, s.fields[k]) \in Int
    <3>1. Known(f, s.fields[k])
      BY <1>2 DEF IsSchema
    <3> QED
      BY ZenonT(30), <3>1, StringsRead
  <2> QED
    BY <1>1, <2>1
<1> HIDE DEF n
<1>6. /\ l \in Seq(B) /\ Len(l) = 3 /\ l[1] = FindString(f.strings, s.name)
      /\ l[2] = s.tag /\ l[3] = n
  <2>1. n \in B
    BY <1>1, <1>2
  <2> QED
    BY <1>1, <1>4, <2>1
<1>7. r \in Seq(B) /\ Len(r) = n /\ \A k \in 1..n : r[k] = FindString(f.strings, s.fields[k])
  <2>1. r \in [1..n -> B] /\ \A k \in 1..n : r[k] = FindString(f.strings, s.fields[k])
    BY ZenonT(30), <1>5
  <2> HIDE DEF r
  <2> QED
    BY <1>2, <2>1
<1> HIDE DEF l, r
<1>8. /\ l \o r \in Seq(B) /\ Len(l \o r) = Len(l) + Len(r)
      /\ \A k \in 1..(Len(l) + Len(r)) : (l \o r)[k] = IF k <= Len(l) THEN l[k] ELSE r[k - Len(l)]
  BY ZenonT(30), <1>6, <1>7, ConcatProperties
<1>9. /\ (l \o r)[1] = l[1] /\ (l \o r)[2] = l[2] /\ (l \o r)[3] = l[3]
      /\ \A j \in 1..n : (l \o r)[3 + j] = r[j]
  <2>1. Len(l) = 3 /\ Len(r) = n /\ n \in Nat
    BY <1>2, <1>6, <1>7
  <2>2. ASSUME NEW j \in 1..n PROVE (l \o r)[3 + j] = r[j]
    <3>1. 3 + j \in 1..(Len(l) + Len(r)) /\ ~(3 + j <= Len(l)) /\ (3 + j) - Len(l) = j
      BY <2>1
    <3> QED
      BY <1>8, <3>1
  <2>3. \A k \in {1, 2, 3} : (l \o r)[k] = l[k]
    <3>1. \A k \in {1, 2, 3} : k \in 1..(Len(l) + Len(r)) /\ k <= Len(l)
      BY <2>1
    <3> QED
      BY <1>8, <3>1
  <2> QED
    BY <2>2, <2>3
<1> QED
  BY <1>2, <1>3, <1>6, <1>7, <1>8, <1>9 DEF n

\* A schema is read from where it was written, and what follows it comes next.
LEMMA SchemaRead ==
  ASSUME NEW f, NEW B, IsFile(f, B), NEW s, IsSchema(f, s, B),
         NEW file \in Seq(B), NEW at \in Nat, Holds(file, at, Schema(f, s)), NEW before
  PROVE  ReadSchema(file, StringTable(f), [at |-> at, schemas |-> before]) =
           [at |-> at + Len(Schema(f, s)), schemas |-> Append(before, s)]
<1> DEFINE n == Len(s.fields)
           t == StringTable(f)
           written == Schema(f, s)
<1>1. /\ Len(written) = 3 + n /\ n \in Nat
      /\ written[1] = FindString(f.strings, s.name) /\ written[2] = s.tag /\ written[3] = n
      /\ \A j \in 1..n : written[3 + j] = FindString(f.strings, s.fields[j])
  <2> HIDE DEF t
  <2> QED
    BY SMTT(30), SchemaIs
<1>2. \A x : Known(f, x) => t[FindString(f.strings, x) + 1] = x
  BY ZenonT(30), StringsRead
<1>3. /\ s.fields \in Seq(B) /\ Known(f, s.name) /\ \A j \in 1..n : Known(f, s.fields[j])
      /\ s = [name |-> s.name, tag |-> s.tag, fields |-> s.fields]
  <2>1. s.fields \in Seq(B) /\ s \in [name : B, tag : B, fields : Seq(B)]
    BY DEF IsSchema
  <2>2. DOMAIN s.fields = 1..n
    BY <2>1, LenProperties
  <2> QED
    BY <2>1, <2>2 DEF IsSchema
<1> HIDE DEF n, t, written
<1>4. \A k \in 1..Len(written) : file[at + k] = written[k]
  BY DEF Holds, written
<1>5. /\ file[at + 1] = FindString(f.strings, s.name) /\ file[at + 2] = s.tag /\ file[at + 3] = n
  BY <1>1, <1>4
<1>6. ASSUME NEW j \in 1..n PROVE t[file[at + 3 + j] + 1] = s.fields[j]
  <2>1. 3 + j \in 1..Len(written) /\ at + (3 + j) = at + 3 + j
    BY <1>1
  <2>2. file[at + (3 + j)] = written[3 + j]
    BY <1>4, <2>1
  <2>3. file[at + 3 + j] = FindString(f.strings, s.fields[j])
    BY <1>1, <2>1, <2>2
  <2> QED
    BY ZenonT(30), <1>2, <1>3, <2>3
<1>7. [j \in 1..n |-> t[file[at + 3 + j] + 1]] = s.fields
  <2>1. s.fields = [j \in 1..n |-> s.fields[j]]
    BY <1>3 DEF n
  <2>2. [j \in 1..n |-> t[file[at + 3 + j] + 1]] = [j \in 1..n |-> s.fields[j]]
    BY ZenonT(30), <1>6
  <2> QED
    BY ZenonT(30), <2>1, <2>2
<1>8. t[file[at + 1] + 1] = s.name
  BY ZenonT(30), <1>2, <1>3, <1>5
<1>9. at + 3 + n = at + Len(written)
  BY <1>1
<1> DEFINE r == [at |-> at, schemas |-> before]
<1>10. r.at = at /\ r.schemas = before
  OBVIOUS
<1>11. ReadSchema(file, t, r) =
         [at |-> r.at + 3 + file[r.at + 3],
          schemas |-> Append(r.schemas, [name |-> t[file[r.at + 1] + 1], tag |-> file[r.at + 2],
                                         fields |-> [j \in 1..file[r.at + 3] |->
                                                       t[file[r.at + 3 + j] + 1]]])]
  BY Zenon DEF ReadSchema
<1> HIDE DEF r
<1>12. ReadSchema(file, t, r) =
         [at |-> at + 3 + n,
          schemas |-> Append(before, [name |-> s.name, tag |-> s.tag, fields |-> s.fields])]
  BY ZenonT(30), <1>5, <1>7, <1>8, <1>10, <1>11
<1> QED
  BY ZenonT(30), <1>3, <1>9, <1>12 DEF r, t, written

\* The schemas stand one behind the other.
LEMMA SchemasHeld ==
  ASSUME NEW f, NEW B, IsFile(f, B)
  PROVE  /\ SchemaTable(f) \in Seq(B)
         /\ \E o : /\ o[1] = 0 /\ Len(SchemaTable(f)) = o[Len(f.schemas) + 1]
                   /\ \A k \in 1..(Len(f.schemas) + 1) : o[k] \in Nat
                   /\ \A k \in 1..Len(f.schemas) :
                        /\ Schema(f, f.schemas[k]) \in Seq(B)
                        /\ Holds(SchemaTable(f), o[k], Schema(f, f.schemas[k]))
                        /\ o[k + 1] = o[k] + Len(Schema(f, f.schemas[k]))
<1> DEFINE n == Len(f.schemas)
           e == [k \in 1..n |-> Schema(f, f.schemas[k])]
           w == [k \in 1..n |-> Len(Schema(f, f.schemas[k]))]
           all == SchemaTable(f)
<1>1. n \in Nat /\ DOMAIN f.schemas = 1..n /\ \A k \in 1..n : IsSchema(f, f.schemas[k], B)
  <2>1. f.schemas = [k \in 1..n |-> f.schemas[k]]
    BY DEF IsFile
  <2> QED
    BY <2>1 DEF IsFile
<1>2. all = FlattenSeq(e)
  BY <1>1 DEF SchemaTable
<1> HIDE DEF n, all
<1>3. \A k \in 1..n : /\ Schema(f, f.schemas[k]) \in Seq(B)
                      /\ Len(Schema(f, f.schemas[k])) \in Nat
  <2>1. \A k \in 1..n : Schema(f, f.schemas[k]) \in Seq(B)
    BY ZenonT(30), <1>1, SchemaIs
  <2> QED
    BY ZenonT(30), <2>1, LenProperties
<1>4. /\ e \in [1..n -> Seq(B)] /\ w \in [1..n -> Nat]
      /\ \A k \in 1..n : e[k] = Schema(f, f.schemas[k]) /\ w[k] = Len(e[k])
  BY ZenonT(30), <1>3
<1> HIDE DEF e, w
<1>5. PICK o : IsSum(o, w, n)
  BY ZenonT(30), <1>1, <1>4, SumExists
<1>6. all \in Seq(B) /\ Len(all) = o[n + 1] /\ \A k \in 1..n : Holds(all, o[k], e[k])
  <2>1. n \in Nat /\ e \in [1..n -> Seq(B)] /\ \A k \in 1..n : w[k] = Len(e[k])
    BY ZenonT(30), <1>1, <1>4
  <2> QED
    BY ZenonT(30), <1>2, <1>5, <2>1, FlattenedParts
<1>7. /\ o[1] = 0 /\ \A k \in 1..(n + 1) : o[k] \in Nat
      /\ \A k \in 1..n : o[k + 1] = o[k] + w[k]
  BY <1>1, <1>5 DEF IsSum
<1>8. \A k \in 1..n : /\ Schema(f, f.schemas[k]) \in Seq(B)
                      /\ Holds(all, o[k], Schema(f, f.schemas[k]))
                      /\ o[k + 1] = o[k] + Len(Schema(f, f.schemas[k]))
  BY ZenonT(30), <1>3, <1>4, <1>6, <1>7
<1> QED
  BY ZenonT(30), <1>6, <1>7, <1>8 DEF all, n

\* All schemas are read, and what follows the last of them comes next.
LEMMA SchemasRead ==
  ASSUME NEW f, NEW B, IsFile(f, B), NEW file \in Seq(B), NEW start \in Nat,
         file[5] = Len(f.schemas), Holds(file, start, SchemaTable(f))
  PROVE  ReadSchemas(file, StringTable(f), start) =
           [at |-> start + Len(SchemaTable(f)), schemas |-> f.schemas]
<1> DEFINE n == Len(f.schemas)
           t == StringTable(f)
           all == SchemaTable(f)
<1>1. /\ n \in Nat /\ f.schemas = [k \in 1..n |-> f.schemas[k]]
      /\ \A k \in 1..n : IsSchema(f, f.schemas[k], B)
  BY DEF IsFile
<1>2. all \in Seq(B)
  BY ZenonT(30), SchemasHeld
<1>3. PICK o : /\ o[1] = 0 /\ Len(all) = o[n + 1] /\ \A k \in 1..(n + 1) : o[k] \in Nat
               /\ \A k \in 1..n : /\ Schema(f, f.schemas[k]) \in Seq(B)
                                  /\ Holds(all, o[k], Schema(f, f.schemas[k]))
                                  /\ o[k + 1] = o[k] + Len(Schema(f, f.schemas[k]))
  BY SchemasHeld
<1> HIDE DEF n, all, t
<1> DEFINE Before(k) == [j \in 1..k |-> f.schemas[j]]
           There(k) == [at |-> start + o[k + 1], schemas |-> Before(k)]
           F(g) == [k \in 0..n |-> IF k = 0 THEN [at |-> start, schemas |-> <<>>]
                                   ELSE ReadSchema(file, t, g[k - 1])]
           there == [k \in 0..n |-> There(k)]
           read == CHOOSE g : g = F(g)
<1>4. There(0) = [at |-> start, schemas |-> <<>>]
  <2>1. start + o[0 + 1] = start
    BY <1>3
  <2>2. Before(0) = <<>>
    OBVIOUS
  <2> QED
    BY ZenonT(30), <2>1, <2>2
<1>5. ASSUME NEW k \in 1..n PROVE There(k) = ReadSchema(file, t, There(k - 1))
  <2>1. o[k] \in Nat /\ start + o[k] \in Nat /\ k - 1 \in Nat /\ (k - 1) + 1 = k
    <3>1. k \in 1..(n + 1)
      BY <1>1
    <3>2. o[k] \in Nat
      BY ZenonT(30), <1>3, <3>1
    <3> QED
      BY <1>1, <3>2
  <2> DEFINE s == f.schemas[k]
             written == Schema(f, s)
  <2>2. IsSchema(f, s, B) /\ Holds(file, start + o[k], written) /\ Len(written) \in Nat
    <3>1. Holds(file, start, all) /\ Holds(all, o[k], written) /\ written \in Seq(B)
      BY <1>3 DEF all
    <3>2. Holds(file, start + o[k], written)
      BY ZenonT(30), <1>2, <2>1, <3>1, HeldWithin
    <3>3. Len(written) \in Nat
      BY ZenonT(30), <3>1, LenProperties
    <3> QED
      BY <1>1, <3>2, <3>3
  <2>3. ReadSchema(file, t, [at |-> start + o[k], schemas |-> Before(k - 1)]) =
          [at |-> (start + o[k]) + Len(written), schemas |-> Append(Before(k - 1), s)]
    <3> DEFINE at == start + o[k]
               before == Before(k - 1)
    <3>1. IsSchema(f, s, B) /\ Holds(file, at, Schema(f, s)) /\ at \in Nat
      BY ZenonT(30), <2>1, <2>2
    <3> HIDE DEF at, s, before
    <3>2. ReadSchema(file, StringTable(f), [at |-> at, schemas |-> before]) =
            [at |-> at + Len(Schema(f, s)), schemas |-> Append(before, s)]
      BY SMTT(30), <3>1, SchemaRead
    <3> QED
      BY ZenonT(30), <3>2 DEF t, at, before
  <2>4. Append(Before(k - 1), s) = Before(k)
    <3> DEFINE S == {f.schemas[j] : j \in 1..n}
    <3>1. k - 1 \in Nat /\ k \in Nat /\ f.schemas[k] \in S
      BY <2>1
    <3>2. \A j \in 1..k : f.schemas[j] \in S /\ (j # k => j \in 1..(k - 1))
      BY <1>1, <3>1
    <3> HIDE DEF S
    <3>3. /\ Before(k - 1) \in Seq(S) /\ Len(Before(k - 1)) = k - 1
          /\ \A j \in 1..(k - 1) : Before(k - 1)[j] = f.schemas[j]
      <4>1. \A j \in 1..(k - 1) : j \in 1..k
        BY <3>1
      <4>2. /\ Before(k - 1) \in [1..(k - 1) -> S]
            /\ \A j \in 1..(k - 1) : Before(k - 1)[j] = f.schemas[j]
        BY ZenonT(30), <3>2, <4>1
      <4> HIDE DEF Before
      <4> QED
        BY <3>1, <4>2
    <3>4. /\ Before(k) \in Seq(S) /\ Len(Before(k)) = k
          /\ \A j \in 1..k : Before(k)[j] = f.schemas[j]
      <4>1. /\ Before(k) \in [1..k -> S] /\ \A j \in 1..k : Before(k)[j] = f.schemas[j]
        BY ZenonT(30), <3>2
      <4> HIDE DEF Before
      <4> QED
        BY <3>1, <4>1
    <3> HIDE DEF Before
    <3> DEFINE more == Append(Before(k - 1), f.schemas[k])
    <3>5. /\ more \in Seq(S) /\ Len(more) = Len(Before(k - 1)) + 1
          /\ \A j \in 1..Len(Before(k - 1)) : more[j] = Before(k - 1)[j]
          /\ more[Len(Before(k - 1)) + 1] = f.schemas[k]
      BY <3>1, <3>3, AppendProperties
    <3> HIDE DEF more
    <3>6. Len(more) = k /\ \A j \in 1..k : more[j] = f.schemas[j]
      <4>1. Len(more) = k /\ more[k] = f.schemas[k]
        BY <3>1, <3>3, <3>5
      <4>2. ASSUME NEW j \in 1..k, j # k PROVE more[j] = f.schemas[j]
        <5>1. j \in 1..(k - 1)
          BY <3>2, <4>2
        <5>2. more[j] = Before(k - 1)[j]
          BY ZenonT(30), <3>3, <3>5, <5>1
        <5> QED
          BY ZenonT(30), <3>3, <5>1, <5>2
      <4> QED
        BY ZenonT(30), <4>1, <4>2
    <3>7. more = Before(k)
      <4>1. more \in Seq(S) /\ Before(k) \in Seq(S) /\ Len(more) = Len(Before(k))
        BY <3>4, <3>5, <3>6
      <4>2. \A j \in 1..Len(more) : more[j] = Before(k)[j]
        BY <3>4, <3>6
      <4> QED
        BY ZenonT(30), <4>1, <4>2, SeqEqual
    <3> QED
      BY <3>7 DEF more
  <2>5. (start + o[k]) + Len(written) = start + o[k + 1]
    BY <1>3, <2>1, <2>2
  <2> HIDE DEF Before, s
  <2> QED
    BY ZenonT(30), <2>1, <2>3, <2>4, <2>5
<1> HIDE DEF There
<1>6. there = F(there)
  <2>1. ASSUME NEW k \in 0..n
        PROVE  there[k] = IF k = 0 THEN [at |-> start, schemas |-> <<>>]
                          ELSE ReadSchema(file, t, there[k - 1])
    <3>1. there[k] = There(k)
      OBVIOUS
    <3>2. k # 0 => k \in 1..n /\ there[k - 1] = There(k - 1)
      <4>1. k # 0 => k \in 1..n /\ k - 1 \in 0..n
        BY <1>1
      <4> QED
        BY <4>1
    <3> HIDE DEF there
    <3> QED
      BY ZenonT(30), <1>4, <1>5, <3>1, <3>2
  <2>2. there = [k \in 0..n |-> there[k]]
    OBVIOUS
  <2> HIDE DEF there
  <2> QED
    BY ZenonT(30), <2>1, <2>2
<1>7. read = F(read)
  <2> HIDE DEF F, there
  <2> QED
    BY <1>6
<1>8. ReadSchemas(file, t, start) = read[n]
  BY DEF ReadSchemas, n
<1> HIDE DEF read
<1>9. \A k \in 0..n : read[k] = IF k = 0 THEN [at |-> start, schemas |-> <<>>]
                                ELSE ReadSchema(file, t, read[k - 1])
  <2>1. \A k \in 0..n : F(read)[k] = IF k = 0 THEN [at |-> start, schemas |-> <<>>]
                                     ELSE ReadSchema(file, t, read[k - 1])
    OBVIOUS
  <2> HIDE DEF F
  <2> QED
    BY ZenonT(30), <1>7, <2>1
<1> DEFINE N == {k \in 0..n : read[k] # There(k)}
<1>10. N = {}
  <2> SUFFICES ASSUME N # {} PROVE FALSE
    OBVIOUS
  <2>1. N \subseteq Nat
    BY <1>1
  <2>2. PICK m \in N : \A k \in N : ~(k < m)
    <3> HIDE DEF N
    <3> QED
      BY <2>1, Least
  <2>3. m \in 0..n /\ read[m] # There(m)
    BY <2>2
  <2>4. m # 0
    BY ZenonT(30), <1>4, <1>9, <2>3
  <2>5. m - 1 \in 0..n /\ m - 1 < m /\ m \in 1..n
    BY <1>1, <2>3, <2>4
  <2>6. read[m - 1] = There(m - 1)
    BY <2>2, <2>5
  <2> QED
    BY ZenonT(30), <1>5, <1>9, <2>3, <2>4, <2>5, <2>6
<1>11. read[n] = There(n)
  <2>1. n \in 0..n
    BY <1>1
  <2> QED
    BY ZenonT(30), <1>10, <2>1
<1>12. There(n) = [at |-> start + Len(all), schemas |-> f.schemas]
  BY ZenonT(30), <1>1, <1>3 DEF There
<1> QED
  BY ZenonT(30), <1>8, <1>11, <1>12 DEF all, t

\* Where the five sections of a file stand.
LEMMA FiveParts ==
  ASSUME NEW B, NEW a \in Seq(B), NEW b \in Seq(B), NEW c \in Seq(B), NEW d \in Seq(B),
         NEW e \in Seq(B)
  PROVE  LET all == a \o b \o c \o d \o e
         IN /\ all \in Seq(B)
            /\ Len(all) = Len(a) + Len(b) + Len(c) + Len(d) + Len(e)
            /\ Holds(all, 0, a) /\ Holds(all, Len(a), b)
            /\ Holds(all, Len(a) + Len(b), c)
            /\ Holds(all, Len(a) + Len(b) + Len(c), d)
            /\ Holds(all, Len(a) + Len(b) + Len(c) + Len(d), e)
<1> DEFINE ab == a \o b
           abc == ab \o c
           abcd == abc \o d
           all == abcd \o e
<1>1. /\ Len(a) \in Nat /\ Len(b) \in Nat /\ Len(c) \in Nat /\ Len(d) \in Nat /\ Len(e) \in Nat
  BY LenProperties
<1>2. ab \in Seq(B) /\ Len(ab) = Len(a) + Len(b)
  BY ZenonT(30), ConcatProperties
<1>3. Holds(ab, 0, a) /\ Holds(ab, Len(a), b)
  <2>1. Holds(a, 0, a)
    BY <1>1 DEF Holds
  <2>2. Holds(ab, Len(a), b)
    BY ZenonT(30), HoldsLast
  <2>3. 0 \in Nat
    OBVIOUS
  <2>4. Holds(ab, 0, a)
    BY ZenonT(30), <2>1, <2>3, HoldsLonger
  <2> QED
    BY <2>2, <2>4
<1> HIDE DEF ab
<1>4. abc \in Seq(B) /\ Len(abc) = Len(ab) + Len(c)
  BY ZenonT(30), <1>2, ConcatProperties
<1>5. Holds(abc, 0, a) /\ Holds(abc, Len(a), b) /\ Holds(abc, Len(ab), c)
  <2>1. 0 \in Nat
    OBVIOUS
  <2> QED
    BY ZenonT(30), <1>1, <1>2, <1>3, <2>1, HoldsLonger, HoldsLast
<1> HIDE DEF abc
<1>6. abcd \in Seq(B) /\ Len(abcd) = Len(abc) + Len(d)
  BY ZenonT(30), <1>4, ConcatProperties
<1>7. Len(ab) \in Nat /\ Len(abc) \in Nat /\ Len(abcd) \in Nat /\ 0 \in Nat
  BY <1>1, <1>2, <1>4, <1>6
<1>8. Holds(abcd, 0, a) /\ Holds(abcd, Len(a), b) /\ Holds(abcd, Len(ab), c)
  BY ZenonT(30), <1>1, <1>4, <1>5, <1>7, HoldsLonger
<1>9. Holds(abcd, Len(abc), d)
  BY ZenonT(30), <1>4, HoldsLast
<1> HIDE DEF abcd
<1>10. all \in Seq(B) /\ Len(all) = Len(abcd) + Len(e)
  BY ZenonT(30), <1>6, ConcatProperties
<1>11. Holds(all, 0, a) /\ Holds(all, Len(a), b) /\ Holds(all, Len(ab), c)
  BY ZenonT(30), <1>1, <1>6, <1>7, <1>8, HoldsLonger
<1>12. Holds(all, Len(abc), d) /\ Holds(all, Len(abcd), e)
  BY ZenonT(30), <1>6, <1>7, <1>9, HoldsLonger, HoldsLast
<1>13. all = a \o b \o c \o d \o e
  BY DEF ab, abc, abcd
<1> HIDE DEF all
<1>14. /\ Len(abc) = Len(a) + Len(b) + Len(c)
       /\ Len(abcd) = Len(a) + Len(b) + Len(c) + Len(d)
       /\ Len(all) = Len(a) + Len(b) + Len(c) + Len(d) + Len(e)
  BY <1>2, <1>4, <1>6, <1>10
<1> QED
  BY ZenonT(30), <1>2, <1>10, <1>11, <1>12, <1>13, <1>14

LEMMA HeaderIs ==
  ASSUME NEW f, NEW B, IsFile(f, B)
  PROVE  /\ Header(f) \in Seq(B) /\ Len(Header(f)) = 5
         /\ Header(f)[1] = 2 * Len(f.strings) /\ Header(f)[2] = f.globals
         /\ Header(f)[3] = Len(f.symbols) /\ Header(f)[5] = Len(f.schemas)
         /\ Len(f.strings) \in Nat /\ Len(f.symbols) \in Nat /\ Len(f.schemas) \in Nat
<1>1. Len(f.strings) \in Nat /\ Len(f.symbols) \in Nat /\ Len(f.schemas) \in Nat
  <2>1. f.strings \in Seq(B) /\ f.symbols \in Seq(B \X B) /\ Len(f.schemas) \in Nat
    BY DEF IsFile
  <2> QED
    BY <2>1, LenProperties
<1>2. Int \subseteq B /\ f.globals \in B
  BY DEF IsFile
<1> DEFINE strings == 2 * Len(f.strings)
           symbols == Len(f.symbols)
           schemas == Len(f.schemas)
<1>3. strings \in B /\ symbols \in B /\ schemas \in B /\ VARIANT_SCHEMA_MARKER \in B
  <2>1. /\ strings \in Int /\ symbols \in Int /\ schemas \in Int
        /\ VARIANT_SCHEMA_MARKER \in Int
    BY <1>1 DEF VARIANT_SCHEMA_MARKER
  <2> QED
    BY <1>2, <2>1
<1>4. Header(f) = <<strings, f.globals, symbols, VARIANT_SCHEMA_MARKER, schemas>>
  BY DEF Header
<1> HIDE DEF strings, symbols, schemas
<1>5. /\ Header(f) \in Seq(B) /\ Len(Header(f)) = 5
      /\ Header(f)[1] = strings /\ Header(f)[2] = f.globals
      /\ Header(f)[3] = symbols /\ Header(f)[5] = schemas
  BY <1>2, <1>3, <1>4
<1> QED
  BY <1>1, <1>5 DEF strings, symbols, schemas

\* What the parser finds in a file, section by section.
LEMMA FileParts ==
  ASSUME NEW f, NEW B, IsFile(f, B)
  PROVE  LET file == EncodeFile(f)
             start == 5 + 2 * Len(f.symbols) + 2 * Len(f.strings)
         IN /\ file \in Seq(B) /\ start \in Nat
            /\ file[1] = 2 * Len(f.strings) /\ file[2] = f.globals
            /\ file[3] = Len(f.symbols) /\ file[5] = Len(f.schemas)
            /\ Holds(file, 5, Symbols(f))
            /\ Holds(file, 5 + 2 * Len(f.symbols), StringTable(f))
            /\ Holds(file, start, SchemaTable(f))
            /\ Holds(file, start + Len(SchemaTable(f)), f.code)
            /\ Len(file) = start + Len(SchemaTable(f)) + Len(f.code)
<1> DEFINE h == Header(f)
           y == Symbols(f)
           t == StringTable(f)
           s == SchemaTable(f)
           c == f.code
           ny == Len(f.symbols)
           nt == Len(f.strings)
           file == EncodeFile(f)
<1>1. /\ h \in Seq(B) /\ Len(h) = 5 /\ nt \in Nat /\ ny \in Nat
      /\ h[1] = 2 * nt /\ h[2] = f.globals /\ h[3] = ny /\ h[5] = Len(f.schemas)
  BY HeaderIs
<1>2. y \in Seq(B) /\ Len(y) = 2 * ny
  BY ZenonT(30), SymbolsHeld
<1>3. t \in Seq(B) /\ Len(t) = 2 * nt
  BY ZenonT(30), StringsRead
<1>4. s \in Seq(B) /\ c \in Seq(B)
  BY SchemasHeld DEF IsFile
<1>5. file = h \o y \o t \o s \o c
  BY DEF EncodeFile, StringTable, SchemaTable
<1> HIDE DEF h, y, t, s, c, ny, nt, file
<1>6. /\ file \in Seq(B)
      /\ Len(file) = Len(h) + Len(y) + Len(t) + Len(s) + Len(c)
      /\ Holds(file, 0, h) /\ Holds(file, Len(h), y)
      /\ Holds(file, Len(h) + Len(y), t)
      /\ Holds(file, Len(h) + Len(y) + Len(t), s)
      /\ Holds(file, Len(h) + Len(y) + Len(t) + Len(s), c)
  <2> DEFINE all == h \o y \o t \o s \o c
  <2>1. h \in Seq(B) /\ y \in Seq(B) /\ t \in Seq(B) /\ s \in Seq(B) /\ c \in Seq(B)
    BY ZenonT(30), <1>1, <1>2, <1>3, <1>4
  <2>2. /\ all \in Seq(B)
        /\ Len(all) = Len(h) + Len(y) + Len(t) + Len(s) + Len(c)
        /\ Holds(all, 0, h) /\ Holds(all, Len(h), y)
        /\ Holds(all, Len(h) + Len(y), t)
        /\ Holds(all, Len(h) + Len(y) + Len(t), s)
        /\ Holds(all, Len(h) + Len(y) + Len(t) + Len(s), c)
    BY ZenonT(30), <2>1, FiveParts
  <2>3. file = all
    BY <1>5
  <2> HIDE DEF all
  <2> QED
    BY ZenonT(30), <2>2, <2>3
<1>7. \A k \in 1..5 : file[k] = h[k]
  <2>1. \A k \in 1..5 : file[0 + k] = h[k]
    BY <1>1, <1>6 DEF Holds
  <2> QED
    BY <2>1
<1>8. 5 + 2 * ny + 2 * nt \in Nat
  BY <1>1
<1>9. /\ Len(h) + Len(y) = 5 + 2 * ny
      /\ Len(h) + Len(y) + Len(t) = 5 + 2 * ny + 2 * nt
  BY <1>1, <1>2, <1>3
<1>10. file[1] = 2 * nt /\ file[2] = f.globals /\ file[3] = ny /\ file[5] = Len(f.schemas)
  BY <1>1, <1>7
<1> QED
  BY ZenonT(30), <1>1, <1>6, <1>8, <1>9, <1>10 DEF h, y, t, s, c, ny, nt, file

\* The symbols are those that were written, and the first one called main is found.
LEMMA MainFound ==
  ASSUME NEW f, NEW B, IsFile(f, B), NEW file \in Seq(B), Holds(file, 5, Symbols(f)),
         NEW k \in 1..Len(f.symbols), f.symbols[k][1] = "main",
         \A j \in 1..(k - 1) : f.symbols[j][1] # "main"
  PROVE  LET symbols == [j \in 1..Len(f.symbols) |-> <<file[4 + 2 * j], file[5 + 2 * j]>>]
             main == SelectInSeq(symbols, LAMBDA s : StringTable(f)[s[1] + 1] = "main")
         IN symbols[main][2] = f.symbols[k][2]
<1> DEFINE n == Len(f.symbols)
           t == StringTable(f)
           y == Symbols(f)
           symbols == [j \in 1..n |-> <<file[4 + 2 * j], file[5 + 2 * j]>>]
           I == {j \in 1..Len(symbols) : t[symbols[j][1] + 1] = "main"}
<1>1. f.symbols \in Seq(B \X B) /\ \A j \in DOMAIN f.symbols : Known(f, f.symbols[j][1])
  BY DEF IsFile
<1>2. n \in Nat /\ DOMAIN f.symbols = 1..n
  BY <1>1, LenProperties
<1>3. /\ Len(y) = 2 * n
      /\ \A j \in 1..n : /\ y[2 * j - 1] = FindString(f.strings, f.symbols[j][1])
                         /\ y[2 * j] = f.symbols[j][2]
  BY ZenonT(30), SymbolsHeld
<1>4. \A x : Known(f, x) => t[FindString(f.strings, x) + 1] = x
  BY ZenonT(30), StringsRead
<1>5. SelectInSeq(symbols, LAMBDA s : t[s[1] + 1] = "main") = IF I # {} THEN Min(I) ELSE 0
  BY Zenon DEF SelectInSeq
<1> HIDE DEF n, t, y
<1>6. ASSUME NEW j \in 1..n
      PROVE  /\ file[4 + 2 * j] = FindString(f.strings, f.symbols[j][1])
             /\ file[5 + 2 * j] = f.symbols[j][2]
  <2>1. \A i \in 1..Len(y) : file[5 + i] = y[i]
    BY DEF Holds, y
  <2>2. /\ 2 * j - 1 \in 1..Len(y) /\ 2 * j \in 1..Len(y)
        /\ 5 + (2 * j - 1) = 4 + 2 * j
    BY <1>2, <1>3
  <2>3. file[5 + (2 * j - 1)] = y[2 * j - 1] /\ file[5 + 2 * j] = y[2 * j]
    BY ZenonT(30), <2>1, <2>2
  <2> QED
    BY ZenonT(30), <1>3, <2>2, <2>3
<1>7. /\ Len(symbols) = n
      /\ \A j \in 1..n : /\ symbols[j][1] = FindString(f.strings, f.symbols[j][1])
                         /\ symbols[j][2] = f.symbols[j][2]
  <2>1. \A j \in 1..n : symbols[j][1] = file[4 + 2 * j] /\ symbols[j][2] = file[5 + 2 * j]
    OBVIOUS
  <2>2. Len(symbols) = n
    BY <1>2
  <2> HIDE DEF symbols
  <2> QED
    BY ZenonT(30), <1>6, <2>1, <2>2
<1> HIDE DEF symbols
<1>8. \A j \in 1..n : t[symbols[j][1] + 1] = f.symbols[j][1]
  BY ZenonT(30), <1>1, <1>2, <1>4, <1>7
<1>9. I = {j \in 1..n : f.symbols[j][1] = "main"}
  BY ZenonT(30), <1>7, <1>8
<1>10. k \in I /\ I \subseteq 1..n /\ \A j \in I : k <= j
  <2>1. k \in 1..n
    BY DEF n
  <2>2. ASSUME NEW j \in 1..n, f.symbols[j][1] = "main" PROVE k <= j
    <3>1. j \notin 1..(k - 1)
      BY <2>2
    <3> QED
      BY <1>2, <2>1, <3>1
  <2> HIDE DEF I
  <2> QED
    BY ZenonT(30), <1>9, <2>1, <2>2
<1> HIDE DEF I
<1>11. (IF I # {} THEN Min(I) ELSE 0) = k
  BY ZenonT(30), <1>2, <1>10, FirstFound
<1>12. symbols[k][2] = f.symbols[k][2]
  BY <1>7 DEF n
<1> QED
  BY ZenonT(30), <1>5, <1>11, <1>12 DEF symbols, t, n

\* A file whose strings are all in its table is read again: every number and every schema,
\* behind every place of a string the string, as its entry the place of main, and the
\* code to its last byte.  (encode and parse of bytefile.rs)
THEOREM FileReadBack ==
  ASSUME NEW f, NEW B, IsFile(f, B)
  PROVE  LET back == Parse(EncodeFile(f))
         IN /\ back.globals = f.globals /\ back.schemas = f.schemas /\ back.code = f.code
            /\ \A x : Known(f, x) => back.strings[FindString(f.strings, x) + 1] = x
            /\ \A k \in 1..Len(f.symbols) :
                 /\ f.symbols[k][1] = "main"
                 /\ \A j \in 1..(k - 1) : f.symbols[j][1] # "main"
                 => back.main = f.symbols[k][2]
<1> DEFINE file == EncodeFile(f)
           t == StringTable(f)
           s == SchemaTable(f)
           ny == Len(f.symbols)
           nt == Len(f.strings)
           start == 5 + 2 * ny + 2 * nt
           symbols == [k \in 1..ny |-> <<file[4 + 2 * k], file[5 + 2 * k]>>]
           main == SelectInSeq(symbols, LAMBDA x : t[x[1] + 1] = "main")
<1>1. /\ file \in Seq(B) /\ start \in Nat
      /\ file[1] = 2 * nt /\ file[2] = f.globals
      /\ file[3] = ny /\ file[5] = Len(f.schemas)
      /\ Holds(file, 5, Symbols(f)) /\ Holds(file, 5 + 2 * ny, t)
      /\ Holds(file, start, s)
      /\ Holds(file, start + Len(s), f.code)
      /\ Len(file) = start + Len(s) + Len(f.code)
  BY FileParts
<1>2. /\ t \in Seq(B) /\ Len(t) = 2 * nt
      /\ \A x : Known(f, x) => t[FindString(f.strings, x) + 1] = x
  BY ZenonT(30), StringsRead
<1>3. ny \in Nat /\ nt \in Nat /\ f.code \in Seq(B) /\ s \in Seq(B)
  BY HeaderIs, SchemasHeld DEF IsFile
<1>4. ReadSchemas(file, t, start) = [at |-> start + Len(s), schemas |-> f.schemas]
  BY ZenonT(30), <1>1, SchemasRead
<1>5. \A k \in 1..ny :
        /\ f.symbols[k][1] = "main" /\ \A j \in 1..(k - 1) : f.symbols[j][1] # "main"
        => symbols[main][2] = f.symbols[k][2]
  BY ZenonT(30), <1>1, MainFound
<1> DEFINE Strings == SubSeq(file, 6 + 2 * file[3], 5 + 2 * file[3] + file[1])
           Found == ReadSchemas(file, Strings, 5 + 2 * file[3] + file[1])
           Pairs == [k \in 1..file[3] |-> <<file[4 + 2 * k], file[5 + 2 * k]>>]
           Main == SelectInSeq(Pairs, LAMBDA x : Strings[x[1] + 1] = "main")
<1>6. Parse(file) = [globals |-> file[2], strings |-> Strings, schemas |-> Found.schemas,
                     main |-> Pairs[Main][2], code |-> SubSeq(file, Found.at + 1, Len(file))]
  BY DEF Parse
<1> HIDE DEF file, t, s, ny, nt
<1>7. Strings = t
  <2>1. SubSeq(file, (5 + 2 * ny) + 1, (5 + 2 * ny) + Len(t)) = t
    <3>1. 5 + 2 * ny \in Nat
      BY <1>3
    <3> QED
      BY ZenonT(30), <1>1, <1>2, <3>1, HeldBytes
  <2>2. (5 + 2 * ny) + 1 = 6 + 2 * ny /\ (5 + 2 * ny) + Len(t) = 5 + 2 * ny + 2 * nt
    BY <1>2, <1>3
  <2> QED
    BY ZenonT(30), <1>1, <2>1, <2>2
<1>8. Pairs = symbols
  BY ZenonT(30), <1>1
<1>9. Found = [at |-> start + Len(s), schemas |-> f.schemas]
  <2> HIDE DEF Strings
  <2> QED
    BY ZenonT(30), <1>1, <1>4, <1>7
<1>10. Main = main
  <2> DEFINE I == {k \in 1..Len(Pairs) : Strings[Pairs[k][1] + 1] = "main"}
             J == {k \in 1..Len(symbols) : t[symbols[k][1] + 1] = "main"}
  <2>1. Main = (IF I # {} THEN Min(I) ELSE 0) /\ main = (IF J # {} THEN Min(J) ELSE 0)
    BY Zenon DEF SelectInSeq
  <2> HIDE DEF Main, main, Strings, Pairs, symbols
  <2>2. I = J
    BY ZenonT(30), <1>7, <1>8
  <2> HIDE DEF I, J
  <2> QED
    BY ZenonT(30), <2>1, <2>2
<1>11. SubSeq(file, (start + Len(s)) + 1, Len(file)) = f.code
  <2>1. start + Len(s) \in Nat
    BY <1>1, <1>3, LenProperties
  <2> DEFINE at == start + Len(s)
             c == f.code
  <2>2. at \in Nat /\ c \in Seq(B) /\ Holds(file, at, c) /\ Len(file) = at + Len(c)
    BY ZenonT(30), <1>1, <1>3, <2>1
  <2> HIDE DEF at, c
  <2>3. SubSeq(file, at + 1, at + Len(c)) = c
    BY ZenonT(30), <1>1, <2>2, HeldBytes
  <2> QED
    BY ZenonT(30), <2>2, <2>3 DEF at, c
<1> HIDE DEF Strings, Found, Pairs, Main, symbols, main, start
<1>12. Parse(file) = [globals |-> f.globals, strings |-> t, schemas |-> f.schemas,
                      main |-> symbols[main][2], code |-> f.code]
  <2>1. Found.at = start + Len(s) /\ Found.schemas = f.schemas
    BY <1>9
  <2> QED
    BY ZenonT(30), <1>1, <1>6, <1>7, <1>8, <1>10, <1>11, <2>1
<1>13. /\ Parse(file).globals = f.globals /\ Parse(file).strings = t
       /\ Parse(file).schemas = f.schemas /\ Parse(file).main = symbols[main][2]
       /\ Parse(file).code = f.code
  BY <1>12
<1> QED
  BY ZenonT(30), <1>2, <1>5, <1>13 DEF file, ny
=============================================================================
