----------------------------- MODULE RapBytecode -----------------------------
(***************************************************************************)
(* The instructions of vm-core and the bytes they are written as.  An      *)
(* instruction is a sequence: its name, what is packed into the opcode,    *)
(* its operands.                                                           *)
(***************************************************************************)
EXTENDS Integers, SequencesExt

Ops == <<"ADD", "SUB", "MUL", "DIV", "MOD", "LT", "LEQ", "GT", "GEQ", "EQ", "NEQ",
         "AND", "OR", "IDIV", "POW">>
Rels == <<"Global", "Local", "Arg", "Capture">>
UnaryOps == <<"Negate", "Not">>
Kinds == <<"ISZERO", "ISNONZERO">>
BuiltinCode ==
  [Lread |-> 0, Lwrite |-> 1, Llength |-> 2, Tbool |-> 3, Ttext |-> 4, Abs |-> 7,
   Ttuple |-> 8, Sqrt |-> 9, Floor |-> 10, Round |-> 11, Tslice |-> 12, Tint |-> 13,
   Tfloat |-> 14, Tnull |-> 15]

\* Opcodes with nothing packed into them, and the widths of their operands.
PlainCode ==
  [NOP |-> 0, CONST |-> 16, STRING |-> 17, TUPLE |-> 18, STS |-> 19, STA |-> 20, JMP |-> 21,
   END |-> 22, SLICE |-> 23, DROP |-> 24, DUP |-> 25, SWAP |-> 26, ELEM |-> 27, CONSTF |-> 28,
   BEGIN |-> 82, CBEGIN |-> 83, CLOSURE |-> 84, CALLC |-> 85, CALL |-> 86, ARRAY |-> 88,
   VARIANT |-> 89, LINE |-> 90, VARIANTTAG |-> 91, FIELD |-> 92, SETFIELD |-> 93,
   ISVARIANT |-> 94, BOOL |-> 117, NULL |-> 118]
Widths(name) ==
  CASE name \in {"BEGIN", "CBEGIN", "CLOSURE", "CALL"} -> <<4, 4>>
    [] name = "CONSTF" -> <<8>>
    [] name \in {"SLICE", "BOOL"} -> <<1>>
    [] name \in {"CONST", "STRING", "TUPLE", "JMP", "CALLC", "ARRAY", "VARIANT", "LINE",
                 "FIELD", "SETFIELD", "ISVARIANT"} -> <<4>>
    [] OTHER -> <<>>

Place(s, x) == CHOOSE i \in DOMAIN s : s[i] = x

\* The builtins that count their arguments.
Counting == {"Lread", "Lwrite"}

\* What is written and read again as it was: a float stands as a number that has its
\* bits, and a builtin that counts its arguments must not count none.
MaxI32 == 2147483647
Operand(width) == IF width = 1 THEN 0..255 ELSE (-MaxI32 - 1)..MaxI32
IsInstruction(i) ==
  LET Follows(head, widths) ==
        /\ Len(i) = head + Len(widths)
        /\ \A k \in DOMAIN widths : i[head + k] \in Operand(widths[k])
      Packs(s) == \E k \in DOMAIN s : i[2] = s[k]
  IN CASE i[1] = "BINOP" -> Follows(2, <<>>) /\ Packs(Ops)
       [] i[1] = "UNARY" -> Follows(2, <<>>) /\ Packs(UnaryOps)
       [] i[1] \in {"LOAD", "STORE"} -> Follows(2, <<4>>) /\ Packs(Rels)
       [] i[1] = "CJMP" -> Follows(2, <<4>>) /\ Packs(Kinds)
       [] i[1] = "CALLBUILTIN" ->
            /\ Follows(2, <<4>>) /\ i[2] \in DOMAIN BuiltinCode
            /\ i[3] # 0 <=> i[2] \in Counting
       [] OTHER -> i[1] \in DOMAIN PlainCode /\ Follows(1, Widths(i[1]))

-----------------------------------------------------------------------------
(* Encoding.                                                               *)

\* LeBytes: two's complement, the low byte first.
Weight == <<1, 256, 65536, 16777216>>
LeBytes(v, width) ==
  [k \in 1..width |-> IF k > 4 THEN (IF v < 0 THEN 255 ELSE 0) ELSE (v \div Weight[k]) % 256]
FromLeBytes(b) ==
  IF Len(b) = 1 THEN b[1]
  ELSE b[1] + 256 * b[2] + 65536 * b[3] + 16777216 * (IF b[4] > 127 THEN b[4] - 256 ELSE b[4])

Opcode(i) ==
  CASE i[1] = "BINOP" -> Place(Ops, i[2])
    [] i[1] = "LOAD" -> 32 + Place(Rels, i[2])
    [] i[1] = "UNARY" -> 47 + Place(UnaryOps, i[2])
    [] i[1] = "STORE" -> 64 + Place(Rels, i[2])
    [] i[1] = "CJMP" -> 79 + Place(Kinds, i[2])
    [] i[1] = "CALLBUILTIN" -> 112 + BuiltinCode[i[2]]
    [] OTHER -> PlainCode[i[1]]

\* A builtin without a count has no operand.
Payload(i) ==
  CASE i[1] \in {"BINOP", "UNARY"} -> <<>>
    [] i[1] \in {"LOAD", "STORE", "CJMP"} -> LeBytes(i[3], 4)
    [] i[1] = "CALLBUILTIN" -> IF i[3] # 0 THEN LeBytes(i[3], 4) ELSE <<>>
    [] OTHER -> LET widths == Widths(i[1])
                IN CASE Len(widths) = 0 -> <<>>
                     [] Len(widths) = 1 -> LeBytes(i[2], widths[1])
                     [] OTHER -> LeBytes(i[2], widths[1]) \o LeBytes(i[3], widths[2])

\* Decoder::encode.
Encode(i) == IF i[1] = "LABEL" THEN <<>> ELSE <<Opcode(i)>> \o Payload(i)

-----------------------------------------------------------------------------
(* Decoding.                                                               *)

\* What Decoder::next finds for operands of these widths, and where it gets to.
Read(code, at, head, widths) ==
  LET Start(k) == at + (IF k > 1 THEN widths[1] ELSE 0) + (IF k > 2 THEN widths[2] ELSE 0)
      end == Start(Len(widths) + 1)
  IN IF end > Len(code) THEN [instr |-> <<"EOF">>, next |-> at]
     ELSE [instr |-> head \o [k \in DOMAIN widths |->
                        FromLeBytes(SubSeq(code, Start(k) + 1, Start(k) + widths[k]))],
           next |-> end]

\* The instruction at the offset ip, by the operands the handlers of the VM read.
\* Only the builtins that count their arguments have an operand.
Fetch(code, ip) ==
  IF ip >= Len(code) THEN [instr |-> <<"EOF">>, next |-> ip]
  ELSE LET byte == code[ip + 1]
           high == byte \div 16
           low == byte % 16
           Builtin(b) == CHOOSE name \in DOMAIN BuiltinCode : BuiltinCode[name] = b
           plain == {name \in DOMAIN PlainCode : PlainCode[name] = byte}
           Operands(head, widths) == Read(code, ip + 1, head, widths)
       IN CASE high = 0 /\ low # 0 -> Operands(<<"BINOP", Ops[low]>>, <<>>)
            [] high = 2 /\ low \in DOMAIN Rels -> Operands(<<"LOAD", Rels[low]>>, <<4>>)
            [] high = 3 /\ low + 1 \in DOMAIN UnaryOps ->
                 Operands(<<"UNARY", UnaryOps[low + 1]>>, <<>>)
            [] high = 4 /\ low \in DOMAIN Rels -> Operands(<<"STORE", Rels[low]>>, <<4>>)
            [] high = 5 /\ low + 1 \in DOMAIN Kinds ->
                 Operands(<<"CJMP", Kinds[low + 1]>>, <<4>>)
            [] plain # {} ->
                 LET name == CHOOSE n \in plain : TRUE IN Operands(<<name>>, Widths(name))
            [] high = 7 /\ plain = {} ->
                 IF low \in {0, 1} THEN Operands(<<"CALLBUILTIN", Builtin(low)>>, <<4>>)
                 ELSE Operands(<<"CALLBUILTIN", Builtin(low), 0>>, <<>>)
            [] OTHER -> [instr |-> <<"INVALID", byte>>, next |-> ip]
=============================================================================
