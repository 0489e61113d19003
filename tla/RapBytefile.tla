---------------------------- MODULE RapBytefile ----------------------------
(***************************************************************************)
(* bytefile.rs: labels become offsets, instructions become the code        *)
(* section, and the sections a file that can be read again.  An integer of *)
(* the file stands as one element, and so does a string of the table.      *)
(***************************************************************************)
EXTENDS RapBytecode

-----------------------------------------------------------------------------
(* add_instructions.  A jump names a label, and an offset once it is       *)
(* resolved.                                                               *)

Jumps == {"JMP", "CJMP", "CALL", "CLOSURE"}

NUL == "nul"

\* Where a string is in the table: every string is followed by a terminator.
FindString(strings, x) == 2 * (SelectInSeq(strings, LAMBDA y : y = x) - 1)

\* Mutant: a call is taken to be as long as a jump.
SizeOfJump(i) == IF i[1] \in Jumps THEN 5 ELSE Len(Encode(i))

\* The bytes of i, before its label is known.
Size(i) ==
  CASE i[1] \in {"JMP", "CJMP"} -> 5
    [] i[1] \in {"CALL", "CLOSURE"} -> 9
    [] OTHER -> Len(Encode(i))

\* The offset of each instruction.
Offsets(instrs) ==
  LET offset[k \in 1..(Len(instrs) + 1)] ==
        IF k = 1 THEN 0 ELSE offset[k - 1] + Size(instrs[k - 1])
  IN offset

LabelsIn(instrs) == {k \in DOMAIN instrs : instrs[k][1] = "LABEL"}

\* The first pass: the offset of every label.
Labels(instrs) ==
  LET offsets == Offsets(instrs)
      At(l) == CHOOSE k \in LabelsIn(instrs) : instrs[k][2] = l
  IN [l \in {instrs[k][2] : k \in LabelsIn(instrs)} |-> offsets[At(l)]]

\* The kind of a conditional jump comes before its label.
LabelPlace(i) == IF i[1] = "CJMP" THEN 3 ELSE 2

Resolve(i, labels) ==
  IF i[1] \in Jumps THEN [i EXCEPT ![LabelPlace(i)] = labels[i[LabelPlace(i)]]] ELSE i

\* No label stands twice, and every jump has one.
Assembles(instrs) ==
  /\ \A j, k \in LabelsIn(instrs) : instrs[j][2] = instrs[k][2] => j = k
  /\ \A k \in DOMAIN instrs :
       instrs[k][1] \in Jumps =>
         \E j \in LabelsIn(instrs) : instrs[j][2] = instrs[k][LabelPlace(instrs[k])]

\* The second pass.
Resolved(instrs) ==
  LET labels == Labels(instrs) IN [k \in DOMAIN instrs |-> Resolve(instrs[k], labels)]

\* The third pass.
CodeSection(resolved) == FlattenSeq([k \in DOMAIN resolved |-> Encode(resolved[k])])

-----------------------------------------------------------------------------
(* encode and parse.  A bytefile has `globals', `symbols' (<<name, offset>>), *)
(* `schemas', `strings' and `code'.                                        *)

\* u32::MAX.
VARIANT_SCHEMA_MARKER == -1

Header(f) ==
  <<2 * Len(f.strings), f.globals, Len(f.symbols), VARIANT_SCHEMA_MARKER, Len(f.schemas)>>
Symbols(f) == FlattenSeq([k \in DOMAIN f.symbols |->
                            <<FindString(f.strings, f.symbols[k][1]), f.symbols[k][2]>>])
Schema(f, s) ==
  <<FindString(f.strings, s.name), s.tag, Len(s.fields)>> \o
    [k \in DOMAIN s.fields |-> FindString(f.strings, s.fields[k])]

EncodeFile(f) ==
  Header(f) \o Symbols(f) \o FlattenSeq([k \in DOMAIN f.strings |-> <<f.strings[k], NUL>>]) \o
    FlattenSeq([k \in DOMAIN f.schemas |-> Schema(f, f.schemas[k])]) \o f.code

\* Mutant: the tag is not skipped.
ReadSchemaShort(file, strings, r) ==
  [at |-> r.at + 2 + file[r.at + 3],
   schemas |-> Append(r.schemas, [name |-> strings[file[r.at + 1] + 1], tag |-> file[r.at + 2],
                                  fields |-> [j \in 1..file[r.at + 3] |->
                                                strings[file[r.at + 3 + j] + 1]]])]

\* One schema, which starts after the first r.at elements of the file.
ReadSchema(file, strings, r) ==
  [at |-> r.at + 3 + file[r.at + 3],
   schemas |-> Append(r.schemas, [name |-> strings[file[r.at + 1] + 1], tag |-> file[r.at + 2],
                                  fields |-> [j \in 1..file[r.at + 3] |->
                                                strings[file[r.at + 3 + j] + 1]]])]

\* The schemas that start after the first `start' elements of the file.
ReadSchemas(file, strings, start) ==
  LET read[k \in 0..file[5]] ==
        IF k = 0 THEN [at |-> start, schemas |-> <<>>]
        ELSE ReadSchema(file, strings, read[k - 1])
  IN read[file[5]]

\* The table of strings as the VM has it, the symbol main, and the rest.
Parse(file) ==
  LET symbols == [k \in 1..file[3] |-> <<file[4 + 2 * k], file[5 + 2 * k]>>]
      strings == SubSeq(file, 6 + 2 * file[3], 5 + 2 * file[3] + file[1])
      read == ReadSchemas(file, strings, 5 + 2 * file[3] + file[1])
      main == SelectInSeq(symbols, LAMBDA s : strings[s[1] + 1] = "main")
  IN [globals |-> file[2], strings |-> strings, schemas |-> read.schemas,
      main |-> symbols[main][2], code |-> SubSeq(file, read.at + 1, Len(file))]
=============================================================================
