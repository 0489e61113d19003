----------------------------- MODULE RapReader -----------------------------
(***************************************************************************)
(* From a text to a module of the program: the lexer, the loop of the      *)
(* parser that drops its errors, and parse_program.                        *)
(*                                                                         *)
(* The parser asks the lexer for one token at a time.  The lexer knows     *)
(* nothing of the parser, so that it may as well run ahead; here it has    *)
(* ended before the first definition is read.                              *)
(***************************************************************************)
EXTENDS RapOffside, RapParser

CONSTANTS
  Texts  \* [source, program]: the program a text is meant to be, or None

ASSUME TextsAssumption == Sources = {t.source : t \in Texts}

VARIABLES
  intended,  \* history: what the text is meant to be
  next,      \* the token the parser looks at, of those that are no errors
  module,    \* what has been read so far
  outcome    \* "reading", or how reading has ended

readerVars == <<lexerVars, intended, next, module, outcome>>

\* module.rs: what an import or a definition adds.  A second import from a module
\* replaces the first one.
NewModule == [imports |-> <<>>, types |-> <<>>, toplevel |-> <<>>, functions |-> <<>>]
AddFunction(m, f) == [m EXCEPT !.functions = Append(@, f)]
AddType(m, t) == [m EXCEPT !.types = Append(@, t)]
AddTopLevel(m, s) == [m EXCEPT !.toplevel = Append(@, s)]

AddImport(m, import) == [m EXCEPT !.imports = (import.from :> import.names) @@ @]

\* Parser::advance_lexer: an error of the lexer is passed over.
Tokens == SelectSeq(returned, LAMBDA l : ~IsFault(l))
Parser == SkipNewlines(ParserOf(Tokens, next))

-----------------------------------------------------------------------------
Lex == NextToken /\ UNCHANGED <<intended, next, module, outcome>>

\* What one turn of parse_program does with p, what it has read.  `added' is the
\* module with it.
Take(p, added) ==
  /\ IF Ok(p) THEN module' = added /\ next' = p.i /\ UNCHANGED outcome
     ELSE outcome' = p.status /\ UNCHANGED <<module, next>>
  /\ UNCHANGED <<lexerVars, intended>>

Reading == ended /\ outcome = "reading"

ReadFunction ==
  /\ Reading /\ Peek(Parser) = "Fun"
  /\ LET p == Parse(Parser, "function") IN Take(p, AddFunction(module, p.value))
ReadImport ==
  /\ Reading /\ Peek(Parser) = "Import"
  /\ LET p == Parse(Parser, "import") IN Take(p, AddImport(module, p.value))
ReadType ==
  /\ Reading /\ Peek(Parser) = "Type"
  /\ LET p == Parse(Parser, "type") IN Take(p, AddType(module, p.value))
ReadStatement ==
  /\ Reading /\ Peek(Parser) \notin {"Fun", "Import", "Type", "none"}
  /\ LET p == Parse(Parser, "statement") IN Take(p, AddTopLevel(module, p.value))

EndOfProgram ==
  /\ Reading /\ Peek(Parser) = "none"
  /\ outcome' = "ok"
  /\ UNCHANGED <<lexerVars, intended, next, module>>

\* Terminated, not stuck.
Finished == outcome # "reading" /\ UNCHANGED readerVars

Init ==
  /\ \E t \in Texts : source = t.source /\ intended = t.program
  /\ LexerInit
  /\ next = 1 /\ module = NewModule /\ outcome = "reading"

ReadNext == ReadFunction \/ ReadImport \/ ReadType \/ ReadStatement
Next == Lex \/ ReadNext \/ EndOfProgram \/ Finished

Spec == Init /\ [][Next]_readerVars

\* One thread that nothing blocks.  Of ReadNext this is WF_readerVars(ReadNext) with
\* the condition written out under which it is enabled: what it reads never leaves
\* everything as it was.
ReadsOn == []<>~(Reading /\ Peek(Parser) # "none") \/ []<><<ReadNext>>_readerVars
FairSpec == Spec /\ WF_readerVars(Lex) /\ WF_readerVars(EndOfProgram) /\ ReadsOn

-----------------------------------------------------------------------------
TypeOK ==
  /\ line \in DOMAIN source /\ word \in 1..(Len(Here.words) + 1)
  /\ at_line_start \in BOOLEAN /\ paren_depth \in Nat
  /\ emitted_eof_dedents \in BOOLEAN /\ ended \in BOOLEAN
  /\ indent_stack \in Seq(Nat)
  /\ \A q \in {pending, returned} : \A i \in DOMAIN q : q[i].at[1] \in DOMAIN source
  /\ next \in 1..(Len(returned) + 1)
  /\ outcome \in {"reading", "ok", "error", "panic"}
  /\ DOMAIN module = {"imports", "types", "toplevel", "functions"}

\* A text that is a program laid out is read, and as that program, whatever its
\* layout; `at' aside.
RECURSIVE Unplaced(_)
UnplacedStatement(s) ==
  CASE s.kind = "match" ->
         [s EXCEPT !.at = 0, !.else_body = Unplaced(@),
                   !.cases = [k \in DOMAIN @ |-> Case(@[k].values, Unplaced(@[k].body))]]
    [] s.kind = "repeat" -> [s EXCEPT !.at = 0, !.body = Unplaced(@)]
    [] s.kind \in {"for", "while"} -> [s EXCEPT !.body = Unplaced(@)]
    [] s.kind = "if" -> [s EXCEPT !.then_body = Unplaced(@)]
    [] s.kind = "ifelse" -> [s EXCEPT !.then_body = Unplaced(@), !.else_body = Unplaced(@)]
    [] OTHER -> s
Unplaced(body) == [k \in DOMAIN body |-> UnplacedStatement(body[k])]
Read ==
  [module EXCEPT !.toplevel = Unplaced(@),
                 !.functions = [k \in DOMAIN @ |-> [@[k] EXCEPT !.function.body = Unplaced(@)]]]
RoundTrip == intended # None /\ outcome # "reading" => outcome = "ok" /\ Read = intended

\* The hidden variables of loops and selections, which the generator names after
\* where they are, have different names within a module: otherwise one would count
\* down the other's turns.
RECURSIVE Places(_)
PlacesOf(s) ==
  CASE s.kind = "match" ->
         <<s.at>> \o FlattenSeq([k \in DOMAIN s.cases |-> Places(s.cases[k].body)]) \o
         Places(s.else_body)
    [] s.kind = "repeat" -> <<s.at>> \o Places(s.body)
    [] s.kind \in {"for", "while"} -> Places(s.body)
    [] s.kind = "if" -> Places(s.then_body)
    [] s.kind = "ifelse" -> Places(s.then_body \o s.else_body)
    [] OTHER -> <<>>
Places(body) == FlattenSeq([k \in DOMAIN body |-> PlacesOf(body[k])])
Bodies == <<module.toplevel>> \o [f \in DOMAIN module.functions |-> module.functions[f].function.body]
HiddenApart ==
  outcome = "ok" => IsInjective(FlattenSeq([b \in DOMAIN Bodies |-> Places(Bodies[b])]))

\* A text with tabs before a word of a line is not a program (lexer.rs: "Tabs in
\* leading indentation are rejected; only spaces are allowed.")
TabsRejected ==
  outcome = "ok" => \A i \in DOMAIN returned : returned[i].token.kind # "TabError"

\* A sign is on the level of the binary + and -, below a product, so that without
\* parentheses no sign belongs to a factor of one: -a // b is -(a // b)
\* (spec_old.md, 2.2.3: "-  +  ( унарные и бинарные )", below "*  /  //  /%").
Products == {"MUL", "DIV", "IDIV", "MOD"}
Signed(e) == e.kind = "unary" /\ e.op \in {"Negate", "Plus"}
SignsLikeTerms ==
  outcome = "ok" /\ (\A i \in DOMAIN returned : returned[i].token.kind # "LParen") =>
    \A s \in ToSet(module.toplevel) : s.kind = "output" =>
      \A e \in ToSet(s.values) : e.kind = "binary" /\ e.op \in Products => ~Signed(e.left)

\* Layout and signs are read as the documents say, both.
ReadAsDocumented == TabsRejected /\ SignsLikeTerms

\* Every text is read to its end or to an error.
ReadingEnds == <>(outcome # "reading")
=============================================================================
