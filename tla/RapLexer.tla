------------------------------ MODULE RapLexer ------------------------------
(***************************************************************************)
(* The lexer (lexer.rs): words become tokens, and changes of indentation   *)
(* outside of delimiters become Indent and Dedent.  One call of next_token *)
(* takes one step, or a few: where it calls itself or goes round its loop  *)
(* over blank lines, and where it queues tokens and returns the first.     *)
(*                                                                         *)
(* process_line_start also has a branch for lines that start inside        *)
(* delimiters.  It is not here because next_token never calls it there     *)
(* (LineStartsOutside).                                                    *)
(***************************************************************************)
EXTENDS RapText

CONSTANTS
  Word,    \* what texts are made of
  Sources  \* texts

ASSUME SourcesAssumption ==
  Sources \subseteq Seq([indent : Nat, tab : BOOLEAN, words : Seq(Word)]) \ {<<>>}

\* No word stands for what the lexer makes of layout, and one for all that no token
\* can be made of.
ASSUME WordAssumption ==
  \A w \in Word :
    /\ w.kind \notin {"Newline", "Indent", "Dedent", "TabError", "DedentError"}
    /\ w.kind = "Bad" => w = Bad

VARIABLES
  source,               \* the text; it does not change
  line, word,           \* the word the lexer looks at next
  at_line_start,        \* the indentation of the line comes next
  paren_depth,          \* delimiters that are open
  indent_stack,         \* indentation of the blocks that are open
  pending,              \* to be returned before anything else
  emitted_eof_dedents,  \* the blocks still open at the end have been closed
  returned,             \* history: what next_token has returned, errors too
  ended                 \* history: next_token has returned None

position == <<line, word>>
layout == <<at_line_start, paren_depth, indent_stack, emitted_eof_dedents>>
lexerVars == <<source, position, layout, pending, returned, ended>>

Here == source[line]
AtLastLine == line = Len(source)
\* Mutant: the last word of a line is taken for its end.
AtEndOfLineEarly == word >= Len(Here.words)
AtEndOfLine == word > Len(Here.words)
AtEndOfSource == AtLastLine /\ AtEndOfLine

\* Nothing to return first, and the line has been entered.
Scanning == pending = <<>> /\ ~at_line_start /\ ~ended

-----------------------------------------------------------------------------
(* The start of a line (process_line_start).                               *)

ReturnPending ==
  /\ pending # <<>>
  /\ returned' = Append(returned, Head(pending)) /\ pending' = Tail(pending)
  /\ UNCHANGED <<source, position, layout, ended>>

SkipBlankLine ==
  /\ pending = <<>> /\ at_line_start /\ Blank(Here) /\ ~AtLastLine
  /\ line' = line + 1
  /\ UNCHANGED <<source, word, layout, pending, returned, ended>>

\* Mutant: a dedent closes one block, however far it goes back.
KeepAllButOne(stack, indent) == Len(stack) - 1

\* How many blocks stay open on a line with this indentation.
Kept(stack, indent) ==
  CHOOSE k \in DOMAIN stack : stack[k] <= indent /\ \A j \in DOMAIN stack : j > k => stack[j] > indent

Dedents(n) == [i \in 1..n |-> Lexeme(Token("Dedent"), line, 0)]

\* A line with words, outside of delimiters.
Indentation(indent) ==
  LET top == indent_stack[Len(indent_stack)]
      kept == Kept(indent_stack, indent)
  IN \/ /\ indent > top
        /\ indent_stack' = Append(indent_stack, indent)
        /\ pending' = <<Lexeme(Token("Indent"), line, 0)>>
     \/ indent = top /\ UNCHANGED <<indent_stack, pending>>
     \/ /\ indent < top
        /\ indent_stack' = SubSeq(indent_stack, 1, kept)
        /\ pending' = Dedents(Len(indent_stack) - kept) \o
                        (IF indent_stack[kept] = indent THEN <<>>
                         ELSE <<Lexeme(Token("DedentError"), line, 0)>>)

\* A tab is an error, and the line belongs to the block that is open.
LineStart ==
  /\ pending = <<>> /\ at_line_start /\ (~Blank(Here) \/ AtLastLine)
  /\ at_line_start' = FALSE
  /\ \/ /\ Here.tab
        /\ pending' = <<Lexeme(Token("TabError"), line, 0)>> /\ UNCHANGED indent_stack
     \/ Blank(Here) /\ UNCHANGED <<pending, indent_stack>>
     \/ ~Here.tab /\ ~Blank(Here) /\ Indentation(Here.indent)
  /\ UNCHANGED <<source, position, paren_depth, emitted_eof_dedents, returned, ended>>

-----------------------------------------------------------------------------
(* Within a line (next_token).                                             *)

\* Mutant: a closing delimiter is taken for the innermost one.
CloseAll(depth, kind) ==
  IF kind \in Opening THEN depth + 1 ELSE IF kind \in Closing THEN 0 ELSE depth

\* Mutant: it is counted even if nothing is open.
DepthBelow(depth, kind) ==
  IF kind \in Opening THEN depth + 1 ELSE IF kind \in Closing THEN depth - 1 ELSE depth

DepthAfter(depth, kind) ==
  IF kind \in Opening THEN depth + 1
  ELSE IF kind \in Closing /\ depth > 0 THEN depth - 1 ELSE depth

NextWord ==
  /\ Scanning /\ ~AtEndOfLine
  /\ LET token == Here.words[word]
     IN /\ returned' = Append(returned, Lexeme(token, line, word))
        /\ paren_depth' = DepthAfter(paren_depth, token.kind)
  /\ word' = word + 1
  /\ UNCHANGED <<source, line, at_line_start, indent_stack, emitted_eof_dedents, pending, ended>>

\* The end of a line inside delimiters is a blank like others.
EndOfLine ==
  /\ Scanning /\ AtEndOfLine /\ ~AtLastLine
  /\ line' = line + 1 /\ word' = 1
  /\ \/ paren_depth > 0 /\ UNCHANGED <<at_line_start, returned>>
     \/ /\ paren_depth = 0 /\ at_line_start' = TRUE
        /\ returned' = Append(returned, Lexeme(Token("Newline"), line, word))
  /\ UNCHANGED <<source, paren_depth, indent_stack, emitted_eof_dedents, pending, ended>>

-----------------------------------------------------------------------------
(* The end of the text (emit_eof_dedents).                                 *)

\* Mutant: the first level is popped, too.
EmitEofDedentsAll ==
  /\ Scanning /\ AtEndOfSource /\ ~emitted_eof_dedents
  /\ emitted_eof_dedents' = TRUE
  /\ indent_stack' = <<>> /\ pending' = Dedents(Len(indent_stack))
  /\ UNCHANGED <<source, position, at_line_start, paren_depth, returned, ended>>

\* Mutant: that it has been done is forgotten.
EmitEofDedentsAgain ==
  /\ Scanning /\ AtEndOfSource /\ ~emitted_eof_dedents
  /\ indent_stack' = <<0>> /\ pending' = Dedents(Len(indent_stack) - 1)
  /\ UNCHANGED <<source, position, emitted_eof_dedents, at_line_start, paren_depth, returned, ended>>

EmitEofDedents ==
  /\ Scanning /\ AtEndOfSource /\ ~emitted_eof_dedents
  /\ emitted_eof_dedents' = TRUE
  /\ indent_stack' = <<0>> /\ pending' = Dedents(Len(indent_stack) - 1)
  /\ UNCHANGED <<source, position, at_line_start, paren_depth, returned, ended>>

ReturnNone ==
  /\ Scanning /\ AtEndOfSource /\ emitted_eof_dedents
  /\ ended' = TRUE
  /\ UNCHANGED <<source, position, layout, pending, returned>>

LexerInit ==
  /\ source \in Sources
  /\ line = 1 /\ word = 1
  /\ at_line_start = TRUE /\ paren_depth = 0 /\ indent_stack = <<0>>
  /\ pending = <<>> /\ emitted_eof_dedents = FALSE /\ returned = <<>> /\ ended = FALSE

NextToken ==
  \/ ReturnPending \/ SkipBlankLine \/ LineStart \/ NextWord \/ EndOfLine
  \/ EmitEofDedents \/ ReturnNone

LexerSpec == LexerInit /\ [][NextToken]_lexerVars

-----------------------------------------------------------------------------
(* What the lexer relies on.                                               *)

\* A line is entered outside of delimiters only: the branch of
\* process_line_start for lines inside of them is never taken.
LineStartsOutside == at_line_start => paren_depth = 0

\* Every block that is open is deeper than the one around it, and the first is
\* no block: a dedent always finds a level to stop at.
BlocksNest ==
  /\ indent_stack # <<>> /\ indent_stack[1] = 0
  /\ \A i, j \in DOMAIN indent_stack : i < j => indent_stack[i] < indent_stack[j]

\* Place p is before place q; a place is a line and a word.
Precedes(p, q) == p[1] < q[1] \/ (p[1] = q[1] /\ p[2] < q[2])

\* No call of next_token goes round in circles: each step gets further in the text,
\* or into its line, or at its end to the blocks that are still open, or returns
\* something that is waiting, or None.
LexerAdvances ==
  [][\/ Precedes(position, position')
     \/ UNCHANGED position /\ at_line_start /\ ~at_line_start'
     \/ UNCHANGED <<position, at_line_start>> /\ ~emitted_eof_dedents /\ emitted_eof_dedents'
     \/ UNCHANGED <<position, layout>> /\ Len(pending') < Len(pending)
     \/ UNCHANGED <<position, layout, pending>> /\ ~ended /\ ended']_lexerVars

Count(kind, s) == {i \in DOMAIN s : s[i].token.kind = kind}
=============================================================================
