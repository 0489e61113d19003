------------------------------ MODULE RapText ------------------------------
(***************************************************************************)
(* Source text, as the lexer looks at it: lines of words behind their      *)
(* indentation.  A word is what one token is made of, or what no token can *)
(* be made of.  Blanks, semicolons and comments separate words and are     *)
(* nothing more, so that a line with a comment only has no words.  (Left   *)
(* out are lines of semicolons alone, whose indentation counts.)           *)
(***************************************************************************)
EXTENDS Integers, Sequences

\* Tokens.  Keywords are called by what they mean.
Token(kind) == [kind |-> kind]
Ident(x) == [kind |-> "Ident", name |-> x]
\* kind is Integer, Real or Text, and v a value of RapSyntax.
Literal(kind, v) == [kind |-> kind, value |-> v]

Opening == {"LParen", "LBracket"}
Closing == {"RParen", "RBracket"}

\* A character the language does not have, a number out of range.
Bad == Token("Bad")

\* `tab': there is a tab among the blanks the line begins with, after `indent'
\* spaces.  A text ends where its last line does, so that one whose last
\* character is a newline has an empty line there.
Line(indent, words) == [indent |-> indent, tab |-> FALSE, words |-> words]
Tabbed(words) == [indent |-> 0, tab |-> TRUE, words |-> words]
Blank(l) == ~l.tab /\ l.words = <<>>

\* A token or an error, and where it is: in which line, before or at which word.
Lexeme(token, line, word) == [token |-> token, at |-> <<line, word>>]
Faults == {"TabError", "DedentError", "Bad"}
IsFault(l) == l.token.kind \in Faults
=============================================================================
