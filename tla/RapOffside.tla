----------------------------- MODULE RapOffside -----------------------------
(***************************************************************************)
(* What the indentation of a text means, with no stack: a block is what    *)
(* stands deeper than the line before it, up to the first line that does   *)
(* not; and what is wrong with a text before anything is read into it.     *)
(***************************************************************************)
EXTENDS RapLexer, FiniteSets

\* The words before word w of line l, each as <<line, word>>.
Before(text, l, w) ==
  {p \in UNION {{k} \X DOMAIN text[k].words : k \in 1..l} : p[1] < l \/ p[2] < w}
\* The delimiters that are open there, if none is closed that has not been opened.
Open(text, l, w) ==
  LET Of(kinds) == {p \in Before(text, l, w) : text[p[1]].words[p[2]].kind \in kinds}
  IN Cardinality(Of(Opening)) - Cardinality(Of(Closing))
Delimited(text) ==
  \A l \in DOMAIN text : \A w \in DOMAIN text[l].words :
    text[l].words[w].kind \in Closing => Open(text, l, w) > 0

\* Every word that the lexer has passed was returned, and once: what is returned comes
\* in the order of the text, no two from the same place but the ends of blocks.
IsDedent(l) == l.token.kind = "Dedent"
TextReturned ==
  /\ \A i, j \in DOMAIN returned :
       i < j /\ ~IsDedent(returned[i]) /\ ~IsDedent(returned[j]) =>
         Precedes(returned[i].at, returned[j].at)
  /\ \A p \in Before(source, line, word) : \E i \in DOMAIN returned :
       returned[i] = Lexeme(source[p[1]].words[p[2]], p[1], p[2])

\* The indentation of the lines whose indentation counts.
Depths(text) ==
  [l \in {l \in DOMAIN text : ~text[l].tab /\ ~Blank(text[l]) /\ Open(text, l, 1) = 0} |->
     text[l].indent]

\* The blocks that are open behind line l, each the indentation of its lines: none
\* of them has ended since a line began it.
Blocks(depth, l) ==
  {depth[k] : k \in {k \in DOMAIN depth : k <= l /\ depth[k] > 0 /\
                        \A j \in DOMAIN depth : k <= j /\ j <= l => depth[j] >= depth[k]}}

\* A line goes on or back to a block that is open, or to none, or begins one.
GoesBack(depth, l) ==
  \/ depth[l] \in Blocks(depth, l - 1) \cup {0}
  \/ \A b \in Blocks(depth, l - 1) : depth[l] > b
Lost(depth) == {l \in DOMAIN depth : ~GoesBack(depth, l)}

Returned(kind) == Cardinality(Count(kind, returned))

\* When the first word of a line is returned, as many blocks have been opened and
\* not closed as the line is in, however the lines before have jumped, blank ones
\* and lines inside delimiters among them; and all are closed in the end.
BlocksFollowIndentation ==
  /\ LET last == returned[Len(returned)]
         l == last.at[1]
         depth == Depths(source)
     IN returned # <<>> /\ last.at[2] = 1 /\ l \in DOMAIN depth /\
        (\A k \in Lost(depth) : k > l) /\ Delimited(source) =>
          Returned("Indent") - Returned("Dedent") = Cardinality(Blocks(depth, l))
  /\ ended => Returned("Indent") = Returned("Dedent")

TabFaults(text) ==
  {Lexeme(Token("TabError"), l, 0) : l \in {l \in DOMAIN text : text[l].tab /\ Open(text, l, 1) = 0}}
WordFaults(text) ==
  UNION {{Lexeme(Bad, l, w) : w \in {w \in DOMAIN text[l].words : text[l].words[w] = Bad}} :
           l \in DOMAIN text}

\* Up to the first line that goes back to no block: what later ones go back to is
\* anyone's guess.
LastJudged(text) ==
  LET lost == Lost(Depths(text))
  IN IF lost = {} THEN Len(text) ELSE CHOOSE l \in lost : \A k \in lost : l <= k
FaultsIn(text) ==
  LET lost == Lost(Depths(text))
      last == LastJudged(text)
  IN {f \in TabFaults(text) \cup WordFaults(text) : f.at[1] <= last} \cup
     (IF lost = {} THEN {} ELSE {Lexeme(Token("DedentError"), last, 0)})

\* The lexer goes on after a fault, and finds every one once: tabs, words, and the
\* first line that is lost.
FaultsFound ==
  LET last == LastJudged(source)
      there == FaultsIn(source)
      found == {i \in DOMAIN returned : IsFault(returned[i]) /\ returned[i].at[1] <= last}
  IN ended /\ Delimited(source) =>
       {returned[i] : i \in found} = there /\ Cardinality(found) = Cardinality(there)
=============================================================================
