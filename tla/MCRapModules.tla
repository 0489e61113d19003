---------------------------- MODULE MCRapModules ----------------------------
(* The projects that the run of RapModules builds. *)
EXTENDS RapModules, TLC

CONSTANTS main, a, b, x, here, lib

Nowhere == [n \in 1..3 |-> NoFile]
Nothing == [f \in {main, a, b} |-> {}]

Import1(n, defs) == [name |-> n, defs |-> defs]
\* Sequences of imports of the names in S, with nothing listed.
Bare(S) == SelectSeq([n \in 1..3 |-> Import1(n, <<>>)], LAMBDA i : i.name \in S)

\* Three modules in one directory, named as imported.
Plain ==
  [stem |-> main :> 1 @@ a :> 2 @@ b :> 3,
   home |-> [f \in {main, a, b} |-> here],
   entry |-> here :> <<main, a, b>> @@ lib :> Nowhere,
   roots |-> <<>>, imports |-> [f \in {main, a, b} |-> <<>>],
   functions |-> Nothing, types |-> Nothing, broken |-> {}, args |-> <<main>>]

\* Every graph of imports: chains, diamonds, cycles, imports of oneself.
Graphs ==
  {[Plain EXCEPT !.imports = main :> Bare(S) @@ a :> Bare(T) @@ b :> Bare(U)] :
     S \in SUBSET (1..3), T \in SUBSET (1..3), U \in SUBSET (1..3)}

\* What a module may have under the name x: a function, a type, both or nothing.
Kinds == {<<{x}, {}>>, <<{}, {x}>>, <<{x}, {x}>>, <<{}, {}>>}

\* Who defines x, who imports it, once or more, in one statement or in two.
Names ==
  {[Plain EXCEPT
      !.functions = main :> k[1] @@ a :> l[1] @@ b :> m[1],
      !.types = main :> k[2] @@ a :> l[2] @@ b :> m[2],
      !.imports = main :> <<Import1(2, s), Import1(3, t)>> \o more
                    @@ a :> u @@ b :> <<>>] :
     k \in Kinds, l \in Kinds, m \in Kinds,
     s \in {<<>>, <<x>>, <<x, x>>}, t \in {<<>>, <<x>>}, u \in {<<>>, <<Import1(3, <<x>>)>>},
     more \in {<<>>, <<Import1(2, <<>>)>>}}

\* Where the modules are: next to the importing file or in the library, under
\* their own name or another's; the same file twice; no file; a broken one.
Places ==
  {[Plain EXCEPT
      !.stem[b] = n, !.home[a] = h, !.home[b] = lib, !.roots = r, !.args = w, !.broken = k,
      !.entry = here :> <<main, d, e>> @@ lib :> <<NoFile, f, b>>,
      !.imports = main :> Bare({2}) @@ a :> Bare({3}) @@ b :> <<>>] :
     n \in {2, 3}, h \in {here, lib}, r \in {<<>>, <<lib>>},
     w \in {<<>>, <<main>>, <<main, main>>, <<a, main, NoFile>>}, k \in {{}, {b}},
     d \in {a, NoFile}, e \in {b, NoFile}, f \in {a, b, NoFile}}

AllProjects == Graphs \cup Names \cup Places
=============================================================================
