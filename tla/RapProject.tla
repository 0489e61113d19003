----------------------------- MODULE RapProject -----------------------------
(***************************************************************************)
(* What the build of a program promises, with no worklist and no graph:    *)
(* either nothing is wrong with the modules it needs, and then the code of *)
(* each runs once, after the code of what it imports; or the build reports *)
(* something that is wrong with them.                                      *)
(***************************************************************************)
EXTENDS RapSources

VARIABLES
  outcome,  \* how the build has ended
  inits     \* the modules whose top level code the program runs, in order

vars == <<project, outcome, inits>>

\* The files a build needs: the smallest set with those of the command line and
\* everything an import of a member leads to.
Closed(S) ==
  /\ Members(project.args) \cap File \subseteq S
  /\ \A f \in S : \A n \in Imported(f) : Found(f, n) \in S \cup {NoFile}
Needed == {f \in File : \A S \in SUBSET File : Closed(S) => f \in S}

DependsOn(f, g) == project.stem[g] \in Imported(f)

\* d is imported into f from g.
Imports(f, g, d) == DependsOn(f, g) /\ d \in Members(ImportedDefs(f, project.stem[g]))

\* The places of d in the imports of f.
Places(f, d) ==
  {c \in UNION {{n} \X DOMAIN ImportedDefs(f, n) : n \in Imported(f)} :
     ImportedDefs(f, c[1])[c[2]] = d}

\* What f imports under the name d has the name of something else.
Clashes(f, g, d) ==
  /\ Imports(f, g, d)
  /\ \/ \E p, q \in Places(f, d) : p # q
     \/ IsFunction(g, d) /\ d \in project.functions[f]
     \/ IsType(g, d) /\ d \in project.types[f]

\* Everything that is wrong with the modules S.
Reported(holds, error) == IF holds THEN {error} ELSE {}
FaultsOf(S) ==
  UNION {
    Reported(NoFile \in Members(project.args), Error("no file", 0)),
    Reported(project.args = <<>>, Error("no modules", 0)),
    {Error("parse error", f) : f \in S \cap project.broken},
    {Error("DuplicateModule", n) :
       n \in {k \in Name : \E f, g \in S : f # g /\ project.stem[f] = k /\ project.stem[g] = k}},
    {Error("ModuleNotFound", n) :
       n \in (UNION {Imported(f) : f \in S}) \ {project.stem[f] : f \in S}},
    {Error("DefinitionNotFound", d) :
       d \in {e \in Def : \E f, g \in S : Imports(f, g, e) /\ ~Defined(g, e)}},
    {Error("DuplicateDefinition", d) :
       d \in {e \in Def : \E f, g \in S : Clashes(f, g, e)}},
    Reported(\E R \in (SUBSET S) \ {{}} : \A f \in R : \E g \in R : DependsOn(f, g),
             Error("CyclicDependency", 0))}
Faults == FaultsOf(Needed)

\* "Code of the top level runs once, in the order of dependencies" (doc/MODULES.md).
InOrder(s) ==
  /\ Members(s) = Needed
  /\ \A i, j \in DOMAIN s : DependsOn(s[i], s[j]) => j < i
  /\ \A i, j \in DOMAIN s : s[i] = s[j] => i = j

\* Whatever the project is.
Init == outcome = NotYet /\ inits = <<>>

Build ==
  /\ outcome = NotYet /\ outcome' = Built
  /\ Faults = {} /\ InOrder(inits') /\ UNCHANGED project

Reject ==
  /\ outcome = NotYet /\ outcome' # NotYet
  /\ outcome' \in Faults /\ UNCHANGED <<project, inits>>

Next == Build \/ Reject

Spec == Init /\ [][Next]_vars
=============================================================================
