----------------------------- MODULE RapModules -----------------------------
(***************************************************************************)
(* From the files of the command line to the order in which modules are    *)
(* compiled: the worklist of main.rs, build_dependency_graph of module.rs  *)
(* and the loop over modules of BcGen::generate.  A module is named by its *)
(* file; once the names are known to differ that is the same.              *)
(***************************************************************************)
EXTENDS RapSources, FiniteSets

VARIABLES
  pending,       \* pending_files
  parsed,        \* parsed_files
  modules,       \* modules parsed so far; later the nodes of the graph
  phase,         \* which loop of the compiler is running
  node,          \* the node whose imports are resolved
  todo,          \* its imports that are not resolved yet
  resolved,      \* resolved_imports of each module, as pairs
  edges,         \* of the graph: <<importing, imported>>
  order,         \* the modules as the code generator gets them
  constructors,  \* variant_constructors: the module that defined each last
  targets,       \* call_targets of each module compiled, as pairs
  visible,       \* `constructors' as the code of each module saw it
  inits,         \* the <init> labels that main calls
  outcome        \* how the build has ended

loading == <<pending, parsed>>
graph == <<node, todo, resolved, edges, order>>
code == <<constructors, targets, visible, inits>>
vars == <<project, pending, parsed, modules, phase, node, todo, resolved, edges, order,
          constructors, targets, visible, inits, outcome>>

End(result) == outcome' = result /\ phase' = "done"

-----------------------------------------------------------------------------
(* Loading: `while let Some(file) = pending_files.pop_front()'.            *)

\* canonicalize and the parser exit the process.
LoadFails ==
  /\ phase = "load" /\ pending # <<>>
  /\ LET f == Head(pending)
     IN \/ f = NoFile /\ End(Error("no file", 0))
        \/ f \in project.broken \ parsed /\ End(Error("parse error", f))
  /\ UNCHANGED <<project, modules, loading, graph, code>>

\* Mutant: every file counts as new.
NewFileAlways(f) == TRUE

NewFile(f) == f \notin parsed

\* Mutant: the file is looked at, not taken from the worklist.
LoadSeenAgain ==
  /\ phase = "load" /\ pending # <<>> /\ Head(pending) # NoFile /\ ~NewFile(Head(pending))
  /\ UNCHANGED vars

LoadSeen ==
  /\ phase = "load" /\ pending # <<>> /\ Head(pending) # NoFile /\ ~NewFile(Head(pending))
  /\ pending' = Tail(pending)
  /\ UNCHANGED <<project, parsed, modules, phase, graph, code, outcome>>

\* The imports of f that lead to a file; the others are skipped here.
Leading(f) == {n \in Imported(f) : Found(f, n) # NoFile}

\* The order in which a BTreeMap is walked.
InNameOrder(names, S) ==
  Members(names) = S /\ \A i, j \in DOMAIN names : i < j => names[i] < names[j]

Load ==
  /\ phase = "load" /\ pending # <<>> /\ Head(pending) # NoFile
  /\ LET f == Head(pending)
     IN /\ NewFile(f) /\ f \notin project.broken
        /\ parsed' = parsed \cup {f} /\ modules' = Append(modules, f)
        /\ \E names \in [1..Cardinality(Leading(f)) -> Leading(f)] :
             /\ InNameOrder(names, Leading(f))
             /\ pending' = Tail(pending) \o [i \in DOMAIN names |-> Found(f, names[i])]
  /\ UNCHANGED <<project, phase, graph, code, outcome>>

-----------------------------------------------------------------------------
(* build_dependency_graph.                                                 *)

HasName(n) == {i \in DOMAIN modules : project.stem[modules[i]] = n}
Repeats == {i \in DOMAIN modules : \E j \in HasName(project.stem[modules[i]]) : j < i}

\* modules_by_name.
NameNodes ==
  /\ phase = "load" /\ pending = <<>>
  /\ \/ /\ Repeats # {}
        /\ End(Error("DuplicateModule", project.stem[modules[First(Repeats)]]))
        /\ UNCHANGED <<node, todo>>
     \/ /\ Repeats = {}
        /\ phase' = "link" /\ node' = 1
        /\ todo' = IF modules = <<>> THEN {} ELSE Imported(modules[1])
        /\ UNCHANGED outcome
  /\ UNCHANGED <<project, modules, loading, resolved, edges, order, code>>

\* Mutant: only the definitions of the module itself are looked at.
ClashOwn(f, g, taken, d) ==
  \/ IsFunction(g, d) /\ d \in project.functions[f]
  \/ IsType(g, d) /\ d \in project.types[f]

\* The import of d from g into f conflicts; `taken' are the names imported so far.
Clash(f, g, taken, d) ==
  \/ IsFunction(g, d) /\ d \in project.functions[f]
  \/ IsType(g, d) /\ d \in project.types[f]
  \/ d \in taken

\* Of two definitions that are imported from g: functions are added before types.
AddedBefore(g, defs, i, j) ==
  \/ IsFunction(g, defs[i]) /\ ~IsFunction(g, defs[j])
  \/ (IsFunction(g, defs[i]) <=> IsFunction(g, defs[j])) /\ i < j

\* One import of the node, the next one in the order of names.
Link ==
  /\ phase = "link" /\ node <= Len(modules) /\ todo # {}
  /\ LET f == modules[node]
         n == First(todo)
         defs == ImportedDefs(f, n)
         g == modules[CHOOSE i \in HasName(n) : TRUE]
         unknown == {i \in DOMAIN defs : ~Defined(g, defs[i])}
         Taken(i) == {p[1] : p \in resolved[f]}
                       \cup {defs[j] : j \in {k \in DOMAIN defs : AddedBefore(g, defs, k, i)}}
         clashing == {i \in DOMAIN defs : Clash(f, g, Taken(i), defs[i])}
     IN \/ /\ HasName(n) = {}
           /\ End(Error("ModuleNotFound", n)) /\ UNCHANGED <<todo, resolved, edges>>
        \/ /\ HasName(n) # {} /\ unknown # {}
           /\ End(Error("DefinitionNotFound", defs[First(unknown)]))
           /\ UNCHANGED <<todo, resolved, edges>>
        \/ /\ HasName(n) # {} /\ unknown = {} /\ clashing # {}
           /\ \E i \in clashing :
                /\ \A j \in clashing \ {i} : AddedBefore(g, defs, i, j)
                /\ End(Error("DuplicateDefinition", defs[i]))
           /\ UNCHANGED <<todo, resolved, edges>>
        \/ /\ HasName(n) # {} /\ unknown = {} /\ clashing = {}
           /\ edges' = edges \cup {<<f, g>>}
           /\ resolved' = [resolved EXCEPT ![f] = @ \cup {<<d, g>> : d \in Members(defs)}]
           /\ todo' = todo \ {n}
           /\ UNCHANGED <<phase, outcome>>
  /\ UNCHANGED <<project, modules, loading, node, order, code>>

\* Mutant: the loop over the nodes does not end with the last one.
NextNodeEndless ==
  /\ phase = "link" /\ todo = {}
  /\ node' = node + 1
  /\ todo' = IF node < Len(modules) THEN Imported(modules[node + 1]) ELSE {}
  /\ UNCHANGED <<project, modules, phase, loading, resolved, edges, order, code, outcome>>

NextNode ==
  /\ phase = "link" /\ node <= Len(modules) /\ todo = {}
  /\ node' = node + 1
  /\ todo' = IF node < Len(modules) THEN Imported(modules[node + 1]) ELSE {}
  /\ UNCHANGED <<project, modules, phase, loading, resolved, edges, order, code, outcome>>

\* petgraph: an order of the nodes in which every edge points forward, which
\* exists when there is no cycle.
TopologicalOrders ==
  {s \in [DOMAIN modules -> Members(modules)] :
     /\ \A i, j \in DOMAIN s : s[i] = s[j] => i = j
     /\ \A i, j \in DOMAIN s : <<s[i], s[j]>> \in edges => i < j}

\* Mutant: the sorted modules are not reversed.
CompileOrderForward(s) == s

\* sorted.reverse(): an importing module comes after what it imports.
CompileOrder(s) == [i \in DOMAIN s |-> s[Len(s) + 1 - i]]

Sort ==
  /\ phase = "link" /\ node > Len(modules)
  /\ \/ /\ TopologicalOrders = {}
        /\ End(Error("CyclicDependency", 0)) /\ UNCHANGED order
     \/ /\ \E s \in TopologicalOrders : order' = CompileOrder(s)
        /\ phase' = "emit" /\ UNCHANGED outcome
  /\ UNCHANGED <<project, modules, loading, node, todo, resolved, edges, code>>

-----------------------------------------------------------------------------
(* BcGen::generate.                                                        *)

\* configure_module, emit_type_def, and the code of the module itself.
Emit ==
  /\ phase = "emit" /\ Len(inits) < Len(order)
  /\ LET f == order[Len(inits) + 1]
         own == {<<d, f>> : d \in project.functions[f]}
         imported == {p \in resolved[f] : IsFunction(p[2], p[1])}
     IN /\ constructors' = [d \in Def |-> IF d \in project.types[f] THEN f ELSE constructors[d]]
        /\ targets' = [targets EXCEPT ![f] = own \cup imported]
        /\ visible' = [visible EXCEPT ![f] = constructors']
        /\ inits' = Append(inits, f)
  /\ UNCHANGED <<project, modules, phase, loading, graph, outcome>>

\* assert!(!modules.is_empty()); the main function calls every <init>.
EmitMain ==
  /\ phase = "emit" /\ Len(inits) = Len(order)
  /\ End(IF order = <<>> THEN Error("no modules", 0) ELSE Built)
  /\ UNCHANGED <<project, modules, loading, graph, code>>

Done == phase = "done" /\ UNCHANGED vars

-----------------------------------------------------------------------------

Init ==
  /\ project \in Projects
  /\ pending = project.args /\ parsed = {} /\ modules = <<>>
  /\ phase = "load"
  /\ node = 0 /\ todo = {}
  /\ resolved = [f \in File |-> {}] /\ edges = {} /\ order = <<>>
  /\ constructors = [d \in Def |-> NoFile]
  /\ targets = [f \in File |-> {}]
  /\ visible = [f \in File |-> [d \in Def |-> NoFile]]
  /\ inits = <<>>
  /\ outcome = NotYet

Step == Load \/ LoadSeen \/ LoadFails \/ NameNodes \/ Link \/ NextNode \/ Sort \/ Emit \/ EmitMain
Next == Step \/ Done

Spec == Init /\ [][Next]_vars

\* The compiler never waits for anything.
FairSpec == Spec /\ WF_vars(Step)

-----------------------------------------------------------------------------
(* What is promised.                                                       *)

\* Every variable holds what its declaration in the code can hold.
TypeOK ==
  /\ pending \in Seq(File \cup {NoFile}) /\ parsed \subseteq File
  /\ modules \in Seq(File) /\ order \in Seq(File) /\ inits \in Seq(File)
  /\ phase \in {"load", "link", "emit", "done"}
  /\ node \in 0..(Len(modules) + 1) /\ todo \subseteq Name
  /\ resolved \in [File -> SUBSET (Def \X File)] /\ targets \in [File -> SUBSET (Def \X File)]
  /\ edges \subseteq File \X File
  /\ constructors \in [Def -> File \cup {NoFile}]
  /\ visible \in [File -> [Def -> File \cup {NoFile}]]

\* However the files import one another, each is parsed once, and what has not
\* been parsed yet of the imports of a parsed file is still in the worklist.
LoadedOnce ==
  /\ \A i, j \in DOMAIN modules : modules[i] = modules[j] => i = j
  /\ parsed = Members(modules)
  /\ \A f \in parsed : \A n \in Imported(f) :
       Found(f, n) \in parsed \cup Members(pending) \cup {NoFile}

\* The module that a name means in an import of a program that was built.
ModuleNamed(n) == modules[CHOOSE i \in HasName(n) : TRUE]

\* In the code of a module every imported function is the one of the module it
\* was imported from, every own one its own, and there is one for each name; and
\* the constructors of an imported type are known, and are those of the type when
\* no other module has the same.
ImportsBound ==
  outcome = Built =>
    \A f \in Members(modules) :
      /\ \A p, q \in targets[f] : p[1] = q[1] => p = q
      /\ \A d \in project.functions[f] : <<d, f>> \in targets[f]
      /\ \A n \in Imported(f) : \A d \in Members(ImportedDefs(f, n)) :
           LET g == ModuleNamed(n)
           IN IF IsFunction(g, d) THEN <<d, g>> \in targets[f]
              ELSE /\ visible[f][d] # NoFile
                   /\ (\A h \in Members(modules) : d \in project.types[h] => h = g)
                        => visible[f][d] = g

\* The build comes to an end, whatever the files import, cycles included.
BuildEnds == <>(outcome # NotYet)

\* Why it does: each step goes on to the next loop of the compiler, or leaves less
\* of the work of this one.  That is the files not parsed yet, of which there are
\* finitely many, and for as many the worklist; the nodes of the graph and for one
\* the imports not resolved yet; the modules without code.
NodesLeft == Len(modules) + 1 - node
ModulesLeft == Len(order) - Len(inits)
NextPhase ==
  <<phase, phase'>> \in {<<"load", "link">>, <<"link", "emit">>} \cup ({"load", "link", "emit"} \X {"done"})
LessLeft ==
  \/ phase = "load" /\ parsed \subseteq parsed' /\ parsed' # parsed
  \/ phase = "load" /\ parsed' = parsed /\ Len(pending') < Len(pending)
  \/ phase = "link" /\ NodesLeft' \in 0..(NodesLeft - 1)
  \/ phase = "link" /\ NodesLeft' = NodesLeft /\ todo' \subseteq todo /\ todo' # todo
  \/ phase = "emit" /\ ModulesLeft' \in 0..(ModulesLeft - 1)
BuildShrinks == [][NextPhase \/ (UNCHANGED phase /\ LessLeft)]_vars

\* What comes out is what RapProject promises: a fault the project has, or an
\* order of everything it needs.
Promise == INSTANCE RapProject WITH
  inits <- IF outcome = Built THEN inits ELSE <<>>

ProjectSpec == Promise!Spec
=============================================================================
