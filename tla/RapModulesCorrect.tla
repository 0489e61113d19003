------------------------- MODULE RapModulesCorrect -------------------------
(***************************************************************************)
(* The build, for any files, names and imports: the types of RapModules,   *)
(* that each file is parsed once and none is forgotten, that what comes    *)
(* out is what RapProject promises, that the imports of a program that was *)
(* built mean what they say, and that no loop can go on for ever.          *)
(***************************************************************************)
EXTENDS RapModules, SequenceTheorems, FiniteSetTheorems, WellFoundedInduction, TLAPS

\* LoadedOnce holds of the files parsed so far because the worklist is a sequence
\* of files, the parsed ones are the modules, and the project stays the same; the
\* types because the loop over the nodes starts with the first.
NodeStarted == phase = "link" => node # 0
Inv == project \in Projects /\ TypeOK /\ LoadedOnce /\ NodeStarted

-----------------------------------------------------------------------------
(* The files of a project.                                                 *)

\* A set of numbers has a first one.
LEMMA FirstInSet ==
  ASSUME NEW S \in SUBSET Nat, S # {}
  PROVE  First(S) \in S /\ \A i \in S : First(S) <= i
<1> DEFINE less == {p \in Nat \X Nat : p[1] < p[2]}
<1>1. OpToRel(<, Nat) = less
  BY Zenon DEF OpToRel
<1>2. IsWellFoundedOn(less, Nat)
  BY <1>1, NatLessThanWellFounded, Zenon
<1>3. PICK x \in S : \A y \in S : <<y, x>> \notin less
  <2> HIDE DEF less
  <2> QED BY <1>2, WFMin
<1>4. ASSUME NEW y \in S PROVE x <= y
  <2>1. x \in Nat /\ y \in Nat
    OBVIOUS
  <2>2. y < x => <<y, x>> \in less
    BY <2>1
  <2> QED BY <1>3, <2>1, <2>2
<1> QED BY <1>4 DEF First

LEMMA ImportedName ==
  ASSUME project \in Projects, NEW f \in File
  PROVE  Imported(f) \subseteq Name
<1>1. project.imports[f] \in Seq(Import)
  BY ProjectAssumption
<1>2. \A i \in DOMAIN project.imports[f] : project.imports[f][i] \in Import
  BY <1>1
<1> QED BY <1>2 DEF Imported, Statements, Import

\* Wherever a search leads, there is a file or none.
LEMMA FoundFile ==
  ASSUME project \in Projects, NEW f \in File, NEW n \in Name
  PROVE  Found(f, n) \in File \cup {NoFile}
<1> DEFINE path == <<project.home[f]>> \o project.roots
           hits == {i \in DOMAIN path : project.entry[path[i]][n] # NoFile}
<1>1. project.home[f] \in Dir /\ project.roots \in Seq(Dir)
      /\ project.entry \in [Dir -> [Name -> File \cup {NoFile}]]
  BY ProjectAssumption
<1>2. path \in Seq(Dir)
  <2>1. <<project.home[f]>> \in Seq(Dir)
    BY <1>1
  <2> QED BY <1>1, <2>1, ConcatProperties
<1>3. CASE hits = {}
  BY <1>3 DEF Found
<1>4. CASE hits # {}
  <2>1. DOMAIN path = 1..Len(path) /\ Len(path) \in Nat
    BY <1>2, LenProperties
  <2>2. First(hits) \in hits
    <3>1. hits \in SUBSET Nat
      BY <2>1
    <3> HIDE DEF hits
    <3> QED BY <1>4, <3>1, FirstInSet
  <2>3. path[First(hits)] \in Dir
    <3>1. First(hits) \in DOMAIN path
      BY <2>2
    <3> HIDE DEF path
    <3> QED BY <1>2, <3>1
  <2>4. project.entry[path[First(hits)]][n] \in File \cup {NoFile}
    <3> HIDE DEF path, hits
    <3> QED BY <1>1, <2>3
  <2>5. Found(f, n) = project.entry[path[First(hits)]][n]
    BY <1>4 DEF Found
  <2> QED BY <2>4, <2>5
<1> QED BY <1>3, <1>4

-----------------------------------------------------------------------------
(* Sequences and what is in them.                                          *)

LEMMA MembersAppend ==
  ASSUME NEW S, NEW s \in Seq(S), NEW x \in S
  PROVE  Members(Append(s, x)) = Members(s) \cup {x}
<1>1. Len(s) \in Nat /\ DOMAIN s = 1..Len(s) /\ DOMAIN Append(s, x) = 1..(Len(s) + 1)
      /\ \A i \in 1..Len(s) : Append(s, x)[i] = s[i]
      /\ Append(s, x)[Len(s) + 1] = x
  BY AppendProperties, LenProperties
<1>2. 1..(Len(s) + 1) = (1..Len(s)) \cup {Len(s) + 1}
  BY <1>1
<1> QED BY <1>1, <1>2 DEF Members

LEMMA MembersConcat ==
  ASSUME NEW S, NEW s \in Seq(S), NEW t \in Seq(S)
  PROVE  Members(s \o t) = Members(s) \cup Members(t)
<1>1. /\ Len(s) \in Nat /\ Len(t) \in Nat
      /\ DOMAIN s = 1..Len(s) /\ DOMAIN t = 1..Len(t) /\ DOMAIN (s \o t) = 1..(Len(s) + Len(t))
      /\ \A i \in 1..(Len(s) + Len(t)) :
           (s \o t)[i] = IF i <= Len(s) THEN s[i] ELSE t[i - Len(s)]
  BY ConcatProperties, LenProperties
<1>2. ASSUME NEW x PROVE x \in Members(s \o t) <=> x \in Members(s) \cup Members(t)
  <2>1. ASSUME x \in Members(s \o t) PROVE x \in Members(s) \cup Members(t)
    <3>1. PICK i \in 1..(Len(s) + Len(t)) : (s \o t)[i] = x
      BY <1>1, <2>1 DEF Members
    <3>2. CASE i <= Len(s)
      BY <1>1, <3>1, <3>2 DEF Members
    <3>3. CASE i > Len(s)
      <4>1. i - Len(s) \in 1..Len(t) /\ t[i - Len(s)] = x
        BY <1>1, <3>1, <3>3
      <4> QED BY <1>1, <4>1 DEF Members
    <3> QED BY <1>1, <3>2, <3>3
  <2>2. ASSUME x \in Members(s) PROVE x \in Members(s \o t)
    BY <1>1, <2>2 DEF Members
  <2>3. ASSUME x \in Members(t) PROVE x \in Members(s \o t)
    <3>1. PICK i \in 1..Len(t) : t[i] = x
      BY <1>1, <2>3 DEF Members
    <3>2. i + Len(s) \in 1..(Len(s) + Len(t)) /\ (s \o t)[i + Len(s)] = x
      BY <1>1, <3>1
    <3> QED BY <1>1, <3>2 DEF Members
  <2> QED BY <2>1, <2>2, <2>3
<1> QED BY <1>2

LEMMA MembersHeadTail ==
  ASSUME NEW S, NEW s \in Seq(S), s # <<>>
  PROVE  Members(s) = {Head(s)} \cup Members(Tail(s))
<1>1. /\ Len(s) \in Nat \ {0} /\ Len(Tail(s)) = Len(s) - 1 /\ Head(s) = s[1]
      /\ \A i \in 1..(Len(s) - 1) : Tail(s)[i] = s[i + 1]
      /\ DOMAIN s = 1..Len(s) /\ DOMAIN Tail(s) = 1..(Len(s) - 1)
  BY HeadTailProperties, LenProperties, EmptySeq
<1>2. ASSUME NEW x PROVE x \in Members(s) <=> x = Head(s) \/ x \in Members(Tail(s))
  <2>1. ASSUME x \in Members(s) PROVE x = Head(s) \/ x \in Members(Tail(s))
    <3>1. PICK i \in 1..Len(s) : s[i] = x
      BY <1>1, <2>1 DEF Members
    <3>2. CASE i = 1
      BY <1>1, <3>1, <3>2
    <3>3. CASE i # 1
      <4>1. i - 1 \in 1..(Len(s) - 1) /\ Tail(s)[i - 1] = x
        BY <1>1, <3>1, <3>3
      <4> QED BY <1>1, <4>1 DEF Members
    <3> QED BY <3>2, <3>3
  <2>2. ASSUME x = Head(s) PROVE x \in Members(s)
    BY <1>1, <2>2 DEF Members
  <2>3. ASSUME x \in Members(Tail(s)) PROVE x \in Members(s)
    <3>1. PICK i \in 1..(Len(s) - 1) : Tail(s)[i] = x
      BY <1>1, <2>3 DEF Members
    <3>2. i + 1 \in 1..Len(s) /\ s[i + 1] = x
      BY <1>1, <3>1
    <3> QED BY <1>1, <3>2 DEF Members
  <2> QED BY <2>1, <2>2, <2>3
<1> QED BY <1>2

-----------------------------------------------------------------------------
(* The loader.                                                             *)

\* Loading a file appends its files to the worklist.
LEMMA LoadParts ==
  ASSUME Inv, Load
  PROVE  \E files \in Seq(File \cup {NoFile}) :
           /\ Head(pending) \in File
           /\ pending' = Tail(pending) \o files
           /\ \A n \in Imported(Head(pending)) :
                Found(Head(pending), n) \in Members(files) \cup {NoFile}
           /\ \A x \in Members(files) :
                x # NoFile /\ \E n \in Imported(Head(pending)) : x = Found(Head(pending), n)
<1> DEFINE f == Head(pending)
<1>1. pending \in Seq(File \cup {NoFile}) /\ pending # <<>> /\ f # NoFile
  BY DEF Load, Inv, TypeOK
<1>2. f \in File
  BY <1>1, HeadTailProperties
<1>3. PICK names \in [1..Cardinality(Leading(f)) -> Leading(f)] :
        /\ InNameOrder(names, Leading(f))
        /\ pending' = Tail(pending) \o [i \in DOMAIN names |-> Found(f, names[i])]
  BY DEF Load
<1> DEFINE files == [i \in DOMAIN names |-> Found(f, names[i])]
<1>4. Leading(f) \subseteq Name /\ Cardinality(Leading(f)) \in Nat
  <2>1. Leading(f) \subseteq Name
    BY <1>2, ImportedName DEF Leading, Inv
  <2>2. IsFiniteSet(Name)
    BY NameAssumption, FS_Interval DEF Name
  <2> QED BY <2>1, <2>2, FS_Subset, FS_CardinalityType
<1>5. \A i \in 1..Cardinality(Leading(f)) : Found(f, names[i]) \in File \cup {NoFile}
  BY <1>2, <1>4, FoundFile DEF Inv
<1>6. files \in Seq(File \cup {NoFile})
  BY <1>4, <1>5
<1>7. ASSUME NEW n \in Imported(f) PROVE Found(f, n) \in Members(files) \cup {NoFile}
  <2>1. CASE Found(f, n) # NoFile
    <3>1. n \in Members(names)
      BY <1>3, <2>1 DEF InNameOrder, Leading
    <3>2. PICK i \in DOMAIN names : names[i] = n
      BY <3>1 DEF Members
    <3>3. i \in DOMAIN files /\ files[i] = Found(f, n)
      BY <3>2
    <3> QED BY <3>3 DEF Members
  <2> QED BY <2>1
<1>8. ASSUME NEW x \in Members(files)
      PROVE  x # NoFile /\ \E n \in Imported(f) : x = Found(f, n)
  <2>1. PICK i \in DOMAIN files : x = files[i]
    BY DEF Members
  <2>2. names[i] \in Leading(f) /\ x = Found(f, names[i])
    BY <2>1
  <2> QED BY <2>2 DEF Leading
<1> QED BY <1>2, <1>3, <1>6, <1>7, <1>8

LEMMA LoadInv == ASSUME Inv, Load PROVE Inv'
<1> DEFINE f == Head(pending)
<1>1. /\ f \notin parsed /\ parsed' = parsed \cup {f} /\ modules' = Append(modules, f)
      /\ pending # <<>>
      /\ UNCHANGED <<project, phase, node, todo, resolved, edges, order, constructors,
                     targets, visible, inits>>
  BY DEF Load, NewFile, graph, code
<1>2. /\ pending \in Seq(File \cup {NoFile}) /\ modules \in Seq(File)
      /\ parsed = Members(modules)
  BY DEF Inv, TypeOK, LoadedOnce
<1>3. PICK files \in Seq(File \cup {NoFile}) :
        /\ f \in File
        /\ pending' = Tail(pending) \o files
        /\ \A n \in Imported(f) : Found(f, n) \in Members(files) \cup {NoFile}
  BY LoadParts
<1>4. Tail(pending) \in Seq(File \cup {NoFile})
  BY <1>1, <1>2, HeadTailProperties
<1>5. TypeOK'
  <2>1. pending' \in Seq(File \cup {NoFile})
    BY <1>3, <1>4, ConcatProperties
  <2>2. modules' \in Seq(File) /\ Len(modules') = Len(modules) + 1 /\ Len(modules) \in Nat
    BY <1>1, <1>2, <1>3, AppendProperties, LenProperties
  <2>3. node' \in 0..(Len(modules') + 1)
    BY <1>1, <2>2 DEF Inv, TypeOK
  <2> QED BY <1>1, <1>3, <2>1, <2>2, <2>3 DEF Inv, TypeOK
<1>6. parsed' = Members(modules')
  BY <1>1, <1>2, <1>3, MembersAppend
<1>7. Members(pending') = Members(Tail(pending)) \cup Members(files)
  <2>1. \A s, t \in Seq(File \cup {NoFile}) : Members(s \o t) = Members(s) \cup Members(t)
    BY MembersConcat
  <2> QED BY <1>3, <1>4, <2>1
<1>8. Members(pending) = {f} \cup Members(Tail(pending))
  BY <1>1, <1>2, MembersHeadTail
<1>9. ASSUME NEW g \in parsed', NEW n \in Imported(g)'
      PROVE  Found(g, n)' \in parsed' \cup Members(pending') \cup {NoFile}
  <2>1. Imported(g)' = Imported(g) /\ Found(g, n)' = Found(g, n)
    BY <1>1 DEF Imported, Statements, Found
  <2>2. CASE g = f
    BY <1>3, <1>7, <2>1, <2>2
  <2>3. CASE g \in parsed
    <3>1. Found(g, n) \in parsed \cup Members(pending) \cup {NoFile}
      BY <2>1, <2>3 DEF Inv, LoadedOnce
    <3> QED BY <1>1, <1>7, <1>8, <2>1, <3>1
  <2> QED BY <1>1, <2>2, <2>3
<1>10. \A i, j \in DOMAIN modules' : modules'[i] = modules'[j] => i = j
  <2>1. /\ Len(modules) \in Nat /\ DOMAIN modules = 1..Len(modules)
        /\ DOMAIN modules' = 1..(Len(modules) + 1)
        /\ \A i \in 1..Len(modules) : modules'[i] = modules[i]
        /\ modules'[Len(modules) + 1] = f
    BY <1>1, <1>2, <1>3, AppendProperties, LenProperties
  <2>2. \A i \in 1..Len(modules) : modules[i] # f
    BY <1>1, <1>2, <2>1 DEF Members
  <2>3. \A i, j \in 1..Len(modules) : modules[i] = modules[j] => i = j
    BY <2>1 DEF Inv, LoadedOnce
  <2>4. \A i \in 1..(Len(modules) + 1) : i \in 1..Len(modules) \/ i = Len(modules) + 1
    BY <2>1
  <2> HIDE DEF f
  <2> QED BY <2>1, <2>2, <2>3, <2>4
<1>11. LoadedOnce'
  BY <1>6, <1>9, <1>10 DEF LoadedOnce
<1>12. NodeStarted'
  BY <1>1 DEF Inv, NodeStarted
<1> QED BY <1>1, <1>5, <1>11, <1>12 DEF Inv

LEMMA LoadSeenInv == ASSUME Inv, LoadSeen PROVE Inv'
<1> DEFINE f == Head(pending)
<1>1. /\ f \in parsed /\ pending # <<>> /\ pending' = Tail(pending)
      /\ UNCHANGED <<project, parsed, modules, phase, node, todo, resolved, edges, order,
                     constructors, targets, visible, inits>>
  BY DEF LoadSeen, NewFile, graph, code
<1>2. pending \in Seq(File \cup {NoFile})
  BY DEF Inv, TypeOK
<1>3. Tail(pending) \in Seq(File \cup {NoFile}) /\ Members(pending) = {f} \cup Members(Tail(pending))
  BY <1>1, <1>2, HeadTailProperties, MembersHeadTail
<1>4. TypeOK'
  BY <1>1, <1>3 DEF Inv, TypeOK
<1>5. ASSUME NEW g \in parsed', NEW n \in Imported(g)'
      PROVE  Found(g, n)' \in parsed' \cup Members(pending') \cup {NoFile}
  <2>1. Imported(g)' = Imported(g) /\ Found(g, n)' = Found(g, n)
    BY <1>1 DEF Imported, Statements, Found
  <2>2. Found(g, n) \in parsed \cup Members(pending) \cup {NoFile}
    BY <1>1, <2>1 DEF Inv, LoadedOnce
  <2> QED BY <1>1, <1>3, <2>1, <2>2
<1>6. LoadedOnce'
  BY <1>1, <1>5 DEF Inv, LoadedOnce
<1> QED BY <1>1, <1>4, <1>6 DEF Inv, NodeStarted

-----------------------------------------------------------------------------
(* The graph and the code generator leave the loader's variables alone.    *)

\* A step that keeps them keeps LoadedOnce.
LEMMA LoadedKept ==
  ASSUME Inv, UNCHANGED <<project, modules, loading>>, TypeOK', NodeStarted'
  PROVE  Inv'
<1>1. UNCHANGED <<project, modules, pending, parsed>>
  BY DEF loading
<1>2. ASSUME NEW g \in parsed', NEW n \in Imported(g)'
      PROVE  Found(g, n)' \in parsed' \cup Members(pending') \cup {NoFile}
  <2>1. Imported(g)' = Imported(g) /\ Found(g, n)' = Found(g, n)
    BY <1>1 DEF Imported, Statements, Found
  <2> QED BY <1>1, <2>1 DEF Inv, LoadedOnce
<1>3. LoadedOnce'
  BY <1>1, <1>2 DEF Inv, LoadedOnce
<1> QED BY <1>1, <1>3 DEF Inv

LEMMA LoadFailsInv == ASSUME Inv, LoadFails PROVE Inv'
<1>1. UNCHANGED <<project, modules, loading>> /\ TypeOK' /\ NodeStarted'
  BY DEF LoadFails, End, Inv, TypeOK, NodeStarted, loading, graph, code
<1> QED BY <1>1, LoadedKept

LEMMA NameNodesInv == ASSUME Inv, NameNodes PROVE Inv'
<1>1. UNCHANGED <<project, modules, loading, resolved, edges, order, code>>
  BY DEF NameNodes
<1>2. modules \in Seq(File) /\ Len(modules) \in Nat
  BY LenProperties DEF Inv, TypeOK
<1>3. phase' \in {"link", "done"} /\ node' \in 0..(Len(modules) + 1) /\ todo' \subseteq Name
      /\ NodeStarted'
  <2>1. CASE Repeats # {}
    BY <1>2, <2>1 DEF NameNodes, End, Inv, TypeOK, NodeStarted
  <2>2. CASE Repeats = {}
    <3>1. phase' = "link" /\ node' = 1
          /\ todo' = IF modules = <<>> THEN {} ELSE Imported(modules[1])
      BY <2>2 DEF NameNodes
    <3>2. modules # <<>> => modules[1] \in File
      BY <1>2
    <3> QED BY <1>2, <3>1, <3>2, ImportedName DEF Inv, NodeStarted
  <2> QED BY <2>1, <2>2
<1>4. TypeOK'
  BY <1>1, <1>3 DEF Inv, TypeOK, loading, code
<1> QED BY <1>1, <1>3, <1>4, LoadedKept

\* What can be imported has the type of a name.
LEMMA DefinedDef ==
  ASSUME project \in Projects, NEW g \in File, NEW d, Defined(g, d)
  PROVE  d \in Def
BY ProjectAssumption DEF Defined, IsFunction, IsType

LEMMA LinkInv == ASSUME Inv, Link PROVE Inv'
<1> DEFINE f == modules[node]
           n == First(todo)
           defs == ImportedDefs(f, n)
           g == modules[CHOOSE i \in HasName(n) : TRUE]
<1>1. /\ UNCHANGED <<project, modules, loading, node, order, code>>
      /\ phase = "link" /\ node <= Len(modules)
  BY DEF Link
<1>2. modules \in Seq(File) /\ Len(modules) \in Nat /\ node \in 1..Len(modules)
  BY <1>1, LenProperties DEF Inv, TypeOK, NodeStarted
<1>3. f \in File
  BY <1>2
<1>4. /\ phase' \in {"link", "done"} /\ todo' \subseteq Name
      /\ resolved' \in [File -> SUBSET (Def \X File)] /\ edges' \subseteq File \X File
  <2>1. CASE /\ HasName(n) # {} /\ \A i \in DOMAIN defs : Defined(g, defs[i])
             /\ edges' = edges \cup {<<f, g>>}
             /\ resolved' = [resolved EXCEPT ![f] = @ \cup {<<d, g>> : d \in Members(defs)}]
             /\ todo' = todo \ {n}
             /\ UNCHANGED <<phase, outcome>>
    <3>1. g \in File
      BY <1>2, <2>1 DEF HasName
    <3>2. Members(defs) \subseteq Def
      <4>1. \A i \in DOMAIN defs : defs[i] \in Def
        BY <2>1, <3>1, DefinedDef DEF Inv
      <4> QED BY <4>1 DEF Members
    <3>3. {<<d, g>> : d \in Members(defs)} \subseteq Def \X File
      BY <3>1, <3>2
    <3> HIDE DEF f, g, n, defs
    <3> QED BY <1>1, <1>3, <2>1, <3>1, <3>3 DEF Inv, TypeOK
  <2>2. CASE phase' = "done" /\ UNCHANGED <<todo, resolved, edges>>
    BY <2>2 DEF Inv, TypeOK
  <2> QED BY <2>1, <2>2 DEF Link, End
<1>5. TypeOK' /\ NodeStarted'
  BY <1>1, <1>2, <1>4 DEF Inv, TypeOK, NodeStarted, loading, code
<1> QED BY <1>1, <1>5, LoadedKept

LEMMA NextNodeInv == ASSUME Inv, NextNode PROVE Inv'
<1>1. /\ UNCHANGED <<project, modules, phase, loading, resolved, edges, order, code, outcome>>
      /\ node <= Len(modules) /\ node' = node + 1
      /\ todo' = IF node < Len(modules) THEN Imported(modules[node + 1]) ELSE {}
  BY DEF NextNode
<1>2. modules \in Seq(File) /\ Len(modules) \in Nat /\ node \in 0..Len(modules)
  BY <1>1, LenProperties DEF Inv, TypeOK
<1>3. todo' \subseteq Name
  <2>1. CASE node < Len(modules)
    <3>1. modules[node + 1] \in File
      BY <1>2, <2>1
    <3> QED BY <1>1, <2>1, <3>1, ImportedName DEF Inv
  <2> QED BY <1>1, <2>1
<1>4. node' \in 1..(Len(modules) + 1)
  BY <1>1, <1>2
<1>5. TypeOK' /\ NodeStarted'
  BY <1>1, <1>3, <1>4 DEF Inv, TypeOK, NodeStarted, loading, code
<1> QED BY <1>1, <1>5, LoadedKept

LEMMA SortInv == ASSUME Inv, Sort PROVE Inv'
<1>1. UNCHANGED <<project, modules, loading, node, todo, resolved, edges, code>>
  BY DEF Sort
<1>2. modules \in Seq(File) /\ Len(modules) \in Nat /\ DOMAIN modules = 1..Len(modules)
  BY LenProperties DEF Inv, TypeOK
<1>3. ASSUME NEW s \in TopologicalOrders PROVE CompileOrder(s) \in Seq(File)
  <2>1. s \in [1..Len(modules) -> Members(modules)]
    BY <1>2 DEF TopologicalOrders
  <2>2. Members(modules) \subseteq File
    BY <1>2 DEF Members
  <2>3. s \in Seq(File) /\ Len(s) = Len(modules)
    <3>1. s \in [1..Len(modules) -> File]
      BY <2>1, <2>2
    <3> QED BY <1>2, <3>1, LenProperties
  <2>4. \A i \in 1..Len(s) : Len(s) + 1 - i \in 1..Len(s)
    BY <1>2, <2>3
  <2>5. \A i \in 1..Len(s) : s[Len(s) + 1 - i] \in File
    BY <2>3, <2>4
  <2>6. CompileOrder(s) \in [1..Len(s) -> File]
    BY <2>3, <2>5, LenProperties DEF CompileOrder
  <2> QED BY <1>2, <2>3, <2>6
<1>4. phase' \in {"emit", "done"} /\ order' \in Seq(File)
  BY <1>3 DEF Sort, End, Inv, TypeOK
<1>5. TypeOK' /\ NodeStarted'
  BY <1>1, <1>4 DEF Inv, TypeOK, NodeStarted, loading, code
<1> QED BY <1>1, <1>5, LoadedKept

LEMMA EmitInv == ASSUME Inv, Emit PROVE Inv'
<1> DEFINE f == order[Len(inits) + 1]
           own == {<<d, f>> : d \in project.functions[f]}
           imported == {p \in resolved[f] : IsFunction(p[2], p[1])}
<1>1. /\ UNCHANGED <<project, modules, phase, loading, graph, outcome>>
      /\ Len(inits) < Len(order)
      /\ constructors' = [d \in Def |-> IF d \in project.types[f] THEN f ELSE constructors[d]]
      /\ targets' = [targets EXCEPT ![f] = own \cup imported]
      /\ visible' = [visible EXCEPT ![f] = constructors']
      /\ inits' = Append(inits, f)
  BY DEF Emit
<1>2. f \in File
  <2>1. order \in Seq(File) /\ Len(order) \in Nat /\ Len(inits) \in Nat
    BY LenProperties DEF Inv, TypeOK
  <2> QED BY <1>1, <2>1
<1>3. inits' \in Seq(File)
  BY <1>1, <1>2, AppendProperties DEF Inv, TypeOK
<1>4. own \cup imported \in SUBSET (Def \X File)
  <2>1. project.functions[f] \subseteq Def
    BY <1>2, ProjectAssumption DEF Inv
  <2>2. resolved[f] \subseteq Def \X File
    BY <1>2 DEF Inv, TypeOK
  <2> HIDE DEF f
  <2> QED BY <1>2, <2>1, <2>2
<1>5. constructors' \in [Def -> File \cup {NoFile}]
  <2> HIDE DEF f
  <2> QED BY <1>1, <1>2 DEF Inv, TypeOK
<1>6. /\ targets' \in [File -> SUBSET (Def \X File)]
      /\ visible' \in [File -> [Def -> File \cup {NoFile}]]
  <2> HIDE DEF f, own, imported
  <2> QED BY <1>1, <1>2, <1>4, <1>5 DEF Inv, TypeOK
<1>7. TypeOK' /\ NodeStarted'
  BY <1>1, <1>3, <1>5, <1>6 DEF Inv, TypeOK, NodeStarted, loading, graph
<1> QED BY <1>1, <1>7, LoadedKept

LEMMA EmitMainInv == ASSUME Inv, EmitMain PROVE Inv'
<1>1. UNCHANGED <<project, modules, loading>> /\ TypeOK' /\ NodeStarted'
  BY DEF EmitMain, End, Inv, TypeOK, NodeStarted, loading, graph, code
<1> QED BY <1>1, LoadedKept

LEMMA StutterInv == ASSUME Inv, UNCHANGED vars PROVE Inv'
<1>1. UNCHANGED <<project, modules, loading>> /\ TypeOK' /\ NodeStarted'
  BY DEF vars, Inv, TypeOK, NodeStarted, loading
<1> QED BY <1>1, LoadedKept

-----------------------------------------------------------------------------

LEMMA InitInv == ASSUME Init PROVE Inv
<1>1. project \in Projects /\ pending \in Seq(File \cup {NoFile})
  BY ProjectAssumption DEF Init
<1>2. TypeOK /\ NodeStarted
  <2>1. Len(<<>>) = 0 /\ <<>> \in Seq(File)
    BY EmptySeq
  <2> QED BY <1>1, <2>1 DEF Init, TypeOK, NodeStarted
<1>3. LoadedOnce
  BY DEF Init, LoadedOnce, Members
<1> QED BY <1>1, <1>2, <1>3 DEF Inv

LEMMA InvNext == ASSUME Inv, [Next]_vars PROVE Inv'
BY LoadInv, LoadSeenInv, LoadFailsInv, NameNodesInv, LinkInv, NextNodeInv, SortInv,
   EmitInv, EmitMainInv, StutterInv DEF Next, Step, Done

LEMMA InvAlways == Spec => []Inv
<1>1. Inv /\ [Next]_vars => Inv'
  BY InvNext
<1> QED BY <1>1, InitInv, PTL DEF Spec

\* Every loop over the modules stays within them, and every lookup in the graph
\* and in the tables of the generator is made with a file or a name that is one
\* (build_dependency_graph, BcGen::generate).
THEOREM GraphTyped == Spec => []TypeOK
<1>1. Inv => TypeOK
  BY DEF Inv
<1> QED BY <1>1, InvAlways, PTL

\* Whatever the files, their names and what they import, cycles and self-imports
\* included: no file is parsed twice, and every file that an import of a parsed one
\* leads to is parsed or in the worklist (`parsed_files' and `pending_files' of
\* main.rs).
THEOREM LoadedOnceCorrect == Spec => []LoadedOnce
<1>1. Inv => LoadedOnce
  BY DEF Inv
<1> QED BY <1>1, InvAlways, PTL

-----------------------------------------------------------------------------
(* What the build promises (RapProject).  It has its own copies of the     *)
(* operators on source files; they mean the same.                          *)

\* The files the command line and their imports lead to.
Needed == Promise!Needed

LEMMA SameOperators ==
  /\ \A s : Promise!Members(s) = Members(s)
  /\ \A f : Promise!Imported(f) = Imported(f)
  /\ \A f, n : Promise!Found(f, n) = Found(f, n)
  /\ \A f, n : Promise!ImportedDefs(f, n) = ImportedDefs(f, n)
  /\ \A f, d : Promise!Defined(f, d) = Defined(f, d)
  /\ \A f, d : Promise!IsFunction(f, d) = IsFunction(f, d)
  /\ \A f, d : Promise!IsType(f, d) = IsType(f, d)
<1>1. \A S : Promise!First(S) = First(S)
  BY DEF Promise!First, First
<1>2. \A f : Promise!Statements(f) = Statements(f)
  BY DEF Promise!Statements, Statements
<1>3. \A f, d : Promise!IsFunction(f, d) = IsFunction(f, d)
  BY DEF Promise!IsFunction, IsFunction
<1>4. \A f, d : Promise!IsType(f, d) = IsType(f, d)
  BY <1>3 DEF Promise!IsType, IsType
<1>5. \A f, d : Promise!Defined(f, d) = Defined(f, d)
  BY <1>3, <1>4 DEF Promise!Defined, Defined
<1>6. \A f, n : Promise!Found(f, n) = Found(f, n)
  BY <1>1 DEF Promise!Found, Found
<1>7. \A f : Promise!Imported(f) = Imported(f)
  BY <1>2 DEF Promise!Imported, Imported
<1>8. \A f, n : Promise!ImportedDefs(f, n) = ImportedDefs(f, n)
  BY <1>2 DEF Promise!ImportedDefs, ImportedDefs
<1>9. \A s : Promise!Members(s) = Members(s)
  BY DEF Promise!Members, Members
<1> QED BY <1>3, <1>4, <1>5, <1>6, <1>7, <1>8, <1>9

LEMMA SameResults ==
  /\ Promise!NotYet = NotYet /\ Promise!Built = Built
  /\ \A k, x : Promise!Error(k, x) = Error(k, x)
BY DEF Promise!NotYet, NotYet, Promise!Built, Built, Promise!Error, Error

\* What is needed is closed under imports, and the least such set.
LEMMA NeededClosed ==
  ASSUME project \in Projects
  PROVE  /\ Needed \subseteq File
         /\ Members(project.args) \cap File \subseteq Needed
         /\ \A f \in Needed : \A n \in Imported(f) : Found(f, n) \in Needed \cup {NoFile}
<1>1. Needed \subseteq File
  BY DEF Needed, Promise!Needed
<1>2. ASSUME NEW S \in SUBSET File, Promise!Closed(S)
      PROVE  /\ Members(project.args) \cap File \subseteq S
             /\ \A f \in S : \A n \in Imported(f) : Found(f, n) \in S \cup {NoFile}
  BY <1>2, SameOperators DEF Promise!Closed
<1>3. \A S \in SUBSET File : Promise!Closed(S) => Needed \subseteq S
  BY DEF Needed, Promise!Needed
<1>4. Members(project.args) \cap File \subseteq Needed
  BY <1>2 DEF Needed, Promise!Needed
<1>5. ASSUME NEW f \in Needed, NEW n \in Imported(f)
      PROVE  Found(f, n) \in Needed \cup {NoFile}
  <2>1. Found(f, n) \in File \cup {NoFile}
    BY <1>1, ImportedName, FoundFile
  <2>2. ASSUME NEW S \in SUBSET File, Promise!Closed(S), Found(f, n) # NoFile
        PROVE  Found(f, n) \in S
    BY <1>2, <1>3, <2>2
  <2> QED BY <2>1, <2>2 DEF Needed, Promise!Needed
<1> QED BY <1>1, <1>4, <1>5

LEMMA NeededLeast ==
  ASSUME NEW S \in SUBSET File,
         Members(project.args) \cap File \subseteq S,
         \A f \in S : \A n \in Imported(f) : Found(f, n) \in S \cup {NoFile}
  PROVE  Needed \subseteq S
<1>1. Promise!Closed(S)
  BY SameOperators DEF Promise!Closed
<1> QED BY <1>1 DEF Needed, Promise!Needed

LEMMA NeededKept == ASSUME UNCHANGED project PROVE Needed' = Needed
BY DEF Needed, Promise!Needed, Promise!Closed, Promise!Members, Promise!Imported, Promise!Found,
       Promise!Statements

-----------------------------------------------------------------------------
(* The worklist holds what is needed and nothing else.                     *)

\* What is parsed or waits is needed, and what the command line names is parsed or
\* waits: with LoadedOnce, when nothing waits all that is needed is parsed.
OnlyNeeded ==
  /\ parsed \subseteq Needed /\ parsed \cap project.broken = {}
  /\ Members(pending) \subseteq Needed \cup {NoFile}
  /\ NoFile \in Members(pending) => NoFile \in Members(project.args)
  /\ Members(project.args) \subseteq parsed \cup Members(pending)

LEMMA AllLoaded ==
  ASSUME Inv, OnlyNeeded, pending = <<>>
  PROVE  Needed = parsed /\ parsed = Members(modules) /\ NoFile \notin Members(project.args)
<1>1. Members(pending) = {}
  BY DEF Members
<1>2. NoFile \notin parsed
  BY NameAssumption DEF Inv, TypeOK
<1>3. parsed \in SUBSET File
  BY DEF Inv, TypeOK
<1>4. \A f \in parsed : \A n \in Imported(f) : Found(f, n) \in parsed \cup {NoFile}
  BY <1>1 DEF Inv, LoadedOnce
<1>5. Needed \subseteq parsed
  BY <1>1, <1>3, <1>4, NeededLeast DEF OnlyNeeded
<1> QED BY <1>1, <1>2, <1>5 DEF OnlyNeeded, Inv, LoadedOnce

LEMMA OnlyNeededInit == ASSUME Init PROVE OnlyNeeded
<1>1. project \in Projects /\ pending = project.args /\ parsed = {}
  BY DEF Init
<1>2. pending \in Seq(File \cup {NoFile})
  BY <1>1, ProjectAssumption
<1>3. Members(pending) \subseteq File \cup {NoFile}
  BY <1>2 DEF Members
<1> QED BY <1>1, <1>3, NeededClosed DEF OnlyNeeded

LEMMA LoadOnlyNeeded == ASSUME Inv, OnlyNeeded, Load PROVE OnlyNeeded'
<1> DEFINE f == Head(pending)
<1>1. /\ f \notin project.broken /\ parsed' = parsed \cup {f} /\ pending # <<>> /\ f # NoFile
      /\ UNCHANGED project
  BY DEF Load
<1>2. PICK files \in Seq(File \cup {NoFile}) :
        /\ pending' = Tail(pending) \o files
        /\ \A x \in Members(files) : x # NoFile /\ \E n \in Imported(f) : x = Found(f, n)
  BY LoadParts
<1>3. pending \in Seq(File \cup {NoFile}) /\ Tail(pending) \in Seq(File \cup {NoFile})
      /\ Members(pending) = {f} \cup Members(Tail(pending))
  BY <1>1, HeadTailProperties, MembersHeadTail DEF Inv, TypeOK
<1>4. Members(pending') = Members(Tail(pending)) \cup Members(files)
  <2>1. \A s, t \in Seq(File \cup {NoFile}) : Members(s \o t) = Members(s) \cup Members(t)
    BY MembersConcat
  <2> QED BY <1>2, <1>3, <2>1
<1>5. f \in Needed
  BY <1>1, <1>3 DEF OnlyNeeded
<1>6. Members(files) \subseteq Needed /\ NoFile \notin Members(files)
  BY <1>2, <1>5, NeededClosed DEF Inv
<1>7. Needed' = Needed
  BY <1>1, NeededKept
<1>8. project'.args = project.args /\ project'.broken = project.broken
  BY <1>1
<1> HIDE DEF f
<1> QED BY <1>1, <1>3, <1>4, <1>5, <1>6, <1>7, <1>8 DEF OnlyNeeded

LEMMA SeenOnlyNeeded == ASSUME Inv, OnlyNeeded, LoadSeen PROVE OnlyNeeded'
<1> DEFINE f == Head(pending)
<1>1. f \in parsed /\ f # NoFile /\ pending # <<>> /\ pending' = Tail(pending)
      /\ UNCHANGED <<project, parsed>>
  BY DEF LoadSeen, NewFile
<1>2. Members(pending) = {f} \cup Members(Tail(pending))
  BY <1>1, MembersHeadTail DEF Inv, TypeOK
<1>3. Needed' = Needed /\ project'.args = project.args /\ project'.broken = project.broken
  BY <1>1, NeededKept
<1> HIDE DEF f
<1> QED BY <1>1, <1>2, <1>3 DEF OnlyNeeded

LEMMA OnlyNeededNext == ASSUME Inv, OnlyNeeded, [Next]_vars PROVE OnlyNeeded'
<1>1. ASSUME UNCHANGED <<project, loading>> PROVE OnlyNeeded'
  <2>1. UNCHANGED <<project, parsed, pending>>
    BY <1>1 DEF loading
  <2>2. Needed' = Needed
    BY <2>1, NeededKept
  <2> QED BY <2>1, <2>2 DEF OnlyNeeded
<1>2. Load \/ LoadSeen \/ UNCHANGED <<project, loading>>
  BY DEF Next, Step, Done, vars, loading, LoadFails, NameNodes, Link, NextNode, Sort, Emit, EmitMain
<1> QED BY <1>1, <1>2, LoadOnlyNeeded, SeenOnlyNeeded

-----------------------------------------------------------------------------
(* The phases of a build, and what holds between them.                     *)

\* Which variables a phase has not touched yet, and what it found when it began.
Staged ==
  /\ phase = "done" <=> outcome # NotYet
  /\ phase = "load" => node = 0
  /\ phase \in {"link", "emit"} => node # 0
  /\ node = 0 => resolved = [f \in File |-> {}] /\ edges = {}
  /\ node # 0 => pending = <<>> /\ Repeats = {}
  /\ node \in DOMAIN modules => todo \subseteq Imported(modules[node])

LEMMA Results ==
  /\ Built # NotYet
  /\ \A k, x : k # "none" => Error(k, x) # NotYet
  /\ \A k, x : k # "built" => Error(k, x) # Built
BY DEF Built, NotYet, Error

\* What depends on the project and the modules only.
LEMMA SameModules ==
  ASSUME UNCHANGED <<project, modules>>
  PROVE  /\ Repeats' = Repeats
         /\ \A n : HasName(n)' = HasName(n) /\ ModuleNamed(n)' = ModuleNamed(n)
         /\ \A f : Imported(f)' = Imported(f)
         /\ \A f, n : ImportedDefs(f, n)' = ImportedDefs(f, n)
         /\ \A f, d : /\ IsFunction(f, d)' = IsFunction(f, d) /\ IsType(f, d)' = IsType(f, d)
                      /\ Defined(f, d)' = Defined(f, d)
BY DEF Repeats, HasName, ModuleNamed, Imported, Statements, ImportedDefs, IsFunction, IsType, Defined

LEMMA StagedInit == ASSUME Init PROVE Staged
<1>1. node = 0 /\ phase = "load" /\ outcome = NotYet /\ edges = {} /\ modules = <<>>
      /\ resolved = [f \in File |-> {}]
  BY DEF Init
<1>2. 0 \notin DOMAIN modules
  BY <1>1
<1> QED BY <1>1, <1>2 DEF Staged

\* How a build ends.
LEMMA EndsOnce ==
  ASSUME NEW k, NEW x, k \notin {"none", "built"}, End(Error(k, x))
  PROVE  phase' = "done" /\ outcome' = Error(k, x) /\ outcome' # NotYet /\ outcome' # Built
BY Results DEF End

\* A set of numbers with a bound has a last one.
LEMMA LastInSet ==
  ASSUME NEW n \in Nat, NEW S \in SUBSET (1..n), S # {}
  PROVE  (CHOOSE i \in S : \A j \in S : j <= i) \in S
<1> DEFINE T == {n - i : i \in S}
<1>1. T \in SUBSET Nat /\ T # {}
  <2>1. \A i \in S : i \in Nat /\ n - i \in Nat
    OBVIOUS
  <2> QED BY <2>1
<1>2. First(T) \in T /\ \A j \in T : First(T) <= j
  <2> HIDE DEF T
  <2> QED BY <1>1, FirstInSet
<1>3. PICK i \in S : First(T) = n - i
  BY <1>2
<1>4. \A j \in S : j <= i
  <2> SUFFICES ASSUME NEW j \in S PROVE j <= i
    OBVIOUS
  <2>1. n - i <= n - j
    BY <1>2, <1>3
  <2>2. i \in Nat /\ j \in Nat
    OBVIOUS
  <2> HIDE DEF T
  <2> QED BY <2>1, <2>2
<1> QED BY <1>4

LEMMA ImportListed ==
  ASSUME project \in Projects, NEW f \in File, NEW n \in Imported(f)
  PROVE  ImportedDefs(f, n) \in Seq(Def)
<1> DEFINE same == {i \in Statements(f) : project.imports[f][i].name = n}
           last == CHOOSE i \in same : \A j \in same : j <= i
<1>1. project.imports[f] \in Seq(Import)
  BY ProjectAssumption
<1>2. /\ Len(project.imports[f]) \in Nat /\ Statements(f) = 1..Len(project.imports[f])
      /\ \A i \in Statements(f) : project.imports[f][i] \in Import
  BY <1>1, LenProperties DEF Statements
<1>3. same # {} /\ same \in SUBSET (1..Len(project.imports[f]))
  BY <1>2 DEF Imported
<1>4. last \in same
  <2> HIDE DEF same
  <2> QED BY <1>2, <1>3, LastInSet
<1>5. project.imports[f][last] \in Import
  <2> HIDE DEF last
  <2> QED BY <1>2, <1>4
<1>6. ImportedDefs(f, n) = project.imports[f][last].defs
  BY DEF ImportedDefs
<1> QED BY <1>5, <1>6 DEF Import

\* The import that Link looks at: from which module into which, and what it lists.
Importer == modules[node]
ImportName == First(todo)
Exporter == ModuleNamed(ImportName)
Listed == ImportedDefs(Importer, ImportName)
TakenAt(i) ==
  {p[1] : p \in resolved[Importer]}
    \cup {Listed[j] : j \in {k \in DOMAIN Listed : AddedBefore(Exporter, Listed, k, i)}}

AllDefined == \A i \in DOMAIN Listed : Defined(Exporter, Listed[i])
ClashAt(i) == Clash(Importer, Exporter, TakenAt(i), Listed[i])

\* How an import is resolved, and how it is refused.
Links ==
  /\ HasName(ImportName) # {} /\ AllDefined /\ \A i \in DOMAIN Listed : ~ClashAt(i)
  /\ edges' = edges \cup {<<Importer, Exporter>>}
  /\ resolved' =
       [resolved EXCEPT ![Importer] = @ \cup {<<d, Exporter>> : d \in Members(Listed)}]
  /\ todo' = todo \ {ImportName}
  /\ UNCHANGED <<phase, outcome>>

LinkFails ==
  /\ \/ HasName(ImportName) = {} /\ End(Error("ModuleNotFound", ImportName))
     \/ /\ HasName(ImportName) # {}
        /\ \E i \in DOMAIN Listed :
             ~Defined(Exporter, Listed[i]) /\ End(Error("DefinitionNotFound", Listed[i]))
     \/ /\ HasName(ImportName) # {}
        /\ \E i \in DOMAIN Listed :
             ClashAt(i) /\ End(Error("DuplicateDefinition", Listed[i]))
  /\ UNCHANGED <<todo, resolved, edges>>

\* Where Link is, and what it is about.
LEMMA LinkPlace ==
  ASSUME Inv, Staged, Link
  PROVE  /\ modules \in Seq(File) /\ Len(modules) \in Nat /\ DOMAIN modules = 1..Len(modules)
         /\ node \in 1..Len(modules) /\ Importer \in File
         /\ todo \subseteq Imported(Importer) /\ ImportName \in todo /\ ImportName \in Name
         /\ Listed \in Seq(Def)
<1>1. phase = "link" /\ node <= Len(modules) /\ todo # {}
  BY DEF Link
<1>2. modules \in Seq(File) /\ Len(modules) \in Nat /\ DOMAIN modules = 1..Len(modules)
  BY LenProperties DEF Inv, TypeOK
<1>3. node \in 1..Len(modules) /\ Importer \in File
  BY <1>1, <1>2 DEF Inv, TypeOK, NodeStarted, Importer
<1>4. todo \subseteq Imported(Importer)
  BY <1>2, <1>3 DEF Staged, Importer
<1>5. todo \subseteq Name
  BY DEF Inv, TypeOK
<1>6. ImportName \in todo
  BY <1>1, <1>5, FirstInSet, NameAssumption DEF Name, ImportName
<1>7. Listed \in Seq(Def)
  BY <1>3, <1>4, <1>6, ImportListed DEF Listed, Inv
<1> QED BY <1>2, <1>3, <1>4, <1>5, <1>6, <1>7

LEMMA LinkCases == ASSUME Inv, Staged, Link PROVE Links \/ LinkFails
<1> DEFINE unknown == {i \in DOMAIN Listed : ~Defined(Exporter, Listed[i])}
           clashing == {i \in DOMAIN Listed : ClashAt(i)}
<1>1. \/ /\ HasName(ImportName) = {}
         /\ End(Error("ModuleNotFound", ImportName)) /\ UNCHANGED <<todo, resolved, edges>>
      \/ /\ HasName(ImportName) # {} /\ unknown # {}
         /\ End(Error("DefinitionNotFound", Listed[First(unknown)]))
         /\ UNCHANGED <<todo, resolved, edges>>
      \/ /\ HasName(ImportName) # {} /\ unknown = {} /\ clashing # {}
         /\ \E i \in clashing :
              /\ \A j \in clashing \ {i} : AddedBefore(Exporter, Listed, i, j)
              /\ End(Error("DuplicateDefinition", Listed[i]))
         /\ UNCHANGED <<todo, resolved, edges>>
      \/ /\ HasName(ImportName) # {} /\ unknown = {} /\ clashing = {}
         /\ edges' = edges \cup {<<Importer, Exporter>>}
         /\ resolved' =
              [resolved EXCEPT ![Importer] = @ \cup {<<d, Exporter>> : d \in Members(Listed)}]
         /\ todo' = todo \ {ImportName}
         /\ UNCHANGED <<phase, outcome>>
  BY Zenon DEF Link, Importer, ImportName, Exporter, ModuleNamed, Listed, TakenAt, ClashAt
<1>2. unknown # {} => First(unknown) \in unknown
  <2>1. unknown \in SUBSET Nat
    <3>1. DOMAIN Listed = 1..Len(Listed) /\ Len(Listed) \in Nat
      BY LinkPlace, LenProperties
    <3> QED BY <3>1
  <2> HIDE DEF unknown
  <2> QED BY <2>1, FirstInSet
<1>3. unknown = {} <=> AllDefined
  BY DEF AllDefined
<1> QED BY <1>1, <1>2, <1>3 DEF Links, LinkFails

LEMMA StagedNext == ASSUME Inv, Inv', Staged, [Next]_vars PROVE Staged'
<1>0. modules \in Seq(File) /\ Len(modules) \in Nat /\ DOMAIN modules = 1..Len(modules) /\ node \in Nat
  BY LenProperties DEF Inv, TypeOK
<1>1. CASE Load \/ LoadSeen
  <2>1. phase' = "load" /\ node' = 0 /\ UNCHANGED <<outcome, resolved, edges>>
    BY <1>1 DEF Load, LoadSeen, Staged, graph
  <2>2. 0 \notin DOMAIN modules'
    BY LenProperties DEF Inv, TypeOK
  <2> QED BY <1>1, <2>1, <2>2 DEF Staged, Load, LoadSeen
<1>2. ASSUME UNCHANGED <<project, modules, node, todo, resolved, edges, pending>>,
             phase' = "done" <=> outcome' # NotYet,
             phase' = "load" => phase = "load",
             phase' \in {"link", "emit"} => phase \in {"link", "emit"}
      PROVE  Staged'
  BY <1>2, SameModules DEF Staged
<1>3. CASE LoadFails
  <2>1. phase' = "done" /\ outcome' # NotYet
    BY <1>3, EndsOnce DEF LoadFails
  <2> QED BY <1>2, <1>3, <2>1 DEF LoadFails, graph, loading
<1>4. CASE NameNodes
  <2>1. UNCHANGED <<project, modules, pending, resolved, edges>> /\ phase = "load" /\ pending = <<>>
    BY <1>4 DEF NameNodes, loading
  <2>2. CASE Repeats # {}
    <3>1. phase' = "done" /\ outcome' # NotYet /\ UNCHANGED <<node, todo>>
      BY <1>4, <2>2, EndsOnce DEF NameNodes
    <3> QED BY <1>2, <2>1, <3>1
  <2>3. CASE Repeats = {}
    <3>1. /\ phase' = "link" /\ node' = 1 /\ UNCHANGED outcome
          /\ todo' = IF modules = <<>> THEN {} ELSE Imported(modules[1])
      BY <1>4, <2>3 DEF NameNodes
    <3>2. Repeats' = {} /\ \A f : Imported(f)' = Imported(f)
      BY <2>1, <2>3, SameModules
    <3> QED BY <2>1, <3>1, <3>2 DEF Staged
  <2> QED BY <2>2, <2>3
<1>5. CASE Link
  <2>1. UNCHANGED <<project, modules, pending, node>> /\ phase = "link"
    BY <1>5 DEF Link, loading
  <2>2. /\ todo' \subseteq todo
        /\ \/ phase' = phase /\ outcome' = outcome
           \/ phase' = "done" /\ outcome' # NotYet
    BY <1>5, LinkCases, EndsOnce DEF Links, LinkFails
  <2> QED BY <2>1, <2>2, SameModules DEF Staged
<1>6. CASE NextNode
  <2>1. /\ UNCHANGED <<project, modules, pending, phase, outcome, resolved, edges>>
        /\ phase = "link" /\ node <= Len(modules) /\ node' = node + 1
        /\ todo' = IF node < Len(modules) THEN Imported(modules[node + 1]) ELSE {}
    BY <1>6 DEF NextNode, loading
  <2>2. node' # 0 /\ node # 0
    BY <1>0, <2>1 DEF Staged
  <2> QED BY <1>0, <2>1, <2>2, SameModules DEF Staged
<1>7. CASE Sort
  <2>1. /\ phase = "link"
        /\ \/ phase' = "emit" /\ UNCHANGED outcome
           \/ phase' = "done" /\ outcome' # NotYet
    BY <1>7, EndsOnce DEF Sort
  <2>2. phase' = "done" <=> outcome' # NotYet
    BY <2>1 DEF Staged
  <2> QED BY <1>2, <1>7, <2>1, <2>2 DEF Sort, loading
<1>8. CASE Emit
  <2>1. UNCHANGED <<project, modules, node, todo, resolved, edges, pending, phase, outcome>>
    BY <1>8 DEF Emit, graph, loading
  <2> QED BY <1>2, <2>1 DEF Staged
<1>9. CASE EmitMain
  <2>1. phase' = "done" /\ outcome' # NotYet
    BY <1>9, Results DEF EmitMain, End
  <2> QED BY <1>2, <1>9, <2>1 DEF EmitMain, graph, loading
<1>10. CASE UNCHANGED vars
  <2>1. UNCHANGED <<project, modules, node, todo, resolved, edges, pending, phase, outcome>>
    BY <1>10 DEF vars
  <2> QED BY <1>2, <2>1 DEF Staged
<1> QED BY <1>1, <1>3, <1>4, <1>5, <1>6, <1>7, <1>8, <1>9, <1>10 DEF Next, Step, Done

-----------------------------------------------------------------------------
(* What the imports resolved so far have been found to be.                 *)

\* The imports of the ith module that are resolved.
LinkedNames(i) ==
  IF i < node THEN Imported(modules[i])
  ELSE IF i = node THEN Imported(modules[i]) \ todo ELSE {}

\* An import of n into f leads to a module that has what is listed, and f has nothing
\* of the same name.
ImportGood(f, n) ==
  /\ HasName(n) # {}
  /\ \A d \in Members(ImportedDefs(f, n)) :
       Defined(ModuleNamed(n), d) /\ ~Clash(f, ModuleNamed(n), {}, d)

\* Imports from S into f: what is listed is listed once.
ListedOnce(f, S) ==
  \A n, m \in S : \A j \in DOMAIN ImportedDefs(f, n), k \in DOMAIN ImportedDefs(f, m) :
    ImportedDefs(f, n)[j] = ImportedDefs(f, m)[k] => n = m /\ j = k

\* The pair that a name d imported into f stands for.
ResolvedTo(f, S) ==
  \A d \in Def, g \in File :
    <<d, g>> \in resolved[f] <=>
      \E n \in S : g = ModuleNamed(n) /\ d \in Members(ImportedDefs(f, n))
EdgesTo(f, S) == \A g \in File : <<f, g>> \in edges <=> \E n \in S : g = ModuleNamed(n)

\* The imports S of f are resolved: nothing is wrong with them, and what is recorded of
\* f is what they list.
ModuleLinked(f, S) ==
  (\A n \in S : ImportGood(f, n)) /\ ListedOnce(f, S) /\ ResolvedTo(f, S) /\ EdgesTo(f, S)
Linked == \A i \in DOMAIN modules : ModuleLinked(modules[i], LinkedNames(i))

\* Before the graph is built no import has been resolved.
LEMMA NothingLinked ==
  ASSUME NEW f \in File, resolved[f] = {}, \A g \in File : <<f, g>> \notin edges
  PROVE  ModuleLinked(f, {})
BY DEF ModuleLinked, ListedOnce, ResolvedTo, EdgesTo

LEMMA LinkedBefore == Inv /\ Staged /\ node = 0 => Linked
<1> SUFFICES ASSUME Inv, Staged, node = 0 PROVE Linked
  OBVIOUS
<1>1. modules \in Seq(File) /\ DOMAIN modules = 1..Len(modules)
  BY LenProperties DEF Inv, TypeOK
<1>2. ASSUME NEW i \in DOMAIN modules PROVE LinkedNames(i) = {} /\ modules[i] \in File
  BY <1>1 DEF LinkedNames
<1>3. \A f \in File : resolved[f] = {} /\ \A g \in File : <<f, g>> \notin edges
  BY DEF Staged
<1> QED BY <1>2, <1>3, NothingLinked DEF Linked

\* It depends on the modules, the edges and the pairs of one module.
LEMMA LinkedSame ==
  ASSUME UNCHANGED <<project, modules>>, NEW f, NEW S, ModuleLinked(f, S),
         resolved'[f] = resolved[f], \A g \in File : <<f, g>> \in edges' <=> <<f, g>> \in edges
  PROVE  ModuleLinked(f, S)'
<1>1. \A n : ImportGood(f, n)' <=> ImportGood(f, n)
  BY SameModules DEF ImportGood, Clash, Members
<1>2. ListedOnce(f, S)'
  BY SameModules DEF ListedOnce, ModuleLinked
<1>3. ResolvedTo(f, S)'
  <2>1. \A n, d : (d \in Members(ImportedDefs(f, n)))' <=> d \in Members(ImportedDefs(f, n))
    BY SameModules DEF Members
  <2>2. \A n : ModuleNamed(n)' = ModuleNamed(n)
    BY SameModules
  <2> QED BY <2>1, <2>2 DEF ResolvedTo, ModuleLinked
<1>4. EdgesTo(f, S)'
  BY SameModules DEF EdgesTo, ModuleLinked
<1> QED BY <1>1, <1>2, <1>3, <1>4 DEF ModuleLinked

\* Of two definitions listed, one is added before the other.
LEMMA OneBefore ==
  ASSUME NEW g, NEW i \in Int, NEW j \in Int, i # j, NEW defs
  PROVE  AddedBefore(g, defs, i, j) \/ AddedBefore(g, defs, j, i)
BY DEF AddedBefore

\* An import that is resolved joins the ones before it.
LEMMA LinkAdds ==
  ASSUME Inv, Staged, Link, Links, NEW S \in SUBSET Name, ImportName \notin S,
         NEW f, f = Importer, NEW n, n = ImportName, ModuleLinked(f, S)
  PROVE  ModuleLinked(f, S \cup {n})'
<1>1. /\ UNCHANGED <<project, modules>> /\ f \in File
      /\ modules \in Seq(File) /\ Listed \in Seq(Def) /\ resolved \in [File -> SUBSET (Def \X File)]
      /\ Listed = ImportedDefs(f, n) /\ Exporter = ModuleNamed(n)
  BY LinkPlace DEF Link, Inv, TypeOK, Listed, Exporter
<1>2. DOMAIN Listed = 1..Len(Listed) /\ Len(Listed) \in Nat /\ \A i \in DOMAIN Listed : Listed[i] \in Def
  BY <1>1, LenProperties
<1> DEFINE g == Exporter
<1>3. g \in File /\ \A m \in S : ModuleNamed(m) \in File
  <2>1. ASSUME NEW m, HasName(m) # {} PROVE ModuleNamed(m) \in File
    BY <1>1, <2>1 DEF ModuleNamed, HasName
  <2> QED BY <2>1 DEF Links, Exporter, ModuleLinked, ImportGood
<1>4. \A i \in DOMAIN Listed : ~Clash(f, g, TakenAt(i), Listed[i])
  BY DEF Links, ClashAt
<1>5. ImportGood(f, n)
  BY <1>1, <1>4 DEF Links, AllDefined, ImportGood, Members, Clash
<1>6. ASSUME NEW i \in DOMAIN Listed, NEW j \in DOMAIN Listed, Listed[i] = Listed[j]
      PROVE  i = j
  <2>1. ASSUME NEW k \in DOMAIN Listed, NEW l \in DOMAIN Listed, Listed[k] = Listed[l]
        PROVE  ~AddedBefore(g, Listed, k, l)
    BY <1>4, <2>1 DEF Clash, TakenAt
  <2> QED BY <1>2, <1>6, <2>1, OneBefore
<1>7. ASSUME NEW m \in S, NEW i \in DOMAIN ImportedDefs(f, m), NEW j \in DOMAIN Listed
      PROVE  ImportedDefs(f, m)[i] # Listed[j]
  <2> SUFFICES ASSUME ImportedDefs(f, m)[i] = Listed[j] PROVE FALSE
    OBVIOUS
  <2>1. Listed[j] \in Members(ImportedDefs(f, m))
    BY DEF Members
  <2>2. <<Listed[j], ModuleNamed(m)>> \in resolved[f]
    BY <1>2, <1>3, <2>1 DEF ModuleLinked, ResolvedTo
  <2>3. Listed[j] \in {p[1] : p \in resolved[f]}
    BY <2>2
  <2> QED BY <1>4, <2>3 DEF Clash, TakenAt
<1>8. ListedOnce(f, S \cup {n})
  <2> SUFFICES ASSUME NEW m \in S \cup {n}, NEW l \in S \cup {n},
                      NEW i \in DOMAIN ImportedDefs(f, m), NEW j \in DOMAIN ImportedDefs(f, l),
                      ImportedDefs(f, m)[i] = ImportedDefs(f, l)[j]
               PROVE  m = l /\ i = j
    BY DEF ListedOnce
  <2>1. CASE m \in S /\ l \in S
    BY <2>1 DEF ModuleLinked, ListedOnce
  <2>2. CASE m = n /\ l = n
    BY <1>1, <1>6, <2>2
  <2>3. CASE m \in S /\ l = n
    BY <1>1, <1>7, <2>3
  <2>4. CASE m = n /\ l \in S
    BY <1>1, <1>7, <2>4
  <2> QED BY <2>1, <2>2, <2>3, <2>4
<1>9. \A m : ImportGood(f, m)' <=> ImportGood(f, m)
  BY <1>1, SameModules DEF ImportGood, Clash, Members
<1>10. ListedOnce(f, S \cup {n})'
  <2>1. \A m : ImportedDefs(f, m)' = ImportedDefs(f, m)
    BY <1>1, SameModules
  <2> QED BY <1>8, <2>1 DEF ListedOnce
<1>11. \A m : /\ ModuleNamed(m)' = ModuleNamed(m)
             /\ \A d : (d \in Members(ImportedDefs(f, m)))' <=> d \in Members(ImportedDefs(f, m))
  BY <1>1, SameModules DEF Members
<1>12. ResolvedTo(f, S \cup {n})'
  <2>1. resolved'[f] = resolved[f] \cup {<<d, g>> : d \in Members(Listed)}
    BY <1>1 DEF Links
  <2>2. ASSUME NEW d, NEW h
        PROVE  <<d, h>> \in resolved'[f] <=>
                 <<d, h>> \in resolved[f] \/ (h = g /\ d \in Members(Listed))
    BY <2>1
  <2>3. \A d \in Def, h \in File :
          <<d, h>> \in resolved[f] <=>
            \E m \in S : h = ModuleNamed(m) /\ d \in Members(ImportedDefs(f, m))
    BY DEF ModuleLinked, ResolvedTo
  <2> QED BY <1>1, <1>11, <2>2, <2>3 DEF ResolvedTo
<1>13. EdgesTo(f, S \cup {n})'
  <2>1. \A h : <<f, h>> \in edges' <=> (<<f, h>> \in edges \/ h = g)
    BY DEF Links
  <2>2. \A h \in File : <<f, h>> \in edges <=> \E m \in S : h = ModuleNamed(m)
    BY DEF ModuleLinked, EdgesTo
  <2> QED BY <1>1, <1>11, <2>1, <2>2 DEF EdgesTo
<1> QED BY <1>5, <1>9, <1>10, <1>12, <1>13 DEF ModuleLinked

LEMMA LinkLinked == ASSUME Inv, Staged, Link, Linked PROVE Linked'
<1>1. UNCHANGED <<project, modules, node>> /\ Len(modules) \in Nat /\ DOMAIN modules = 1..Len(modules)
      /\ modules \in Seq(File) /\ node \in 1..Len(modules)
  BY LinkPlace DEF Link
<1>2. SUFFICES ASSUME NEW i \in DOMAIN modules
               PROVE  ModuleLinked(modules[i], LinkedNames(i))'
  BY <1>1 DEF Linked
<1>3. PICK f : f = modules[i]
  OBVIOUS
<1>4. PICK S : S = LinkedNames(i)
  OBVIOUS
<1>5. ModuleLinked(f, S)
  BY <1>3, <1>4 DEF Linked
<1>6. f = modules'[i] /\ f \in File
  BY <1>1, <1>3
<1>7. CASE LinkFails \/ i # node
  <2>1. resolved'[f] = resolved[f] /\ \A g \in File : <<f, g>> \in edges' <=> <<f, g>> \in edges
    <3>1. CASE LinkFails
      BY <3>1 DEF LinkFails
    <3>2. CASE Links /\ i # node
      <4>1. f # Importer
        BY <1>1, <1>3, <3>2 DEF Importer, Inv, LoadedOnce
      <4>2. resolved \in [File -> SUBSET (Def \X File)]
        BY DEF Inv, TypeOK
      <4> QED BY <1>6, <3>2, <4>1, <4>2 DEF Links
    <3> QED BY <1>7, <3>1, <3>2, LinkCases
  <2>2. ModuleLinked(f, S)'
    BY <1>1, <1>5, <2>1, LinkedSame
  <2>3. S = LinkedNames(i)'
    <3>1. CASE LinkFails
      BY <1>1, <1>4, <3>1, SameModules DEF LinkFails, LinkedNames
    <3>2. CASE i # node
      BY <1>1, <1>4, <3>2, SameModules DEF LinkedNames
    <3> QED BY <1>7, <3>1, <3>2
  <2> QED BY <1>6, <2>2, <2>3
<1>8. CASE Links /\ i = node
  <2>1. PICK n : n = ImportName
    OBVIOUS
  <2>2. S = Imported(f) \ todo /\ n \in todo /\ todo \subseteq Imported(f)
    BY <1>1, <1>3, <1>4, <1>8, <2>1, LinkPlace DEF LinkedNames, Importer
  <2>3. S \in SUBSET Name /\ n \notin S /\ f = Importer
    BY <1>3, <1>6, <1>8, <2>2, ImportedName DEF Inv, Importer
  <2>4. ModuleLinked(f, S \cup {n})'
    BY <1>5, <1>8, <2>1, <2>3, LinkAdds
  <2>5. S \cup {n} = LinkedNames(i)'
    <3>1. todo' = todo \ {n} /\ Imported(f)' = Imported(f)
      BY <1>1, <1>8, <2>1, SameModules DEF Links
    <3>2. LinkedNames(i)' = Imported(f)' \ todo'
      BY <1>1, <1>6, <1>8 DEF LinkedNames
    <3> QED BY <2>2, <3>1, <3>2
  <2> QED BY <1>6, <2>4, <2>5
<1> QED BY <1>7, <1>8, LinkCases

\* Going on to the next node leaves the imports of this one resolved.
LEMMA NextLinked == ASSUME Inv, Staged, NextNode, Linked PROVE Linked'
<1>1. /\ UNCHANGED <<project, modules, resolved, edges>> /\ node <= Len(modules) /\ node' = node + 1
      /\ todo = {} /\ todo' = IF node < Len(modules) THEN Imported(modules[node + 1]) ELSE {}
  BY DEF NextNode
<1>2. /\ modules \in Seq(File) /\ Len(modules) \in Nat /\ DOMAIN modules = 1..Len(modules)
      /\ node \in Nat
  BY LenProperties DEF Inv, TypeOK
<1>3. SUFFICES ASSUME NEW i \in DOMAIN modules
               PROVE  ModuleLinked(modules[i], LinkedNames(i))'
  BY <1>1 DEF Linked
<1>4. LinkedNames(i)' = LinkedNames(i)
  <2>1. Imported(modules[i])' = Imported(modules[i])
    BY <1>1, SameModules
  <2>2. CASE i < node
    BY <1>1, <1>2, <2>1, <2>2 DEF LinkedNames
  <2>3. CASE i = node
    BY <1>1, <1>2, <2>1, <2>3 DEF LinkedNames
  <2>4. CASE i = node + 1
    BY <1>1, <1>2, <2>1, <2>4 DEF LinkedNames
  <2>5. CASE i > node + 1
    BY <1>1, <1>2, <2>1, <2>5 DEF LinkedNames
  <2> QED BY <1>2, <2>2, <2>3, <2>4, <2>5
<1>5. PICK f : f = modules[i]
  OBVIOUS
<1>6. PICK S : S = LinkedNames(i)
  OBVIOUS
<1>7. ModuleLinked(f, S)'
  BY <1>1, <1>5, <1>6, LinkedSame DEF Linked
<1> QED BY <1>1, <1>4, <1>5, <1>6, <1>7

LEMMA LinkedNext == ASSUME Inv, Inv', Staged, Staged', Linked, [Next]_vars PROVE Linked'
<1>1. Inv' /\ Staged' /\ (node = 0)' => Linked'
  BY LinkedBefore, PTL
<1>2. CASE Load \/ LoadSeen
  BY <1>1, <1>2 DEF Load, LoadSeen, Staged, graph
<1>3. ASSUME UNCHANGED <<project, modules, node, todo, resolved, edges>> PROVE Linked'
  <2>1. SUFFICES ASSUME NEW i \in DOMAIN modules
                 PROVE  ModuleLinked(modules[i], LinkedNames(i))'
    BY <1>3 DEF Linked
  <2>2. LinkedNames(i)' = LinkedNames(i)
    BY <1>3, SameModules DEF LinkedNames
  <2>3. PICK f : f = modules[i]
    OBVIOUS
  <2>4. PICK S : S = LinkedNames(i)
    OBVIOUS
  <2>5. ModuleLinked(f, S)'
    BY <1>3, <2>3, <2>4, LinkedSame DEF Linked
  <2> QED BY <1>3, <2>2, <2>3, <2>4, <2>5
<1>4. CASE NameNodes
  <2>1. CASE Repeats # {}
    BY <1>3, <1>4, <2>1 DEF NameNodes
  <2>2. CASE Repeats = {}
    <3>1. /\ UNCHANGED <<project, modules, resolved, edges>> /\ phase = "load" /\ node' = 1
          /\ todo' = IF modules = <<>> THEN {} ELSE Imported(modules[1])
      BY <1>4, <2>2 DEF NameNodes
    <3>2. /\ modules \in Seq(File) /\ Len(modules) \in Nat /\ DOMAIN modules = 1..Len(modules)
      BY LenProperties DEF Inv, TypeOK
    <3>3. SUFFICES ASSUME NEW i \in DOMAIN modules
                   PROVE  ModuleLinked(modules[i], LinkedNames(i))'
      BY <3>1 DEF Linked
    <3>4. Imported(modules[i])' = Imported(modules[i])
      BY <3>1, SameModules
    <3>5. LinkedNames(i)' = {}
      BY <3>1, <3>2, <3>4 DEF LinkedNames
    <3>6. PICK f : f = modules[i]
      OBVIOUS
    <3>7. f \in File /\ f = modules'[i]
      BY <3>1, <3>2, <3>6
    <3>8. resolved'[f] = {} /\ \A g \in File : <<f, g>> \notin edges'
      BY <3>1, <3>7 DEF Staged
    <3>9. ModuleLinked(f, {})'
      BY <3>8 DEF ModuleLinked, ListedOnce, ResolvedTo, EdgesTo
    <3> QED BY <3>5, <3>7, <3>9
  <2> QED BY <2>1, <2>2
<1> QED BY <1>2, <1>3, <1>4, LinkLinked, NextLinked
        DEF Next, Step, Done, vars, LoadFails, Sort, Emit, EmitMain, graph

-----------------------------------------------------------------------------
(* The order in which modules are compiled, and how far it has got.        *)

\* s has every module once, after the modules it imports.
DependencyOrder(s) ==
  /\ s \in [DOMAIN modules -> Members(modules)]
  /\ \A i, j \in DOMAIN s : s[i] = s[j] => i = j
  /\ \A i, j \in DOMAIN s : <<s[i], s[j]>> \in edges => j < i

\* From the sorting on, all imports are resolved and the order is one of dependencies.
Ordered ==
  phase = "emit" \/ outcome = Built => node > Len(modules) /\ DependencyOrder(order)

\* The code that is generated is that of a beginning of the order.
Emitted ==
  /\ Len(inits) <= Len(order) /\ \A i \in DOMAIN inits : inits[i] = order[i]
  /\ phase \in {"load", "link"} => inits = <<>>
  /\ outcome = Built => Len(inits) = Len(order) /\ order # <<>>

\* The reverse of an order in which edges point forward.
LEMMA ReversedOrder ==
  ASSUME Inv, NEW s \in TopologicalOrders
  PROVE  DependencyOrder(CompileOrder(s)) /\ Len(CompileOrder(s)) \in Nat
<1> DEFINE N == Len(modules)   t == CompileOrder(s)
<1>1. DOMAIN modules = 1..N /\ N \in Nat
  BY LenProperties DEF Inv, TypeOK
<1>2. /\ s \in [1..N -> Members(modules)]
      /\ \A i, j \in 1..N : s[i] = s[j] => i = j
      /\ \A i, j \in 1..N : <<s[i], s[j]>> \in edges => i < j
  BY <1>1 DEF TopologicalOrders
<1>3. s \in Seq(Members(modules)) /\ Len(s) = N
  BY <1>1, <1>2, LenProperties
<1>4. DOMAIN t = 1..N /\ \A i \in 1..N : t[i] = s[N + 1 - i] /\ N + 1 - i \in 1..N
  BY <1>1, <1>3, LenProperties DEF CompileOrder
<1>5. t \in [1..N -> Members(modules)]
  <2>1. \A i \in 1..N : t[i] \in Members(modules)
    BY <1>2, <1>4
  <2>2. t = [i \in 1..N |-> t[i]]
    BY <1>3, <1>4, LenProperties DEF CompileOrder
  <2> HIDE DEF t
  <2> QED BY <2>1, <2>2
<1>6. ASSUME NEW i \in 1..N, NEW j \in 1..N
      PROVE  /\ t[i] = t[j] => i = j
             /\ <<t[i], t[j]>> \in edges => j < i
  <2>1. PICK k \in 1..N, l \in 1..N : k = N + 1 - i /\ l = N + 1 - j
    BY <1>4
  <2>2. t[i] = s[k] /\ t[j] = s[l]
    BY <1>4, <2>1
  <2>3. (s[k] = s[l] => k = l) /\ (<<s[k], s[l]>> \in edges => k < l)
    BY <1>2
  <2>4. (k = l => i = j) /\ (k < l => j < i)
    BY <1>1, <2>1
  <2> HIDE DEF t
  <2> QED BY <2>2, <2>3, <2>4
<1>7. Len(t) = N
  <2> HIDE DEF t
  <2> QED BY <1>1, <1>5, LenProperties
<1> HIDE DEF t
<1>8. DependencyOrder(t)
  BY <1>1, <1>4, <1>5, <1>6 DEF DependencyOrder
<1> QED BY <1>1, <1>7, <1>8 DEF t

LEMMA OrderedNext == ASSUME Inv, Inv', Staged, Ordered, [Next]_vars PROVE Ordered'
<1>1. ASSUME UNCHANGED <<modules, node, edges, order>>,
             phase' = "emit" \/ outcome' = Built => phase = "emit" \/ outcome = Built
      PROVE  Ordered'
  BY <1>1 DEF Ordered, DependencyOrder, Members
<1>2. ASSUME phase' # "emit", outcome' # Built PROVE Ordered'
  BY <1>2 DEF Ordered
<1>3. CASE Load \/ LoadSeen \/ NextNode
  BY <1>2, <1>3, Results DEF Load, LoadSeen, NextNode, Staged
<1>4. CASE LoadFails
  BY <1>2, <1>4, EndsOnce DEF LoadFails
<1>5. CASE NameNodes
  BY <1>2, <1>5, EndsOnce, Results DEF NameNodes, Staged
<1>6. CASE Link
  BY <1>2, <1>6, LinkCases, EndsOnce, Results DEF Link, Links, LinkFails, Staged
<1>7. CASE Sort
  <2>1. CASE TopologicalOrders = {}
    BY <1>2, <1>7, <2>1, EndsOnce DEF Sort
  <2>2. CASE TopologicalOrders # {}
    <3>1. /\ UNCHANGED <<modules, node, edges>> /\ node > Len(modules)
          /\ \E s \in TopologicalOrders : order' = CompileOrder(s)
      BY <1>7, <2>2 DEF Sort
    <3>2. DependencyOrder(order')
      BY <3>1, ReversedOrder
    <3> QED BY <3>1, <3>2 DEF Ordered, DependencyOrder, Members
  <2> QED BY <2>1, <2>2
<1>8. CASE Emit
  BY <1>1, <1>8 DEF Emit, graph
<1>9. CASE EmitMain
  BY <1>1, <1>9 DEF EmitMain, graph
<1>10. CASE UNCHANGED vars
  BY <1>1, <1>10 DEF vars
<1> QED BY <1>3, <1>4, <1>5, <1>6, <1>7, <1>8, <1>9, <1>10 DEF Next, Step, Done

LEMMA EmittedInit == ASSUME Init PROVE Emitted /\ Ordered
BY Results DEF Init, Emitted, Ordered

LEMMA EmittedNext == ASSUME Inv, Inv', Staged, Emitted, [Next]_vars PROVE Emitted'
<1>0. /\ inits \in Seq(File) /\ Len(inits) \in Nat /\ DOMAIN inits = 1..Len(inits)
      /\ order \in Seq(File) /\ Len(order) \in Nat /\ DOMAIN order = 1..Len(order)
      /\ order' \in Seq(File) /\ Len(order') \in Nat
  BY LenProperties DEF Inv, TypeOK
<1>1. ASSUME UNCHANGED <<inits, order>>, outcome' = Built => outcome = Built,
             phase' \in {"load", "link"} => phase \in {"load", "link"}
      PROVE  Emitted'
  BY <1>1 DEF Emitted
<1>2. CASE Load \/ LoadSeen
  BY <1>1, <1>2 DEF Load, LoadSeen, graph, code
<1>3. CASE LoadFails
  BY <1>1, <1>3, EndsOnce DEF LoadFails, graph, code
<1>4. CASE NameNodes
  BY <1>1, <1>4, EndsOnce DEF NameNodes, code
<1>5. CASE Link
  BY <1>1, <1>5, LinkCases, EndsOnce DEF Link, Links, LinkFails, code
<1>6. CASE NextNode
  BY <1>1, <1>6 DEF NextNode, code
<1>7. CASE Sort
  <2>1. inits' = <<>> /\ (phase' = "emit" \/ phase' = "done") /\ outcome' # Built
    BY <1>7, EndsOnce, Results DEF Sort, code, Emitted, Staged
  <2>2. Len(inits') = 0 /\ DOMAIN inits' = {}
    BY <2>1
  <2>3. Len(inits') <= Len(order') /\ \A i \in DOMAIN inits' : inits'[i] = order'[i]
    BY <1>0, <2>2
  <2> QED BY <2>1, <2>3 DEF Emitted
<1>8. CASE Emit
  <2>1. /\ UNCHANGED <<phase, order, outcome>> /\ phase = "emit" /\ Len(inits) < Len(order)
        /\ inits' = Append(inits, order[Len(inits) + 1])
    BY <1>8 DEF Emit, graph
  <2>2. order[Len(inits) + 1] \in File
    BY <1>0, <2>1
  <2>3. /\ Len(inits') = Len(inits) + 1 /\ DOMAIN inits' = 1..(Len(inits) + 1)
        /\ inits'[Len(inits) + 1] = order[Len(inits) + 1]
        /\ \A i \in 1..Len(inits) : inits'[i] = inits[i]
    BY <1>0, <2>1, <2>2, AppendProperties, LenProperties
  <2>4. ASSUME NEW i \in DOMAIN inits' PROVE inits'[i] = order[i]
    <3>1. i \in 1..Len(inits) \/ i = Len(inits) + 1
      BY <1>0, <2>3
    <3>2. \A j \in 1..Len(inits) : inits[j] = order[j]
      BY <1>0 DEF Emitted
    <3> QED BY <2>3, <3>1, <3>2
  <2>5. outcome' # Built
    BY <2>1, Results DEF Staged
  <2>6. Len(inits') <= Len(order') /\ order' = order
    BY <1>0, <2>1, <2>3
  <2> QED BY <2>1, <2>4, <2>5, <2>6 DEF Emitted
<1>9. CASE EmitMain
  <2>1. UNCHANGED <<inits, order>> /\ phase' = "done" /\ Len(inits) = Len(order)
        /\ outcome' = IF order = <<>> THEN Error("no modules", 0) ELSE Built
    BY <1>9 DEF EmitMain, graph, code, End
  <2> QED BY <1>9, <2>1, Results DEF Emitted
<1>10. CASE UNCHANGED vars
  BY <1>1, <1>10 DEF vars
<1> QED BY <1>2, <1>3, <1>4, <1>5, <1>6, <1>7, <1>8, <1>9, <1>10 DEF Next, Step, Done

-----------------------------------------------------------------------------
(* What the code of the modules compiled so far calls and constructs.      *)

\* The targets of f are its own functions and those it imports.
CallsWhat(f) ==
  \A d \in Def, g \in File :
    <<d, g>> \in targets[f] <=>
      \/ g = f /\ d \in project.functions[f]
      \/ <<d, g>> \in resolved[f] /\ IsFunction(g, d)

\* Among the first k modules of s, h is one that defines the type d, if any does.
Latest(s, h, d, k) ==
  IF h = NoFile THEN \A j \in 1..k : d \notin project.types[s[j]]
  ELSE \E j \in 1..k : h = s[j] /\ d \in project.types[h]

\* The generator knows the types of the modules it has compiled, and the code of each
\* module saw those of the modules up to itself.
CodeBound ==
  /\ \A i \in DOMAIN inits : CallsWhat(inits[i])
  /\ \A d \in Def : Latest(inits, constructors[d], d, Len(inits))
  /\ \A i \in DOMAIN inits : \A d \in Def : Latest(inits, visible[inits[i]][d], d, i)

LEMMA LatestMore ==
  ASSUME NEW s, NEW t, NEW k \in Nat, \A j \in 1..k : t[j] = s[j], NEW h, NEW d, Latest(s, h, d, k)
  PROVE  /\ Latest(t, h, d, k)
         /\ t[k + 1] # NoFile =>
              Latest(t, IF d \in project.types[t[k + 1]] THEN t[k + 1] ELSE h, d, k + 1)
<1>1. Latest(t, h, d, k)
  BY DEF Latest
<1>2. 1..(k + 1) = (1..k) \cup {k + 1}
  OBVIOUS
<1>3. ASSUME t[k + 1] # NoFile, d \in project.types[t[k + 1]] PROVE Latest(t, t[k + 1], d, k + 1)
  BY <1>2, <1>3 DEF Latest
<1>4. ASSUME d \notin project.types[t[k + 1]] PROVE Latest(t, h, d, k + 1)
  BY <1>1, <1>2, <1>4 DEF Latest
<1> QED BY <1>1, <1>3, <1>4

LEMMA CodeBoundInit == ASSUME Init PROVE CodeBound
<1>1. inits = <<>> /\ constructors = [d \in Def |-> NoFile] /\ DOMAIN inits = {} /\ Len(inits) = 0
  BY DEF Init
<1> QED BY <1>1 DEF CodeBound, Latest

LEMMA EmitCodeBound == ASSUME Inv, Ordered, Emitted, CodeBound, Emit PROVE CodeBound'
<1> DEFINE n == Len(inits)
<1>1. PICK f : f = order[n + 1]
  OBVIOUS
<1>2. /\ UNCHANGED <<project, order, resolved>> /\ phase = "emit" /\ n < Len(order)
      /\ constructors' = [d \in Def |-> IF d \in project.types[f] THEN f ELSE constructors[d]]
      /\ targets' = [targets EXCEPT ![f] = {<<d, f>> : d \in project.functions[f]}
                                             \cup {p \in resolved[f] : IsFunction(p[2], p[1])}]
      /\ visible' = [visible EXCEPT ![f] = constructors']
      /\ inits' = Append(inits, f)
  BY <1>1 DEF Emit, graph
<1>3. /\ inits \in Seq(File) /\ n \in Nat /\ DOMAIN inits = 1..n
      /\ order \in Seq(File) /\ Len(order) \in Nat /\ DOMAIN order = 1..Len(order)
      /\ resolved \in [File -> SUBSET (Def \X File)] /\ targets \in [File -> SUBSET (Def \X File)]
      /\ visible \in [File -> [Def -> File \cup {NoFile}]]
  BY LenProperties DEF Inv, TypeOK
<1>4. f \in File /\ f # NoFile
  BY <1>1, <1>2, <1>3, NameAssumption
<1>5. /\ Len(inits') = n + 1 /\ DOMAIN inits' = 1..(n + 1) /\ inits'[n + 1] = f
      /\ \A i \in 1..n : inits'[i] = inits[i]
  BY <1>2, <1>3, <1>4, AppendProperties, LenProperties
<1>6. \A i \in 1..n : inits[i] \in File /\ inits[i] # f
  <2> SUFFICES ASSUME NEW i \in 1..n PROVE inits[i] \in File /\ inits[i] # f
    OBVIOUS
  <2>1. inits[i] \in File /\ inits[i] = order[i]
    <3>1. i \in DOMAIN inits /\ inits[i] \in File
      BY <1>3, ElementOfSeq
    <3> QED BY <3>1 DEF Emitted
  <2>2. i \in DOMAIN order /\ n + 1 \in DOMAIN order /\ i # n + 1
    BY <1>2, <1>3
  <2>3. order[i] # order[n + 1]
    BY <1>2, <2>2 DEF Ordered, DependencyOrder
  <2> QED BY <1>1, <2>1, <2>3
<1>7. \A i \in 1..(n + 1) : i \in 1..n \/ i = n + 1
  BY <1>3
<1>8. CallsWhat(f)'
  <2>1. targets'[f] = {<<d, f>> : d \in project.functions[f]}
                        \cup {p \in resolved[f] : IsFunction(p[2], p[1])}
    BY <1>2, <1>3, <1>4
  <2> SUFFICES ASSUME NEW d \in Def, NEW g \in File
               PROVE  <<d, g>> \in targets'[f] <=>
                        \/ g = f /\ d \in project.functions[f]
                        \/ <<d, g>> \in resolved[f] /\ IsFunction(g, d)
    BY <1>2 DEF CallsWhat, IsFunction
  <2>2. <<d, g>> \in {<<e, f>> : e \in project.functions[f]} <=> g = f /\ d \in project.functions[f]
    OBVIOUS
  <2>3. <<d, g>> \in {p \in resolved[f] : IsFunction(p[2], p[1])}
          <=> <<d, g>> \in resolved[f] /\ IsFunction(g, d)
    BY DEF IsFunction
  <2> QED BY <2>1, <2>2, <2>3
<1>9. ASSUME NEW i \in 1..n PROVE CallsWhat(inits[i])'
  <2>1. PICK h : h = inits[i]
    OBVIOUS
  <2>2. h = inits'[i] /\ targets'[h] = targets[h] /\ CallsWhat(h)
    BY <1>2, <1>3, <1>5, <1>6, <2>1 DEF CodeBound
  <2>3. CallsWhat(h)'
    BY <1>2, <2>2 DEF CallsWhat, IsFunction
  <2> QED BY <2>2, <2>3
<1>10. ASSUME NEW d \in Def PROVE Latest(inits', constructors'[d], d, n + 1)
  <2>1. Latest(inits, constructors[d], d, n)
    BY DEF CodeBound
  <2>2. constructors'[d] = IF d \in project.types[inits'[n + 1]] THEN inits'[n + 1] ELSE constructors[d]
    BY <1>2, <1>5
  <2>3. inits'[n + 1] # NoFile
    BY <1>4, <1>5
  <2> HIDE DEF n
  <2> QED BY <1>3, <1>5, <2>1, <2>2, <2>3, LatestMore
<1>11. ASSUME NEW i \in 1..n, NEW d \in Def PROVE Latest(inits', visible'[inits'[i]][d], d, i)
  <2>1. visible'[inits'[i]] = visible[inits[i]]
    BY <1>2, <1>3, <1>5, <1>6
  <2>2. Latest(inits, visible[inits[i]][d], d, i)
    BY <1>3 DEF CodeBound
  <2>3. i \in Nat /\ \A j \in 1..i : inits'[j] = inits[j]
    BY <1>3, <1>5
  <2> QED BY <2>1, <2>2, <2>3, LatestMore
<1>12. visible'[inits'[n + 1]] = constructors'
  BY <1>2, <1>3, <1>4, <1>5
<1>13. \A i \in DOMAIN inits' : \A d \in Def : Latest(inits', visible'[inits'[i]][d], d, i)
  BY <1>5, <1>7, <1>10, <1>11, <1>12
<1>14. \A i \in DOMAIN inits' : CallsWhat(inits[i])'
  <2> SUFFICES ASSUME NEW i \in DOMAIN inits' PROVE CallsWhat(inits[i])'
    OBVIOUS
  <2>1. CASE i \in 1..n
    BY <1>9, <2>1
  <2>2. CASE i = n + 1
    BY <1>5, <1>8, <2>2
  <2> QED BY <1>5, <1>7, <2>1, <2>2
<1>15. \A h, d, k : Latest(inits, h, d, k)' <=> Latest(inits', h, d, k)
  BY <1>2 DEF Latest
<1> QED BY <1>5, <1>10, <1>13, <1>14, <1>15 DEF CodeBound

LEMMA CodeBoundNext ==
  ASSUME Inv, Staged, Ordered, Emitted, CodeBound, [Next]_vars
  PROVE  CodeBound'
<1>1. ASSUME UNCHANGED <<project, code>>, resolved' = resolved \/ inits = <<>> PROVE CodeBound'
  <2>1. UNCHANGED <<constructors, targets, visible, inits>>
    BY <1>1 DEF code
  <2>2. \A i \in DOMAIN inits : resolved' = resolved
    BY <1>1
  <2> QED BY <1>1, <2>1, <2>2 DEF CodeBound, CallsWhat, IsFunction, Latest
<1>2. CASE Link
  BY <1>1, <1>2 DEF Link, Emitted
<1>3. CASE Load \/ LoadSeen \/ LoadFails \/ NameNodes \/ NextNode \/ Sort \/ EmitMain \/ UNCHANGED vars
  BY <1>1, <1>3
     DEF Load, LoadSeen, LoadFails, NameNodes, NextNode, Sort, EmitMain, vars, graph, code
<1> QED BY <1>2, <1>3, EmitCodeBound DEF Next, Step, Done

-----------------------------------------------------------------------------
(* The invariant, and what it says of the modules once they are loaded.    *)

Good == Inv /\ OnlyNeeded /\ Staged /\ Linked /\ Ordered /\ Emitted /\ CodeBound

LEMMA GoodAlways == Spec => []Good
<1>1. Init => Good
  <2> SUFFICES ASSUME Init PROVE Good
    OBVIOUS
  <2>1. Inv /\ OnlyNeeded /\ Staged /\ Ordered /\ Emitted /\ CodeBound
    BY InitInv, OnlyNeededInit, StagedInit, EmittedInit, CodeBoundInit
  <2>2. node = 0
    BY DEF Init
  <2> QED BY <2>1, <2>2, LinkedBefore DEF Good
<1>2. Good /\ [Next]_vars => Good'
  <2> SUFFICES ASSUME Good, [Next]_vars PROVE Good'
    OBVIOUS
  <2>1. Inv'
    BY InvNext DEF Good
  <2>2. Staged'
    BY <2>1, StagedNext DEF Good
  <2> QED BY <2>1, <2>2, OnlyNeededNext, LinkedNext, OrderedNext, EmittedNext, CodeBoundNext DEF Good
<1> QED BY <1>1, <1>2, PTL DEF Spec

LEMMA ModulesKnown ==
  ASSUME Good, node # 0
  PROVE  /\ Needed = Members(modules) /\ Needed \subseteq File
         /\ NoFile \notin Members(project.args) /\ Needed \cap project.broken = {}
         /\ \A f, g \in Needed : project.stem[f] = project.stem[g] => f = g
         /\ \A f \in Needed : HasName(project.stem[f]) # {} /\ ModuleNamed(project.stem[f]) = f
         /\ \A n : HasName(n) # {} => ModuleNamed(n) \in Needed /\ project.stem[ModuleNamed(n)] = n
<1>1. pending = <<>> /\ Repeats = {}
  BY DEF Good, Staged
<1>2. /\ Needed = Members(modules) /\ NoFile \notin Members(project.args)
      /\ Needed \cap project.broken = {}
  BY <1>1, AllLoaded DEF Good, OnlyNeeded
<1>3. modules \in Seq(File) /\ Len(modules) \in Nat /\ DOMAIN modules = 1..Len(modules)
  BY LenProperties DEF Good, Inv, TypeOK
<1>4. Needed \subseteq File
  BY NeededClosed DEF Good, Inv
<1>5. ASSUME NEW i \in DOMAIN modules, NEW j \in DOMAIN modules,
             project.stem[modules[i]] = project.stem[modules[j]]
      PROVE  i = j
  <2>1. ~(i < j) /\ ~(j < i)
    BY <1>1, <1>5 DEF Repeats, HasName
  <2> QED BY <1>3, <2>1
<1>6. \A f, g \in Needed : project.stem[f] = project.stem[g] => f = g
  BY <1>2, <1>5 DEF Members
<1>7. ASSUME NEW n, HasName(n) # {}
      PROVE  ModuleNamed(n) \in Needed /\ project.stem[ModuleNamed(n)] = n
  <2>1. PICK i : i = CHOOSE j \in HasName(n) : TRUE
    OBVIOUS
  <2>2. i \in HasName(n)
    BY <1>7, <2>1
  <2>3. i \in DOMAIN modules /\ project.stem[modules[i]] = n
    BY <2>2 DEF HasName
  <2>4. ModuleNamed(n) = modules[i]
    BY <2>1 DEF ModuleNamed
  <2> QED BY <1>2, <2>3, <2>4 DEF Members
<1>8. ASSUME NEW f \in Needed
      PROVE  HasName(project.stem[f]) # {} /\ ModuleNamed(project.stem[f]) = f
  <2>1. HasName(project.stem[f]) # {}
    BY <1>2 DEF HasName, Members
  <2> QED BY <1>6, <1>7, <2>1
<1> QED BY <1>2, <1>4, <1>6, <1>7, <1>8

-----------------------------------------------------------------------------
(* What can be wrong with the modules.                                     *)

LEMMA UnionOfEight ==
  ASSUME NEW A, NEW B, NEW C, NEW D, NEW E, NEW F, NEW G, NEW H, NEW x
  PROVE  x \in UNION {A, B, C, D, E, F, G, H} <=>
           \/ x \in A \/ x \in B \/ x \in C \/ x \in D
           \/ x \in E \/ x \in F \/ x \in G \/ x \in H
OBVIOUS

\* The faults that are about a name, a definition or the graph.
SameStem(k) == \E f, g \in Needed : f # g /\ project.stem[f] = k /\ project.stem[g] = k
Lacking(d) == \E f, g \in Needed : Promise!Imports(f, g, d) /\ ~Defined(g, d)
Ambiguous(d) == \E f, g \in Needed : Promise!Clashes(f, g, d)
Cyclic == \E R \in (SUBSET Needed) \ {{}} : \A f \in R : \E g \in R : Promise!DependsOn(f, g)

LEMMA FaultsAre ==
  ASSUME NEW e
  PROVE  e \in Promise!Faults <=>
           \/ NoFile \in Members(project.args) /\ e = Error("no file", 0)
           \/ project.args = <<>> /\ e = Error("no modules", 0)
           \/ \E f \in Needed \cap project.broken : e = Error("parse error", f)
           \/ \E n \in Name : SameStem(n) /\ e = Error("DuplicateModule", n)
           \/ \E n \in (UNION {Imported(f) : f \in Needed}) \ {project.stem[f] : f \in Needed} :
                e = Error("ModuleNotFound", n)
           \/ \E d \in Def : Lacking(d) /\ e = Error("DefinitionNotFound", d)
           \/ \E d \in Def : Ambiguous(d) /\ e = Error("DuplicateDefinition", d)
           \/ Cyclic /\ e = Error("CyclicDependency", 0)
<1>1. /\ \A k, x : Promise!Error(k, x) = Error(k, x)
      /\ \A s : Promise!Members(s) = Members(s) /\ \A f : Promise!Imported(f) = Imported(f)
      /\ \A f, d : Promise!Defined(f, d) = Defined(f, d)
      /\ Promise!Name = Name
  BY SameResults, SameOperators DEF Promise!Name, Name
<1> DEFINE A == Promise!Reported(NoFile \in Promise!Members(project.args), Promise!Error("no file", 0))
           B == Promise!Reported(project.args = <<>>, Promise!Error("no modules", 0))
           C == {Promise!Error("parse error", f) : f \in Needed \cap project.broken}
           D == {Promise!Error("DuplicateModule", n) :
                   n \in {k \in Promise!Name :
                            \E f, g \in Needed : f # g /\ project.stem[f] = k /\ project.stem[g] = k}}
           E == {Promise!Error("ModuleNotFound", n) :
                   n \in (UNION {Promise!Imported(f) : f \in Needed}) \ {project.stem[f] : f \in Needed}}
           F == {Promise!Error("DefinitionNotFound", d) :
                   d \in {k \in Def : \E f, g \in Needed : Promise!Imports(f, g, k)
                                                             /\ ~Promise!Defined(g, k)}}
           G == {Promise!Error("DuplicateDefinition", d) :
                   d \in {k \in Def : \E f, g \in Needed : Promise!Clashes(f, g, k)}}
           H == Promise!Reported(
                  \E R \in (SUBSET Needed) \ {{}} : \A f \in R : \E g \in R : Promise!DependsOn(f, g),
                  Promise!Error("CyclicDependency", 0))
<1>2. Promise!Faults = UNION {A, B, C, D, E, F, G, H}
  BY Zenon DEF Promise!Faults, Promise!FaultsOf, Needed
<1>3. e \in A <=> NoFile \in Members(project.args) /\ e = Error("no file", 0)
  BY <1>1 DEF Promise!Reported
<1>4. e \in B <=> project.args = <<>> /\ e = Error("no modules", 0)
  BY <1>1 DEF Promise!Reported
<1>5. e \in C <=> \E f \in Needed \cap project.broken : e = Error("parse error", f)
  BY <1>1
<1>6. e \in D <=> \E n \in Name : SameStem(n) /\ e = Error("DuplicateModule", n)
  BY <1>1 DEF SameStem
<1>7. e \in E <=>
        \E n \in (UNION {Imported(f) : f \in Needed}) \ {project.stem[f] : f \in Needed} :
          e = Error("ModuleNotFound", n)
  BY <1>1
<1>8. e \in F <=> \E d \in Def : Lacking(d) /\ e = Error("DefinitionNotFound", d)
  BY <1>1 DEF Lacking
<1>9. e \in G <=> \E d \in Def : Ambiguous(d) /\ e = Error("DuplicateDefinition", d)
  BY <1>1 DEF Ambiguous
<1>10. e \in H <=> Cyclic /\ e = Error("CyclicDependency", 0)
  BY <1>1 DEF Promise!Reported, Cyclic
<1> HIDE DEF A, B, C, D, E, F, G, H
<1>11. e \in Promise!Faults <=>
         \/ e \in A \/ e \in B \/ e \in C \/ e \in D
         \/ e \in E \/ e \in F \/ e \in G \/ e \in H
  BY <1>2, UnionOfEight
<1> QED BY <1>3, <1>4, <1>5, <1>6, <1>7, <1>8, <1>9, <1>10, <1>11

-----------------------------------------------------------------------------
(* What the build reports is wrong with the project.                       *)

LEMMA Rejects ==
  ASSUME Staged, NEW e, phase # "done", End(e), e # NotYet, e # Built, e \in Promise!Faults,
         UNCHANGED project
  PROVE  Promise!Reject
BY SameResults, Results DEF Staged, End, Promise!Reject

LEMMA LoadFailsIs == ASSUME Good, LoadFails PROVE Promise!Reject
<1> DEFINE f == Head(pending)
<1>1. phase # "done" /\ pending # <<>> /\ UNCHANGED project
  BY DEF LoadFails
<1>2. pending \in Seq(File \cup {NoFile})
  BY DEF Good, Inv, TypeOK
<1>3. f \in Members(pending)
  BY <1>1, <1>2, MembersHeadTail
<1>4. CASE f = NoFile /\ End(Error("no file", 0))
  <2>1. Error("no file", 0) \in Promise!Faults
    BY <1>3, <1>4, FaultsAre DEF Good, OnlyNeeded
  <2> QED BY <1>1, <1>4, <2>1, Rejects, Results DEF Good
<1>5. CASE f \in project.broken \ parsed /\ End(Error("parse error", f))
  <2>1. project.broken \subseteq File /\ NoFile \notin File
    BY ProjectAssumption, NameAssumption DEF Good, Inv
  <2>2. f \in Needed \cap project.broken
    BY <1>3, <1>5, <2>1 DEF Good, OnlyNeeded
  <2>3. Error("parse error", f) \in Promise!Faults
    BY <2>2, FaultsAre
  <2> QED BY <1>1, <1>5, <2>3, Rejects, Results DEF Good
<1> QED BY <1>4, <1>5 DEF LoadFails

LEMMA NameNodesIs == ASSUME Good, NameNodes, Repeats # {} PROVE Promise!Reject
<1>1. /\ phase # "done" /\ UNCHANGED project
      /\ End(Error("DuplicateModule", project.stem[modules[First(Repeats)]]))
  BY DEF NameNodes
<1>2. modules \in Seq(File) /\ DOMAIN modules = 1..Len(modules) /\ Len(modules) \in Nat
  BY LenProperties DEF Good, Inv, TypeOK
<1>3. PICK i : i = First(Repeats)
  OBVIOUS
<1>4. Repeats \in SUBSET Nat
  BY <1>2 DEF Repeats
<1>5. i \in Repeats
  BY <1>3, <1>4, FirstInSet
<1>6. PICK j \in HasName(project.stem[modules[i]]) : j < i
  BY <1>5 DEF Repeats
<1>7. /\ i \in DOMAIN modules /\ j \in DOMAIN modules
      /\ project.stem[modules[j]] = project.stem[modules[i]]
  BY <1>5, <1>6 DEF Repeats, HasName
<1>8. modules[i] # modules[j]
  BY <1>2, <1>6, <1>7 DEF Good, Inv, LoadedOnce
<1>9. modules[i] \in Needed /\ modules[j] \in Needed /\ modules[i] \in File
  BY <1>2, <1>7 DEF Good, Inv, LoadedOnce, OnlyNeeded, Members
<1>10. PICK n : n = project.stem[modules[i]]
  OBVIOUS
<1>11. n \in Name /\ SameStem(n)
  BY <1>7, <1>8, <1>9, <1>10, ProjectAssumption DEF SameStem, Good, Inv
<1>12. Error("DuplicateModule", n) \in Promise!Faults
  BY <1>11, FaultsAre
<1> QED BY <1>1, <1>3, <1>10, <1>12, Rejects, Results DEF Good

\* Where a definition is listed.
LEMMA PlaceOf ==
  ASSUME NEW f, NEW n, NEW i, NEW d
  PROVE  <<n, i>> \in Promise!Places(f, d) <=>
           /\ n \in Imported(f) /\ i \in DOMAIN ImportedDefs(f, n)
           /\ ImportedDefs(f, n)[i] = d
BY SameOperators DEF Promise!Places

LEMMA PlacePair ==
  ASSUME NEW f, NEW d, NEW p \in Promise!Places(f, d)
  PROVE  p = <<p[1], p[2]>>
BY DEF Promise!Places

\* What Link looks at is an import in the sense of the promise.
LEMMA LinkImports ==
  ASSUME Good, Link
  PROVE  /\ node # 0 /\ Importer \in Needed /\ ImportName \in Imported(Importer)
         /\ HasName(ImportName) # {} =>
              /\ Exporter \in Needed
              /\ \A i \in DOMAIN Listed :
                   Listed[i] \in Def /\ Promise!Imports(Importer, Exporter, Listed[i])
<1>1. /\ modules \in Seq(File) /\ Len(modules) \in Nat /\ DOMAIN modules = 1..Len(modules)
      /\ node \in 1..Len(modules) /\ ImportName \in Imported(Importer) /\ Listed \in Seq(Def)
  BY LinkPlace DEF Good
<1>2. Importer \in Needed
  BY <1>1, ModulesKnown DEF Importer, Members
<1>3. ASSUME HasName(ImportName) # {}, NEW i \in DOMAIN Listed
      PROVE  Listed[i] \in Def /\ Promise!Imports(Importer, Exporter, Listed[i])
  <2>1. project.stem[Exporter] = ImportName
    BY <1>1, <1>3, ModulesKnown DEF Exporter
  <2>2. Listed[i] \in Def /\ Listed[i] \in Members(Listed)
    BY <1>1 DEF Members
  <2> QED BY <1>1, <2>1, <2>2, SameOperators DEF Promise!Imports, Promise!DependsOn, Listed
<1> QED BY <1>1, <1>2, <1>3, ModulesKnown DEF Exporter

LEMMA ClashIs ==
  ASSUME Good, Link, HasName(ImportName) # {}, NEW i \in DOMAIN Listed, ClashAt(i)
  PROVE  Ambiguous(Listed[i])
<1>1. PICK f, g, n, d : f = Importer /\ g = Exporter /\ n = ImportName /\ d = Listed[i]
  OBVIOUS
<1>2. f \in Needed /\ g \in Needed /\ Promise!Imports(f, g, d) /\ n \in Imported(f) /\ d \in Def
  BY <1>1, LinkImports
<1>3. Clash(f, g, TakenAt(i), d)
  BY <1>1 DEF ClashAt
<1>4. SUFFICES Promise!Clashes(f, g, d)
  BY <1>1, <1>2 DEF Ambiguous
<1>5. CASE IsFunction(g, d) /\ d \in project.functions[f]
  BY <1>2, <1>5, SameOperators DEF Promise!Clashes
<1>6. CASE IsType(g, d) /\ d \in project.types[f]
  BY <1>2, <1>6, SameOperators DEF Promise!Clashes
<1>7. <<n, i>> \in Promise!Places(f, d)
  BY <1>1, <1>2, PlaceOf DEF Listed
<1>8. CASE d \in {p[1] : p \in resolved[f]}
  <2>1. PICK p \in resolved[f] : p[1] = d
    BY <1>8
  <2>2. resolved[f] \subseteq Def \X File
    BY <1>1, LinkPlace DEF Good, Inv, TypeOK
  <2>3. p[2] \in File /\ p = <<d, p[2]>>
    BY <2>1, <2>2
  <2>4. PICK m \in LinkedNames(node) : d \in Members(ImportedDefs(f, m))
    <3>1. node \in DOMAIN modules
      BY LinkPlace DEF Good
    <3>2. ResolvedTo(f, LinkedNames(node))
      BY <1>1, <3>1 DEF Good, Linked, ModuleLinked, Importer
    <3> QED BY <1>2, <2>1, <2>3, <3>2 DEF ResolvedTo
  <2>5. LinkedNames(node) = Imported(f) \ todo
    BY <1>1, LinkPlace DEF Good, LinkedNames, Importer
  <2>6. m \in Imported(f) /\ m # n
    BY <1>1, <2>4, <2>5, LinkPlace DEF Good
  <2>7. PICK j \in DOMAIN ImportedDefs(f, m) : ImportedDefs(f, m)[j] = d
    BY <2>4 DEF Members
  <2>8. <<m, j>> \in Promise!Places(f, d) /\ <<m, j>> # <<n, i>>
    BY <2>6, <2>7, PlaceOf
  <2> QED BY <1>2, <1>7, <2>8 DEF Promise!Clashes
<1>9. ASSUME NEW j \in DOMAIN Listed, AddedBefore(g, Listed, j, i), d = Listed[j]
      PROVE  Promise!Clashes(f, g, d)
  <2>1. <<n, j>> \in Promise!Places(f, d)
    BY <1>1, <1>2, <1>9, PlaceOf DEF Listed
  <2>2. i \in Nat
    <3>1. Listed \in Seq(Def)
      BY LinkPlace DEF Good
    <3> QED BY <3>1
  <2>3. i # j
    BY <1>9, <2>2 DEF AddedBefore
  <2> QED BY <1>2, <1>7, <2>1, <2>3 DEF Promise!Clashes
<1> QED BY <1>1, <1>3, <1>5, <1>6, <1>8, <1>9 DEF Clash, TakenAt

LEMMA LinkIs == ASSUME Good, Link, LinkFails PROVE Promise!Reject
<1>1. phase # "done" /\ UNCHANGED project
  BY DEF Link
<1>2. CASE HasName(ImportName) = {} /\ End(Error("ModuleNotFound", ImportName))
  <2>1. ImportName \notin {project.stem[f] : f \in Needed}
    BY <1>2, LinkImports, ModulesKnown
  <2>2. PICK n : n = ImportName
    OBVIOUS
  <2>3. n \in (UNION {Imported(f) : f \in Needed}) \ {project.stem[f] : f \in Needed}
    <3>1. PICK f : f = Importer
      OBVIOUS
    <3>2. f \in Needed /\ n \in Imported(f)
      BY <2>2, <3>1, LinkImports
    <3>3. n \in UNION {Imported(g) : g \in Needed}
      BY <3>2
    <3>4. n \notin {project.stem[g] : g \in Needed}
      BY <2>1, <2>2
    <3> QED BY <3>3, <3>4
  <2>4. Error("ModuleNotFound", n) \in Promise!Faults
    BY <2>3, FaultsAre
  <2> QED BY <1>1, <1>2, <2>2, <2>4, Rejects, Results DEF Good
<1>3. ASSUME HasName(ImportName) # {}, NEW i \in DOMAIN Listed, ~Defined(Exporter, Listed[i]),
             End(Error("DefinitionNotFound", Listed[i]))
      PROVE  Promise!Reject
  <2>1. Listed[i] \in Def /\ Lacking(Listed[i])
    BY <1>3, LinkImports DEF Lacking
  <2>2. Error("DefinitionNotFound", Listed[i]) \in Promise!Faults
    BY <2>1, FaultsAre
  <2> QED BY <1>1, <1>3, <2>2, Rejects, Results DEF Good
<1>4. ASSUME HasName(ImportName) # {}, NEW i \in DOMAIN Listed, ClashAt(i),
             End(Error("DuplicateDefinition", Listed[i]))
      PROVE  Promise!Reject
  <2>1. Listed[i] \in Def /\ Ambiguous(Listed[i])
    BY <1>4, LinkImports, ClashIs
  <2>2. Error("DuplicateDefinition", Listed[i]) \in Promise!Faults
    BY <2>1, FaultsAre
  <2> QED BY <1>1, <1>4, <2>2, Rejects, Results DEF Good
<1> QED BY <1>2, <1>3, <1>4 DEF LinkFails

-----------------------------------------------------------------------------
(* An order exists just when there is no cycle.                            *)

\* A numbering of a set counts it.
LEMMA Numbering ==
  ASSUME NEW M, NEW n \in Nat, NEW s \in [1..n -> M],
         \A i, j \in 1..n : s[i] = s[j] => i = j,
         \A x \in M : \E i \in 1..n : s[i] = x
  PROVE  IsFiniteSet(M) /\ Cardinality(M) = n
<1>1. ExistsBijection(1..n, M)
  BY DEF ExistsBijection, Bijection, Injection, Surjection, IsInjective
<1>2. IsFiniteSet(1..n) /\ Cardinality(1..n) = n
  BY FS_Interval
<1> QED BY <1>1, <1>2, FS_Bijection

LEMMA ModulesCounted ==
  ASSUME Inv
  PROVE  /\ IsFiniteSet(Members(modules)) /\ Cardinality(Members(modules)) = Len(modules)
         /\ Len(modules) \in Nat /\ DOMAIN modules = 1..Len(modules)
<1>1. /\ modules \in Seq(File) /\ Len(modules) \in Nat /\ DOMAIN modules = 1..Len(modules)
  BY LenProperties DEF Inv, TypeOK
<1>2. modules \in [1..Len(modules) -> Members(modules)]
  <2>1. modules = [i \in 1..Len(modules) |-> modules[i]]
    BY <1>1, LenProperties
  <2> QED BY <1>1, <2>1 DEF Members
<1>3. \A i, j \in 1..Len(modules) : modules[i] = modules[j] => i = j
  BY <1>1 DEF Inv, LoadedOnce
<1>4. \A x \in Members(modules) : \E i \in 1..Len(modules) : modules[i] = x
  BY <1>1 DEF Members
<1> QED BY <1>1, <1>2, <1>3, <1>4, Numbering

\* Every module has its place in an order.
LEMMA OrderOnto ==
  ASSUME Inv, NEW s, DependencyOrder(s)
  PROVE  /\ DOMAIN s = 1..Len(modules)
         /\ \A f \in Members(modules) : \E i \in 1..Len(modules) : s[i] = f
<1> DEFINE N == Len(modules)
<1>1. N \in Nat /\ IsFiniteSet(Members(modules)) /\ Cardinality(Members(modules)) = N
      /\ DOMAIN modules = 1..N
  BY ModulesCounted
<1>2. s \in Injection(1..N, Members(modules)) /\ DOMAIN s = 1..N
  BY <1>1 DEF DependencyOrder, Injection, IsInjective
<1>3. IsFiniteSet(1..N) /\ Cardinality(1..N) = N
  <2> HIDE DEF N
  <2> QED BY <1>1, FS_Interval
<1>4. s \in Surjection(1..N, Members(modules))
  <2> HIDE DEF N
  <2> QED BY <1>1, <1>2, <1>3, FS_Injection
<1> QED BY <1>2, <1>4 DEF Surjection

\* What holds of the imports of a module when all are resolved.
LEMMA ModuleDone ==
  ASSUME Good, node > Len(modules), NEW f \in Needed
  PROVE  ModuleLinked(f, Imported(f)) /\ node # 0
<1>1. /\ modules \in Seq(File) /\ Len(modules) \in Nat /\ DOMAIN modules = 1..Len(modules)
      /\ node \in Nat /\ node # 0
  BY LenProperties DEF Good, Inv, TypeOK
<1>2. PICK i \in DOMAIN modules : f = modules[i]
  BY <1>1, ModulesKnown DEF Members
<1>3. LinkedNames(i) = Imported(f)
  BY <1>1, <1>2 DEF LinkedNames
<1> QED BY <1>1, <1>2, <1>3 DEF Good, Linked

\* Once all imports are resolved, the edges are the imports.
LEMMA EdgesAre ==
  ASSUME Good, node > Len(modules), NEW f \in Needed, NEW g \in Needed
  PROVE  <<f, g>> \in edges <=> Promise!DependsOn(f, g)
<1>1. /\ modules \in Seq(File) /\ Len(modules) \in Nat /\ DOMAIN modules = 1..Len(modules)
      /\ node \in Nat /\ node # 0
  BY LenProperties DEF Good, Inv, TypeOK
<1>2. PICK i \in DOMAIN modules : f = modules[i]
  BY <1>1, ModulesKnown DEF Members
<1>3. LinkedNames(i) = Imported(f)
  BY <1>1, <1>2 DEF LinkedNames
<1>4. ModuleLinked(f, Imported(f))
  BY <1>2, <1>3 DEF Good, Linked
<1>5. g \in File
  BY <1>1, ModulesKnown
<1>6. <<f, g>> \in edges <=> \E n \in Imported(f) : g = ModuleNamed(n)
  BY <1>4, <1>5 DEF ModuleLinked, EdgesTo
<1>7. \A n \in Imported(f) : HasName(n) # {}
  BY <1>4 DEF ModuleLinked, ImportGood
<1>8. (\E n \in Imported(f) : g = ModuleNamed(n)) <=> project.stem[g] \in Imported(f)
  BY <1>1, <1>7, ModulesKnown
<1> QED BY <1>6, <1>8, SameOperators DEF Promise!DependsOn

LEMMA OrderExcludesCycle ==
  ASSUME Good, node > Len(modules), NEW s, DependencyOrder(s)
  PROVE  ~Cyclic
<1>1. node # 0
  BY ModulesCounted DEF Good
<1>2. Needed = Members(modules)
  BY <1>1, ModulesKnown
<1> SUFFICES ASSUME NEW R \in (SUBSET Needed) \ {{}}, \A f \in R : \E g \in R : Promise!DependsOn(f, g)
             PROVE  FALSE
  BY DEF Cyclic
<1> DEFINE N == Len(modules)
           I == {i \in 1..N : s[i] \in R}
<1>3. DOMAIN s = 1..N /\ \A f \in Members(modules) : \E i \in 1..N : s[i] = f
  BY OrderOnto DEF Good
<1>4. I \in SUBSET Nat /\ I # {}
  <2>1. PICK f \in R : f \in Needed
    OBVIOUS
  <2>2. f \in Members(modules)
    BY <1>2, <2>1
  <2>3. PICK i \in 1..N : s[i] = f
    BY <1>3, <2>2
  <2>4. i \in I /\ I \subseteq 1..N /\ 1..N \subseteq Nat
    BY <2>1, <2>3
  <2> QED BY <2>4
<1>5. PICK i \in I : \A j \in I : i <= j
  <2> HIDE DEF I
  <2> QED BY ZenonT(30), <1>4, FirstInSet
<1>6. PICK g \in R : Promise!DependsOn(s[i], g)
  BY <1>5
<1>7. PICK j \in 1..N : s[j] = g
  BY <1>2, <1>3, <1>6
<1>8. j \in I
  BY <1>6, <1>7
<1>9. <<s[i], s[j]>> \in edges
  BY <1>5, <1>6, <1>7, EdgesAre
<1>10. j < i
  BY <1>3, <1>5, <1>7, <1>9 DEF DependencyOrder
<1>11. i <= j /\ i \in Nat /\ j \in Nat
  BY <1>4, <1>5, <1>8
<1> HIDE DEF I
<1> QED BY <1>10, <1>11

\* The other way round: without a cycle the modules can be put in order one by one,
\* since among those that are left one imports none of them.
Rest(k, s) == Needed \ {s[i] : i \in 1..k}
Begun(k, s) ==
  /\ s \in [1..k -> Needed]
  /\ \A i, j \in 1..k : s[i] = s[j] => i = j
  /\ \A i \in 1..k : \A g \in Needed :
       Promise!DependsOn(s[i], g) => \E j \in 1..k : s[j] = g /\ j < i

LEMMA BegunExtends ==
  ASSUME NEW k \in Nat, NEW s, Begun(k, s), NEW f \in Rest(k, s),
         \A g \in Rest(k, s) : ~Promise!DependsOn(f, g)
  PROVE  \E t : Begun(k + 1, t) /\ Rest(k + 1, t) = Rest(k, s) \ {f}
<1> DEFINE t == [i \in 1..(k + 1) |-> IF i <= k THEN s[i] ELSE f]
<1>1. f \in Needed /\ \A i \in 1..k : s[i] # f /\ s[i] \in Needed
  BY DEF Rest, Begun
<1>2. /\ \A i \in 1..k : i \in 1..(k + 1) /\ t[i] = s[i]
      /\ k + 1 \in 1..(k + 1) /\ t[k + 1] = f
      /\ \A i \in 1..(k + 1) : i \in 1..k \/ i = k + 1
      /\ \A i \in 1..k : i < k + 1
  OBVIOUS
<1>3. t \in [1..(k + 1) -> Needed]
  BY <1>1
<1> HIDE DEF t
<1>4. \A i, j \in 1..(k + 1) : t[i] = t[j] => i = j
  BY <1>1, <1>2 DEF Begun
<1>5. ASSUME NEW i \in 1..(k + 1), NEW g \in Needed, Promise!DependsOn(t[i], g)
      PROVE  \E j \in 1..(k + 1) : t[j] = g /\ j < i
  <2>1. CASE i \in 1..k
    <3>1. PICK j \in 1..k : s[j] = g /\ j < i
      BY <1>2, <1>5, <2>1 DEF Begun
    <3> QED BY <1>2, <3>1
  <2>2. CASE i = k + 1
    <3>1. g \notin Rest(k, s)
      BY <1>2, <1>5, <2>2
    <3>2. PICK j \in 1..k : s[j] = g
      BY <3>1 DEF Rest
    <3> QED BY <1>2, <2>2, <3>2
  <2> QED BY <1>2, <2>1, <2>2
<1>6. Rest(k + 1, t) = Rest(k, s) \ {f}
  <2>1. {t[i] : i \in 1..(k + 1)} = {s[i] : i \in 1..k} \cup {f}
    BY <1>2
  <2> QED BY <2>1 DEF Rest
<1> QED BY <1>3, <1>4, <1>5, <1>6 DEF Begun

LEMMA AllCanBePlaced ==
  ASSUME IsFiniteSet(Needed), ~Cyclic
  PROVE  \E k \in Nat : \E s : Begun(k, s) /\ Rest(k, s) = {}
<1> DEFINE C == {c \in Nat : \E k \in Nat : \E s \in [1..k -> Needed] :
                               Begun(k, s) /\ Cardinality(Rest(k, s)) = c}
<1>1. \A k, s : IsFiniteSet(Rest(k, s)) /\ Cardinality(Rest(k, s)) \in Nat
  BY FS_Subset, FS_CardinalityType DEF Rest
<1>2. C # {}
  <2> DEFINE e == [i \in 1..0 |-> {}]
  <2>1. e \in [1..0 -> Needed] /\ Begun(0, e)
    BY DEF Begun
  <2>2. Cardinality(Rest(0, e)) \in C
    BY <1>1, <2>1
  <2> QED BY <2>2
<1>3. PICK c \in C : \A d \in C : c <= d
  <2> HIDE DEF C
  <2>1. C \in SUBSET Nat
    BY DEF C
  <2> QED BY <1>2, <2>1, FirstInSet
<1>4. PICK k \in Nat : \E s \in [1..k -> Needed] : Begun(k, s) /\ Cardinality(Rest(k, s)) = c
  OBVIOUS
<1>5. PICK s \in [1..k -> Needed] : Begun(k, s) /\ Cardinality(Rest(k, s)) = c
  BY <1>4
<1>6. ASSUME Rest(k, s) # {} PROVE FALSE
  <2>1. Rest(k, s) \in (SUBSET Needed) \ {{}}
    BY <1>6 DEF Rest
  <2>2. PICK f \in Rest(k, s) : \A g \in Rest(k, s) : ~Promise!DependsOn(f, g)
    BY <2>1 DEF Cyclic
  <2>3. PICK t : Begun(k + 1, t) /\ Rest(k + 1, t) = Rest(k, s) \ {f}
    BY <1>5, <2>2, BegunExtends
  <2>4. Cardinality(Rest(k + 1, t)) = c - 1
    BY <1>1, <1>5, <2>3, FS_RemoveElement
  <2>5. k + 1 \in Nat /\ t \in [1..(k + 1) -> Needed]
    BY <2>3 DEF Begun
  <2>6. Cardinality(Rest(k + 1, t)) \in C
    BY <1>1, <2>3, <2>5
  <2>7. c \in Nat /\ c <= c - 1
    BY <1>3, <2>4, <2>6
  <2> QED BY <2>7
<1> QED BY <1>5, <1>6

LEMMA OrderExists ==
  ASSUME Good, node > Len(modules), ~Cyclic
  PROVE  TopologicalOrders # {}
<1> DEFINE N == Len(modules)
<1>1. /\ N \in Nat /\ DOMAIN modules = 1..N /\ IsFiniteSet(Members(modules))
      /\ Cardinality(Members(modules)) = N
  BY ModulesCounted DEF Good
<1>2. Needed = Members(modules)
  BY <1>1, ModulesKnown
<1>3. PICK k \in Nat : \E s : Begun(k, s) /\ Rest(k, s) = {}
  BY <1>1, <1>2, AllCanBePlaced
<1>4. PICK s : Begun(k, s) /\ Rest(k, s) = {}
  BY <1>3
<1>5. s \in [1..k -> Needed] /\ \A i, j \in 1..k : s[i] = s[j] => i = j
  BY <1>4 DEF Begun
<1>6. \A x \in Needed : \E i \in 1..k : s[i] = x
  BY <1>4 DEF Rest
<1>7. k = N
  BY <1>1, <1>2, <1>5, <1>6, Numbering
<1> DEFINE t == [i \in 1..N |-> s[N + 1 - i]]
<1>8. /\ t \in [DOMAIN modules -> Members(modules)] /\ DOMAIN t = 1..N
      /\ \A i \in 1..N : N + 1 - i \in 1..N /\ t[i] = s[N + 1 - i] /\ t[i] \in Needed
  BY <1>1, <1>2, <1>5, <1>7
<1> HIDE DEF t, N
<1>9. ASSUME NEW i \in 1..N, NEW j \in 1..N, t[i] = t[j] PROVE i = j
  <2>1. N + 1 - i = N + 1 - j
    BY <1>5, <1>7, <1>8, <1>9
  <2> QED BY <1>1, <2>1
<1>10. ASSUME NEW i \in 1..N, NEW j \in 1..N, <<t[i], t[j]>> \in edges PROVE i < j
  <2>1. Promise!DependsOn(t[i], t[j])
    BY <1>8, <1>10, EdgesAre
  <2>2. PICK l \in 1..N : s[l] = s[N + 1 - j] /\ l < N + 1 - i
    BY <1>4, <1>7, <1>8, <2>1 DEF Begun
  <2>3. l = N + 1 - j
    BY <1>5, <1>7, <1>8, <2>2
  <2> QED BY <1>1, <2>2, <2>3
<1>11. t \in TopologicalOrders
  BY <1>8, <1>9, <1>10 DEF TopologicalOrders
<1> QED BY <1>11

LEMMA SortIs == ASSUME Good, Sort, TopologicalOrders = {} PROVE Promise!Reject
<1>1. /\ phase = "link" /\ node > Len(modules) /\ UNCHANGED project
      /\ End(Error("CyclicDependency", 0))
  BY DEF Sort
<1>2. Cyclic
  BY <1>1, OrderExists
<1>3. Error("CyclicDependency", 0) \in Promise!Faults
  BY <1>2, FaultsAre
<1> QED BY <1>1, <1>3, Rejects, Results DEF Good

-----------------------------------------------------------------------------
(* Each step is one of the promise or changes nothing in it.               *)

\* An import of what is built is the one of the module that has its name.
LEMMA ImportsDone ==
  ASSUME Good, node > Len(modules), NEW f \in Needed, NEW g \in Needed, NEW d,
         Promise!Imports(f, g, d)
  PROVE  Defined(g, d) /\ ~Clash(f, g, {}, d)
<1>1. project.stem[g] \in Imported(f) /\ d \in Members(ImportedDefs(f, project.stem[g]))
  BY SameOperators DEF Promise!Imports, Promise!DependsOn
<1>2. ImportGood(f, project.stem[g])
  BY <1>1, ModuleDone DEF ModuleLinked
<1>3. ModuleNamed(project.stem[g]) = g
  BY ModuleDone, ModulesKnown
<1> QED BY <1>1, <1>2, <1>3 DEF ImportGood

LEMMA NothingAmbiguous ==
  ASSUME Good, node > Len(modules), NEW d
  PROVE  ~Ambiguous(d)
<1> SUFFICES ASSUME NEW f \in Needed, NEW g \in Needed, Promise!Clashes(f, g, d)
             PROVE  FALSE
  BY DEF Ambiguous
<1>1. ~Clash(f, g, {}, d)
  BY ImportsDone DEF Promise!Clashes
<1>2. ~(IsFunction(g, d) /\ d \in project.functions[f]) /\ ~(IsType(g, d) /\ d \in project.types[f])
  BY <1>1 DEF Clash
<1>3. PICK p, q \in Promise!Places(f, d) : p # q
  BY <1>2, SameOperators DEF Promise!Clashes
<1>4. PICK n, i, m, j : p = <<n, i>> /\ q = <<m, j>>
  BY <1>3, PlacePair
<1>5. /\ n \in Imported(f) /\ i \in DOMAIN ImportedDefs(f, n) /\ ImportedDefs(f, n)[i] = d
      /\ m \in Imported(f) /\ j \in DOMAIN ImportedDefs(f, m) /\ ImportedDefs(f, m)[j] = d
  BY <1>3, <1>4, PlaceOf
<1>6. ListedOnce(f, Imported(f))
  BY ModuleDone DEF ModuleLinked
<1>7. n = m /\ i = j
  BY <1>5, <1>6 DEF ListedOnce
<1> QED BY <1>3, <1>4, <1>7

\* Nothing is wrong with a program that is built.
LEMMA NoFaults ==
  ASSUME Good, phase = "emit", order # <<>>
  PROVE  Promise!Faults = {}
<1>1. node > Len(modules) /\ DependencyOrder(order)
  BY DEF Good, Ordered
<1>2. /\ modules \in Seq(File) /\ Len(modules) \in Nat /\ DOMAIN modules = 1..Len(modules)
      /\ order \in Seq(File) /\ node # 0
  BY <1>1, LenProperties DEF Good, Inv, TypeOK
<1>3. modules # <<>> /\ Needed # {}
  <2>1. DOMAIN order = DOMAIN modules
    BY <1>1 DEF DependencyOrder
  <2>2. order[1] \in Members(modules) /\ 1 \in DOMAIN modules
    <3>1. 1 \in DOMAIN order
      BY <1>2, EmptySeq, LenProperties
    <3> QED BY <1>1, <2>1, <3>1 DEF DependencyOrder
  <2> QED BY <1>2, <2>2, ModulesKnown
<1>4. project.args # <<>>
  <2> SUFFICES ASSUME project.args = <<>> PROVE FALSE
    OBVIOUS
  <2>1. Members(project.args) = {}
    BY DEF Members
  <2>2. Needed \subseteq {}
    BY <2>1, NeededLeast
  <2> QED BY <1>3, <2>2
<1>5. NoFile \notin Members(project.args) /\ Needed \cap project.broken = {}
      /\ \A n : ~SameStem(n)
  BY <1>2, ModulesKnown DEF SameStem
<1>6. ASSUME NEW f \in Needed, NEW n \in Imported(f)
      PROVE  \E g \in Needed : project.stem[g] = n
  <2>1. HasName(n) # {}
    BY <1>1, ModuleDone DEF ModuleLinked, ImportGood
  <2> QED BY <1>2, <2>1, ModulesKnown
<1>7. \A d : ~Lacking(d)
  BY <1>1, ImportsDone DEF Lacking
<1>8. \A d : ~Ambiguous(d)
  BY <1>1, NothingAmbiguous
<1>9. ~Cyclic
  BY <1>1, OrderExcludesCycle
<1>10. (UNION {Imported(f) : f \in Needed}) \ {project.stem[f] : f \in Needed} = {}
  BY <1>6
<1>11. \A e : e \notin Promise!Faults
  BY <1>4, <1>5, <1>7, <1>8, <1>9, <1>10, FaultsAre
<1> QED BY <1>11

LEMMA AllEmitted ==
  ASSUME Good, phase = "emit" \/ outcome = Built, Len(inits) = Len(order)
  PROVE  inits = order /\ Promise!InOrder(inits)
<1>1. node > Len(modules) /\ DependencyOrder(order)
  BY DEF Good, Ordered
<1>2. /\ Len(modules) \in Nat /\ DOMAIN modules = 1..Len(modules) /\ node # 0
      /\ DOMAIN order = 1..Len(modules)
      /\ \A f \in Members(modules) : \E i \in 1..Len(modules) : order[i] = f
  BY <1>1, ModulesCounted, OrderOnto DEF Good
<1>3. inits = order
  <2>1. inits \in Seq(File) /\ order \in Seq(File)
    BY DEF Good, Inv, TypeOK
  <2>2. \A i \in 1..Len(inits) : inits[i] = order[i]
    BY <2>1, LenProperties DEF Good, Emitted
  <2> QED BY <2>1, <2>2, SeqEqual
<1>4. Needed = Members(modules)
  BY <1>2, ModulesKnown
<1>5. Members(order) = Needed /\ \A i \in DOMAIN order : order[i] \in Needed
  <2>1. \A i \in DOMAIN order : order[i] \in Needed
    BY <1>1, <1>2, <1>4 DEF DependencyOrder
  <2>2. \A f \in Needed : \E i \in DOMAIN order : order[i] = f
    BY <1>2, <1>4
  <2> QED BY <2>1, <2>2 DEF Members
<1>6. \A i, j \in DOMAIN order : Promise!DependsOn(order[i], order[j]) => j < i
  BY <1>1, <1>5, EdgesAre DEF DependencyOrder
<1>7. \A i, j \in DOMAIN order : order[i] = order[j] => i = j
  BY <1>1 DEF DependencyOrder
<1> QED BY <1>3, <1>5, <1>6, <1>7, SameOperators DEF Promise!InOrder, Needed

LEMMA EmitMainIs == ASSUME Good, EmitMain PROVE Promise!Next
<1>1. /\ phase = "emit" /\ Len(inits) = Len(order) /\ UNCHANGED <<project, inits>>
      /\ outcome = NotYet /\ node > Len(modules) /\ DependencyOrder(order)
  BY DEF EmitMain, code, Good, Staged, Ordered
<1>2. CASE order = <<>>
  <2>1. End(Error("no modules", 0))
    BY <1>2 DEF EmitMain, End
  <2>2. Members(modules) = {} /\ node # 0
    <3>1. /\ DOMAIN order = 1..Len(modules) /\ Len(modules) \in Nat
          /\ DOMAIN modules = 1..Len(modules)
      BY <1>1, ModulesCounted, OrderOnto DEF Good
    <3>2. DOMAIN order = {}
      BY <1>2
    <3>3. DOMAIN modules = {}
      BY <3>1, <3>2
    <3>4. node # 0
      BY <1>1, <3>1
    <3> QED BY <3>3, <3>4 DEF Members
  <2>3. Needed = {} /\ NoFile \notin Members(project.args)
    BY <2>2, ModulesKnown
  <2>4. project.args = <<>>
    <3>1. project.args \in Seq(File \cup {NoFile}) /\ Members(project.args) \cap File \subseteq Needed
      BY ProjectAssumption, NeededClosed DEF Good, Inv
    <3>2. Members(project.args) \subseteq File \cup {NoFile}
      BY <3>1 DEF Members
    <3>3. Members(project.args) = {}
      BY <2>3, <3>1, <3>2
    <3>4. Len(project.args) \in Nat /\ DOMAIN project.args = 1..Len(project.args)
      BY <3>1, LenProperties
    <3>5. DOMAIN project.args = {}
      BY <3>3 DEF Members
    <3>6. Len(project.args) = 0
      <4>1. PICK n : n = Len(project.args)
        OBVIOUS
      <4>2. n \in Nat /\ 1..n = {}
        BY <3>4, <3>5, <4>1
      <4>3. n # 0 => 1 \in 1..n
        BY <4>2
      <4> QED BY <4>1, <4>2, <4>3
    <3> QED BY <3>1, <3>6, EmptySeq
  <2>5. Error("no modules", 0) \in Promise!Faults
    BY <2>4, FaultsAre
  <2> QED BY <1>1, <2>1, <2>5, Rejects, Results DEF Good, Promise!Next
<1>3. CASE order # <<>>
  <2>1. outcome' = Built
    BY <1>3 DEF EmitMain, End
  <2>2. Promise!Faults = {}
    BY <1>1, <1>3, NoFaults
  <2>3. Promise!InOrder(inits)
    BY <1>1, AllEmitted
  <2>4. Promise!InOrder((IF outcome = Built THEN inits ELSE <<>>)')
    <3>1. (IF outcome = Built THEN inits ELSE <<>>)' = inits
      BY <1>1, <2>1
    <3> QED BY <2>3, <3>1
  <2> QED BY <1>1, <2>1, <2>2, <2>4, SameResults DEF Promise!Next, Promise!Build
<1> QED BY <1>2, <1>3

\* A step that does not end the build is none of the promise's.
LEMMA OtherStutters ==
  ASSUME UNCHANGED project, UNCHANGED outcome, outcome = NotYet \/ UNCHANGED inits
  PROVE  UNCHANGED Promise!vars
BY Results DEF Promise!vars

LEMMA PromiseNext == ASSUME Good, [Next]_vars PROVE [Promise!Next]_(Promise!vars)
<1>1. phase # "done" => outcome = NotYet
  BY DEF Good, Staged
<1>2. CASE Load
  BY <1>2, OtherStutters DEF Load, code
<1>3. CASE LoadSeen
  BY <1>3, OtherStutters DEF LoadSeen, code
<1>4. CASE LoadFails
  BY <1>4, LoadFailsIs DEF Promise!Next
<1>5. CASE NameNodes
  <2>1. CASE Repeats # {}
    BY <1>5, <2>1, NameNodesIs DEF Promise!Next
  <2>2. CASE Repeats = {}
    BY <1>5, <2>2, OtherStutters DEF NameNodes, code
  <2> QED BY <2>1, <2>2
<1>6. CASE Link
  <2>1. CASE Links
    BY <1>6, <2>1, OtherStutters DEF Link, Links, code
  <2>2. CASE LinkFails
    BY <1>6, <2>2, LinkIs DEF Promise!Next
  <2> QED BY <1>6, <2>1, <2>2, LinkCases DEF Good
<1>7. CASE NextNode
  BY <1>7, OtherStutters DEF NextNode, code
<1>8. CASE Sort
  <2>1. CASE TopologicalOrders = {}
    BY <1>8, <2>1, SortIs DEF Promise!Next
  <2>2. CASE TopologicalOrders # {}
    BY <1>8, <2>2, OtherStutters DEF Sort, code
  <2> QED BY <2>1, <2>2
<1>9. CASE Emit
  <2>1. phase = "emit" /\ UNCHANGED <<project, outcome>>
    BY <1>9 DEF Emit
  <2> QED BY <1>1, <2>1, OtherStutters
<1>10. CASE EmitMain
  BY <1>10, EmitMainIs
<1>11. CASE UNCHANGED vars
  BY <1>11, OtherStutters DEF vars
<1> QED
  BY <1>2, <1>3, <1>4, <1>5, <1>6, <1>7, <1>8, <1>9, <1>10, <1>11 DEF Next, Step, Done

\* Whatever the files, their names and imports and the order in which they are met: a
\* build that is refused names something that is wrong with what the program needs,
\* and one that is not refused has nothing wrong and runs the top level of every
\* module it needs once, after that of its imports (main.rs, build_dependency_graph,
\* BcGen::generate).
THEOREM BuildCorrect == Spec => ProjectSpec
<1>1. Init => Promise!Init
  BY SameResults, Results DEF Init, Promise!Init
<1>2. Good /\ [Next]_vars => [Promise!Next]_(Promise!vars)
  BY PromiseNext
<1> QED BY <1>1, <1>2, GoodAlways, PTL DEF Spec, ProjectSpec, Promise!Spec

-----------------------------------------------------------------------------
(* What the imports of a program that was built mean.                      *)

\* What is known of a program that was built.
LEMMA BuiltKnown ==
  ASSUME Good, outcome = Built
  PROVE  /\ node > Len(modules) /\ node # 0 /\ Promise!InOrder(inits)
         /\ Members(inits) = Needed /\ Members(modules) = Needed /\ Needed \subseteq File
         /\ DOMAIN inits = 1..Len(inits) /\ Len(inits) \in Nat
<1>1. node > Len(modules) /\ DependencyOrder(order) /\ Len(inits) = Len(order)
  BY DEF Good, Ordered, Emitted
<1>2. Promise!InOrder(inits)
  BY <1>1, AllEmitted
<1>3. node # 0
  BY <1>1, ModulesCounted DEF Good
<1>4. Members(inits) = Needed
  BY <1>2, SameOperators DEF Promise!InOrder, Needed
<1>5. inits \in Seq(File)
  BY DEF Good, Inv, TypeOK
<1> QED BY <1>1, <1>2, <1>3, <1>4, <1>5, ModulesKnown, LenProperties

\* There is one target for each name.
LEMMA OneTarget ==
  ASSUME Good, outcome = Built, NEW f \in Needed, NEW d \in Def, NEW g \in File, NEW h \in File,
         <<d, g>> \in targets[f], <<d, h>> \in targets[f]
  PROVE  g = h
<1>1. ModuleLinked(f, Imported(f))
  BY BuiltKnown, ModuleDone
<1>2. CallsWhat(f)
  <2>1. PICK i \in DOMAIN inits : inits[i] = f
    BY BuiltKnown DEF Members
  <2> QED BY <2>1 DEF Good, CodeBound
<1>3. ASSUME NEW x \in File, <<d, x>> \in targets[f]
      PROVE  \/ x = f /\ d \in project.functions[f]
             \/ /\ d \notin project.functions[f]
                /\ \E n \in Imported(f) : x = ModuleNamed(n) /\ d \in Members(ImportedDefs(f, n))
  <2>1. CASE x = f /\ d \in project.functions[f]
    BY <2>1
  <2>2. CASE <<d, x>> \in resolved[f] /\ IsFunction(x, d)
    <3>1. PICK n \in Imported(f) : x = ModuleNamed(n) /\ d \in Members(ImportedDefs(f, n))
      BY <1>1, <2>2 DEF ModuleLinked, ResolvedTo
    <3>2. ~Clash(f, x, {}, d)
      BY <1>1, <3>1 DEF ModuleLinked, ImportGood
    <3>3. d \notin project.functions[f]
      BY <2>2, <3>2 DEF Clash
    <3> QED BY <3>1, <3>3
  <2> QED BY <1>2, <1>3, <2>1, <2>2 DEF CallsWhat
<1>4. CASE d \in project.functions[f]
  BY <1>3, <1>4
<1>5. CASE d \notin project.functions[f]
  <2>1. PICK n \in Imported(f) : g = ModuleNamed(n) /\ d \in Members(ImportedDefs(f, n))
    BY <1>3, <1>5
  <2>2. PICK m \in Imported(f) : h = ModuleNamed(m) /\ d \in Members(ImportedDefs(f, m))
    BY <1>3, <1>5
  <2>3. PICK j \in DOMAIN ImportedDefs(f, n) : ImportedDefs(f, n)[j] = d
    BY <2>1 DEF Members
  <2>4. PICK k \in DOMAIN ImportedDefs(f, m) : ImportedDefs(f, m)[k] = d
    BY <2>2 DEF Members
  <2>5. n = m
    BY <1>1, <2>3, <2>4 DEF ModuleLinked, ListedOnce
  <2> QED BY <2>1, <2>2, <2>5
<1> QED BY <1>4, <1>5

\* The code of an imported module came before, and its types are known.
LEMMA TypeVisible ==
  ASSUME Good, outcome = Built, NEW f \in Needed, NEW g \in Needed, NEW d \in Def,
         Promise!DependsOn(f, g), d \in project.types[g]
  PROVE  /\ visible[f][d] # NoFile
         /\ (\A h \in Members(modules) : d \in project.types[h] => h = g) => visible[f][d] = g
<1>1. PICK i \in DOMAIN inits : inits[i] = f
  BY BuiltKnown DEF Members
<1>2. PICK j \in DOMAIN inits : inits[j] = g
  BY BuiltKnown DEF Members
<1>3. j < i
  BY <1>1, <1>2, BuiltKnown DEF Promise!InOrder
<1>4. j \in 1..i /\ \A k \in 1..i : k \in DOMAIN inits
  BY <1>1, <1>2, <1>3, BuiltKnown
<1>5. Latest(inits, visible[f][d], d, i)
  BY <1>1 DEF Good, CodeBound
<1>6. visible[f][d] # NoFile
  BY <1>2, <1>4, <1>5 DEF Latest
<1>7. PICK k \in 1..i : visible[f][d] = inits[k] /\ d \in project.types[visible[f][d]]
  BY <1>5, <1>6 DEF Latest
<1>8. visible[f][d] \in Members(modules)
  BY <1>4, <1>7, BuiltKnown DEF Members
<1> QED BY <1>6, <1>7, <1>8

\* When a program is built, whatever its modules import from one another: a call in
\* the code of a module means the function of the module it was imported from, no
\* name means two, and a constructor is one of the imported type unless another
\* module has a type with the same (resolved_imports, call_targets and
\* variant_constructors of module.rs and bcgen.rs).
THEOREM ImportsCorrect == Spec => []ImportsBound
<1>1. ASSUME Good, outcome = Built, NEW f \in Members(modules)
      PROVE  /\ \A p, q \in targets[f] : p[1] = q[1] => p = q
             /\ \A d \in project.functions[f] : <<d, f>> \in targets[f]
             /\ \A n \in Imported(f) : \A d \in Members(ImportedDefs(f, n)) :
                  LET g == ModuleNamed(n)
                  IN IF IsFunction(g, d) THEN <<d, g>> \in targets[f]
                     ELSE /\ visible[f][d] # NoFile
                          /\ (\A h \in Members(modules) : d \in project.types[h] => h = g)
                               => visible[f][d] = g
  <2>1. f \in Needed /\ f \in File
    BY <1>1, BuiltKnown
  <2>2. ModuleLinked(f, Imported(f))
    BY <1>1, <2>1, BuiltKnown, ModuleDone
  <2>3. CallsWhat(f)
    <3>1. PICK i \in DOMAIN inits : inits[i] = f
      BY <1>1, <2>1, BuiltKnown DEF Members
    <3> QED BY <1>1, <3>1 DEF Good, CodeBound
  <2>4. ASSUME NEW p \in targets[f], NEW q \in targets[f], p[1] = q[1] PROVE p = q
    <3>1. targets[f] \subseteq Def \X File
      BY <1>1, <2>1 DEF Good, Inv, TypeOK
    <3>2. PICK d, g, h : d \in Def /\ g \in File /\ h \in File /\ p = <<d, g>> /\ q = <<d, h>>
      BY <2>4, <3>1
    <3>3. g = h
      BY <1>1, <2>1, <2>4, <3>2, OneTarget
    <3> QED BY <3>2, <3>3
  <2>5. ASSUME NEW d \in project.functions[f] PROVE <<d, f>> \in targets[f]
    <3>1. d \in Def
      BY <1>1, <2>1, ProjectAssumption DEF Good, Inv
    <3> QED BY <2>1, <2>3, <3>1 DEF CallsWhat
  <2>6. ASSUME NEW n \in Imported(f), NEW d \in Members(ImportedDefs(f, n)),
               NEW g, g = ModuleNamed(n)
        PROVE  IF IsFunction(g, d) THEN <<d, g>> \in targets[f]
               ELSE /\ visible[f][d] # NoFile
                    /\ (\A h \in Members(modules) : d \in project.types[h] => h = g)
                         => visible[f][d] = g
    <3>1. HasName(n) # {} /\ Defined(g, d)
      BY <2>2, <2>6 DEF ModuleLinked, ImportGood
    <3>2. g \in Needed /\ g \in File /\ project.stem[g] = n
      BY <1>1, <2>6, <3>1, BuiltKnown, ModulesKnown
    <3>3. d \in Def
      BY <1>1, <3>1, <3>2, DefinedDef DEF Good, Inv
    <3>4. CASE IsFunction(g, d)
      <4>1. <<d, g>> \in resolved[f]
        BY <2>2, <2>6, <3>2, <3>3 DEF ModuleLinked, ResolvedTo
      <4> QED BY <2>3, <3>2, <3>3, <3>4, <4>1 DEF CallsWhat
    <3>5. CASE ~IsFunction(g, d)
      <4>1. d \in project.types[g]
        BY <3>1, <3>5 DEF Defined, IsType
      <4>2. Promise!DependsOn(f, g)
        BY <3>2, SameOperators DEF Promise!DependsOn
      <4> QED BY <1>1, <2>1, <3>2, <3>3, <3>5, <4>1, <4>2, TypeVisible
    <3> QED BY <3>4, <3>5
  <2> QED BY <2>4, <2>5, <2>6
<1>2. Good => ImportsBound
  BY <1>1 DEF ImportsBound
<1> QED BY <1>2, GoodAlways, PTL


-----------------------------------------------------------------------------
(* Each step leaves less to do.                                            *)

LEMMA EndIsNext ==
  ASSUME Inv, phase # "done", phase' = "done"
  PROVE  NextPhase
<1>1. phase \in {"load", "link", "emit"}
  BY DEF Inv, TypeOK
<1> QED BY <1>1 DEF NextPhase

LEMMA LoaderShrinks == ASSUME Inv, Load \/ LoadSeen PROVE UNCHANGED phase /\ LessLeft
<1>1. phase = "load" /\ phase' = phase /\ pending # <<>> /\ pending \in Seq(File \cup {NoFile})
  BY DEF Load, LoadSeen, Inv, TypeOK
<1>2. CASE Load
  <2>1. Head(pending) \notin parsed /\ parsed' = parsed \cup {Head(pending)}
    BY <1>2 DEF Load, NewFile
  <2> QED BY <1>1, <2>1 DEF LessLeft
<1>3. CASE LoadSeen
  <2>1. pending' = Tail(pending) /\ parsed' = parsed
    BY <1>3 DEF LoadSeen
  <2>2. Len(Tail(pending)) = Len(pending) - 1 /\ Len(pending) \in Nat
    BY <1>1, HeadTailProperties, LenProperties
  <2>3. Len(pending') < Len(pending)
    BY <2>1, <2>2
  <2> QED BY <1>1, <2>1, <2>3 DEF LessLeft
<1> QED BY <1>1, <1>2, <1>3

LEMMA LinkShrinks == ASSUME Inv, Staged, Link PROVE NextPhase \/ (UNCHANGED phase /\ LessLeft)
<1>1. phase = "link" /\ UNCHANGED <<modules, node>>
  BY DEF Link
<1>2. CASE Links
  <2>1. ImportName \in todo /\ todo' = todo \ {ImportName} /\ phase' = phase
    BY <1>2, LinkPlace DEF Links
  <2>2. NodesLeft' = NodesLeft
    BY <1>1 DEF NodesLeft
  <2> QED BY <1>1, <2>1, <2>2 DEF LessLeft
<1>3. CASE LinkFails
  <2>1. phase' = "done"
    BY <1>3 DEF LinkFails, End
  <2> QED BY <1>1, <2>1, EndIsNext
<1> QED BY <1>2, <1>3, LinkCases

LEMMA NodesShrink == ASSUME Inv, NextNode PROVE UNCHANGED phase /\ LessLeft
<1>1. /\ phase = "link" /\ phase' = phase /\ node <= Len(modules) /\ node' = node + 1
      /\ modules' = modules /\ node \in 0..(Len(modules) + 1) /\ Len(modules) \in Nat
  BY LenProperties DEF NextNode, Inv, TypeOK
<1>2. NodesLeft' = Len(modules) + 1 - (node + 1) /\ NodesLeft = Len(modules) + 1 - node
  BY <1>1 DEF NodesLeft
<1>3. NodesLeft' \in 0..(NodesLeft - 1)
  BY <1>1, <1>2
<1> QED BY <1>1, <1>3 DEF LessLeft

LEMMA CodeShrinks == ASSUME Inv, Emit PROVE UNCHANGED phase /\ LessLeft
<1> DEFINE f == order[Len(inits) + 1]
<1>1. /\ phase = "emit" /\ phase' = phase /\ Len(inits) < Len(order) /\ inits' = Append(inits, f)
      /\ order' = order
  BY DEF Emit, graph
<1>2. /\ inits \in Seq(File) /\ order \in Seq(File) /\ Len(inits) \in Nat /\ Len(order) \in Nat
      /\ DOMAIN order = 1..Len(order)
  BY LenProperties DEF Inv, TypeOK
<1>3. f \in File
  BY <1>1, <1>2
<1>4. Len(inits') = Len(inits) + 1
  BY <1>1, <1>2, <1>3, AppendProperties
<1>5. ModulesLeft' = Len(order) - (Len(inits) + 1) /\ ModulesLeft = Len(order) - Len(inits)
  BY <1>1, <1>4 DEF ModulesLeft
<1>6. ModulesLeft' \in 0..(ModulesLeft - 1)
  BY <1>1, <1>2, <1>5
<1> QED BY <1>1, <1>6 DEF LessLeft

\* For any files, however they import one another: a step of the build goes on to the
\* next loop or leaves less of the work of this one, so that files that import one
\* another cannot keep it going (main.rs, build_dependency_graph, BcGen::generate).
THEOREM BuildGoesOn == Spec => BuildShrinks
<1>1. ASSUME Inv, Staged, Step PROVE NextPhase \/ (UNCHANGED phase /\ LessLeft)
  <2>1. CASE LoadFails \/ EmitMain
    <3>1. phase # "done" /\ phase' = "done"
      BY <2>1 DEF LoadFails, EmitMain, End
    <3> QED BY <1>1, <3>1, EndIsNext
  <2>2. CASE NameNodes
    BY <2>2 DEF NameNodes, End, NextPhase
  <2>3. CASE Sort
    BY <2>3 DEF Sort, End, NextPhase
  <2> QED BY <1>1, <2>1, <2>2, <2>3, LoaderShrinks, LinkShrinks, NodesShrink, CodeShrinks DEF Step
<1>2. Good /\ [Next]_vars => [NextPhase \/ (UNCHANGED phase /\ LessLeft)]_vars
  BY <1>1 DEF Good, Next, Done
<1> QED BY <1>2, GoodAlways, PTL DEF Spec, BuildShrinks
=============================================================================
