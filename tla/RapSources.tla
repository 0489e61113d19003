----------------------------- MODULE RapSources -----------------------------
(***************************************************************************)
(* The source files of a program, as the compiler finds them: what a file  *)
(* contains and where an import looks for one.  A path counts as the file  *)
(* it is canonicalized to, a source text as its imports and the names it   *)
(* defines.  A type stands for its constructors: it is used by its name.   *)
(***************************************************************************)
EXTENDS Integers, Sequences

CONSTANTS
  File,      \* canonical paths of source files
  NoFile,    \* a path where there is none
  NumNames,  \* names of modules are numbered in the order of the BTreeMap
  Def,       \* names of functions and types
  Dir,       \* directories
  Projects   \* what the disk and the command line may be

Name == 1..NumNames
Import == [name : Name, defs : Seq(Def)]

ASSUME NameAssumption == NumNames \in Nat /\ NoFile \notin File
ASSUME ProjectAssumption ==
  \A p \in Projects :
    /\ p.stem \in [File -> Name]          \* the name of the file without extension
    /\ p.home \in [File -> Dir]           \* the directory it is in
    /\ p.entry \in [Dir -> [Name -> File \cup {NoFile}]]
                                          \* what `name'.rap or `name'.рап leads to
    /\ p.roots \in Seq(Dir)               \* --путь-модулей, RAPIRA_PATH, the library
    /\ p.imports \in [File -> Seq(Import)]
    /\ p.functions \in [File -> SUBSET Def]
    /\ p.types \in [File -> SUBSET Def]
    /\ p.broken \subseteq File            \* the parser rejects it
    /\ p.args \in Seq(File \cup {NoFile}) \* the files of the command line

VARIABLE project  \* the one being built; it does not change

First(S) == CHOOSE i \in S : \A j \in S : i <= j

\* ModuleResolver::resolve, next to the importing file first.
Found(f, n) ==
  LET path == <<project.home[f]>> \o project.roots
      hits == {i \in DOMAIN path : project.entry[path[i]][n] # NoFile}
  IN IF hits = {} THEN NoFile
     ELSE project.entry[path[First(hits)]][n]

\* imports_info: a map from names, one entry for each.
Statements(f) == DOMAIN project.imports[f]
Imported(f) == {project.imports[f][i].name : i \in Statements(f)}

\* add_import: the last import of a module replaces the ones before it.
ImportedDefs(f, n) ==
  LET same == {i \in Statements(f) : project.imports[f][i].name = n}
  IN project.imports[f][CHOOSE i \in same : \A j \in same : j <= i].defs

Members(s) == {s[i] : i \in DOMAIN s}
IsFunction(f, d) == d \in project.functions[f]
IsType(f, d) == d \in project.types[f] /\ ~IsFunction(f, d)
Defined(f, d) == IsFunction(f, d) \/ IsType(f, d)

\* How a build can end.
NotYet == [kind |-> "none", about |-> 0]
Built == [kind |-> "built", about |-> 0]
Error(kind, about) == [kind |-> kind, about |-> about]
=============================================================================
