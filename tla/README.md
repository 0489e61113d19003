# Rapira 26 in TLA+

Rapira 26 is an implementation of the Rapira teaching language: a compiler from
source modules to one bytecode file (`src/crates/compiler-core`), the bytecode
format (`src/crates/vm-core`), a stack machine that runs it
(`src/crates/vm-interp`) over a C runtime with reference-counted objects
(`src/runtime`), and a command line tool that ties them together
(`src/crates/cli`).  This directory models the parts whose correctness depends
on long sequences of legal operations, checks the models with TLC on small
instances, and proves with TLAPS what matters most for every instance.

## The system

| part | state | operations | with whom | what makes it correct | here |
|---|---|---|---|---|---|
| Heap objects (`runtime/*.c`, `object.rs`, the reference handling of `interpreter.rs`) | objects with a tag, a refcount and items; the operand stack | constructors, `RAP_inc_ref`, `RAP_dec_ref`, every instruction | instructions call the runtime; freeing recurses | each count is the number of owners; nothing points at freed memory; a slice stays inside its parent; a float is only overwritten unseen; releasing ends | `RapHeap` |
| Frames and calls (`interpreter.rs`) | frame pointer, counts and return address, all on the operand stack | `CALL`, `CALLC`, `BEGIN`, `END`, loads and stores | compiled code relies on the stack depth | a call has variables of its own and hands back one value; frames stay intact | `RapCalls`, `RapFrames` |
| Integers (`arithmetic.c`, `builtins.c`, `core.c`, `interpreter.rs`) | none | operators on small integers, two paths; builtins | instructions, runtime | what overflows on the way and fits in the end is right; floor division and remainder belong together | `RapNumbers` |
| Bytecode file (`vm-core`) | tables, code, string offsets | encode, decode, parse | written by the compiler, read by the VM | decoding gives back what was encoded; labels land on instructions | `RapBytecode`, `RapBytefile` |
| Code generator (`codegen/bcgen.rs`) | scopes, slots, loop stack, labels | one emitter per statement and expression | module graph, VM | an expression leaves one value and a statement none; jumps keep the depth; every name gets its slot; the code does what the program says | `RapSyntax`, `RapLanguage`, `RapCodegen`, `RapCompiler` |
| Module graph (`module.rs`) and loader (`cli/src/main.rs`) | worklist, files seen, graph, resolved imports, call targets, constructors | load, resolve, sort, compile in order | file system, code generator | each file once; what is imported runs first; every fault reported; names mean what was imported | `RapSources`, `RapProject`, `RapModules` |
| Builtins, input/output (`builtins.c`, `io.c`, `raperr`) | none | formatting, parsing of input | C library | - | not modelled but for the integers they make: I/O and formatting |
| Lexer (`lexer.rs`) | position, indentation stack, open delimiters, queued tokens | `next_token` | parser asks for one token at a time | blocks follow the indentation; every INDENT has its DEDENT; every word is returned and every fault is found, once; each call gets further | `RapText`, `RapLexer`, `RapOffside` |
| Parser (`parser.rs`, `ast.rs`) | position, the module so far | recursive descent | lexer, module graph, code generator | a text is read as the program it was written for, however it is laid out; reading ends; hidden variables differ | `RapParser`, `RapReader`, `RapLayout` |
| Error rendering (`pretty.rs`) | - | - | - | - | not modelled: formatting of diagnostics |
| Optimizer (`opt/`) | call graph | one pass | - | - | not modelled: the call of it is commented out in `main.rs` |
| Verifier (`verifyer.rs`) | - | - | - | - | not modelled: dead code |

The interpreter is single threaded, so there are no interleavings of threads to
look for.  What is hard is elsewhere: ownership of a reference passes through
the stack, variables, containers and C code by convention only; an error return
can come between any two steps of a handler; objects are freed by a recursion
while other objects are half released; values are overwritten in place when a
count says nobody looks; slices alias their parents; a frame is only a
region of a stack that holds everything else too; and what a text means depends
on indentation, delimiters and line ends that the lexer turns into tokens, and
on how far each rule of the parser reads.  `PROJECT.json` lists these
hazards at their lines, each with the properties that would catch it.

## Modules

### `RapHeap`: ownership of objects

`tag`, `rc`, `items`, `win`, `num` are the fields of the C objects, by address;
`stack` is `operand_stack`, globals first.  Every instruction that touches a
reference is one action, named for its handler (`Load` is `eval_load_global`,
`_local` and `_arg`: a slot is a slot here).  Immediate values are one value,
`Imm`; an index, a bound or a repeat count that the code reads from one is
chosen by the action.

`RAP_dec_ref` is not one step.  It calls `RAP_free_object` for a count of 0 or
less, which calls it on every child, and the memory is given back last
(`core.c:312-377`).  `freeing` is the stack of the calls of `RAP_free_object` that
have not returned, and `pending` what the recursion still has to visit:
`FreeObject` enters the destructor, leaves the object as it is and puts its
children in front of `pending`, in the order the code visits them; `FreeMemory`
gives the memory back when they are done.  Nothing tells an object whose
destructor is running from another one, here as in the code: a release that comes
back to it takes its count below 0 and enters the destructor again, and its
children are visited again.  The C stack has room for `MaxDepth` calls; the next
one ends the run (`crashed`).

An assignment to an item (`RAP_set_tuple_item`) releases the old item, with all it
owns, before it stores and counts the new one.  `Sta` is the first half, `SetItem`
the second, and `assigning` what is kept in between, when the container still
shows the item that is being released.  The next instruction starts when
`pending`, `freeing` and `assigning` are empty (`Settled`).

Two more outcomes of a C program end a run: `RAP_fatal_error` exits the process
(`exited`), and an access outside an allocation or to a freed object is
`undefined`: no promise is made about such a run.  An error
return (`error`) is followed by `DropInterpreter`.  `leaked` is a history
variable: the references a handler forgot, by object.  It lets `CountsExact`
say of every path that the count is the number of owners plus exactly what was
lost, and lets `ResidueExplained` tell a cycle from a lost reference.

`Discipline` names what programs respect although the VM does not check it:
`IndexInRange` (element assignment has no bounds check), `TextGetsChar` (a text
is only assigned text), `FlatSlices` (an assignment to a slice copies no pointer,
cuts none off and leaves the parent no shorter).  Runs state which of them they
assume.

### `RapCalls` and `RapFrames`: calls

`RapCalls` is what the language promises: activations with arguments, locals
and temporaries of their own.  `RapFrames` is the machine: arguments are the
topmost values the caller pushed, `BEGIN` puts the empty closure slot, two
counts, the old frame pointer and the return address above them, then the
locals; `END` cuts all of it off and reads the caller's counts back from the
caller's frame.  `Begin` follows `Call` as a step of its own, as in the code;
`Entering` is the moment between them.  Numbers on the stack are numbers,
whether they are program values or metadata: nothing in the code tells them
apart either.

`depth`, `frames` and `instr` are history variables: the depth of temporaries
the compiled code takes the stack to have, the open frames, the last
instruction.  The body of a function is any sequence of instructions that pops
no more temporaries than it pushed.  This is the one assumption about compiled
code, and `bcgen.rs` justifies it: `emit_expr` leaves one value, `emit_statement`
none, and no instruction of a statement goes below where it started
(`TempsBalanced` of `RapCompiler` checks that on compiled programs).  The
refinement `CallsSpec` maps the stack to activations (`ActivationOf`), and a
callee that has not reached its `BEGIN` to an activation with its arguments
(`Callee`): the call is the step that `RapCalls` sees, `BEGIN` a stutter.

The error returns of the VM for metadata slots that do not exist are not
modelled: they need a frame that is not intact, and `ChainIntact` says that no
state has one.  A call that takes for arguments what its caller has not passed
ends the run (`overlap`); what the program does afterwards is not followed.

### `RapSources`, `RapProject` and `RapModules`: from files to an order

`RapSources` describes what is on the disk and on the command line: the files a
search can find, what each imports, which functions and types it defines.  A
path counts as the file it is canonicalized to.  Names of modules are numbers,
in the order in which the code walks its `BTreeMap`s.  `RapProject` is the
promise: a build ends in a fault the project has, or in an order of everything
it needs in which a module comes after what it imports.  `FaultsOf` lists the
faults by what is wrong, with no order in which to look for them.

`RapModules` is the compiler.  `Load`, `LoadSeen` and `LoadFails` are one turn
of the worklist of `main.rs` (a missing import is skipped there); `NameNodes`,
`Link`, `NextNode` and `Sort` are the loops of `build_dependency_graph`, one
import of one module at a time, with its error returns; `Emit` is one turn of
the loop of `BcGen::generate` over the modules, as far as names go.
`petgraph`'s `toposort` stands for any topological order: which one it returns
is not part of what it documents.  `add_import` replaces an earlier import of
the same module; both the model and the promise follow the code in that.
`visible` is a history variable: the constructors known when the code of a
module was made.  The code generator keeps one table of them for all modules,
so what an imported constructor means depends on the order; `ImportsBound`
says how far it does not.

### `RapSyntax` to `RapCompiler`: from a program to what it does

`RapSyntax` has the syntax trees of `ast.rs`, and the values.  `RapLanguage`
says what a program means, by recursion over its tree: no slots, labels, jumps
or stack.  It is the specification the compiler is held to, and not translated
from it; where the sources leave a question open it follows
`doc/archive/spec_old.md`.  What a program can be seen to do is `out`, the
outputs and the assignments into objects, in order.

`RapCodegen` is `BcGen`: `env` is its `Env` together with its tables and the
instructions so far, and there is one operator per statement and expression,
named for what it emits.  The Rust emitters return instructions and change
`self.env`; here both are in `env`, and `Code` is for expressions, which change
nothing.  `RapBytecode` holds the opcodes, `Decoder::encode` byte by byte, and
`Fetch`: the dispatch table with the operands each handler reads.  `IsInstruction`
says of which instructions the two have to agree: a name with the operands it takes,
each within its width, and a count of arguments with the builtins that count theirs
and with no other.
`RapBytefile` is `add_instructions` (labels, sizes, resolution), `encode` and
`parse`; strings and integers of the tables stand as one element of the file,
the code section is in bytes.

`RapCompiler` puts them together: `Compile` (a panic of the generator or a label
that cannot be resolved ends it), `Load` (which forgets the compiler and keeps
only the file), and one action per handler of the VM, on what `Fetch` finds at
`ip`.  Two things are simpler than in the VM because other modules are about
them: a call has an activation of its own, which is what `RapFrames` is shown to
implement, and values are values, not references (`RapHeap`).  Numbers are
unbounded here (`RapNumbers` has their limits); what the runtime makes of operands that are not numbers is a term.
Handlers of instructions that the generator never emits are left out.

The checked programs leave some questions aside, each a hazard in
`PROJECT.json`: the variable of a loop and the bindings of a pattern have names
of their own; one `input` has one variable; a field has one place in all
variants that have it; the limit and the step of a counting loop do not change
while it runs; an output has values, none of them a function; a case has one
value and the right operand of `и` and `или` no effect but its value
(`compile_documents` is about both); builtins get the operands they take;
a variable is used after its declaration was executed.  The generator panics at
`Empty`, at `ReturnFromProcedure` and at an `input` into an element; these have
no code to compare.

### `RapText` to `RapReader`: from a text to a program

A text (`RapText`) is a sequence of lines, and a line its indentation and its
words; a word is what makes one token, or what no token can be made of.  How
characters make words is abstracted, with blanks, comments and semicolons.
`RapLexer` has the fields of `Lexer` under their names.  An action is one call
of `next_token`, or a few: where it calls itself for the next line, or returns
the first of the tokens it has queued.  `returned` is a history variable, and
holds the errors too, because the iterator goes on after them.  The branch of
`process_line_start` for lines that start inside delimiters is not in the model:
`LineStartsOutside` says, and `LexerCorrect` proves, that it is never taken.
`RapOffside` is what the indentation of a text means, as a formula about the text
with no stack in it, what is wrong with a text, and what it means that every word of it
was returned (`TextReturned`).

`RapParser` has one operator for each function of the parser, from a position
to a position and a value, an error or a panic.  `RapReader` is `parse_program`:
`Lex` runs the lexer, each turn of the loop is one of `ReadFunction`,
`ReadImport`, `ReadType` and `ReadStatement`, and `Tokens` drops the errors of
the lexer as `advance_lexer` does.  The code asks the lexer for each token when
it needs it; the lexer takes nothing from the parser, so it has run to its end
here before the first definition is read.

`RapLayout` goes the other way: it writes a program (`RapSyntax`, the type that
`RapCodegen` starts from) as text, with parentheses where the precedence
of operators asks for them and nowhere else, bodies as blocks or
behind their heads, statements on lines of their own or joined, blank lines and
line ends inside delimiters.  `RoundTrip` holds the parser to it.  The levels of the
operators between two operands (`BinaryLevels`) are the table of `ast.rs:264`, which
`spec_old.md` (2.2.3) has, too.  Those of the operators before one
(`PrefixLevels`) are the parser's own: for a sign the documents disagree.  The
table of `spec_old.md:679` has unary `-` and `+` on the level of the binary ones, below
`* / // /%`, and `examples/02_arithmetic.rap:80` repeats it; the results that
`examples/02_arithmetic.rap:29` and `34` expect of `-7 // 2` and `-7 /% 2` need a sign
that binds tighter, as the parser has it.  So `RoundTrip` shows of signs that the
parser is consistent, on both sides of every operator and with parentheses; that it is
not what the specification says is shown by the run `read_documents`.

### `RapNumbers`: integers

The interpreter computes `+ - * // /%` and exact `/` itself, in 64 bits, and
`new_boxed` keeps 32; the runtime makes integers with `RAP_create_int_obj`,
which ends the process when one does not fit.  `acc` is an integer of the
program, `exact` (a history variable) what it would be without bounds, and an
action is one operator, builtin, literal or input.  The width is `Half`, 2^31 in
the code.

### Proof modules

For the heap there are two, the second on top of the first: `RapHeapTypes` (the
type invariant of `RapHeap`) and `RapHeapCorrect` (how references are counted in a
sequence and in the items of all objects, the inductive invariant of the counts and
the rules that reduce it to a sum, one lemma for each instruction, what a step may do
to the objects, and the theorems).  `RapFramesCorrect` holds the
invariant of the frames, one lemma for each instruction, `RapCallsCorrect` the
refinement of `RapCalls`, `RapModulesCorrect` the invariants of the loader, its
refinement of `RapProject` and what each of its steps uses up, `RapLexerCorrect` the
invariants of the lexer, what they say about the formulas of `RapOffside` and that it
goes forward, `RapNumbersCorrect` the arithmetic of
wrapping and of floor division with the invariant of the register, and
`RapBytefileCorrect` the codec: numbers as bytes, operands, opcodes, the offsets of
the code section, and the sections of the file.

## Runs

Every cfg names its constants; the bounds are the constants `MaxStack`,
`MaxItems`, `MaxLeak`, `MaxTemps`, `MaxExact`, `Fuel`, the sizes of `Addr`, `Fun`
and `Site`, and the texts and programs of the MC modules.

| run | what it shows | bounds |
|---|---|---|
| `heap_values` | every value kept in globals, the stack, tuples and fields, floats written in place, elements and fields assigned, cycles included: counts exact; what is left when all is released is a cycle or was lost by an error return | 2 objects, 1 global, 3 more slots, 2 items: enough for self-reference and a 2-cycle; an assignment to an item releases the old item while the new one is not counted |
| `heap_slices` | slices of slices with bounds on both sides of every edge, sums, copies and comparisons of them, and assignments to slices | 3 objects, 3 slots, bounds -1..3 on at most 2 items; slice assignments copy no pointer, cut none off and leave the parent no shorter (`FlatSlices`) |
| `heap_cascade` | releasing ends without a use of freed memory or of more of the C stack than there are objects, and each step of it takes back one of the references that are left or gives memory back | 3 objects, 2 items: chains, sharing, slices, objects that assignments to items make hold themselves or one another; no error return that loses a reference; `MaxDepth` 3 is as deep as 3 objects are if none is freed twice |
| `frames_calls` | recursion: frames intact and apart, depths as compiled, refinement of `RapCalls`; an overflow of the stack in a push or in the middle of `BEGIN` | 2 functions, 3 temporaries, stack of 30: three levels of calls |
| `modules_build` | each step of the build leaves less to do, and it ends; it reports a fault the project has, or compiles everything needed in the order of imports with names bound to what they mean | all 512 import graphs of 3 modules, self-imports included; every way for two modules to define and import one name; names that differ between file and import, two directories, broken and missing files |
| `compile_programs` | the code of a program, written to a file, read back and run, does what the program says and stops where it stops; its stack, slots, jumps and bytes are what the VM takes them to be | 696 programs: 6 loops and 4 branches, each around every other with every way to leave it, at the top level and in a function; recursion, functions as values, hiding, input, errors; every expression and target; patterns in patterns; up to 3 modules. `Fuel` 12: calls and turns of loops of a run |
| `read_programs` | a program laid out as text is read as that program; blocks follow the indentation; every word is returned, once and in the order of the text; the lexer finds every fault; hidden variables have different names; reading ends | every operator as an operand of every other on both sides, every statement in the bodies of every other, definitions, in 4 styles; one text cut off after every word and without every line; every text of up to 4 lines out of 8 and every indentation of up to 5 lines in 0..3 |
| `numbers` | integers fit however they are made; what overflows and fits in the end is right; floor division | 4-bit integers, 5-bit literals, exact results up to 100 |
| `heap_sts_release` | violation: slice assignment copies pointers and counts none, so that a tuple it put into itself is freed again and again until the C stack is used up | 3 objects, 1 item |
| `frames_arity` | violation: a `CALL` with too few arguments makes the caller's slots the callee's | |
| `compile_documents` | violation: of the values of a case only the first selects it, and the right operand of `и` is evaluated whatever the left one is | 1 program, 4 selectors and 1 `и`; its output shows both |
| `read_documents` | violation: a line behind a tab is compiled, although the lexer rejects it, and in it `-a // b` is `(-a) // b`, although the specification has signs below products | 1 text, which shows both |

Why small bounds are enough: instructions look at no more than three operands
and one object's items, so a second and a third object are what aliasing,
sharing and nesting need; two items tell first from last; bounds of slices
range over both sides of 0 and of the length; and a stack that holds three
values above the globals reaches its limit with every instruction.  The loader
and the graph treat every module and every pair of modules alike: three modules
make every shape of cycle, diamond and chain in which an order can be wrong, and
a conflict of names involves an importing module and two others.  A rule of the
parser decides by the next token, and what it took for its operand ends where
the rule called for it ends: expressions of two operators and statements of
three levels put every rule's end before every other's continuation.  A line of
indentation is compared with the stack, and three levels with a jump back over
two of them, to one of them or to none are what five lines can show.  Four bits
are enough for integers to wrap more than once in a product; the theorem is about
every width.

The runs that expect a violation are disagreements between the code and what
the repository says of it; `PROJECT.json` quotes the lines.

An emitter looks at one statement and at the `Env` around it: two levels of
nesting show what each does to the loop stack, the scopes and the depth that
another one finds, and the third level is the body that leaves them.  A program
whose meaning needs more than `Fuel` calls and turns is not looked at (`Init`);
an endless one has no meaning to compare.

`heap_sts_release` is more than a count that is off: `FreeObject` has no way to
know that the object it is called for is being freed, and each time round visits the
same items.  Of what slice assignment does to counts that is the end that no use of
freed memory is needed for.

Three more disagreements have no run of their own.  A tuple times an integer
counts every pointer twice (`runtime/arithmetic.c`), so it is never freed; the
model has it (`Repeat`, with the surplus in `leaked`).  And objects can hold
themselves (`RAP_set_tuple_item`), which `doc/archive/REFERENCE_COUNTING.md`
holds impossible; `heap_values` checks programs that do.  And an output may have no
values: the parser takes `вывод бпс:` (`parser.rs:578`), the generator counts 0
(`bcgen.rs:517`), for which `Decoder::encode` writes no operand (`decoder.rs:377`),
and the VM, which goes by the builtin, reads four bytes of the next instruction for
one (`interpreter.rs:621`).  That is why `IsInstruction` asks for a count there, and
the programs of `compile_programs` output at least one value.

The meaning of a program in `RapLanguage` follows the documents where they say
something: the right operand of `и` and `или` is evaluated only if the left one
leaves the answer open (`spec_old.md:921`, `examples/02_arithmetic.rap:63`).  The
generator evaluates both (`bcgen.rs:271`), and `compile_documents` shows a program whose
output tells.

Comparing slices leaves the copies behind that it materialized.  The model has
it (`Equal` counts them in `leaked`, where `ResidueExplained` finds them), with
no run of its own.  Assignment to elements of texts has none either:
`CountsCorrect` covers it.

Fairness: `FairSpec` of `RapHeap` has weak fairness of `Continue`, what is left of
an instruction: a decrement that is due, memory to be given back, the second half of
an assignment.  It is the next thing the C code does, with nothing to wait for.
Nothing is assumed of the program: it may stop between any two instructions.
`FairSpec` of `RapModules` has weak fairness of the compiler's next step: it is
one thread that waits for nobody.  `FairSpec` of `RapCompiler` has it of `Step`:
once it runs, the VM dispatches the next instruction until it stops.  Nothing
obliges anyone to compile or to start a program.  `FairSpec` of `RapReader` is weak
fairness of each thing the reader does, one thread with its text in memory; for
`ReadNext` the condition under which it is enabled is written out (`ReadsOn`),
which spares TLC to parse a text to find out whether it can.

## Proofs

`RapHeapTypes!TypeCorrect`: `Spec => []TypeOK`, for all constants that satisfy
the assumptions of `RapHeap`.  `TypeOK` is inductive as it stands because
`HeapOK` carries what a slice needs (one parent, bounds in order).  One lemma per
action; the sequence lemmas say what `SubSeq`, concatenation, clamping and
repetition give, and that the arithmetic of `Clamp` keeps bounds in order.

`RapHeapCorrect`: `CountsCorrect` (`Spec => []CountsExact`) and what follows from
it, for any number of objects, items, globals and stack slots, on two
assumptions.
`"STS" \notin Instrs`: programs do not assign to slices; in the run
`heap_sts_release` they do, and counts fall below the number of owners.  (Where no
pointer moves, `heap_slices` checks slice assignment as well.)
`"TextGetsChar" \in Discipline`: a text is only assigned characters; without it
a text would hold a pointer, and taking a character out of a text copies the item
without counting it (`Elem`).  Cycles, error
returns, every operand stack overflow, the exits of the C runtime and accesses
outside an allocation are all covered.

`CountsExact` is not inductive.  The invariant is

    Inv == TypeOK /\ AssignOK /\ Exact
    Exact == Balanced /\ FreeClean /\ TextChars /\ FreeingZero /\ AssignHeld

`Balanced` says `rc[x] = Occurs(stack, x) + Occurs(pending, x) + leaked[x] +
HeapRefs(x)` for every address, the free ones included: an allocation takes an
address and relies on nothing pointing there.  `HeapRefs` counts the items that own
what they hold (`Held`): not those of an object whose destructor is running, which are
`pending` or released, and not the item that is being replaced.  `FreeClean` makes
the sum 0 for free addresses; `TextChars` says that texts hold characters.
`FreeingZero`: an object whose destructor is running has a count of 0 and is in
`freeing` once, so that nothing that could release it is left.  `AssignHeld` and
`AssignOK`: while an assignment is under way its container, index and operand are
where they were, and the new item is still owned by the operand on the stack; that
is why the old one may be released first.
Every handler removes its operands from the stack, pushes its results,
hands some references over to `pending`, counts some and forgets some.  The
rules say which sum has to balance: `Counting` when no item
changes, `Changing` when those of one object do, `Making` when an object is made
at a free address.  The steps that need more are those of a release.  Where a destructor starts, the
count was at most 1 and the release itself is an owner, so there is no other, and
no destructor of the object is running; its items stop being `Held` and become
`pending`, which keeps the sum (`Rebalance`).  Where it ends, the sum for the object
is 0 and stays so.
`NothingDangles` (`[]NoDangling`) is the other half: what a count of 0 excludes.

Three more theorems rest on that invariant and on a classification of every step
of the machine (`Orderly`): it keeps the objects but for items of one that is no
slice (`Keeps`), makes one at a free address (`MakesNew`), frees one (`Frees`), or
changes a float whose only owner is the operand on top (`Overwrites`).
`SlicesInside` (`[]SliceInWindow`): a slice never changes, its parent keeps its
length, and by the exact counts a parent is not freed before its slices.
`OverwritesHidden` (the action property `OverwriteUnobserved`): a count of 1 and a
place on the stack leave no other place.  `CleanHeap` (`[]ResidueExplained`):
a live object has a count above 0 (`RcPositive`), and a run that has ended has
an empty stack (`Drained`), so that the owners left to explain the count are in
the heap or were lost.

`ReleaseEnds` (the action property `ReleaseShrinks`) is about programs without slice
assignment, too, whatever cycles their assignments to items and fields make; with it
the statement is false (`heap_sts_release`).  The measure `Owed` adds up the
references that are pending or held, the live objects, and 3 for an assignment under
way.  Releasing a reference takes it from `pending`; starting a destructor turns the
items of the object into pending references, less the one that led to it; ending one
leaves a live object less; and `SetItem` stores one item and leaves two references to
release.  That a destructor turns references into pending ones only once is
what the exact counts are needed for: by `FreeingZero` no release is due of an
object that is being freed.  A use of freed memory is excluded by the counts as well;
a step that ends the run because the C stack is used up is not, since nothing
bounds how deep a structure is.  With weak fairness of `Continue` a release therefore
ends (`CascadeEnds`, which TLC checks).  `FreedInTurn` (`[]FreedOnce`) follows from
`FreeingZero`.

`RapFramesCorrect`: `FramesTyped` (`Spec => []TypeOK`) and `MetadataKept`
(`[]ChainIntact`) for any functions, any number of their arguments and locals, any
depth of calls and any limit of the stack; `FramesApart` (`[]FramesDisjoint`) and
`ReturnsBalanced` (`[]StackBalanced`) if calls have as many arguments as the function
has parameters (`"ArityMatches" \in Discipline`).  Without the discipline a `CALL`
may have any number of arguments and metadata are still intact until a frame
overlaps its caller's, which ends the run of the model; the run `frames_arity`
shows that it does happen.  Four things make the invariant inductive:

- `Stacked`: each frame is above every frame opened before it and above the
  globals.  It is said of every two frames, so that no step needs an induction
  along the chain.
- `MetadataAt`: the four words of each frame, one by one.
- `Current`: the registers are those of the innermost frame, and its temporaries
  (at least as many as compiled code counts) are above it.  A store reaches
  globals, arguments and locals of the innermost frame only (`VariableSlots`),
  and by `Stacked` none of them is a word of metadata.
- `Starting` and `Returns`: what `BEGIN` finds, called by an instruction or by
  `Interpreter::new`.

With arities that match, `StackBalanced` says what a frame is given
(`ArgumentsMatch`), hence that `BEGIN` never finds too little (`NewFrameAbove`).

`RapCallsCorrect!CallsCorrect`: `Spec => CallsSpec`, the refinement of `RapCalls`, on
the same discipline.  An activation is made of three parts of the stack:
arguments below the metadata of its frame, locals above them, and temporaries up
to the next frame (`InnermostMade`).  A step touches slots of the innermost frame
and above (`VariableSlots`), so the activations of the callers, whose parts are
below by `Stacked`, are the same sequences after it; what happens to the slots of
the innermost one says what its activation becomes, one lemma for each
instruction.  `CALL` already makes the activation of the callee, whose arguments
are on top of the stack and whose locals are still to be pushed (`Callee`), so that
`BEGIN` changes nothing there; and by `StackBalanced` what `END` leaves is the
caller's part with one value more.

`RapModulesCorrect`: `GraphTyped` (`Spec => []TypeOK`), `LoadedOnceCorrect`
(`[]LoadedOnce`), `BuildCorrect` (`Spec => ProjectSpec`, the refinement of `RapProject`)
and `ImportsCorrect` (`[]ImportsBound`), for any number of files, names,
directories and definitions.  The invariant of the first two adds
that the project is one of `Projects` and that the loop over the nodes has begun
with the first.  `FoundFile` says that a search leads to a file or to none; it
rests on the first directory with a hit, which is why the well-foundedness of
`<` is used.  `LoadParts` turns the order in which `Load` appends what it found
into the set of what the worklist gains.  The other two need an invariant for
each phase (`Good`):

- `OnlyNeeded`: the worklist and the parsed files are needed.  As the parsed files
  and the worklist together are closed under imports (`LoadedOnce`) and `Needed` is
  the least set that is, an empty worklist means that all that is needed is
  parsed (`AllLoaded`).
- `Linked`: of each module, the imports resolved so far have nothing wrong with
  them, and its edges and its table are what they list.  That a name is listed
  once comes from the conflicts that were not found, functions before types
  (`LinkAdds`); and a conflict that is found is one of the promise (`ClashIs`).
- `Ordered` and `Emitted`: what is generated is a beginning of an order in which a
  module comes after its imports.  Sorting fails just when there is a cycle: with an
  order the first member of a cycle would come before itself
  (`OrderExcludesCycle`), and without a cycle the modules can be placed one by one, since
  otherwise the least rest that ever remains would have a member that imports none of
  it (`AllCanBePlaced`, `OrderExists`).
- `CodeBound`: the targets of a compiled module are its own functions and those it
  imports, and `variant_constructors` holds the last module of the order that
  defines a constructor (`Latest`).  With `Ordered` an imported module is among those
  (`TypeVisible`).

A step that ends the build with an error is `Promise!Reject` because the error is one
of `Faults` (`FaultsAre`), one lemma for each action; `EmitMain` is `Promise!Build`
because there are no faults (`NoFaults`); every other step changes nothing of the
promise.

`BuildGoesOn` (the action property `BuildShrinks`) needs the invariant, too: that a
file the loader parses is a new one is known because the worklist is looked up in
`parsed` first, and that the generator has a module left because its code is a
beginning of the order.  A step goes on to the next loop of the compiler, of which there
are three, or leaves less of this one: files that are not parsed (compared by inclusion,
since `Load` also makes the worklist longer), or as many and a shorter worklist; nodes
of the graph, or as many and fewer of the imports of this one; modules without code.
With finitely many files and names no loop can therefore go on for ever, however the
files import one another; that it goes on until its work is done is what weak fairness
says.  The two give `BuildEnds`, which TLC checks.

`RapLexerCorrect!LexerCorrect`: `LexerSpec => [](BlocksNest /\ LineStartsOutside
/\ Paired)`, for every text.  `Paired` says that what has been returned has as
many Indents as Dedents when the text ends, whatever errors lie between.  The
invariant counts: with what is queued, Indents exceed Dedents by the blocks on
the stack (`Balanced`, through the lemmas on `HowMany`); and once
`emit_eof_dedents` has run the text has ended with no block (`Finishing`, `Closed`).
What the parser gets is balanced even though it drops the errors.

`BlocksCorrect` (`LexerSpec => []BlocksFollowIndentation`) and `FaultsCorrect`
(`LexerSpec => []FaultsFound`) hold the same lexer to `RapOffside`, for every text.
The invariant `OffsideInv` adds to the one above:

- `DepthRight`: `paren_depth` is `Open` of the place the lexer is at, if no delimiter
  is closed that is not open.  The code counts as it goes and never below 0; `Open`
  counts the words before the place (`OpenNextWord`, `OpenNextLine`).
- `Follows`: up to the first line that goes back to no block, the levels on the stack
  are `Blocks` of the line the lexer is in.  `Blocks` looks at all the lines before;
  a line that does not count leaves them (`BlocksSkip`), one that does keeps those it
  is not short of and adds itself (`BlocksAt`), and so does the stack
  (`StackFollowsLine`).
- `MarksBeforeWords`: what is queued belongs to the start of a line, so that when
  the first word is returned nothing is due any more and `Balanced` says how many
  Indents have been returned (`CountsHere`, `AtFirstWord`).

For the faults, `FaultsSoFar` says that the errors made so far are those of the places
passed so far, each once (`Found`); a step passes a word, a line or nothing
(`FoundMore`, `FoundNoMore`), and the DedentError of the first line that is lost is
the last that is judged.

`TextCorrect` (`LexerSpec => []TextReturned`): every word the lexer has passed was
returned, and no two tokens that are returned come from one place or in the wrong order,
the ends of blocks excepted, of which one line can make many.  The invariant is
`TextSoFar` with `OffsideInv`.  It says where the lexer is in a line: what has been
returned stands before the word it is at (`Within`), and before its line as long as the
mark of that line (Indent, TabError or DedentError) is still queued; that mark is the
last in the queue (`MarkLast`), behind Dedents only.  So a word cannot be returned before
the mark of its line, nor the mark twice.

`LexerGoesOn` (`LexerSpec => LexerAdvances`): each step gets further in the text, or out
of the start of a line, or returns what is queued, or closes the blocks at the end, or
ends.  None of these can be undone without getting further in the text, so the lexer
stops after finitely many steps, which is its part of `ReadingEnds`.  No run has
`LexerAdvances` for a property of its own: what it would show is `ReadingEnds`, and the
theorem covers every text.

`RapNumbersCorrect`: `NumbersFit` (`Spec => []TypeOK`), `NumbersCorrect`
(`[]OverflowForgiven`), `DivisionsAgree` (`[]DivisionLaw`) and `CountingDivides`
(`[]DividesByCounting`), for integers of every width.  The invariant says that `acc` and
`exact` differ by a multiple of the number of integers (`Same`), which sums,
differences, products and negatives keep (`SameRing`) and wrapping does too;
two such numbers within the width are equal.  `FloorDivision` derives both
results from the truncating division of C and Rust.  `DividesByCounting` compares with a
function that counts how often the divisor can be taken away: the quotient
solves its equation, so that there is such a function, and two that solve it have no least
argument at which they differ.

`RapBytefileCorrect` is about lists of instructions, not about a state machine.
`FetchesEncoded`: wherever the bytes of an instruction stand, `Fetch` finds it and
gets to the byte behind them.  Four bytes give back the number they were made of
(`OperandBack`), and an opcode leads to one case of the dispatch table, and there to
the instruction it was made for.  `CodeReadBack`: the code of a list of instructions has the
length that the first pass counts, `Fetch` finds every instruction at the offset that
pass has given it and gets to the next, a label takes no room, and a jump has
the offset of its label.  The first pass adds up sizes from a table and the second
one encodes after the labels are resolved, so `Size` has to be the length of what is
written later; that the parts then stand one behind the other is a fact about
`FlattenSeq`, shown from the definition of that function and of `Offsets` by the least
list, or place, where it fails.  The hypotheses are `Assembles`, which `Compile` tests
before it writes a file, and `IsInstruction` of everything but the labels, which `TypeOK` of
`RapCompiler` checks on what is generated for the programs of `compile_programs`.
`FileReadBack`: `Parse` of `EncodeFile` has the number of globals, the schemas and the code
section that were written; where the file has the place of a string its table has that
string; and the entry is the first symbol called `main`.  None of the sections has
an end of its own: each starts where the lengths of those before it add up to, and the
schemas, whose fields differ in number, are read one by one, each from where the one
before it ended.  `IsFile` asks of a file that every name of a symbol, schema or field
is in the table, which is how `Assembled` of `RapCompiler` makes the table.

`JumpsFindInstructions` is what the VM needs of a jump: at its offset stands, whole, the
first instruction behind its label, or the code ends there.  Labels take no room, so a
label has the offset of whatever follows it, other labels included (the least place
behind it that is none).

`RapCompiler` uses these operators as they are: what its property `DecodesBack` says of
the checked programs, these theorems say of every list of instructions.

Only model-checked: liveness (`CascadeEnds`, `BuildEnds`, `RunsEnd`, `ReadingEnds`),
which is out of reach for this prover like every statement about fairness or `ENABLED`.
The properties of `RapCompiler`: `RapLanguage` and `RapCodegen` are recursive over the
syntax tree, which puts everything about programs out of the prover's reach; the codec
is proved without them.  The properties of `RapReader`: the parser is recursive, too,
and only its lexer is proved.

## Not modelled

The optimizer (its call is commented out), the bytecode verifier (not part of
any path to a run), error rendering, formatting and the text that is read and
written, floats beyond whether they are one, files of bytecode that the compiler did not
write, dumps, captured variables (`todo!()`).  In texts: how characters make
words, and lines of nothing but semicolons, which count as lines with words for
the lexer's indentation and give no token.
