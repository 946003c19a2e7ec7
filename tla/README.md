# A verification project for the moss interpreter

moss is a language whose program and notes (documentation, output) live in one
file.  `src/` compiles a `.ms` file to bytecode and interprets it in one
process and one thread.  What is hard about it is not concurrency.  One half is
*control and ownership*: a tracing garbage collector under a bytecode machine
that calls itself recursively, exceptions that unwind several interpreters (one
per imported module), `finally` blocks run from inside opcodes, and native code
that calls back.  The other is *translation*: a hand-written parser that also
reads a REPL line by line, passes that rearrange the tree they analyse, a
generator of code whose shape the interpreter relies on, and calls with named,
default, variadic and unpacked arguments, overloads and receivers.

This directory holds TLA+ models of those parts, the TLC runs that check them
on small instances, and TLAPS proofs about them.

## Inventory

| part | state it keeps | operations | interacts through | hard because |
|---|---|---|---|---|
| heap and collector (`vm/gc.cpp`, `vm/memory.*`) | all values, frames (memory pools), VMs, `popped_frames`, marks | collect: mark roots, trace, sweep values, frames, VMs | runs between two opcodes; destructors of values push frames | every pointer must be traced or rooted; frames have several owners; cycles |
| interpreter (`vm/interpreter.*`) | per VM: `frames`, `const_pools`, `call_frames`, `parent_list`, `bci`, `stop`; shared: `stack_frames`, converters, generators | `run`, `run_from_external`, `cross_module_call`, `runtime_call`, `handle_exception`, `unwind_stacks`, `call_finally` | C++ recursion; C++ exceptions (`Value *`) | two stacks (the C++ one and the moss one) must agree on every way out |
| opcodes (`bytecode/opcode.*`) | none | 120 opcodes, each an `exec(vm)` | all of the above | call resolution, imports, finally |
| bytecode generator (`bytecode/bytecodegen.*`) | registers, loop and try nesting | IR to bytecode | shape of the code is a contract with `run` | `try` in loops in `try` |
| bytecode files (`bytecode_reader/writer`) | the checksum so far | write, read | `.msb` files | two lists of the operands of 130 opcodes that must agree; files that are incomplete |
| scanner, parser (`frontend/`) | tokens and position; counters of multi-line constructs, parentheses, contexts; annotations and parents waiting | `parse` a file, `parse_line` for the REPL, a function per construct | trees | context is carried in counters; the REPL scans on in the middle of a construct, and goes on after errors |
| IR and passes (`midend/`) | tree with parents; flags of the walk | 3 analyses, constant folding, 2 eliminations of dead code, in one walk | trees | folding must agree with the opcodes; rules are checked on a tree that is being rearranged |
| converters and generators | `converters`, `generators`, notes | `@converter`, `@generator`, `Output` | runtime calls | paths of converters, recursion |
| standard library, native (`stdlib/*.cpp`) | files, processes, Python | functions marked `@internal` | `mslib::dispatch`, runtime calls | values held in C++ locals while moss code runs |
| standard library, moss (`stdlib/*.ms`) | none | programs | imports | |
| command line, REPL (`moss.cpp`, `interface/`) | options | | | restart after an error |

Correctness of each part, in a sentence: the collector frees exactly what the
program can no longer use; every way out of a function leaves the stacks as
they were before the call; an exception reaches the innermost handler that is
active and every `finally` is run once; an import runs a module in an
interpreter of its own and, however it ends, leaves the list of modules being
imported as it was; a converter path converts from the first format to the
last; an expression is parsed as the tree it was written from, and the REPL
gets from the lines of a file what the file has in it; programs that break a
rule are refused and no others; a pass does not change what a program does, and
the code generated for a tree does what the tree means; a file read back is the
code that was written.

## Modules

| module | what it is | models |
|---|---|---|
| `GcHeap` | the heap: values, memory pools, VMs; mutator and collector | `vm/gc.cpp`, `vm/memory.*`, allocation and destruction in `vm/values.*`, the opcodes that move pointers |
| `GcAbstract` | what a collected heap promises: only unreachable objects disappear | class comment of `TracingGC` |
| `GcHeapInv` | the inductive invariant of `GcHeap` | |
| `GcReachable` | reachability as the least closed set, exact marking, the mapping to `GcAbstract` | |
| `GcHeapProofs` | the proofs (TLAPS): invariant, no lost pool, exact marking, refinement | |
| `MCGcHeap` | small instances | |
| `CallStack` | frames, call frames and nested runs of several VMs | `vm/interpreter.cpp`, the opcodes for calls, imports, try |
| `CallStackInv` | the inductive invariant of `CallStack` | |
| `SequenceLemmas` | facts about sequences and sets of numbers (TLAPS) | |
| `CallStackLemmas` | what the helpers of `CallStack` do to the invariant, and its proof for the opcodes that begin a call or a class (TLAPS) | |
| `CallStackSteps` | its proof for native calls, tries, and the ends of functions, runs and imports | |
| `CallStackTheorems` | its proof for new runs and for exceptions, and the theorems | |
| `CallStackRefinement` | the proof that `CallStack` implements `StructuredCalls` | |
| `StructuredCalls` | what calls and exceptions mean to a program | the language reference |
| `MCCallStack` | small instances | |
| `TryCode` | statements, the code generated for them, and their meaning | `bytecode/bytecodegen.cpp` |
| `TryFinally` | one interpreter on such code: the run loop, its catch clause, nested runs for `finally` | `vm/interpreter.cpp`, `bytecode/opcode.cpp`, `vm/memory.cpp` |
| `TryFinallyProofs` | nested runs are counted (TLAPS) | |
| `TryPrograms` | `TryFinally` on the code of `TryCode`: the composition, and its properties | |
| `MCTryPrograms` | the programs | |
| `Syntax` | the trees: one operator per kind of node | `midend/ir.hpp` |
| `Parser` | the parser's functions, from tokens to trees | `frontend/parser.cpp` |
| `Grammar` | how expressions are written: trees to tokens | `docs/language-reference/4-types-values-and-operators.md` |
| `FrontEnd` | the reader of files and that of lines, on the same text | `Parser::parse`, `Parser::parse_line` |
| `MCFrontEnd` | the texts | |
| `Passes` | the pass manager and the five passes | `midend/` |
| `CodeGen` | trees to opcodes | `bytecode/bytecodegen.cpp` |
| `Values` | values, and what the opcodes of operators do on them | `vm/values.*`, the operators of `bytecode/opcode.cpp` |
| `Machine` | the interpreter on code of `CodeGen`, one step per opcode | `bytecode/opcode.cpp`, `vm/memory.cpp`, `vm/interpreter.cpp` |
| `Operators` | what operators mean | `docs/language-reference/4-types-values-and-operators.md`, `tests/` |
| `Meaning` | what a program means, by recursion over its tree; the rules it keeps | the language reference |
| `Compilation` | passes, generator and machine against meaning: the composition, and its properties | |
| `MCCompile` | the programs | |
| `BytecodeFile` | writing a code to a file, what may happen to the file, and reading it | `bytecode/bytecode_writer.cpp`, `bytecode/bytecode_reader.cpp` |
| `BytecodeFileProofs` | the proofs (TLAPS): the tables agree, what is accepted is what was written | |
| `MCBytecodeFile` | the codes | |

Four models cut the same interpreter at four places.  `GcHeap` knows which
objects point to which, and abstracts control: a call pushes a frame, an
exception pops some.  `CallStack` knows every stack and every C++ activation of
`run`, over all bytecode at once, and leaves `finally` blocks empty.
`TryFinally` knows the opcodes of one interpreter, their addresses and what a
`finally` block does, on the code that the generator emits for given programs.
`Machine` knows values, names and arguments, and ends at the first exception.

The modules of the compiler are a chain, as in the code: tokens -- `Parser` --
tree -- `Passes` -- tree -- `CodeGen` -- opcodes -- `Machine` -- output.  Two
specifications of what the chain promises stand beside it, written from the
language reference and the tests: `Grammar` beside `Parser`, and `Meaning`, with
`Operators`, beside all that follows.

### GcHeap

State: `all_values`, `live_pools` and `vms` are what is allocated; `refs`,
`pools`, `home`, `slots`, `vm_owner` are the pointers that `blacken_value`,
`mark_frame` and `mark_roots` follow; `iterates`, `pool_owner`, `converters` and
`in_flight` are pointers the program uses and the collector does not follow;
`stack_frames` is the shared stack with, for each entry, its frame, VM, function
and the values in its open call frames; `popped_frames` counts how often a pool
is listed for deletion; `marked`, `gray` and `phase` are the collection.

Each mutator action is an opcode or a family of opcodes with the same effect on
pointers (allocate, load, store, append, remove, call, return, import, raise,
catch, ...).  An action starts in `phase = "run"`: the collector is called by
the run loop between two opcodes only.  It may start at any such point; the
code starts when enough was allocated since the last time, which is one of
those.  Marking is one object at a time, in any order (the code's is depth
first): `ScanValue`, `ScanPool` and `ScanVM` are `blacken_value`, `mark_frame`
and the part of `mark_roots` for one VM.  The sweeps are one action each, as
nothing reads the heap between their steps; the destructors they run, which
list further pools, are part of them.  `EndImport` takes any module that
is not waiting below off the list of modules being imported; the code takes the
last one (`gc.cpp:17`), which is one of these.

### CallStack

State: `frames` and `call_frames` of each VM, the shared `stack_frames`, the
tries of every frame, `runs` (the activations of `Interpreter::run` on the C++
stack, with why each was started and which VM it runs), `imports`, and the
exception in flight (`raised`, `mode`).  Where the code of a VM is, `bci`, is
known by the frame whose code it is in, and so are the two places it is put back
from: `caller_addr` of a call frame, which `Return` and the opcode `Call` use,
and the local `pre_call_bci` of `Interpreter::runtime_call`.  A call is the three steps of the code:
`PushCallFrame`, then evaluating arguments (arbitrary opcodes), then `Call`,
whose outcomes are an own function (`CallFunction`), a function of another
module (`CallModule`, `cross_module_call`), native code that calls back
(`CallBack`, `runtime_call`) or that does not (`CallNative`).  The catch clause
of `run` is `Propagate`: run a `finally` and execute the opcode again, handle
the exception in this VM, unwind it, and leave this activation to the one below.

The bytecode is arbitrary: any opcode may come next, provided tries and argument
lists are nested as the generator nests them.  `Features` says what a program
does besides.  Some of its elements are there because the code is known to be
wrong when a program does them (section *What the code does otherwise*).
`CallStackInv!WorkingFeatures` says with which of them it works: without
*"guarded"* (item 5), without *"lost place"* (item 35), without *"typed call"*
(item 3), and not with both *"reentry"* and *"open arguments"* (item 2).  Both
passing runs have such features, the theorems have it as their hypothesis, and the
violation run `call_return` is what happens without.

A VM that waits can be entered again while it waits for a function of another
module, as `Call` puts its `bci` back, or for native code that called back into the
same VM, as `Interpreter::runtime_call` does.  While it waits for an import, or for
native code that called into another VM, nobody does, and to enter it then is
*"lost place"*.  `StructuredCalls` has the variable `in_place` for this: whatever
happened, the code that goes on is that of the innermost activation.

### TryFinally and TryCode

`TryCode` has a syntax of statements (`Out`, `Raise`, `Return`, `Break`,
`Continue`, `Call`, `Loop`, `Try`), `Compile`, which is what `BytecodeGen` emits
for them with the addresses it computes, and `Meaning`, which evaluates them as
the language reference says.  `TryFinally` executes the code: one action per
opcode, one per step of the catch clause, and `call_finally` as the push of a
nested run.  `stop`, `bci_modified` and `runtime_finally_cntr` are variables
because nested runs share them and exceptions leave them as they are.
`TryPrograms` checks one against the other.  `CodeGen` generates everything but
tries, and `TryCode` only what a try and what is around it need; they share the
layout of loops and functions, which both take from the code.

The model was compared with the interpreter, as well as with its source: the
493 programs of the run and 228 others were translated to moss and run with a
debug build of `src/`.  Output and way of ending (normal, uncaught exception,
failed assertion, no end) were the same for every one, among them 47 programs
on which the code fails.

### BytecodeFile

`Written` and `ReadOperands` are the two long chains of cases in
`BytecodeWriter::write` and `BytecodeReader::read`, as tables from opcodes to
fields, transcribed independently and in the order of each source file.  (The
writer knows the binary operators by the range of their numbers, the reader
each by its name.)  A code is written opcode by opcode; the checksum goes into
the header in the end.  `CutOff` ends the writing at any byte: what is left is
a prefix with the header's first checksum, because no write is checked and
`seekp` on a stream that failed does nothing.  `Damage` changes one byte of a
complete file.  `ReadOp` is one turn of the reader's loop, `Verify` what
follows it.

A byte is a pair, *the k-th byte of value v*, so that a value read at a wrong
offset or with a wrong width is no value.  A checksum stands for the bytes it
is computed from, that is, CRC-32 is taken to be injective; the initial one is
that of no bytes, as in the code (0, the complement of the start value).  A
length that was not written as one is any of `WildLengths`.  Of the header
there is only the checksum.

### The front end

A token is its text; the scanner is not modelled.  `Parser` has an operator for
each function of the code, from the state p of the parser to the state after it;
what the function returns is in `p.node`, and a C++ exception is `p.err`, after
which every operator leaves p alone.  The functions that call each other call
through `Parse("name", p)`, the precedence levels through one chain, `Climb`,
in the order of the code's calls.  `multi` is `multi_line_parsing`, `parenth`
`parenth_depth`, `lower` `lower_range_prec`, `annots` `outter_annots`.

`FrontEnd` runs two readers on the same text, one after the other, since they
share nothing: a declaration of the file per step, and a declaration or the end
of a line per step for the REPL, which keeps the parser after a syntax error.
Errors end a file.  Where the code's own assertion fails or a node is built
from a null pointer, the reader stops with one of `Aborts`.

`Grammar!Written` puts the tokens of a tree down with the parentheses that the
table of operators of the language reference asks for
(`docs/language-reference/4-types-values-and-operators.md:405`), and the run
compares the tree with what the parser makes of the tokens.  The table shares
nothing with `Parser`, whose precedence is the order in which its functions call
each other.  The two differ (item 15): `MisreadLeft` and `MisreadRight` list the
operators that, next to each other, are not read as the table says, and the
property holds in both directions, so the list is exact for two operators.

### The compile chain

`Passes` is the walk of the pass manager: at each node, children first where the
code visits them first, the five passes in the order of `ir_pipeline.cpp`, a pass
that replaces a node ending the visit.  A walk w carries what passes raise
(`raised`, a rule is broken), how the compiler itself breaks down (`broken`: a
constant division by zero, a freed node that is read, a removed child where one is
needed), and `in_constructor`, which the code does not initialise: both values are
tried.

`CodeGen` has an operator for each function and branch of `BytecodeGen`, from a
generator to the generator after it: the registers, the reserved numbers, the
stack of register scopes and the addresses are those of the code, and so is the
choice between constant registers and others, which decides what is evaluated
when.  The families of opcodes that only differ by that (`ADD`, `ADD2`, `ADD3`)
are one opcode whose operands say which they are.  Its output was compared
opcode by opcode with that of the compiler for 289 programs.

`Machine` has one action per opcode.  Pools are allocated in order and never
freed: `GcHeap` is about that.  `call` is resolution (`can_call`, attempts over
the overloads, constructors, receivers) and entry in one step, as in the code.
What the run loop takes for granted is explicit: `Readable` is the assertion of
`MemoryPool::load`, and `UnknownRegister` the step that fails it.  The list of
parents that a class is declared with (`parent_list`) is part of the state.
Over 1200 random programs gave the same output and the same end in the model and
in an interpreter built from `src/`, but for undefined behaviour, the text that
an object is printed as, a named argument to `List`, and endless recursion.

`Meaning` evaluates the tree: scopes instead of pools and registers, arguments
bound by a set of the bindings allowed (`Binding`) instead of by moving them,
signals (break, continue, return, error) instead of jumps.  What operators, types,
indexes and conversions to strings mean is in `Operators`, by other definitions
than those of the opcodes (`Values`); the two share the representation of values
and of the heap only, and the order in which a class's ancestors are searched.  Its third result,
`odd`, names what was met where the code is known to do something else; a
program is compared only if `odd` is empty, and if the compiler is not known to
break on it (`Faulty`).  Where the code raises an error and the language reference
gives a value (item 36), the program is compared all the same: `known` is how it
ends by that error, the meaning of all before it included.  The other two exceptions are `Missed`, programs whose
rules the analyzers cannot see, and `NamedFirst`, names between two opcodes.
Each is listed under *What the code does otherwise*.

## Runs

Every run is exhaustive within its bounds.  States are distinct ones.

| run | instance | states | shows |
|---|---|---|---|
| `gc_kinds` | 2 values, 3 pools, 1 VM; lists, iterators, functions, classes, objects, exceptions; depth 3 | 671 380 (up to symmetry) | no traced pointer dangles, nothing is freed twice, no pool is lost |
| `gc_modules` | 3 values, 3 pools, 2 VMs; functions and modules; depth 3 | 1 319 865 | the same with modules, and a VM that executes is not deleted |
| `gc_refinement` | 2 values, 2 pools, 2 VMs; all kinds but iterators and exceptions, and converters; depth 2 | 63 190 | `IInv` holds; the marking is exact; `GcHeap` implements `GcAbstract`; a collection ends, whatever cycles there are |
| `gc_untraced` | as `gc_kinds`, with converters | | **violation**: pointers that are not traced dangle |
| `call_modules` | 2 VMs, 2 frames, 3 call frames, 2 exceptions, one of which native code swallows; callbacks, open arguments; depth 5 | 1 128 316 | stacks match, and calls and exceptions are those of `StructuredCalls` |
| `call_reentry` | 2 VMs, 3 frames, 2 call frames; a VM called again while it waits; callbacks in tries that do not catch everything; depth 5 | 182 465 | activations and frames stay in step with two activations on one VM; a return takes its own call frame, and a VM goes on in its own code; an exception is handled or ends the program |
| `call_return` | reentry with open arguments | | **violation**: `Return` takes a call frame that is not its own |
| `try_programs` | 493 programs, loops of 2 iterations | 45 736 | every block is run when it is due, once; nothing is left over; programs end |
| `try_skipped` | 3 programs | | **violation**: a `finally` that is not run |
| `bytecode_file` | every opcode, alone and before a `LOAD`, with strings of length 0, 1 and 2 | 104 541 | a complete file is read as the code that was written; an incomplete or damaged one is not accepted |
| `front_end` | every expression of two operators; every sequence of up to 3 words, of up to 3 heads and brackets, of up to 3 members of declarations, and of up to 5 clauses | 121 799 | expressions are the tree they were written from, nothing accepted is lost, the REPL reads what the file has, the parser's assertions hold |
| `compile` | 5132 programs in 12 families | 111 380 | a program does what it means; illegal programs are refused, and no others; jumps stay in their function, stacks are left as they were, programs end |

**Bounds of the heap.** Two values give a cycle and a dangling pointer; the
third of `gc_modules` is needed for a function of a module that outlives the
module value.  Three pools are the global frame, a function's frame, and one
that is captured or listed twice.  Two VMs are one that executes and one that
may die.  `MaxDepth` bounds the stack, `MaxRefs` the values a value refers to,
`MaxArgs` the arguments of all open calls together.  `NoLostPool` is checked with the kinds
of one VM (`gc_kinds`).  The addresses of `SYMMETRY` occur in
no expression that orders or names them; `gc_refinement` does without symmetry,
which its liveness property does not allow.

**Bounds of the stacks.** `MaxDepth` bounds `stack_frames`.  Depth 5 is the
main module, a function, another module's base, its function and a callback, or
a VM that waits, is entered again and calls itself.
Frames and call frames are addresses that are used again after they are freed:
two or three are enough to have a stale one reused.  `LowestAddress` takes the
lowest free address, which no behaviour depends on.  `call_reentry` has fewer
call frames because liveness has no reduction.

**Programs.** `try_programs` has a try with every way out of its body and its
catch block (end, raise, return, break, continue, a call of something that
raises, returns through a finally, or not), of a matching or other type, in no
loop, one or two, around a loop, around another try, with another try in its
finally; as the body of a function that the module calls in a try, and as code
of the module.  `MaxOutput` bounds what a wrong program would output for ever;
the longest output of the run's programs is 19 values, so that the bound stops
none of them (and `Terminates` would fail if it did).

**Texts.** An error of a parser with one token of lookahead, whose context is
counters, needs a construct inside another: expressions of two operators have
every pair of levels and both sides, and 3 fragments are an opening, something in
it, and its end or its absence.  Clauses (`if`, `else`, `try`, `catch`,
`finally`, new lines between) go to 5 as their bodies nest without brackets.
The fragments are put together whether that makes sense or not; of most texts it
is only asked that the readers reject both, or neither.

**Programs to compile.** A family per part of the language: operators on every
pair of literals and on variables with the same values (so that folding and
opcodes meet the same cases) and on nested expressions; two loops of every pair
of kinds, left or continued in every way; loops over collections and
comprehensions; each of 9 lists of parameters with every list of up to 2
arguments, in functions, constructors and methods; pairs of overloads;
assignments to several variables and to every kind of place; names in functions
in functions and in classes; objects with and without operators; three classes
that inherit from each other, in every order of their parents, with `super` and
without; spaces, in spaces, extended and left; enumerations; pairs of
constant and other conditions in 11 statements; 12 statements that may break a
rule, or the compiler, in 12 places.  Values are small: a loop of 2 and a list of 4 reach every
branch of the opcodes.  Integers stay far from the width of the host's, floats are
multiples of a quarter.  `MaxFrames` = 8 stops a program that calls itself for
ever; any other that it stopped would fail `AsWritten`.

**Codes.** An opcode's operands are told apart by their positions, so that two
of them swapped are noticed.  The second opcode shows that the first was read
to its end and no further.  That all opcodes are in both tables is an
assumption of `MCBytecodeFile` which TLC evaluates.  A damaged byte is another
opcode's or none's; strings include the empty one and one that starts with a
digit, the mark of an anonymous space.  Longer codes meet nothing new, as the
reader keeps nothing from one opcode to the next but its position and the
checksum.

**Fairness.** `gc_refinement`: the collector (`collect_garbage` is one call that the
run loop waits for).  `call_reentry`: `Propagate`, because the catch clause is
sequential C++ code that waits for nothing; opcodes get no fairness, as a
program may loop.  `try_programs`: `Step`, as the programs are finite and the
interpreter is one thread.  `compile`: the run loop waits for nothing either, so
that a program that has not ended goes on (`Machine!Fairness`, stated without
`ENABLED`: it ends, or steps are taken for ever).

`CHECK_DEADLOCK` is on for the heap, the stacks, tries and files, where the end is
a stuttering action (`Stop`, `Finished`).  It is off in `front_end` and `compile`,
where nothing follows the end of a text or of a program; that the machine does not
stop earlier is `AssertionsHold` (there is always a next opcode) and `Terminates`.

## Proofs

`GcHeapProofs` proves, for every number of values, pools and VMs and without
bounds on the depth or on references, eight theorems of `GcHeap!Spec`:

* `Invariance`: `IInv` is an invariant;
* `TypeCorrect`: so is `TypeOK`;
* `NoDangling`: `NoDanglingPointer`, the property that matters most;
* `ExecutingAlive`: `ExecutingVMsAlive`;
* `PoppedAllocated`: `PoppedFramesAllocated`;
* `NoPoolIsLost`: `NoLostPool`;
* `MarkingIsExact`: `MarksOnlyReachable`;
* `CollectorImplementsAbstract`: `FreesOnlyGarbage`, the refinement of
  `GcAbstract`.

The only assumption is `AddressAssumption`: addresses of different sorts are
different, none is null, and the main VM and its frame are addresses.

`NoDanglingPointer` is not inductive.  It says nothing during a collection, and
what sweep frees depends on what mark did.  `IInv` adds, in `ByPhase`:

* while marking, `Marking`: the tricolour condition.  A marked object that is
  not gray points to marked objects only.  Pools need care: the code marks a
  pool and what it points to in one recursive call, so that a pool is either
  gray or `Scanned`.  When `gray` is empty, all that the roots reach is marked;
* while sweeping, `Sweeping`: the values left and the marked VMs point to what
  is left or to what this sweep keeps.

And in `Static`, what holds at all times: a function's or module's VM is known
(`Homes`), global frames belong to their VMs (`GlobalsOwned`), listed pools are
allocated (`Listed`), unused pools are empty (`FreshPools`).  That an executing
VM is marked is the most roundabout part.  The root is the main VM only; the VM
of an activation is marked because it is the VM of the activation below, or the
home of the function or module the entry holds, which is a root (`Chain`,
`Imports`).  This is an induction along the stack, and the state carries it:
`StackInduction` says for every prefix and every set of VMs that what starts at
the main one and is closed from one entry to the next contains them all.
Pushing and popping keep it, and applying it to the marked VMs gives the fact.
`Finite` is there because a sweep counts the listings of a pool.

The last three theorems rest on `IInv`.  `NoLostPool` holds because its consequent
holds in every phase (`Accounted`): a pop lists what it takes from the stack, the
destructors what garbage owned, and a sweep takes an entry off the list only with
its pool.  For the other two, reachability is the least set with the main VM that
is closed under `PointsTo`, so that there is no induction: it is a subset of every
closed set.  Three sets are closed: all that is in use (`HeapIsClosed`), at the end
of marking the marked values and VMs with the scanned pools (`MarkedIsClosed`), and
during the sweep the `Survivors`.  A step that changes no pointer of such a set
changes nothing about what is reachable (`ReachableSame`), which is why a collection
is a `Free` step; and `MarkingExact`, its inductive form, says that what is pending is reachable.

`CallStackTheorems` proves, for every number of VMs, frames, call frames and
exceptions, without a bound on the depth of the stack, and for every set of
`WorkingFeatures`, seven theorems `WorkingFeatures /\ Spec => []P`:

* `FramesAlwaysMatch`: `FramesMatchStack`;
* `RunsStayOnStack`: `RunsOnStack`;
* `HeldCallFramesStayAlive`: `HeldCallFramesAlive`;
* `OpcodesFindTheirCallFrame`: `OwnCallFrame`, which is what the other three are
  for;
* `TypesHold`: `TypeOK`;
* `InvariantHolds` for `IInv` and `PlacesHold` for `PlacesInv`, from which they
  follow.

`WorkingFeatures` is no convenience: each of its four conditions excludes a case
in which the code fails (items 2, 3, 5 and 35 below), and nothing else.
`CallStackAssumption` says that `Main` is a VM and that addresses of different
sorts are different.

`OwnCallFrame` is about the opcode that comes next and the top of one list.  What
makes it true is where every entry of every list comes from, down to the bottom
of the stack.  `IInv` has

* `StackInv`: the entries of `stack_frames` are cut into runs by their bases, run
  k being the k-th activation of `Interpreter::run`; entries of a run have its VM;
  a run that C++ code started for a function has that function on its base; no
  frame is twice on the stack;
* `TriesInv`, `TriesOfLoaded`: a frame has one try at most, and none if it is not on
  the stack; a VM that is entered again has left its tries, and a frame that waits
  for a function of another module is in no try that lets an exception pass;
* `CallsHold`: there are *heights*, H[i][m] for entry i and VM m, such that the
  first H[i][m] call frames of m are those that the entries 1 to i account for:
  each entry its own call frame and those of its open calls, and the first one
  of a run the call frame that its starter holds.  Adjacent entries differ by just
  that (but for what an exception leaves behind when it leaves an argument list,
  which counts as the run's), the list ends at the height of the top, and a try remembers the height at
  which it was entered (which is what `unwind_stacks` goes by).  When an exception is on
  its way out of `Call`, which has popped its call frame before, the top accounts
  for one more than there is (`hang`).

The heights are not a variable of the code, nor of `CallStack`: `IInv` says that
some exist, and a step is proved to keep it by giving the new ones.  Before that, TLC
was asked on small instances, with the heights computed by a definition.  Most steps touch the top of the
stack only, and the lemmas say once what is left as it is below (`KeptBelow`,
`KeptFrame`) and what a new top needs (`NewTop`, `NewFunction`).  The step that is not
like that is the handler: it cuts the stack at the frame of the try and the list
of call frames at the position it remembers, and the two cuts agree because the
entries between account for exactly the call frames between (`RunEntry`, `HandleIs`).

`OwnCallFrame` says also that the opcode that comes next is one of the function on
top (`InOwnCode`).  For that `PlacesInv` says of every frame that waits where it will
be gone on with: `ReturnsTo`, by the call frame of the function above it, or
`GoesOn`, by what the starter of the run above it has kept -- the call frame,
`pre_call_bci`, or, if it has kept nothing, `bci` itself, which then no other run of
that VM may change.  `RunsOwnCode` is what is left of it while an exception
is on its way: a VM may be out of place if the exception came out of a function that it
waited for, but then the frame is in no try, or in one that handles the exception
and sets `bci` itself.

`CallStackRefinement` rests on these and proves that `CallStack` implements
`StructuredCalls`: `CallsAreStructured` is `StructuredFeatures /\ Spec =>
StructuredSpec`.  `StructuredFeatures` is `WorkingFeatures` without
*"typed callback"*, for an import or a callback in a try that does not match is
executed again (item 3 below): the program then sees a call it did not make.

The two stacks do not have the same length.  `Seen(i)` is what the program sees of
the i-th entry: nothing of the global frame that a call of another module pushes,
two activations for a callback (the native code and the function), and one for any
other; `ProgramStack` is all of these in a row.  The lemmas say first what happens
to that sequence when entries are pushed, popped or cut (`ActivationsGrow`,
`PoppedShown`, `CutShown`), given that those below are seen as they were
(`SeenStay`); then there is one lemma per action (named `...Sim`) that gives the
step of `StructuredCalls` or shows a stutter; `in_place` is `InOwnCode`.  An exception
crosses several runs in several steps: it looks for a handler in the top run
only (`Handle`), else cuts that run down to its base (`Unwind`) and leaves the base to
the C++ code that started the run (`Leave`).  The entries that are cut are not
among the handlers, so that none of their activations handles it (`PassingSeen`); but
for the base when it is left, and for an opcode executed again after a `finally`, what
was true when the exception was raised is needed, and `IInv` does not keep it.
`RInv` adds

* `ExceptionInv`: there is no exception while opcodes run; one that comes out of a
  call meets a try that catches all, or none; and no try of the base of a run it
  is leaving handles it;
* `WaitingCatchesAll`: whatever waits for a run that was started on top of it is in no
  try that would let an exception pass.

TLC checked both as invariants before they were proved.

`TryFinallyProofs` proves `NestedRunsAreCounted`: `NestedRunsCounted`, for all
code and not only that of the 493 programs, for it depends on nothing the
generator does.  `RunsInv`, its inductive form, says that the counter is at least
the number of nested runs, and that the interpreter is about to leave a run only
if there is one.

`BytecodeFileProofs` proves, for all codes and strings, and whatever a damaged byte
or a wild length is:

* `TablesAgree`: for each of the 137 opcodes the reader reads the fields that the
  writer writes (the last operand of `SWITCH` is a register to one and an address to
  the other, of the same size);
* `TypesHold`: `TypeOK`;
* `AcceptsComplete`: `CompleteIsAccepted`, a file that was written to its end and not
  damaged is read without error;
* `AcceptsOnlyWritten`: `AcceptedIsWritten`, a file that is accepted has the opcodes
  of the code, in their order, or nothing but its header is left of it.

Assumed are `StringAssumption`, `CodeAssumption` (a code is a sequence of opcodes
with as many operands as the writer writes) and `ByteAssumption` (a byte of a file is
a byte of some value).  Both properties speak of the end of a file only.  Their
inductive form, `FileInv`, says where the reader is before: in a complete file at
the end of an opcode, having read those before it; in another one anywhere, but the
reader's checksum is that of the bytes it has read, and the header's that of none or
of other bytes.  The first needs that reading the fields of
an opcode from exactly its bytes gives its operands and no more (`ReadFieldsExact`,
`OpRead`), the second that reading any bytes counts them (`ReadFieldsSound`).  As a
string's length is its first field, the fields are not at fixed offsets: a sequence
of sequences is followed part by part (`FlattenedInParts`, `ReadInParts`).

`SequenceLemmas` has what the proofs share: prefixes, filters and cardinalities of
sequences, and induction over numbers in the form of sets (*a set of numbers that
has the first and with each the next has all*), which the provers can use where
an induction rule over formulas is beyond them.

Only model-checked: `CollectionTerminates` and `ExceptionsSettle` (liveness), the
other properties of `TryFinally` and `TryPrograms` (they depend on what the generator does, or compare with the meaning
of given programs).  Only for TLC, because they recurse over trees: `TryCode`,
`Grammar`, `Parser`, `FrontEnd` and the compile chain.

## What the code does otherwise

Each of these was reproduced with an interpreter built from `src/`.  Items 1, 2
and 4 are the violation runs; items 3 and 35 violate the property of item 2 when
`Features` is `{"typed call"}` and `{"callback", "reentry", "lost place"}`.

1. **Pointers the collector does not follow** (`gc_untraced`): the exception
   that the catch clause holds while a `finally` runs (`interpreter.cpp:731`);
   from an iterator to its container (`gc.cpp:110`, `values.hpp:679`); from a
   captured frame to its function (`memory.cpp:65`); the registered converters
   (`interpreter.cpp:30`).
2. **A stale call frame** (`call_return`): an exception that leaves a function
   from within an argument list takes the wrong call frame with it
   (`interpreter.cpp:687`).  After it was caught in another module, the next
   `Return` stops the program in the middle, with exit code 0.
3. **An opcode executed again**: after a try that does not match
   has run its `finally`, the opcode that raised is executed a second time
   (`interpreter.cpp:784`).  A call fails the assertion of `interpreter.hpp:323`
   or crashes, an operator is called twice, a module imported twice.
4. **A `finally` that is skipped** (`try_skipped`): that of a try around a loop
   which a `return`, or an exception the try does not catch, leaves
   (`memory.cpp:138`).

Those without a run of their own are conditions on `Features` or on the
programs.  A passing run says nothing about programs that meet one:

5. *"guarded"*: a callback or another module's function of a VM that is in a
   try raises.  The inner run finds the outer run's try and unwinds frames that
   are not its own: the assertion of `interpreter.cpp:437`, or a crash.
6. An import that fails leaves its module in the list of modules being
   imported; if the exception is caught in a module that is itself being
   imported, the assertion of `opcode.cpp:1425` fails.
7. A call in a catch block whose callee raises: `pop_frame` skips the first
   opcode of the `finally` (`interpreter.cpp:445`).
8. A try nested in another one's body that ends normally: `RunFinally` is
   executed again and runs the outer `finally` early (`opcode.cpp:2833`).  A
   call in the inner one that raises to the outer catch runs the finally blocks
   in the wrong order, after the catch block.
9. A try in a catch block that ends normally, or that does not handle its
   exception.
10. A `finally` that raises, or has a try that is left by a jump, while an
    exception that nothing handles leaves the frame: a failed assertion
    (`memory.cpp:133`), or an endless loop.
11. A try of the module's own code that does not match an exception raised in a
    call.
12. An exception that leaves a `finally` block is handled inside the nested run
    for that block (`interpreter.cpp:508`), and the program goes on there.
    Correct, but every time it happens the C++ stack grows; some ten thousand
    overflow it.

And of bytecode files, which `AcceptedIsWritten` allows for in its second case
and the model in its outcome *crashed*:

13. No write is checked (`bytecode_writer.cpp:15`): compiling to a full disk
    ends with exit code 0.  What it leaves is rejected when it is read, but if
    only the header is left, that is accepted as an empty module
    (`bytecode_reader.cpp:891`): importing it does nothing and reports nothing.
14. The length of a string that the file ends in is uninitialised when the
    buffer is made that large (`bytecode_reader.cpp:42`).

Of the parser (`Grammar!Misread`, `Aborts`, and the conditions in `FrontEnd`'s
properties: `ForModule`, `EmptyLine`):

15. The precedence of operators is not the documented one
    (`docs/language-reference/4-types-values-and-operators.md:405`): `and`, `or`
    and `xor` are one level, and `&&` and `||` one below it, so that
    `a or b and c` is `(a or b) and c`, and `a && b or c` is `a && (b or c)`.
    `in`, `..` and `~`, which the table says associate, do not:
    `a in b in c`, `a..b..c` and `~~a` are syntax errors
    (`Grammar!MisreadLeft`, `MisreadRight`).
16. `body` returns before it takes its multi-line counter down when the body is a
    block (`parser.cpp:1004`), and nothing takes it
    down after a syntax error inside a construct: the REPL then waits for
    more lines at every prompt.  Parents and outer annotations stay as well.
17. In the REPL, an inner annotation or a doc string of a class is taken as the
    module's; at top level it fails an assertion.  What follows `;;` on a line
    is dropped (`parser.cpp:138`).  An `else`, `catch` or `finally` may come
    after one new line only.
18. A null pointer is used for `for (, b : x)` and for `a, b =` with nothing
    after it.  `for (1, b : x)` is accepted.
19. `put_back` after the name of an operator does not restore the depth of
    parentheses (`parser.cpp:1534`); `([] ...` is a syntax error; a
    parenthesised expression inside nested calls restores a counter from a `bool`
    (`parser.cpp:1599`).
20. Annotations before a statement go to the first function inside it; at the end
    of a file they are dropped.

Of the passes (`Faulty`, `Missed`):

21. `1 / 0` and `1 % 0` stop the compiler by a signal; `0.5 / 0` prints `inf`,
    where the same division of variables raises an error
    (`constant_folding.cpp:73`).  `0.5 and 1` fails an assertion.  The signed
    overflow of folded integers is undefined behaviour.
22. The body that takes the place of a constant `if` keeps the deleted `else` as its
    parent, and the analyzer reads it (`dead_code_elimination.cpp:108`,
    `expression_analyzer.cpp:58`).  A silenced constant where one value is needed,
    as in `return ~1` or `if (~1)`, is removed all the same: the assertion of
    `ir_visitor.cpp:56` fails, without assertions the null pointer is followed.
23. `break` and `continue` are accepted in a function that is declared in a loop
    (`ir.hpp:154` does not stop at functions).  The jump leads out of the body:
    an assertion on an unknown register, or a pop of an empty stack
    (`memory.cpp:25`).  `return` is accepted in a class in a function.
24. The flag `in_constructor` is not restored after a function inside a constructor,
    so that `return 1` is accepted after it (`method_analyzer.cpp`).  Code after a
    `break` or a `return` is not analyzed.  The flag is not initialised either
    (`method_analyzer.hpp:25`): of a `return` outside of functions, the message of the
    error depends on it.

Of the generated code and its opcodes (`odd` in `Meaning`, `NamedFirst`):

25. Evaluated twice: the receiver of a method call (`bytecodegen.cpp:1258`), the
    index and the object of `l[i] += x` (`:364`).  `y = $x += 1` yields the old
    value.  `::x = 5` cannot create a global (`:24`).
26. Several variables with `...` lose their old values when the assignment raises
    an error (`:240`): they name registers that were never written.
27. A `for` over an empty collection leaves its variable `nil`, which contradicts
    the comment at `:1577`; a collection that mentions the variable reads `nil` the
    second time; `for (a, b : [[1, 2, 3]])` ignores what `a, b = [1, 2, 3]` raises
    an error for.
28. Names are dynamic: a callee sees the names of its caller.  In an overloaded
    function its name is only itself (`memory.cpp:64`), so that it cannot call
    another overload; a class with several constructors cannot construct itself
    in its methods (`opcode.cpp:624`).  A function in a function, with the name of
    an overloaded one of a function around, is added to that one's
    overloads (`opcode.cpp:1245`).
29. Calls: `f(a = 1, 2)` and `f(<<{"a": 1}, 2)` fail an assertion
    (`opcode.cpp:487`); `f(1, a = 2)` for `f(a, b)` is accepted without b; a named
    argument may name the variadic parameter; a class without a constructor takes
    any arguments (`:680`); calling an object whose class has no `()` crashes
    (`:706`).
30. `""[0]` is a character NUL (`:2551`), and the index of an empty list by a range
    crashes.

Of classes and spaces:

31. `super.m()` looks for `m` in the parents of the instance's class
    (`values.cpp:92`), not in those of the class whose method runs, while
    `super()` takes the latter's: with `class B : A`, `class C : B`, a method of B
    that calls `super.m()` on a C finds itself, and does not end
    (`docs/language-reference/6-classes-and-spaces.md:141`).
32. A class that cannot be declared, because one of its parents is no class,
    leaves the parents before it in `parent_list`, and the next class inherits
    from them (`opcode.cpp:1470`).
33. Operators of a parent are not found by the opcodes.  Calling an object with an
    inherited `()` reads a null pointer, and so does a parameter whose type is the
    name of something that is no class (`opcode.cpp:1336`).  `super` outside of a
    method fails an assertion (`opcode.cpp:158`).
34. A space of a function is gone on with by a function inside it, too, as
    `load_name` searches the frames around (`opcode.cpp:2898`); there, as in another
    module, the new members are stored in the registers of the old ones.  `break`,
    `continue` and `return` out of a space leave its frame on the stack.

Of calls between modules (*"lost place"*):

35. `cross_module_call` sets the `bci` of the function's VM (`interpreter.cpp:462`) and
    does not put it back, nor does the native side that waits in that VM
    (`opcode.cpp:884`).  Let module `lib` have an iterator whose `__next` calls a
    function it was given, and `main` loop over it with a function of its own: after
    the first `__next`, `main` goes on after the `Return` of that function.  In a
    function, it returns from it in the middle of the loop; at top level, the
    assertion of `interpreter.hpp:323` fails, or the release build crashes.  The same
    happens when a module outputs a note while it is being imported, and the note's
    converter is a function of the importer.

Of the language reference and the tests (`known` in `Meaning`; the file is
`docs/language-reference/4-types-values-and-operators.md`):

36. Every class has `==` and `!=` (`:15`), and a String has `+` (`:208`); the
    code raises a TypeError for an object without a method `==` (but against `nil`), a
    list with one, and two strings (`opcode.cpp:2059`, `:1750`).
    `tests/equalities.ms:14` expects the first of these.  A variable that was not
    assigned is `nil` (`:232`); the code raises a NameError, which
    `tests/runtime_errors.ms:2` expects.  The run compares these programs up to
    that error.
37. `String * Int` and `List * Int` are in no list of operators, but in
    `tests/expressions.ms:78` and `:91`, and so in `Operators`.

## Not modelled

* The scanner: characters to tokens, escapes, numbers.  Its result for a text
  is a function of the text alone, and no state of it is carried to the next token.
* Of the interpreter: imports in `Machine` (`CallStack` has them), annotations,
  converters, generators and formats of `Output`, ranges, dictionaries, slices,
  spaces without a name, types of the language as parents of classes.  `CodeGen`
  has the code for them, which `Machine` does not run.
* Exceptions in `Machine`, and arguments in `CallStack` and `TryFinally`: a program
  that catches an error is only in the latter two.
* The width of integers, rounding of floats, hashing.
* Of bytecode files: version, identifier and time stamp in the header, the
  textual form, `Bytecode::insert` and `erase`, which nothing calls (`erase`
  would move a jump to the erased opcode, and both leave the addresses in the
  constants of `SWITCH` as they are).
* `bytecodeoptimizer`: has one pass, which does nothing.
* What native functions compute, the standard library in moss, the command
  line, options and messages.  `interface/args.hpp` is vendored code.

## Plan

In this order; each module has its properties before its runs.

1. **`Machine` with tries**: `TryCode`'s code generated by `CodeGen`, `catch` by
   types, and errors of opcodes caught in the program.
2. **`Notes`**: `Output`, converters, generators: the path `get_converter` finds
   against shortest paths, and what happens to notes when a converter raises.
3. **`Repl`**: what survives of the interpreter's state after an error
   (`restore_to_global_frame`, `interpreter.cpp:700`), composed with `FrontEnd`.
