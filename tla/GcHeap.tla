------------------------------- MODULE GcHeap -------------------------------
(***************************************************************************)
(* The heap of the moss interpreter and its tracing garbage collector      *)
(* (vm/gc.cpp, vm/memory.hpp, the frame stack of vm/interpreter.cpp and    *)
(* the allocation and destruction of values in vm/values.cpp).             *)
(*                                                                         *)
(* Three sorts of C++ objects are managed: values, memory pools (frames)   *)
(* and interpreters (one VM per imported module).  The mutator is the      *)
(* bytecode program; its actions are the opcodes that create, load, drop   *)
(* or call something.  The collector stops the world between two opcodes   *)
(* and runs in phases.                                                     *)
(*                                                                         *)
(* Pointers come in two classes.  "Traced" pointers are the ones           *)
(* blacken_value, mark_frame and mark_roots follow: refs, pools, home,     *)
(* slots, vm_owner, the stack and the static roots.  "Raw" pointers are    *)
(* dereferenced by the program but not followed by the collector: the      *)
(* container an iterator walks, the function a frame belongs to            *)
(* (pool_owner), the registered converters, and the exception a catch (..) *)
(* clause of Interpreter::run holds in a C++ local while a finally block   *)
(* runs.                                                                   *)
(***************************************************************************)
EXTENDS Naturals, Sequences, FiniteSets

CONSTANTS
  Value,      \* addresses of values
  Pool,       \* addresses of memory pools (frames)
  VM,         \* addresses of interpreters
  Main,       \* the main interpreter, owner of the collector
  MainPool,   \* its global frame
  None,       \* a null pointer
  Features    \* what the program uses: kinds of values, converters

Kind == {"list", "iter", "fun", "class", "object", "module", "exception"}

ASSUME AddressAssumption ==
  /\ Main \in VM /\ MainPool \in Pool
  /\ None \notin Value /\ None \notin Pool /\ None \notin VM
  /\ Value \cap Pool = {} /\ Value \cap VM = {} /\ Pool \cap VM = {}
  /\ None \notin Kind /\ Features \subseteq Kind \cup {"converter"}

VARIABLES
  all_values,     \* Value::all_values, the values that are allocated
  kind,           \* the TypeKind of a value, as far as opcodes tell it apart
  refs,           \* the values a value points to and the collector follows
  iterates,       \* raw: the container an iterator walks
  pools,          \* the attribute frame and the closures of a value
  home,           \* the VM of a function or module
  live_pools,     \* the memory pools that are allocated
  slots,          \* the values in the registers of a pool
  vm_owner,       \* the VM that created a pool
  pool_owner,     \* raw: the function or class a pool belongs to
  popped_frames,  \* TracingGC::popped_frames, how often a pool is listed
  vms,            \* TracingGC::vms, the VMs that are allocated
  global_frame,   \* the global frame of a VM
  stack_frames,   \* Interpreter::stack_frames with the matched call frames
  static_roots,   \* modules being imported (currently_imported_modules)
  converters,     \* raw: functions registered as converters
  in_flight,      \* raw: the exception being propagated
  phase,          \* what the collector is doing
  marked,         \* the objects whose marked flag is set
  gray            \* marked (or pushed) objects that are not scanned yet

valueVars == <<all_values, kind, refs, iterates, pools, home>>
poolVars  == <<live_pools, slots, vm_owner, pool_owner>>
vmVars    == <<vms, global_frame>>
rootVars  == <<stack_frames, static_roots>>
rawRoots  == <<converters, in_flight>>
gcVars    == <<phase, marked, gray>>
vars == <<valueVars, poolVars, popped_frames, vmVars, rootVars, rawRoots,
          gcVars>>

\* What runs: a function with its call frame, a module being imported, or
\* neither (the main program and class bodies).
Activation == [vm : VM, frame : Pool, fun : Value \cup {None},
               args : SUBSET Value, module : Value \cup {None},
               external : BOOLEAN]

-----------------------------------------------------------------------------
(* The frame stack. *)

Depth == Len(stack_frames)
Top   == stack_frames[Depth]
Globals == {global_frame[m] : m \in vms}

\* The registers the next opcode reads and writes.
Registers == slots[Top.frame]

\* CreateFun captures every frame of the running VM from the top of its
\* stack down to the first global one; a call from outside
\* (run_from_external) pushes the global frame below its own frame.
Captured ==
  {stack_frames[i].frame : i \in
     {j \in 1 .. Depth :
        /\ stack_frames[j].vm = Top.vm
        /\ \A k \in j + 1 .. Depth : ~stack_frames[k].external}}
  \ Globals

\* The frames in Interpreter::frames of m.
FramesOf(m) ==
  {global_frame[m]}
    \cup {stack_frames[i].frame : i \in
            {j \in 1 .. Depth : stack_frames[j].vm = m}}

\* The values of m's call_frames: those of its running functions and of the
\* functions it has called and waits for.
CallFrameValues(m) ==
  UNION {stack_frames[i].args \cup ({stack_frames[i].fun} \ {None}) : i \in
           {j \in 1 .. Depth :
              \/ stack_frames[j].vm = m
              \/ j > 1 /\ stack_frames[j - 1].vm = m}}

-----------------------------------------------------------------------------
Init ==
  /\ all_values = {} /\ kind = [v \in Value |-> None]
  /\ refs = [v \in Value |-> {}] /\ iterates = [v \in Value |-> None]
  /\ pools = [v \in Value |-> {}] /\ home = [v \in Value |-> None]
  /\ live_pools = {MainPool}
  /\ slots = [p \in Pool |-> {}]
  /\ vm_owner = [p \in Pool |-> IF p = MainPool THEN Main ELSE None]
  /\ pool_owner = [p \in Pool |-> None]
  /\ popped_frames = [p \in Pool |-> 0]
  /\ vms = {Main}
  /\ global_frame = [m \in VM |-> IF m = Main THEN MainPool ELSE None]
  /\ stack_frames = <<[vm |-> Main, frame |-> MainPool, fun |-> None,
                       args |-> {}, module |-> None, external |-> TRUE]>>
  /\ static_roots = {} /\ converters = {} /\ in_flight = None
  /\ phase = "run" /\ marked = {} /\ gray = {}

-----------------------------------------------------------------------------
(* Building blocks of the mutator. *)

\* Value::operator new: a fresh value with its fields.
Allocate(v, k, rs, it, ps, m) ==
  /\ k \in Features
  /\ v \notin all_values
  /\ all_values' = all_values \cup {v}
  /\ kind' = [kind EXCEPT ![v] = k]
  /\ refs' = [refs EXCEPT ![v] = rs]
  /\ iterates' = [iterates EXCEPT ![v] = it]
  /\ pools' = [pools EXCEPT ![v] = ps]
  /\ home' = [home EXCEPT ![v] = m]

\* new MemoryPool: the pool p of VM m with content c, owned by o.
NewPool(p, m, o) ==
  /\ p \notin live_pools
  /\ live_pools' = live_pools \cup {p}
  /\ vm_owner' = [vm_owner EXCEPT ![p] = m]
  /\ pool_owner' = [pool_owner EXCEPT ![p] = o]

\* Interpreter::store: a value into a register of the running frame.
Store(v) == slots' = [slots EXCEPT ![Top.frame] = @ \cup {v}]

\* The program runs one opcode at a time, and never during a collection.
Running == phase = "run" /\ UNCHANGED gcVars

\* Interpreter::push_frame, with the call frame of the call if it is one.
Push(a) == stack_frames' = Append(stack_frames, a)

\* Interpreter::pop_frame: global frames are left to their VM.
Pop ==
  /\ stack_frames' = SubSeq(stack_frames, 1, Depth - 1)
  /\ popped_frames' = IF Top.frame \in Globals THEN popped_frames
                      ELSE [popped_frames EXCEPT ![Top.frame] = @ + 1]

-----------------------------------------------------------------------------
(* The mutator: opcodes. *)

\* BuildList and the other built-in containers, of values in registers.
NewList(v, rs) ==
  /\ Running
  /\ rs \subseteq Registers
  /\ Allocate(v, "list", rs, None, {}, None)
  /\ Store(v)
  /\ UNCHANGED <<live_pools, vm_owner, pool_owner, popped_frames, vmVars,
                 rootVars, rawRoots>>

\* Iter: ListValue::iter and its siblings.
NewIterator(v, c) ==
  /\ Running
  /\ c \in Registers /\ kind[c] = "list"
  /\ Allocate(v, "iter", {}, c, {}, None)
  /\ Store(v)
  /\ UNCHANGED <<live_pools, vm_owner, pool_owner, popped_frames, vmVars,
                 rootVars, rawRoots>>

\* CreateFun: the owner is the module of the running VM.
CreateFun(v) ==
  /\ Running
  /\ Allocate(v, "fun",
              {w \in all_values : kind[w] = "module" /\ home[w] = Top.vm},
              None, Captured, Top.vm)
  /\ Store(v)
  /\ UNCHANGED <<live_pools, vm_owner, pool_owner, popped_frames, vmVars,
                 rootVars, rawRoots>>

\* BuildClass: the frame of the class body becomes its attributes.
BuildClass(v, p) ==
  /\ Running
  /\ Allocate(v, "class", {}, None, {p}, None)
  /\ NewPool(p, Top.vm, v)
  /\ Store(v)
  /\ Push([vm |-> Top.vm, frame |-> p, fun |-> None, args |-> {},
            module |-> None, external |-> FALSE])
  /\ UNCHANGED <<popped_frames, vmVars, static_roots, rawRoots>>

\* ObjectValue::ObjectValue: the attributes are a clone of the class's.
NewObject(v, c, p) ==
  /\ Running
  /\ c \in Registers /\ kind[c] = "class"
  /\ Allocate(v, "object", {c}, None, {p}, None)
  /\ p \notin live_pools /\ live_pools' = live_pools \cup {p}
  /\ \E q \in pools[c] :
       /\ vm_owner' = [vm_owner EXCEPT ![p] = vm_owner[q]]
       /\ slots' = [slots EXCEPT ![Top.frame] = @ \cup {v}, ![p] = slots[q]]
  /\ UNCHANGED <<pool_owner, popped_frames, vmVars, rootVars, rawRoots>>

\* ListValue::push_back and every other store into a container.
Append_(c, v) ==
  /\ Running
  /\ {c, v} \subseteq Registers /\ kind[c] = "list"
  /\ refs' = [refs EXCEPT ![c] = @ \cup {v}]
  /\ UNCHANGED <<all_values, kind, iterates, pools, home, poolVars,
                 popped_frames, vmVars, rootVars, rawRoots>>

\* Removing an element.
Remove(c, v) ==
  /\ Running
  /\ c \in Registers /\ kind[c] = "list" /\ v \in refs[c]
  /\ refs' = [refs EXCEPT ![c] = @ \ {v}]
  /\ UNCHANGED <<all_values, kind, iterates, pools, home, poolVars,
                 popped_frames, vmVars, rootVars, rawRoots>>

\* SetAttr.
SetAttr(o, v) ==
  /\ Running
  /\ {o, v} \subseteq Registers /\ kind[o] \in {"object", "class", "module"}
  /\ \E p \in pools[o] : slots' = [slots EXCEPT ![p] = @ \cup {v}]
  /\ UNCHANGED <<valueVars, live_pools, vm_owner, pool_owner, popped_frames,
                 vmVars, rootVars, rawRoots>>

\* The functions whose closures MemoryPool::load_name searches from p.
ClosureFun(p) ==
  {f \in all_values : f = pool_owner[p] /\ kind[f] = "fun"}

\* The closures load_name goes on with from the pools ps.
Closures(ps) == UNION {pools[f] : f \in UNION {ClosureFun(p) : p \in ps}}

\* The pools a name is looked up in: every frame of the running VM (names
\* are scoped dynamically) and from each of them, recursively, the closures
\* of the function it belongs to.
Scope ==
  {p \in Pool : \A S \in SUBSET Pool :
     FramesOf(Top.vm) \cup Closures(S) \subseteq S => p \in S}

\* The attributes of the values in the registers.
AttributeFrames ==
  UNION {pools[r] : r \in {o \in Registers : kind[o] # "fun"}}

\* The containers of the iterators in the registers.
Iterated == all_values \cap {iterates[r] : r \in Registers}

\* What one opcode can load: a name in scope, an attribute or an element of
\* a value in a register, or the next element of an iterator.
Loadable ==
  (UNION {slots[p] : p \in Scope})
    \cup (UNION {ClosureFun(p) : p \in Scope})
    \cup (UNION {refs[r] : r \in Registers})
    \cup (UNION {slots[p] : p \in AttributeFrames})
    \cup (UNION {refs[c] : c \in Iterated})

Load(v) ==
  /\ Running
  /\ v \in Loadable \ Registers
  /\ Store(v)
  /\ UNCHANGED <<valueVars, live_pools, vm_owner, pool_owner, popped_frames,
                 vmVars, rootVars, rawRoots>>

\* A register gets another value.
Overwrite(v) ==
  /\ Running
  /\ v \in Registers
  /\ slots' = [slots EXCEPT ![Top.frame] = @ \ {v}]
  /\ UNCHANGED <<valueVars, live_pools, vm_owner, pool_owner, popped_frames,
                 vmVars, rootVars, rawRoots>>

\* Call: a function of the same VM gets a frame; a function of another VM
\* runs there (cross_module_call); native code calls back on the same VM
\* (runtime_call).  The latter two go through run_from_external.
Call(f, as, p, ext) ==
  /\ Running
  /\ f \in Registers /\ kind[f] = "fun" /\ as \subseteq Registers
  /\ ext \/ home[f] = Top.vm
  /\ NewPool(p, home[f], f)
  /\ slots' = [slots EXCEPT ![p] = as]
  /\ Push([vm |-> home[f], frame |-> p, fun |-> f, args |-> as,
            module |-> None, external |-> ext])
  /\ UNCHANGED <<valueVars, popped_frames, vmVars, static_roots, rawRoots>>

\* Return: the value goes to the caller's register.
Return(v) ==
  /\ Running
  /\ Depth > 1 /\ Top.fun # None
  /\ v \in Registers
  /\ Pop
  /\ slots' = [slots EXCEPT ![stack_frames[Depth - 1].frame] = @ \cup {v}]
  /\ UNCHANGED <<valueVars, live_pools, vm_owner, pool_owner, vmVars,
                 static_roots, rawRoots>>

\* Mutant: a frame is popped although only the global one is left.
PopLastFrame ==
  /\ Running
  /\ Top.fun = None /\ Top.module = None
  /\ Pop
  /\ UNCHANGED <<valueVars, poolVars, vmVars, static_roots, rawRoots>>

\* PopFrame at the end of a class body.
PopFrame ==
  /\ Running
  /\ Depth > 1 /\ Top.fun = None /\ Top.module = None
  /\ Pop
  /\ UNCHANGED <<valueVars, poolVars, vmVars, static_roots, rawRoots>>

\* load_module: a new VM with its global frame and module value, run at once.
Import(v, m, g) ==
  /\ Running
  /\ m \notin vms
  /\ vms' = vms \cup {m}
  /\ global_frame' = [global_frame EXCEPT ![m] = g]
  /\ Allocate(v, "module", {}, None, {g}, m)
  /\ NewPool(g, m, None)
  /\ static_roots' = static_roots \cup {v}
  /\ Push([vm |-> m, frame |-> g, fun |-> None, args |-> {},
            module |-> v, external |-> TRUE])
  /\ UNCHANGED <<slots, popped_frames, rawRoots>>

\* The module's code ends: Import stores the module value.  The last entry
\* leaves the list of modules being imported, which is a later one if an
\* exception ended the import of that: the list is a set here, and the last
\* entry any that is no module of a frame below.
EndImport ==
  /\ Running
  /\ Depth > 1 /\ Top.module # None
  /\ Pop
  /\ \E v \in static_roots :
       /\ \A i \in 1 .. Depth - 1 : stack_frames[i].module # v
       /\ static_roots' = static_roots \ {v}
  /\ slots' = [slots EXCEPT
       ![stack_frames[Depth - 1].frame] = @ \cup {Top.module}]
  /\ UNCHANGED <<valueVars, live_pools, vm_owner, pool_owner, vmVars,
                 rawRoots>>

\* Interpreter::add_converter: the @converter annotation.
AddConverter(f) ==
  /\ Running
  /\ "converter" \in Features
  /\ f \in Registers \ converters /\ kind[f] = "fun"
  /\ converters' = converters \cup {f}
  /\ UNCHANGED <<valueVars, poolVars, popped_frames, vmVars, rootVars,
                 in_flight>>

\* op_assert and mslib::create_*_error: the exception object is in no register.
Raise(v) ==
  /\ Running
  /\ in_flight = None
  /\ Allocate(v, "exception", {}, None, {}, None)
  /\ in_flight' = v
  /\ UNCHANGED <<poolVars, popped_frames, vmVars, rootVars, converters>>

\* Unwinding pops a frame; before that its finally blocks have run, as
\* ordinary opcodes.  An abandoned import stays in the import list.
Unwind ==
  /\ Running
  /\ in_flight # None /\ Depth > 1
  /\ Pop
  /\ UNCHANGED <<valueVars, poolVars, vmVars, static_roots, rawRoots>>

\* handle_exception stores the exception for the catch block.
Catch ==
  /\ Running
  /\ in_flight \in all_values
  /\ Store(in_flight)
  /\ in_flight' = None
  /\ UNCHANGED <<valueVars, live_pools, vm_owner, pool_owner, popped_frames,
                 vmVars, rootVars, converters>>

-----------------------------------------------------------------------------
(* The collector. *)

mutatorVars ==
  <<valueVars, poolVars, popped_frames, vmVars, rootVars, rawRoots>>

\* Mutant: a frame is marked but not scanned.
ShadeNoFrames(o, vs, ps, ms) ==
  /\ marked' = marked \cup vs \cup ps \cup ms
  /\ gray' = (gray \ {o}) \cup ((vs \cup ms) \ marked)

\* Mutant: what is marked already is scanned again.
ShadeAgain(o, vs, ps, ms) ==
  /\ marked' = marked \cup vs \cup ps \cup ms
  /\ gray' = (gray \ {o}) \cup vs \cup ms \cup ps

\* Scanning o marks what it points to: mark_value and mark_roots go on with
\* what was not marked before, mark_frame has no such test.
Shade(o, vs, ps, ms) ==
  /\ marked' = marked \cup vs \cup ps \cup ms
  /\ gray' = (gray \ {o}) \cup ((vs \cup ms) \ marked) \cup ps

\* Mutant: every VM is a root.
StartFromAllVMs ==
  /\ phase = "run"
  /\ phase' = "mark"
  /\ marked' = marked \cup vms
  /\ gray' = vms \ marked
  /\ UNCHANGED mutatorVars

\* collect_garbage: mark_roots of the main VM does nothing if it is marked.
StartCollection ==
  /\ phase = "run"
  /\ phase' = "mark"
  /\ marked' = marked \cup {Main}
  /\ gray' = {Main} \ marked
  /\ UNCHANGED mutatorVars

\* Mutant: the attributes and closures of a value are not followed.
ScanValueNoPools(v) ==
  /\ phase = "mark" /\ v \in gray /\ gray \subseteq Value
  /\ Shade(v, refs[v], {}, {home[v]} \ {None})
  /\ UNCHANGED <<phase, mutatorVars>>

\* trace_refs, blacken_value: the recursion over frames and VMs is over.
ScanValue(v) ==
  /\ phase = "mark" /\ v \in gray /\ gray \subseteq Value
  /\ Shade(v, refs[v], pools[v], {home[v]} \ {None})
  /\ UNCHANGED <<phase, mutatorVars>>

\* mark_frame.
ScanPool(p) ==
  /\ phase = "mark" /\ p \in gray
  /\ Shade(p, slots[p], {}, {vm_owner[p]} \ {None})
  /\ UNCHANGED <<phase, mutatorVars>>

\* Mutant: the modules being imported are no roots.
ScanVMNoImports(m) ==
  /\ phase = "mark" /\ m \in gray /\ gray \cap Pool = {}
  /\ Shade(m, CallFrameValues(m), FramesOf(m), {})
  /\ UNCHANGED <<phase, mutatorVars>>

\* mark_roots; the imported modules are marked with the main VM.
ScanVM(m) ==
  /\ phase = "mark" /\ m \in gray /\ gray \cap Pool = {}
  /\ Shade(m, CallFrameValues(m)
                \cup (IF m = Main THEN static_roots ELSE {}),
           FramesOf(m), {})
  /\ UNCHANGED <<phase, mutatorVars>>

Garbage == all_values \ marked

\* sweep, the values: the destructors list attribute frames and closures.
SweepValues ==
  /\ phase = "mark" /\ gray = {}
  /\ phase' = "sweepPools"
  /\ all_values' = all_values \cap marked
  /\ marked' = marked \ all_values
  /\ kind' = [v \in Value |-> IF v \in Garbage THEN None ELSE kind[v]]
  /\ refs' = [v \in Value |-> IF v \in Garbage THEN {} ELSE refs[v]]
  /\ iterates' = [v \in Value |-> IF v \in Garbage THEN None ELSE iterates[v]]
  /\ pools' = [v \in Value |-> IF v \in Garbage THEN {} ELSE pools[v]]
  /\ home' = [v \in Value |-> IF v \in Garbage THEN None ELSE home[v]]
  /\ popped_frames' = [p \in Pool |->
       IF p \in Globals THEN popped_frames[p]
       ELSE popped_frames[p] + Cardinality({v \in Garbage : p \in pools[v]})]
  /\ UNCHANGED <<gray, poolVars, vmVars, rootVars, rawRoots>>

\* Mutant: duplicates stay.
DedupeNothing(listed) == listed

\* Mutant: duplicates go, with the entry they duplicate.
DedupeBoth(listed) == [p \in Pool |-> IF listed[p] = 1 THEN 1 ELSE 0]

\* sweep, the duplicates in popped_frames.
Dedupe(listed) == [p \in Pool |-> IF listed[p] > 0 THEN 1 ELSE 0]

\* Mutant: the list is not cleared of the frames that are deleted.
SweepPoolsNoErase ==
  /\ phase = "sweepPools"
  /\ phase' = "sweepVMs"
  /\ LET freed == {p \in Pool : popped_frames[p] > 0 /\ p \notin marked}
     IN  /\ live_pools' = live_pools \ freed
         /\ marked' = marked \ Pool
         /\ slots' = [p \in Pool |-> IF p \in freed THEN {} ELSE slots[p]]
  /\ UNCHANGED <<popped_frames, vm_owner, pool_owner, gray, valueVars, vmVars,
                 rootVars, rawRoots>>

\* sweep, the popped frames: the first entry of a marked frame clears its
\* mark and stays, any other entry deletes the frame.
SweepPools ==
  /\ phase = "sweepPools"
  /\ phase' = "sweepVMs"
  /\ LET listed == Dedupe(popped_frames)
         keep   == {p \in Pool : listed[p] > 0 /\ p \in marked}
         freed  == {p \in Pool : listed[p] > IF p \in marked THEN 1 ELSE 0}
     IN  /\ live_pools' = live_pools \ freed
         /\ marked' = marked \ (keep \cup freed)
         /\ popped_frames' = [p \in Pool |-> IF p \in keep THEN 1 ELSE 0]
         /\ slots' = [p \in Pool |-> IF p \in freed THEN {} ELSE slots[p]]
         /\ vm_owner' = [p \in Pool |->
              IF p \in freed THEN None ELSE vm_owner[p]]
         /\ pool_owner' = [p \in Pool |->
              IF p \in freed THEN None ELSE pool_owner[p]]
  /\ UNCHANGED <<gray, valueVars, vmVars, rootVars, rawRoots>>

\* sweep, the VMs: ~Interpreter deletes the frames it still holds.
SweepVMs ==
  /\ phase = "sweepVMs"
  /\ phase' = "run"
  /\ LET dead  == vms \ marked
         freed == UNION {FramesOf(m) : m \in dead}
     IN  /\ vms' = vms \ dead
         /\ global_frame' = [m \in VM |->
              IF m \in dead THEN None ELSE global_frame[m]]
         /\ live_pools' = live_pools \ freed
         /\ marked' = (marked \ vms) \ freed
         /\ slots' = [p \in Pool |-> IF p \in freed THEN {} ELSE slots[p]]
         /\ vm_owner' = [p \in Pool |->
              IF p \in freed THEN None ELSE vm_owner[p]]
         /\ pool_owner' = [p \in Pool |->
              IF p \in freed THEN None ELSE pool_owner[p]]
  /\ UNCHANGED <<gray, valueVars, popped_frames, rootVars, rawRoots>>

-----------------------------------------------------------------------------
MutatorStep ==
  \/ \E v \in Value :
       \/ \E rs \in SUBSET Value : NewList(v, rs)
       \/ \E c \in Value : NewIterator(v, c)
       \/ CreateFun(v)
       \/ \E p \in Pool : BuildClass(v, p)
       \/ \E c \in Value, p \in Pool : NewObject(v, c, p)
       \/ \E m \in VM, g \in Pool : Import(v, m, g)
       \/ \E c \in Value : Append_(c, v) \/ Remove(c, v) \/ SetAttr(c, v)
       \/ Load(v) \/ Overwrite(v) \/ Return(v)
       \/ AddConverter(v) \/ Raise(v)
       \/ \E as \in SUBSET Value, p \in Pool, ext \in BOOLEAN :
            Call(v, as, p, ext)
  \/ PopFrame \/ EndImport \/ Unwind \/ Catch

CollectorStep ==
  \/ StartCollection
  \/ \E v \in Value : ScanValue(v)
  \/ \E p \in Pool : ScanPool(p)
  \/ \E m \in VM : ScanVM(m)
  \/ SweepValues \/ SweepPools \/ SweepVMs

Next == MutatorStep \/ CollectorStep

Spec == Init /\ [][Next]_vars

\* collect_garbage runs to its end in one call of the run loop.
FairSpec == Spec /\ WF_vars(phase # "run" /\ CollectorStep)

-----------------------------------------------------------------------------
(* Properties. *)

\* The type of every variable.
TypeOK ==
  /\ all_values \subseteq Value
  /\ kind \in [Value -> Kind \cup {None}]
  /\ refs \in [Value -> SUBSET Value]
  /\ iterates \in [Value -> Value \cup {None}]
  /\ pools \in [Value -> SUBSET Pool]
  /\ home \in [Value -> VM \cup {None}]
  /\ live_pools \subseteq Pool
  /\ slots \in [Pool -> SUBSET Value]
  /\ vm_owner \in [Pool -> VM \cup {None}]
  /\ pool_owner \in [Pool -> Value \cup {None}]
  /\ popped_frames \in [Pool -> Nat]
  /\ vms \subseteq VM
  /\ global_frame \in [VM -> Pool \cup {None}]
  /\ stack_frames \in Seq(Activation) /\ stack_frames # <<>>
  /\ static_roots \subseteq Value
  /\ converters \subseteq Value
  /\ in_flight \in Value \cup {None}
  /\ phase \in {"run", "mark", "sweepPools", "sweepVMs"}
  /\ marked \subseteq Value \cup Pool \cup VM
  /\ gray \subseteq Value \cup Pool \cup VM

\* The pools something may still read: frames on the stack, global frames,
\* and the attributes and closures of allocated values.
OwnedPools ==
  Globals \cup {stack_frames[i].frame : i \in 1 .. Depth}
    \cup UNION {pools[v] : v \in all_values}

\* Whenever the program runs, no traced pointer of an allocated object, of
\* the stack or of a static root leads to freed memory: what sweep frees,
\* nothing the collector knows about still uses.
NoDanglingPointer ==
  phase = "run" =>
    /\ \A v \in all_values :
         /\ refs[v] \subseteq all_values
         /\ pools[v] \subseteq live_pools
         /\ home[v] \in vms \cup {None}
    /\ \A p \in OwnedPools :
         /\ slots[p] \subseteq all_values
         /\ vm_owner[p] \in vms
    /\ \A m \in vms : global_frame[m] \in live_pools
    /\ \A i \in 1 .. Depth :
         /\ stack_frames[i].frame \in live_pools
         /\ stack_frames[i].vm \in vms
         /\ stack_frames[i].fun \in all_values \cup {None}
         /\ stack_frames[i].args \subseteq all_values
    /\ static_roots \subseteq all_values

\* The destructors of values and the sweep of popped_frames read the pools
\* they list (is_global, is_marked): those are allocated, and no frame of a
\* VM that dies is listed as well, so that nothing is deleted twice.
PoppedFramesAllocated ==
  /\ \A p \in Pool : popped_frames[p] > 0 => p \in live_pools \ Globals
  /\ phase = "mark" /\ gray = {} =>
       \A v \in Garbage : pools[v] \subseteq live_pools

\* A VM that is executing, or waits for a call it made, is never deleted.
ExecutingVMsAlive == \A i \in 1 .. Depth : stack_frames[i].vm \in vms

\* No pool is lost: one that is allocated is a global frame, on the stack,
\* attributes or closure of an allocated value, or listed for deletion.
NoLostPool ==
  phase = "run" =>
    \A p \in live_pools : p \in OwnedPools \/ popped_frames[p] > 0

\* The collector goes "from root values and marks values that are reachable"
\* (vm/gc.hpp): the container of an iterator the program can still use is
\* not freed.
IteratedContainersAlive ==
  phase = "run" =>
    \A v \in all_values : iterates[v] \in all_values \cup {None}

\* Looking a name up in a closure dereferences the function the captured
\* frame belongs to (MemoryPool::load_name): it is not freed.
PoolOwnersAlive ==
  phase = "run" =>
    \A v \in all_values : \A p \in pools[v] :
      pool_owner[p] \in all_values \cup {None}

\* The exception a catch clause is about to store survives the finally
\* blocks that run before.
InFlightExceptionAlive ==
  phase = "run" => in_flight \in all_values \cup {None}

\* A registered converter can be called: it is not freed.
ConvertersAlive == phase = "run" => converters \subseteq all_values

\* Nothing the program still uses through a pointer is freed, also where the
\* collector does not follow the pointer.
UntracedPointersAlive ==
  /\ IteratedContainersAlive /\ PoolOwnersAlive
  /\ InFlightExceptionAlive /\ ConvertersAlive

\* Every collection comes to its end, whatever cycles the heap has.
CollectionTerminates == phase # "run" ~> phase = "run"

=============================================================================
