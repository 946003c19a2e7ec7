------------------------------- MODULE Machine ------------------------------
(***************************************************************************)
(* The interpreter of one module: the opcodes that CodeGen generates, one  *)
(* step each.  A pool is the registers and names of a frame, of a class or *)
(* of an object; frames and consts are the stacks of the pools and of the  *)
(* constants of the functions that run; calls is the stack of call frames. *)
(* An error ends the program: there is no try here (TryFinally, CallStack) *)
(* and no second module.  Not run, though CodeGen generates them: imports, *)
(* annotations and converters of notes, ranges, dictionaries, spaces       *)
(* without a name and types of the language as parents of classes; of the  *)
(* types only List is called, with one argument by position.  A call that  *)
(* would make more than MaxFrames frames ends the program.                 *)
(***************************************************************************)
EXTENDS CodeGen, Values

CONSTANTS Programs,  \* trees of modules
          MaxFrames  \* frames of calls, classes and spaces at a time

VARIABLES
  program,  \* the tree that was written
  code,     \* its opcodes
  bci,      \* the address of the next one
  pools, frames, consts, calls, heap,
  parents,  \* the classes that the next class inherits from
  out,      \* the characters that were written to the notes
  ended     \* "" while the program runs, then how it ended

\* What most opcodes leave as it is.
running == <<program, code, parents>>
vars == <<running, bci, pools, frames, consts, calls, heap, out, ended>>

NoOwner == 0
NewPool(owner) == [regs |-> [r \in {} |-> None], names |-> [n \in {} |-> 0],
                   owner |-> owner, loops |-> 0]
CallFrame == [args |-> <<>>, ret |-> NoReg, addr |-> 0, fun |-> 0, constructor |-> FALSE]

\* What the compiler leaves: the code, and whether it refused the program or broke.
Generated(g) == [code |-> g.code, ended |-> g.broken]
Compiled(w) ==
    CASE w.raised # "" -> [code |-> <<>>, ended |-> "refused"]
      [] w.broken # "" -> [code |-> <<>>, ended |-> w.broken]
      [] OTHER -> Generated(generate(w.node))

Init ==
    \E tree \in Programs : \E c \in {Compiled(RunPipeline(tree, start)) : start \in StartsOfWalk} :
       /\ program = tree /\ code = c.code /\ ended = c.ended
       /\ bci = 0 /\ out = <<>> /\ heap = <<>> /\ calls = <<>> /\ parents = <<>>
       /\ pools = <<NewPool(NoOwner)>> /\ frames = <<1>>
       /\ consts = <<NewPool(NoOwner).regs>>

-----------------------------------------------------------------------------
(* Registers and names *)

Fetch == code[bci + 1]

Global == Head(frames)
Top == Last(frames)
Written(o) == o.n \in DOMAIN (IF o.const THEN Last(consts) ELSE pools[Top].regs)
\* A name may be given to a register that is not written yet.
Readable == Fetch.op = "STORE_NAME" \/ \A i \in DOMAIN Fetch.src : Written(Fetch.src[i])
At(ops) == ended = "" /\ Fetch.op \in ops /\ Readable
load(o) == IF o.const THEN Last(consts)[o.n] ELSE pools[Top].regs[o.n]
src(i) == load(Fetch.src[i])

Stored_(ps, id, reg, v) == [ps EXCEPT ![id].regs = (reg :> v) @@ @]
store(ps, o, v) == Stored_(ps, Top, o.n, v)
store_name(ps, id, reg, name) == [ps EXCEPT ![id].names = (name :> reg) @@ @]

OwnerFun(pool) ==
    IF pool.owner # NoOwner /\ Kind(Ref(pool.owner), heap) = "Fun" THEN heap[pool.owner] ELSE None

\* The first of the pools ids, with the closures of the functions they belong
\* to, that has the name: <<pool, register>>, <<>> if none has.
RECURSIVE PlaceOf(_, _)
PlaceOf(name, ids) ==
    IF ids = <<>> THEN <<>>
    ELSE LET pool == pools[Head(ids)]
             fun == OwnerFun(pool)
             here == CASE name \in DOMAIN pool.names -> <<Head(ids), pool.names[name]>>
                       [] Is(fun, "None") -> <<>>
                       [] OTHER -> PlaceOf(name, fun.closures)
         IN  IF here # <<>> THEN here ELSE PlaceOf(name, Tail(ids))

\* The same for its value: a function is found by its own name too.
RECURSIVE load_name(_, _)
load_name(name, ids) ==
    IF ids = <<>> THEN None
    ELSE LET pool == pools[Head(ids)]
             fun == OwnerFun(pool)
             outer == IF Is(fun, "None") THEN None ELSE load_name(name, fun.closures)
             here == CASE name \in DOMAIN pool.names -> pool.regs[pool.names[name]]
                       [] Is(outer, "None") /\ ~Is(fun, "None") /\ fun.name = name ->
                            Ref(pool.owner)
                       [] OTHER -> outer
         IN  IF Is(here, "None") THEN load_name(name, Tail(ids)) ELSE here

\* The built-in types come after the frames.
Else(v, w) == IF Is(v, "None") THEN w ELSE v
NonLocal == IF Len(frames) <= 1 THEN <<>> ELSE SubSeq(Reverse(frames), 2, Len(frames) - 1)

-----------------------------------------------------------------------------
(* What all opcodes do *)

Continue == bci' = bci + 1
raise(kind) ==
    /\ ended' = kind
    /\ UNCHANGED <<running, bci, pools, frames, consts, calls, heap, out>>

\* A value, or an error, is the result of the opcode.
IsNew(v) == v.k \in {"List", "Super"}
Produce(v) ==
    IF v.k = "Error" THEN raise(v.error)
    ELSE /\ Continue
         /\ heap' = IF IsNew(v) THEN Append(heap, v) ELSE heap
         /\ pools' = store(pools, Fetch.dst, IF IsNew(v) THEN Ref(Len(heap) + 1) ELSE v)
         /\ UNCHANGED <<running, frames, consts, calls, out, ended>>

Update(ps) == /\ pools' = ps /\ Continue
              /\ UNCHANGED <<running, frames, consts, calls, heap, out, ended>>
UpdateHeap(hp) == /\ heap' = hp /\ Continue
                  /\ UNCHANGED <<running, pools, frames, consts, calls, out, ended>>
UpdateCall(cf) == /\ calls' = Append(Front(calls), cf) /\ Continue
                  /\ UNCHANGED <<running, pools, frames, consts, heap, out, ended>>
Goto(address) == /\ bci' = address
                 /\ UNCHANGED <<running, pools, frames, consts, calls, heap, out, ended>>

NameOr(v, error) == IF Is(v, "None") THEN Error(error) ELSE v

-----------------------------------------------------------------------------
(* Registers, names, attributes, elements *)

StoreValue ==
    /\ At({"STORE_VALUE"})
    /\ consts' = [consts EXCEPT ![Len(consts)] = (Fetch.dst.n :> Fetch.arg) @@ @]
    /\ Continue /\ UNCHANGED <<running, pools, frames, calls, heap, out, ended>>

Store == At({"STORE", "STORE_CONST"}) /\ Produce(src(1))

\* super: this, and the class of the method that runs.
get_current_class ==
    LET funs == SelectSeq(Reverse(frames), LAMBDA id : ~Is(OwnerFun(pools[id]), "None"))
    IN  IF funs = <<>> THEN NoOwner ELSE OwnerFun(pools[Head(funs)]).class
Super ==
    LET this == load_name("this", Reverse(frames))
    IN  IF Kind(this, heap) # "Object" \/ get_current_class = NoOwner THEN Error("assertion")
        ELSE SuperValue(this.ref, get_current_class)
Load ==
    /\ At({"LOAD"})
    /\ Produce(IF Fetch.arg = "super" THEN Super
               ELSE NameOr(Else(load_name(Fetch.arg, Reverse(frames)), Builtin(Fetch.arg)),
                           "NameError"))

LoadGlobal == At({"LOAD_GLOBAL"}) /\ Produce(NameOr(load_name(Fetch.arg, <<Global>>), "NameError"))

LoadNonLoc ==
    /\ At({"LOAD_NONLOC"})
    /\ Produce(IF Top = Global THEN Error("SyntaxError")
               ELSE NameOr(load_name(Fetch.arg, NonLocal), "NameError"))

StoreName == At({"STORE_NAME"}) /\ Update(store_name(pools, Top, Fetch.src[1].n, Fetch.arg))

\* A name that is there gets the value.
Overwrite(ids) ==
    LET place == PlaceOf(Fetch.arg, ids)
    IN  IF place = <<>> THEN raise("NameError")
        ELSE Update(Stored_(pools, place[1], place[2], src(1)))
StoreGlobal == At({"STORE_GLOBAL"}) /\ Overwrite(<<Global>>)
StoreNonLoc == At({"STORE_NON_LOC"}) /\ Overwrite(NonLocal)

HasAttrs(v) == Kind(v, heap) \in {"Object", "Class", "Space"}
PoolsOf(classes) == [i \in DOMAIN classes |-> heap[classes[i]].attrs]
\* super looks where the class of this inherits from.
get_attr(v, name) ==
    CASE HasAttrs(v) -> load_name(name, <<Pointee(v, heap).attrs>>)
      [] Kind(v, heap) = "Super" ->
           load_name(name, PoolsOf(get_all_supers(heap[Pointee(v, heap).instance].class, heap)))
      [] OTHER -> None
\* Only this opcode looks at what an object or a class inherits.
Inherited(v, name) ==
    CASE Kind(v, heap) = "Object" ->
           load_name(name, PoolsOf(get_all_supers(Pointee(v, heap).class, heap)))
      [] Kind(v, heap) = "Class" -> load_name(name, PoolsOf(get_all_supers(v.ref, heap)))
      [] Kind(v, heap) = "Enum" /\ name \in ToSet(Pointee(v, heap).names) -> EnumValue(v.ref, name)
      [] OTHER -> None
LoadAttr ==
    /\ At({"LOAD_ATTR"})
    /\ Produce(NameOr(Else(get_attr(src(1), Fetch.arg), Inherited(src(1), Fetch.arg)),
                      "AttributeError"))

\* An attribute always gets a new register.
StoreAttr ==
    /\ At({"STORE_ATTR"})
    /\ IF ~HasAttrs(src(2)) THEN raise("AttributeError")
       ELSE LET id == Pointee(src(2), heap).attrs
                reg == -1 - Cardinality(DOMAIN pools[id].regs)
            IN  Update(store_name(Stored_(pools, id, reg, src(1)), id, reg, Fetch.arg))

StoreSubsc ==
    /\ At({"STORE_SUBSC"})
    /\ LET list == src(2)
           place == IF Kind(list, heap) = "List" /\ src(3).k = "Int"
                    THEN Place(Vals(list, heap), src(3).int) ELSE 0
       IN  CASE Kind(list, heap) # "List" \/ src(3).k # "Int" -> raise("TypeError")
             [] place = 0 -> raise("IndexError")
             [] OTHER -> UpdateHeap([heap EXCEPT ![list.ref].vals[place] = src(1)])

-----------------------------------------------------------------------------
(* Lists *)

BuildList == At({"BUILD_LIST"}) /\ Produce(NewList(<<>>))
ListPush ==
    /\ At({"LIST_PUSH"})
    /\ UpdateHeap([heap EXCEPT ![src(1).ref].vals = Append(@, src(2))])

\* The value is stored before the number of values is looked at.
SubscLast ==
    /\ At({"SUBSCLAST"})
    /\ LET v == subsc(src(1), src(2), heap)
       IN  IF v.k # "Error" /\ Len(Vals(src(1), heap)) # src(2).int + 1
           THEN /\ pools' = store(pools, Fetch.dst, v) /\ ended' = "ValueError"
                /\ UNCHANGED <<running, bci, frames, consts, calls, heap, out>>
           ELSE Produce(v)

\* The values of a list are put in the registers that another list names; the
\* one for the rest of them gets a new list.
Spreading(vars_, vals, rest, others) ==
    LET spread == Spread(vals, Len(vars_), rest)
        fresh == {i \in DOMAIN spread : spread[i].k = "List"}
        Put_(ps, i) == store(ps, Reg(vars_[i].int),
                             IF i \in fresh THEN Ref(Len(heap) + 1) ELSE spread[i])
    IN  IF spread # <<>> /\ spread[1].k = "Error" THEN raise(spread[1].error)
        ELSE /\ pools' = FoldLeft(Put_, pools, [i \in DOMAIN vars_ |-> i])
             /\ heap' = others \o [i \in 1 .. Cardinality(fresh) |-> spread[CHOOSE j \in fresh : TRUE]]
             /\ Continue /\ UNCHANGED <<running, frames, consts, calls, out, ended>>

SubscRest ==
    /\ At({"SUBSCREST"})
    /\ Spreading(Vals(src(1), heap), Vals(src(2), heap), src(3).int, heap)

Iter ==
    /\ At({"ITER"})
    /\ IF ~Iterable(src(1), heap) THEN raise("TypeError")
       ELSE /\ heap' = Append(heap, ListIterator(src(1)))
            /\ pools' = store(pools, Fetch.dst, Ref(Len(heap) + 1))
            /\ Continue /\ UNCHANGED <<running, frames, consts, calls, out, ended>>

\* The iterator looks at the list as it is now.
Next_(iter) == Elements(heap[iter].list, heap)
AtEnd(iter) == heap[iter].at >= Len(Next_(iter))
Advanced(iter) == [heap EXCEPT ![iter].at = @ + 1]
Element(iter) == Next_(iter)[heap[iter].at + 1]

For ==
    /\ At({"FOR"})
    /\ LET iter == src(1).ref
       IN  IF AtEnd(iter) THEN Goto(Fetch.arg)
           ELSE /\ heap' = Advanced(iter) /\ pools' = store(pools, Fetch.dst, Element(iter))
                /\ Continue /\ UNCHANGED <<running, frames, consts, calls, out, ended>>

ForMulti ==
    /\ At({"FOR_MULTI"})
    /\ LET iter == src(1).ref
           list == AsList(Element(iter), heap)
       IN  CASE AtEnd(iter) -> Goto(Fetch.arg)
             [] ~AtEnd(iter) /\ list.k = "Error" -> raise(list.error)
             [] OTHER -> Spreading(Vals(load(Fetch.dst), heap), list.vals, src(2).int,
                                   Advanced(iter))

-----------------------------------------------------------------------------
(* Jumps *)

Jump == At({"JMP"}) /\ Goto(Fetch.arg)
\* There is no finally to run first.
BreakTo == At({"BREAK_TO"}) /\ Goto(Fetch.arg)
JumpIf ==
    /\ At({"JMP_IF_TRUE", "JMP_IF_FALSE"})
    /\ CASE src(1).k # "Bool" -> raise("TypeError")
         [] src(1).k = "Bool" /\ src(1).bool = (Fetch.op = "JMP_IF_TRUE") -> Goto(Fetch.arg)
         [] OTHER -> Goto(bci + 1)

Switch ==
    /\ At({"SWITCH"})
    /\ LET vals == Vals(src(2), heap)
           outcomes == [i \in DOMAIN vals |-> eq(vals[i], src(1), heap)]
           ends == {i \in DOMAIN vals : outcomes[i] # BoolLiteral(FALSE)}
           first == CHOOSE i \in ends : \A j \in ends : i <= j
       IN  CASE ends = {} -> Goto(Fetch.arg)
             [] ends # {} /\ Is(outcomes[first], "Error") -> raise(outcomes[first].error)
             [] OTHER -> Goto(Vals(src(3), heap)[first].int)

\* A loop has a stack of its own for the finally blocks in it.
LoopBegin == At({"LOOP_BEGIN"}) /\ Update([pools EXCEPT ![Top].loops = @ + 1])
EndOfLoop == At({"LOOP_END"}) /\ Update([pools EXCEPT ![Top].loops = @ - 1])

-----------------------------------------------------------------------------
(* Calls *)

TopCall == Last(calls)
PushCallFrame ==
    /\ At({"PUSH_CALL_FRAME"})
    /\ calls' = Append(calls, CallFrame) /\ Continue
    /\ UNCHANGED <<running, pools, frames, consts, heap, out, ended>>

Arg(name, value, dst) == [name |-> name, value |-> value, dst |-> dst]
WithArgs(cf, args) == [cf EXCEPT !.args = args]
PushArg == At({"PUSH_ARG"}) /\ UpdateCall(WithArgs(TopCall, Append(TopCall.args, Arg("", src(1), 0))))
PushNamedArg ==
    /\ At({"PUSH_NAMED_ARG"})
    /\ UpdateCall(WithArgs(TopCall, Append(TopCall.args, Arg(Fetch.arg, src(1), 0))))
PushUnpacked ==
    /\ At({"PUSH_UNPACKED"})
    /\ IF ~Iterable(src(1), heap) THEN raise("TypeError")
       ELSE UpdateCall(WithArgs(TopCall, TopCall.args \o
                [i \in DOMAIN Elements(src(1), heap) |-> Arg("", Elements(src(1), heap)[i], 0)]))

\* A list is cloned.
clone(v) == IF Kind(v, heap) = "List" THEN Pointee(v, heap) ELSE v

\* can_call: the arguments as the function gets them, in a sequence of one; an
\* empty one if it cannot be called.  A ... argument takes all that have no name
\* from its place on; after the first name all have one; what is not given is
\* set last.
Fits(param, v) == param.types = {} \/ is_type_eq_or_subtype(v, param.types, heap)
can_call(fun, args) ==
    LET params == fun.args
        many == {j \in DOMAIN params : params[j].vararg}
        vararg == IF many = {} THEN Len(params) + 1 ELSE CHOOSE j \in many : TRUE
        unnamed == Cardinality({i \in DOMAIN args : \A j \in 1 .. i : args[j].name = ""})
        direct == IF vararg <= unnamed THEN vararg - 1 ELSE unnamed
        Direct(i) == Arg(params[i].name, args[i].value, i - 1)
        Eaten == Arg(params[vararg].name,
                     NewList([i \in 1 .. unnamed - direct |-> args[direct + i].value]), vararg - 1)
        Place_(name) == {j \in DOMAIN params : params[j].name = name}
        Given(a) == [a EXCEPT !.dst = IF Place_(a.name) = {} THEN -1
                                      ELSE (CHOOSE j \in Place_(a.name) : TRUE) - 1]
        given == [i \in 1 .. Len(args) - unnamed |-> Given(args[unnamed + i])]
        fits == /\ Len(args) <= Len(params) \/ many # {}
                /\ \A i \in 1 .. direct : Fits(params[i], args[i].value)
                /\ \A i \in DOMAIN given : /\ given[i].dst >= 0
                                           /\ Fits(params[given[i].dst + 1], given[i].value)
        bound == [i \in 1 .. direct |-> Direct(i)]
                 \o (IF vararg <= unnamed THEN <<Eaten>> ELSE <<>>) \o given
        absent == IF Len(params) <= Len(bound) THEN <<>>
                  ELSE SelectSeq([j \in DOMAIN params |-> j],
                                 LAMBDA j : \A i \in DOMAIN bound : bound[i].name # params[j].name)
        Default(j) == Arg(params[j].name, IF params[j].vararg THEN NewList(<<>>)
                                          ELSE clone(params[j].default), j - 1)
        all == bound \o [i \in DOMAIN absent |-> Default(absent[i])]
    IN  IF /\ fits
           /\ \A i \in DOMAIN absent : params[absent[i]].vararg
                                       \/ ~Is(params[absent[i]].default, "None")
           /\ Len(all) = Len(params)
        THEN <<all>> ELSE <<>>

\* An assertion takes an argument without a name after one with a name for
\* impossible; it is reached if those before it fit.
Unordered(args) == {i \in DOMAIN args : args[i].name = "" /\ \E j \in 1 .. i : args[j].name # ""}
Asserts(fun, args) ==
    LET first == CHOOSE i \in Unordered(args) : \A j \in Unordered(args) : i <= j
        Fit(i) == \E j \in DOMAIN fun.args :
                     /\ IF args[i].name = "" THEN j = i ELSE fun.args[j].name = args[i].name
                     /\ Fits(fun.args[j], args[i].value)
    IN  /\ Unordered(args) # {}
        /\ Len(args) <= Len(fun.args) \/ \E j \in DOMAIN fun.args : fun.args[j].vararg
        /\ \A i \in 1 .. first - 1 : Fit(i) \/ \E j \in 1 .. i : args[i].name = "" /\ fun.args[j].vararg

HasThis(args) == args # <<>> /\ Last(args).name = "this"
WithoutThis(args) == IF HasThis(args) THEN Front(args) ELSE args
\* The object whose attribute is called is not this when that is an object too.
OneThis(args) ==
    LET n == Len(args)
        IsThis(i) == args[i].name = "this" /\ Kind(args[i].value, heap) = "Object"
    IN  IF n > 1 /\ IsThis(n) /\ IsThis(n - 1) THEN SubSeq(args, 1, n - 2) \o <<args[n]>> ELSE args

IsConstructor(f) ==
    f.k \in {"Class", "Super"} \/ (f.k = "Fun" /\ f.class # NoOwner /\ heap[f.class].name = f.name)
OwnConstructor(class) == load_name(heap[class].name, <<heap[class].attrs>>)
WithConstructor(classes) == SelectSeq(classes, LAMBDA c : ~Is(OwnConstructor(c), "None"))
\* The class that is constructed; for super, the first that the class inherits
\* from and that has a constructor.
ClassOf_(v) ==
    LET with == WithConstructor(get_all_supers(Pointee(v, heap).class, heap))
    IN  CASE Kind(v, heap) = "Class" -> v.ref
          [] Kind(v, heap) = "Super" -> IF with = <<>> THEN NoOwner ELSE Head(with)
          [] OTHER -> Pointee(v, heap).class
\* The constructor of a class is its own or the first that it inherits.
Constructor(class) ==
    LET with == WithConstructor(<<class>> \o get_all_supers(class, heap))
    IN  IF with = <<>> THEN None ELSE OwnConstructor(Head(with))
\* What is called when v is called: the constructor of a class, the operator of
\* an object.
Target(v) ==
    CASE IsConstructor(Pointee(v, heap)) -> Constructor(ClassOf_(v))
      [] Kind(v, heap) = "Object" -> get_attr(v, "()")
      [] OTHER -> v
ArgsFor(v, args) ==
    CASE IsConstructor(Pointee(v, heap)) -> WithoutThis(args)
      [] HasThis(args) /\ Kind(Last(args).value, heap) \in {"Class", "Space", "Enum"} -> Front(args)
      [] Kind(v, heap) = "Object" -> Append(args, Arg("this", v, 0))
      [] OTHER -> args
\* The functions that may be called, in the order in which they are tried.
Candidates(v) ==
    CASE Kind(v, heap) = "Fun" -> <<v.ref>>
      [] Kind(v, heap) = "FunList" -> Reverse(heap[v.ref].funs)
      [] OTHER -> <<>>

\* The pool of an object starts as that of its class.
Made(class) == [pools[heap[class].attrs] EXCEPT !.owner = NoOwner]
\* New lists among the arguments are put on the heap.
Allocated(args) ==
    LET One(b, a) ==
            IF a.value.k # "List" THEN [b EXCEPT !.args = Append(@, a)]
            ELSE [args |-> Append(b.args, [a EXCEPT !.value = Ref(Len(b.heap) + 1)]),
                  heap |-> Append(b.heap, a.value)]
    IN  FoldLeft(One, [args |-> <<>>, heap |-> heap], args)

\* A method of super gets this.
ThisOfSuper(args) ==
    IF HasThis(args) /\ Kind(Last(args).value, heap) = "Super"
    THEN Append(Front(args), [Last(args) EXCEPT !.value = Ref(Pointee(@, heap).instance)])
    ELSE args

\* The frame of a call of v, that runs fun; that of a constructor has this too, a
\* new object unless it is called by super.
Enter(v, fun, bound, stack, dst) ==
    LET constructor == IsConstructor(Pointee(v, heap))
        made == constructor /\ Kind(v, heap) # "Super"
        this == Arg("this", IF made THEN Ref(Len(bound.heap) + 1)
                            ELSE load_name("this", Reverse(frames)), Len(bound.args))
        With(all, last) == IF made THEN Append(all, last) ELSE all
        args == IF constructor THEN Append(bound.args, this) ELSE ThisOfSuper(bound.args)
    IN  /\ pools' = Append(With(pools, Made(ClassOf_(v))), NewPool(fun))
        /\ heap' = With(bound.heap, ObjectValue(ClassOf_(v), Len(pools) + 1))
        /\ frames' = Append(frames, Len(pools'))
        /\ consts' = Append(consts, NewPool(NoOwner).regs)
        /\ calls' = Append(stack, [args |-> args, ret |-> dst, addr |-> bci + 1,
                                   fun |-> fun, constructor |-> constructor])
        /\ bci' = heap[fun].body /\ UNCHANGED <<running, out, ended>>

\* The first of the functions fits is run.
Attempt(v, args, fits, stack, dst) ==
    CASE fits = <<>> -> raise("TypeError")
      [] Len(frames) = MaxFrames -> raise("too many frames")
      [] fits # <<>> /\ Asserts(heap[fits[1]], args) -> raise("assertion")
      [] OTHER -> Enter(v, fits[1], Allocated(can_call(heap[fits[1]], args)[1]), stack, dst)
CallWith(v, args, stack, dst) ==
    Attempt(v, args, SelectSeq(Candidates(Target(v)), LAMBDA f :
                         can_call(heap[f], args) # <<>> \/ Asserts(heap[f], args)), stack, dst)

\* A call of v; below its call frame there is stack.  A class needs no constructor.
call(v, given, stack, dst) ==
    CASE Kind(v, heap) = "Super" /\ get_all_supers(Pointee(v, heap).class, heap) = <<>> ->
           raise("TypeError")
      [] Kind(v, heap) = "Super" /\ ClassOf_(v) = NoOwner ->
           /\ pools' = store(pools, dst, NilLiteral) /\ calls' = stack /\ Continue
           /\ UNCHANGED <<running, frames, consts, heap, out, ended>>
      [] IsConstructor(Pointee(v, heap)) /\ Is(Target(v), "None") ->
           /\ heap' = Append(heap, ObjectValue(ClassOf_(v), Len(pools) + 1))
           /\ pools' = Append(store(pools, dst, Ref(Len(heap) + 1)), Made(ClassOf_(v)))
           /\ calls' = stack /\ Continue /\ UNCHANGED <<running, frames, consts, out, ended>>
      \* The message of the error that is raised reads the missing operator.
      [] Kind(v, heap) = "Object" /\ Is(Target(v), "None") -> raise("a null pointer is read")
      [] OTHER -> CallWith(v, OneThis(ArgsFor(v, given)), stack, dst)

\* List(v), of the standard library.
CallOfList ==
    LET list == AsList(TopCall.args[1].value, heap)
    IN  IF list.k = "Error" THEN raise(list.error)
        ELSE /\ heap' = Append(heap, list) /\ pools' = store(pools, Fetch.dst, Ref(Len(heap) + 1))
             /\ calls' = Front(calls) /\ Continue
             /\ UNCHANGED <<running, frames, consts, out, ended>>
Call ==
    /\ At({"CALL"})
    /\ CASE src(1) = Type("List") -> CallOfList
         [] OTHER -> call(src(1), TopCall.args, Front(calls), Fetch.dst)

PopCallFrame ==
    /\ At({"POP_CALL_FRAME"})
    /\ LET One(ps, a) == store_name(Stored_(ps, Top, a.dst, a.value), Top, a.dst, a.name)
       IN  Update(FoldLeft(One, pools, TopCall.args))

\* A constructor returns its last argument, this.
Return ==
    /\ At({"RETURN", "RETURN_CONST"})
    /\ pools' = Stored_(pools, Last(Front(frames)), TopCall.ret.n,
                        IF TopCall.constructor THEN Last(TopCall.args).value ELSE src(1))
    /\ frames' = Front(frames) /\ consts' = Front(consts)
    /\ bci' = TopCall.addr /\ calls' = Front(calls)
    /\ UNCHANGED <<running, heap, out, ended>>

-----------------------------------------------------------------------------
(* Functions and classes *)

\* With the name of a function that is there already, it becomes one of a list.
CreateFun ==
    /\ At({"CREATE_FUN"})
    /\ LET owner == pools[Top].owner
           params == [i \in DOMAIN Fetch.arg.args |-> Param(Fetch.arg.args[i])]
           class == IF owner # NoOwner /\ Kind(Ref(owner), heap) = "Class" THEN owner ELSE NoOwner
           made == Append(heap, FunValue(Fetch.arg.name, params, 0, Reverse(Tail(frames)), class))
           before == load_name(Fetch.arg.name, <<Top>>)
           is == IF Is(before, "None") THEN "None" ELSE Kind(before, heap)
           Bound(v) == store_name(store(pools, Fetch.dst, v), Top, Fetch.dst.n, Fetch.arg.name)
       IN  /\ CASE is = "Fun" -> /\ heap' = Append(made, FunValueList(<<before.ref, Len(made)>>))
                                 /\ pools' = Bound(Ref(Len(made) + 1))
                [] is = "FunList" -> /\ heap' = [made EXCEPT ![before.ref].funs = Append(@, Len(made))]
                                     /\ pools' = store(pools, Fetch.dst, before)
                [] OTHER -> heap' = made /\ pools' = Bound(Ref(Len(made)))
           /\ Continue /\ UNCHANGED <<running, frames, consts, calls, out, ended>>

LastFun(v) == IF Kind(v, heap) = "Fun" THEN v.ref ELSE Last(heap[v.ref].funs)
\* The class whose constructor was found in its place.
RECURSIVE load_type(_, _)
load_type(name, ids) ==
    CASE ids = <<>> -> None
      [] ids # <<>> /\ Kind(load_name(name, <<Head(ids)>>), heap) = "Class" ->
           load_name(name, <<Head(ids)>>)
      [] OTHER -> load_type(name, Tail(ids))
TypeFor(v) ==
    IF Kind(v, heap) \in {"Fun", "FunList"}
    THEN load_type(heap[LastFun(v)].name, Reverse(frames)) ELSE v
SetArgument ==
    /\ At({"SET_DEFAULT", "SET_TYPE", "SET_VARARG"})
    /\ LET i == Fetch.arg + 1
           fun == LastFun(src(1))
       IN  CASE Fetch.op = "SET_DEFAULT" -> UpdateHeap([heap EXCEPT ![fun].args[i].default = src(2)])
             [] Fetch.op = "SET_VARARG" -> UpdateHeap([heap EXCEPT ![fun].args[i].vararg = TRUE])
             [] Fetch.op = "SET_TYPE" ->
                  \* No type has the name: the message of the error reads it.
                  CASE Kind(TypeFor(src(2)), heap) \in {"Type", "Class", "Enum"} ->
                         UpdateHeap([heap EXCEPT ![fun].args[i].types = @ \union {TypeFor(src(2))}])
                    [] Is(TypeFor(src(2)), "None") -> raise("a null pointer is read")
                    [] OTHER -> raise("NameError")

\* Two functions that differ in the names and defaults of their arguments only.
equals(f, g) ==
    /\ Len(f.args) = Len(g.args)
    /\ \A i \in DOMAIN f.args :
         /\ f.args[i].vararg = g.args[i].vararg
         /\ f.args[i].vararg \/ f.args[i].types = g.args[i].types
\* It replaces one of the list that equals it.
FunBegin ==
    /\ At({"FUN_BEGIN"})
    /\ LET fun == LastFun(src(1))
           begun == [heap EXCEPT ![fun].body = bci + 2]
           funs == IF Kind(src(1), heap) = "Fun" THEN <<fun>> ELSE heap[src(1).ref].funs
           same == {i \in 1 .. Len(funs) - 1 : equals(heap[funs[i]], heap[fun])}
           first == CHOOSE i \in same : \A j \in same : i <= j
       IN  /\ heap' = IF same = {} \/ Len(funs) = 2 THEN begun
                      ELSE [begun EXCEPT ![src(1).ref].funs = Front([@ EXCEPT ![first] = fun])]
           /\ pools' = IF same # {} /\ Len(funs) = 2 THEN store(pools, Fetch.src[1], Ref(fun))
                       ELSE pools
           /\ Continue /\ UNCHANGED <<running, frames, consts, calls, out, ended>>

PushParent ==
    /\ At({"PUSH_PARENT"})
    /\ CASE Kind(src(1), heap) # "Class" -> raise("assertion")
         [] Kind(src(1), heap) = "Class" /\ src(1).ref \in ToSet(parents) -> raise("TypeError")
         [] OTHER -> /\ parents' = Append(parents, src(1).ref) /\ Continue
                     /\ UNCHANGED <<program, code, pools, frames, consts, calls, heap, out, ended>>

\* The frame of the body of a class or a space is the pool of its attributes.
Opened(value, attrs) ==
    /\ heap' = Append(heap, value)
    /\ pools' = Append(store_name(store(pools, Fetch.dst, Ref(Len(heap'))), Top, Fetch.dst.n,
                                  Fetch.arg), NewPool(Len(heap')))
    /\ frames' = Append(frames, attrs) /\ consts' = Append(consts, NewPool(NoOwner).regs)
    /\ Continue /\ UNCHANGED <<program, code, calls, out, ended>>
BuildClass ==
    /\ At({"BUILD_CLASS"})
    /\ Opened(ClassValue(Fetch.arg, Len(pools) + 1, parents), Len(pools) + 1)
    /\ parents' = <<>>
\* A space that the frame has, or the functions around it, is gone on with.
BuildSpace ==
    /\ At({"BUILD_SPACE"})
    /\ LET there == load_name(Fetch.arg, <<Top>>)
       IN  IF Kind(there, heap) = "Space"
           THEN /\ frames' = Append(frames, Pointee(there, heap).attrs)
                /\ consts' = Append(consts, NewPool(NoOwner).regs)
                /\ Continue /\ UNCHANGED <<running, pools, calls, heap, out, ended>>
           ELSE /\ Opened(SpaceValue(Fetch.arg, Len(pools) + 1), Len(pools) + 1)
                /\ UNCHANGED parents
BuildEnum ==
    /\ At({"BUILD_ENUM"})
    /\ LET names == Vals(src(1), heap)
       IN  heap' = Append(heap, EnumTypeValue([i \in DOMAIN names |-> names[i].str]))
    /\ pools' = store_name(store(pools, Fetch.dst, Ref(Len(heap'))), Top, Fetch.dst.n, Fetch.arg)
    /\ Continue /\ UNCHANGED <<running, frames, consts, calls, out, ended>>
PopFrameOnly ==
    /\ At({"POP_FRAME"})
    /\ frames' = Front(frames)
    /\ Continue /\ UNCHANGED <<running, pools, consts, calls, heap, out, ended>>
PopFrame ==
    /\ At({"POP_FRAME"})
    /\ frames' = Front(frames) /\ consts' = Front(consts)
    /\ Continue /\ UNCHANGED <<running, pools, calls, heap, out, ended>>

-----------------------------------------------------------------------------
(* Operators, output *)

OperatorOf ==
    "CONCAT" :> "++" @@ "EXP" :> "^" @@ "ADD" :> "+" @@ "SUB" :> "-" @@ "DIV" :> "/"
    @@ "MUL" :> "*" @@ "MOD" :> "%" @@ "EQ" :> "==" @@ "NEQ" :> "!=" @@ "BT" :> ">"
    @@ "LT" :> "<" @@ "BEQ" :> ">=" @@ "LEQ" :> "<=" @@ "AND" :> "and" @@ "OR" :> "or"
    @@ "XOR" :> "xor" @@ "IN" :> "in" @@ "SUBSC" :> "[]"
\* Operators that an object may define and that are called like a method.
Callable(op) == op \notin {"CONCAT", "EQ", "NEQ", "BT", "LT", "BEQ", "LEQ"}

call_operator(op, object, others) ==
    IF Is(get_attr(object, op), "None") THEN raise("TypeError")
    ELSE call(get_attr(object, op), Append(others, Arg("this", object, 0)), calls, Fetch.dst)

Binary ==
    /\ At(DOMAIN OperatorOf)
    /\ LET op == OperatorOf[Fetch.op]
           receiver == IF op = "in" THEN src(2) ELSE src(1)
           other == IF op = "in" THEN src(1) ELSE src(2)
       IN  IF Callable(Fetch.op) /\ Kind(receiver, heap) = "Object"
           THEN call_operator(op, receiver, <<Arg("", other, 0)>>)
           ELSE Produce(Operated(op, src(1), src(2), heap))

Unary ==
    /\ At({"NEG", "NOT"})
    /\ LET op == IF Fetch.op = "NEG" THEN "-" ELSE "not"
       IN  IF Kind(src(1), heap) = "Object" THEN call_operator(op, src(1), <<>>)
           ELSE Produce(OperatedOnOne(op, src(1)))

Output ==
    /\ At({"OUTPUT"})
    /\ out' = out \o to_string(src(1), heap) /\ Continue
    /\ UNCHANGED <<running, pools, frames, consts, calls, heap, ended>>

Assert_ ==
    /\ At({"ASSERT"})
    /\ CASE src(1).k # "Bool" -> raise("TypeError")
         [] src(1).k = "Bool" /\ ~src(1).bool -> raise("AssertionError")
         [] OTHER -> Goto(bci + 1)
Raise == At({"RAISE"}) /\ raise("raised")
EndOfCode == At({"END"}) /\ raise("end")
\* MemoryPool::load asserts that the register is there.
UnknownRegister == ended = "" /\ ~Readable /\ raise("an unknown register is read")

-----------------------------------------------------------------------------

ValueStep == StoreValue \/ Store \/ Load \/ LoadGlobal \/ LoadNonLoc \/ StoreName
             \/ StoreGlobal \/ StoreNonLoc \/ LoadAttr \/ StoreAttr \/ StoreSubsc
ListStep == BuildList \/ ListPush \/ SubscLast \/ SubscRest \/ Iter \/ For \/ ForMulti
JumpStep == Jump \/ BreakTo \/ JumpIf \/ Switch \/ LoopBegin \/ EndOfLoop
CallStep == PushCallFrame \/ PushArg \/ PushNamedArg \/ PushUnpacked \/ Call \/ PopCallFrame
            \/ Return
FunctionStep == CreateFun \/ SetArgument \/ FunBegin \/ PushParent \/ BuildClass
                \/ BuildSpace \/ BuildEnum \/ PopFrame
OperatorStep == Binary \/ Unary \/ Output \/ Assert_ \/ Raise \/ EndOfCode
                \/ UnknownRegister

Next == ValueStep \/ ListStep \/ JumpStep \/ CallStep \/ FunctionStep \/ OperatorStep

\* The opcodes there are; the generator also puts down others, to be replaced.
Opcodes ==
    DOMAIN OperatorOf \union
    {"ASSERT", "BREAK_TO", "BUILD_CLASS", "BUILD_ENUM", "BUILD_LIST", "BUILD_SPACE", "CALL", "CREATE_FUN", "END", "FOR",
     "FOR_MULTI", "FUN_BEGIN", "ITER", "JMP", "JMP_IF_FALSE", "JMP_IF_TRUE", "LIST_PUSH", "LOAD",
     "LOAD_ATTR", "LOAD_GLOBAL", "LOAD_NONLOC", "LOOP_BEGIN", "LOOP_END", "NEG", "NOT", "OUTPUT",
     "POP_CALL_FRAME", "POP_FRAME", "PUSH_ARG", "PUSH_CALL_FRAME", "PUSH_NAMED_ARG",
     "PUSH_PARENT", "PUSH_UNPACKED", "RAISE", "RETURN", "RETURN_CONST", "SET_DEFAULT", "SET_TYPE", "SET_VARARG",
     "STORE", "STORE_ATTR", "STORE_CONST", "STORE_GLOBAL", "STORE_NAME", "STORE_NON_LOC",
     "STORE_SUBSC", "STORE_VALUE", "SUBSCLAST", "SUBSCREST", "SWITCH"}

\* Weak fairness of Next: it is enabled as long as the program has not ended and the
\* next opcode is one of Opcodes (AssertionsHold in Compilation).
Fairness == []<>(ended # "") \/ []<><<TRUE>>_vars
Spec == Init /\ [][Next]_vars /\ Fairness
=============================================================================
