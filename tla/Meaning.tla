------------------------------- MODULE Meaning ------------------------------
(***************************************************************************)
(* What a program means: the value of every expression and the effect of   *)
(* every statement, by recursion over the tree that was written, without   *)
(* passes, registers, opcodes and addresses.  Machine is compared with it. *)
(*                                                                         *)
(* A state s of the evaluation is [scopes |-> the names of every function  *)
(* call, class and object, frames |-> the scopes of the calls in progress, *)
(* heap, out |-> as in Machine, val |-> the last value, sig |-> "" or why  *)
(* what follows is skipped: break, continue, return or how the program     *)
(* ended, odd |-> what was met where the code is known to do something     *)
(* else, known |-> if the first of this is an error that the code is known *)
(* to raise: the end of the program by it].                                *)
(***************************************************************************)
EXTENDS Operators

Scope(owner) == [names |-> [n \in {} |-> NilLiteral], owner |-> owner]
Start == [scopes |-> <<Scope(0)>>, frames |-> <<1>>, heap |-> <<>>, out |-> <<>>,
          val |-> NilLiteral, sig |-> "", odd |-> {}, known |-> <<>>]

Now(s) == s.sig = ""
Signal(s, sig) == [s EXCEPT !.sig = sig]
With(s, v) == [s EXCEPT !.val = v]
Odd(s, holds, what) == IF holds THEN [s EXCEPT !.odd = @ \union {what}] ELSE s
\* The language gives a value where the code raises an error.
Raises(s, holds, what, error) ==
    LET end == IF s.odd = {} THEN <<[sig |-> error, out |-> s.out]>> ELSE s.known
    IN  IF holds THEN [Odd(s, TRUE, what) EXCEPT !.known = end] ELSE s
\* An error ends the program, what is new is put on the heap.
Give(s, v) ==
    CASE v.k = "Error" -> Signal(s, v.error)
      [] v.k \in {"List", "Super"} ->
           [s EXCEPT !.heap = Append(@, v), !.val = Ref(Len(s.heap) + 1)]
      [] OTHER -> With(s, v)

RECURSIVE Do(_, _)
Then(s, F(_)) == IF Now(s) THEN F(s) ELSE s
Run(body, s) == Do([k |-> "Body", body |-> body], s)
After(e, s, F(_)) == Then(Do(e, s), F)
\* The values of several expressions, from left to right.
All(es, s) ==
    LET One(a, e) == IF ~Now(a.s) THEN a
                     ELSE LET t == Do(e, a.s) IN [s |-> t, vals |-> Append(a.vals, t.val)]
    IN  FoldLeft(One, [s |-> s, vals |-> <<>>], es)

-----------------------------------------------------------------------------
(* Names *)

Owner(id, s) == IF s.scopes[id].owner = 0 THEN None ELSE s.heap[s.scopes[id].owner]
IsFun(id, s) == Owner(id, s).k = "Fun"

\* The scope that has the name: of the scopes ids, each followed by those that
\* its function was declared in.
RECURSIVE Found(_, _, _)
Found(name, ids, s) ==
    IF ids = <<>> THEN <<>>
    ELSE LET id == Head(ids)
             here == CASE name \in DOMAIN s.scopes[id].names -> <<id>>
                       [] IsFun(id, s) -> Found(name, Owner(id, s).closures, s)
                       [] OTHER -> <<>>
         IN  IF here # <<>> THEN here ELSE Found(name, Tail(ids), s)

Inner(s) == Reverse(s.frames)
Outer(s) == IF Len(s.frames) = 1 THEN <<>> ELSE SubSeq(Inner(s), 2, Len(s.frames) - 1)
Current(s) == Last(s.frames)
InGlobal(s) == Len(s.frames) = 1

Read(name, ids, error, s) ==
    LET place == Found(name, ids, s)
        \* The code finds the running function under its own name first.
        own == \E i \in DOMAIN ids :
                  /\ IsFun(ids[i], s) /\ Owner(ids[i], s).name = name
                  /\ place = <<>> \/ s.scopes[place[1]].names[name] # Ref(s.scopes[ids[i]].owner)
        t == Odd(s, own, "own name")
    IN  CASE place # <<>> -> With(t, s.scopes[place[1]].names[name])
          [] place = <<>> /\ error = "NameError" /\ ~Is(Builtin(name), "None") -> With(t, Builtin(name))
          [] OTHER -> Signal(t, error)

\* A variable that was not assigned is nil.
Unassigned(name, ids, s) ==
    LET t == Read(name, ids, "NameError", s)
    IN  IF t.sig # "NameError" THEN t
        ELSE With(Raises([t EXCEPT !.sig = ""], TRUE, "unassigned variable", "NameError"), NilLiteral)

Bind(name, v, id, s) == [s EXCEPT !.scopes[id].names = (name :> v) @@ @, !.val = v]
Change(name, ids, v, s) ==
    LET place == Found(name, ids, s)
    IN  IF place = <<>> THEN Signal(s, "NameError") ELSE Bind(name, v, place[1], s)

Attrs(v, s) == IF Kind(v, s.heap) \in {"Object", "Class", "Space"} THEN <<Pointee(v, s.heap).attrs>>
               ELSE <<>>
HasAttr(v, name, s) == Found(name, Attrs(v, s), s) # <<>>
Supers(class, s) == get_all_supers(class, s.heap)
ScopesOf(classes, s) == [i \in DOMAIN classes |-> s.heap[classes[i]].attrs]
\* An object has what its class and the classes it inherits from have; super
\* has what the class of the running method inherits.
Inherits(v, s) ==
    CASE Kind(v, s.heap) = "Object" -> Supers(Pointee(v, s.heap).class, s)
      [] Kind(v, s.heap) = "Class" -> Supers(v.ref, s)
      [] Kind(v, s.heap) = "Super" -> Supers(Pointee(v, s.heap).class, s)
      [] OTHER -> <<>>
\* The code looks where the class of the object inherits from.
OtherSuper(v, name, s) ==
    /\ Kind(v, s.heap) = "Super"
    /\ LET class == s.heap[Pointee(v, s.heap).instance].class
       IN  Found(name, ScopesOf(Inherits(v, s), s), s) # Found(name, ScopesOf(Supers(class, s), s), s)
Attr(v, name, s) ==
    IF Kind(v, s.heap) = "Enum" /\ name \in ToSet(Pointee(v, s.heap).names)
    THEN With(s, EnumValue(v.ref, name))
    ELSE Read(name, Attrs(v, s) \o ScopesOf(Inherits(v, s), s), "AttributeError",
              Odd(s, OtherSuper(v, name, s), "super of a class that is inherited from"))

-----------------------------------------------------------------------------
(* Calls *)

Given(name, value) == [name |-> name, value |-> value]

\* What each parameter gets: a function from the parameters to values, in a set
\* of one; the empty set when the arguments do not fit.
Binding(params, given, s) ==
    LET unnamed == SelectSeq(given, LAMBDA a : a.name = "")
        named == SelectSeq(given, LAMBDA a : a.name # "")
        names == {params[i].name : i \in DOMAIN params}
        many == {i \in DOMAIN params : params[i].vararg}
        places == IF many = {} THEN Len(params) ELSE (CHOOSE i \in many : TRUE) - 1
        Named(p) == {i \in DOMAIN named : named[i].name = p.name}
        ValueOf(i) ==
            CASE Named(params[i]) # {} -> named[CHOOSE j \in Named(params[i]) : TRUE].value
              [] params[i].vararg ->
                   NewList([j \in 1 .. Len(unnamed) - places |-> unnamed[places + j].value])
              [] i <= places /\ i <= Len(unnamed) -> unnamed[i].value
              [] Kind(params[i].default, s.heap) = "List" -> Pointee(params[i].default, s.heap)
              [] OTHER -> params[i].default
        fits == /\ \A i \in DOMAIN named : named[i].name \in names
                /\ Len(unnamed) <= places \/ many # {}
                /\ \A i \in DOMAIN params : ~Is(ValueOf(i), "None")
                /\ \A i \in DOMAIN params :
                     \/ params[i].types = {} \/ params[i].vararg
                     \/ Named(params[i]) = {} /\ (i > places \/ i > Len(unnamed))
                     \/ HasType(ValueOf(i), params[i].types, s.heap)
    IN  IF fits THEN {[n \in names |-> ValueOf(CHOOSE i \in DOMAIN params : params[i].name = n)]}
        ELSE {}

\* One parameter is given twice, or a ... parameter by name.
Twice(params, given) ==
    \E i, j \in DOMAIN given : \E p \in DOMAIN params :
        \/ given[i].name = params[p].name /\ params[p].vararg
        \/ i = p /\ i < j /\ given[i].name = "" /\ given[j].name = params[p].name
Unordered_(given) == \E i, j \in DOMAIN given : i < j /\ given[i].name # "" /\ given[j].name = ""

Funs(v, s) ==
    CASE Kind(v, s.heap) = "Fun" -> <<v.ref>>
      [] Kind(v, s.heap) = "FunList" -> Reverse(s.heap[v.ref].funs)
      [] OTHER -> <<>>
Constructs(v, s) ==
    \/ Kind(v, s.heap) \in {"Class", "Super"}
    \/ /\ Funs(v, s) # <<>>
       /\ LET f == s.heap[Funs(v, s)[1]] IN f.class # 0 /\ s.heap[f.class].name = f.name

\* The arguments of a call become the names of its scope.
Entered(fun, names, s) ==
    LET New(t, n) == IF names[n].k = "List"
                     THEN [t EXCEPT !.heap = Append(@, names[n]), !.new[n] = Ref(Len(t.heap) + 1)]
                     ELSE t
        made == FoldLeft(New, [heap |-> s.heap, new |-> names], SetToSeq(DOMAIN names))
        id == Len(s.scopes) + 1
        begun == [s EXCEPT !.heap = made.heap, !.frames = Append(@, id),
                           !.scopes = Append(@, [names |-> made.new, owner |-> fun])]
        done == Run(s.heap[fun].body, begun)
        left == [done EXCEPT !.frames = Front(@)]
    IN  CASE done.sig = "return" -> Signal(left, "")
          [] done.sig = "" -> With(left, NilLiteral)
          [] OTHER -> left

\* Of several functions the first that the arguments fit is called.
First(funs, given, s) ==
    IF funs = <<>> THEN Signal(s, "TypeError")
    ELSE Entered(funs[1], CHOOSE b \in Binding(s.heap[funs[1]].args, given, s) : TRUE, s)
Applied(v, given, s) ==
    LET twice == \E i \in DOMAIN Funs(v, s) : Twice(s.heap[Funs(v, s)[i]].args, given)
    IN  First(SelectSeq(Funs(v, s), LAMBDA f : Binding(s.heap[f].args, given, s) # {}), given,
              Odd(Odd(s, twice, "argument given twice"), Unordered_(given), "positional after named"))

\* The constructors of the first of the classes that has any.
HasConstructor(class, s) == s.heap[class].name \in DOMAIN s.scopes[s.heap[class].attrs].names
ConstructorsOf(classes, s) ==
    LET with == SelectSeq(classes, LAMBDA c : HasConstructor(c, s))
    IN  IF with = <<>> THEN None
        ELSE s.scopes[s.heap[with[1]].attrs].names[s.heap[with[1]].name]

\* A new object has what its class has; the constructor, if any, gets it as this.
WithThis(constructor, args, this, s) ==
    Then(Applied(constructor, Append(args, Given("this", this)), s), LAMBDA t : With(t, this))
Constructed(v, args, s) ==
    LET class == IF Kind(v, s.heap) = "Class" THEN v.ref ELSE s.heap[Funs(v, s)[1]].class
        attrs == s.heap[class].attrs
        this == Ref(Len(s.heap) + 1)
        made == [s EXCEPT !.scopes = Append(@, [@[attrs] EXCEPT !.owner = 0]),
                          !.heap = Append(@, ObjectValue(class, Len(s.scopes) + 1))]
        constructor == ConstructorsOf(<<class>> \o Supers(class, s), s)
    IN  IF Is(constructor, "None")
        THEN With(Odd(made, args # <<>>, "arguments without a constructor"), this)
        ELSE WithThis(constructor, args, this,
                      Odd(made, Kind(v, s.heap) = "FunList", "list of constructors"))
\* super(...) goes on with the object that is constructed.
ConstructedBySuper(v, args, s) ==
    LET constructor == ConstructorsOf(Supers(v.class, s), s)
    IN  CASE Supers(v.class, s) = <<>> -> Signal(s, "TypeError")
          [] Supers(v.class, s) # <<>> /\ Is(constructor, "None") -> With(s, NilLiteral)
          [] OTHER -> WithThis(constructor, args, Ref(v.instance), s)

Called(v, given, s) == Do([k |-> "Called", fun |-> v, given |-> given], s)
CalledMeaning(v, given, s) ==
    LET others == SelectSeq(given, LAMBDA a : a.name # "this")
    IN  CASE Kind(v, s.heap) = "Super" -> ConstructedBySuper(Pointee(v, s.heap), others, s)
          [] Constructs(v, s) -> Constructed(v, others, s)
          [] Kind(v, s.heap) = "Object" ->
               IF ~HasAttr(v, "()", s) THEN Signal(Odd(s, TRUE, "call of an object"), "TypeError")
               ELSE Applied(Attr(v, "()", s).val, Append(others, Given("this", v)), s)
          [] OTHER -> Applied(v, given, s)

\* An argument with a name, a <<sequence, or one value.
Arguments(args, s) ==
    LET One(a, arg) ==
            LET kind == CASE Is(arg, "BinaryExpr") /\ arg.op = "=" -> "named"
                          [] Is(arg, "UnaryExpr") /\ arg.op = "<<" -> "unpacked"
                          [] OTHER -> "one"
                t == Do(CASE kind = "named" -> arg.right [] kind = "unpacked" -> arg.expr
                          [] OTHER -> arg, a.s)
            IN  CASE ~Now(a.s) \/ ~Now(t) -> [a EXCEPT !.s = IF Now(a.s) THEN t ELSE a.s]
                  [] kind = "named" ->
                       [s |-> t, given |-> Append(a.given, Given(IF Is(arg.left, "This") THEN "this"
                                                                 ELSE arg.left.name, t.val))]
                  [] kind = "unpacked" /\ ~HasMembers(t.val, t.heap) ->
                       [a EXCEPT !.s = Signal(t, "TypeError")]
                  [] kind = "unpacked" ->
                       [s |-> t, given |-> a.given \o [i \in DOMAIN Members(t.val, t.heap) |->
                                                 Given("", Members(t.val, t.heap)[i])]]
                  [] OTHER -> [s |-> t, given |-> Append(a.given, Given("", t.val))]
    IN  FoldLeft(One, [s |-> s, given |-> <<>>], args)

RECURSIVE Effects(_)
Effects(e) == Is(e, "Call") \/ \E i \in DOMAIN Children(e) : Effects(Children(e)[i])

\* The receiver of a method is evaluated once, and is its this if it is an object.
ThisOf(v, s) ==
    CASE Kind(v, s.heap) \in {"Class", "Space", "Enum"} -> <<>>
      [] Kind(v, s.heap) = "Super" -> <<Given("this", Ref(Pointee(v, s.heap).instance))>>
      [] OTHER -> <<Given("this", v)>>
MethodCall(e, s) ==
    After(e.fun.left, Odd(s, Effects(e.fun.left), "receiver evaluated twice"), LAMBDA r :
        Then(Attr(r.val, IF Is(e.fun.right, "Variable") THEN e.fun.right.name ELSE e.fun.right.op, r),
             LAMBDA f :
             LET a == Arguments(e.args, f)
             IN  Then(a.s, LAMBDA t : Called(f.val, a.given \o ThisOf(r.val, r), t))))

CallMeaning(e, s) ==
    IF Is(e.fun, "BinaryExpr") /\ e.fun.op = "." THEN MethodCall(e, s)
    ELSE After(e.fun, s, LAMBDA f :
            LET a == Arguments(e.args, f)
            IN  Then(a.s, LAMBDA t : IF f.val = Type("List")
                                     THEN Give(t, AsNewList(a.given[1].value, t.heap))
                                     ELSE Called(f.val, a.given, t)))

-----------------------------------------------------------------------------
(* Operators *)

OperatorCall(op, object, others, s) ==
    IF ~HasAttr(object, op, s)
    THEN Signal(Odd(s, Found(op, ScopesOf(Inherits(object, s), s), s) # <<>>, "inherited operator"),
                "TypeError")
    ELSE Called(Attr(object, op, s).val, Append(others, Given("this", object)), s)

\* Where the code does not do what the language says.
KnownOf(op, a, b, s) ==
    LET compares == \/ op \in {"==", "!="} /\ ComparesObject(a, b, s.heap)
                    \/ /\ op = "in" /\ Kind(b, s.heap) = "List"
                       /\ LET l == Vals(b, s.heap)
                          IN  \E i \in DOMAIN l : /\ ComparesObject(l[i], a, s.heap)
                                                 /\ \A j \in 1 .. i - 1 : ~Same(l[j], a, s.heap)
        joins == op = "+" /\ Is(a, "String") /\ Is(b, "String")
        t == Raises(s, compares, "comparison of objects", "TypeError")
        u == Raises(t, joins, "+ of strings", "TypeError")
    IN  Odd(u, op = "[]" /\ Is(a, "String") /\ a.str = <<>>, "index of an empty string")

OwnOperator(op) == op \notin {"++", "==", "!=", ">", "<", ">=", "<="}
Apply(op, a, b, s) ==
    LET receiver == IF op = "in" THEN b ELSE a
        other == IF op = "in" THEN a ELSE b
    IN  IF OwnOperator(op) /\ Kind(receiver, s.heap) = "Object"
        THEN OperatorCall(op, receiver, <<Given("", other)>>, s)
        ELSE Give(KnownOf(op, a, b, s), Applied2(op, a, b, s.heap))

Test(s, Yes(_), No(_)) ==
    CASE s.val.k # "Bool" -> Signal(s, "TypeError") [] s.val.k = "Bool" /\ s.val.bool -> Yes(s)
      [] OTHER -> No(s)

\* A place to assign to: a variable, an element of a list or an attribute.  An
\* operand of an element is evaluated after the value, the index first.
AssignTo(target, v, s) ==
    CASE target.k = "Variable" /\ ~target.non_local -> Bind(target.name, v, Current(s), s)
      [] target.k = "Variable" /\ target.non_local -> Change(target.name, Outer(s), v, s)
      [] target.k = "UnaryExpr" -> Change(target.expr.name, <<1>>, v, s)
      [] target.k = "BinaryExpr" /\ target.op = "." ->
           After(target.left, s, LAMBDA o :
               IF Attrs(o.val, o) = <<>> THEN Signal(o, "AttributeError")
               ELSE Bind(target.right.name, v, Attrs(o.val, o)[1], o))
      [] target.k = "BinaryExpr" /\ target.op = "[]" ->
           After(target.right, s, LAMBDA i : After(target.left, i, LAMBDA o :
               LET list == Kind(o.val, o.heap) = "List" /\ i.val.k = "Int"
               IN  CASE ~list -> Signal(o, "TypeError")
                     [] list /\ ~IsIndex(i.val.int, Vals(o.val, o.heap)) -> Signal(o, "IndexError")
                     [] OTHER ->
                          LET place == AtIndex(i.val.int, Vals(o.val, o.heap))
                          IN  With([o EXCEPT !.heap[o.val.ref].vals[place] = v], v)))

\* Values for several targets; with a ... one any number of them.
AssignEach(vars, rest, vals, s) ==
    LET n == Len(vars)
        after == Len(vals) - n     \* how far the variables after the ... are from their values
        Value(i) == CASE i - 1 = rest -> NewList(SubSeq(vals, i, i + after))
                      [] rest >= 0 /\ i - 1 > rest -> vals[i + after]
                      [] OTHER -> IF i <= Len(vals) THEN vals[i] ELSE Error("IndexError")
        One(t, i) == IF rest < 0 /\ i = n /\ Len(vals) > n THEN Signal(t, "ValueError")
                     ELSE Then(Give(t, Value(i)), LAMBDA u : AssignTo(vars[i], u.val, u))
    IN  IF rest >= 0 /\ Len(vals) < n - 1 THEN Signal(s, "ValueError")
        ELSE FoldLeft(LAMBDA t, i : Then(t, LAMBDA u : One(u, i)), s, [i \in 1 .. n |-> i])

Assignment(e, s) ==
    After(e.right, s, LAMBDA r :
        IF ~Is(e.left, "Multivar") THEN Then(AssignTo(e.left, r.val, r), LAMBDA t : With(t, r.val))
        ELSE LET list == AsNewList(r.val, r.heap)
             IN  IF list.k = "Error" THEN Signal(r, list.error)
                 ELSE AssignEach(e.left.vars, e.left.rest_index, list.vals, r))

Plain == "++=" :> "++" @@ "^=" :> "^" @@ "+=" :> "+" @@ "-=" :> "-" @@ "/=" :> "/"
         @@ "*=" :> "*" @@ "%=" :> "%"
Compound(e, s) ==
    After(e.left, Odd(s, Effects(e.left), "operand evaluated twice"), LAMBDA l :
        After(e.right, l, LAMBDA r :
            Then(Apply(Plain[e.op], l.val, r.val, r), LAMBDA c : AssignTo(e.left, c.val, c))))

BinaryMeaning(e, s) ==
    CASE e.op = "=" -> Assignment(e, s)
      [] is_set_op(e.op) ->
           Compound(e, Odd(s, e.left.k = "UnaryExpr" \/ (Is(e.left, "Variable") /\ e.left.non_local),
                           "value of a compound assignment"))
      [] e.op = "&&" -> After(e.left, s, LAMBDA l : Test(l, LAMBDA t : Do(e.right, t), LAMBDA t : t))
      [] e.op = "||" -> After(e.left, s, LAMBDA l : Test(l, LAMBDA t : t, LAMBDA t : Do(e.right, t)))
      [] e.op = "." -> After(e.left, s, LAMBDA l :
                          Attr(l.val, IF Is(e.right, "Variable") THEN e.right.name ELSE e.right.op, l))
      [] OTHER -> After(e.left, s, LAMBDA l : After(e.right, l, LAMBDA r :
                          Apply(e.op, l.val, r.val, r)))

UnaryMeaning(e, s) ==
    CASE e.op = "::" -> Unassigned(e.expr.name, <<1>>, s)
      [] e.op = "~" -> Do(e.expr, s)
      [] OTHER -> After(e.expr, s, LAMBDA v :
            IF Kind(v.val, v.heap) = "Object" THEN OperatorCall(e.op, v.val, <<>>, v)
            ELSE Give(v, Applied1(e.op, v.val)))

-----------------------------------------------------------------------------
(* Functions and classes *)

InClass(s) == Owner(Current(s), s).k = "Class"

\* In a class its constructors have its name, that still stands for the class as a
\* type.
AsType(v, s) ==
    LET name == s.heap[Funs(v, s)[1]].name
        IsClass(id) == LET place == Found(name, <<id>>, s)
                       IN  place # <<>> /\ Kind(s.scopes[place[1]].names[name], s.heap) = "Class"
        ids == SelectSeq(Inner(s), IsClass)
    IN  CASE Funs(v, s) = <<>> -> v
          [] Funs(v, s) # <<>> /\ ids = <<>> -> None
          [] OTHER -> s.scopes[Found(name, ids, s)[1]].names[name]

\* The default values and types of the arguments.
Parameters(args, s) ==
    LET One(a, arg) ==
            LET default == All(IF Is(arg.default, "None") THEN <<>> ELSE <<arg.default>>, a.s)
                given == All(IF arg.vararg THEN <<>> ELSE arg.types, default.s)
                types == [i \in DOMAIN given.vals |-> AsType(given.vals[i], given.s)]
                wrong == \E i \in DOMAIN types :
                            Kind(types[i], given.s.heap) \notin {"Class", "Type", "Enum"}
                t == Odd(given.s, \E i \in DOMAIN types : Is(types[i], "None"), "function as a type")
            IN  IF ~Now(a.s) THEN a
                ELSE [s |-> IF Now(t) /\ wrong THEN Signal(t, "NameError") ELSE t,
                      params |-> Append(a.params, [name |-> arg.name, vararg |-> arg.vararg,
                                    default |-> IF default.vals = <<>> THEN None
                                                ELSE default.vals[1],
                                    types |-> ToSet(types)])]
    IN  FoldLeft(One, [s |-> s, params |-> <<>>], args)

SameParams(f, g) ==
    /\ Len(f.args) = Len(g.args)
    /\ \A i \in DOMAIN f.args : /\ f.args[i].vararg = g.args[i].vararg
                                /\ f.args[i].types = g.args[i].types

\* A function is declared where its name is: with the name of another it is one
\* of two to choose from, and takes the place of one that differs in names only.
HidesOuter(name, s) ==
    LET current == Current(s)
        outer == Found(name, IF IsFun(current, s) THEN Owner(current, s).closures ELSE <<>>, s)
    IN  \/ outer # <<>> /\ Funs(s.scopes[outer[1]].names[name], s) # <<>>
        \/ IsFun(current, s) /\ Owner(current, s).name = name
Joined(name, fun, others, s) ==
    LET made == [s EXCEPT !.heap = Append(@, fun)]
        new == Len(made.heap)
    IN  IF others = <<>> THEN Bind(name, Ref(new), Current(s), made)
        ELSE Bind(name, Ref(new + 1), Current(s),
                  [made EXCEPT !.heap = Append(@, FunValueList(Append(others, new)))])
DeclaredWith(name, params, body, s) ==
    LET class == IF InClass(s) THEN s.scopes[Current(s)].owner ELSE 0
        this == [name |-> "this", vararg |-> FALSE, default |-> None, types |-> {}]
        fun == FunValue(name, IF class # 0 THEN Append(params, this) ELSE params, body,
                        Reverse(Tail(s.frames)), class)
        names == s.scopes[Current(s)].names
        before == IF name \in DOMAIN names THEN Reverse(Funs(names[name], s)) ELSE <<>>
    IN  Joined(name, fun, SelectSeq(before, LAMBDA f : ~SameParams(s.heap[f], fun)),
               Odd(s, name \notin DOMAIN names /\ HidesOuter(name, s), "function of an outer one's name"))
Declared(e, body, s) ==
    LET Declare(a) == Then(a.s, LAMBDA t : DeclaredWith(e.name, a.params, body, t))
    IN  Declare(Parameters(e.args, s))

\* The names bound by a body are attributes of the value that it belongs to.
InScope(id, body, s) ==
    LET done == Run(body, [s EXCEPT !.frames = Append(@, id)]) IN [done EXCEPT !.frames = Front(@)]
Built(e, value, s) ==
    LET new == Ref(Len(s.heap) + 1)
        made == [s EXCEPT !.heap = Append(@, value), !.scopes = Append(@, Scope(new.ref))]
    IN  InScope(Len(s.scopes) + 1, e.body, Bind(e.name, new, Current(s), made))

ClassMeaning(e, s) ==
    LET a == All(e.parents, s)
        classes == \A i \in DOMAIN a.vals : Kind(a.vals[i], a.s.heap) = "Class"
        twice == \E i, j \in DOMAIN a.vals : i < j /\ a.vals[i] = a.vals[j]
        Parents == [i \in DOMAIN a.vals |-> a.vals[i].ref]
    IN  Then(Odd(a.s, ~classes, "parent that is no class"), LAMBDA t :
             IF ~classes \/ twice THEN Signal(t, "TypeError")
             ELSE Built(e, ClassValue(e.name, Len(t.scopes) + 1, Parents), t))

\* A space that is there is gone on with.
SpaceMeaning(e, s) ==
    LET names == s.scopes[Current(s)].names
        place == Found(e.name, <<Current(s)>>, s)
        there == place # <<>> /\ Kind(s.scopes[place[1]].names[e.name], s.heap) = "Space"
        t == Odd(s, there /\ e.name \notin DOMAIN names, "space of another function")
        done == IF there THEN InScope(Pointee(s.scopes[place[1]].names[e.name], s.heap).attrs, e.body, t)
                ELSE Built(e, SpaceValue(e.name, Len(s.scopes) + 1), t)
    IN  Odd(done, done.sig \in {"break", "continue", "return"}, "jump out of a space")

EnumMeaning(e, s) ==
    Bind(e.name, Ref(Len(s.heap) + 1), Current(s),
         [s EXCEPT !.heap = Append(@, EnumTypeValue([i \in DOMAIN e.values |-> e.values[i]]))])

\* this, as an object of what the class of the running method inherits from.
SuperMeaning(s) ==
    LET this == Read("this", Inner(s), "NameError", s)
        funs == SelectSeq(Inner(s), LAMBDA id : IsFun(id, s))
        class == IF funs = <<>> THEN 0 ELSE Owner(funs[1], s).class
    IN  IF Now(this) /\ class # 0 /\ Kind(this.val, s.heap) = "Object"
        THEN Give(s, SuperValue(this.val.ref, class))
        ELSE Signal(Odd(s, TRUE, "super outside of a method"), "NameError")

-----------------------------------------------------------------------------
(* Statements *)

\* The value of an expression that is a statement is written, but for that of an
\* assignment, of ~ and of a lambda.
Quiet(e) == \/ Is(e, "BinaryExpr") /\ is_set_op(e.op)
            \/ Is(e, "UnaryExpr") /\ e.op = "~"
            \/ Is(e, "Lambda")
IsStatement(e) == e.k \in {"If", "While", "DoWhile", "ForLoop", "Switch", "Break", "Continue", "Return",
                           "Function", "Class", "Space", "Enum", "Assert", "Raise", "EndOfFile", "Module",
                           "Body", "Each", "Gather", "Called"}
Perform(e, s) ==
    CASE IsStatement(e) -> Do(e, s)
      [] Is(e, "BinaryExpr") /\ is_set_op(e.op) /\ e.op # "=" -> Compound(e, s)
      [] ~IsStatement(e) /\ Quiet(e) -> Do(e, s)
      [] OTHER -> After(e, s, LAMBDA t : [t EXCEPT !.out = @ \o TextOf(t.val, t.heap)])
Block(body, s) == FoldLeft(LAMBDA t, e : Then(t, LAMBDA u : Perform(e, u)), s, body)

\* A body of a loop is left by break; by continue it is done.
Around_(s, Next_(_)) ==
    CASE s.sig = "break" -> Signal(s, "")
      [] s.sig \in {"", "continue"} -> Next_(Signal(s, ""))
      [] OTHER -> s

While(e, s) ==
    After(e.cond, s, LAMBDA c :
        Test(c, LAMBDA t : Around_(Run(e.body, t), LAMBDA u : Do(e, u)), LAMBDA t : t))
Until(e, s) ==
    Around_(Run(e.body, s), LAMBDA b :
        After(e.cond, b, LAMBDA c : Test(c, LAMBDA t : Do(e, t), LAMBDA t : t)))

\* The variables get the element at place at, as long as there is one.
SetIterator(iterator, v, s) ==
    IF Is(iterator, "Variable") THEN Bind(iterator.name, v, Current(s), s)
    ELSE LET list == AsNewList(v, s.heap)
             n == Len(iterator.vars)
             more == iterator.rest_index < 0 /\ list.k = "List" /\ Len(list.vals) # n
         IN  CASE list.k = "Error" -> Signal(s, list.error)
               [] list.k = "List" /\ more /\ Len(list.vals) < n -> Signal(s, "ValueError")
               [] OTHER -> AssignEach(iterator.vars, iterator.rest_index,
                               IF more THEN SubSeq(list.vals, 1, n) ELSE list.vals,
                               Odd(s, more, "values that no variable of a for takes"))
Each(e, s) ==
    IF e.at > Len(Members(e.list, s.heap)) THEN s
    ELSE Then(SetIterator(e.iterator, Members(e.list, s.heap)[e.at], s), LAMBDA t :
              Around_(Run(e.body, t), LAMBDA u : Do([e EXCEPT !.at = @ + 1], u)))

RECURSIVE Mentions(_, _)
Mentions(e, names) == \/ Is(e, "Variable") /\ e.name \in names
                      \/ \E i \in DOMAIN Children(e) : Mentions(Children(e)[i], names)

\* The code makes the variable nil before it looks at the collection.
ForMeaning(iterator, collection, body, s) ==
    LET vars == IF Is(iterator, "Variable") THEN <<iterator>> ELSE iterator.vars
        names == {vars[i].name : i \in DOMAIN vars}
        bound == names \intersect DOMAIN s.scopes[Current(s)].names # {}
    IN  After(collection, Odd(s, bound /\ Mentions(collection, names), "collection of its variable"),
              LAMBDA c :
              IF ~HasMembers(c.val, c.heap) THEN Signal(c, "TypeError")
              ELSE Do([k |-> "Each", iterator |-> iterator, list |-> c.val, at |-> 1, body |-> body],
                      Odd(c, bound /\ Members(c.val, c.heap) = <<>>, "for over nothing")))

\* A comprehension puts its results in a list: one loop within another.
Gather(e, s) ==
    LET Put_(v, t) == After(v, t, LAMBDA u : [u EXCEPT !.heap[e.list].vals = Append(@, u.val)])
        assign == e.assigns[1]
    IN  CASE e.assigns # <<>> ->
               ForMeaning(assign.left, assign.right, <<[e EXCEPT !.assigns = Tail(@)]>>, s)
          [] e.assigns = <<>> /\ Is(e.of.cond, "None") -> Put_(e.of.result, s)
          [] OTHER -> After(e.of.cond, s, LAMBDA c :
                        Test(c, LAMBDA t : Put_(e.of.result, t),
                                LAMBDA t : IF Is(e.of.otherwise, "None") THEN t
                                           ELSE Put_(e.of.otherwise, t)))
ComprehensionMeaning(e, s) ==
    LET list == Len(s.heap) + 1
    IN  Then(Gather([k |-> "Gather", of |-> e, assigns |-> e.assigns, list |-> list],
                    Give(s, NewList(<<>>))),
             LAMBDA t : With(t, Ref(list)))

\* The values of all cases are evaluated; the first that equals chooses.
SwitchMeaning(e, s) ==
    After(e.expr, s, LAMBDA v :
        LET all == All(FlattenSeq([c \in DOMAIN e.body |-> e.body[c].values]), v)
            Earlier(c) == FoldLeft(LAMBDA n, b : n + Len(b.values), 0, SubSeq(e.body, 1, c - 1))
            Chosen(c) == \E i \in DOMAIN e.body[c].values :
                            Same(all.vals[Earlier(c) + i], v.val, all.s.heap)
            compares == Now(all.s) /\ \E i \in DOMAIN all.vals :
                            /\ ComparesObject(all.vals[i], v.val, all.s.heap)
                            /\ \A j \in 1 .. i - 1 : ~Same(all.vals[j], v.val, all.s.heap)
            equal == {c \in DOMAIN e.body : Chosen(c)}
            default == {c \in DOMAIN e.body : e.body[c].default}
            right == IF equal # {} THEN equal ELSE default
        IN  Then(Raises(all.s, compares, "comparison of objects", "TypeError"), LAMBDA t :
                IF right = {} THEN t
                ELSE Run(e.body[CHOOSE c \in right : \A d \in right : c <= d].body, t)))

IfMeaning(e, s) ==
    After(e.cond, s, LAMBDA c :
        Test(c, LAMBDA t : Run(e.body, t),
                LAMBDA t : IF Is(e.else, "None") THEN t ELSE Run(e.else.body, t)))

AssertMeaning(e, s) ==
    After(e.cond, s, LAMBDA c :
        Then(IF Is(e.msg, "None") THEN c ELSE Do(e.msg, c), LAMBDA m :
             Test(With(m, c.val), LAMBDA t : t, LAMBDA t : Signal(t, "AssertionError"))))

-----------------------------------------------------------------------------

StatementMeaning(e, s) ==
    CASE e.k \in {"Body", "Module"} -> Block(e.body, s)
      [] e.k = "If" -> IfMeaning(e, s)
      [] e.k = "While" -> While(e, s)
      [] e.k = "DoWhile" -> Until(e, s)
      [] e.k = "ForLoop" -> ForMeaning(e.iterator, e.collection, e.body, s)
      [] e.k = "Each" -> Each(e, s)
      [] e.k = "Gather" -> Gather(e, s)
      [] e.k = "Called" -> CalledMeaning(e.fun, e.given, s)
      [] e.k = "Switch" -> SwitchMeaning(e, s)
      [] e.k = "Break" -> Signal(s, "break")
      [] e.k = "Continue" -> Signal(s, "continue")
      [] e.k = "Return" -> After(e.expr, s, LAMBDA t : Signal(t, "return"))
      [] e.k = "Function" -> Declared(e, e.body, s)
      [] e.k = "Class" -> ClassMeaning(e, s)
      [] e.k = "Space" -> SpaceMeaning(e, s)
      [] e.k = "Enum" -> EnumMeaning(e, s)
      [] e.k = "Assert" -> AssertMeaning(e, s)
      [] e.k = "Raise" -> After(e.expr, s, LAMBDA t : Signal(t, "raised"))
      [] e.k = "EndOfFile" -> Signal(s, "end")

ExpressionMeaning(e, s) ==
    CASE is_constant(e) -> With(s, e)
      [] e.k = "Variable" -> CASE ~e.non_local -> Unassigned(e.name, Inner(s), s)
                               [] e.non_local /\ InGlobal(s) -> Signal(s, "SyntaxError")
                               [] OTHER -> Unassigned(e.name, Outer(s), s)
      [] e.k = "This" -> Read("this", Inner(s), "NameError", s)
      [] e.k = "Super" -> SuperMeaning(s)
      [] e.k = "List" -> LET a == All(e.vals, s)
                         IN  Then(a.s, LAMBDA t : Give(t, NewList(a.vals)))
      [] e.k = "Comprehension" -> ComprehensionMeaning(e, s)
      [] e.k = "BinaryExpr" -> BinaryMeaning(e, s)
      [] e.k = "UnaryExpr" -> UnaryMeaning(e, s)
      [] e.k = "Call" -> CallMeaning(e, s)
      [] e.k = "TernaryIf" -> After(e.cond, s, LAMBDA c :
                                Test(c, LAMBDA t : Do(e.yes, t), LAMBDA t : Do(e.no, t)))
      [] e.k = "Lambda" -> Declared(e, <<ReturnOf(e.body)>>, s)

Do(e, s) == IF IsStatement(e) THEN StatementMeaning(e, s) ELSE ExpressionMeaning(e, s)

Meaning(tree) == Do(tree, Start)

-----------------------------------------------------------------------------
(* The rules that a program keeps: those it breaks, below node e that is in *)
(* a loop, in a function, in a constructor (of that function).             *)

ArgumentRules(args) ==
    \A i, j \in DOMAIN args : i < j =>
        /\ args[i].name # args[j].name
        /\ args[i].vararg => ~Is(args[j].default, "None")
        /\ ~Is(args[i].default, "None") => ~Is(args[j].default, "None") \/ args[j].vararg
CallRules(args) ==
    LET Name(i) == IF Is(args[i], "BinaryExpr") /\ args[i].op = "=" THEN args[i].left ELSE None
    IN  \A i, j \in DOMAIN args :
            /\ Name(i).k \in {"None", "Variable", "This"}
            /\ i # j => Is(Name(i), "None") \/ Name(i) # Name(j)

In(loop, fun, constructor, class) ==
    [loop |-> loop, fun |-> fun, constructor |-> constructor, class |-> class]
RECURSIVE Legal(_, _)
Legal(e, in_) ==
    LET constructor == Is(e, "Function") /\ in_.class = e.name
        Below == CASE e.k \in {"Function", "Lambda"} -> In(FALSE, TRUE, constructor, "")
                   [] e.k = "Class" -> In(FALSE, FALSE, FALSE, e.name)
                   [] e.k \in {"While", "DoWhile", "ForLoop"} -> [in_ EXCEPT !.loop = TRUE, !.class = ""]
                   [] OTHER -> [in_ EXCEPT !.class = ""]
    IN  /\ e.k \in {"Break", "Continue"} => in_.loop
        /\ Is(e, "Return") => in_.fun /\ (in_.constructor => Is(e.expr, "Nil"))
        /\ e.k \in {"Function", "Lambda"} => ArgumentRules(e.args)
        /\ Is(e, "Call") => CallRules(e.args)
        /\ Is(e, "Function") /\ is_operator_fun(e.name) => in_.class # ""
        /\ \A i \in DOMAIN Children(e) : Legal(Children(e)[i], Below)
IsLegal(tree) == Legal(tree, In(FALSE, FALSE, FALSE, ""))

\* What the analyzers are known to miss: functions and classes in a loop, in a
\* function, in a constructor, jumps out of a space, and code that is removed before
\* it is looked at.
RECURSIVE Missed(_, _)
Missed(e, around) ==
    LET Dead(body) == \E i \in 1 .. Len(body) - 1 : body[i].k \in {"Return", "Break", "Continue"}
        Below == CASE e.k \in {"Function", "Lambda"} -> around \ {"Space", "Space in function"}
                   [] e.k \in Loops -> around \ {"Space"}
                   [] e.k = "Space" -> around \union {"Space in function"}
                   [] OTHER -> around
    IN  \/ e.k \in {"Function", "Class"} /\ around \intersect (Loops \union {"Function"}) # {}
        \/ e.k \in {"Break", "Continue"} /\ "Space" \in around
        \/ e.k = "Return" /\ "Space in function" \in around
        \/ "body" \in DOMAIN e /\ e.k # "Lambda" /\ Dead(e.body)
        \/ e.k \in {"If", "While"} /\ Is(e.cond, "Bool")
        \/ \E i \in DOMAIN Children(e) : Missed(Children(e)[i], Below \union {e.k})
=============================================================================
