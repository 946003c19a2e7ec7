------------------------------- MODULE Values -------------------------------
(***************************************************************************)
(* The values of a running program.  A literal is its own value; any other *)
(* value is a place on the heap, where a record tells what is there.  The  *)
(* result of an operation may be a list that is not on the heap yet, or an *)
(* error to raise.                                                         *)
(***************************************************************************)
EXTENDS Passes, FiniteSets

Ref(n) == [k |-> "Ref", ref |-> n]
Error(kind) == [k |-> "Error", error |-> kind]
Type(name) == [k |-> "Type", type |-> name]

Param(name) == [name |-> name, default |-> None, vararg |-> FALSE, types |-> {}]
FunValue(name, args, body, closures, class) ==
    [k |-> "Fun", name |-> name, args |-> args, body |-> body,
     closures |-> closures, class |-> class]
FunValueList(funs) == [k |-> "FunList", funs |-> funs]
ClassValue(name, attrs, supers) ==
    [k |-> "Class", name |-> name, attrs |-> attrs, supers |-> supers]
ObjectValue(class, attrs) == [k |-> "Object", class |-> class, attrs |-> attrs]
SuperValue(instance, class) == [k |-> "Super", instance |-> instance, class |-> class]
SpaceValue(name, attrs) == [k |-> "Space", name |-> name, attrs |-> attrs]
EnumTypeValue(names) == [k |-> "Enum", names |-> names]
EnumValue(type, name) == [k |-> "EnumValue", type |-> type, name |-> name]
ListIterator(list) == [k |-> "Iter", list |-> list, at |-> 0]

Pointee(v, heap) == IF v.k = "Ref" THEN heap[v.ref] ELSE v
Kind(v, heap) == Pointee(v, heap).k
Vals(v, heap) == Pointee(v, heap).vals
\* get_type(): the type of a literal has a name, that of an object is its class.
get_type(v, heap) ==
    LET p == Pointee(v, heap)
    IN  CASE p.k = "Object" -> Ref(p.class) [] p.k = "EnumValue" -> Ref(p.type)
          [] p.k = "Fun" -> Type("Function")
          [] OTHER -> Type(p.k)

\* The classes a class inherits from, in the order in which they are looked at.
RECURSIVE get_all_supers(_, _)
get_all_supers(class, heap) ==
    LET supers == heap[class].supers
    IN  supers \o FlattenSeq([i \in DOMAIN supers |-> get_all_supers(supers[i], heap)])

\* A value of one of the types, or of a class that inherits from one of them.
is_type_eq_or_subtype(v, types, heap) ==
    LET type == get_type(v, heap)
        supers == IF Kind(v, heap) = "Object" THEN get_all_supers(type.ref, heap) ELSE <<>>
    IN  type \in types \/ \E i \in DOMAIN supers : Ref(supers[i]) \in types

\* The types that have a name in every program.
Builtin(name) == IF name \in {"Int", "String", "List"} THEN Type(name) ELSE None

-----------------------------------------------------------------------------
\* The outcome of comparisons made one after the other, as long as they yield ~b.
Decided(outcomes, b) ==
    LET ends == {i \in DOMAIN outcomes : outcomes[i] # BoolLiteral(~b)}
    IN  IF ends = {} THEN BoolLiteral(~b)
        ELSE outcomes[CHOOSE i \in ends : \A j \in ends : i <= j]

\* Equality is undefined for an object, but for that it is not nil.
RECURSIVE eq(_, _, _)
eq(a, b, heap) ==
    LET same == Kind(a, heap) = Kind(b, heap)
    IN  CASE Kind(a, heap) = "Object" ->
               IF Is(b, "Nil") THEN BoolLiteral(FALSE) ELSE Error("TypeError")
          [] same /\ Kind(a, heap) = "List" ->
               IF Len(Vals(a, heap)) # Len(Vals(b, heap)) THEN BoolLiteral(FALSE)
               ELSE Decided([i \in DOMAIN Vals(a, heap) |->
                               eq(Vals(a, heap)[i], Vals(b, heap)[i], heap)], FALSE)
          [] same /\ Kind(a, heap) # "List" -> BoolLiteral(a = b)
          [] {a.k, b.k} = Numbers -> BoolLiteral(InQuarters(a) = InQuarters(b))
          [] OTHER -> BoolLiteral(FALSE)
neq(a, b, heap) ==
    LET equal == eq(a, b, heap) IN IF Is(equal, "Bool") THEN BoolLiteral(~equal.bool) ELSE equal

\* to_string(); dump() puts quotes around the strings in a list.
RECURSIVE to_string(_, _)
to_string(v, heap) ==
    LET Dumped(e) == IF e.k = "String" THEN <<"\"">> \o e.str \o <<"\"">> ELSE to_string(e, heap)
        Listed(s) == [i \in DOMAIN s |-> IF i = 1 THEN Dumped(s[i]) ELSE <<", ">> \o Dumped(s[i])]
    IN  CASE Kind(v, heap) = "List" -> <<"[">> \o FlattenSeq(Listed(Vals(v, heap))) \o <<"]">>
          [] v.k = "Ref" -> <<"<", Kind(v, heap), ">">>
          [] v.k = "Type" -> <<"<class ", v.type, ">">>
          [] v.k = "EnumValue" -> <<v.name>>
          [] OTHER -> as_string(v)

NewList(vals) == [k |-> "List", vals |-> vals]
Repeated(s, n) == FlattenSeq([i \in 1 .. n |-> s])

\* The elements of what List() can make a list of.
Iterable(v, heap) == Kind(v, heap) \in {"List", "String"}
Elements(v, heap) ==
    IF v.k = "String" THEN [i \in DOMAIN v.str |-> StringLiteral(<<v.str[i]>>)] ELSE Vals(v, heap)
AsList(v, heap) == IF Iterable(v, heap) THEN NewList(Elements(v, heap)) ELSE Error("TypeError")

-----------------------------------------------------------------------------
(* Operators.  Those that a class defines for its objects are calls: see    *)
(* Machine.  A class that defines comparisons is not modelled.             *)

Ordered(op, a, b) ==
    CASE op = ">" -> BoolLiteral(a > b) [] op = "<" -> BoolLiteral(a < b)
      [] op = ">=" -> BoolLiteral(a >= b) [] op = "<=" -> BoolLiteral(a <= b)
IsOrder(op) == op \in {">", "<", ">=", "<="}
Divides(op) == op \in {"/", "%"}

OfInts(op, a, b) ==
    CASE IsOrder(op) -> Ordered(op, a, b)
      [] Divides(op) /\ b = 0 -> Error("DivisionByZeroError")
      [] op = "+" -> IntLiteral(a + b) [] op = "-" -> IntLiteral(a - b)
      [] op = "*" -> IntLiteral(a * b) [] op = "^" -> IntLiteral(IntPower(a, b))
      [] op = "/" -> IntLiteral(Quotient(a, b)) [] op = "%" -> IntLiteral(Remainder(a, b))
      [] op = "and" -> IntLiteral(a & b) [] op = "or" -> IntLiteral(a | b)
      [] op = "xor" -> IntLiteral(a ^^ b)

OfFloats(op, a, b) ==
    CASE IsOrder(op) -> Ordered(op, a, b)
      [] Divides(op) /\ b = 0 -> Error("DivisionByZeroError")
      [] op = "+" -> FloatLiteral(a + b) [] op = "-" -> FloatLiteral(a - b)
      [] op = "*" -> FloatLiteral(Quotient(a * b, 4))
      [] op = "/" -> FloatLiteral(Quotient(4 * a, b))
      [] op = "%" -> FloatLiteral(Remainder(a, b))
      [] OTHER -> Error("TypeError")

OfBools(op, a, b) ==
    CASE op = "and" -> BoolLiteral(a /\ b) [] op = "or" -> BoolLiteral(a \/ b)
      [] op = "xor" -> BoolLiteral(a # b) [] OTHER -> Error("TypeError")

\* The place of an index in a sequence, 0 if it is out of bounds.
Place(s, i) == CASE i >= 0 /\ i < Len(s) -> i + 1
                 [] i < 0 /\ -i <= Len(s) -> Len(s) + i + 1
                 [] OTHER -> 0
\* An index that is a range is left out.
subsc(s, i, heap) ==
    CASE Kind(s, heap) \notin {"String", "List"} \/ i.k # "Int" -> Error("TypeError")
      [] s.k = "String" -> IF is_oob(s.str, i.int) THEN Error("IndexError")
                           ELSE StringLiteral(str_index(s.str, i.int))
      [] Place(Vals(s, heap), i.int) = 0 -> Error("IndexError")
      [] OTHER -> Vals(s, heap)[Place(Vals(s, heap), i.int)]

in(a, b, heap) ==
    CASE a.k = "String" /\ b.k = "String" -> BoolLiteral(Within(a.str, b.str))
      [] Kind(b, heap) = "List" ->
            Decided([i \in DOMAIN Vals(b, heap) |-> eq(Vals(b, heap)[i], a, heap)], TRUE)
      [] OTHER -> Error("TypeError")

Operated(op, a, b, heap) ==
    LET ka == Kind(a, heap)
        kb == Kind(b, heap)
    IN  CASE op = "++" -> StringLiteral(to_string(a, heap) \o to_string(b, heap))
          [] op = "==" -> eq(a, b, heap)
          [] op = "!=" -> neq(a, b, heap)
          [] op = "[]" -> subsc(a, b, heap)
          [] op = "in" -> in(a, b, heap)
          [] ka = "Int" /\ kb = "Int" -> OfInts(op, a.int, b.int)
          [] ka \in Numbers /\ kb \in Numbers -> OfFloats(op, InQuarters(a), InQuarters(b))
          [] ka = "Bool" /\ kb = "Bool" -> OfBools(op, a.bool, b.bool)
          [] ka = "String" /\ kb = "String" /\ IsOrder(op) -> Ordered(op, Order(a.str, b.str), 0)
          [] ka = "String" /\ kb = "Int" /\ op = "*" -> StringLiteral(Repeated(a.str, b.int))
          [] ka = "List" /\ kb = "Int" /\ op = "*" -> NewList(Repeated(Vals(a, heap), b.int))
          [] ka = "List" /\ kb = "List" /\ op = "+" -> NewList(Vals(a, heap) \o Vals(b, heap))
          [] OTHER -> Error("TypeError")

\* Not of an integer is that of its bits.
OperatedOnOne(op, v) ==
    CASE op = "-" /\ v.k = "Int" -> IntLiteral(-v.int)
      [] op = "-" /\ v.k = "Float" -> FloatLiteral(-v.float)
      [] op = "not" /\ v.k = "Int" -> IntLiteral(-v.int - 1)
      [] op = "not" /\ v.k = "Bool" -> BoolLiteral(~v.bool)
      [] OTHER -> Error("TypeError")

-----------------------------------------------------------------------------
(* The values of several variables *)

Rest(vals, from, to) == NewList(SubSeq(vals, from, to))

\* subsc_rest: n variables, that of index rest (from 0) takes what the others
\* leave; without one (-1) what is too much is left out.
Spread(vals, n, rest) ==
    LET most == Len(vals) - n
    IN  CASE Len(vals) < n - (IF rest >= 0 THEN 1 ELSE 0) -> <<Error("ValueError")>>
          [] rest < 0 -> SubSeq(vals, 1, n)
          [] OTHER -> SubSeq(vals, 1, rest) \o <<Rest(vals, rest + 1, rest + most + 1)>>
                      \o SubSeq(vals, rest + most + 2, Len(vals))
=============================================================================
