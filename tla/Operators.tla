----------------------------- MODULE Operators ------------------------------
(***************************************************************************)
(* What the operators of moss mean, from                                   *)
(* docs/language-reference/4-types-values-and-operators.md (the operators  *)
(* that each class lists, and those that every class has) and the tests.   *)
(* Only the representation of values is that of Values.                    *)
(***************************************************************************)
EXTENDS Values

TypeError == Error("TypeError")
IsNumber(v) == v.k \in {"Int", "Float"}
SizeOf(n) == IF n < 0 THEN -n ELSE n

-----------------------------------------------------------------------------
(* Conversion to string *)

\* The digits of n, of which there are at least one.
Decimal(n) ==
    LET length == CHOOSE d \in 1 .. 9 : n < 10 ^ d /\ (d = 1 \/ n >= 10 ^ (d - 1))
    IN  [i \in 1 .. length |-> ToString((n \div 10 ^ (length - i)) % 10)]
Minus(n) == IF n < 0 THEN <<"-">> ELSE <<>>

RECURSIVE TextOf(_, _)
\* In a list strings are in quotes.
TextInList(v, heap) ==
    IF Is(v, "String") THEN <<"\"">> \o v.str \o <<"\"">> ELSE TextOf(v, heap)
TextOf(v, heap) ==
    CASE v.k = "Int" -> Minus(v.int) \o Decimal(SizeOf(v.int))
      [] v.k = "Float" -> Minus(v.float) \o Decimal(SizeOf(v.float) \div 4) \o <<".">>
                          \o Tail(Decimal(1000000 + 250000 * (SizeOf(v.float) % 4)))
      [] v.k = "Bool" -> IF v.bool THEN <<"t", "r", "u", "e">> ELSE <<"f", "a", "l", "s", "e">>
      [] v.k = "Nil" -> <<"n", "i", "l">>
      [] v.k = "String" -> v.str
      [] v.k = "EnumValue" -> <<v.name>>
      [] v.k = "Type" -> <<"<class ", v.type, ">">>
      [] v.k = "Ref" /\ Kind(v, heap) = "List" ->
           <<"[">> \o FlattenSeq([i \in DOMAIN Vals(v, heap) |->
                          (IF i = 1 THEN <<>> ELSE <<", ">>) \o TextInList(Vals(v, heap)[i], heap)])
           \o <<"]">>
      [] OTHER -> <<"<", Kind(v, heap), ">">>

-----------------------------------------------------------------------------
(* Equality, that every class has *)

\* A number in quarters, the unit of a Float.
Size4(v) == IF v.k = "Int" THEN 4 * v.int ELSE v.float

RECURSIVE Same(_, _, _)
Same(a, b, heap) ==
    CASE IsNumber(a) /\ IsNumber(b) -> Size4(a) = Size4(b)
      [] Kind(a, heap) = "List" /\ Kind(b, heap) = "List" ->
           LET s == Vals(a, heap)
               t == Vals(b, heap)
           IN  Len(s) = Len(t) /\ \A i \in DOMAIN s : Same(s[i], t[i], heap)
      [] OTHER -> a = b

\* The code compares an object that has no operator == with something else than nil.
RECURSIVE ComparesObject(_, _, _)
ComparesObject(a, b, heap) ==
    \/ Kind(a, heap) = "Object" /\ ~Is(b, "Nil")
    \/ /\ Kind(a, heap) = "List" /\ Kind(b, heap) = "List"
       /\ LET s == Vals(a, heap)
              t == Vals(b, heap)
          IN  /\ Len(s) = Len(t)
              /\ \E i \in DOMAIN s : /\ ComparesObject(s[i], t[i], heap)
                                     /\ \A j \in 1 .. i - 1 : Same(s[j], t[j], heap)

-----------------------------------------------------------------------------
(* Numbers *)

\* The whole number of times that b goes into a, towards zero.
Times(a, b) ==
    CHOOSE q \in -SizeOf(a) .. SizeOf(a) :
        LET rest == a - (q * b)
        IN  SizeOf(rest) < SizeOf(b) /\ (rest = 0 \/ (rest < 0 <=> a < 0))
RaisedTo(a, n) ==
    LET power[i \in 0 .. SizeOf(n)] == IF i = 0 THEN 1 ELSE a * power[i - 1]
    IN  IF n >= 0 THEN power[n] ELSE Times(1, power[-n])

\* Of two integers of 16 bits, bit by bit.
Bit(n, i) == (n \div 2 ^ i) % 2 = 1
OfBits(B(_)) ==
    LET Value(i) == IF ~B(i) THEN 0 ELSE IF i = 15 THEN -(2 ^ 15) ELSE 2 ^ i
    IN  FoldLeft(LAMBDA sum, i : sum + Value(i - 1), 0, [i \in 1 .. 16 |-> i])

Ranked(op, less, equal) ==
    BoolLiteral(CASE op = "<" -> less [] op = "<=" -> less \/ equal
                  [] op = ">" -> ~less /\ ~equal [] op = ">=" -> ~less)
Ranks == {"<", "<=", ">", ">="}

OnInts(op, a, b) ==
    CASE op = "+" -> IntLiteral(a + b) [] op = "-" -> IntLiteral(a - b)
      [] op = "*" -> IntLiteral(a * b) [] op = "^" -> IntLiteral(RaisedTo(a, b))
      [] op \in {"/", "%"} /\ b = 0 -> Error("DivisionByZeroError")
      [] op = "/" /\ b # 0 -> IntLiteral(Times(a, b))
      [] op = "%" /\ b # 0 -> IntLiteral(a - (b * Times(a, b)))
      [] op = "and" -> IntLiteral(OfBits(LAMBDA i : Bit(a, i) /\ Bit(b, i)))
      [] op = "or" -> IntLiteral(OfBits(LAMBDA i : Bit(a, i) \/ Bit(b, i)))
      [] op = "xor" -> IntLiteral(OfBits(LAMBDA i : Bit(a, i) # Bit(b, i)))
      [] op \in Ranks -> Ranked(op, a < b, a = b)
      [] OTHER -> TypeError

\* At least one is a Float; both in quarters.
OnFloats(op, a, b) ==
    CASE op = "+" -> FloatLiteral(a + b) [] op = "-" -> FloatLiteral(a - b)
      [] op = "*" -> FloatLiteral(Times(a * b, 4))
      [] op \in {"/", "%"} /\ b = 0 -> Error("DivisionByZeroError")
      [] op = "/" /\ b # 0 -> FloatLiteral(Times(4 * a, b))
      [] op = "%" /\ b # 0 -> FloatLiteral(a - (b * Times(a, b)))
      [] op \in Ranks -> Ranked(op, a < b, a = b)
      [] OTHER -> TypeError

-----------------------------------------------------------------------------
(* Strings and lists *)

Letter(c) == CHOOSE i \in DOMAIN Alphabet : Alphabet[i] = c
\* s is a part of t before its end, or is less at the first letter that differs.
Before(s, t) ==
    \E n \in 0 .. Len(s) :
        /\ n < Len(t) /\ SubSeq(s, 1, n) = SubSeq(t, 1, n)
        /\ n = Len(s) \/ Letter(s[n + 1]) < Letter(t[n + 1])
PartOf(s, t) ==
    \E i \in 0 .. Len(t) : \A k \in DOMAIN s : i + k \in DOMAIN t /\ t[i + k] = s[k]
Copies(s, n) == [i \in 1 .. (IF n < 0 THEN 0 ELSE n * Len(s)) |-> s[((i - 1) % Len(s)) + 1]]

\* What can be iterated, and an index into it: from 0, or from the end with -1.
HasMembers(v, heap) == Kind(v, heap) \in {"List", "String"}
Members(v, heap) ==
    IF Is(v, "String") THEN [i \in DOMAIN v.str |-> StringLiteral(<<v.str[i]>>)]
    ELSE Vals(v, heap)
AsNewList(v, heap) == IF HasMembers(v, heap) THEN NewList(Members(v, heap)) ELSE TypeError
IsIndex(i, s) == i \in -Len(s) .. Len(s) - 1
AtIndex(i, s) == IF i < 0 THEN Len(s) + i + 1 ELSE i + 1

Subscript(v, i, heap) ==
    CASE ~HasMembers(v, heap) \/ ~Is(i, "Int") -> TypeError
      [] OTHER -> LET s == Members(v, heap)
                  IN  IF IsIndex(i.int, s) THEN s[AtIndex(i.int, s)] ELSE Error("IndexError")

IsIn(a, b, heap) ==
    CASE Is(b, "String") -> IF Is(a, "String") THEN BoolLiteral(PartOf(a.str, b.str)) ELSE TypeError
      [] Kind(b, heap) = "List" ->
           BoolLiteral(\E i \in DOMAIN Vals(b, heap) : Same(Vals(b, heap)[i], a, heap))
      [] OTHER -> TypeError

-----------------------------------------------------------------------------
(* The operators, but for those that a class defines for its objects.      *)

EveryClass == {"++", "==", "!="}
OfEveryClass(op, a, b, heap) ==
    CASE op = "++" -> StringLiteral(TextOf(a, heap) \o TextOf(b, heap))
      [] op = "==" -> BoolLiteral(Same(a, b, heap))
      [] op = "!=" -> BoolLiteral(~Same(a, b, heap))

OnBools(op, a, b) ==
    CASE op = "and" -> BoolLiteral(a /\ b) [] op = "or" -> BoolLiteral(a \/ b)
      [] op = "xor" -> BoolLiteral(a # b) [] OTHER -> TypeError
OnStrings(op, a, b) ==
    CASE op = "+" -> StringLiteral(a \o b)
      [] op \in Ranks -> Ranked(op, Before(a, b), a = b) [] OTHER -> TypeError

\* String * Int and List * Int are in tests/expressions.ms:78 and :91 only.
Applied2(op, a, b, heap) ==
    LET Both(kind) == Kind(a, heap) = kind /\ Kind(b, heap) = kind
    IN  CASE op \in EveryClass -> OfEveryClass(op, a, b, heap)
          [] op = "[]" -> Subscript(a, b, heap)
          [] op = "in" -> IsIn(a, b, heap)
          [] op \notin EveryClass \union {"[]", "in"} ->
               CASE Both("Int") -> OnInts(op, a.int, b.int)
                 [] IsNumber(a) /\ IsNumber(b) /\ ~Both("Int") -> OnFloats(op, Size4(a), Size4(b))
                 [] Both("Bool") -> OnBools(op, a.bool, b.bool)
                 [] Both("String") -> OnStrings(op, a.str, b.str)
                 [] Both("List") /\ op = "+" -> NewList(Vals(a, heap) \o Vals(b, heap))
                 [] Is(a, "String") /\ Is(b, "Int") /\ op = "*" -> StringLiteral(Copies(a.str, b.int))
                 [] Kind(a, heap) = "List" /\ Is(b, "Int") /\ op = "*" ->
                      NewList(Copies(Vals(a, heap), b.int))
                 [] OTHER -> TypeError

Applied1(op, v) ==
    CASE op = "-" /\ Is(v, "Int") -> IntLiteral(0 - v.int)
      [] op = "-" /\ Is(v, "Float") -> FloatLiteral(0 - v.float)
      [] op = "not" /\ Is(v, "Bool") -> BoolLiteral(~v.bool)
      [] op = "not" /\ Is(v, "Int") -> IntLiteral(OfBits(LAMBDA i : ~Bit(v.int, i)))
      [] OTHER -> TypeError

-----------------------------------------------------------------------------
(* Types *)

\* A class inherits from its parents, and from what they inherit.
RECURSIVE Ancestors(_, _)
Ancestors(class, heap) ==
    LET parents == heap[class].supers
    IN  ToSet(parents) \union UNION {Ancestors(p, heap) : p \in ToSet(parents)}

HasType(v, types, heap) ==
    CASE Kind(v, heap) = "Object" ->
           LET class == Pointee(v, heap).class
           IN  \E c \in {class} \union Ancestors(class, heap) : Ref(c) \in types
      [] Is(v, "EnumValue") -> Ref(v.type) \in types
      [] OTHER -> Type(Kind(v, heap)) \in types
=============================================================================
