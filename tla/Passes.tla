------------------------------- MODULE Passes -------------------------------
(***************************************************************************)
(* What happens to the tree between the parser and the generator: the pass *)
(* manager walks it once, and shows every node to three analyzers, that    *)
(* refuse programs, and to three transformations, that rewrite it.         *)
(*                                                                         *)
(* An integer literal holds an integer, a string literal a sequence of     *)
(* characters, a float literal a number of quarters.                       *)
(*                                                                         *)
(* A walk w is [node |-> what became of the node that was visited last,    *)
(* raised |-> the diagnostic that refused the program or "",               *)
(* broken |-> what went wrong in the compiler itself or "",                *)
(* in_constructor, has_main |-> the members of the analyzers].             *)
(***************************************************************************)
EXTENDS Syntax, Bitwise, TLC

Removed == [k |-> "Removed"]
\* in_constructor is not initialised.
StartsOfWalk == [node: {None}, raised: {""}, broken: {""},
                 in_constructor: BOOLEAN, has_main: {FALSE}]

Raised(w, diag) == [w EXCEPT !.raised = diag]
Broken(w, how) == [w EXCEPT !.broken = how]
Ended(w) == w.raised # "" \/ w.broken # ""

\* The first of the checks <<holds, diagnostic>> that does not hold.
Checked(w, checks) ==
    LET failing == {i \in DOMAIN checks : ~checks[i][1]}
    IN  IF failing = {} THEN w
        ELSE Raised(w, checks[CHOOSE i \in failing : \A j \in failing : i <= j][2])

-----------------------------------------------------------------------------
(* The nodes around a node, innermost first: the chain of parent links.  A *)
(* freed node ends it: what the code reads there is undefined.             *)

Freed == [k |-> "Freed"]

\* The links that are set for the children of a node: a module does not set any.
Around(node, above) == IF node.k = "Module" THEN <<>> ELSE <<node>> \o above

\* get_outter_ir(kinds): the closest node around of one of the kinds.
get_outter_ir(above, kinds) ==
    LET found == {i \in DOMAIN above : above[i].k \in kinds \union {"Freed"}}
    IN  IF found = {} THEN None
        ELSE above[CHOOSE i \in found : \A j \in found : i <= j]

has_annotation(node, name) == \E i \in DOMAIN node.annots : node.annots[i].name = name

-----------------------------------------------------------------------------
(* MethodAnalyzer *)

\* The functions of a class are marked when the class is visited.
is_constructor(fun, cls) ==
    \/ fun.name = cls.name
    \/ \E i \in DOMAIN cls.annots : /\ cls.annots[i].name = "internal_bind"
                                   /\ Is(cls.annots[i].value, "String")
                                   /\ cls.annots[i].value.str = fun.name
Marked(cls) ==
    LET Mark(d) ==
            CASE d.k = "Function" ->
                    [d EXCEPT !.method = TRUE, !.constructor = is_constructor(d, cls)]
              [] d.k = "Lambda" -> [d EXCEPT !.method = TRUE]
              [] OTHER -> d
    IN  [cls EXCEPT !.body = [i \in DOMAIN cls.body |-> Mark(cls.body[i])]]

StillInConstructor(node, w) ==
    CASE node.k = "Function" -> [w EXCEPT !.in_constructor = @ \/ node.constructor]
      [] node.k = "Return" ->
            Checked(w, <<<<w.in_constructor => Is(node.expr, "Nil"),
                           "NON_NIL_RETURN_IN_CONSTR">>>>)
      [] OTHER -> w

MethodAnalyzer(node, w) ==
    CASE node.k = "Class" ->
            Checked(w, <<<<\A i \in DOMAIN node.body :
                             Is(node.body[i], "Lambda") => node.body[i].name # node.name,
                           "LAMBDA_CONSTRUCTOR">>>>)
      [] node.k = "Function" -> [w EXCEPT !.in_constructor = node.constructor]
      [] node.k = "Return" ->
            Checked(w, <<<<w.in_constructor => Is(node.expr, "Nil"),
                           "NON_NIL_RETURN_IN_CONSTR">>>>)
      [] OTHER -> w

-----------------------------------------------------------------------------
(* FunctionAnalyzer *)

OperatorFuns == {"[]", "()", "not"} \union BinOps
is_operator_fun(name) == name \in OperatorFuns

ArgumentChecks(args) ==
    FlattenSeq([i \in DOMAIN args |->
        LET a == args[i]
            Before(Test(_)) == \E j \in 1 .. i - 1 : Test(args[j])
        IN  <<<<~Before(LAMBDA b : b.name = a.name), "DUPLICATE_ARG">>,
              <<Before(LAMBDA b : b.vararg) => ~Is(a.default, "None"),
                "NON_DEFAULT_ARG_AFTER_VARARG">>,
              <<Before(LAMBDA b : ~Is(b.default, "None"))
                    => ~Is(a.default, "None") \/ a.vararg,
                "NON_DEFAULT_ARG_AFTER_DEFVAL">>>>])

AnnotatedFunChecks(fun, above, w) ==
    LET converter == has_annotation(fun, "converter")
        generator == has_annotation(fun, "generator")
        main == has_annotation(fun, "main")
    IN  <<<<converter => ~generator, "INCOMPATIBLE_ANNOTS">>,
          <<converter => Len(fun.args) = 1, "CONVERTER_INCORR_ARGS">>,
          <<generator => Len(fun.args) = 1, "GENERATOR_INCORR_ARGS">>,
          <<main => above = <<>>, "NON_GLOBAL_MAIN">>,
          <<main => ~w.has_main, "MULTIPLE_MAINS">>,
          <<main => ~generator /\ ~converter, "INCOMPATIBLE_ANNOTS">>,
          <<main => Len(fun.args) = 0, "MAIN_INCORR_ARGS">>>>

AnalyzedFunction(node, above, w) ==
    LET checked ==
            Checked(w, ArgumentChecks(node.args) \o
                <<<<is_operator_fun(node.name) => node.method, "OP_FUN_OUTSIDE_CLASS">>,
                  <<has_annotation(node, "converter") => ~node.method,
                    "DISALLOWED_METHOD_ANNOT">>,
                  <<has_annotation(node, "generator") => ~node.method,
                    "DISALLOWED_METHOD_ANNOT">>>>
                \o AnnotatedFunChecks(node, above, w))
    IN  IF has_annotation(node, "main") /\ ~Ended(checked)
        THEN [checked EXCEPT !.has_main = TRUE] ELSE checked

AnalyzedLambda(node, above, w) ==
    Checked(w, ArgumentChecks(node.args) \o
        <<<<is_operator_fun(node.name) => node.method, "OP_FUN_OUTSIDE_CLASS">>,
          <<~has_annotation(node, "main"), "LAMBDA_MAIN">>>>
        \o AnnotatedFunChecks(node, above, w))

AnalyzedReturn(node, above, w) ==
    LET fun == IF Is(get_outter_ir(above, {"Function"}), "None")
               THEN get_outter_ir(above, {"Lambda"})
               ELSE get_outter_ir(above, {"Function"})
    IN  CASE fun.k = "Freed" -> Broken(w, "a freed node is read")
          [] fun.k = "None" -> Raised(w, "RETURN_OUTSIDE_FUN")
          [] OTHER ->
               Checked(w, <<<<has_annotation(fun, "generator") => Is(node.expr, "Nil"),
                              "RETURN_IN_GENERATOR">>,
                            <<has_annotation(fun, "main") => Is(node.expr, "Nil"),
                              "RETURN_IN_MAIN">>>>)

FunctionAnalyzer(node, above, w) ==
    CASE node.k = "Function" -> AnalyzedFunction(node, above, w)
      [] node.k = "Lambda" -> AnalyzedLambda(node, above, w)
      [] node.k = "Return" -> AnalyzedReturn(node, above, w)
      [] OTHER -> w

-----------------------------------------------------------------------------
(* ExpressionAnalyzer *)

AccessCheck(be) ==
    /\ be.right.k \in {"Variable", "Operator", "Super", "AllSymbols"}
    /\ Is(be.right, "Variable") => ~be.right.non_local

\* The name of an argument that is given by name, None for any other.
ArgName(arg) == IF Is(arg, "BinaryExpr") /\ arg.op = "=" THEN arg.left ELSE None

CallChecks(args) ==
    FlattenSeq([i \in DOMAIN args |->
        <<<<ArgName(args[i]).k \in {"None", "Variable", "This"}, "INCORRECT_ARG_NAME">>,
          <<\A j \in 1 .. i - 1 : Is(ArgName(args[i]), "None")
                                    \/ ArgName(args[j]) # ArgName(args[i]),
            "DUPLICATE_NAME_IN_CALL">>>>])

Loops == {"ForLoop", "While", "DoWhile"}
InLoop(above, w, diag) ==
    CASE get_outter_ir(above, Loops).k = "Freed" -> Broken(w, "a freed node is read")
      [] get_outter_ir(above, Loops).k = "None" -> Raised(w, diag)
      [] OTHER -> w

ExpressionAnalyzer(node, above, w) ==
    CASE node.k = "BinaryExpr" ->
            Checked(w, <<<<node.op = "." => AccessCheck(node), "INCORRECT_ACCESS_SYNATAX">>>>)
      [] node.k = "Call" -> Checked(w, CallChecks(node.args))
      [] node.k = "Break" -> InLoop(above, w, "BREAK_OUTSIDE_OF_LOOP")
      [] node.k = "Continue" -> InLoop(above, w, "CONTINUE_OUTSIDE_OF_LOOP")
      [] OTHER -> w

-----------------------------------------------------------------------------
(* DeadCodeElimination *)

\* A body up to its first node of one of the kinds.
UpTo(body, kinds) ==
    LET stops == {i \in DOMAIN body : body[i].k \in kinds}
    IN  IF stops = {} THEN body
        ELSE SubSeq(body, 1, CHOOSE i \in stops : \A j \in stops : i <= j)

Trimmed == Loops \union {"If", "Else", "Case", "Catch", "Finally", "Try"}

DeadCodeElimination(node) ==
    CASE node.k = "Function" -> [node EXCEPT !.body = UpTo(@, {"Return"})]
      [] node.k \in Trimmed -> [node EXCEPT !.body = UpTo(@, {"Break", "Continue"})]
      [] OTHER -> node

-----------------------------------------------------------------------------
(* DeadBranchElimination *)

IsBool(e, b) == e.k = "Bool" /\ e.bool = b

\* if (false): the body of the else is moved into the if, and its nodes still
\* link to the else, that is deleted.
TakesElse(node) == node.k = "If" /\ IsBool(node.cond, FALSE) /\ ~Is(node.else, "None")

DeadBranchElimination(node) ==
    CASE node.k = "While" /\ IsBool(node.cond, FALSE) -> Removed
      [] node.k = "If" /\ IsBool(node.cond, TRUE) -> [node EXCEPT !.else = None]
      [] TakesElse(node) -> IfThen(BoolLiteral(TRUE), node.else.body, None)
      [] node.k = "If" /\ IsBool(node.cond, FALSE) -> Removed
      [] OTHER -> node

-----------------------------------------------------------------------------
(* ConstantFolding *)

RECURSIVE Digits(_)
Digits(n) == IF n < 10 THEN <<ToString(n)>> ELSE Append(Digits(n \div 10), ToString(n % 10))
Quarters == <<<<"0", "0">>, <<"2", "5">>, <<"5", "0">>, <<"7", "5">>>>

\* as_string() of a literal.
Signed(negative, text) == IF negative THEN <<"-">> \o text ELSE text
abs(n) == IF n < 0 THEN -n ELSE n
as_string(e) ==
    CASE e.k = "Int" -> Signed(e.int < 0, Digits(abs(e.int)))
      [] e.k = "Float" ->
            Signed(e.float < 0, Digits(abs(e.float) \div 4) \o <<".">>
                                \o Quarters[(abs(e.float) % 4) + 1] \o <<"0", "0", "0", "0">>)
      [] e.k = "Bool" -> IF e.bool THEN <<"t", "r", "u", "e">>
                         ELSE <<"f", "a", "l", "s", "e">>
      [] e.k = "Nil" -> <<"n", "i", "l">>
      [] e.k = "NotFinite" -> e.text
      [] OTHER -> e.str

\* Division in C++ rounds to zero, and the remainder has the sign of a.
Quotient(a, b) == IF (a < 0) = (b < 0) THEN abs(a) \div abs(b) ELSE -(abs(a) \div abs(b))
Remainder(a, b) == a - (b * Quotient(a, b))
RECURSIVE Power(_, _)
Power(a, n) == IF n = 0 THEN 1 ELSE a * Power(a, n - 1)
\* The power of doubles cast to an integer.
IntPower(a, n) == IF n >= 0 THEN Power(a, n) ELSE IF abs(a) = 1 THEN Power(a, -n) ELSE 0

Comparisons == {"==", "!=", ">", "<", ">=", "<="}
Compared(op, l, r) ==
    BoolLiteral(CASE op = "==" -> l = r [] op = "!=" -> l # r [] op = ">" -> l > r
                  [] op = "<" -> l < r [] op = ">=" -> l >= r [] op = "<=" -> l <= r)

FoldedInts(op, l, r) ==
    CASE op = "+" -> IntLiteral(l + r)
      [] op = "-" -> IntLiteral(l - r)
      [] op = "*" -> IntLiteral(l * r)
      [] op = "^" -> IntLiteral(IntPower(l, r))
      [] op = "/" -> IntLiteral(Quotient(l, r))
      [] op = "%" -> IntLiteral(Remainder(l, r))
      [] op = "and" -> IntLiteral(l & r)
      [] op = "or" -> IntLiteral(l | r)
      [] op = "xor" -> IntLiteral(l ^^ r)
      [] op \in Comparisons -> Compared(op, l, r)
      [] OTHER -> None

\* Both operands in quarters; what a quarter cannot hold is not written.  The
\* host divides a float by zero, and that is no operand of anything else here.
\* The power of a float is left out (irrational).
FoldedFloats(op, l, r) ==
    CASE op \in {"/", "%"} /\ r = 0 ->
            NotFinite(IF op = "%" \/ l = 0 THEN <<"-", "n", "a", "n">>
                      ELSE Signed(l < 0, <<"i", "n", "f">>))
      [] op = "+" -> FloatLiteral(l + r)
      [] op = "-" -> FloatLiteral(l - r)
      [] op = "*" -> FloatLiteral(Quotient(l * r, 4))
      [] op = "/" -> FloatLiteral(Quotient(4 * l, r))
      [] op = "%" -> FloatLiteral(Remainder(l, r))
      [] op \in Comparisons -> Compared(op, l, r)
      [] OTHER -> None
InQuarters(e) == IF e.k = "Int" THEN 4 * e.int ELSE e.float

FoldedBools(op, l, r) ==
    CASE op \in {"and", "&&"} -> BoolLiteral(l /\ r)
      [] op \in {"or", "||"} -> BoolLiteral(l \/ r)
      [] op \in {"xor", "!="} -> BoolLiteral(l # r)
      [] op = "==" -> BoolLiteral(l = r)
      [] OTHER -> None

\* The order of strings: that of their first difference.
Alphabet == <<"a", "b", "c">>
Code(c) == CHOOSE i \in 1 .. Len(Alphabet) + 1 : i > Len(Alphabet) \/ Alphabet[i] = c
RECURSIVE Order(_, _)
Order(l, r) ==
    CASE l = <<>> \/ r = <<>> -> Len(l) - Len(r)
      [] Head(l) # Head(r) -> Code(Head(l)) - Code(Head(r))
      [] OTHER -> Order(Tail(l), Tail(r))
Within(part, s) == \E i \in 0 .. Len(s) - Len(part) : SubSeq(s, i + 1, i + Len(part)) = part

FoldedStrings(op, l, r) ==
    CASE op \in Comparisons -> Compared(op, Order(l, r), 0)
      [] op = "in" -> BoolLiteral(Within(l, r))
      [] OTHER -> None

\* A negative index counts from the end.  Index 0 is not out of bounds of an
\* empty string: the character there is the one that ends it.
is_oob(s, i) == (i > 0 /\ i >= Len(s)) \/ i < -Len(s)
str_index(s, i) == IF s = <<>> THEN <<"NUL">>
                   ELSE <<s[IF i < 0 THEN Len(s) + i + 1 ELSE i + 1]>>
FoldedString(op, s, i) ==
    CASE op = "*" -> StringLiteral(FlattenSeq([j \in 1 .. i |-> s]))
      [] op = "[]" /\ ~is_oob(s, i) -> StringLiteral(str_index(s, i))
      [] OTHER -> None

\* The literal that stands for two constants and an operator, or None.
Numbers == {"Int", "Float"}
FoldedBinary(op, l, r) ==
    CASE op = "++" -> StringLiteral(as_string(l) \o as_string(r))
      [] l.k = "Int" /\ r.k = "Int" -> FoldedInts(op, l.int, r.int)
      [] l.k \in Numbers /\ r.k \in Numbers -> FoldedFloats(op, InQuarters(l), InQuarters(r))
      [] l.k = "Bool" /\ r.k = "Bool" -> FoldedBools(op, l.bool, r.bool)
      [] l.k = "String" /\ r.k = "String" -> FoldedStrings(op, l.str, r.str)
      [] l.k = "String" /\ r.k = "Int" /\ op \in {"*", "[]"} -> FoldedString(op, l.str, r.int)
      [] op \in {"==", "!="} /\ l.k # r.k -> BoolLiteral(op = "!=")
      [] OTHER -> None

\* What folding does to the compiler: the integer division of the host faults,
\* and an assertion takes the bitwise operators of floats for unreachable.
BreaksFolding(op, l, r) ==
    CASE l.k = "Int" /\ r.k = "Int" /\ op \in {"/", "%"} /\ r.int = 0 -> "division by zero"
      [] {l.k, r.k} \subseteq Numbers /\ "Float" \in {l.k, r.k}
            /\ op \in {"and", "or", "xor"} -> "invalid literal float op"
      [] OTHER -> ""

FoldedUnary(op, e) ==
    CASE op = "~" -> Removed
      [] op = "-" /\ e.k = "Int" -> IntLiteral(-e.int)
      [] op = "-" /\ e.k = "Float" -> FloatLiteral(-e.float)
      [] op = "not" /\ e.k = "Bool" -> BoolLiteral(~e.bool)
      [] OTHER -> None

Else_(folded, node) == IF Is(folded, "None") THEN node ELSE folded
ConstantFolding(node, w) ==
    CASE node.k = "BinaryExpr" /\ is_constant(node.left) /\ is_constant(node.right) ->
            IF BreaksFolding(node.op, node.left, node.right) # ""
            THEN Broken(w, BreaksFolding(node.op, node.left, node.right))
            ELSE [w EXCEPT !.node = Else_(FoldedBinary(node.op, node.left, node.right), node)]
      [] node.k = "UnaryExpr" /\ is_constant(node.expr) ->
            [w EXCEPT !.node = Else_(FoldedUnary(node.op, node.expr), node)]
      [] OTHER -> [w EXCEPT !.node = node]

-----------------------------------------------------------------------------
(* The pass manager *)

\* The passes see a node one after the other.  One that puts another node in
\* its place ends that; the new node, a literal, is not visited any more.
Unless_(w, Pass(_)) == IF Ended(w) THEN w ELSE Pass(w)
Analyzed(node, above, w) ==
    Unless_(MethodAnalyzer(node, w), LAMBDA v :
        Unless_(FunctionAnalyzer(node, above, v), LAMBDA u :
            ExpressionAnalyzer(node, above, u)))

Folded(node, w) == IF Ended(w) \/ w.node.k # node.k THEN w
                   ELSE [w EXCEPT !.node = DeadBranchElimination(w.node)]
Transformed(node, w) ==
    LET marked == IF node.k = "Class" THEN Marked(node) ELSE node
    IN  Folded(node, ConstantFolding(DeadCodeElimination(marked), w))

try_replace(node, above, w) ==
    Unless_(Analyzed(node, above, w), LAMBDA v : Transformed(node, v))

\* The fields that are visited, in order.  What is not here is not visited:
\* the parents of a class, the text of a note, annotations, names.
VisitedConstructs ==
    [Module |-> <<"body">>, Class |-> <<"body">>, Space |-> <<"body">>,
     Argument |-> <<"types", "default">>, Function |-> <<"args", "body">>,
     Else |-> <<"body">>, If |-> <<"cond", "body", "else">>,
     Switch |-> <<"expr", "body">>, Case |-> <<"values", "body">>,
     Catch |-> <<"arg", "body">>, Finally |-> <<"body">>,
     Try |-> <<"body", "catches", "finally">>]
VisitedStatements ==
    [While |-> <<"cond", "body">>, DoWhile |-> <<"body", "cond">>,
     ForLoop |-> <<"iterator", "collection", "body">>, Import |-> <<"names">>,
     Assert |-> <<"cond", "msg">>, Raise |-> <<"expr">>, Return |-> <<"expr">>,
     Annotation |-> <<"value">>, Break |-> <<>>, Continue |-> <<>>]
VisitedExpressions ==
    [BinaryExpr |-> <<"left", "right">>, UnaryExpr |-> <<"expr">>, Multivar |-> <<"vars">>,
     TernaryIf |-> <<"cond", "yes", "no">>, Lambda |-> <<"args", "body">>,
     Range |-> <<"start", "second", "end">>, Call |-> <<"fun", "args">>,
     List |-> <<"vals">>, Comprehension |-> <<"result", "otherwise", "cond", "assigns">>,
     Dict |-> <<"keys", "vals">>]
Visited == VisitedConstructs @@ VisitedStatements @@ VisitedExpressions

\* Nodes that are shown to the passes once, before their children; an argument
\* is not shown to them at all.
Once == {"Module", "Class", "Space", "Function", "Catch", "Finally", "Try", "ForLoop",
         "Import", "Assert", "Raise", "Multivar", "Break", "Continue"}

RECURSIVE Visit(_, _, _)
\* The fields of one node that visit_child lets a pass remove.
MayBeRemoved(f) == f = "else"
\* visit_child and visit_body: field f of the node of w.
VisitField(w, f, above) ==
    LET parent == w.node
        Into(v, node) == [v EXCEPT !.node = node]
    IN  IF Ended(w) THEN w
        ELSE IF parent.k \in DOMAIN ListFields /\ f \in Range(ListFields[parent.k])
        THEN FoldLeft(LAMBDA acc, child :
                        LET v == Visit(child, above, acc)
                        IN  IF v.node.k = "Removed" THEN Into(v, acc.node)
                            ELSE Into(v, [acc.node EXCEPT ![f] = Append(@, v.node)]),
                      Into(w, [parent EXCEPT ![f] = <<>>]), parent[f])
        ELSE LET v == Visit(parent[f], above, w)
             IN  CASE v.node.k # "Removed" -> Into(v, [parent EXCEPT ![f] = v.node])
                   [] MayBeRemoved(f) -> Into(v, [parent EXCEPT ![f] = None])
                   [] OTHER -> Broken(Into(v, parent), "a child cannot be removed")

VisitChildren(w, above) ==
    FoldLeft(LAMBDA v, f : VisitField(v, f, above), w, Visited[w.node.k])

Again(node, above, w) ==
    IF Ended(w) \/ node.k \in Once THEN w ELSE try_replace(w.node, above, w)
VisitInside(node, above, w) ==
    IF Ended(w) \/ w.node.k # node.k THEN w
    ELSE Again(node, above,
               VisitChildren(w, IF TakesElse(node) THEN <<Freed>> ELSE Around(node, above)))

Visit(node, above, w) ==
    CASE Ended(w) \/ node.k \notin DOMAIN Visited -> [w EXCEPT !.node = node]
      [] ~Ended(w) /\ node.k = "Argument" -> VisitChildren([w EXCEPT !.node = node], above)
      [] OTHER -> VisitInside(node, above, try_replace(node, above, w))

\* IRPipeline::run on a module.
RunPipeline(module, start) == Visit(module, <<>>, start)
=============================================================================
