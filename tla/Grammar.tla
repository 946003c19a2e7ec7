------------------------------ MODULE Grammar -------------------------------
(***************************************************************************)
(* How expressions are written, from the table of operators in             *)
(* docs/language-reference/4-types-values-and-operators.md: a tree is      *)
(* written with the parentheses that the table asks for and no others.     *)
(***************************************************************************)
EXTENDS Syntax, FiniteSets

\* Operators that bind alike, and how they associate.
Row(ops, assoc) == [ops |-> ops, assoc |-> assoc]

\* From those that bind least.
Table == <<
    Row({"~"}, "right"), Row(SetOps, "right"), Row({"?"}, "right"),
    Row({"xor"}, "left"), Row({"||", "or"}, "left"), Row({"&&", "and"}, "left"),
    Row({"not"}, "right"), Row({"==", "!="}, "left"),
    Row({"<=", ">=", ">", "<"}, "left"), Row({"in"}, "left"), Row({".."}, "left"),
    Row({"++"}, "left"), Row({"+", "-"}, "left"), Row({"*", "/", "%"}, "left"),
    Row({"^"}, "right"), Row({"unary"}, "right"), Row({"."}, "left")>>

RowWith(op) == CHOOSE l \in DOMAIN Table : op \in Table[l].ops
Left(l) == IF Table[l].assoc = "left" THEN l ELSE l + 1
Right(l) == IF Table[l].assoc = "right" THEN l ELSE l + 1

\* The row of an expression; leaves and what has brackets of its own bind most.
RowOf(e) ==
    CASE Is(e, "BinaryExpr") -> RowWith(IF e.op = "[]" THEN "." ELSE e.op)
      [] Is(e, "UnaryExpr") -> RowWith(IF e.op = "-" THEN "unary" ELSE e.op)
      [] Is(e, "Range") -> RowWith("..")
      [] Is(e, "TernaryIf") -> RowWith("?")
      [] Is(e, "Lambda") -> 0
      [] OTHER -> Len(Table)

RECURSIVE Written(_, _)

\* Expressions between commas: a range with a step is in parentheses.
Listed(es) ==
    LET One(e) == IF Is(e, "Range") /\ e.second # None
                  THEN <<"(">> \o Written(e, 1) \o <<")">>
                  ELSE Written(e, 1)
    IN  FlattenSeq([i \in DOMAIN es |->
            (IF i = 1 THEN <<>> ELSE <<",">>) \o One(es[i])])

\* The tokens of e where an operator of row min may stand.
Written(e, min) ==
    LET l == RowOf(e)
        W(x, n) == Written(x, n)
        tokens ==
          CASE Is(e, "Variable") -> <<e.name>>
            [] Is(e, "Int") -> <<e.int>>
            [] Is(e, "BinaryExpr") /\ e.op = "[]" ->
                  W(e.left, l) \o <<"[">> \o W(e.right, 3) \o <<"]">>
            [] Is(e, "BinaryExpr") /\ e.op # "[]" ->
                  W(e.left, Left(l)) \o <<e.op>> \o W(e.right, Right(l))
            [] Is(e, "UnaryExpr") -> <<e.op>> \o W(e.expr, Right(l))
            [] Is(e, "TernaryIf") ->
                  W(e.cond, l + 1) \o <<"?">> \o W(e.yes, l) \o <<":">> \o W(e.no, l)
            [] Is(e, "Range") ->
                  W(e.start, Left(l))
                  \o (IF e.second = None THEN <<>> ELSE <<",">> \o W(e.second, l + 1))
                  \o <<"..">> \o W(e.end, l + 1)
            [] Is(e, "Call") ->
                  W(e.fun, Len(Table)) \o <<"(">> \o Listed(e.args) \o <<")">>
            [] Is(e, "List") -> <<"[">> \o Listed(e.vals) \o <<"]">>
            [] Is(e, "Lambda") -> <<"fun", "(", ")", "=">> \o W(e.body, 3)
    IN  IF l < min THEN <<"(">> \o tokens \o <<")">> ELSE tokens

-----------------------------------------------------------------------------
(* Known differences: the parser reads what the table says otherwise for an *)
(* operator with one of these as its left or right operand and no           *)
(* parentheses between them (README, item 15).                              *)

MisreadLeft ==    \* the operand, the operator
    ({"&&"} \X {"and", "or", "xor"}) \union ({"||"} \X {"or", "xor"})
    \union {<<"in", "in">>, <<"..", "..">>}

MisreadRight ==
    ({"&&", "and"} \X {"or", "xor"}) \union ({"||", "or"} \X {"xor"})
    \union {<<"&&", "||">>, <<"~", "~">>}

OperatorOf(e) ==
    CASE e.k \in {"BinaryExpr", "UnaryExpr"} -> e.op
      [] Is(e, "Range") -> ".."
      [] OTHER -> ""

Misread(e) ==
    CASE Is(e, "BinaryExpr") -> \/ <<OperatorOf(e.left), e.op>> \in MisreadLeft
                               \/ <<OperatorOf(e.right), e.op>> \in MisreadRight
      [] Is(e, "UnaryExpr") -> <<OperatorOf(e.expr), e.op>> \in MisreadRight
      [] Is(e, "Range") -> <<OperatorOf(e.start), "..">> \in MisreadLeft
      [] OTHER -> FALSE

-----------------------------------------------------------------------------
(* The names and numbers that a tree was written with *)

OwnWords(e) ==
    CASE Is(e, "Int") -> <<e.int>>
      [] Is(e, "Enum") -> <<e.name>> \o e.values
      [] e.k \in {"Variable", "Argument", "Function", "Lambda", "Class", "Space",
                  "Annotation"} -> <<e.name>>
      [] OTHER -> <<>>

RECURSIVE WordsOf(_)
WordsOf(decls) ==
    FlattenSeq([i \in DOMAIN decls |-> OwnWords(decls[i]) \o WordsOf(Children(decls[i]))])

Occurrences(word, words) == Cardinality({i \in DOMAIN words : words[i] = word})
=============================================================================
