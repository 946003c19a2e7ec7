------------------------------- MODULE Syntax -------------------------------
(***************************************************************************)
(* The tree that the parser builds and the passes rewrite: one constructor *)
(* for each class of ir.hpp, with the fields that decide what the program  *)
(* does.  Source positions are left out; so are the links from a node to   *)
(* its parent, which Passes adds.  Where the code has a null pointer there *)
(* is None.                                                                *)
(***************************************************************************)
EXTENDS Integers, Sequences, SequencesExt

None == [k |-> "None"]
Is(node, kind) == node.k = kind

-----------------------------------------------------------------------------
(* Expressions *)

BinaryExpr(op, left, right) ==
    [k |-> "BinaryExpr", op |-> op, left |-> left, right |-> right]
UnaryExpr(op, expr) == [k |-> "UnaryExpr", op |-> op, expr |-> expr]
Variable(name, non_local) ==
    [k |-> "Variable", name |-> name, non_local |-> non_local]
Multivar(vars, rest_index) ==
    [k |-> "Multivar", vars |-> vars, rest_index |-> rest_index]
AllSymbols == [k |-> "AllSymbols"]
TernaryIf(cond, yes, no) ==
    [k |-> "TernaryIf", cond |-> cond, yes |-> yes, no |-> no]
Lambda(name, args, body, annots) ==
    [k |-> "Lambda", name |-> name, args |-> args, body |-> body, annots |-> annots,
     method |-> FALSE]
RangeOf(start, end, second) ==
    [k |-> "Range", start |-> start, end |-> end, second |-> second]
CallOf(fun, args) == [k |-> "Call", fun |-> fun, args |-> args]
NoteOf(format, text) == [k |-> "Note", format |-> format, text |-> text]
ListOf(vals) == [k |-> "List", vals |-> vals]
Comprehension(result, assigns, cond, otherwise) ==
    [k |-> "Comprehension", result |-> result, assigns |-> assigns,
     cond |-> cond, otherwise |-> otherwise]
DictOf(keys, vals) == [k |-> "Dict", keys |-> keys, vals |-> vals]

IntLiteral(i) == [k |-> "Int", int |-> i]
FloatLiteral(f) == [k |-> "Float", float |-> f]
BoolLiteral(b) == [k |-> "Bool", bool |-> b]
\* A float that is no number, or infinite: only folding makes one.
NotFinite(text) == [k |-> "NotFinite", text |-> text]
StringLiteral(s) == [k |-> "String", str |-> s]
NilLiteral == [k |-> "Nil"]
ThisLiteral == [k |-> "This"]
SuperLiteral == [k |-> "Super"]
OperatorLiteral(op) == [k |-> "Operator", op |-> op]

is_constant(e) == e.k \in {"Int", "Float", "NotFinite", "Bool", "String", "Nil"}

SetOps == {"=", "++=", "^=", "+=", "-=", "/=", "*=", "%="}
is_set_op(op) == op \in SetOps
BinOps == {"++", "^", "+", "-", "/", "*", "%", "==", "!=", ">", "<", ">=",
           "<=", "&&", "||", "and", "or", "xor", "in"}

-----------------------------------------------------------------------------
(* Statements and constructs *)

Annotation(name, value, inner) ==
    [k |-> "Annotation", name |-> name, value |-> value, inner |-> inner]
EndOfFile == [k |-> "EndOfFile"]
AssertThat(cond, msg) == [k |-> "Assert", cond |-> cond, msg |-> msg]
RaiseOf(exception) == [k |-> "Raise", expr |-> exception]
ReturnOf(expr) == [k |-> "Return", expr |-> expr]
BreakLoop == [k |-> "Break"]
ContinueLoop == [k |-> "Continue"]
ImportOf(names, aliases) ==
    [k |-> "Import", names |-> names, aliases |-> aliases]

Argument(name, types, default, vararg) ==
    [k |-> "Argument", name |-> name, types |-> types, default |-> default,
     vararg |-> vararg]
FunctionOf(name, args, body, annots, docs) ==
    [k |-> "Function", name |-> name, args |-> args, body |-> body,
     annots |-> annots, docs |-> docs, method |-> FALSE, constructor |-> FALSE]
ClassOf(name, parents, body, annots, docs) ==
    [k |-> "Class", name |-> name, parents |-> parents, body |-> body,
     annots |-> annots, docs |-> docs]
SpaceOf(name, body, annots, docs) ==
    [k |-> "Space", name |-> name, body |-> body, annots |-> annots, docs |-> docs]
EnumOf(name, values, docs) ==
    [k |-> "Enum", name |-> name, values |-> values, docs |-> docs]
ModuleOf(body, annots, docs) ==
    [k |-> "Module", body |-> body, annots |-> annots, docs |-> docs]

ElseOf(body) == [k |-> "Else", body |-> body]
IfThen(cond, body, else) ==
    [k |-> "If", cond |-> cond, body |-> body, else |-> else]
CaseOf(values, body, default) ==
    [k |-> "Case", values |-> values, body |-> body, default |-> default]
SwitchOf(expr, cases) == [k |-> "Switch", expr |-> expr, body |-> cases]
CatchOf(arg, body) == [k |-> "Catch", arg |-> arg, body |-> body]
FinallyOf(body) == [k |-> "Finally", body |-> body]
TryOf(body, catches, finally) ==
    [k |-> "Try", body |-> body, catches |-> catches, finally |-> finally]
WhileDo(cond, body) == [k |-> "While", cond |-> cond, body |-> body]
DoWhile(cond, body) == [k |-> "DoWhile", cond |-> cond, body |-> body]
ForLoop(iterator, collection, body) ==
    [k |-> "ForLoop", iterator |-> iterator, collection |-> collection,
     body |-> body]

can_be_annotated(kind) ==
    kind \in {"Module", "Space", "Class", "Function", "Lambda"}
can_be_documented(kind) ==
    kind \in {"Module", "Space", "Class", "Function", "Enum"}

-----------------------------------------------------------------------------
(* The nodes below a node: the fields of each kind that hold one, and those *)
(* that hold a sequence of them.                                           *)

NodeFields ==
    [BinaryExpr |-> <<"left", "right">>, UnaryExpr |-> <<"expr">>,
     TernaryIf |-> <<"cond", "yes", "no">>, Lambda |-> <<"body">>,
     Range |-> <<"start", "end", "second">>, Call |-> <<"fun">>,
     Comprehension |-> <<"result", "cond", "otherwise">>,
     Annotation |-> <<"value">>, Assert |-> <<"cond", "msg">>,
     Raise |-> <<"expr">>, Return |-> <<"expr">>, Argument |-> <<"default">>,
     If |-> <<"cond", "else">>, Switch |-> <<"expr">>, Catch |-> <<"arg">>,
     Try |-> <<"finally">>, While |-> <<"cond">>, DoWhile |-> <<"cond">>,
     ForLoop |-> <<"iterator", "collection">>]

ListFields ==
    [Multivar |-> <<"vars">>, Lambda |-> <<"args", "annots">>, Call |-> <<"args">>,
     List |-> <<"vals">>, Comprehension |-> <<"assigns">>, Dict |-> <<"keys", "vals">>,
     Import |-> <<"names">>, Argument |-> <<"types">>,
     Function |-> <<"args", "body", "annots">>,
     Class |-> <<"parents", "body", "annots">>, Space |-> <<"body", "annots">>,
     Module |-> <<"body", "annots">>, Else |-> <<"body">>, If |-> <<"body">>,
     Case |-> <<"values", "body">>, Switch |-> <<"body">>, Catch |-> <<"body">>,
     Finally |-> <<"body">>, Try |-> <<"body", "catches">>, While |-> <<"body">>,
     DoWhile |-> <<"body">>, ForLoop |-> <<"body">>]

Children(e) ==
    (IF e.k \in DOMAIN NodeFields
     THEN [i \in DOMAIN NodeFields[e.k] |-> e[NodeFields[e.k][i]]] ELSE <<>>)
    \o (IF e.k \in DOMAIN ListFields
        THEN FlattenSeq([i \in DOMAIN ListFields[e.k] |-> e[ListFields[e.k][i]]])
        ELSE <<>>)
=============================================================================
