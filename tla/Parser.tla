------------------------------- MODULE Parser -------------------------------
(***************************************************************************)
(* The parser of parser.cpp: a file is parsed as a whole, the input of the *)
(* REPL line by line, where a construct of several lines scans the next    *)
(* line when it gets to the end of the one it has.                         *)
(*                                                                         *)
(* p is the state of the parser: its tokens, the position in them, the     *)
(* lines that are not scanned yet, its counters and stacks, and what the   *)
(* function that was called last returned (p.node).  A C++ exception is    *)
(* p.err # "": from then on every operator below leaves p as it is, as the *)
(* functions of the code are left without anything else being done.  It is *)
(* "syntax", or in Aborts where the program ends: a failed assertion, or a *)
(* node built from a null pointer.                                         *)
(*                                                                         *)
(* A token is its text.  Abstractions: white space, but for a string that  *)
(* is written right after what is before it (Attached); the values of      *)
(* literals and escapes in strings; which of the messages an error has.    *)
(***************************************************************************)
EXTENDS Syntax

CONSTANTS
  Id, Int_, Float_,   \* the tokens that are names and numbers
  Str, Attached,      \* strings; those after a name without space between
  FString             \* tokens of formatted strings: from each to its parts

NL == "NL"
End == ";"
EOF == "EOF"
Strings == Str \union Attached

Parser(lines, by_lines) ==
    [toks |-> IF by_lines THEN <<>> ELSE FlattenSeq(lines) \o <<EOF>>,
     pos |-> 1, lines |-> IF by_lines THEN lines ELSE <<>>,
     by_lines |-> by_lines, multi |-> 0, parenth |-> 0, lower |-> 0,
     code_output |-> FALSE, parents |-> <<>>, annots |-> <<>>,
     node |-> None, err |-> ""]

-----------------------------------------------------------------------------
(* Primitives *)

Ok(p) == p.err = ""
Tok(p) == p.toks[p.pos]
Check(p, types) == p.toks[p.pos] \in types

\* After an exception there is no token that any check expects.
Aborts == {"null", "no top level", "nothing", "multi-line"}

Throw(p, why) ==
    IF Ok(p) THEN [p EXCEPT !.err = why, !.toks = Append(@, "thrown"),
                            !.pos = Len(p.toks) + 1]
    ELSE p
parser_error(p) == Throw(p, "syntax")
parser_assert(p, cond) == IF ~Ok(p) \/ cond THEN p ELSE parser_error(p)
assert(p, cond, what) == IF ~Ok(p) \/ cond THEN p ELSE Throw(p, what)

Yield(p, node) == IF Ok(p) THEN [p EXCEPT !.node = node] ELSE p
Multi(p, n) == IF Ok(p) THEN [p EXCEPT !.multi = @ + n] ELSE p
Lower(p, n) == IF Ok(p) THEN [p EXCEPT !.lower = @ + n] ELSE p

scan_line(p) ==
    IF p.lines = <<>> THEN [p EXCEPT !.toks = Append(@, EOF)]
    ELSE [p EXCEPT !.toks = @ \o Head(p.lines), !.lines = Tail(@)]

advance(p) ==
    IF ~Ok(p) \/ Tok(p) = EOF \/ (p.by_lines /\ Tok(p) = NL /\ p.multi = 0) THEN p
    ELSE [(IF p.by_lines /\ Tok(p) = NL THEN scan_line(p) ELSE p)
            EXCEPT !.pos = @ + 1,
                   !.parenth = CASE Tok(p) \in {"(", "["} -> @ + 1
                                 [] Tok(p) \in {")", "]"} -> @ - 1
                                 [] OTHER -> @]

put_back(p) == [p EXCEPT !.pos = @ - 1]

\* match, when what follows does not depend on its result
Skip(p, types) == IF Check(p, types) THEN advance(p) ELSE p

expect(p, types) == IF Check(p, types) THEN advance(p) ELSE parser_error(p)

RECURSIVE SkipAll(_, _)
SkipAll(p, types) ==
    IF Check(p, types) THEN SkipAll(advance(p), types) ELSE p

\* Mutant of skip: the counter goes down without having gone up.
skip_uncounted(p, types) ==
    IF Check(p, types) THEN Multi(SkipAll(p, types), -1) ELSE p

skip(p, types) ==
    IF Check(p, types) THEN Multi(SkipAll(Multi(p, 1), types), -1) ELSE p
skip_ends(p) == skip(p, {NL, End})
skip_nls(p) == skip(p, {NL})
\* Mutant of skip_nl: the parser of a line does not go on to the next one.
skip_nl_in_line(p) == Skip(p, {NL})
skip_nl(p) == Multi(Skip(Multi(p, 1), {NL}), -1)
skip_nls_in_parenth(p) == IF p.parenth = 0 THEN p ELSE skip_nls(p)
\* After the body of an if or a catch.
skip_nls_after_body(p) == IF p.by_lines THEN skip_nl(p) ELSE skip_nls(p)

Push(p, kind) ==
    IF Ok(p)
    THEN [p EXCEPT !.parents =
            Append(@, [k |-> kind, annots |-> <<>>, docs |-> 0, empty |-> TRUE])]
    ELSE p
Parent(p) == Last(p.parents)
Pop(p) == IF Ok(p) THEN [p EXCEPT !.parents = Front(@)] ELSE p

-----------------------------------------------------------------------------
(* What may be assigned to, and what an import may name *)

RECURSIVE is_id_or_member(_), get_last_id(_)

is_id_or_member(e) ==
    \/ Is(e, "Variable")
    \/ /\ Is(e, "BinaryExpr")
       /\ e.left.k \in {"BinaryExpr", "Variable"}
       /\ \/ e.op = "." /\ is_id_or_member(e.right)
          \/ e.op = "[]" /\ is_id_or_member(e.left)
    \/ Is(e, "UnaryExpr") /\ e.op = "::" /\ is_id_or_member(e.expr)

\* "" is an error.
get_last_id(e) ==
    CASE Is(e, "Variable") -> e.name
      [] Is(e, "AllSymbols") -> "*"
      [] Is(e, "BinaryExpr") ->
            IF e.op = "." /\ e.left.k \in {"BinaryExpr", "Variable", "UnaryExpr"}
            THEN get_last_id(e.right) ELSE ""
      [] Is(e, "UnaryExpr") ->
            IF e.op = "::" /\ Is(e.expr, "Variable") THEN "" ELSE get_last_id(e.expr)
      [] OTHER -> ""

-----------------------------------------------------------------------------
(* Expressions, from the operators that bind most *)

\* Parse("f", p) is f(p): the functions of the grammar, which all lead back to
\* each other, call each other by name.
RECURSIVE Parse(_, _)

\* do { skip_nls(); e = element(); ... } while (match(COMMA) && e)
expr_list(p, element) ==
    LET RECURSIVE More(_, _)
        More(q, found) ==
            LET r == Parse(element, skip_nls(q))
                all == IF r.node = None THEN found ELSE Append(found, r.node)
            IN  IF Check(r, {","}) /\ r.node # None THEN More(advance(r), all)
                ELSE Yield(Skip(r, {","}), all)
    IN  Lower(More(Lower(p, 1), <<>>), -1)

Prefixed(p, op, operand) ==
    LET q == Parse(operand, advance(p))
    IN  Yield(parser_assert(q, q.node # None), UnaryExpr(op, q.node))

scope(p) == IF Check(p, {"::"}) THEN Prefixed(p, "::", "constant") ELSE Parse("constant", p)

note(p) ==
    LET q == scope(p)
    IN  IF ~Check(q, Attached) THEN q
        ELSE LET r == parser_assert(advance(q), Is(q.node, "Variable"))
             IN  CASE ~Ok(r) -> r
                   [] q.node.name = "r" -> Yield(r, StringLiteral(Tok(q)))
                   [] q.node.name = "d" -> parser_error(r)
                   [] OTHER -> Yield(r, NoteOf(q.node.name, Tok(q)))

call_access_subs(p, allow_star) ==
    LET RECURSIVE More(_)
        Called(q) ==
            LET args == expr_list(parser_assert(advance(q), q.node # None), "call argument")
                r == skip_nls_in_parenth(expect(skip_nls(args), {")"}))
            IN  More(Yield(r, CallOf(q.node, args.node)))
        Accessed(q) ==
            LET r == parser_assert(skip_nls_in_parenth(advance(q)), q.node # None)
                elem == Parse("note", r)
            IN  IF Check(r, {"*"})
                THEN Yield(parser_assert(advance(r), allow_star),
                           BinaryExpr(".", q.node, AllSymbols))
                ELSE More(Yield(parser_assert(elem, elem.node # None),
                                BinaryExpr(".", q.node, elem.node)))
        Subscribed(q) ==
            LET index == Parse("ternary_if", parser_assert(advance(q), q.node # None))
                r == expect(parser_assert(index, index.node # None), {"]"})
            IN  More(Yield(r, BinaryExpr("[]", q.node, index.node)))
        More(q) == CASE Check(q, {"("}) -> Called(q)
                     [] Check(q, {"."}) -> Accessed(q)
                     [] Check(q, {"["}) -> Subscribed(q)
                     [] OTHER -> q
    IN  More(Parse("note", p))

unary_plus_minus(p) ==
    CASE Check(p, {"-"}) -> Prefixed(p, "-", "unary_plus_minus")
      [] Check(p, {"+"}) -> LET q == Parse("unary_plus_minus", advance(p))
                            IN  parser_assert(q, q.node # None)
      [] OTHER -> Parse("call_access_subs", p)

\* The levels of binary operators: what a function does with the q that the one
\* below it, which it calls first, returned.

\* while (check(ops)) ...: operators that associate to the left
RECURSIVE LeftAssoc(_, _, _)
LeftAssoc(q, ops, operand) ==
    LET r == Parse(operand, parser_assert(advance(q), q.node # None))
    IN  IF Check(q, ops)
        THEN LeftAssoc(Yield(parser_assert(r, r.node # None),
                             BinaryExpr(Tok(q), q.node, r.node)), ops, operand)
        ELSE q

\* Mutant of exponentiation: it associates to the left.
exponentiation_left(q) == LeftAssoc(q, {"^"}, "unary_plus_minus")

exponentiation(q) ==
    LET r == Parse("exponentiation", parser_assert(advance(q), q.node # None))
    IN  IF Check(q, {"^"})
        THEN Yield(parser_assert(r, r.node # None), BinaryExpr("^", q.node, r.node))
        ELSE q

mul_div_mod(q) == LeftAssoc(q, {"*", "/", "%"}, "exponentiation")

add_sub(q) == LeftAssoc(q, {"+", "-"}, "mul_div_mod")

concatenation(q) == LeftAssoc(q, {"++"}, "add_sub")

\* a, b, c, ... = e, after the first two; ...x among them is the rest
list_of_vars(p, first, second, rest) ==
    LET RECURSIVE More(_, _, _)
        More(q0, vars, rest_index) ==
            LET q == skip_nls(q0)
                dots == Check(q, {"..."})
                at == IF dots THEN Len(vars) ELSE rest_index
                r == Parse("set expression", IF dots THEN parser_assert(advance(q), rest_index = -1)
                                ELSE q)
                e == r.node
            IN  CASE ~Ok(r) -> r
                  [] Is(e, "BinaryExpr") ->
                        Yield(parser_assert(r, e.op = "=" /\ is_id_or_member(e.left)),
                              BinaryExpr("=", Multivar(Append(vars, e.left), at), e.right))
                  [] Is(e, "None") -> parser_error(r)
                  [] ~is_id_or_member(e) \/ ~Check(r, {","}) -> parser_error(r)
                  [] OTHER -> More(advance(r), Append(vars, e), at)
        assignable == is_id_or_member(first) /\ is_id_or_member(second)
    IN  IF ~Ok(p) THEN p
        ELSE Lower(More(Lower(parser_assert(p, assignable), 1),
                        <<first, second>>, rest), -1)

\* first, second =  is an assignment, without a check that there is a value.
TwoVars(p, first, second, rest) ==
    LET assignable == is_id_or_member(first) /\ is_id_or_member(second)
        q == Parse("concatenation", parser_assert(advance(p), assignable))
    IN  Yield(assert(q, q.node # None, "null"),
              BinaryExpr("=", Multivar(<<first, second>>, rest), q.node))

range(q) ==
    LET first == q.node
        After(r, second) ==
            LET end == Parse("concatenation", expect(r, {".."}))
            IN  Yield(end, RangeOf(first, end.node, second))
        Plain ==
            LET r == After(parser_assert(q, first # None), None)
            IN  parser_assert(r, r.node.end # None)
        comma == parser_assert(advance(q), first # None)
        rest == IF Check(comma, {"..."}) THEN 1 ELSE -1
        s == Parse("concatenation", Skip(comma, {"..."}))
        t == parser_assert(s, s.node # None)
    IN  CASE Check(q, {".."}) -> Plain
          [] q.lower = 0 /\ Check(q, {","}) ->
                CASE Check(t, {","}) -> list_of_vars(advance(t), first, s.node, rest)
                  [] Check(t, {"="}) -> TwoVars(t, first, s.node, rest)
                  [] OTHER -> After(t, s.node)
          [] OTHER -> q

membership(q) ==
    LET r == Parse("range", parser_assert(advance(q), q.node # None))
    IN  IF Check(q, {"in"})
        THEN Yield(parser_assert(r, r.node # None), BinaryExpr("in", q.node, r.node))
        ELSE q

compare_gl(q) == LeftAssoc(q, {"<=", ">=", "<", ">"}, "membership")

eq_neq(q) == LeftAssoc(q, {"==", "!="}, "compare_gl")

and_or_xor(q) == LeftAssoc(q, {"and", "or", "xor"}, "op_not")

short_circuit(q) == LeftAssoc(q, {"&&", "||"}, "and_or_xor")

ternary_if(q) ==
    LET yes == Parse("ternary_if", parser_assert(advance(q), q.node # None))
        no == Parse("ternary_if", expect(parser_assert(yes, yes.node # None), {":"}))
    IN  IF Check(q, {"?"})
        THEN Yield(parser_assert(no, no.node # None),
                   TernaryIf(q.node, yes.node, no.node))
        ELSE q

Levels == <<"exponentiation", "mul_div_mod", "add_sub", "concatenation", "range",
            "membership", "compare_gl", "eq_neq", "op_not", "and_or_xor",
            "short_circuit", "ternary_if">>
LevelOf == [f \in ToSet(Levels) |-> CHOOSE i \in DOMAIN Levels : Levels[i] = f]

after(f, q) ==
    CASE f = "exponentiation" -> exponentiation(q)
      [] f = "mul_div_mod" -> mul_div_mod(q)
      [] f = "add_sub" -> add_sub(q)
      [] f = "concatenation" -> concatenation(q)
      [] f = "range" -> range(q)
      [] f = "membership" -> membership(q)
      [] f = "compare_gl" -> compare_gl(q)
      [] f = "eq_neq" -> eq_neq(q)
      [] f = "op_not" -> q
      [] f = "and_or_xor" -> and_or_xor(q)
      [] f = "short_circuit" -> short_circuit(q)
      [] f = "ternary_if" -> ternary_if(q)

RECURSIVE Climb(_, _, _)
Climb(q, from, to) ==
    IF from > to \/ ~Ok(q) THEN q ELSE Climb(after(Levels[from], q), from + 1, to)

op_not(p, to) == Climb(Prefixed(p, "not", "op_not"), LevelOf["op_not"] + 1, to)

level(p, to) ==
    IF Check(p, {"not"}) /\ to >= LevelOf["op_not"] THEN op_not(p, to)
    ELSE Climb(Parse("unary_plus_minus", p), 1, to)

\* = associates to the right; a compound assignment is the last of its chain.
assignment(p) ==
    LET Assigned(q) ==
            LET r == Parse("assignment", parser_assert(advance(q), q.node # None))
            IN  Yield(parser_assert(r, r.node # None), BinaryExpr(Tok(q), q.node, r.node))
        RECURSIVE Compound(_, _)
        Compound(q, is_set) ==
            IF Check(q, SetOps \ {"="})
            THEN Compound(Assigned(parser_assert(q, ~is_set)), TRUE)
            ELSE q
        RECURSIVE Plain(_, _)
        Plain(q, is_set) == IF Check(q, {"="}) THEN Plain(Assigned(q), TRUE)
                            ELSE Compound(q, is_set)
    IN  Plain(Parse("ternary_if", p), FALSE)

silent(p) == IF Check(p, {"~"}) THEN Prefixed(p, "~", "ternary_if") ELSE Parse("assignment", p)

expression(p, allow_set) ==
    LET q == silent(p)
        is_set == Is(q.node, "BinaryExpr") /\ is_set_op(q.node.op)
    IN  parser_assert(q, allow_set \/ ~is_set)

required(p) == LET q == Parse("expression", p) IN parser_assert(q, q.node # None)
required_ternary(p) == LET q == Parse("ternary_if", p) IN parser_assert(q, q.node # None)
\* '(' expression ')'
in_parenths(p) == expect(Parse("required", expect(p, {"("})), {")"})

-----------------------------------------------------------------------------
(* Arguments of functions *)

argument(p, allow_default_value) ==
    LET id == expect(p, Id)
        Several(q) ==
            LET r == expr_list(advance(q), "type")
            IN  expect(parser_assert(r, r.node # <<>>), {"]"})
        One(q) ==
            LET r == Parse("call_access_subs", q)
            IN  Yield(parser_assert(r, is_id_or_member(r.node)), <<r.node>>)
        colon == advance(id)
        types == CASE ~Check(id, {":"}) -> Yield(id, <<>>)
                   [] Check(colon, {"["}) -> Several(colon)
                   [] OTHER -> One(colon)
        default == IF Check(types, {"="})
                   THEN Parse("required", parser_assert(advance(types), allow_default_value))
                   ELSE Yield(types, None)
    IN  Yield(default, Argument(Tok(p), types.node, default.node, FALSE))

arg_list(p) ==
    LET RECURSIVE More(_, _, _)
        More(q0, args, vararg) ==
            LET q == skip_nls(q0)
                id == expect(parser_assert(advance(q), ~vararg), Id)
                r == IF Check(q, {"..."})
                     THEN Yield(parser_assert(id, ~Check(id, {":", "="})),
                                Argument(Tok(advance(q)), <<>>, None, TRUE))
                     ELSE Parse("argument", q)
                all == Append(args, r.node)
            IN  IF Check(r, {","})
                THEN More(advance(r), all, vararg \/ Check(q, {"..."}))
                ELSE Yield(r, all)
    IN  Lower(More(Lower(p, 1), <<>>, FALSE), -1)

\* '(' ')' or '(' arg_list ')', after the '('
parameters(p) ==
    LET q == arg_list(p)
    IN  IF Check(p, {")"}) THEN Yield(advance(p), <<>>)
        ELSE expect(q, {")"})

-----------------------------------------------------------------------------
(* Operands *)

OperatorNames == BinOps \union {"not"}

\* The name of an operator, or None.  What is put back is not taken from the
\* depth of parentheses again.
operator_name(p) ==
    LET Pair(q, open, close) ==
            LET inner == advance(q)
            IN  CASE ~Check(q, {open}) -> Yield(q, None)
                  [] Check(inner, {close}) -> Yield(advance(inner), OperatorLiteral(open \o close))
                  [] OTHER -> Yield(put_back(inner), None)
        q == Pair(p, "[", "]")
        r == Pair(q, "(", ")")
    IN  CASE ~Ok(p) -> p
          [] q.node # None -> q
          [] r.node # None -> r
          [] Check(r, OperatorNames) -> Yield(advance(r), OperatorLiteral(Tok(r)))
          [] OTHER -> r

\* '(' expression ')'.  The counter is saved in a bool.
parenthesised(p) ==
    LET start == [advance(p) EXCEPT !.lower = 0]
        op == Parse("operator_name", start)
        q == CASE op.node = None -> Parse("ternary_if", op)
               [] op.node # None /\ Check(op, {")"}) -> op
               [] OTHER -> Parse("ternary_if", put_back(op))
        r == expect(parser_assert(q, q.node # None), {")"})
        saved == IF p.lower = 0 THEN 0 ELSE 1
    IN  IF Ok(r) THEN [r EXCEPT !.lower = saved] ELSE r

\* The parts of the string become the tokens to read next.
fstring(p, token) ==
    LET Concat(sofar, e) == IF sofar = None THEN e ELSE BinaryExpr("++", sofar, e)
        RECURSIVE More(_, _)
        More(q, sofar) ==
            LET e == Parse("required", advance(q))
                r == CASE Check(q, {"{"}) -> Yield(expect(e, {"}"}), Concat(sofar, e.node))
                       [] Check(q, {"QUOTE"}) -> Yield(q, sofar)
                       [] OTHER -> Yield(advance(q), Concat(sofar, StringLiteral(Tok(q))))
            IN  CASE ~Ok(r) -> r
                  [] Check(r, {"QUOTE"}) -> Yield(advance(r), IF r.node = None
                                              THEN StringLiteral("") ELSE r.node)
                  [] OTHER -> More(r, r.node)
        spilled == [p EXCEPT !.toks = SubSeq(@, 1, p.pos - 1) \o FString[token]
                                      \o SubSeq(@, p.pos, Len(@))]
    IN  More(spilled, None)

lambda(p) ==
    LET named == Skip(advance(p), Id)
        args == Parse("parameters", expect(named, {"("}))
        body == Parse("required", expect(skip_nls(args), {"="}))
        name == IF Check(advance(p), Id) THEN Tok(advance(p)) ELSE ""
    IN  Yield(body, Lambda(name, args.node, body.node, <<>>))

\* ...a, b, ... = e
rest_first(p) ==
    LET first == Parse("required", Lower(advance(p), 1))
        q == expect(first, {","})
        second == Parse("concatenation", parser_assert(q, ~Check(q, {"..."})))
        r == Lower(parser_assert(second, second.node # None), -1)
    IN  CASE Check(r, {","}) -> list_of_vars(advance(r), first.node, second.node, 0)
          [] Check(r, {"="}) -> TwoVars(r, first.node, second.node, 0)
          [] OTHER -> parser_error(r)

\* [result if (cond) else other : x = a, ...]
comprehension(p, result) ==
    LET q == skip_nls(p)
        cond == expect(Parse("required_ternary", expect(advance(q), {"("})), {")"})
        else == IF Check(cond, {"else"}) THEN Parse("required_ternary", advance(cond))
                ELSE Yield(cond, None)
        r == IF Check(q, {"if"}) THEN else ELSE Yield(q, None)
        assigns == expr_list(skip_nls(expect(r, {":"})), "assigned")
        all_set == \A i \in DOMAIN assigns.node :
                      Is(assigns.node[i], "BinaryExpr") /\ assigns.node[i].op = "="
        t == expect(skip_nls(parser_assert(assigns, all_set)), {"]"})
    IN  Yield(t, Comprehension(result, assigns.node,
                               IF Check(q, {"if"}) THEN cond.node ELSE None, r.node))

\* Mutant of list: the first value is not put before the others.
list_rest(p) ==
    LET first == Parse("ternary_if", skip_nls(Lower(advance(p), 1)))
        others == Parse("values", skip_nls(advance(first)))
        vals == IF Check(first, {","}) THEN others ELSE Yield(first, <<first.node>>)
        q == expect(skip_nls(vals), {"]"})
    IN  Lower(Yield(q, ListOf(q.node)), -1)

list(p) ==
    LET first == Parse("ternary_if", skip_nls(Lower(advance(p), 1)))
        q == skip_nls_in_parenth(first)
        others == Parse("values", skip_nls(advance(q)))
        vals == CASE first.node = None -> Yield(q, <<>>)
                  [] Check(q, {","}) -> Yield(others, <<first.node>> \o others.node)
                  [] OTHER -> Yield(q, <<first.node>>)
        r == expect(skip_nls(vals), {"]"})
    IN  CASE ~Ok(q) -> q
          [] first.node # None /\ Check(q, {":", "if"}) ->
                Lower(comprehension(q, first.node), -1)
          [] OTHER -> Lower(Yield(r, ListOf(r.node)), -1)

dict(p) ==
    LET open == advance(p)
        q == expect(skip_nls(expr_list(open, "item")), {"}"})
        Field(f(_)) == [i \in DOMAIN q.node |-> f(q.node[i])]
    IN  IF Check(open, {":"}) THEN Yield(expect(advance(open), {"}"}), DictOf(<<>>, <<>>))
        ELSE Yield(parser_assert(q, q.node # <<>>),
                   DictOf(Field(LAMBDA i : i.key), Field(LAMBDA i : i.val)))

\* What the lists are made of; None ends a list after a comma.
list_expr(p, only_scope_or_id, allow_set, is_fun_call) ==
    LET r == Parse("ternary_if", advance(p))
        q == IF is_fun_call /\ Check(p, {"<<"})
             THEN Yield(parser_assert(r, r.node # None), UnaryExpr("<<", r.node))
             ELSE expression(p, allow_set)
        legal == \/ q.node = None
                 \/ only_scope_or_id => /\ is_id_or_member(q.node)
                                             /\ ~(Is(q.node, "UnaryExpr") /\ q.node.op = "~")
    IN  skip_nls(parser_assert(q, legal))

type_name(p) ==
    LET q == Parse("expression", p)
    IN  parser_assert(q, q.node = None \/ is_id_or_member(q.node))

item(p) ==
    LET key == Parse("ternary_if", p)
        val == Parse("required_ternary", expect(key, {":"}))
    IN  IF Ok(key) /\ key.node = None THEN key
        ELSE Yield(val, [k |-> "Item", key |-> key.node, val |-> val.node])

imported(p) ==
    LET q == Parse("imported name", p)
        alias == expect(advance(q), Id)
        named == parser_assert(q, q.node # None /\ get_last_id(q.node) # "")
        Imported(as) == [k |-> "Item", name |-> q.node, as |-> as]
    IN  IF Check(named, {"as"}) THEN Yield(alias, Imported(Tok(advance(q))))
        ELSE Yield(named, Imported(get_last_id(q.node)))

\* None where no expression starts.
constant(p0) ==
    LET p == skip_nls_in_parenth(p0)
        Leaf(node) == Yield(skip_nls_in_parenth(advance(p)), node)
        id == expect(advance(p), Id)
    IN  CASE ~Ok(p) -> p
          [] Check(p, {"("}) -> parenthesised(p)
          [] Check(p, {"$"}) ->
                Yield(skip_nls_in_parenth(id), Variable(Tok(advance(p)), TRUE))
          [] Check(p, Id) -> Leaf(Variable(Tok(p), FALSE))
          [] Check(p, {"..."}) -> rest_first(p)
          [] Check(p, Int_) -> Leaf(IntLiteral(Tok(p)))
          [] Check(p, Float_) -> Leaf(FloatLiteral(Tok(p)))
          [] Check(p, Strings) -> Leaf(StringLiteral(Tok(p)))
          [] Check(p, DOMAIN FString) -> fstring(skip_nls_in_parenth(advance(p)), Tok(p))
          [] Check(p, {"true"}) -> Leaf(BoolLiteral(TRUE))
          [] Check(p, {"false"}) -> Leaf(BoolLiteral(FALSE))
          [] Check(p, {"nil"}) -> Leaf(NilLiteral)
          [] Check(p, {"this"}) -> Leaf(ThisLiteral)
          [] Check(p, {"super"}) -> Leaf(SuperLiteral)
          [] Check(p, {"fun"}) -> lambda(p)
          [] Check(p, {"["}) -> list(p)
          [] Check(p, {"{"}) -> dict(p)
          [] OTHER -> Yield(p, None)

-----------------------------------------------------------------------------
(* Declarations *)

\* A doc string goes to the construct whose body is being parsed, to the module
\* only before its first declaration is complete.
bind_docstring(p) ==
    LET RECURSIVE More(_, _)
        More(q, bound) ==
            IF Check(q, {"d"} \intersect Id) /\ q.toks[q.pos + 1] \in Attached
            THEN LET r == advance(advance(q))
                     s == parser_assert(r, /\ r.parents # <<>>
                                           /\ can_be_documented(Parent(r).k)
                                           /\ Parent(r).k = "Module" => Parent(r).empty)
                     t == IF Ok(s) THEN [s EXCEPT !.parents[Len(s.parents)].docs = @ + 1]
                          ELSE s
                 IN  More(skip_ends(t), TRUE)
            ELSE Yield(q, bound)
    IN  More(skip_ends(p), FALSE)

\* None where no annotation starts.
annotation(p) ==
    LET id == expect(advance(p), Id)
        vals == Parse("values", advance(id))
        value == IF Len(vals.node) = 1 THEN vals.node[1] ELSE ListOf(vals.node)
        q == IF Check(id, {"("})
             THEN Yield(expect(parser_assert(vals, vals.node # <<>>), {")"}), value)
             ELSE Yield(id, NilLiteral)
        name == Tok(advance(p))
        r == IF Ok(q) /\ ~Check(id, {"("})
             THEN [q EXCEPT !.code_output = CASE name = "enable_code_output" -> TRUE
                                              [] name = "disable_code_output" -> FALSE
                                              [] OTHER -> @]
             ELSE q
    IN  IF Check(p, {"@", "@!"})
        THEN Yield(r, Annotation(name, r.node, Check(p, {"@!"})))
        ELSE Yield(p, None)

\* { declaration* }
block(p) ==
    LET RECURSIVE More(_, _)
        More(q, decls) ==
            LET r == Parse("declaration", q)
            IN  CASE ~Ok(q) -> q
                  [] Check(q, {"}"}) -> Yield(advance(q), decls)
                  [] Check(q, {EOF}) \/ (Ok(r) /\ r.node = None) ->
                        Yield(expect(r, {"}"}), decls)
                  [] OTHER -> More(skip_ends(r), Append(decls, r.node))
    IN  More(Parse("bind_docstring", skip_nls(expect(skip_nls(p), {"{"}))), <<>>)

\* A block returns before the counter is decremented.
body(p) ==
    LET q == skip_nls(p)
        r == Parse("declaration", q)
    IN  IF Check(q, {"{"}) THEN Parse("block", Multi(q, 1))
        ELSE Yield(parser_assert(r, ~Is(r.node, "None") /\ ~Is(r.node, "EndOfFile")),
                   <<r.node>>)

cases(p) ==
    LET RECURSIVE More(_, _, _)
        More(q, found, default) ==
            LET is_default == Check(q, {"default"})
                label == IF is_default THEN parser_assert(advance(q), ~default)
                         ELSE expect(q, {"case"})
                vals == Parse("values", label)
                r == Parse("body", expect(vals, {":"}))
            IN  CASE ~Ok(q) -> q
                  [] Check(q, {"}"}) -> Yield(advance(q), found)
                  [] Check(q, {EOF}) -> parser_error(q)
                  [] OTHER -> More(skip_ends(r),
                                   Append(found, CaseOf(vals.node, r.node, is_default)),
                                   default \/ is_default)
    IN  More(skip_nls(expect(skip_nls(p), {"{"})), <<>>, FALSE)

import(p) ==
    LET q == expr_list(parser_assert(advance(p), ~Check(advance(p), {NL})), "import")
    IN  Yield(q, ImportOf([i \in DOMAIN q.node |-> q.node[i].name],
                          [i \in DOMAIN q.node |-> q.node[i].as]))

if(p) ==
    LET cond == in_parenths(advance(p))
        yes == Parse("body", cond)
        q == skip_nls_after_body(yes)
        no == Parse("body", advance(q))
    IN  IF Check(q, {"else"})
        THEN Yield(no, IfThen(cond.node, yes.node, ElseOf(no.node)))
        ELSE Yield(q, IfThen(cond.node, yes.node, None))

while(p) ==
    LET cond == in_parenths(advance(p))
        q == Parse("body", cond)
    IN  Yield(q, WhileDo(cond.node, q.node))

do_while(p) ==
    LET b == Parse("body", advance(p))
        q == in_parenths(expect(skip_nls(b), {"while"}))
    IN  Yield(q, DoWhile(q.node, b.node))

\* The counter of the other variables is not taken back.
iterator(p) ==
    LET RECURSIVE More(_, _, _)
        More(q0, vars, rest) ==
            LET q == skip_nls(q0)
                dots == Check(q, {"..."})
                at == IF dots THEN Len(vars) ELSE rest
                r == Parse("set expression",
                           IF dots THEN parser_assert(advance(q), rest = -1) ELSE q)
                s == parser_assert(r, r.node = None \/ is_id_or_member(r.node))
                all == IF r.node = None THEN vars ELSE Append(vars, r.node)
            IN  IF Check(s, {","}) /\ r.node # None THEN More(advance(s), all, at)
                ELSE Yield(assert(Skip(s, {","}), all[1] # None, "null"), Multivar(all, at))
        first == Lower(Parse("expression", Skip(Lower(p, 1), {"..."})), -1)
        rest_first_ == IF Check(p, {"..."}) THEN 0 ELSE -1
        it == IF Check(first, {","})
              THEN More(Lower(advance(first), 1), <<first.node>>, rest_first_)
              ELSE first
    IN  parser_assert(it, Is(it.node, "Multivar") \/ is_id_or_member(it.node))

for(p) ==
    LET it == Parse("iterator", expect(advance(p), {"("}))
        coll == Parse("required", expect(it, {":"}))
        q == Parse("body", expect(coll, {")"}))
    IN  Yield(q, ForLoop(it.node, coll.node, q.node))

switch(p) ==
    LET val == in_parenths(advance(p))
        q == Multi(cases(Multi(val, 1)), -1)
    IN  Yield(q, SwitchOf(val.node, q.node))

try(p) ==
    LET b == Parse("body", advance(p))
        RECURSIVE Catches(_, _)
        Catches(q, found) ==
            LET arg == Parse("caught", expect(advance(q), {"("}))
                r == Parse("body", expect(arg, {")"}))
            IN  IF Check(q, {"catch"})
                THEN Catches(skip_nls_after_body(r), Append(found, CatchOf(arg.node, r.node)))
                ELSE Yield(q, found)
        catches == Catches(skip_nls(b), <<>>)
        q == skip_nls_after_body(parser_assert(catches, catches.node # <<>>))
        final == Parse("body", advance(q))
    IN  IF Check(q, {"finally"})
        THEN Yield(final, TryOf(b.node, catches.node, FinallyOf(final.node)))
        ELSE Yield(q, TryOf(b.node, catches.node, None))

assertion(p) ==
    LET q == Parse("values", expect(advance(p), {"("}))
        args == q.node
        r == expect(parser_assert(q, Len(args) \in {1, 2}), {")"})
    IN  Yield(r, AssertThat(args[1], IF Len(args) = 2 THEN args[2] ELSE None))

return(p) ==
    LET q == Parse("expression", advance(p))
    IN  Yield(q, ReturnOf(IF q.node = None THEN NilLiteral ELSE q.node))

enum(p) ==
    LET RECURSIVE Values(_, _)
        Values(q, found) ==
            LET val == expect(q, Id)
                r == parser_assert(val, Tok(q) \notin ToSet(found))
                all == Append(found, Tok(q))
            IN  CASE ~Ok(q) -> q
                  [] Check(q, {"}", EOF}) -> Yield(q, found)
                  [] Check(r, {",", End, NL}) -> Values(skip_ends(advance(r)), all)
                  [] OTHER -> Yield(parser_assert(r, Check(r, {"}"})), all)
        name == expect(Multi(advance(p), 1), Id)
        open == Parse("bind_docstring", Push(expect(skip_nls(name), {"{"}), "Enum"))
        values == Values(Pop(open), <<>>)
        q == Multi(expect(values, {"}"}), -1)
    IN  Yield(q, EnumOf(Tok(advance(p)), values.node, Parent(open).docs))

\* The annotations before a class are kept from its members.
class(p) ==
    LET id == expect(Multi(advance(p), 1), Id)
        list_ == expr_list(advance(id), "parent")
        parents == IF Check(id, {":"}) THEN parser_assert(list_, list_.node # <<>>)
                   ELSE Yield(id, <<>>)
        own == p.annots
        inside == Parse("block", Push([parents EXCEPT !.annots = <<>>], "Class"))
        q == Multi(Pop(inside), -1)
    IN  IF ~Ok(parents) THEN parents
        ELSE Yield(q, ClassOf(Tok(advance(p)), parents.node, inside.node,
                              Parent(inside).annots \o own, Parent(inside).docs))

space(p) ==
    LET start == Multi(advance(p), 1)
        q == Skip(start, Id)
        inside == Parse("block", Push(parser_assert(q, Check(start, Id \union {"{"})), "Space"))
    IN  Yield(Multi(Pop(inside), -1),
              SpaceOf(IF Check(start, Id) THEN Tok(start) ELSE "", inside.node,
                      Parent(inside).annots, Parent(inside).docs))

\* fun name(...) { ... }, fun (op)(...) { ... }, or the same with = expression
fun(p) ==
    LET id == Skip(advance(p), Id)
        open == expect(id, {"("})
        op == Parse("operator_name", open)
        again == expect(expect(op, {")"}), {"("})
        args == Parse("parameters", IF Ok(op) /\ op.node # None THEN again ELSE op)
        name == CASE op.node # None -> op.node.op
                  [] Check(advance(p), Id) -> Tok(advance(p))
                  [] OTHER -> ""
        head == skip_nls(args)
        taken == [head EXCEPT !.annots = <<>>]
        inside == Parse("block", [Push(taken, "Function") EXCEPT !.parents[Len(head.parents) + 1].annots
                                                            = head.annots])
        expr == Parse("required", advance(head))
    IN  CASE ~Ok(head) -> head
          [] Check(head, {"{"}) ->
                Yield(parser_assert(Pop(inside), name # ""),
                      FunctionOf(name, args.node, inside.node,
                                 Parent(inside).annots, Parent(inside).docs))
          [] Check(head, {"="}) /\ Ok(expr) ->
                Yield([expr EXCEPT !.annots = <<>>],
                      Lambda(name, args.node, expr.node, head.annots))
          [] Check(head, {"="}) -> expr
          [] OTHER -> parser_error(head)

\* Which keyword the declaration starts with.
statement(p) ==
    CASE Check(p, {"import"}) -> import(p)
      [] Check(p, {"if"}) -> if(p)
      [] Check(p, {"while"}) -> while(p)
      [] Check(p, {"do"}) -> do_while(p)
      [] Check(p, {"for"}) -> for(p)
      [] Check(p, {"switch"}) -> switch(p)
      [] Check(p, {"try"}) -> try(p)
      [] Check(p, {"assert"}) -> assertion(p)
      [] Check(p, {"raise"}) -> LET q == Parse("required", advance(p)) IN Yield(q, RaiseOf(q.node))
      [] Check(p, {"return"}) -> return(p)
      [] Check(p, {"break"}) -> Yield(advance(p), BreakLoop)
      [] Check(p, {"continue"}) -> Yield(advance(p), ContinueLoop)
      [] Check(p, {"enum"}) -> enum(p)
      [] Check(p, {"class"}) -> class(p)
      [] Check(p, {"space"}) -> space(p)
      [] Check(p, {"fun"}) -> fun(p)
      [] Check(p, {"else", "case", "default", "catch", "finally"}) -> parser_error(p)
      [] OTHER -> Parse("set expression", p)

NoEndNeeded == {"If", "While", "ForLoop", "Switch", "Try", "Enum", "Class", "Space",
                "Function"}

\* The annotations before a declaration: those with @ wait for it, those with
\* @! go to the construct around it, or are declarations when that is a module.
\* Then the declaration.
RECURSIVE annotated(_, _)
annotated(p, was_inner) ==
    LET q == Parse("annotation", p)
        annot == q.node
        known == assert(q, q.parents # <<>>, "no top level")
        inner == parser_assert(known, can_be_annotated(Parent(known).k))
        up == [inner EXCEPT !.parents[Len(inner.parents)].annots = Append(@, annot)]
        r == Parse("statement", q)
        decl == r.node
        NoDecl == IF r.annots # <<>> THEN parser_error(r) ELSE Yield(r, None)
        ended == IF decl.k \in NoEndNeeded THEN r
                 ELSE IF Check(r, {EOF}) THEN r ELSE expect(r, {NL, End})
    IN  CASE ~Ok(q) -> q
          [] annot # None /\ ~annot.inner ->
                annotated(skip_ends([q EXCEPT !.annots = Append(@, annot)]), was_inner)
          [] annot # None /\ annot.inner ->
                CASE ~Ok(inner) -> inner
                  [] Len(inner.parents) = 1 -> Yield(inner, annot)
                  [] OTHER -> annotated(skip_ends(up), TRUE)
          [] ~Ok(r) -> r
          [] decl = None /\ (r.annots # <<>> \/ was_inner) -> NoDecl
          [] OTHER -> parser_assert(assert(Yield(ended, decl), decl # None, "nothing"),
                                    r.annots = <<>>)

declaration(p) ==
    LET start == skip_ends(assert([p EXCEPT !.lower = 0, !.parenth = 0], p.multi >= 0, "multi-line"))
        bound == Parse("bind_docstring", start)
        q == parser_assert(bound, ~bound.node)
    IN  CASE ~Ok(p) -> p
          [] Check(q, {EOF}) -> Yield(q, EndOfFile)
          [] Check(q, {"ERROR"}) -> parser_error(advance(q))
          [] OTHER -> annotated(q, FALSE)

Parse(f, p) ==
    CASE f = "constant" -> constant(p)
      [] f = "note" -> note(p)
      [] f = "call_access_subs" -> call_access_subs(p, FALSE)
      [] f = "imported name" -> call_access_subs(p, TRUE)
      [] f = "unary_plus_minus" -> unary_plus_minus(p)
      [] f \in DOMAIN LevelOf -> level(p, LevelOf[f])
      [] f = "assignment" -> assignment(p)
      [] f = "expression" -> expression(p, FALSE)
      [] f = "set expression" -> expression(p, TRUE)
      [] f = "required" -> required(p)
      [] f = "required_ternary" -> required_ternary(p)
      [] f = "operator_name" -> operator_name(p)
      [] f = "values" -> expr_list(p, "value")
      [] f = "value" -> list_expr(p, FALSE, FALSE, FALSE)
      [] f = "assigned" -> list_expr(p, FALSE, TRUE, FALSE)
      [] f = "parent" -> list_expr(p, TRUE, FALSE, FALSE)
      [] f = "call argument" -> list_expr(p, FALSE, TRUE, TRUE)
      [] f = "type" -> type_name(p)
      [] f = "item" -> item(p)
      [] f = "import" -> imported(p)
      [] f = "parameters" -> parameters(p)
      [] f = "argument" -> argument(p, TRUE)
      [] f = "caught" -> argument(p, FALSE)
      [] f = "iterator" -> iterator(p)
      [] f = "bind_docstring" -> bind_docstring(p)
      [] f = "body" -> body(p)
      [] f = "block" -> block(p)
      [] f = "annotation" -> annotation(p)
      [] f = "statement" -> statement(p)
      [] f = "declaration" -> declaration(p)
=============================================================================
