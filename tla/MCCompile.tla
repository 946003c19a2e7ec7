----------------------------- MODULE MCCompile ------------------------------
(***************************************************************************)
(* Programs to compile and run: families of trees, each built around one   *)
(* part of the language, as the parser would make them.                    *)
(***************************************************************************)
EXTENDS Compilation

V(name) == Variable(name, FALSE)
Outer_(name) == Variable(name, TRUE)
Global_(name) == UnaryExpr("::", V(name))
N(i) == IntLiteral(i)
S(chars) == StringLiteral(chars)
Half == FloatLiteral(2)
True == BoolLiteral(TRUE)
False == BoolLiteral(FALSE)
Bin(l, op, r) == BinaryExpr(op, l, r)
Let(name, v) == BinaryExpr("=", V(name), v)
CallTo(name, args) == CallOf(V(name), args)
Dot(o, name) == BinaryExpr(".", o, V(name))
At_(l, i) == BinaryExpr("[]", l, i)
Param_(name) == Argument(name, <<>>, None, FALSE)
Default_(name, v) == Argument(name, <<>>, v, FALSE)
Many_(name) == Argument(name, <<>>, None, TRUE)
Fun(name, params, body) == FunctionOf(name, params, body, <<>>, 0)
Class_(name, body) == ClassOf(name, <<>>, body, <<>>, 0)
Program(body) == ModuleOf(Append(body, EndOfFile), <<>>, 0)
List12 == ListOf(<<N(1), N(2)>>)

-----------------------------------------------------------------------------
(* Operators on literals, that are folded, and on variables *)

Operands == {N(0), N(2), Half, S(<<"a", "b">>), True, NilLiteral, ListOf(<<N(2)>>)}
\* The power of a float is left out: see Values.
Sensible(op, x, y) == op = "^" => {x.k, y.k} \intersect {"Float"} = {}
Operations ==
    {p \in (BinOps \union {"[]"}) \X Operands \X Operands : Sensible(p[1], p[2], p[3])}
Nested == {Bin(Bin(N(1), p, N(2)), q, x) :
              p \in {"+", "++", "=="}, q \in {"+", "++", "==", "-"}, x \in {N(1), S(<<"b">>), V("a")}}
OperatorPrograms ==
    {Program(<<Bin(p[2], p[1], p[3])>>) : p \in Operations}
    \union {Program(<<Let("a", p[2]), Let("b", p[3]), Bin(V("a"), p[1], V("b"))>>) : p \in Operations}
    \union {Program(<<Let("a", x), UnaryExpr(op, x), UnaryExpr(op, V("a"))>>) :
               x \in Operands, op \in {"-", "not", "~"}}
    \union {Program(<<Let("a", N(2)), e>>) : e \in Nested}

-----------------------------------------------------------------------------
(* Loops in loops, left and continued in all ways *)

Counted(i) == IfThen(Bin(V(i), "==", N(1)), <<BreakLoop>>, None)
Steps(i) == {V(i), BreakLoop, ContinueLoop, Counted(i),
             IfThen(Bin(V(i), "==", N(1)), <<ContinueLoop>>, ElseOf(<<BreakLoop>>))}
LoopKinds == {"while", "do", "for"}
\* A loop for i = 1, 2.
Loop(kind, i, body) ==
    LET counted == <<BinaryExpr("+=", V(i), N(1))>> \o body
    IN  CASE kind = "while" -> <<Let(i, N(0)), WhileDo(Bin(V(i), "<", N(2)), counted)>>
          [] kind = "do" -> <<Let(i, N(0)), DoWhile(Bin(V(i), "<", N(2)), counted)>>
          [] kind = "for" -> <<ForLoop(V(i), List12, body)>>
TwoLoops(outer, inner, before, in_, after) ==
    Loop(outer, "i", before \o Loop(inner, "j", <<in_, V("j")>>) \o <<after, V("i")>>)
LoopPrograms ==
    {Program(TwoLoops(o, i, <<>>, s, t) \o <<S(<<"a">>)>>) :
        o \in LoopKinds, i \in LoopKinds, s \in Steps("j"), t \in Steps("i")}
    \union {Program(<<Fun("f", <<>>, TwoLoops(o, i, <<>>, s, Counted("i"))), CallTo("f", <<>>)>>) :
        o \in LoopKinds, i \in LoopKinds,
        s \in {ReturnOf(V("i")), IfThen(Bin(V("i"), "==", N(2)), <<ReturnOf(V("j"))>>, None)}}
Pairs == Multivar(<<V("a"), V("b")>>, -1)
FirstAndRest == Multivar(<<V("a"), V("b")>>, 1)
Collections == {ListOf(<<>>), List12, S(<<"a", "b">>), N(1), ListOf(<<S(<<"a", "b">>), List12>>),
                ListOf(<<List12, ListOf(<<N(1)>>)>>), ListOf(<<List12, ListOf(<<N(1), N(2), N(3)>>)>>)}
OverPrograms ==
    {Program(<<ForLoop(x, c, <<V("a"), Counted("a")>>)>>) :
        x \in {V("a"), Pairs, FirstAndRest}, c \in Collections}
    \union {Program(<<Let("l", List12),
                      ForLoop(V("a"), V("l"), <<V("a"), Bin(V("l"), "=", c), V("l")>>), V("a")>>) :
        c \in {Bin(V("l"), "+", List12), ListOf(<<>>)}}
    \union {Program(<<Comprehension(r, <<Let("a", c), Let("b", d)>>, k, e)>>) :
        r \in {V("b"), ListOf(<<V("a"), V("b")>>)}, c \in {List12, S(<<"a", "b">>)},
        d \in {List12, V("a"), ListOf(<<V("a")>>)}, k \in {None, Bin(V("a"), "==", N(1))},
        e \in {None, N(0)}}

-----------------------------------------------------------------------------
(* Calls: all ways to declare and to give arguments *)

Parameters_ ==
    {<<>>, <<Param_("x")>>, <<Param_("x"), Default_("y", N(2))>>, <<Param_("x"), Many_("z")>>,
     <<Many_("z"), Default_("y", ListOf(<<>>))>>, <<Argument("x", <<V("Int")>>, None, FALSE)>>,
     <<Argument("x", <<V("Int"), V("String")>>, S(<<"c">>), FALSE), Param_("y")>>,
     <<Default_("x", N(0)), Many_("z")>>, <<Param_("x"), Param_("y")>>}
Arguments_ == {N(1), S(<<"a">>), Let("x", N(1)), Let("y", S(<<"b">>)), UnaryExpr("<<", V("l"))}
ArgumentLists == UNION {[1 .. n -> Arguments_] : n \in 0 .. 2}
ValuesOf(params) == ListOf([i \in DOMAIN params |-> V(params[i].name)])
Body(tag, params) == <<ReturnOf(ListOf(<<S(<<tag>>), ValuesOf(params)>>))>>
Preferred == {<<>>, <<Param_("x")>>, <<Argument("x", <<V("Int")>>, None, FALSE)>>,
              <<Argument("y", <<V("Int")>>, None, FALSE)>>,
              <<Param_("x"), Default_("y", N(2))>>, <<Many_("z")>>}
CallPrograms ==
    {Program(<<Let("l", List12), Fun("f", p, Body("f", p)), CallTo("f", a)>>) :
        p \in Parameters_, a \in ArgumentLists}
    \union {Program(<<Fun("f", p, Body("f", p)), Fun("f", q, Body("g", q)), Let("x", N(2)),
                      CallTo("f", a)>>) :
        p \in Preferred, q \in Preferred, a \in {<<>>, <<N(1)>>, <<S(<<"a">>)>>, <<N(1), N(2)>>}}
    \union {Program(<<Let("l", List12), Class_("A", <<Fun("A", p, <<Let("v", N(3)),
                        BinaryExpr("=", Dot([k |-> "This"], "w"), ValuesOf(p))>>),
                      Fun("m", p, <<ReturnOf(ListOf(<<Dot([k |-> "This"], "w"), ValuesOf(p)>>))>>)>>),
                      Let("o", CallTo("A", a)), CallOf(Dot(V("o"), "m"), a), Dot(V("o"), "v")>>) :
        p \in Parameters_, a \in ArgumentLists}

-----------------------------------------------------------------------------
(* Assignments *)

Names(n) == SubSeq(<<V("a"), V("b"), V("c")>>, 1, n)
AssignPrograms ==
    {Program(<<BinaryExpr("=", Multivar(Names(p[1]), p[2]), x)>> \o Names(p[1])) :
        p \in {q \in (2 .. 3) \X (-1 .. 2) : q[2] < q[1]},
        x \in {ListOf([i \in 1 .. m |-> N(i)]) : m \in 0 .. 4} \union {S(<<"a", "b">>), N(1), V("d")}}
    \union {Program(<<Let("l", List12), Class_("A", <<Let("v", N(1))>>), Let("o", CallTo("A", <<>>)),
                      Let("x", y), BinaryExpr(op, t, r), V("l"), Dot(V("o"), "v"), V("x")>>) :
        y \in {N(1), S(<<"a">>)}, r \in {N(2), V("x"), ListOf(<<V("x")>>)},
        op \in {"=", "+=", "++=", "*="},
        t \in {V("x"), At_(V("l"), N(-1)), At_(V("l"), N(2)), Dot(V("o"), "v"), Dot(V("o"), "w"),
               Dot(V("A"), "v"), Global_("x"), At_(V("x"), N(0)), Dot(V("x"), "v"), Outer_("x")}}

-----------------------------------------------------------------------------
(* Names: stored and loaded in functions, in functions in them and in classes *)

Uses == {Let("x", N(2)), BinaryExpr("=", Outer_("x"), N(3)), BinaryExpr("=", Global_("x"), N(4)),
         BinaryExpr("+=", V("x"), N(5)), V("x"), Outer_("x"), Global_("x"), Let("y", N(6)),
         ForLoop(V("x"), ListOf(<<N(7)>>), <<>>)}
NamePrograms ==
    {Program(<<Let("x", N(1)),
               Fun("f", <<>>, <<s, Fun("g", <<>>, <<t, ReturnOf(V("x"))>>), CallTo("g", <<>>), V("x")>>),
               CallTo("f", <<>>), V("x")>>) : s \in Uses, t \in Uses}
    \union {Program(<<Let("x", N(1)),
                      Fun("f", <<Param_("x")>>, <<Fun("g", <<>>, <<t, ReturnOf(V("x"))>>),
                                                  ReturnOf(V("g"))>>),
                      Let("h", CallTo("f", <<N(8)>>)), CallTo("h", <<>>), CallTo("h", <<>>), V("x")>>) :
            t \in Uses}
    \union {Program(<<Let("x", N(1)), Class_("A", <<s, Fun("m", <<>>, <<t, ReturnOf(V("x"))>>)>>),
                      CallOf(Dot(CallTo("A", <<>>), "m"), <<>>), V("x"), Dot(V("A"), "x")>>) :
            s \in Uses, t \in Uses}

-----------------------------------------------------------------------------
(* Classes with some of these members, and what is done with their objects *)

This_ == [k |-> "This"]
Member ==
    <<Fun("A", <<Param_("x")>>, <<BinaryExpr("=", Dot(This_, "v"), V("x"))>>),
      Fun("A", <<>>, <<BinaryExpr("=", Dot(This_, "v"), S(<<"c">>)), ReturnOf(NilLiteral)>>),
      Fun("m", <<Param_("x")>>, <<ReturnOf(Bin(Dot(This_, "v"), "++", V("x")))>>),
      Fun("+", <<Param_("x")>>, <<ReturnOf(Bin(V("x"), "++", Dot(This_, "v")))>>),
      Fun("()", <<Default_("x", N(5))>>, <<ReturnOf(V("x"))>>),
      Fun("not", <<>>, <<ReturnOf(This_)>>),
      Fun("in", <<Param_("x")>>, <<ReturnOf(True)>>)>>
O == V("o")
Used == {O, Dot(O, "v"), Dot(V("A"), "v"), CallOf(Dot(O, "m"), <<N(2)>>), CallOf(Dot(V("A"), "m"), <<N(2)>>),
         Bin(O, "+", N(2)), Bin(N(2), "+", O), Bin(O, "-", N(2)), CallOf(O, <<>>), CallOf(O, <<N(1)>>),
         UnaryExpr("not", O), Bin(N(1), "in", O), Bin(O, "in", ListOf(<<>>)), Bin(O, "==", O),
         BinaryExpr("+=", O, N(2)), At_(O, N(0)), Bin(O, "!=", NilLiteral), Bin(N(1), "==", O),
         Bin(ListOf(<<N(1), O>>), "!=", ListOf(<<N(1), O>>)), Bin(O, "in", ListOf(<<O>>)),
         Bin(N(1), "in", ListOf(<<N(1), O>>)), Bin(N(2), "in", ListOf(<<N(1), O>>)),
         Bin(ListOf(<<N(1), O>>), "==", ListOf(<<N(2), O>>)),
         SwitchOf(N(2), <<CaseOf(<<N(1), O>>, <<N(3)>>, FALSE), CaseOf(<<N(2)>>, <<N(4)>>, FALSE)>>)}
ClassPrograms ==
    {Program(<<Class_("A", <<Let("v", N(3))>> \o SelectSeq(Member, LAMBDA m : m \in ms)),
               Let("o", CallTo("A", a)), u, O>>) :
        ms \in {ToSet(Member), {Member[1], Member[3]}, {Member[1], Member[2], Member[4], Member[6]},
                {Member[3], Member[5], Member[7]}, {}},
        a \in {<<>>, <<N(1)>>}, u \in Used}

-----------------------------------------------------------------------------
(* Classes that inherit: what C gets from B and A, and by which way *)

Super_ == [k |-> "Super"]
SetV == BinaryExpr("=", Dot(This_, "v"), V("x"))
OfA == <<Fun("A", <<Param_("x")>>, <<SetV>>),
         Fun("m", <<Param_("x")>>, <<ReturnOf(Bin(Dot(This_, "v"), "++", V("x")))>>),
         Fun("+", <<Argument("x", <<V("A")>>, None, FALSE)>>, <<ReturnOf(Dot(V("x"), "v"))>>)>>
OfB == <<Fun("B", <<Param_("x")>>, <<CallOf(Super_, <<Bin(V("x"), "++", S(<<"b">>))>>)>>),
         Fun("m", <<Param_("x")>>, <<ReturnOf(Bin(CallOf(Dot(Super_, "m"), <<V("x")>>), "++", Dot(This_, "v")))>>)>>
OfC == <<Let("v", N(4)), Fun("m", <<Default_("x", N(6))>>, <<ReturnOf(Dot(Super_, "v"))>>)>>
Some_(members, is) == SelectSeq(members, LAMBDA m : \E i \in is : members[i] = m)
Inheriting(as, bs, parents_, cs) ==
    <<Class_("A", <<Let("v", N(3))>> \o Some_(OfA, as)),
      ClassOf("B", <<V("A")>>, Some_(OfB, bs), <<>>, 0), Let("x", N(1)),
      ClassOf("C", parents_, Some_(OfC, cs), <<>>, 0),
      Fun("f", <<Argument("x", <<V("B"), V("String")>>, None, FALSE)>>, <<ReturnOf(Dot(V("x"), "v"))>>)>>
New_(as, bs) == Let("o", CallTo("C", IF 1 \in as \union bs THEN <<N(1)>> ELSE <<>>))
OfDerived ==
    {CallOf(Dot(O, "m"), <<N(2)>>), Dot(O, "v"), Dot(O, "w"), Bin(O, "+", O), CallTo("f", <<O>>),
     CallOf(Dot(V("C"), "m"), <<N(2)>>), Dot(V("C"), "v")}
InheritPrograms ==
    {Program(Inheriting(as, bs, p, cs) \o <<New_(as, bs), u>>) :
        as \in {{}, {2}, {1, 2, 3}}, bs \in {{}, {2}, {1, 2}}, cs \in {{}, {1, 2}}, u \in OfDerived,
        p \in {<<V("B")>>, <<V("A"), V("B")>>}}
    \union {Program(Inheriting({1}, {1}, p, {2}) \o <<New_({1}, {1}), Dot(O, "v")>>) :
        p \in {<<>>, <<V("A"), V("A")>>, <<V("x")>>, <<V("B"), V("A")>>, <<V("d")>>}}
    \union {Program(Inheriting({1, 2, 3}, {}, <<V("A")>>, {}) \o
                    <<New_({1}, {}), Let("a", CallTo("A", <<N(5)>>)), Bin(V("a"), "+", y)>>) :
        y \in {V("a"), O, N(1)}}
    \union {Program(<<Let("x", N(1)), Fun("f", <<>>, <<s>>), Class_("A", <<Fun("m", <<>>, <<s>>)>>),
                      Let("o", CallTo("A", <<>>)), u>>) :
        s \in {CallOf(Super_, <<>>), CallOf(Dot(Super_, "m"), <<>>), BinaryExpr("=", Dot(Super_, "v"), N(1)),
               Fun("g", <<Argument("x", <<V("f")>>, None, FALSE)>>, <<>>),
               Fun("g", <<Argument("y", <<V("x")>>, None, FALSE)>>, <<>>)},
        u \in {CallTo("f", <<>>), CallOf(Dot(O, "m"), <<>>)}}

-----------------------------------------------------------------------------

\* The statement s in a program that reaches it.
Within_(place, s) ==
    CASE place = "module" -> <<s>>
      [] place = "function" -> <<Fun("f", <<>>, <<s>>), CallTo("f", <<>>)>>
      [] place = "loop" -> <<WhileDo(Bin(N(1), "<", N(2)), <<s>>)>>
      [] place = "if" -> <<Let("c", True), IfThen(V("c"), <<s>>, None)>>
      [] place = "class" -> <<Class_("A", <<s>>)>>
      [] place = "method" -> <<Class_("A", <<Fun("m", <<>>, <<s>>)>>), CallOf(Dot(CallTo("A", <<>>), "m"), <<>>)>>
      [] place = "constructor" -> <<Class_("A", <<Fun("A", <<>>, <<s>>)>>), CallTo("A", <<>>)>>
      [] place = "loop in function" -> <<Fun("f", <<>>, <<ForLoop(V("i"), List12, <<s>>)>>), CallTo("f", <<>>)>>
      [] place = "function in loop" ->
           <<ForLoop(V("i"), List12, <<Fun("f", <<>>, <<s>>), CallTo("f", <<>>)>>)>>
      [] place = "function in constructor" ->
           <<Class_("A", <<Fun("A", <<>>, <<Fun("f", <<>>, <<s>>), CallTo("f", <<>>)>>)>>), CallTo("A", <<>>)>>
      [] place = "class in function" ->
           <<Fun("f", <<>>, <<Class_("A", <<s>>)>>), CallTo("f", <<>>)>>
      [] place = "after a constructor" ->
           <<Class_("A", <<Fun("A", <<>>, <<>>), Fun("m", <<>>, <<s>>)>>)>>

-----------------------------------------------------------------------------
(* Spaces, gone on with, in functions, loops and each other; enumerations *)

Space_(name, body) == SpaceOf(name, body, <<>>, 0)
InSpace == {Let("x", N(2)), Bin(V("x"), "++", N(1)), BinaryExpr("+=", V("x"), N(3)),
            Fun("g", <<Param_("y")>>, <<ReturnOf(Bin(V("x"), "++", V("y")))>>),
            Space_("T", <<Let("x", N(6))>>), Space_("S", <<Let("x", N(7))>>),
            Class_("A", <<Let("x", N(8))>>), BinaryExpr("=", Global_("x"), N(9))}
OfSpace == {Dot(V("S"), "x"), CallOf(Dot(V("S"), "g"), <<N(2)>>), Dot(Dot(V("S"), "T"), "x"),
            BinaryExpr("=", Dot(V("S"), "x"), N(4)), CallOf(Dot(V("S"), "A"), <<>>), Dot(Dot(V("S"), "S"), "x")}
SpacePrograms ==
    {Program(<<Let("x", N(1)), Space_("S", <<s>>), Space_("S", <<t>>), u, V("x")>>) :
        s \in InSpace, t \in InSpace, u \in OfSpace}
    \union {Program(Within_(p, Space_("S", <<Let("x", N(5)), s>>)) \o <<Dot(V("S"), "x")>>) :
        p \in {"function", "if", "class", "loop in function", "function in loop"}, s \in InSpace}
    \union {Program(<<Fun("f", <<>>, <<ForLoop(V("i"), List12, <<Space_("S", <<V("i"), j>>), V("i")>>), N(3)>>),
                      CallTo("f", <<>>), N(4)>>) :
        j \in {BreakLoop, ContinueLoop, ReturnOf(N(1)), V("i"),
               ForLoop(V("i"), List12, <<BreakLoop>>), Fun("g", <<>>, <<ReturnOf(N(1))>>)}}
    \union {Program(<<Space_("S", <<Let("x", N(1))>>),
                      Fun("f", <<>>, <<Space_("S", <<Let("y", N(2))>>),
                                       Fun("g", <<>>, <<Space_("S", <<Let("z", N(3))>>)>>), c, Dot(V("S"), "y")>>),
                      CallTo("f", <<>>), Dot(V("S"), "y")>>) : c \in {NilLiteral, CallTo("g", <<>>)}}

E_(name) == Dot(V("E"), name)
EnumPrograms ==
    {Program(<<EnumOf("E", <<"a", "b">>, 0), EnumOf("F", <<"a">>, 0), Let("v", x),
               Fun("f", <<Argument("x", <<V("E")>>, None, FALSE)>>, <<ReturnOf(Bin(V("x"), "==", E_("a")))>>),
               u>>) :
        x \in {E_("a"), E_("b"), Dot(V("F"), "a"), E_("c"), N(1)},
        u \in {V("v"), CallTo("f", <<V("v")>>), Bin(V("v"), "!=", E_("b")), Dot(V("v"), "a"),
               BinaryExpr("=", E_("a"), N(2)), CallOf(E_("a"), <<>>), CallTo("E", <<>>),
               Bin(V("v"), "in", ListOf(<<E_("a"), E_("b")>>)), V("a"),
               SwitchOf(V("v"), <<CaseOf(<<E_("a"), N(1)>>, <<N(3)>>, FALSE),
                                  CaseOf(<<E_("b")>>, <<N(4)>>, FALSE)>>)}}

-----------------------------------------------------------------------------
(* Conditions, constant and not *)

Conditions == {True, False, V("t"), V("f"), N(1), Bin(V("t"), "==", True), UnaryExpr("not", V("f"))}
Twice_(c, d) ==
    {<<IfThen(c, <<N(1)>>, None), IfThen(d, <<N(2)>>, ElseOf(<<N(3)>>))>>,
     <<IfThen(c, <<IfThen(d, <<N(1)>>, ElseOf(<<N(2)>>)), N(3)>>,
              ElseOf(<<IfThen(d, <<N(4)>>, None), N(5)>>)), N(6)>>,
     <<IfThen(c, <<N(1)>>, ElseOf(<<IfThen(d, <<N(2)>>, ElseOf(<<N(3)>>))>>)), N(4)>>,
     <<TernaryIf(c, TernaryIf(d, N(1), V("t")), Bin(N(3), "++", V("f")))>>,
     <<Bin(c, "&&", d)>>, <<Bin(c, "||", d)>>, <<Bin(Bin(c, "||", d), "&&", Bin(V("u"), "==", N(1)))>>,
     <<AssertThat(c, None), AssertThat(d, S(<<"b">>)), N(1)>>,
     <<WhileDo(c, <<N(1), IfThen(d, <<BreakLoop>>, None), N(2), BreakLoop>>), N(3)>>,
     <<IfThen(c, <<>>, None), RaiseOf(d), N(1)>>,
     <<ForLoop(V("i"), List12, <<IfThen(c, <<N(1)>>, ElseOf(<<ContinueLoop, N(2)>>)), N(3)>>), N(4)>>}
Cases(c, d) ==
    <<CaseOf(<<N(1), V("x")>>, c, FALSE), CaseOf(<<N(2), N(1)>>, d, FALSE)>>
ConditionPrograms ==
    {Program(<<Let("t", True), Let("f", False)>> \o b) :
        b \in UNION {Twice_(c, d) : c \in Conditions, d \in Conditions}}
    \union {Program(<<Let("x", N(3)), SwitchOf(e, default), V("x")>>) :
        e \in {N(1), N(2), N(3), N(4), V("x"), S(<<"a">>)},
        default \in {Cases(<<N(7)>>, <<>>), Cases(<<>>, <<N(8)>>)} \union
                    {Append(Cases(<<N(7)>>, <<N(8)>>), CaseOf(<<>>, <<N(9)>>, TRUE)),
                     <<CaseOf(<<>>, <<N(9)>>, TRUE)>> \o Cases(<<N(7)>>, <<N(8)>>)}}
    \union {Program(<<ForLoop(V("x"), List12, <<SwitchOf(V("x"), Cases(s, t)), V("x")>>), N(5)>>) :
        s \in {<<BreakLoop>>, <<ContinueLoop>>, <<N(7)>>}, t \in {<<BreakLoop>>, <<N(8)>>}}

-----------------------------------------------------------------------------
(* Programs that break a rule, each in several places *)

Statement == {BreakLoop, ContinueLoop, ReturnOf(NilLiteral), ReturnOf(N(1)),
              ReturnOf(UnaryExpr("~", N(1))), IfThen(UnaryExpr("~", False), <<>>, None),
              CallTo("f", <<Let("x", N(1)), Let("x", N(2))>>),
              CallTo("f", <<BinaryExpr("=", At_(V("l"), N(0)), N(1))>>),
              Fun("g", <<Param_("x"), Param_("x")>>, <<>>), Fun("g", <<Many_("x"), Param_("y")>>, <<>>),
              Fun("g", <<Default_("x", N(1)), Param_("y")>>, <<>>), Fun("+", <<Param_("x")>>, <<>>)}
Places == {"module", "function", "loop", "if", "class", "method", "constructor", "loop in function",
           "function in loop", "function in constructor", "class in function", "after a constructor"}
\* What would run forever.
Endless(place, s) == place = "loop" /\ s.k \notin {"Break", "Return"}
RulePrograms == {Program(Within_(p[1], p[2])) : p \in {q \in Places \X Statement : ~Endless(q[1], q[2])}}
                \union {Program(<<Let("g", N(1)),
                          Lambda("h", <<Param_("x")>>, Bin(V("x"), "+", V("g")), <<>>),
                          CallTo("h", a)>>) : a \in {<<N(1)>>, <<>>, <<Let("x", N(2))>>}}

MCPrograms ==
    OperatorPrograms \union LoopPrograms \union OverPrograms \union CallPrograms
    \union AssignPrograms \union NamePrograms \union ClassPrograms \union InheritPrograms
    \union SpacePrograms \union EnumPrograms \union ConditionPrograms \union RulePrograms
=============================================================================
