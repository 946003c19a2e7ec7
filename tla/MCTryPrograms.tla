--------------------------- MODULE MCTryPrograms ---------------------------
(***************************************************************************)
(* Programs for the interpreter: a module that calls a function, which may *)
(* call another, with one of the shapes below as the function's body; and  *)
(* the shapes as code of the module.  What a finally block outputs is      *)
(* above 100.                                                              *)
(***************************************************************************)
EXTENDS TryPrograms

O(x) == Source!Out(x)
T(body, all, catch, final) == Source!Try(body, all, catch, final)
L(body) == Source!Loop(body)
raise == Source!Raise
return == Source!Return
break == Source!Break
continue == Source!Continue

\* A block that outputs x, and then may do one of S.
Block(x, S) == {<<O(x)>>} \union {<<O(x), s>> : s \in S}

\* A try.  Its finally may raise unless that would be in place of an exception
\* the try does not handle.
Tries(body, catch) ==
    {T(b, all, c, <<O(104)>>) : b \in body, all \in BOOLEAN, c \in catch}
    \union {T(b, TRUE, c, <<O(104), raise>>) : b \in body, c \in catch}

\* One try, which may call a function that raises.
Flat(jumps, calls) ==
    {<<t, O(5)>> : t \in Tries(Block(2, jumps \union calls), Block(3, jumps))}

\* A try in one loop or two; every jump from its blocks.
InLoop(jumps) ==
    LET tries == Tries(Block(2, jumps \union {break, continue}),
                       Block(3, jumps \union {break, continue}))
    IN  {<<L(<<t, O(5)>>), O(6)>> : t \in tries}
        \union {<<L(<<L(<<t>>), O(5)>>), O(6)>> : t \in tries}

\* A loop in a try, left by its end, a break, or an exception this try catches.
AroundLoop(jumps) ==
    LET ways == {<<>>, <<raise>>, <<break>>, <<continue>>}
        ends == {<<>>, <<break>>, <<continue>>}
    IN  {<<T(<<L(<<O(1)>> \o x), O(2)>>, TRUE, c, <<O(104)>>), O(5)>> :
            x \in ways, c \in Block(3, jumps)}
        \union
        {<<T(<<L(<<T(<<O(1)>> \o x, TRUE, <<O(2)>> \o y, <<O(103)>>)>>), O(4)>>,
             all, <<O(5)>>, <<O(106)>>), O(7)>> :
            x \in ways, y \in ends, all \in BOOLEAN}

\* A try that is a statement of another one's body, and is left by a jump.
Nested(jumps) ==
    {<<T(<<T(<<O(1), x>>, all, <<O(2), y>>, <<O(103)>>), O(4)>>, outer,
         <<O(5)>>, <<O(106)>>), O(7)>> :
        x \in jumps, y \in jumps, all \in BOOLEAN, outer \in BOOLEAN}

\* A try in the finally block of another one.
InFinally(jumps) ==
    {<<T(<<O(1)>>, TRUE, <<O(2)>>,
         <<O(103), T(<<O(104), x>>, TRUE, <<O(105)>>, <<O(106)>>), O(107)>>), O(8)>> :
        x \in jumps}

Shapes(jumps) ==
    InLoop(jumps) \union AroundLoop(jumps) \union Nested(jumps) \union InFinally(jumps)

Callees == {<<raise>>, <<O(20)>>,
            <<T(<<O(21), raise>>, FALSE, <<O(22)>>, <<O(123)>>), O(24)>>,
            <<T(<<O(21), return>>, TRUE, <<O(22)>>, <<O(123)>>), O(24)>>}

\* The module that catches all its function raises.
Caller == <<O(11), T(<<Source!Call(2), O(12)>>, TRUE, <<O(13)>>, <<O(114)>>), O(15)>>

AllPrograms ==
    {<<Caller, f, g>> : f \in Flat({raise, return}, {Source!Call(3)}), g \in Callees}
    \union {<<Caller, f>> : f \in Shapes({raise, return})}
    \union {<<m>> : m \in Flat({raise}, {}) \union Shapes({raise})}

\* Ways out of a loop in a try that leave the try's finally block out: a
\* return, an exception the try does not handle, and one from two loops.
Skipping ==
    {<<Caller, <<T(<<L(<<O(1), x>>)>>, FALSE, <<O(3)>>, <<O(104)>>), O(5)>>>> :
        x \in {raise, return}}
    \union
    {<<Caller, <<T(<<L(<<L(<<O(1), raise>>)>>)>>, TRUE, <<O(3)>>, <<O(104)>>), O(5)>>>>}
=============================================================================
