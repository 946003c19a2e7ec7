----------------------------- MODULE MCFrontEnd -----------------------------
(***************************************************************************)
(* The texts: expressions written from trees, and sequences of fragments   *)
(* that are put together whether that makes sense or not.                  *)
(***************************************************************************)
EXTENDS FrontEnd

CONSTANT Fragments   \* sets of fragments to put together, each a sequence of
                     \* tokens, with the number that may be put together

-----------------------------------------------------------------------------
(* Trees of two operators *)

A == Variable("a", FALSE)
B == Variable("b", FALSE)
One == IntLiteral("1")

\* Every operator with operands x and y.
Combined(x, y) ==
    {BinaryExpr(op, x, y) : op \in BinOps}
    \union {UnaryExpr("-", x), UnaryExpr("not", x), TernaryIf(x, y, B),
            TernaryIf(B, x, y), RangeOf(x, y, None), RangeOf(x, B, y),
            CallOf(x, <<y>>), CallOf(B, <<x, y>>), ListOf(<<x, y>>),
            BinaryExpr("[]", x, y), BinaryExpr(".", x, B), Lambda("", <<>>, x, <<>>)}

Simple == Combined(A, One)
Nested == UNION {Combined(x, A) \union Combined(A, x) : x \in Simple}
Assigned == {BinaryExpr(op, A, x) : op \in SetOps, x \in Simple}
            \union {BinaryExpr("=", A, BinaryExpr("+=", B, x)) : x \in Simple}
            \union {UnaryExpr("~", x) : x \in Simple \union {UnaryExpr("~", A)}}
MCTrees == Nested \union Assigned

-----------------------------------------------------------------------------
(* Fragments *)

MCId == {"a", "b", "f", "r", "d"}
MCFString == [t \in {"F"} |-> <<"'x'", "{", "a", "}", "'y'", "QUOTE">>]

Words == {<<"a">>, <<"1">>, <<"(">>, <<")">>, <<"[">>, <<"]">>, <<",">>, <<"=">>,
          <<"..">>, <<"...">>, <<"-">>, <<":">>, <<"++">>}
Lines_ == {<<"a">>, <<NL>>, <<"a", End>>, <<"if", "(", "a", ")">>, <<"{">>, <<"}">>,
           <<"else">>, <<"try">>, <<"catch", "(", "a", ")">>, <<"finally">>,
           <<"switch", "(", "a", ")">>, <<"case", "1", ":">>, <<"default", ":">>}
Members == {<<"a">>, <<NL>>, <<"}">>, <<"class", "a", "{">>, <<"space", "b", "{">>,
            <<"fun", "f", "(", ")", "{">>, <<"@", "b">>, <<"@!", "b">>, <<"d", "'t'">>,
            <<"enum", "a", "{">>, <<",">>}
Clauses == {<<NL>>, <<"if", "(", "a", ")", "a">>, <<"else", "a">>, <<"try", "a">>,
            <<"catch", "(", "a", ")", "a">>, <<"finally", "a">>}
MCFragments == {<<Words, 3>>, <<Lines_, 3>>, <<Members, 3>>, <<Clauses, 5>>}

\* A text is cut into lines after each NL; its last line may have none.
RECURSIVE Cut(_)
Cut(tokens) ==
    LET ends == {i \in DOMAIN tokens : tokens[i] = NL}
        n == CHOOSE i \in ends : \A j \in ends : i <= j
    IN  CASE tokens = <<>> -> <<>>
          [] ends = {} -> <<Append(tokens, EOF)>>
          [] OTHER -> <<SubSeq(tokens, 1, n)>> \o Cut(SubSeq(tokens, n + 1, Len(tokens)))

MCTexts == UNION {{Cut(FlattenSeq(s)) : s \in UNION {[1 .. n -> f[1]] : n \in 1 .. f[2]}} :
                  f \in Fragments}
=============================================================================
