------------------------------ MODULE TryCode ------------------------------
(***************************************************************************)
(* Statements that move control (raise, return, break, continue, calls,    *)
(* loops, try with catch and finally), the bytecode that BytecodeGen emits *)
(* for them, and what the language says they do.                           *)
(*                                                                         *)
(* A block is a sequence of statements; a program is a sequence of blocks, *)
(* the first of which is the module's own code and the others the bodies   *)
(* of its functions.  Addresses count from 1.                              *)
(*                                                                         *)
(* Abstractions: values are left out, and so is every opcode that only     *)
(* computes one, but for the constant that output, raise and return load   *)
(* first (it matters when an opcode is run twice or skipped).  There is    *)
(* one type of exception: a catch is for all values or for another type.   *)
(* A try has one catch.  Every loop is a for over Iterations values.       *)
(***************************************************************************)
EXTENDS Naturals, Sequences, SequencesExt

CONSTANT Iterations     \* how many values a loop walks over

Out(l) == [k |-> "out", l |-> l]
Raise == [k |-> "raise"]
Return == [k |-> "return"]
Break == [k |-> "break"]
Continue == [k |-> "continue"]
Call(f) == [k |-> "call", fun |-> f]
Loop(b) == [k |-> "loop", body |-> b]
Try(b, all, c, f) ==
    [k |-> "try", body |-> b, all |-> all, catch |-> c, final |-> f]

-----------------------------------------------------------------------------
(* The code generator.  update_jmps gives its targets to every break and   *)
(* continue of the body that an inner loop has not given them to yet.      *)

Op(o) == [op |-> o]
Jmp(a) == [op |-> "Jmp", to |-> a]
BreakTo(w) == [op |-> "BreakTo", to |-> 0, state |-> w]

update_jmps(body, brk, cont) ==
    [i \in DOMAIN body |->
        IF body[i].op = "BreakTo" /\ body[i].to = 0
        THEN [body[i] EXCEPT !.to = IF body[i].state = "break" THEN brk ELSE cont]
        ELSE body[i]]

RECURSIVE Code(_, _), BlockCode(_, _)

LoopCode(s, a) ==
    LET pre == a + 2
        body == BlockCode(s.body, a + 3)
        end == a + 4 + Len(body)
    IN  <<Op("LoopBegin"), Op("Iter"), [op |-> "For", iter |-> a, to |-> end]>>
        \o update_jmps(body, end, pre) \o <<Jmp(pre), Op("LoopEnd")>>

\* Mutant: the jumps over the finally block are one short.
TryStatementShort(s, a) ==
    LET body == BlockCode(s.body, a + 3)
        c == a + 5 + Len(body)              \* the catch block
        catch == BlockCode(s.catch, c + 2)
        p == c + 4 + Len(catch)             \* PopCatch of a body without exception
        final == BlockCode(s.final, p + 2)
        end == p + 3 + Len(final)
    IN  <<[op |-> "Catch", all |-> s.all, addr |-> c, id |-> a],
          [op |-> "StoreNil", reg |-> a],
          [op |-> "Finally", addr |-> p + 1, caller |-> a]>>
        \o body \o <<Op("RunFinally"), Jmp(end - 1)>>
        \o <<Op("PopCatch"), [op |-> "StoreInt", reg |-> a]>>
        \o catch \o <<Op("RunFinally"), Jmp(end - 1)>>
        \o <<Op("PopCatch"), Op("PopFinally")>>
        \o final \o <<[op |-> "FinallyReturn", caller |-> a]>>

TryStatement(s, a) ==
    LET body == BlockCode(s.body, a + 3)
        c == a + 5 + Len(body)              \* the catch block
        catch == BlockCode(s.catch, c + 2)
        p == c + 4 + Len(catch)             \* PopCatch of a body without exception
        final == BlockCode(s.final, p + 2)
        end == p + 3 + Len(final)
    IN  <<[op |-> "Catch", all |-> s.all, addr |-> c, id |-> a],
          [op |-> "StoreNil", reg |-> a],
          [op |-> "Finally", addr |-> p + 1, caller |-> a]>>
        \o body \o <<Op("RunFinally"), Jmp(end)>>
        \o <<Op("PopCatch"), [op |-> "StoreInt", reg |-> a]>>
        \o catch \o <<Op("RunFinally"), Jmp(end)>>
        \o <<Op("PopCatch"), Op("PopFinally")>>
        \o final \o <<[op |-> "FinallyReturn", caller |-> a]>>

Code(s, a) ==
    CASE s.k = "out"      -> <<Op("Const"), [op |-> "Output", l |-> s.l]>>
      [] s.k = "raise"    -> <<Op("Const"), Op("Raise")>>
      [] s.k = "return"   -> <<Op("Const"), Op("Return")>>
      [] s.k = "break"    -> <<BreakTo("break")>>
      [] s.k = "continue" -> <<BreakTo("continue")>>
      [] s.k = "call"     -> <<Op("Load"), [op |-> "Call", fun |-> s.fun]>>
      [] s.k = "loop"     -> LoopCode(s, a)
      [] s.k = "try"      -> TryStatement(s, a)

BlockCode(b, a) ==
    IF b = <<>> THEN <<>>
    ELSE LET first == Code(Head(b), a)
         IN  first \o BlockCode(Tail(b), a + Len(first))

\* A function ends with a return of its own; the module's code with its end.
FunCode(prog, i, a) ==
    BlockCode(prog[i], a)
    \o IF i = 1 THEN <<Op("End")>> ELSE <<Op("Const"), Op("Return")>>

\* The code of each block of the program, one after another, and where each starts.
RECURSIVE Start(_, _)
Start(prog, i) ==
    IF i = 1 THEN 1
    ELSE Start(prog, i - 1) + Len(FunCode(prog, i - 1, 1))

Compile(prog) ==
    [code |-> FlattenSeq([i \in DOMAIN prog |-> FunCode(prog, i, Start(prog, i))]),
     entry |-> [i \in DOMAIN prog |-> Start(prog, i)]]

-----------------------------------------------------------------------------
(* What a program means: what it outputs, and how it ends.                 *)

RECURSIVE EvalBlock(_, _), Eval(_, _), EvalLoop(_, _, _)

Ends(out, end) == [out |-> out, end |-> end]
Then(r, s) == Ends(r.out \o s.out, s.end)

EvalTry(prog, s) ==
    LET b == EvalBlock(prog, s.body)
        c == IF b.end = "raise" /\ s.all THEN Then(b, EvalBlock(prog, s.catch)) ELSE b
        f == EvalBlock(prog, s.final)
    IN  Ends(c.out \o f.out, IF f.end = "normal" THEN c.end ELSE f.end)

EvalCall(prog, s) ==
    LET r == EvalBlock(prog, prog[s.fun])
    IN  Ends(r.out, IF r.end = "raise" THEN "raise" ELSE "normal")

EvalLoop(prog, s, n) ==
    IF n = 0 THEN Ends(<<>>, "normal")
    ELSE LET r == EvalBlock(prog, s.body)
         IN  CASE r.end \in {"normal", "continue"} -> Then(r, EvalLoop(prog, s, n - 1))
               [] r.end = "break" -> Ends(r.out, "normal")
               [] OTHER -> r

Eval(prog, s) ==
    CASE s.k = "out"  -> Ends(<<s.l>>, "normal")
      [] s.k = "call" -> EvalCall(prog, s)
      [] s.k = "loop" -> EvalLoop(prog, s, Iterations)
      [] s.k = "try"  -> EvalTry(prog, s)
      [] OTHER        -> Ends(<<>>, s.k)

EvalBlock(prog, b) ==
    IF b = <<>> THEN Ends(<<>>, "normal")
    ELSE LET r == Eval(prog, Head(b))
         IN  IF r.end = "normal" THEN Then(r, EvalBlock(prog, Tail(b))) ELSE r

Meaning(prog) == EvalBlock(prog, prog[1])
=============================================================================
