---------------------------- MODULE TryPrograms ----------------------------
(***************************************************************************)
(* The interpreter of TryFinally on the code of a program (TryCode),       *)
(* against what the program means.                                         *)
(***************************************************************************)
EXTENDS TryFinally

CONSTANT Programs       \* the programs to run

Source == INSTANCE TryCode

\* A program as it is loaded: its code, and beside it, for the properties, the
\* program itself and what it should output and how it should end.
Loaded(p) == Source!Compile(p) @@ [program |-> p, meaning |-> Source!Meaning(p)]
meaning == code.meaning

PInit == code \in {Loaded(p) : p \in Programs} /\ Init

\* The interpreter is one thread, which goes on as long as it can.
PSpec == PInit /\ [][Next]_vars /\ WF_vars(Step)

-----------------------------------------------------------------------------
Ended == mode \in {"done", "uncaught"}

\* The program outputs what it says, in that order and no more: every block is
\* run when it is due, and once.  It ends by an exception when it says so.
AsWritten ==
    /\ IsPrefix(output, meaning.out)
    /\ Ended => /\ output = meaning.out
                /\ (mode = "uncaught") = (meaning.end = "raise")

\* After the program no handler, no finally block, no level of a loop, no
\* function's frame and no nested run is left over.
LeavesNothing ==
    mode = "done" =>
        /\ Top = 1
        /\ Frame.finally_stack = <<<<>>>>
        /\ Frame.catches = <<>>
        /\ runs = <<>>

\* Opcodes that are executed again after a finally block, and nested runs, come
\* to an end: the program terminates.
Terminates == <>Ended

\* "... and can contain finally block, which is always executed": every value
\* that the finally block of an executed try should output, the program
\* outputs.  (Values output by a finally block are those above 100.)
FinallyAlwaysRuns ==
    Ended => \A v \in ToSet(meaning.out) : v > 100 => v \in ToSet(output)
=============================================================================
