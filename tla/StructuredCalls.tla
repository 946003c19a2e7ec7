-------------------------- MODULE StructuredCalls --------------------------
(***************************************************************************)
(* What calls and exceptions mean to a moss program, whatever interpreters *)
(* and C++ calls are behind them: a stack of activations, each with the    *)
(* try blocks it is in.  An exception leaves activations one by one until  *)
(* the innermost try that handles it, or native code, stops it.            *)
(***************************************************************************)
EXTENDS Naturals, Sequences

CONSTANTS
  Exception,  \* kinds of exceptions
  Swallowed,  \* those that native code stops (StopIteration)
  None        \* no exception

VARIABLES
  stack,      \* activations of moss code, with their tries, and of native
              \* code that called back
  raised,     \* the exception that is looking for its handler
  in_place    \* the code that goes on is that of the top activation, if no
              \* exception is on its way

Moss(tries) == [native |-> FALSE, tries |-> tries]
Native == [native |-> TRUE, tries |-> <<>>]

Top == stack[Len(stack)]
Without(n) == SubSeq(stack, 1, Len(stack) - n)
Handles(a, e) == \E k \in 1 .. Len(a.tries) : e \in a.tries[k]

Init == stack = <<Moss(<<>>)>> /\ raised = None /\ in_place = TRUE

\* A function, or the code of an imported module.
Call == stack' = Append(stack, Moss(<<>>))

\* Native code that calls a function back.
Callback == stack' = stack \o <<Native, Moss(<<>>)>>

Return == stack' = Without(1)

Try(handled) ==
  stack' = [stack EXCEPT ![Len(stack)].tries = Append(@, handled)]

EndTry ==
  /\ Top.tries # <<>>
  /\ stack' = [stack EXCEPT ![Len(stack)].tries = SubSeq(@, 1, Len(@) - 1)]

Run ==
  /\ raised = None /\ stack # <<>>
  /\ \/ (Call \/ Callback \/ Return \/ EndTry) /\ UNCHANGED raised
     \/ (\E handled \in SUBSET Exception : Try(handled)) /\ UNCHANGED raised
     \/ raised' \in Exception /\ UNCHANGED stack

\* The exception leaves n activations, none of which handles it.
Leaves(n) ==
  /\ raised # None
  /\ n \in 0 .. Len(stack)
  /\ \A i \in Len(stack) - n + 1 .. Len(stack) : ~Handles(stack[i], raised)

\* It leaves the innermost try of the top activation, which does not handle it.
LeaveTry ==
  /\ raised # None /\ stack # <<>> /\ Top.tries # <<>>
  /\ raised \notin Top.tries[Len(Top.tries)]
  /\ EndTry /\ UNCHANGED raised

Propagate(n) == Leaves(n) /\ stack' = Without(n) /\ UNCHANGED raised

Swallow ==
  /\ Leaves(1) /\ Top.native /\ raised \in Swallowed
  /\ stack' = Without(1)
  /\ raised' = None

\* It is caught n activations further out, by the innermost try there.
Catch(n) ==
  /\ Leaves(n) /\ n < Len(stack)
  /\ LET tries == stack[Len(stack) - n].tries
     IN  \E k \in 1 .. Len(tries) :
           /\ raised \in tries[k]
           /\ \A l \in k + 1 .. Len(tries) : raised \notin tries[l]
           /\ stack' = Append(Without(n + 1), Moss(SubSeq(tries, 1, k - 1)))
  /\ raised' = None

Step ==
  \/ Run
  \/ LeaveTry \/ Swallow
  \/ \E n \in 0 .. Len(stack) : Propagate(n) \/ Catch(n)

\* A step moves the program within one activation, or to another one.
Next == [Step]_<<stack, raised>> /\ in_place' = TRUE

Spec == Init /\ [][Next]_<<stack, raised, in_place>>
=============================================================================
