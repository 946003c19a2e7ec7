-------------------------- MODULE TryFinallyProofs --------------------------
(***************************************************************************)
(* Proofs about TryFinally, for every code: what is shown here depends on  *)
(* nothing the generator does.                                             *)
(***************************************************************************)
EXTENDS TryFinally, SequenceLemmas

(***************************************************************************)
(* Every nested run is counted.                                            *)
(***************************************************************************)
\* A run is only left, normally or not, when there is one: what is in mode
\* "return" has been called.
RunsInv ==
  /\ IsSequence(runs)
  /\ runtime_finally_cntr \in Nat
  /\ runtime_finally_cntr >= Len(runs)
  /\ mode = "return" => runs # <<>>
  /\ \A i \in 1 .. Len(runs) : runs[i].who # "return"

\* No finally block runs when the program starts.
LEMMA RunsInit == Init => RunsInv
  BY DEF Init, RunsInv, IsSequence

\* call_finally counts the run that it starts.
LEMMA RunCalled ==
  ASSUME RunsInv, NEW off, NEW who, NEW at, who # "return", call_finally(off, who, at)
  PROVE  RunsInv'
<1> DEFINE r == [who |-> who, off |-> off, exc |-> at,
                 bci_modified |-> bci_modified, stop |-> stop]
<1>1. runs' = Append(runs, r) /\ runtime_finally_cntr' = runtime_finally_cntr + 1
      /\ mode' = "exec"
  BY DEF call_finally
<1>2. /\ IsSequence(runs') /\ Len(runs') = Len(runs) + 1
      /\ \A i \in 1 .. Len(runs) : runs'[i] = runs[i]
      /\ runs'[Len(runs) + 1] = r
  BY <1>1, SequenceAppended DEF RunsInv
<1>3. Len(runs) \in Nat
  BY DEF RunsInv, IsSequence
<1> QED BY <1>1, <1>2, <1>3 DEF RunsInv

\* Neither a run begins nor one ends, and the step does not go on behind one.
LEMMA SameRuns ==
  ASSUME RunsInv, UNCHANGED <<runs, runtime_finally_cntr>>,
         mode' = "return" => mode = "return" \/ runs # <<>>
  PROVE  RunsInv'
  BY DEF RunsInv, IsSequence

\* Every step keeps the count of nested runs.
LEMMA RunsStep == RunsInv /\ [Next]_vars => RunsInv'
<1> SUFFICES ASSUME RunsInv, [Next]_vars PROVE RunsInv'
  OBVIOUS
<1>1. CASE Opcode
  <2> USE SameRuns
  <2>1. CASE BreakTo \/ Return \/ RunFinally
    BY <2>1, RunCalled DEF BreakTo, Return, RunFinally, Plain
  <2>2. CASE Const \/ Output \/ JmpTo \/ LoopBegin \/ LoopEnd \/ Iter \/ For
             \/ Load \/ Call
    BY <2>2 DEF Const, Output, JmpTo, LoopBegin, LoopEnd, Iter, For, Load, Call,
                Plain
  <2>3. CASE Raise \/ Catch \/ PopCatch \/ StoreFinallyRegister \/ Finally
             \/ PopFinally \/ FinallyReturn
    BY <2>3 DEF Raise, Catch, PopCatch, StoreFinallyRegister, Finally,
                PopFinally, FinallyReturn, Plain
  <2> QED BY <1>1, <2>1, <2>2, <2>3 DEF Opcode
<1>2. CASE NextOpcode \/ EndOfCode \/ Stopped
  BY <1>2, SameRuns DEF NextOpcode, EndOfCode, Stopped
<1>3. CASE FinallyJumpEnds
  <2>1. runs # <<>>
    BY <1>3 DEF FinallyJumpEnds, RunsInv
  <2>2. runs' = Front(runs) /\ runtime_finally_cntr' = runtime_finally_cntr - 1
    BY <1>3 DEF FinallyJumpEnds
  <2>3. mode' # "return"
    BY <1>3, <2>1, SequenceFront DEF FinallyJumpEnds, RunsInv, Last
  <2> QED BY <2>1, <2>2, <2>3, SequenceFront DEF RunsInv, Front
<1>4. CASE CatchClause
  <2>1. CASE FinallyBeforeSearch \/ FinallyDuringSearch \/ FinallyBeforeThrow
             \/ FinallyOfPoppedFrame
    BY <2>1, RunCalled DEF FinallyBeforeSearch, FinallyDuringSearch,
       FinallyBeforeThrow, FinallyOfPoppedFrame
  <2>2. CASE BeginSearch \/ NoMatch \/ NextFrame \/ Match \/ UnwindStacks
             \/ DropFinally \/ PopFrame \/ EnterCatch \/ Throw \/ LeaveProgram
    BY <2>2, SameRuns DEF BeginSearch, NoMatch, NextFrame, Match, UnwindStacks,
       DropFinally, PopFrame, EnterCatch, Throw, LeaveProgram
  <2>3. CASE LeaveRun
    <3>1. runs # <<>> /\ runs' = Front(runs) /\ mode' # "return"
          /\ UNCHANGED runtime_finally_cntr
      BY <2>3 DEF LeaveRun
    <3> QED BY <3>1, SequenceFront DEF RunsInv, Front
  <2> QED BY <1>4, <2>1, <2>2, <2>3 DEF CatchClause
<1>5. CASE Finished \/ UNCHANGED vars
  BY <1>5, SameRuns DEF Finished, vars
<1> QED BY <1>1, <1>2, <1>3, <1>4, <1>5 DEF Next, Step

\* FinallyReturn never leaves the outermost run while a nested one is open, nor
\* a nested run unstopped: whatever exceptions leave nested runs, the counter
\* it looks at says at least how many of them there are.
THEOREM NestedRunsAreCounted == Init /\ [][Next]_vars => []NestedRunsCounted
<1>1. RunsInv => NestedRunsCounted
  BY DEF RunsInv, NestedRunsCounted
<1> QED BY RunsInit, RunsStep, <1>1, PTL
=============================================================================
