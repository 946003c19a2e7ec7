----------------------------- MODULE TryFinally -----------------------------
(***************************************************************************)
(* How one interpreter runs code that raises, catches and has finally      *)
(* blocks: the loop of Interpreter::run, its catch clause, and the nested  *)
(* runs that call_finally starts for a finally block.                      *)
(*                                                                         *)
(* A finally block is ordinary code.  It is run by a nested run() on the   *)
(* same frames, with the address to come back to in a constant register of *)
(* its try (nil while the try block runs, -1 once a catch block has        *)
(* started); FinallyReturn jumps there and stops the nested run.  What     *)
(* called it then usually executes the same opcode again.                  *)
(*                                                                         *)
(* The code is fixed in the first state; its opcodes are those of TryCode. *)
(* Addresses count from 1, so that 0 can stand for nil.                    *)
(***************************************************************************)
EXTENDS Integers, Sequences, SequencesExt

CONSTANTS
    Iterations,     \* how many values a loop walks over
    MaxOutput       \* bound: how many values a program may output

ASSUME BoundsAssumption == Iterations \in Nat \ {0} /\ MaxOutput \in Nat

VARIABLES
    code,           \* the opcodes, and where each block starts
    bci,            \* the address of the opcode to execute
    bci_modified,   \* it was set, so the run must not step over it
    stop,           \* the innermost run has to return
    runtime_finally_cntr,   \* how many nested runs have not returned
    frames,         \* the frames, from the module's to the innermost function's
    runs,           \* the nested runs, each with what its caller goes on with
    mode,           \* what the innermost run is doing
    exc,            \* the handler and the frame the catch clause is at
    output          \* what the program has output

vars == <<code, bci, bci_modified, stop, runtime_finally_cntr, frames, runs,
          mode, exc, output>>

Nil == 0            \* the register of a try while its body runs

Op == code.code[bci]
Top == Len(frames)
Frame == frames[Top]
Level == Last(Frame.finally_stack)      \* MemoryPool::get_finally_stack
has_finally == Level # <<>>
FinallyOp == code.code[Last(Level)]
is_try_not_in_catch == Frame.caller[FinallyOp.caller] = Nil

NewFrame(ret) ==
    [finally_stack |-> <<<<>>>>, catches |-> <<>>, caller |-> <<>>,
     iter |-> <<>>, consts |-> {}, caller_addr |-> ret]

Set(f, k, v) == [x \in DOMAIN f \union {k} |-> IF x = k THEN v ELSE f[x]]
WithLevel(f, l) == [f EXCEPT !.finally_stack = Append(Front(@), l)]
SetTop(f) == frames' = [frames EXCEPT ![Top] = f]

Nowhere == [frame |-> 0, catches |-> <<>>, id |-> 0, addr |-> 0, level |-> 0]

Init ==
    /\ bci = code.entry[1]
    /\ bci_modified = FALSE
    /\ stop = FALSE
    /\ runtime_finally_cntr = 0
    /\ frames = <<NewFrame(0)>>
    /\ runs = <<>>
    /\ mode = "exec"
    /\ exc = Nowhere
    /\ output = <<>>

-----------------------------------------------------------------------------
(* Opcodes.  An opcode that ends normally leaves the run at "step".        *)

set_bci(a) == bci' = a /\ bci_modified' = TRUE
NoJump == UNCHANGED <<bci, bci_modified>>
\* The opcode touches only its frame and output.
Plain ==
    /\ mode' = "step"
    /\ UNCHANGED <<code, stop, runtime_finally_cntr, runs, exc>>

\* Mutant: the nested run is not counted.
call_finallyUncounted(off, who, at) ==
    /\ SetTop([Frame EXCEPT !.caller = Set(@, FinallyOp.caller, bci)])
    /\ bci' = (FinallyOp.addr + off) - (IF is_try_not_in_catch THEN 1 ELSE 0)
    /\ UNCHANGED runtime_finally_cntr
    /\ runs' = Append(runs, [who |-> who, off |-> off, exc |-> at,
                             bci_modified |-> bci_modified, stop |-> stop])
    /\ mode' = "exec"
    /\ UNCHANGED <<code, bci_modified, stop, exc, output>>

\* call_finally and the part of runtime_finally_jump before its run(): `who`
\* is what goes on after it, at `at`.
call_finally(off, who, at) ==
    /\ SetTop([Frame EXCEPT !.caller = Set(@, FinallyOp.caller, bci)])
    /\ bci' = (FinallyOp.addr + off) - (IF is_try_not_in_catch THEN 1 ELSE 0)
    /\ runtime_finally_cntr' = runtime_finally_cntr + 1
    /\ runs' = Append(runs, [who |-> who, off |-> off, exc |-> at,
                             bci_modified |-> bci_modified, stop |-> stop])
    /\ mode' = "exec"
    /\ UNCHANGED <<code, bci_modified, stop, exc, output>>

Exec(op) == mode = "exec" /\ Op.op = op

\* A constant is loaded, output, or found missing because its load was skipped.
Const ==
    /\ Exec("Const")
    /\ SetTop([Frame EXCEPT !.consts = @ \union {bci}])
    /\ NoJump /\ Plain /\ UNCHANGED output

Output ==
    /\ Exec("Output")
    /\ Len(output) < MaxOutput
    /\ bci - 1 \in Frame.consts
    /\ output' = Append(output, Op.l)
    /\ NoJump /\ Plain /\ UNCHANGED frames

JmpTo ==
    /\ Exec("Jmp")
    /\ set_bci(Op.to)
    /\ Plain /\ UNCHANGED <<frames, output>>

LoopBegin ==
    /\ Exec("LoopBegin")
    /\ SetTop([Frame EXCEPT !.finally_stack = Append(@, <<>>)])
    /\ NoJump /\ Plain /\ UNCHANGED output

LoopEnd ==
    /\ Exec("LoopEnd")
    /\ Level = <<>>
    /\ SetTop([Frame EXCEPT !.finally_stack = Front(@)])
    /\ NoJump /\ Plain /\ UNCHANGED output

\* Iter and the For that follows it keep the iterator under the loop's address.
Iter ==
    /\ Exec("Iter")
    /\ SetTop([Frame EXCEPT !.iter = Set(@, bci - 1, 0)])
    /\ NoJump /\ Plain /\ UNCHANGED output

For ==
    /\ Exec("For")
    /\ IF Frame.iter[Op.iter] < Iterations
       THEN /\ SetTop([Frame EXCEPT !.iter[Op.iter] = @ + 1])
            /\ NoJump
       ELSE set_bci(Op.to) /\ UNCHANGED frames
    /\ Plain /\ UNCHANGED output

\* break and continue run the innermost finally, come back, and try again.
BreakTo ==
    /\ Exec("BreakTo")
    /\ IF has_finally
       THEN call_finally(0, "op", Nowhere)
       ELSE set_bci(Op.to) /\ Plain /\ UNCHANGED <<frames, output>>

Load ==
    /\ Exec("Load")
    /\ NoJump /\ Plain /\ UNCHANGED <<frames, output>>

Call ==
    /\ Exec("Call")
    /\ frames' = Append(frames, NewFrame(bci + 1))
    /\ set_bci(code.entry[Op.fun])
    /\ Plain /\ UNCHANGED output

\* Mutant: Return does not look for finally blocks.
ReturnAtOnce ==
    /\ Exec("Return")
    /\ frames' = Front(frames)
    /\ set_bci(Frame.caller_addr)
    /\ Plain /\ UNCHANGED output

\* Return looks at the innermost level of finally blocks only.
Return ==
    /\ Exec("Return")
    /\ IF has_finally
       THEN call_finally(0, "op", Nowhere)
       ELSE /\ frames' = Front(frames)
            /\ set_bci(Frame.caller_addr)
            /\ Plain /\ UNCHANGED output

Raise ==
    /\ Exec("Raise")
    /\ mode' = "catch"
    /\ UNCHANGED <<code, bci, bci_modified, stop, runtime_finally_cntr, frames,
                   runs, exc, output>>

Catch ==
    /\ Exec("Catch")
    /\ SetTop([Frame EXCEPT !.catches =
                   Append(@, [id |-> Op.id, all |-> Op.all, addr |-> Op.addr,
                              level |-> Len(Frame.finally_stack)])])
    /\ NoJump /\ Plain /\ UNCHANGED output

PopCatch ==
    /\ Exec("PopCatch")
    /\ Frame.catches # <<>>
    /\ SetTop([Frame EXCEPT !.catches = Front(@)])
    /\ NoJump /\ Plain /\ UNCHANGED output

\* The register of a try is nil in its body and -1 in its catch block.
StoreFinallyRegister ==
    /\ Exec("StoreNil") \/ Exec("StoreInt")
    /\ SetTop([Frame EXCEPT !.caller =
                   Set(@, Op.reg, IF Op.op = "StoreNil" THEN Nil ELSE -1)])
    /\ NoJump /\ Plain /\ UNCHANGED output

\* Mutant: the address of the block is pushed instead of the opcode.
FinallyAddress ==
    /\ Exec("Finally")
    /\ SetTop(WithLevel(Frame, Append(Level, Op.addr)))
    /\ NoJump /\ Plain /\ UNCHANGED output
Finally ==
    /\ Exec("Finally")
    /\ SetTop(WithLevel(Frame, Append(Level, bci)))
    /\ NoJump /\ Plain /\ UNCHANGED output

PopFinally ==
    /\ Exec("PopFinally")
    /\ has_finally
    /\ SetTop(WithLevel(Frame, Front(Level)))
    /\ NoJump /\ Plain /\ UNCHANGED output

FinallyReturn ==
    /\ Exec("FinallyReturn")
    /\ IF Frame.caller[Op.caller] > 0
       THEN set_bci(Frame.caller[Op.caller])
       ELSE NoJump
    /\ stop' = (stop \/ runtime_finally_cntr > 0)
    /\ mode' = "step"
    /\ UNCHANGED <<code, runtime_finally_cntr, frames, runs, exc, output>>

RunFinally ==
    /\ Exec("RunFinally")
    /\ IF has_finally
       THEN call_finally(0, "op", Nowhere)
       ELSE NoJump /\ Plain /\ UNCHANGED <<frames, output>>

-----------------------------------------------------------------------------
(* The loop of run(): after each opcode, and its end.                      *)

NextOpcode ==
    /\ mode = "step" /\ ~stop
    /\ bci' = IF bci_modified THEN bci ELSE bci + 1
    /\ bci_modified' = FALSE
    /\ mode' = "exec"
    /\ UNCHANGED <<code, stop, runtime_finally_cntr, frames, runs, exc, output>>

EndOfCode ==
    /\ Exec("End")
    /\ mode' = IF runs = <<>> THEN "done" ELSE "return"
    /\ UNCHANGED <<code, bci, bci_modified, stop, runtime_finally_cntr, frames,
                   runs, exc, output>>

Stopped ==
    /\ mode = "step" /\ stop
    /\ stop' = FALSE
    /\ mode' = IF runs = <<>> THEN "done" ELSE "return"
    /\ UNCHANGED <<code, bci, bci_modified, runtime_finally_cntr, frames, runs,
                   exc, output>>

\* The rest of runtime_finally_jump, after its run() returned.
FinallyJumpEnds ==
    LET r == Last(runs)
    IN  /\ mode = "return"
        /\ runtime_finally_cntr' = runtime_finally_cntr - 1
        /\ bci' = IF r.off = 0 THEN bci - 1 ELSE bci
        /\ bci_modified' = r.bci_modified
        /\ stop' = r.stop
        /\ runs' = Front(runs)
        /\ exc' = r.exc
        /\ mode' = IF r.who = "op" THEN "step" ELSE r.who
        /\ UNCHANGED <<code, frames, output>>

-----------------------------------------------------------------------------
(* The catch clause of run().                                              *)

\* A finally that is due before the search: its catch block or the finally
\* itself raised.  The raising opcode is executed again after it.
FinallyBeforeSearch ==
    /\ mode = "catch"
    /\ has_finally /\ ~is_try_not_in_catch
    /\ call_finally(0, "step", Nowhere)

Look(i) == [Nowhere EXCEPT !.frame = i, !.catches = frames[i].catches]

BeginSearch ==
    /\ mode = "catch"
    /\ ~(has_finally /\ ~is_try_not_in_catch)
    /\ exc' = Look(Top)
    /\ mode' = "search"
    /\ UNCHANGED <<code, bci, bci_modified, stop, runtime_finally_cntr, frames,
                   runs, output>>

ec == Last(exc.catches)
OtherTry == exc.id \notin {0, ec.id}

\* Before the catches of an outer try, the finally of the inner one.
FinallyDuringSearch ==
    /\ mode = "search" /\ exc.catches # <<>>
    /\ OtherTry /\ has_finally
    /\ call_finally(0, "search", [exc EXCEPT !.id = ec.id])

NoMatch ==
    /\ mode = "search" /\ exc.catches # <<>>
    /\ ~(OtherTry /\ has_finally) /\ ~ec.all
    /\ exc' = [exc EXCEPT !.catches = Front(@), !.id = ec.id]
    /\ UNCHANGED <<code, bci, bci_modified, stop, runtime_finally_cntr, frames,
                   runs, mode, output>>

NextFrame ==
    /\ mode = "search" /\ exc.catches = <<>> /\ exc.frame > 1
    /\ exc' = Look(exc.frame - 1)
    /\ UNCHANGED <<code, bci, bci_modified, stop, runtime_finally_cntr, frames,
                   runs, mode, output>>

\* Mutant: the address of the catch block is not set.
MatchInPlace ==
    /\ mode = "search" /\ exc.catches # <<>>
    /\ ~(OtherTry /\ has_finally) /\ ec.all
    /\ set_bci(bci)
    /\ exc' = [Nowhere EXCEPT !.frame = exc.frame, !.addr = ec.addr, !.level = ec.level]
    /\ mode' = "pop"
    /\ UNCHANGED <<code, stop, runtime_finally_cntr, frames, runs, output>>

\* handle_exception sets the address first, then pops the frames.
Match ==
    /\ mode = "search" /\ exc.catches # <<>>
    /\ ~(OtherTry /\ has_finally) /\ ec.all
    /\ set_bci(ec.addr)
    /\ exc' = [Nowhere EXCEPT !.frame = exc.frame, !.addr = ec.addr, !.level = ec.level]
    /\ mode' = "pop"
    /\ UNCHANGED <<code, stop, runtime_finally_cntr, frames, runs, output>>

Uncaught == mode = "search" /\ exc.catches = <<>> /\ exc.frame = 1

FinallyBeforeThrow ==
    /\ Uncaught /\ has_finally
    /\ call_finally(0, "step", Nowhere)

\* unwind_stacks
UnwindStacks ==
    /\ Uncaught /\ ~has_finally
    /\ exc' = [Nowhere EXCEPT !.frame = 1]
    /\ mode' = "pop"
    /\ UNCHANGED <<code, bci, bci_modified, stop, runtime_finally_cntr, frames,
                   runs, output>>

\* Mutant: the block is called with its PopFinally.
FinallyPoppedTwice ==
    /\ mode = "pop" /\ Top > exc.frame /\ has_finally
    /\ call_finally(0, "popped", exc)

\* pop_frame runs the finally blocks of the frame it pops: each is called
\* past its PopFinally, and popped when it has been run.
FinallyOfPoppedFrame ==
    /\ mode = "pop" /\ Top > exc.frame /\ has_finally
    /\ call_finally(2, "popped", exc)

DropFinally ==
    /\ mode = "popped"
    /\ has_finally
    /\ SetTop(WithLevel(Frame, Front(Level)))
    /\ mode' = "pop"
    /\ UNCHANGED <<code, bci, bci_modified, stop, runtime_finally_cntr, runs,
                   exc, output>>

PopFrame ==
    /\ mode = "pop" /\ Top > exc.frame /\ ~has_finally
    /\ frames' = Front(frames)
    /\ UNCHANGED <<code, bci, bci_modified, stop, runtime_finally_cntr, runs,
                   mode, exc, output>>

\* The loop that restores the levels compares its counter with a difference
\* that shrinks as it pops: it pops half of them, rounded up.
ToPop == ((Len(Frame.finally_stack) - exc.level) + 1) \div 2

\* Mutant: the levels of the loops that were left stay.
EnterCatchWithLevels ==
    /\ mode = "pop" /\ Top = exc.frame /\ exc.addr # 0
    /\ exc' = Nowhere
    /\ mode' = "step"
    /\ UNCHANGED <<code, bci, bci_modified, stop, runtime_finally_cntr, frames, runs,
                   output>>

EnterCatch ==
    /\ mode = "pop" /\ Top = exc.frame /\ exc.addr # 0
    /\ LET kept == Len(Frame.finally_stack) - ToPop
       IN  /\ \A i \in (kept + 1)..Len(Frame.finally_stack) :
                  Frame.finally_stack[i] = <<>>
           /\ SetTop([Frame EXCEPT !.finally_stack = SubSeq(@, 1, kept)])
    /\ exc' = Nowhere
    /\ mode' = "step"
    /\ UNCHANGED <<code, bci, bci_modified, stop, runtime_finally_cntr, runs, output>>

\* throw v: the innermost run ends, and runtime_finally_jump restores nothing.
\* If an opcode called it, the opcode raises; the catch clause and what it
\* calls do not catch.
Throw ==
    /\ mode = "pop" /\ Top = exc.frame /\ exc.addr = 0
    /\ mode' = "throw"
    /\ exc' = Nowhere
    /\ UNCHANGED <<code, bci, bci_modified, stop, runtime_finally_cntr, frames,
                   runs, output>>

LeaveRun ==
    /\ mode = "throw" /\ runs # <<>>
    /\ runs' = Front(runs)
    /\ mode' = IF Last(runs).who = "op" THEN "catch" ELSE "throw"
    /\ UNCHANGED <<code, bci, bci_modified, stop, runtime_finally_cntr, frames,
                   exc, output>>

LeaveProgram ==
    /\ mode = "throw" /\ runs = <<>>
    /\ mode' = "uncaught"
    /\ UNCHANGED <<code, bci, bci_modified, stop, runtime_finally_cntr, frames,
                   runs, exc, output>>

Finished ==
    /\ mode \in {"done", "uncaught"}
    /\ UNCHANGED vars

-----------------------------------------------------------------------------
Opcode ==
    \/ Const \/ Output \/ JmpTo \/ LoopBegin \/ LoopEnd \/ Iter \/ For \/ BreakTo
    \/ Load \/ Call \/ Return \/ Raise \/ Catch \/ PopCatch
    \/ StoreFinallyRegister \/ Finally \/ PopFinally \/ FinallyReturn \/ RunFinally

CatchClause ==
    \/ FinallyBeforeSearch \/ BeginSearch \/ FinallyDuringSearch \/ NoMatch
    \/ NextFrame \/ Match \/ FinallyBeforeThrow \/ UnwindStacks
    \/ FinallyOfPoppedFrame \/ DropFinally \/ PopFrame \/ EnterCatch \/ Throw
    \/ LeaveRun \/ LeaveProgram

Step == Opcode \/ NextOpcode \/ EndOfCode \/ Stopped \/ FinallyJumpEnds \/ CatchClause

Next == Step \/ Finished

-----------------------------------------------------------------------------
TypeOK ==
    /\ bci \in Nat
    /\ bci_modified \in BOOLEAN
    /\ stop \in BOOLEAN
    /\ runtime_finally_cntr \in Nat
    /\ frames # <<>>
    /\ \A f \in ToSet(frames) :
          /\ f.finally_stack # <<>>
          /\ \A l \in ToSet(f.finally_stack) : \A a \in ToSet(l) :
                code.code[a].op = "Finally"
          /\ \A c \in ToSet(f.catches) : code.code[c.addr].op = "PopCatch"
    /\ mode \in {"exec", "step", "return", "catch", "search", "pop", "popped",
                 "throw", "done", "uncaught"}
    /\ output \in Seq(Nat)

\* What the code asserts: MemoryPool::pop_catch, pop_finally, pop_finally_stack
\* and load find what they need, whatever way the opcode was reached, and
\* pop_frame finds more than the module's frame.
AssertionsHold ==
    /\ Exec("PopCatch") => Frame.catches # <<>>
    /\ Exec("PopFinally") \/ mode = "popped" => has_finally
    /\ Exec("LoopEnd") => Level = <<>>
    /\ Exec("Output") => bci - 1 \in Frame.consts
    /\ Exec("Return") /\ ~has_finally => Top > 1
    /\ mode = "pop" => Top >= exc.frame
    /\ mode = "pop" /\ Top = exc.frame /\ exc.addr # 0 => Level = <<>> \/ ToPop = 0

\* FinallyReturn stops a run whenever there are nested ones: an exception that
\* leaves a nested run skips the decrement, so the counter may say more than
\* there are, never less.
NestedRunsCounted == runtime_finally_cntr >= Len(runs)

\* A finally block is only reached by call_finally, never by falling into it:
\* FinallyReturn, which stops the run, is not executed by the outermost one.
FinallyIsNested == Exec("FinallyReturn") => runs # <<>>
=============================================================================
