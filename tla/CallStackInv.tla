---------------------------- MODULE CallStackInv ----------------------------
(***************************************************************************)
(* The inductive invariant behind the safety of CallStack.  The stack is   *)
(* cut into runs by the global frames at their bases; a list of call       *)
(* frames is what the frames of its VM contribute to it, from the bottom   *)
(* of the stack to its top: each its own call frame and its open calls.    *)
(***************************************************************************)
EXTENDS CallStack

\* An exception may leave an argument list.
LeavesArguments == "open arguments" \in Features

\* The features with which every opcode finds its own call frame.
WorkingFeatures ==
  /\ "guarded" \notin Features
  /\ "typed call" \notin Features
  /\ "lost place" \notin Features
  /\ "reentry" \notin Features \/ ~LeavesArguments

L == Len(stack_frames)
KindOf(i) == runs[RunOf(i)].kind

\* Runs that C++ code starts for one function, which is the first on the base.
ForFunction == {"call", "native"}
StartsFunction(i) == IsBase(i) /\ KindOf(i) \in ForFunction
IsFirst(i) == i > 1 /\ StartsFunction(i - 1)

\* The frame waits in a Call for a function of another VM.
Waits(i) == i < L /\ IsBase(i + 1) /\ KindOf(i + 1) = "call"

Running == mode \in {"run", "throw", "again"}
Left == mode \in {"leave", "done"}      \* nothing runs on the base any more

-----------------------------------------------------------------------------
(* The stack. *)

\* What identifies the frames of the stack.
FramesOfStack ==
  /\ \A i \in 1 .. L : IsBase(i) =>
       stack_frames[i].frame = stack_frames[i].vm /\ stack_frames[i].call_frame = None
  /\ \A i, j \in 1 .. L :
       i < j /\ ~IsBase(i) => stack_frames[i].frame # stack_frames[j].frame

\* The program is the first run, and a module runs its code once.  A Call runs
\* another VM; without "reentry" each run has a VM of its own.
KindsOfRuns ==
  /\ \A k \in 1 .. Len(runs) :
       /\ runs[k].kind = "main" <=> k = 1
       /\ runs[k].kind \in ForFunction <=> runs[k].call_frame # None
       /\ runs[k].vm \in loaded
       /\ runs[k].kind = "call" => runs[k - 1].vm # runs[k].vm
       /\ runs[k].kind \notin ForFunction \/ "reentry" \notin Features =>
            \A j \in 1 .. k - 1 : runs[j].vm # runs[k].vm
  /\ Main \in loaded

\* The function that a run was started for is there until it returns.
FirstFrames ==
  /\ \A i \in 1 .. L : StartsFunction(i) =>
       IF i = L THEN ~Running
       ELSE /\ ~IsBase(i + 1)
            /\ stack_frames[i + 1].call_frame = runs[RunOf(i)].call_frame

StackInv ==
  FramesMatchStack /\ RunsOnStack /\ FramesOfStack /\ KindsOfRuns /\ FirstFrames

-----------------------------------------------------------------------------
(* The tries. *)

CatchesAll(f) ==
  \A i \in 1 .. Len(tries[f]) : ~tries[f][i].caught /\ tries[f][i].handles = Exception

TriesOfStack ==
  /\ \A f \in Frame \cup VM : Len(tries[f]) <= 1
  /\ \A f \in Frame : tries[f] # <<>> => \E i \in 1 .. L : stack_frames[i].frame = f

\* A VM that runs again has left its tries, and a call that waits is in none
\* that would let the exception pass.
TriesBelow ==
  /\ \A i, j \in 1 .. L :
       /\ i < j /\ IsBase(j)
       /\ \A k \in i .. j : stack_frames[k].vm = stack_frames[j].vm
       => tries[stack_frames[i].frame] = <<>>
  /\ \A k \in 1 .. Len(runs) :
       runs[k].kind \in ForFunction => tries[runs[k].vm] = <<>>
  /\ \A i \in 1 .. L : Waits(i) => CatchesAll(stack_frames[i].frame)

TriesInv == TriesOfStack /\ TriesBelow

\* A VM that does not exist yet has no tries.
TriesOfLoaded == \A m \in VM \ loaded : tries[m] = <<>>

-----------------------------------------------------------------------------
(* The call frames.  H[i][m] is how much of the list of m the frames up to *)
(* the i-th account for.  What an exception leaves behind when it leaves   *)
(* an argument list counts as part of the base of the run it was in.       *)

Matched(i) == IF stack_frames[i].call_frame = None THEN 0 ELSE 1

\* The open calls of a frame that are in the list: not those of a run that an
\* exception has left.
OpenHere(i) == IF i = L /\ Left THEN 0 ELSE Len(stack_frames[i].open)

\* The caller of a native run holds its call frame as well.
Held(i, m) ==
  IF i > 1 /\ IsBase(i) /\ KindOf(i) = "native" /\ stack_frames[i - 1].vm = m
  THEN 1 ELSE 0

Height(H, i) ==
  LET m == stack_frames[i].vm
  IN  /\ \A n \in VM \ {m} : H[i][n] = H[i - 1][n] + Held(i, n)
      /\ ~IsBase(i) => H[i][m] = H[i - 1][m] + Matched(i) + OpenHere(i)
      /\ IsBase(i) => /\ H[i][m] >= H[i - 1][m] + OpenHere(i)
                      /\ "reentry" \in Features => H[i][m] = H[i - 1][m] + OpenHere(i)

\* hang: the last open call of the top frame has lost its call frame, and the
\* exception that did this is on its way.
Lengths(H, hang) ==
  \A m \in VM :
    LET length == Len(call_frames[m]) + (IF hang /\ m = Current THEN 1 ELSE 0)
    IN  /\ H[L][m] <= length
        /\ "reentry" \in Features \/ (\E i \in 1 .. L : stack_frames[i].vm = m)
             => H[L][m] = length

\* The entries the i-th frame accounts for.
Entry(H, hang, i) ==
  LET m == stack_frames[i].vm
      h == H[i][m] - OpenHere(i)
  IN  /\ Matched(i) = 1 => call_frames[m][h] = stack_frames[i].call_frame
      /\ \A k \in 1 .. OpenHere(i) :
           i # L \/ ~hang \/ k # Len(stack_frames[i].open) =>
             call_frames[m][h + k] = stack_frames[i].open[k]
      /\ \A n \in VM \ {m} : Held(i, n) = 1 =>
           call_frames[n][H[i][n]] = runs[RunOf(i)].call_frame

\* Where the list was when a try began.
TryPosition(H, i) ==
  LET f == stack_frames[i].frame
      m == stack_frames[i].vm
      h == H[i][m] - Len(stack_frames[i].open)
  IN  tries[f] # <<>> /\ ~tries[f][1].caught /\ (i = L => ~Left) =>
        tries[f][1].cf_position = IF h = 0 THEN None ELSE call_frames[m][h]

\* Without "open arguments" a frame has no open call but the one it waits for.
OpenCalls(hang, i) ==
  /\ StartsFunction(i) => stack_frames[i].open = <<>>
  /\ Waits(i) =>
       /\ stack_frames[i].open # <<>>
       /\ Last(stack_frames[i].open) = runs[RunOf(i + 1)].call_frame
  /\ ~LeavesArguments =>
       /\ Len(stack_frames[i].open) <= 1
       /\ i < L /\ ~Waits(i) => stack_frames[i].open = <<>>
       /\ i = L /\ mode \in {"throw", "again"} /\ ~hang => stack_frames[i].open = <<>>

States(hang, i) ==
  /\ Matched(i) = 1 =>
       calls[stack_frames[i].call_frame] = IF IsFirst(i) THEN "outer" ELSE "inner"
  /\ \A k \in 1 .. OpenHere(i) :
       \/ k = Len(stack_frames[i].open) /\ (Waits(i) \/ (i = L /\ hang))
       \/ calls[stack_frames[i].open[k]] = "pending"

\* No list has an entry twice; one that two lists have belongs to C++ code.
DistinctEntries ==
  /\ \A m \in VM : \A i, j \in 1 .. Len(call_frames[m]) :
       i # j => call_frames[m][i] # call_frames[m][j]
  /\ \A m, n \in VM : \A i \in 1 .. Len(call_frames[m]), j \in 1 .. Len(call_frames[n]) :
       m # n /\ call_frames[m][i] = call_frames[n][j] =>
         calls[call_frames[m][i]] \notin {"pending", "inner"}

\* C++ code holds a call frame for one run.
DistinctHeld ==
  \A j, k \in 1 .. Len(runs) :
    j < k /\ runs[k].call_frame # None => runs[j].call_frame # runs[k].call_frame

\* What is known of the running code when an exception is on its way, or the
\* run has ended.
OnTheWay(hang) ==
  /\ hang => mode = "throw" /\ InCall /\ CatchesAll(Top.frame)
  /\ mode = "end" => Top.open = <<>>

CallsInv(H, hang) ==
  /\ \A i \in 1 .. L :
       /\ Height(H, i) /\ Entry(H, hang, i) /\ TryPosition(H, i)
       /\ OpenCalls(hang, i) /\ States(hang, i)
  /\ Lengths(H, hang) /\ DistinctEntries /\ DistinctHeld /\ HeldCallFramesAlive
  /\ OnTheWay(hang)

Heights == [Nat -> [VM -> Nat]]
CallsHold == \E H \in Heights, hang \in BOOLEAN : CallsInv(H, hang)

-----------------------------------------------------------------------------
(* The exception, for programs whose imports and callbacks are in no try    *)
(* that lets an exception pass.                                             *)

StructuredFeatures == WorkingFeatures /\ "typed callback" \notin Features

\* Whatever waits for a run catches all it lets out.
WaitingCatchesAll ==
  \A i \in 1 .. L : i < L /\ IsBase(i + 1) => CatchesAll(stack_frames[i].frame)

\* An exception is raised once, and no try of the base of a run it leaves
\* handles it.
ExceptionInv ==
  /\ mode \in {"run", "end"} => raised = None
  /\ mode \in {"run", "again", "end"} => ~by_call
  /\ mode = "throw" /\ by_call => CatchesAll(Top.frame)
  /\ mode = "leave" =>
       \A k \in 1 .. Len(tries[Top.frame]) :
         tries[Top.frame][k].caught \/ raised \notin tries[Top.frame][k].handles

RInv == ExceptionInv /\ WaitingCatchesAll

-----------------------------------------------------------------------------
(* The places: how each frame that waits is gone on with.                   *)

\* A function returns to the frame below it.
ReturnsTo(i) ==
  LET c == stack_frames[i].call_frame
  IN  c # None /\ calls[c] = "inner" => caller_addr[c] = stack_frames[i - 1].frame

\* Where the starter of the run k goes on, unless an exception has taken the
\* call frame.  Without a note the VM must be there still, and no later run
\* may be one of that VM.
Noted(k, f) ==
  IF runs[k].kind = "call"
  THEN LET c == runs[k].call_frame
       IN  calls[c] \in {"outer", "returned"} => caller_addr[c] = f
  ELSE IF runs[k - 1].vm = runs[k].vm THEN pre_call_bci[k] = f
  ELSE /\ bci[runs[k - 1].vm] = f
       /\ \A j \in k .. Len(runs) : runs[j].vm # runs[k - 1].vm

GoesOn(i) == IsBase(i) => Noted(RunOf(i), stack_frames[i - 1].frame)

\* After a call that let an exception out the VM may be lost, but the frame
\* is in no try, or in one that handles the exception.
RunsOwnCode ==
  /\ mode \in {"run", "again"} => bci[Current] = Top.frame
  /\ mode = "throw" => bci[Current] = Top.frame \/ CatchesAll(Top.frame)

PlacesInv ==
  /\ PlacesTyped /\ Len(pre_call_bci) = Len(runs)
  /\ \A i \in 2 .. L : ReturnsTo(i) /\ GoesOn(i)
  /\ RunsOwnCode

-----------------------------------------------------------------------------
IInv == StacksTyped /\ StackInv /\ TriesInv /\ TriesOfLoaded /\ CallsHold
=============================================================================
