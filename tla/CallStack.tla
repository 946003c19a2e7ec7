----------------------------- MODULE CallStack -----------------------------
(***************************************************************************)
(* Calls, imports and exceptions across the interpreters of one program    *)
(* (vm/interpreter.cpp, and call, runtime_call, Return, load_module and    *)
(* the try opcodes of bytecode/opcode.cpp).                                *)
(*                                                                         *)
(* Every imported module has its own interpreter (VM).  A VM has a stack   *)
(* of frames and one of call frames; a third stack, stack_frames, is       *)
(* shared by all VMs and is what the search for a handler walks.  The      *)
(* fourth stack is that of C++: Interpreter::run calls itself for a        *)
(* function of another VM, for a callback from native code and for an      *)
(* import, and each of these pushes the global frame of the VM it runs     *)
(* once more as the base of its frames.                                    *)
(*                                                                         *)
(* The bytecode is arbitrary code the generator can emit: any opcode may   *)
(* come next, tries and arguments are properly nested.  Finally blocks are *)
(* empty here, and a frame is in at most one try at a time (what nested    *)
(* tries do is the subject of another module).  Features restricts what a  *)
(* program does to what is known to work; see the README.                  *)
(***************************************************************************)
EXTENDS Naturals, Sequences, FiniteSets

CONSTANTS
  VM,          \* interpreters; also stands for their global frames
  Main,        \* the interpreter of the program
  Frame,       \* addresses of the frames of functions and class bodies
  CallFrame,   \* addresses of call frames
  Exception,   \* classes of exceptions
  Swallowed,   \* the ones native code handles itself (StopIteration)
  None,        \* a null pointer
  Features     \* what the program does, beyond calling its own functions
               \* and those of the modules it imports:
               \*   "callback"        native code calls functions back
               \*   "reentry"         a VM runs again while it waits for a
               \*                     function of another VM, or a callback
               \*   "open arguments"  an exception leaves an argument list
               \*   "guarded"         the VM that runs again is in a try
               \*   "lost place"      another VM runs it again while it waits
               \*                     for a callback to that VM, or an import
               \*   "typed call"      a call, or "typed callback" a callback
               \*                     or an import, is in a try that does
               \*                     not catch everything

ASSUME CallStackAssumption ==
  /\ Main \in VM /\ VM \cap Frame = {}
  /\ None \notin VM \cup Frame \cup CallFrame \cup Exception
  /\ Swallowed \subseteq Exception

VARIABLES
  frames,       \* Interpreter::frames of each VM
  call_frames,  \* Interpreter::call_frames of each VM
  stack_frames, \* Interpreter::stack_frames: frame, its VM, its call frame,
                \* and how far its code is: the calls whose arguments it is
                \* evaluating, or which it waits for
  calls,        \* state of a call frame: free, pending (not matched to a
                \* frame), inner, outer (Return stops the run) or returned
                \* (extern_return_value is set)
  tries,        \* the try statements a frame is in: MemoryPool::catches
                \* while in the body, a finally only once it has caught
  runs,         \* the C++ activations of run, with the call frame that the
                \* caller of run still holds
  imports,      \* TracingGC::currently_imported_modules
  loaded,       \* the VMs that exist
  mode,         \* where the innermost activation is: in an opcode, in the
                \* catch clause of run, at an opcode that is to be executed
                \* again, or out of run (normally or not)
  raised,       \* the exception a catch clause of C++ holds
  by_call,      \* it came out of a call, a callback or an import
  bci,          \* Interpreter::bci of each VM: the frame whose code it is in,
                \* or none if that frame is gone
  caller_addr,  \* of a call frame, set by Call: the same of the caller
  pre_call_bci  \* what Interpreter::runtime_call will put bci back to, for
                \* each activation of run that it started

\* Where the code of each VM is, and where it will go on.
places == <<bci, caller_addr, pre_call_bci>>

vars == <<frames, call_frames, stack_frames, calls, tries, runs, imports,
          loaded, mode, raised, by_call, bci, caller_addr, pre_call_bci>>

Mode == {"run", "throw", "again", "end", "leave", "done"}
CallState == {"free", "pending", "inner", "outer", "returned"}
StackFrame == [frame : Frame \cup VM, vm : VM,
               call_frame : CallFrame \cup {None}, open : Seq(CallFrame)]
Try == [caught : BOOLEAN, handles : SUBSET Exception,
        cf_position : CallFrame \cup {None}]
Activation == [vm : VM, kind : {"main", "import", "call", "native"},
               call_frame : CallFrame \cup {None}]

\* Of some positions of a stack, the one nearest to its bottom or its top.
Outermost(S) == CHOOSE i \in S : \A j \in S : i <= j
Innermost(S) == CHOOSE i \in S : \A j \in S : j <= i

Last(s) == s[Len(s)]
Front(s) == SubSeq(s, 1, Len(s) - 1)

\* The interpreter that runs, its top frame and its top call frame.
Current  == Last(runs).vm
Top      == Last(stack_frames)
TopFrame == Last(frames[Current])
TopCall  == IF call_frames[Current] = <<>> THEN None
            ELSE Last(call_frames[Current])

\* The interpreter that called run.
Caller == runs[Len(runs) - 1].vm

\* The running code has an argument list open, or is between two statements.
InCall == Top.open # <<>>
AtStatement == mode = "run" /\ ~InCall

\* The next opcode is the Call of the innermost argument list; what a Call
\* does with another call frame than its own is not followed.
AtCall == mode = "run" /\ InCall /\ TopCall = Last(Top.open)

-----------------------------------------------------------------------------
Init ==
  /\ frames = [m \in VM |-> IF m = Main THEN <<Main>> ELSE <<>>]
  /\ call_frames = [m \in VM |-> <<>>]
  /\ stack_frames =
       <<[frame |-> Main, vm |-> Main, call_frame |-> None, open |-> <<>>]>>
  /\ calls = [c \in CallFrame |-> "free"]
  /\ tries = [f \in Frame \cup VM |-> <<>>]
  /\ runs = <<[vm |-> Main, kind |-> "main", call_frame |-> None]>>
  /\ imports = <<>>
  /\ loaded = {Main}
  /\ mode = "run" /\ raised = None /\ by_call = FALSE
  /\ bci = [m \in VM |-> m]
  /\ caller_addr = [c \in CallFrame |-> None]
  /\ pre_call_bci = <<None>>

-----------------------------------------------------------------------------
(* Building blocks. *)

\* new MemoryPool: an address no stack holds.
Fresh(f) == f \in Frame /\ \A m \in VM : \A i \in 1 .. Len(frames[m]) : frames[m][i] # f

\* new CallFrame: an address that is in no list of call frames.
FreshCall(c) ==
  /\ calls[c] = "free"
  /\ \A m \in VM : \A i \in 1 .. Len(call_frames[m]) : call_frames[m][i] # c

\* Interpreter::push_frame for the frames fs of m, on the stack s; the last
\* of them is matched with the call frame c.
PushFrames(m, fs, c, s) ==
  /\ frames' = [frames EXCEPT ![m] = @ \o fs]
  /\ stack_frames' = s \o
       [i \in 1 .. Len(fs) |->
          [frame |-> fs[i], vm |-> m, open |-> <<>>,
           call_frame |-> IF i = Len(fs) THEN c ELSE None]]

\* The list of open calls of the top frame becomes open, on the stack s.
WithOpen(s, open) == [s EXCEPT ![Len(s)].open = open]

\* Mutant: pop_frame pops stack_frames only.
FramesKept(n) == frames

\* Interpreter::pop_frame, n times, on the running VM.
FramesWithout(n) == [frames EXCEPT ![Current] = SubSeq(@, 1, Len(@) - n)]
StackWithout(n) == SubSeq(stack_frames, 1, Len(stack_frames) - n)

\* The tries of a frame of a function go with it.
TriesWithout(n) ==
  LET fs     == frames[Current]
      popped == {fs[i] : i \in Len(fs) - n + 1 .. Len(fs)} \cap Frame
  IN  [f \in Frame \cup VM |-> IF f \in popped THEN <<>> ELSE tries[f]]

\* Mutant: the call frame stays in the list.
DropNothing(m) == call_frames

\* Interpreter::drop_call_frame: the call frame is somebody else's.
DropCallFrame(m) == [call_frames EXCEPT ![m] = Front(@)]

\* Interpreter::pop_call_frame, n times: the call frames are deleted.
PopCallFrames(m, n) ==
  LET from    == Len(call_frames[m]) - n
      deleted == {call_frames[m][i] : i \in from + 1 .. Len(call_frames[m])}
  IN  /\ from >= 0
      /\ call_frames' = [call_frames EXCEPT ![m] = SubSeq(@, 1, from)]
      /\ calls' = [c \in CallFrame |->
                     IF c \in deleted THEN "free" ELSE calls[c]]
      /\ caller_addr' = [c \in CallFrame |->
                           IF c \in deleted THEN None ELSE caller_addr[c]]

\* The place of the VM m is in the code of the frame f from now on.
SetBci(m, f) == bci' = [bci EXCEPT ![m] = f]

\* Call: the caller's place goes into the call frame.
SetCallerAddr ==
  caller_addr' = [caller_addr EXCEPT ![TopCall] = bci[Current]]

\* Mutant: the called function's place stays.
NotRestored == bci

\* The places when the innermost run ends: a runtime_call of the same VM puts
\* its own back; one of another VM, and load_module, do not.
Restored ==
  IF Caller = Current THEN [bci EXCEPT ![Current] = Last(pre_call_bci)] ELSE bci

\* Mutant: the search does not stop at the frames of another VM.
VisibleInAllVMs(m) == 1 .. Len(stack_frames)

\* The frames a handler is looked for in: those on top of stack_frames that
\* belong to the VM m.
Visible(m) ==
  {i \in 1 .. Len(stack_frames) :
     \A j \in i .. Len(stack_frames) : stack_frames[j].vm = m}

\* The opcode may let an exception out that it cannot raise a second time.
MayLetOut(feature) ==
  feature \notin Features =>
    \A i \in 1 .. Len(tries[TopFrame]) :
      ~tries[TopFrame][i].caught /\ tries[TopFrame][i].handles = Exception

\* The run k was started by an opcode of another VM, which is not told where
\* it was when the run has ended: only Call puts its bci back, for itself.
KeepsNoPlace(k) ==
  runs[k].kind \in {"native", "import"} /\ runs[k - 1].vm # runs[k].vm

\* Starting run on m is within what the program does.
MayStart(m) ==
  /\ m \in loaded
  /\ "reentry" \notin Features => \A i \in 1 .. Len(runs) : runs[i].vm # m
  /\ "guarded" \notin Features =>
       \A f \in {stack_frames[i].frame : i \in Visible(m)} \cup {m} :
         tries[f] = <<>>
  /\ "lost place" \notin Features =>
       \A k \in 2 .. Len(runs) : KeepsNoPlace(k) => runs[k - 1].vm # m

\* An exception may leave the code that runs now.
MayRaise == InCall => "open arguments" \in Features

-----------------------------------------------------------------------------
(* Opcodes. *)

\* PushCallFrame: a call begins, its function and arguments are evaluated.
PushCallFrame(c) ==
  /\ mode = "run" /\ FreshCall(c) /\ MayRaise
  /\ call_frames' = [call_frames EXCEPT ![Current] = Append(@, c)]
  /\ calls' = [calls EXCEPT ![c] = "pending"]
  /\ stack_frames' = WithOpen(stack_frames, Append(Top.open, c))
  /\ UNCHANGED <<frames, tries, runs, imports, loaded, mode, raised, by_call,
                 places>>

\* Call of a function of the same VM.
CallFunction(f) ==
  /\ AtCall /\ Fresh(f)
  /\ PushFrames(Current, <<f>>, TopCall,
                WithOpen(stack_frames, Front(Top.open)))
  /\ calls' = [calls EXCEPT ![TopCall] = "inner"]
  /\ SetCallerAddr /\ SetBci(Current, f)
  /\ UNCHANGED <<call_frames, tries, runs, imports, loaded, mode, raised,
                 by_call, pre_call_bci>>

\* Call of a function of another VM: cross_module_call, with the same call
\* frame in the lists of both.
CallModule(m, f) ==
  /\ AtCall /\ Fresh(f)
  /\ m # Current /\ MayStart(m) /\ MayLetOut("typed call")
  /\ call_frames' = [call_frames EXCEPT ![m] = Append(@, TopCall)]
  /\ PushFrames(m, <<m, f>>, TopCall, stack_frames)
  /\ calls' = [calls EXCEPT ![TopCall] = "outer"]
  /\ runs' = Append(runs, [vm |-> m, kind |-> "call", call_frame |-> TopCall])
  /\ SetCallerAddr /\ SetBci(m, f) /\ pre_call_bci' = Append(pre_call_bci, None)
  /\ UNCHANGED <<tries, imports, loaded, mode, raised, by_call>>

\* opcode::runtime_call: native code (an operator, an iterator, a library
\* function) calls a function of the VM m.
CallBack(m, f, c) ==
  /\ "callback" \in Features /\ MayRaise
  /\ mode = "run" /\ FreshCall(c) /\ Fresh(f)
  /\ MayStart(m) /\ MayLetOut("typed callback")
  /\ call_frames' = [n \in VM |-> IF n \in {m, Current}
                                  THEN Append(call_frames[n], c)
                                  ELSE call_frames[n]]
  /\ PushFrames(m, <<m, f>>, c, stack_frames)
  /\ calls' = [calls EXCEPT ![c] = "outer"]
  /\ runs' = Append(runs, [vm |-> m, kind |-> "native", call_frame |-> c])
  /\ SetBci(m, f)
  /\ pre_call_bci' =
       Append(pre_call_bci, IF m = Current THEN bci[Current] ELSE None)
  /\ UNCHANGED <<tries, imports, loaded, mode, raised, by_call, caller_addr>>

\* mslib::dispatch of a native function that returns; or a constructor with
\* no body.
CallNative ==
  /\ AtCall
  /\ PopCallFrames(Current, 1)
  /\ stack_frames' = WithOpen(stack_frames, Front(Top.open))
  /\ UNCHANGED <<frames, tries, runs, imports, loaded, mode, raised, by_call,
                 bci, pre_call_bci>>

\* BuildClass and PopFrame: the body of a class has a frame of its own.
BeginClass(f) ==
  /\ AtStatement /\ Fresh(f)
  /\ PushFrames(Current, <<f>>, None, stack_frames)
  /\ SetBci(Current, f)
  /\ UNCHANGED <<call_frames, calls, tries, runs, imports, loaded, mode,
                 raised, by_call, caller_addr, pre_call_bci>>

EndClass ==
  /\ AtStatement
  /\ Top.frame \in Frame /\ Top.call_frame = None /\ tries[TopFrame] = <<>>
  /\ frames' = FramesWithout(1) /\ stack_frames' = StackWithout(1)
  /\ SetBci(Current, Last(StackWithout(1)).frame)
  /\ UNCHANGED <<call_frames, calls, tries, runs, imports, loaded, mode,
                 raised, by_call, caller_addr, pre_call_bci>>

\* Mutant: the mark of a call by C++ code is not looked at.
NeverEndsRun(c) == FALSE

\* is_extern_module_call or is_runtime_call.
EndsRun(c) == calls[c] = "outer"

\* Return and ReturnConst, from inside a try as well.  A run that was started
\* for the call ends, and the call frame is left to its starter.
Return ==
  /\ AtStatement
  /\ Top.call_frame # None
  /\ frames' = FramesWithout(1) /\ tries' = TriesWithout(1)
  /\ stack_frames' = StackWithout(1)
  /\ IF EndsRun(TopCall)
     THEN /\ call_frames' = DropCallFrame(Current)
          /\ calls' = [calls EXCEPT ![TopCall] = "returned"]
          /\ mode' = "end"
          /\ SetBci(Current, None) /\ UNCHANGED caller_addr
     ELSE /\ PopCallFrames(Current, 1)
          /\ SetBci(Current, caller_addr[TopCall])
          /\ UNCHANGED mode
  /\ UNCHANGED <<runs, imports, loaded, raised, by_call, pre_call_bci>>

\* Catch and CatchTyped of a try statement.
PushTry(handled) ==
  /\ AtStatement
  /\ tries[TopFrame] = <<>>
  /\ tries' = [tries EXCEPT ![TopFrame] =
       <<[caught |-> FALSE, handles |-> handled, cf_position |-> TopCall]>>]
  /\ UNCHANGED <<frames, call_frames, stack_frames, calls, runs, imports,
                 loaded, mode, raised, by_call, places>>

\* The end of a try statement: PopCatch, and the finally block.
PopTry ==
  /\ AtStatement
  /\ tries[TopFrame] # <<>>
  /\ tries' = [tries EXCEPT ![TopFrame] = Front(@)]
  /\ UNCHANGED <<frames, call_frames, stack_frames, calls, runs, imports,
                 loaded, mode, raised, by_call, places>>

\* load_module: a new VM runs the code of the module.
Import(m) ==
  /\ AtStatement /\ MayLetOut("typed callback")
  /\ m \in VM \ loaded
  /\ loaded' = loaded \cup {m}
  /\ frames' = [frames EXCEPT ![m] = <<m, m>>]
  /\ stack_frames' = Append(stack_frames,
       [frame |-> m, vm |-> m, call_frame |-> None, open |-> <<>>])
  /\ imports' = Append(imports, m)
  /\ runs' = Append(runs, [vm |-> m, kind |-> "import", call_frame |-> None])
  /\ SetBci(m, m) /\ pre_call_bci' = Append(pre_call_bci, None)
  /\ UNCHANGED <<call_frames, calls, tries, mode, raised, by_call, caller_addr>>

\* The code of a module ends.
EndCode ==
  /\ AtStatement
  /\ Top.frame = Current /\ tries[Current] = <<>>
  /\ mode' = "end"
  /\ UNCHANGED <<frames, call_frames, stack_frames, calls, tries, runs,
                 imports, loaded, raised, by_call, places>>

\* Raise, and every opcode that raises the same again when it is repeated.
Raise(e) ==
  /\ mode = "run" /\ MayRaise
  /\ mode' = "throw" /\ raised' = e
  /\ UNCHANGED <<frames, call_frames, stack_frames, calls, tries, runs,
                 imports, loaded, by_call, places>>

\* A call that cannot be made, or a native function that reports an error:
\* its call frame is popped first.
RaiseInCall(e) ==
  /\ AtCall /\ MayLetOut("typed call")
  /\ PopCallFrames(Current, 1)
  /\ mode' = "throw" /\ raised' = e /\ by_call' = TRUE
  /\ UNCHANGED <<frames, stack_frames, tries, runs, imports, loaded, bci,
                 pre_call_bci>>

-----------------------------------------------------------------------------
(* The catch clause of run, and the way out of run. *)

\* The catches that handle the exception, innermost last.
Handlers ==
  {i \in Visible(Current) :
     LET t == tries[stack_frames[i].frame]
     IN  t # <<>> /\ ~Last(t).caught /\ raised \in Last(t).handles}

\* The innermost try of the top frame has caught an exception already.
InCatch == tries[TopFrame] # <<>> /\ Last(tries[TopFrame]).caught

\* Mutant: the try is not left.
RunFinallyForever ==
  /\ mode = "throw"
  /\ tries[TopFrame] # <<>> /\ (~InCatch => Handlers = {})
  /\ mode' = "again"
  /\ UNCHANGED <<frames, call_frames, stack_frames, calls, tries, runs,
                 imports, loaded, raised, by_call, places>>

\* call_finally: the finally block of the innermost try runs, and the opcode
\* that raised is executed again.
RunFinally ==
  /\ mode = "throw"
  /\ tries[TopFrame] # <<>> /\ (~InCatch => Handlers = {})
  /\ tries' = [tries EXCEPT ![TopFrame] = Front(@)]
  /\ mode' = "again"
  /\ UNCHANGED <<frames, call_frames, stack_frames, calls, runs, imports,
                 loaded, raised, by_call, places>>

\* Mutant: the exception is forgotten when a finally block has run.
AgainWithoutException ==
  /\ mode = "again"
  /\ mode' = IF by_call THEN "run" ELSE "throw"
  /\ raised' = None /\ by_call' = FALSE
  /\ UNCHANGED <<frames, call_frames, stack_frames, calls, tries, runs,
                 imports, loaded, places>>

\* A raise raises the same again; a call, a callback or an import is made
\* again, whatever comes of it.
Again ==
  /\ mode = "again"
  /\ mode' = IF by_call THEN "run" ELSE "throw"
  /\ raised' = IF by_call THEN None ELSE raised
  /\ by_call' = FALSE
  /\ UNCHANGED <<frames, call_frames, stack_frames, calls, tries, runs,
                 imports, loaded, places>>

\* handle_exception: frames are popped until that of the catch, and call
\* frames until the one that was on top when the try began.
Handle ==
  /\ mode = "throw" /\ ~InCatch /\ Handlers # {}
  /\ LET handler == Innermost(Handlers)
         f       == stack_frames[handler].frame
         n       == Len(stack_frames) - handler
         cfs     == call_frames[Current]
         kept    == {k \in 1 .. Len(cfs) : cfs[k] = Last(tries[f]).cf_position}
     IN  /\ frames' = FramesWithout(n)
         /\ stack_frames' = WithOpen(StackWithout(n), <<>>)
         /\ tries' = [TriesWithout(n) EXCEPT ![f] = Append(Front(@),
              [caught |-> TRUE, handles |-> {}, cf_position |-> None])]
         /\ PopCallFrames(Current, IF kept = {} THEN Len(cfs)
              ELSE Len(cfs) - Innermost(kept))
         /\ SetBci(Current, f)
  /\ mode' = "run" /\ raised' = None /\ by_call' = FALSE
  /\ UNCHANGED <<runs, imports, loaded, pre_call_bci>>

\* Mutant: up to the lowest frame itself.
UnwoundToLowest ==
  {i \in Visible(Current) : i > Outermost(Visible(Current))}

\* What unwind_stacks pops: the frames above the nearest occurrence of the
\* lowest frame looked at.
Unwound ==
  {i \in Visible(Current) :
     \A j \in i .. Len(stack_frames) :
       stack_frames[j].frame # stack_frames[Outermost(Visible(Current))].frame}

\* The exception leaves run: besides the frames, as many call frames are
\* popped as these frames were matched with.
Unwind ==
  /\ mode = "throw" /\ tries[TopFrame] = <<>> /\ Handlers = {}
  /\ frames' = FramesWithout(Cardinality(Unwound))
  /\ tries' = TriesWithout(Cardinality(Unwound))
  /\ stack_frames' = StackWithout(Cardinality(Unwound))
  /\ PopCallFrames(Current,
       Cardinality({i \in Unwound : stack_frames[i].call_frame # None}))
  /\ mode' = "leave" /\ SetBci(Current, None)
  /\ UNCHANGED <<runs, imports, loaded, raised, by_call, pre_call_bci>>

\* run_from_external pops the global frame it pushed, and the exception
\* arrives at the opcode that started the run.  A VM that called another one
\* drops its call frame; native code may handle the exception itself.
Leave ==
  /\ mode = "leave" /\ Last(runs).kind # "main"
  /\ frames' = FramesWithout(1) /\ stack_frames' = StackWithout(1)
  /\ runs' = Front(runs) /\ pre_call_bci' = Front(pre_call_bci)
  /\ call_frames' =
       IF Last(runs).kind = "import" \/ Caller = Current THEN call_frames
       ELSE DropCallFrame(Caller)
  /\ \/ /\ mode' = "throw" /\ by_call' = TRUE /\ UNCHANGED raised
        /\ bci' = Restored
     \/ /\ Last(runs).kind = "native" /\ raised \in Swallowed
        /\ mode' = "run" /\ raised' = None /\ by_call' = FALSE
        /\ \/ bci' = Restored
           \/ SetBci(Caller, Last(StackWithout(1)).frame)
  /\ UNCHANGED <<calls, tries, imports, loaded, caller_addr>>

\* The run of a call or a callback ends, and its starter takes the value.
EndCall ==
  /\ mode = "end" /\ Last(runs).kind \in {"call", "native"}
  /\ frames' = FramesWithout(1)
  /\ runs' = Front(runs) /\ pre_call_bci' = Front(pre_call_bci)
  /\ IF Caller = Current
     THEN \* the call frame is never deleted: its address is not used again
          /\ calls' = [calls EXCEPT ![Last(runs).call_frame] = "free"]
          /\ caller_addr' = [caller_addr EXCEPT ![Last(runs).call_frame] = None]
          /\ UNCHANGED call_frames
     ELSE PopCallFrames(Caller, 1)
  /\ stack_frames' =
       LET s == StackWithout(1)
       IN  IF Last(runs).kind = "call" THEN WithOpen(s, Front(Last(s).open))
           ELSE s
  /\ IF Last(runs).kind = "call"
     THEN SetBci(Caller, caller_addr[Last(runs).call_frame])
     ELSE bci' = Restored
  /\ mode' = "run"
  /\ UNCHANGED <<tries, imports, loaded, raised, by_call>>

\* The rest of load_module.
EndImport ==
  /\ mode = "end" /\ Last(runs).kind = "import"
  /\ frames' = FramesWithout(1) /\ stack_frames' = StackWithout(1)
  /\ runs' = Front(runs) /\ pre_call_bci' = Front(pre_call_bci)
  /\ imports' = Front(imports)
  /\ mode' = "run"
  /\ UNCHANGED <<call_frames, calls, tries, loaded, raised, by_call, bci,
                 caller_addr>>

\* The program ends, or an exception that nothing caught ends it.
EndProgram ==
  /\ mode \in {"end", "leave"} /\ Last(runs).kind = "main"
  /\ mode' = "done"
  /\ UNCHANGED <<frames, call_frames, stack_frames, calls, tries, runs,
                 imports, loaded, raised, by_call, places>>

\* Nothing follows the end of the program.
Stop == mode = "done" /\ UNCHANGED vars

Propagate == RunFinally \/ Again \/ Handle \/ Unwind \/ Leave \/ EndProgram

Next ==
  \/ \E c \in CallFrame : PushCallFrame(c)
  \/ \E f \in Frame : CallFunction(f) \/ BeginClass(f)
  \/ \E m \in VM, f \in Frame : CallModule(m, f)
  \/ \E m \in VM, f \in Frame, c \in CallFrame : CallBack(m, f, c)
  \/ CallNative \/ EndClass \/ Return \/ PopTry
  \/ \E handled \in SUBSET Exception : PushTry(handled)
  \/ \E m \in VM : Import(m)
  \/ \E e \in Exception : Raise(e) \/ RaiseInCall(e)
  \/ EndCode \/ EndCall \/ EndImport \/ Stop
  \/ Propagate

Spec == Init /\ [][Next]_vars
FairSpec == Spec /\ WF_vars(Propagate)

-----------------------------------------------------------------------------
(* Properties. *)

\* The stacks have their types.
StacksTyped ==
  /\ frames \in [VM -> Seq(Frame \cup VM)]
  /\ call_frames \in [VM -> Seq(CallFrame)]
  /\ stack_frames \in Seq(StackFrame)
  /\ calls \in [CallFrame -> CallState]
  /\ tries \in [Frame \cup VM -> Seq(Try)]
  /\ runs \in Seq(Activation) /\ runs # <<>>
  /\ imports \in Seq(VM)
  /\ loaded \subseteq VM
  /\ mode \in Mode
  /\ raised \in Exception \cup {None}
  /\ mode \in {"throw", "again", "leave"} => raised # None
  /\ by_call \in BOOLEAN

\* So have the places.
PlacesTyped ==
  /\ bci \in [VM -> Frame \cup VM \cup {None}]
  /\ caller_addr \in [CallFrame -> Frame \cup VM \cup {None}]
  /\ pre_call_bci \in Seq(Frame \cup VM \cup {None})

\* Every variable has its type.
TypeOK == StacksTyped /\ PlacesTyped

\* The frames of a VM are its part of stack_frames, in the same order, on top
\* of the global frame its constructor puts there: whatever an exception
\* unwinds, pop_frame takes the same frame from both lists.
Constructed(m) == IF m = Main THEN 0 ELSE 1
Pushed(m, i) == Cardinality({j \in 1 .. i : stack_frames[j].vm = m})
FramesMatchStack ==
  /\ \A m \in loaded :
       /\ Len(frames[m]) = Constructed(m) + Pushed(m, Len(stack_frames))
       /\ m # Main => frames[m][1] = m
  /\ \A i \in 1 .. Len(stack_frames) :
       LET m == stack_frames[i].vm
       IN  frames[m][Constructed(m) + Pushed(m, i)] = stack_frames[i].frame

IsBase(i) == stack_frames[i].frame \in VM

\* The activation of run that the i-th frame of the stack is part of.
RunOf(i) == Cardinality({j \in 1 .. i : IsBase(j)})

\* Every activation of run has its own global frame on the stack, and all
\* frames up to the next one are frames of its VM: run_from_external finds
\* the global frame it pushed on top again (its assertion "Expected global
\* frame on top", and that of pop_frame, "Trying to pop global frame").
RunsOnStack ==
  /\ IsBase(1) /\ RunOf(Len(stack_frames)) = Len(runs)
  /\ \A i \in 1 .. Len(stack_frames) : stack_frames[i].vm = runs[RunOf(i)].vm
  /\ mode \in {"end", "leave"} => Top.frame = Current

\* The C++ code that started a run still holds the call frame it passed: it
\* is not deleted before the run ends, and when it ends normally the return
\* value is in it (the assertion "External return value not set").
HeldCallFramesAlive ==
  /\ \A i \in 1 .. Len(runs) - 1 :
       runs[i].call_frame # None => calls[runs[i].call_frame] = "outer"
  /\ mode \in {"run", "throw", "again"} /\ Last(runs).call_frame # None
       => calls[Last(runs).call_frame] = "outer"
  /\ mode = "end" /\ Last(runs).call_frame # None
       => calls[Last(runs).call_frame] = "returned"

\* The VM is in the code of its top frame: whatever ran since, and in which
\* VM, the opcode that comes next is one of the function that is on top.
InOwnCode == mode = "run" => bci[Current] = Top.frame

\* An opcode finds the call frame it is about on top: a Call that of its
\* arguments, a Return that of its function.  Otherwise a function returns to
\* another call's caller_addr, or stops a run that is not its own; or there is
\* none (the assertion "no call frame was pushed" of get_call_frame).  The
\* same happens to an opcode that is not of the function on top.
OwnCallFrame ==
  /\ InOwnCode
  /\ mode = "run" =>
       IF InCall THEN TopCall = Last(Top.open)
       ELSE Top.call_frame # None => TopCall = Top.call_frame

\* An exception is handled, or ends the program, after finitely many steps.
ExceptionsSettle ==
  mode \in {"throw", "again", "leave"} ~> mode \in {"run", "done"}

-----------------------------------------------------------------------------
(* What moss programs see of it: StructuredCalls. *)

HandledBy(f) ==
  IF tries[f] = <<>> \/ Last(tries[f]).caught THEN <<>>
  ELSE <<Last(tries[f]).handles>>

\* The activation a frame of the stack stands for: none if it is the global
\* frame pushed for the call of another module's function.
Seen(i) ==
  LET kind == IF IsBase(i) THEN runs[RunOf(i)].kind ELSE "function"
  IN  IF kind = "call" THEN <<>>
      ELSE IF kind = "native" THEN <<[native |-> TRUE, tries |-> <<>>]>>
      ELSE <<[native |-> FALSE, tries |-> HandledBy(stack_frames[i].frame)]>>

Activations ==
  LET first[n \in 0 .. Len(stack_frames)] ==
        IF n = 0 THEN <<>> ELSE first[n - 1] \o Seen(n)
  IN  first[Len(stack_frames)]

ProgramStack == IF mode = "done" THEN <<>> ELSE Activations

Structured == INSTANCE StructuredCalls
  WITH stack <- ProgramStack, raised <- raised, in_place <- InOwnCode

\* Calls and exceptions mean what StructuredCalls says: an exception leaves
\* one activation after the other, whatever interpreter runs it, and reaches
\* the innermost try that handles it; and the code that goes on is always that
\* of the innermost activation.
StructuredSpec == Structured!Spec
=============================================================================
