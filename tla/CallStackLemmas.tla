--------------------------- MODULE CallStackLemmas ---------------------------
(***************************************************************************)
(* Lemmas about the invariant of CallStack: how the stack is cut into runs, *)
(* what the building blocks of the actions do, and how each part of the    *)
(* invariant survives; and the opcodes that begin a call or push a frame   *)
(* keep it.                                                                *)
(***************************************************************************)
EXTENDS CallStackInv, SequenceLemmas

-----------------------------------------------------------------------------
(* The stack, cut into runs.                                               *)

RunIn(s, i) == Count({j \in Nat : s[j].frame \in VM}, i)
PushedIn(s, m, i) == Count({j \in Nat : s[j].vm = m}, i)

\* The run of a frame, and its place in its VM's list, are counts of
\* positions.
LEMMA RunIsCount ==
  /\ \A i \in Nat : RunOf(i) = RunIn(stack_frames, i)
  /\ \A m : \A i \in Nat : Pushed(m, i) = PushedIn(stack_frames, m, i)
<1>1. ASSUME NEW i \in Nat
      PROVE  RunOf(i) = RunIn(stack_frames, i)
  <2>1. {j \in 1 .. i : IsBase(j)} =
        {j \in 1 .. i : j \in {k \in Nat : stack_frames[k].frame \in VM}}
    BY DEF IsBase
  <2> QED BY <2>1 DEF RunOf, RunIn, Count
<1>2. ASSUME NEW m, NEW i \in Nat
      PROVE  Pushed(m, i) = PushedIn(stack_frames, m, i)
  <2>1. {j \in 1 .. i : stack_frames[j].vm = m} =
        {j \in 1 .. i : j \in {k \in Nat : stack_frames[k].vm = m}}
    OBVIOUS
  <2> QED BY <2>1 DEF Pushed, PushedIn, Count
<1> QED BY <1>1, <1>2

RunFacts ==
  /\ RunOf(0) = 0
  /\ \A i \in Nat \ {0} :
       RunOf(i - 1) \in Nat /\ RunOf(i) = RunOf(i - 1) + (IF IsBase(i) THEN 1 ELSE 0)
  /\ \A i, j \in Nat : i <= j =>
       /\ RunOf(i) \in Nat /\ RunOf(i) <= RunOf(j) /\ RunOf(i) <= i
       /\ i < j /\ IsBase(j) => RunOf(i) < RunOf(j)

\* What the counts of bases are worth.
LEMMA RunStep == RunFacts
<1> DEFINE P == {j \in Nat : stack_frames[j].frame \in VM}
<1>1. \A i \in Nat : RunOf(i) = Count(P, i)
  BY RunIsCount DEF RunIn
<1>2. \A i \in Nat : i \in P <=> IsBase(i)
  BY DEF IsBase
<1> HIDE DEF P
<1>3. RunOf(0) = 0
  BY <1>1, CountStep, 1 \in Nat \ {0}
<1>4. ASSUME NEW i \in Nat \ {0}
      PROVE  RunOf(i - 1) \in Nat /\ RunOf(i) = RunOf(i - 1) + (IF IsBase(i) THEN 1 ELSE 0)
  BY <1>1, <1>2, CountStep, i - 1 \in Nat
<1>5. ASSUME NEW i \in Nat, NEW j \in Nat, i <= j
      PROVE  /\ RunOf(i) \in Nat /\ RunOf(i) <= RunOf(j) /\ RunOf(i) <= i
             /\ i < j /\ IsBase(j) => RunOf(i) < RunOf(j)
  BY <1>1, <1>2, <1>5, CountMono
<1> QED BY <1>3, <1>4, <1>5 DEF RunFacts

PushedFacts ==
  \A m \in VM :
    /\ Pushed(m, 0) = 0
    /\ \A i \in Nat \ {0} :
         /\ Pushed(m, i - 1) \in Nat
         /\ Pushed(m, i) = Pushed(m, i - 1) + (IF stack_frames[i].vm = m THEN 1 ELSE 0)
    /\ \A i, j \in Nat : i <= j =>
         /\ Pushed(m, i) \in Nat /\ Pushed(m, i) <= Pushed(m, j)
         /\ i < j /\ stack_frames[j].vm = m => Pushed(m, i) < Pushed(m, j)

\* What the counts of a VM's frames are worth.
LEMMA PushedStep == PushedFacts
<1> USE DEF PushedFacts
<1> TAKE m \in VM
<1> DEFINE P == {j \in Nat : stack_frames[j].vm = m}
<1>1. \A i \in Nat : Pushed(m, i) = Count(P, i)
  BY RunIsCount DEF PushedIn
<1>2. \A i \in Nat : i \in P <=> stack_frames[i].vm = m
  OBVIOUS
<1> HIDE DEF P
<1>3. Pushed(m, 0) = 0
  BY <1>1, CountStep, 1 \in Nat \ {0}
<1>4. ASSUME NEW i \in Nat \ {0}
      PROVE  /\ Pushed(m, i - 1) \in Nat
             /\ Pushed(m, i) = Pushed(m, i - 1) + (IF stack_frames[i].vm = m THEN 1 ELSE 0)
  BY <1>1, <1>2, CountStep, i - 1 \in Nat
<1>5. ASSUME NEW i \in Nat, NEW j \in Nat, i <= j
      PROVE  /\ Pushed(m, i) \in Nat /\ Pushed(m, i) <= Pushed(m, j)
             /\ i < j /\ stack_frames[j].vm = m => Pushed(m, i) < Pushed(m, j)
  BY <1>1, <1>2, <1>5, CountMono
<1> QED BY <1>3, <1>4, <1>5

\* The lower n frames of the stack are those they were, whatever their open calls.
SameBelow(n) ==
  \A i \in 1 .. n :
    /\ stack_frames'[i].frame = stack_frames[i].frame
    /\ stack_frames'[i].vm = stack_frames[i].vm
    /\ stack_frames'[i].call_frame = stack_frames[i].call_frame

\* The counts of frames that stay are what they were.
LEMMA CountsBelow ==
  ASSUME NEW n \in Nat, SameBelow(n)
  PROVE  /\ \A i \in 0 .. n : RunOf(i)' = RunOf(i)
         /\ \A m : \A i \in 0 .. n : Pushed(m, i)' = Pushed(m, i)
         /\ \A i \in 1 .. n : IsBase(i)' = IsBase(i)
<1>1. ASSUME NEW i \in 0 .. n PROVE RunOf(i)' = RunOf(i)
  <2>1. {j \in 1 .. i : IsBase(j)} = {j \in 1 .. i : IsBase(j)'}
    BY DEF SameBelow, IsBase
  <2> QED BY <2>1 DEF RunOf
<1>2. ASSUME NEW m, NEW i \in 0 .. n PROVE Pushed(m, i)' = Pushed(m, i)
  <2>1. {j \in 1 .. i : stack_frames[j].vm = m} = {j \in 1 .. i : stack_frames'[j].vm = m}
    BY DEF SameBelow
  <2> QED BY <2>1 DEF Pushed
<1> QED BY <1>1, <1>2 DEF SameBelow, IsBase

\* The facts about counts hold in the next state as well.
LEMMA CountsNext == RunFacts' /\ PushedFacts'
<1>1. RunFacts'
  BY RunStep, PTL
<1>2. PushedFacts'
  BY PushedStep, PTL
<1> QED BY <1>1, <1>2

\* The innermost of some positions exists.
LEMMA InnermostIs ==
  ASSUME NEW n \in Nat, NEW S \in SUBSET (1 .. n), S # {}
  PROVE  Innermost(S) \in S /\ \A i \in S : i <= Innermost(S)
<1>1. \E x \in S : \A y \in S : y <= x
  BY GreatestNatural, S \in SUBSET (0 .. n)
<1> QED BY <1>1 DEF Innermost

\* The outermost of some positions exists.
LEMMA OutermostIs ==
  ASSUME NEW n \in Nat, NEW S \in SUBSET (1 .. n), S # {}
  PROVE  Outermost(S) \in S /\ \A i \in S : Outermost(S) <= i
<1>1. \E x \in S : \A y \in S : x <= y
  BY LeastNatural, S \in SUBSET Nat
<1> QED BY <1>1 DEF Outermost

\* The base of the innermost run.
Base == Innermost({i \in 1 .. L : IsBase(i)})

\* What the parts of StackInv say together.
Structure ==
  /\ L \in Nat \ {0} /\ Len(runs) \in Nat \ {0}
  /\ Current \in VM /\ \A k \in 1 .. Len(runs) : runs[k] \in Activation
  /\ \A i \in 1 .. L :
       /\ stack_frames[i] \in StackFrame
       /\ ~IsBase(i) => stack_frames[i].frame \in Frame
       /\ RunOf(i) \in 1 .. Len(runs)
       /\ stack_frames[i].vm = runs[RunOf(i)].vm
       /\ stack_frames[i].vm \in loaded
  /\ Base \in 1 .. L /\ IsBase(Base)
  /\ \A i \in 1 .. L :
       /\ i < Base => RunOf(i) < Len(runs)
       /\ i >= Base => RunOf(i) = Len(runs) /\ stack_frames[i].vm = Current
       /\ i > Base => ~IsBase(i)
  /\ stack_frames[Base].frame = Current
  /\ TopFrame = Top.frame

\* The stack is cut into runs, each on its base, and the innermost is on
\* top.
LEMMA StackStructure == StacksTyped /\ StackInv => Structure
<1> SUFFICES ASSUME StacksTyped, StackInv PROVE Structure
  OBVIOUS
<1>1. /\ L \in Nat /\ Len(runs) \in Nat \ {0} /\ Current \in VM
      /\ \A k \in 1 .. Len(runs) : runs[k] \in Activation
      /\ \A i \in 1 .. L : stack_frames[i] \in StackFrame
  <2>1. runs \in Seq(Activation) /\ runs # <<>> /\ stack_frames \in Seq(StackFrame)
    BY DEF StacksTyped
  <2>2. Len(runs) \in Nat \ {0} /\ runs[Len(runs)] \in Activation
    BY <2>1
  <2>3. runs[Len(runs)].vm \in VM
    BY <2>2 DEF Activation
  <2> QED BY <2>1, <2>2, <2>3 DEF L, Current, Last
<1>2. L # 0
  BY <1>1, RunStep DEF RunFacts, StackInv, RunsOnStack, L
<1>3. ASSUME NEW i \in 1 .. L
      PROVE  /\ ~IsBase(i) => stack_frames[i].frame \in Frame
             /\ RunOf(i) \in 1 .. Len(runs)
             /\ stack_frames[i].vm = runs[RunOf(i)].vm
             /\ stack_frames[i].vm \in loaded
  <2>1. stack_frames[i].frame \in Frame \cup VM
    BY <1>1 DEF StackFrame
  <2>2. RunOf(1) = 1
    BY RunStep, 1 \in Nat \ {0} DEF RunFacts, StackInv, RunsOnStack
  <2>3. RunOf(i) \in 1 .. Len(runs)
    BY <1>1, <1>2, <2>2, RunStep DEF RunFacts, StackInv, RunsOnStack, L
  <2>4. stack_frames[i].vm = runs[RunOf(i)].vm
    BY DEF StackInv, RunsOnStack, L
  <2> QED BY <2>1, <2>3, <2>4 DEF IsBase, StackInv, KindsOfRuns
<1>4. Base \in 1 .. L /\ IsBase(Base) /\ \A i \in 1 .. L : i > Base => ~IsBase(i)
  <2> DEFINE S == {i \in 1 .. L : IsBase(i)}
  <2>1. S \in SUBSET (1 .. L) /\ 1 \in S
    BY <1>1, <1>2 DEF StackInv, RunsOnStack
  <2>2. Base \in S /\ \A i \in S : i <= Base
    BY <1>1, <2>1, InnermostIs DEF Base
  <2> QED BY <1>1, <2>2
<1>5. \A i \in 1 .. L : i >= Base => RunOf(i) = Len(runs)
  <2> DEFINE P == {j \in Nat : IsBase(j)}
  <2>1. RunOf(Base) <= RunOf(L)
    BY <1>1, <1>2, <1>4, RunStep DEF RunFacts
  <2>2. ASSUME NEW i \in Base .. L PROVE RunOf(i) = RunOf(Base)
    <3>1. {j \in 1 .. i : IsBase(j)} = {j \in 1 .. Base : IsBase(j)}
      BY <1>1, <1>4
    <3> QED BY <3>1 DEF RunOf
  <2>3. RunOf(L) = Len(runs) /\ L \in Base .. L
    BY <1>1, <1>4 DEF StackInv, RunsOnStack, L
  <2> QED BY <1>1, <1>4, <2>2, <2>3
<1>6. \A i \in 1 .. L : i < Base => RunOf(i) < Len(runs)
  BY <1>1, <1>4, <1>5, RunStep DEF RunFacts
<1>7. \A i \in 1 .. L : i >= Base => stack_frames[i].vm = Current
  BY <1>3, <1>5 DEF Current, Last
<1>8. stack_frames[Base].frame = Current
  BY <1>1, <1>4, <1>7 DEF StackInv, FramesOfStack
<1>9. TopFrame = Top.frame
  <2>1. stack_frames[L].vm = Current /\ Current \in loaded
    BY <1>1, <1>2, <1>3, <1>4, <1>7
  <2>2. Len(frames[Current]) = Constructed(Current) + Pushed(Current, L)
    BY <2>1 DEF StackInv, FramesMatchStack, L
  <2>3. frames[Current][Constructed(Current) + Pushed(Current, L)] = stack_frames[L].frame
    BY <1>1, <1>2, <2>1 DEF StackInv, FramesMatchStack, L
  <2> QED BY <2>2, <2>3 DEF TopFrame, Top, Last, L
<1> QED BY <1>1, <1>2, <1>3, <1>4, <1>5, <1>6, <1>7, <1>8, <1>9 DEF Structure

-----------------------------------------------------------------------------
(* How StackInv survives what happens to the stack: nothing, a frame is    *)
(* pushed, a run begins, frames of the run are popped, a run ends.         *)

\* The frames stay.
LEMMA StackSame ==
  ASSUME StacksTyped, StackInv, L' = L, SameBelow(L),
         frames' = frames, runs' = runs, loaded' = loaded,
         mode' \in {"end", "leave"} => IsBase(L),
         StartsFunction(L) => ~Running'
  PROVE  StackInv'
<1>1. Structure
  BY StackStructure
<1>2. /\ \A i \in 0 .. L : RunOf(i)' = RunOf(i)
      /\ \A m : \A i \in 0 .. L : Pushed(m, i)' = Pushed(m, i)
      /\ \A i \in 1 .. L : IsBase(i)' = IsBase(i)
  BY <1>1, CountsBelow DEF Structure
<1>3. \A i \in 1 .. L :
        /\ stack_frames'[i].frame = stack_frames[i].frame
        /\ stack_frames'[i].vm = stack_frames[i].vm
        /\ stack_frames'[i].call_frame = stack_frames[i].call_frame
  BY DEF SameBelow
<1>4. FramesMatchStack'
  BY <1>1, <1>2, <1>3, SMTT(30) DEF StackInv, FramesMatchStack, Structure, L
<1>5. Current' = Current
  BY DEF Current
<1>6. RunsOnStack'
  BY <1>1, <1>2, <1>3, <1>5 DEF StackInv, RunsOnStack, Structure, L, Top, Last, IsBase
<1>7. FramesOfStack'
  <2>1. ASSUME NEW i \in 1 .. L, IsBase(i)'
        PROVE  /\ stack_frames'[i].frame = stack_frames'[i].vm
               /\ stack_frames'[i].call_frame = None
    BY <1>2, <1>3, <2>1 DEF StackInv, FramesOfStack
  <2>2. ASSUME NEW i \in 1 .. L, NEW j \in 1 .. L, i < j, ~IsBase(i)'
        PROVE  stack_frames'[i].frame # stack_frames'[j].frame
    BY <1>2, <1>3, <2>2 DEF StackInv, FramesOfStack
  <2> QED BY <2>1, <2>2 DEF FramesOfStack
<1>8. KindsOfRuns'
  BY DEF StackInv, KindsOfRuns
<1>9. FirstFrames'
  <2> SUFFICES ASSUME NEW i \in 1 .. L, StartsFunction(i)'
      PROVE  IF i = L THEN ~Running'
             ELSE /\ ~IsBase(i + 1)'
                  /\ stack_frames'[i + 1].call_frame = runs'[RunOf(i)'].call_frame
    BY DEF FirstFrames
  <2>1. StartsFunction(i)
    BY <1>1, <1>2 DEF StartsFunction, KindOf, Structure
  <2>2. i # L => i + 1 \in 1 .. L
    BY <1>1 DEF Structure
  <2> QED BY <1>1, <1>2, <1>3, <2>1, <2>2, SMTT(30) DEF StackInv, FirstFrames, Structure
<1> QED BY <1>4, <1>6, <1>7, <1>8, <1>9 DEF StackInv

\* The frames of the run belong to its VM.
LEMMA PushedByRun ==
  ASSUME Structure, NEW m \in VM
  PROVE  \A i \in Base .. L :
           Pushed(m, i) = Pushed(m, Base) + (IF m = Current THEN i - Base ELSE 0)
<1> DEFINE S == {i \in Base .. L :
           Pushed(m, i) = Pushed(m, Base) + (IF m = Current THEN i - Base ELSE 0)}
<1>1. Base \in 1 .. L /\ L \in Nat
  BY DEF Structure
<1>2. Pushed(m, Base) \in Nat
  BY <1>1, PushedStep DEF PushedFacts
<1>3. Base \in S
  BY <1>1, <1>2
<1>4. ASSUME NEW i \in Base .. L - 1, i \in S PROVE i + 1 \in S
  <2>1. i + 1 \in Nat \ {0} /\ i + 1 - 1 = i /\ i + 1 \in Base .. L /\ i + 1 \in 1 .. L
    BY <1>1
  <2>2. Pushed(m, i + 1) = Pushed(m, i) + (IF stack_frames[i + 1].vm = m THEN 1 ELSE 0)
    BY <2>1, PushedStep DEF PushedFacts
  <2>3. stack_frames[i + 1].vm = Current
    BY <1>1, <2>1 DEF Structure
  <2>4. Pushed(m, i) = Pushed(m, Base) + (IF m = Current THEN i - Base ELSE 0)
    BY <1>4
  <2>5. Pushed(m, i + 1) = Pushed(m, Base) + (IF m = Current THEN (i + 1) - Base ELSE 0)
    BY <1>1, <1>2, <2>2, <2>3, <2>4
  <2> QED BY <2>1, <2>5
<1>5. Base .. L \subseteq S
  <2> HIDE DEF S
  <2> QED BY <1>1, <1>3, <1>4, SetInduction
<1> QED BY <1>5

\* A list of frames without its n last ones.
LEMMA FramesPopped ==
  ASSUME StacksTyped, Current \in VM, NEW n \in Nat, n <= Len(frames[Current]),
         frames' = FramesWithout(n)
  PROVE  /\ Len(frames'[Current]) = Len(frames[Current]) - n
         /\ \A k \in 1 .. Len(frames[Current]) - n : frames'[Current][k] = frames[Current][k]
         /\ \A m \in VM : m # Current => frames'[m] = frames[m]
<1>1. frames[Current] \in Seq(Frame \cup VM) /\ frames \in [VM -> Seq(Frame \cup VM)]
  BY DEF StacksTyped
<1>2. Len(frames[Current]) - n \in 0 .. Len(frames[Current])
  BY <1>1
<1>3. frames'[Current] = SubSeq(frames[Current], 1, Len(frames[Current]) - n)
  BY <1>1 DEF FramesWithout
<1>4. \A m \in VM : m # Current => frames'[m] = frames[m]
  BY <1>1 DEF FramesWithout
<1>5. /\ Len(frames'[Current]) = Len(frames[Current]) - n
      /\ \A k \in 1 .. Len(frames[Current]) - n : frames'[Current][k] = frames[Current][k]
  BY <1>1, <1>2, <1>3, Prefix
<1> QED BY <1>4, <1>5

\* Both lists lose their top frames, which are frames of the run.
LEMMA FramesMatchPopped ==
  ASSUME StacksTyped, FramesMatchStack, Structure, NEW n \in Nat, n <= L,
         n >= Base - 1, L' = n, SameBelow(n),
         frames' = FramesWithout(L - n), loaded' = loaded
  PROVE  FramesMatchStack'
<1> USE DEF Constructed
<1>1. /\ L \in Nat \ {0} /\ Base \in 1 .. L /\ Current \in VM
      /\ stack_frames[Base].vm = Current /\ stack_frames[L].vm = Current /\ Current \in loaded
  BY DEF Structure
<1>2. \A m : \A i \in 0 .. n : Pushed(m, i)' = Pushed(m, i)
  BY CountsBelow
<1>3. \A i \in 1 .. n : stack_frames'[i].frame = stack_frames[i].frame
                     /\ stack_frames'[i].vm = stack_frames[i].vm
  BY DEF SameBelow
<1>4. \A m \in VM : Pushed(m, n) = Pushed(m, L) - (IF m = Current THEN L - n ELSE 0)
                   /\ Pushed(m, n) \in Nat /\ Pushed(m, L) \in Nat
  <2> TAKE m \in VM
  <2>1. Pushed(m, n) \in Nat /\ Pushed(m, L) \in Nat /\ Pushed(m, Base) \in Nat
    BY <1>1, PushedStep DEF PushedFacts
  <2>2. Pushed(m, L) = Pushed(m, Base) + (IF m = Current THEN L - Base ELSE 0)
    BY <1>1, PushedByRun
  <2>3. CASE n >= Base
    <3>1. Pushed(m, n) = Pushed(m, Base) + (IF m = Current THEN n - Base ELSE 0)
      BY <1>1, <2>3, PushedByRun
    <3> QED BY <1>1, <2>1, <2>2, <3>1
  <2>4. CASE n = Base - 1
    <3>1. Pushed(m, Base) = Pushed(m, n) + (IF Current = m THEN 1 ELSE 0)
      BY <1>1, <2>4, PushedStep DEF PushedFacts
    <3> QED BY <1>1, <2>1, <2>2, <2>4, <3>1
  <2> QED BY <1>1, <2>3, <2>4
<1>5. Len(frames[Current]) = Constructed(Current) + Pushed(Current, L)
  BY <1>1 DEF FramesMatchStack, L
<1>6. L - n \in Nat /\ L - n <= Len(frames[Current])
  BY <1>1, <1>4, <1>5
<1>7. /\ Len(frames'[Current]) = Len(frames[Current]) - (L - n)
      /\ \A k \in 1 .. Len(frames[Current]) - (L - n) : frames'[Current][k] = frames[Current][k]
      /\ \A m \in VM : m # Current => frames'[m] = frames[m]
  BY <1>1, <1>6, FramesPopped
<1>8. ASSUME NEW m \in loaded
      PROVE  /\ Len(frames'[m]) = Constructed(m) + Pushed(m, n)
             /\ m # Main => frames'[m][1] = m
  <2>1. m \in VM /\ Len(frames[m]) = Constructed(m) + Pushed(m, L)
        /\ (m # Main => frames[m][1] = m)
    BY DEF StacksTyped, FramesMatchStack, L
  <2>2. CASE m = Current
    <3>1. Pushed(m, n) \in Nat /\ Pushed(m, n) = Pushed(m, L) - (L - n) /\ Pushed(m, L) \in Nat
      BY <1>4, <2>1, <2>2
    <3>2. Len(frames'[m]) = Constructed(m) + Pushed(m, n)
      <4>1. Len(frames'[m]) = (Constructed(m) + Pushed(m, L)) - (L - n)
        BY <1>5, <1>7, <2>2
      <4>2. Constructed(m) \in Nat /\ L \in Nat
        BY <1>1
      <4> QED BY <3>1, <4>1, <4>2
    <3>3. m # Main => 1 \in 1 .. Len(frames[Current]) - (L - n)
      BY <1>1, <2>1, <2>2, <3>1
    <3> QED BY <1>7, <2>1, <2>2, <3>2, <3>3
  <2>3. CASE m # Current
    BY <1>4, <1>7, <2>1, <2>3
  <2> QED BY <2>2, <2>3
<1>9. ASSUME NEW i \in 1 .. n, NEW m \in VM, m = stack_frames[i].vm
      PROVE  frames'[m][Constructed(m) + Pushed(m, i)] = stack_frames[i].frame
  <2>1. frames[m][Constructed(m) + Pushed(m, i)] = stack_frames[i].frame
    BY <1>1, <1>9 DEF FramesMatchStack, L
  <2>2. Pushed(m, i) \in Nat \ {0} /\ Pushed(m, i) <= Pushed(m, n)
    BY <1>9, PushedStep, i - 1 \in Nat DEF PushedFacts
  <2>3. CASE m = Current
    <3>1. Constructed(m) + Pushed(m, i) \in 1 .. Len(frames[Current]) - (L - n)
      BY <1>1, <1>4, <1>5, <2>2, <2>3, SMTT(30)
    <3> QED BY <1>7, <2>1, <2>3, <3>1
  <2>4. CASE m # Current
    BY <1>7, <2>1, <2>4
  <2> QED BY <2>3, <2>4
<1>10. \A i \in 1 .. n : stack_frames[i].vm \in VM
  BY <1>1, SMTT(30) DEF Structure, StackFrame
<1>11. ASSUME NEW i \in 1 .. n, NEW m, m = stack_frames'[i].vm
       PROVE  frames'[m][Constructed(m) + Pushed(m, i)'] = stack_frames'[i].frame
  BY <1>2, <1>3, <1>9, <1>10, <1>11
<1>12. \A m \in loaded' :
        /\ Len(frames'[m]) = Constructed(m) + Pushed(m, n)'
        /\ m # Main => frames'[m][1] = m
  BY <1>2, <1>8
<1>13. Len(stack_frames') = n
  BY DEF L
<1> QED BY <1>11, <1>12, <1>13 DEF FramesMatchStack

\* FramesMatchStack of any lists: pushing is a change of the lists only.
Match(fr, st, ld) ==
  /\ \A m \in ld :
       /\ Len(fr[m]) = Constructed(m) + PushedIn(st, m, Len(st))
       /\ m # Main => fr[m][1] = m
  /\ \A i \in 1 .. Len(st) :
       fr[st[i].vm][Constructed(st[i].vm) + PushedIn(st, st[i].vm, i)] = st[i].frame

\* FramesMatchStack is Match of the lists.
LEMMA MatchIs ==
  stack_frames \in Seq(StackFrame) =>
    (FramesMatchStack <=> Match(frames, stack_frames, loaded))
<1> SUFFICES ASSUME stack_frames \in Seq(StackFrame)
    PROVE  FramesMatchStack <=> Match(frames, stack_frames, loaded)
  OBVIOUS
<1>1. Len(stack_frames) \in Nat
  OBVIOUS
<1>2. \A m : \A i \in Nat : Pushed(m, i) = PushedIn(stack_frames, m, i)
  BY RunIsCount
<1> QED BY <1>1, <1>2 DEF FramesMatchStack, Match

SameShape(s, t) ==
  /\ Len(s) = Len(t)
  /\ \A i \in 1 .. Len(t) :
       s[i].frame = t[i].frame /\ s[i].vm = t[i].vm /\ s[i].call_frame = t[i].call_frame

\* The places in a VM's list, counted from any stack.
LEMMA PushedInStep ==
  ASSUME NEW s, NEW m, NEW i \in Nat
  PROVE  /\ PushedIn(s, m, 0) = 0
         /\ PushedIn(s, m, i) \in Nat
         /\ PushedIn(s, m, i + 1) = PushedIn(s, m, i) + (IF s[i + 1].vm = m THEN 1 ELSE 0)
<1> DEFINE P == {j \in Nat : s[j].vm = m}
<1>1. \A k \in Nat : PushedIn(s, m, k) = Count(P, k)
  BY DEF PushedIn
<1>2. \A k \in Nat : k \in P <=> s[k].vm = m
  OBVIOUS
<1> HIDE DEF P
<1>3. i + 1 \in Nat \ {0} /\ (i + 1) - 1 = i
  OBVIOUS
<1> QED BY <1>1, <1>2, <1>3, CountStep

\* The same, for all stacks.
LEMMA PushedInNext ==
  \A s, m : \A i \in Nat :
    /\ PushedIn(s, m, i) \in Nat
    /\ PushedIn(s, m, i + 1) = PushedIn(s, m, i) + (IF s[i + 1].vm = m THEN 1 ELSE 0)
  BY PushedInStep

\* A count never falls.
LEMMA PushedInMono ==
  ASSUME NEW s, NEW m, NEW i \in Nat, NEW j \in Nat, i <= j
  PROVE  PushedIn(s, m, i) \in Nat /\ PushedIn(s, m, i) <= PushedIn(s, m, j)
<1> DEFINE P == {k \in Nat : s[k].vm = m}
<1>1. PushedIn(s, m, i) = Count(P, i) /\ PushedIn(s, m, j) = Count(P, j)
  BY DEF PushedIn
<1> HIDE DEF P
<1> QED BY <1>1, CountMono

\* It depends on the VMs of the frames only.
LEMMA PushedInSame ==
  ASSUME NEW s, NEW t, NEW n \in Nat, \A i \in 1 .. n : s[i].vm = t[i].vm
  PROVE  \A m : \A i \in 0 .. n : PushedIn(s, m, i) = PushedIn(t, m, i)
<1> TAKE m
<1> DEFINE P == {j \in Nat : s[j].vm = m}
           Q == {j \in Nat : t[j].vm = m}
<1>1. \A i \in 1 .. n : i \in P <=> i \in Q
  OBVIOUS
<1>2. \A i \in 0 .. n : PushedIn(s, m, i) = Count(P, i) /\ PushedIn(t, m, i) = Count(Q, i)
  BY DEF PushedIn
<1> HIDE DEF P, Q
<1>3. \A i \in 0 .. n : Count(P, i) = Count(Q, i)
  BY <1>1, CountSame
<1> QED BY <1>2, <1>3

\* Match does not look at open calls.
LEMMA MatchShape ==
  ASSUME NEW fr, NEW s \in Seq(StackFrame), NEW t \in Seq(StackFrame), NEW ld,
         SameShape(s, t), Match(fr, t, ld)
  PROVE  Match(fr, s, ld)
<1>1. Len(s) \in Nat /\ Len(s) = Len(t)
  BY DEF SameShape
<1>2. \A i \in 1 .. Len(s) : s[i].vm = t[i].vm
  BY <1>1 DEF SameShape
<1>3. \A m : \A i \in 0 .. Len(s) : PushedIn(s, m, i) = PushedIn(t, m, i)
  BY <1>1, <1>2, PushedInSame
<1> QED BY <1>1, <1>3 DEF Match, SameShape

\* A frame is pushed on a list and the stack.
LEMMA MatchAppend ==
  ASSUME NEW fr \in [VM -> Seq(Frame \cup VM)], NEW st \in Seq(StackFrame),
         NEW ld \in SUBSET VM, NEW e \in StackFrame, e.vm \in ld, Match(fr, st, ld)
  PROVE  Match([fr EXCEPT ![e.vm] = Append(@, e.frame)], Append(st, e), ld)
<1> DEFINE w == e.vm
           fr2 == [fr EXCEPT ![w] = Append(@, e.frame)]
           st2 == Append(st, e)
           n == Len(st)
<1>0. w \in VM /\ e.frame \in Frame \cup VM /\ n \in Nat /\ \A i \in 1 .. n : st[i] \in StackFrame /\ st[i].vm \in VM
  <2>1. n \in Nat /\ \A i \in 1 .. n : st[i] \in StackFrame
    OBVIOUS
  <2>2. \A x \in StackFrame : x.vm \in VM /\ x.frame \in Frame \cup VM
    BY DEF StackFrame
  <2> QED BY <2>1, <2>2
<1>1. /\ w \in VM /\ e.frame \in Frame \cup VM /\ n \in Nat /\ Len(st2) = n + 1
      /\ fr[w] \in Seq(Frame \cup VM)
      /\ \A i \in 1 .. n : st2[i] = st[i]
      /\ st2[n + 1] = e
  BY DEF StackFrame
<1>2. /\ Len(fr2[w]) = Len(fr[w]) + 1 /\ Len(fr[w]) \in Nat
      /\ \A k \in 1 .. Len(fr[w]) : fr2[w][k] = fr[w][k]
      /\ fr2[w][Len(fr[w]) + 1] = e.frame
      /\ \A k \in VM : k # w => fr2[k] = fr[k]
  BY <1>1
<1> HIDE DEF fr2, st2, w, n
<1>3. \A k : \A i \in 0 .. n : PushedIn(st2, k, i) = PushedIn(st, k, i)
  BY <1>1, PushedInSame
<1>4. \A k : PushedIn(st2, k, n + 1) = PushedIn(st, k, n) + (IF w = k THEN 1 ELSE 0)
  <2> TAKE k
  <2>1. PushedIn(st2, k, n + 1) = PushedIn(st2, k, n) + (IF st2[n + 1].vm = k THEN 1 ELSE 0)
    BY <1>0, PushedInNext
  <2>2. PushedIn(st2, k, n) = PushedIn(st, k, n)
    BY <1>0, <1>3
  <2>3. st2[n + 1].vm = w
    BY <1>1 DEF w
  <2> QED BY <2>1, <2>2, <2>3
<1>5. Len(fr[w]) = Constructed(w) + PushedIn(st, w, n)
  BY DEF Match, w, n
<1>6. ASSUME NEW k \in ld
      PROVE  /\ Len(fr2[k]) = Constructed(k) + PushedIn(st2, k, n + 1)
             /\ k # Main => fr2[k][1] = k
  <2>1. /\ k \in VM /\ Len(fr[k]) = Constructed(k) + PushedIn(st, k, n) /\ (k # Main => fr[k][1] = k)
        /\ PushedIn(st, k, n) \in Nat
    BY <1>1, PushedInStep DEF Match, n
  <2>2. CASE k = w
    <3>1. k # Main => 1 \in 1 .. Len(fr[w])
      BY <1>2, <2>1, <2>2 DEF Constructed
    <3>2. Len(fr2[k]) = Constructed(k) + PushedIn(st2, k, n + 1)
      BY <1>2, <1>4, <2>1, <2>2 DEF Constructed
    <3> QED BY <1>2, <2>1, <2>2, <3>1, <3>2
  <2>3. CASE k # w
    BY <1>2, <1>4, <2>1, <2>3
  <2> QED BY <2>2, <2>3
<1>7. ASSUME NEW i \in 1 .. n + 1, NEW k, k = st2[i].vm
      PROVE  fr2[k][Constructed(k) + PushedIn(st2, k, i)] = st2[i].frame
  <2>1. CASE i = n + 1
    <3>1. k = w /\ PushedIn(st, w, n) \in Nat
      BY <1>1, <1>7, <2>1, PushedInStep DEF w
    <3>2. Constructed(k) + PushedIn(st2, k, i) = Len(fr[w]) + 1
      BY <1>4, <1>5, <2>1, <3>1 DEF Constructed
    <3> QED BY <1>1, <1>2, <2>1, <3>1, <3>2
  <2>2. CASE i # n + 1
    <3>1. i \in 1 .. n /\ i \in 0 .. n /\ k = st[i].vm /\ st2[i].frame = st[i].frame
      BY <1>1, <1>7, <2>2
    <3>2. fr[k][Constructed(k) + PushedIn(st, k, i)] = st[i].frame
      BY <3>1 DEF Match, n
    <3>3. k \in VM
      BY <1>0, <3>1
    <3>4. CASE k = w
      <4>1. PushedIn(st, w, i) <= PushedIn(st, w, n) /\ PushedIn(st, w, n) \in Nat
        <5>1. i \in Nat /\ i <= n
          BY <1>1, <3>1
        <5> QED BY <1>1, <5>1, PushedInMono, PushedInStep
      <4>2. PushedIn(st, w, i) \in Nat \ {0}
        <5>1. PICK j \in Nat : i = j + 1
          <6>1. i - 1 \in Nat /\ i = (i - 1) + 1
            BY <3>1, <1>1
          <6> QED BY <6>1
        <5>2. /\ PushedIn(st, w, j) \in Nat
              /\ PushedIn(st, w, j + 1) = PushedIn(st, w, j) + (IF st[j + 1].vm = w THEN 1 ELSE 0)
          BY PushedInNext
        <5>3. st[j + 1].vm = w
          BY <3>1, <3>4, <5>1
        <5>4. PushedIn(st, w, j + 1) = PushedIn(st, w, j) + 1
          BY <5>2, <5>3
        <5> QED BY <5>1, <5>2, <5>4
      <4>3. Constructed(k) + PushedIn(st, k, i) \in 1 .. Len(fr[w])
        BY <1>5, <3>4, <4>1, <4>2 DEF Constructed
      <4> QED BY <1>2, <1>3, <3>1, <3>2, <3>4, <4>3
    <3>5. CASE k # w
      BY <1>2, <1>3, <3>1, <3>2, <3>3, <3>5
    <3> QED BY <3>4, <3>5
  <2> QED BY <2>1, <2>2
<1> QED BY <1>1, <1>6, <1>7 DEF Match, fr2, st2, w, n

\* push_frame keeps FramesMatchStack.
LEMMA MatchPushed ==
  ASSUME StacksTyped, FramesMatchStack, NEW s \in Seq(StackFrame), SameShape(s, stack_frames),
         NEW e \in StackFrame, e.vm \in loaded,
         frames' = [frames EXCEPT ![e.vm] = Append(@, e.frame)],
         stack_frames' = Append(s, e), loaded' = loaded
  PROVE  FramesMatchStack'
<1>1. /\ stack_frames \in Seq(StackFrame) /\ frames \in [VM -> Seq(Frame \cup VM)]
      /\ loaded \in SUBSET VM
  BY DEF StacksTyped
<1>2. Match(frames, stack_frames, loaded)
  BY <1>1, MatchIs
<1>3. Match(frames, s, loaded)
  BY <1>1, <1>2, MatchShape
<1>4. Match([frames EXCEPT ![e.vm] = Append(@, e.frame)], Append(s, e), loaded)
  BY <1>1, <1>3, MatchAppend
<1>5. stack_frames' \in Seq(StackFrame)
  OBVIOUS
<1>6. stack_frames' \in Seq(StackFrame) =>
        (FramesMatchStack' <=> Match(frames', stack_frames', loaded'))
  <2>1. (stack_frames \in Seq(StackFrame) =>
          (FramesMatchStack <=> Match(frames, stack_frames, loaded)))'
    BY MatchIs, PTL
  <2> QED BY <2>1
<1> QED BY <1>4, <1>5, <1>6

\* A new frame is none of those on the stack.
LEMMA FreshNotOnStack ==
  ASSUME StacksTyped, StackInv, NEW f \in Frame, Fresh(f)
  PROVE  \A i \in 1 .. L : stack_frames[i].frame # f
<1> TAKE i \in 1 .. L
<1> DEFINE m == stack_frames[i].vm
           x == Constructed(m) + Pushed(m, i)
<1>1. Structure
  BY StackStructure
<1>2. m \in loaded /\ m \in VM /\ L \in Nat
  BY <1>1 DEF Structure, StacksTyped
<1>3. Len(frames[m]) = Constructed(m) + Pushed(m, L) /\ frames[m][x] = stack_frames[i].frame
  BY <1>2 DEF StackInv, FramesMatchStack, L
<1>4. Pushed(m, i) = Pushed(m, i - 1) + 1 /\ Pushed(m, i - 1) \in Nat
      /\ Pushed(m, i) <= Pushed(m, L) /\ Pushed(m, L) \in Nat
  BY <1>2, PushedStep DEF PushedFacts
<1>5. x \in 1 .. Len(frames[m])
  BY <1>2, <1>3, <1>4 DEF Constructed
<1> QED BY <1>2, <1>3, <1>5 DEF Fresh

\* The frame of a function or a class body is pushed.
LEMMA StackPush ==
  ASSUME StacksTyped, StackInv, Running, Running', FramesMatchStack',
         runs' = runs, loaded' = loaded, L' = L + 1, SameBelow(L),
         NEW f \in Frame, Fresh(f), stack_frames'[L + 1].frame = f,
         stack_frames'[L + 1].vm = Current
  PROVE  StackInv'
<1>1. Structure /\ VM \cap Frame = {}
  BY StackStructure, CallStackAssumption
<1>2. /\ \A i \in 0 .. L : RunOf(i)' = RunOf(i)
      /\ \A i \in 1 .. L : IsBase(i)' = IsBase(i)
  BY <1>1, CountsBelow DEF Structure
<1> PICK n \in Nat : n = L + 1
  BY <1>1 DEF Structure
<1>3. ~IsBase(n)'
  BY <1>1 DEF IsBase
<1>4. RunOf(n)' = RunOf(n - 1)' /\ RunOf(n - 1)' = RunOf(L)
  BY <1>1, <1>2, <1>3, CountsNext DEF RunFacts, Structure
<1>5. Current' = Current /\ mode' \notin {"end", "leave"}
  BY DEF Current, Running
<1>6. L \in Nat \ {0} /\ RunOf(L) = Len(runs) /\ Current = runs[Len(runs)].vm
  BY <1>1 DEF Structure, StackInv, RunsOnStack, L, Current, Last
<1>7. RunsOnStack'
  <2>1. IsBase(1)'
    BY <1>2, <1>6 DEF StackInv, RunsOnStack
  <2>2. RunOf(Len(stack_frames))' = Len(runs)
    BY <1>2, <1>4, <1>6 DEF L
  <2>3. ASSUME NEW i \in 1 .. n PROVE stack_frames'[i].vm = runs'[RunOf(i)'].vm
    <3>1. CASE i = n
      BY <1>2, <1>4, <1>6, <3>1
    <3>2. CASE i # n
      <4>1. i \in 1 .. L
        BY <1>6, <3>2
      <4> QED BY <1>1, <1>2, <4>1 DEF Structure, SameBelow
    <3> QED BY <3>1, <3>2
  <2> QED BY <1>5, <2>1, <2>2, <2>3 DEF RunsOnStack, L
<1>8. FramesOfStack'
  <2>1. ASSUME NEW i \in 1 .. n, IsBase(i)'
        PROVE  /\ stack_frames'[i].frame = stack_frames'[i].vm
               /\ stack_frames'[i].call_frame = None
    <3>1. i \in 1 .. L
      BY <1>3, <1>6, <2>1
    <3> QED BY <1>2, <2>1, <3>1 DEF StackInv, FramesOfStack, SameBelow
  <2>2. ASSUME NEW i \in 1 .. n, NEW j \in 1 .. n, i < j, ~IsBase(i)'
        PROVE  stack_frames'[i].frame # stack_frames'[j].frame
    <3>1. i \in 1 .. L
      BY <1>6, <2>2
    <3>2. CASE j = n
      BY <3>1, <3>2, FreshNotOnStack DEF SameBelow
    <3>3. CASE j # n
      <4>1. j \in 1 .. L
        BY <1>6, <3>3
      <4> QED BY <1>2, <2>2, <3>1, <4>1 DEF StackInv, FramesOfStack, SameBelow
    <3> QED BY <3>2, <3>3
  <2> QED BY <2>1, <2>2 DEF FramesOfStack
<1>9. KindsOfRuns'
  BY DEF StackInv, KindsOfRuns
<1>10. FirstFrames'
  <2> SUFFICES ASSUME NEW i \in 1 .. n, StartsFunction(i)'
      PROVE  /\ i # n /\ ~IsBase(i + 1)'
             /\ stack_frames'[i + 1].call_frame = runs'[RunOf(i)'].call_frame
    BY DEF FirstFrames
  <2>1. IsBase(i)' /\ i \in 1 .. L
    BY <1>3, <1>6 DEF StartsFunction
  <2>2. StartsFunction(i)
    BY <1>1, <1>2, <2>1 DEF StartsFunction, KindOf
  <2>3. i # L /\ i + 1 \in 1 .. L
    BY <1>6, <2>1, <2>2 DEF StackInv, FirstFrames
  <2> QED BY <1>2, <1>6, <2>1, <2>2, <2>3 DEF StackInv, FirstFrames, SameBelow
<1> QED BY <1>7, <1>8, <1>9, <1>10 DEF StackInv

\* The frames of the run above the n-th are popped.
LEMMA StackPop ==
  ASSUME StacksTyped, StackInv, NEW n \in Base .. L, L' = n, SameBelow(n),
         frames' = FramesWithout(L - n), runs' = runs, loaded' = loaded,
         mode' \in {"end", "leave"} => n = Base,
         n = Base /\ StartsFunction(Base) => ~Running'
  PROVE  StackInv'
<1>1. Structure
  BY StackStructure
<1>2. L \in Nat \ {0} /\ Base \in 1 .. L /\ n \in 1 .. L /\ n \in Nat
  BY <1>1 DEF Structure
<1>3. /\ \A i \in 0 .. n : RunOf(i)' = RunOf(i)
      /\ \A i \in 1 .. n : IsBase(i)' = IsBase(i)
  BY <1>2, CountsBelow
<1>4. FramesMatchStack'
  BY <1>1, <1>2, FramesMatchPopped DEF StackInv
<1>5. Current' = Current
  BY DEF Current
<1>6. RunsOnStack'
  <2>1. IsBase(1)'
    BY <1>2, <1>3 DEF StackInv, RunsOnStack
  <2>2. RunOf(Len(stack_frames))' = Len(runs)
    BY <1>1, <1>2, <1>3 DEF L, Structure
  <2>3. \A i \in 1 .. n : stack_frames'[i].vm = runs'[RunOf(i)'].vm
    BY <1>1, <1>2, <1>3, SMTT(30) DEF Structure, SameBelow
  <2>4. mode' \in {"end", "leave"} => stack_frames'[n].frame = Current
    BY <1>1, <1>2 DEF Structure, SameBelow
  <2> QED BY <1>5, <2>1, <2>2, <2>3, <2>4 DEF RunsOnStack, L, Top, Last
<1>7. FramesOfStack'
  <2>1. ASSUME NEW i \in 1 .. n, IsBase(i)'
        PROVE  /\ stack_frames'[i].frame = stack_frames'[i].vm
               /\ stack_frames'[i].call_frame = None
    BY <1>2, <1>3, <2>1 DEF StackInv, FramesOfStack, SameBelow
  <2>2. ASSUME NEW i \in 1 .. n, NEW j \in 1 .. n, i < j, ~IsBase(i)'
        PROVE  stack_frames'[i].frame # stack_frames'[j].frame
    BY <1>2, <1>3, <2>2 DEF StackInv, FramesOfStack, SameBelow
  <2> QED BY <2>1, <2>2 DEF FramesOfStack
<1>8. KindsOfRuns'
  BY DEF StackInv, KindsOfRuns
<1>9. FirstFrames'
  <2> SUFFICES ASSUME NEW i \in 1 .. n, StartsFunction(i)'
      PROVE  IF i = n THEN ~Running'
             ELSE /\ ~IsBase(i + 1)'
                  /\ stack_frames'[i + 1].call_frame = runs'[RunOf(i)'].call_frame
    BY DEF FirstFrames
  <2>1. StartsFunction(i) /\ IsBase(i) /\ i \in 1 .. L
    BY <1>2, <1>3 DEF StartsFunction, KindOf
  <2>2. CASE i = n
    BY <1>1, <1>2, <2>1, <2>2 DEF Structure
  <2>3. CASE i # n
    <3>1. i + 1 \in 1 .. n /\ i # L
      BY <1>2, <2>3
    <3> QED BY <1>2, <1>3, <2>1, <2>3, <3>1 DEF StackInv, FirstFrames, SameBelow
  <2> QED BY <2>2, <2>3
<1> QED BY <1>4, <1>6, <1>7, <1>8, <1>9 DEF StackInv

\* A run ends and its base is popped.
LEMMA StackEnd ==
  ASSUME StacksTyped, StackInv, mode \in {"end", "leave"}, Last(runs).kind # "main",
         L' = L - 1, SameBelow(L - 1), frames' = FramesWithout(1),
         runs' = Front(runs), loaded' = loaded, Running'
  PROVE  StackInv' /\ L = Base /\ L > 1 /\ Len(runs) > 1
<1>1. Structure
  BY StackStructure
<1> PICK n \in Nat : n = L - 1
  BY <1>1 DEF Structure
<1>2. L = Base /\ L \in Nat \ {0} /\ n + 1 = L /\ L - n = 1
  <2>1. L \in Nat \ {0} /\ Base \in 1 .. L /\ stack_frames[L].frame = Current /\ Current \in VM
    BY <1>1 DEF StackInv, RunsOnStack, Structure, Top, Last, L
  <2>2. IsBase(L)
    BY <2>1 DEF IsBase
  <2> QED BY <1>1, <2>1, <2>2 DEF Structure
<1>3. Len(runs) \in Nat /\ Len(runs) > 1
  <2>1. Len(runs) \in Nat \ {0}
    BY <1>1 DEF Structure
  <2>2. runs[Len(runs)].kind = "main" <=> Len(runs) = 1
    <3>1. Len(runs) \in 1 .. Len(runs)
      BY <2>1
    <3> QED BY <3>1 DEF StackInv, KindsOfRuns
  <2>3. Len(runs) # 1
    BY <2>2 DEF Last
  <2>4. \A k \in Nat \ {0} : k # 1 => k \in Nat /\ k > 1
    OBVIOUS
  <2> QED BY <2>1, <2>3, <2>4
<1>4. n >= 1
  <2>1. RunOf(1) <= 1 /\ RunOf(L) = Len(runs)
    BY <1>3, RunStep DEF RunFacts, StackInv, RunsOnStack, L
  <2> QED BY <1>2, <1>3, <2>1
<1>5. /\ \A i \in 0 .. n : RunOf(i)' = RunOf(i)
      /\ \A i \in 1 .. n : IsBase(i)' = IsBase(i)
  BY <1>2, CountsBelow
<1>6. FramesMatchStack'
  <2>1. n <= L /\ n >= Base - 1 /\ L' = n /\ SameBelow(n)
        /\ frames' = FramesWithout(L - n)
    BY <1>2
  <2> QED BY <1>1, <2>1, FramesMatchPopped DEF StackInv
<1>7. /\ Len(runs') = Len(runs) - 1
      /\ \A k \in 1 .. Len(runs) - 1 : runs'[k] = runs[k]
  <2>1. runs \in Seq(Activation) /\ Len(runs) - 1 \in 0 .. Len(runs)
    BY <1>3 DEF StacksTyped
  <2> QED BY <2>1, Prefix DEF Front
<1>8. \A i \in 1 .. n : RunOf(i) \in 1 .. Len(runs) - 1 /\ i \in 1 .. L
  BY <1>1, <1>2, <1>3 DEF Structure
<1>9. RunOf(n) = Len(runs) - 1
  <2>1. RunOf(L) = RunOf(n) + 1 /\ RunOf(n) \in Nat
    BY <1>1, <1>2, <1>4, RunStep DEF RunFacts, Structure
  <2>2. RunOf(L) = Len(runs)
    BY DEF StackInv, RunsOnStack, L
  <2> QED BY <1>3, <2>1, <2>2
<1>10. RunsOnStack'
  <2>1. IsBase(1)'
    BY <1>4, <1>5 DEF StackInv, RunsOnStack
  <2>2. RunOf(Len(stack_frames))' = Len(runs')
    BY <1>5, <1>7, <1>9 DEF L
  <2>3. \A i \in 1 .. n : stack_frames'[i].vm = runs'[RunOf(i)'].vm
    <3> TAKE i \in 1 .. n
    <3>1. RunOf(i) \in 1 .. Len(runs) - 1 /\ RunOf(i)' = RunOf(i)
          /\ stack_frames[i].vm = runs[RunOf(i)].vm
      BY <1>1, <1>5, <1>8 DEF Structure
    <3>2. stack_frames'[i].vm = stack_frames[i].vm
      BY <1>2 DEF SameBelow
    <3>3. runs'[RunOf(i)] = runs[RunOf(i)]
      BY <1>7, <3>1
    <3> QED BY <3>1, <3>2, <3>3
  <2>4. mode' \notin {"end", "leave"}
    BY DEF Running
  <2> QED BY <2>1, <2>2, <2>3, <2>4 DEF RunsOnStack, L
<1>11. FramesOfStack'
  <2>1. ASSUME NEW i \in 1 .. n, IsBase(i)'
        PROVE  /\ stack_frames'[i].frame = stack_frames'[i].vm
               /\ stack_frames'[i].call_frame = None
    BY <1>5, <1>8, <2>1 DEF StackInv, FramesOfStack, SameBelow
  <2>2. ASSUME NEW i \in 1 .. n, NEW j \in 1 .. n, i < j, ~IsBase(i)'
        PROVE  stack_frames'[i].frame # stack_frames'[j].frame
    BY <1>5, <1>8, <2>2 DEF StackInv, FramesOfStack, SameBelow
  <2> QED BY <2>1, <2>2 DEF FramesOfStack
<1>12. KindsOfRuns'
  <2> SUFFICES ASSUME NEW k \in 1 .. Len(runs) - 1
      PROVE  /\ runs'[k].kind = "main" <=> k = 1
             /\ runs'[k].kind \in ForFunction <=> runs'[k].call_frame # None
             /\ runs'[k].vm \in loaded
             /\ runs'[k].kind = "call" => runs'[k - 1].vm # runs'[k].vm
             /\ runs'[k].kind \notin ForFunction \/ "reentry" \notin Features =>
                  \A j \in 1 .. k - 1 : runs'[j].vm # runs'[k].vm
    BY <1>7 DEF StackInv, KindsOfRuns
  <2>1. k \in 1 .. Len(runs) /\ runs'[k] = runs[k]
        /\ \A j \in 1 .. k - 1 : runs'[j] = runs[j]
    BY <1>3, <1>7
  <2>2. runs[k].kind = "call" => runs'[k - 1] = runs[k - 1]
    <3>1. runs[k].kind = "call" => k # 1
      BY <2>1 DEF StackInv, KindsOfRuns
    <3>2. k # 1 => k - 1 \in 1 .. k - 1
      BY <2>1
    <3> QED BY <2>1, <3>1, <3>2
  <2> QED BY <2>1, <2>2, SMTT(30) DEF StackInv, KindsOfRuns
<1>13. FirstFrames'
  <2> SUFFICES ASSUME NEW i \in 1 .. n, StartsFunction(i)'
      PROVE  /\ i # n /\ ~IsBase(i + 1)'
             /\ stack_frames'[i + 1].call_frame = runs'[RunOf(i)'].call_frame
    BY DEF FirstFrames
  <2>1. StartsFunction(i) /\ i \in 1 .. L /\ i # L
    <3>1. StartsFunction(i)
      <4>1. RunOf(i)' = RunOf(i) /\ IsBase(i)' = IsBase(i)
        BY <1>5
      <4>2. runs'[RunOf(i)] = runs[RunOf(i)]
        BY <1>7, <1>8
      <4> QED BY <4>1, <4>2 DEF StartsFunction, KindOf
    <3>2. i \in 1 .. L /\ i # L
      BY <1>2, <1>8
    <3> QED BY <3>1, <3>2
  <2>2. ~IsBase(i + 1) /\ stack_frames[i + 1].call_frame = runs[RunOf(i)].call_frame
    BY <2>1 DEF StackInv, FirstFrames
  <2>3. i # n /\ i + 1 \in 1 .. n
    BY <1>1, <1>2, <2>2 DEF Structure
  <2> QED BY <1>5, <1>7, <1>8, <2>2, <2>3, SMTT(30) DEF SameBelow
<1> QED BY <1>2, <1>3, <1>4, <1>6, <1>10, <1>11, <1>12, <1>13 DEF StackInv

\* A run starts: its base is pushed, and the frame of its function.
LEMMA StackRun ==
  ASSUME StacksTyped, StackInv, Running, Running', FramesMatchStack', loaded \subseteq loaded',
         NEW m \in VM, NEW kind \in {"import", "call", "native"}, NEW c,
         runs' = Append(runs, [vm |-> m, kind |-> kind, call_frame |-> c]),
         kind \in ForFunction <=> c # None, m \in loaded',
         kind = "call" => m # Current,
         kind \notin ForFunction \/ "reentry" \notin Features =>
           \A k \in 1 .. Len(runs) : runs[k].vm # m,
         SameBelow(L), stack_frames'[L + 1].frame = m, stack_frames'[L + 1].vm = m,
         stack_frames'[L + 1].call_frame = None,
         L' = IF kind = "import" THEN L + 1 ELSE L + 2,
         kind \in ForFunction =>
           \E f \in Frame : /\ Fresh(f) /\ stack_frames'[L + 2].frame = f
                            /\ stack_frames'[L + 2].vm = m
                            /\ stack_frames'[L + 2].call_frame = c
  PROVE  StackInv'
<1>1. Structure /\ VM \cap Frame = {}
  BY StackStructure, CallStackAssumption
<1> PICK n \in Nat : n = L
  BY <1>1 DEF Structure
<1> PICK n1 \in Nat : n1 = n + 1
  OBVIOUS
<1> PICK n2 \in Nat : n2 = n + 2
  OBVIOUS
<1> DEFINE R == Len(runs)
<1>2. /\ \A i \in 0 .. n : RunOf(i)' = RunOf(i)
      /\ \A i \in 1 .. n : IsBase(i)' = IsBase(i)
  BY <1>1, CountsBelow DEF Structure
<1>3. n \in Nat \ {0} /\ R \in Nat \ {0} /\ RunOf(n) = R /\ Current = runs[R].vm
  BY <1>1 DEF Structure, StackInv, RunsOnStack, L, Current, Last
<1>4. IsBase(n1)' /\ RunOf(n1)' = R + 1
  <2>1. IsBase(n1)'
    BY DEF IsBase
  <2>2. RunOf(n1)' = RunOf(n1 - 1)' + 1
    BY <1>3, <2>1, CountsNext DEF RunFacts
  <2>3. RunOf(n1 - 1)' = RunOf(n)
    <3>1. n1 - 1 = n
      OBVIOUS
    <3> QED BY <1>2, <1>3, <3>1
  <2> QED BY <1>3, <2>1, <2>2, <2>3
<1>5. kind \in ForFunction => ~IsBase(n2)' /\ RunOf(n2)' = R + 1
  <2> SUFFICES ASSUME kind \in ForFunction PROVE ~IsBase(n2)' /\ RunOf(n2)' = R + 1
    OBVIOUS
  <2>1. ~IsBase(n2)'
    BY <1>1 DEF IsBase
  <2>2. RunOf(n2)' = RunOf(n2 - 1)' /\ RunOf(n2 - 1)' = RunOf(n1)'
    <3>1. n2 - 1 = n1 /\ n2 \in Nat \ {0}
      BY <1>3
    <3>2. RunOf(n2)' = RunOf(n2 - 1)' + 0 /\ RunOf(n2 - 1)' \in Nat
      BY <2>1, <3>1, CountsNext DEF RunFacts
    <3>3. RunOf(n2 - 1)' = RunOf(n1)'
      BY <3>1
    <3> QED BY <3>2, <3>3
  <2> QED BY <1>4, <2>1, <2>2
<1>6. /\ Len(runs') = R + 1 /\ \A k \in 1 .. R : runs'[k] = runs[k]
      /\ runs'[R + 1] = [vm |-> m, kind |-> kind, call_frame |-> c]
  BY DEF StacksTyped
<1>7. (L' = n1 \/ (kind \in ForFunction /\ L' = n2)) /\ (kind = "import" <=> L' = n1)
      /\ (kind = "import" <=> kind \notin ForFunction)
  BY <1>3 DEF ForFunction
<1>8. \A i \in 1 .. L' : i \in 1 .. n \/ i = n1 \/ (i = n2 /\ kind \in ForFunction)
  BY <1>3, <1>7
<1>9. Current' = m /\ mode' \notin {"end", "leave"}
  BY <1>3, <1>6 DEF Current, Last, Running
<1>10. RunsOnStack'
  <2>1. IsBase(1)'
    BY <1>2, <1>3 DEF StackInv, RunsOnStack
  <2>2. RunOf(Len(stack_frames))' = Len(runs')
    BY <1>4, <1>5, <1>6, <1>7 DEF L
  <2>3. ASSUME NEW i \in 1 .. L' PROVE stack_frames'[i].vm = runs'[RunOf(i)'].vm
    <3>1. CASE i \in 1 .. n
      BY <1>1, <1>2, <1>6, <3>1 DEF Structure, SameBelow
    <3>2. CASE i = n1
      BY <1>4, <1>6, <3>2
    <3>3. CASE i = n2 /\ kind \in ForFunction
      BY <1>5, <1>6, <3>3
    <3> QED BY <1>8, <3>1, <3>2, <3>3
  <2> QED BY <1>9, <2>1, <2>2, <2>3 DEF RunsOnStack, L
<1>11. FramesOfStack'
  <2>1. ASSUME NEW i \in 1 .. L', IsBase(i)'
        PROVE  /\ stack_frames'[i].frame = stack_frames'[i].vm
               /\ stack_frames'[i].call_frame = None
    <3>1. CASE i \in 1 .. n
      BY <1>2, <2>1, <3>1 DEF StackInv, FramesOfStack, SameBelow
    <3>2. CASE i = n1
      BY <3>2
    <3> QED BY <1>5, <1>8, <2>1, <3>1, <3>2
  <2>2. ASSUME NEW i \in 1 .. L', NEW j \in 1 .. L', i < j, ~IsBase(i)'
        PROVE  stack_frames'[i].frame # stack_frames'[j].frame
    <3>1. i \in 1 .. n
      BY <1>4, <1>8, <2>2, <1>7
    <3>2. stack_frames'[i].frame = stack_frames[i].frame /\ stack_frames[i].frame \in Frame
      BY <1>1, <1>2, <2>2, <3>1 DEF SameBelow, Structure
    <3>3. CASE j \in 1 .. n
      BY <1>2, <2>2, <3>1, <3>3 DEF StackInv, FramesOfStack, SameBelow
    <3>4. CASE j = n1
      BY <1>1, <3>2, <3>4
    <3>5. CASE j = n2 /\ kind \in ForFunction
      BY <3>1, <3>2, <3>5, FreshNotOnStack
    <3> QED BY <1>8, <3>3, <3>4, <3>5
  <2> QED BY <2>1, <2>2 DEF FramesOfStack, L
<1>12. KindsOfRuns'
  <2> SUFFICES ASSUME NEW k \in 1 .. R + 1
      PROVE  /\ runs'[k].kind = "main" <=> k = 1
             /\ runs'[k].kind \in ForFunction <=> runs'[k].call_frame # None
             /\ runs'[k].vm \in loaded'
             /\ runs'[k].kind = "call" => runs'[k - 1].vm # runs'[k].vm
             /\ runs'[k].kind \notin ForFunction \/ "reentry" \notin Features =>
                  \A j \in 1 .. k - 1 : runs'[j].vm # runs'[k].vm
    BY <1>6 DEF StackInv, KindsOfRuns
  <2>1. CASE k \in 1 .. R
    <3>1. runs'[k] = runs[k] /\ \A j \in 1 .. k - 1 : runs'[j] = runs[j]
      BY <1>3, <1>6, <2>1
    <3>2. runs[k].kind = "call" => runs'[k - 1] = runs[k - 1]
      <4>1. runs[k].kind = "call" => k # 1
        BY <2>1 DEF StackInv, KindsOfRuns
      <4>2. k # 1 => k - 1 \in 1 .. k - 1
        BY <2>1
      <4> QED BY <3>1, <4>1, <4>2
    <3> QED BY <2>1, <3>1, <3>2 DEF StackInv, KindsOfRuns
  <2>2. CASE k = R + 1
    <3>1. runs'[k] = [vm |-> m, kind |-> kind, call_frame |-> c] /\ k # 1 /\ k - 1 = R
          /\ runs'[R] = runs[R] /\ \A j \in 1 .. k - 1 : runs'[j] = runs[j] /\ j \in 1 .. Len(runs)
      BY <1>3, <1>6, <2>2
    <3> QED BY <1>3, <3>1
  <2> QED BY <1>3, <2>1, <2>2
<1>13. FirstFrames'
  <2> SUFFICES ASSUME NEW i \in 1 .. L', StartsFunction(i)'
      PROVE  /\ i # L' /\ ~IsBase(i + 1)'
             /\ stack_frames'[i + 1].call_frame = runs'[RunOf(i)'].call_frame
    BY DEF FirstFrames
  <2>1. IsBase(i)'
    BY DEF StartsFunction
  <2>2. CASE i \in 1 .. n
    <3>1. StartsFunction(i)
      BY <1>1, <1>2, <1>6, <2>2, SMTT(30) DEF StartsFunction, KindOf, Structure
    <3>2. i # n /\ i + 1 \in 1 .. n /\ ~IsBase(i + 1)
          /\ stack_frames[i + 1].call_frame = runs[RunOf(i)].call_frame
      BY <1>3, <2>2, <3>1 DEF StackInv, FirstFrames
    <3> QED BY <1>1, <1>2, <1>3, <1>6, <1>7, <2>2, <3>2, SMTT(30) DEF SameBelow, Structure
  <2>3. CASE i = n1
    <3>1. kind \in ForFunction
      BY <1>4, <1>6, <2>3 DEF StartsFunction, KindOf
    <3>2. L' = n2 /\ i + 1 = n2
      BY <1>7, <2>3, <3>1
    <3> QED BY <1>4, <1>5, <1>6, <2>3, <3>1, <3>2
  <2> QED BY <1>5, <1>8, <2>1, <2>2, <2>3
<1> QED BY <1>2, <1>3, <1>10, <1>11, <1>12, <1>13 DEF StackInv

-----------------------------------------------------------------------------
(* What the building blocks of the actions do.                             *)

\* WithOpen changes the open calls of the top frame.
LEMMA WithOpenIs ==
  ASSUME NEW s \in Seq(StackFrame), s # <<>>, NEW o \in Seq(CallFrame)
  PROVE  /\ WithOpen(s, o) \in Seq(StackFrame) /\ Len(WithOpen(s, o)) = Len(s)
         /\ \A i \in 1 .. Len(s) - 1 : WithOpen(s, o)[i] = s[i]
         /\ \A i \in 1 .. Len(s) :
              /\ WithOpen(s, o)[i].frame = s[i].frame
              /\ WithOpen(s, o)[i].vm = s[i].vm
              /\ WithOpen(s, o)[i].call_frame = s[i].call_frame
         /\ WithOpen(s, o)[Len(s)].open = o
<1>1. Len(s) \in 1 .. Len(s) /\ s[Len(s)] \in StackFrame /\ Len(s) \in Nat
  OBVIOUS
<1> DEFINE t == [s[Len(s)] EXCEPT !.open = o]
<1>2. /\ t \in StackFrame /\ t.frame = s[Len(s)].frame /\ t.vm = s[Len(s)].vm
      /\ t.call_frame = s[Len(s)].call_frame /\ t.open = o
  BY <1>1 DEF StackFrame
<1>3. WithOpen(s, o) = [s EXCEPT ![Len(s)] = t]
  BY DEF WithOpen
<1> HIDE DEF t
<1> QED BY <1>1, <1>2, <1>3

\* StackWithout leaves the lower frames.
LEMMA StackWithoutIs ==
  ASSUME StacksTyped, NEW n \in 0 .. L
  PROVE  /\ StackWithout(n) \in Seq(StackFrame) /\ Len(StackWithout(n)) = L - n
         /\ \A i \in 1 .. L - n : StackWithout(n)[i] = stack_frames[i]
<1>1. stack_frames \in Seq(StackFrame) /\ Len(stack_frames) - n \in 0 .. Len(stack_frames)
  BY DEF StacksTyped, L
<1> QED BY <1>1, Prefix DEF StackWithout, L

\* FramesWithout leaves lists of frames.
LEMMA FramesWithoutType ==
  ASSUME StacksTyped, Current \in VM, NEW n \in 0 .. Len(frames[Current])
  PROVE  FramesWithout(n) \in [VM -> Seq(Frame \cup VM)]
<1>1. frames[Current] \in Seq(Frame \cup VM)
      /\ Len(frames[Current]) - n \in 0 .. Len(frames[Current])
  BY DEF StacksTyped
<1>2. SubSeq(frames[Current], 1, Len(frames[Current]) - n) \in Seq(Frame \cup VM)
  BY <1>1, Prefix
<1> QED BY <1>2 DEF StacksTyped, FramesWithout

\* The frames that the run has on the stack are the last ones in the list.
LEMMA RunFrames ==
  ASSUME StacksTyped, StackInv
  PROVE  /\ Len(frames[Current]) \in Nat /\ Len(frames[Current]) >= L - Base
         /\ \A i \in Base .. L :
              frames[Current][Len(frames[Current]) - (L - i)] = stack_frames[i].frame
<1>1. Structure
  BY StackStructure
<1>2. L \in Nat \ {0} /\ Base \in 1 .. L /\ Current \in VM /\ Current \in loaded
  BY <1>1 DEF Structure
<1>3. Len(frames[Current]) = Constructed(Current) + Pushed(Current, L)
  BY <1>2 DEF StackInv, FramesMatchStack, L
<1>4. ASSUME NEW i \in Base .. L
      PROVE  Pushed(Current, i) = Pushed(Current, L) - (L - i) /\ Pushed(Current, i) \in Nat
  <2>1. /\ Pushed(Current, i) = Pushed(Current, Base) + (i - Base)
        /\ Pushed(Current, L) = Pushed(Current, Base) + (L - Base)
        /\ Pushed(Current, Base) \in Nat
    BY <1>1, <1>2, PushedByRun, PushedStep DEF PushedFacts
  <2> QED BY <1>2, <2>1
<1>5. Pushed(Current, L) \in Nat /\ Constructed(Current) \in Nat
  BY <1>2, <1>4 DEF Constructed
<1>6. ASSUME NEW i \in Base .. L
      PROVE  frames[Current][Len(frames[Current]) - (L - i)] = stack_frames[i].frame
  <2>1. i \in 1 .. L /\ stack_frames[i].vm = Current
    BY <1>1, <1>2 DEF Structure
  <2>2. frames[Current][Constructed(Current) + Pushed(Current, i)] = stack_frames[i].frame
    BY <2>1 DEF StackInv, FramesMatchStack, L
  <2>3. Len(frames[Current]) - (L - i) = Constructed(Current) + Pushed(Current, i)
    BY <1>2, <1>3, <1>4, <1>5
  <2> QED BY <2>2, <2>3
<1>7. Len(frames[Current]) >= L - Base
  <2>1. Pushed(Current, Base) = Pushed(Current, L) - (L - Base) /\ Pushed(Current, Base) \in Nat
    BY <1>2, <1>4
  <2> QED BY <1>2, <1>3, <1>5, <2>1
<1> QED BY <1>3, <1>5, <1>6, <1>7

\* TriesWithout clears the tries of the frames it stands for, as these are
\* the last of their list.
LEMMA TriesWithoutIs ==
  ASSUME StacksTyped, StackInv, NEW n \in 0 .. L - Base
  PROVE  /\ TriesWithout(n) \in [Frame \cup VM -> Seq(Try)]
         /\ \A f \in Frame \cup VM :
              TriesWithout(n)[f] =
                IF f \in Frame /\ \E j \in L - n + 1 .. L : stack_frames[j].frame = f
                THEN <<>> ELSE tries[f]
<1>1. Structure
  BY StackStructure
<1> DEFINE fs == frames[Current]
           popped == {fs[i] : i \in Len(fs) - n + 1 .. Len(fs)} \cap Frame
<1>2. L \in Nat \ {0} /\ Base \in 1 .. L /\ Len(fs) \in Nat
      /\ \A i \in Base .. L : fs[Len(fs) - (L - i)] = stack_frames[i].frame
  BY <1>1, RunFrames DEF Structure
<1>3. ASSUME NEW f \in Frame
      PROVE  f \in popped <=> \E j \in L - n + 1 .. L : stack_frames[j].frame = f
  <2>1. ASSUME NEW i \in Len(fs) - n + 1 .. Len(fs)
        PROVE  /\ L - (Len(fs) - i) \in L - n + 1 .. L
               /\ fs[i] = stack_frames[L - (Len(fs) - i)].frame
    <3> HIDE DEF fs
    <3>1. L - (Len(fs) - i) \in Base .. L /\ Len(fs) - (L - (L - (Len(fs) - i))) = i
      BY <1>2
    <3> QED BY <1>2, <3>1
  <2>2. ASSUME NEW j \in L - n + 1 .. L
        PROVE  /\ Len(fs) - (L - j) \in Len(fs) - n + 1 .. Len(fs)
               /\ fs[Len(fs) - (L - j)] = stack_frames[j].frame
    <3> HIDE DEF fs
    <3> QED BY <1>2
  <2>3. f \in popped <=> \E i \in Len(fs) - n + 1 .. Len(fs) : fs[i] = f
    OBVIOUS
  <2> HIDE DEF popped, fs
  <2> QED BY <2>1, <2>2, <2>3, ZenonT(30)
<1>4. TriesWithout(n) = [f \in Frame \cup VM |-> IF f \in popped THEN <<>> ELSE tries[f]]
  BY DEF TriesWithout
<1>5. popped \subseteq Frame /\ tries \in [Frame \cup VM -> Seq(Try)] /\ <<>> \in Seq(Try)
  BY DEF StacksTyped
<1> HIDE DEF popped
<1> QED BY <1>3, <1>4, <1>5

\* pop_call_frame, n times, cuts one list and deletes what was above.
LEMMA PopCallFramesIs ==
  ASSUME StacksTyped, NEW m \in VM, NEW n \in Nat, PopCallFrames(m, n)
  PROVE  /\ call_frames' \in [VM -> Seq(CallFrame)] /\ calls' \in [CallFrame -> CallState]
         /\ n <= Len(call_frames[m])
         /\ Len(call_frames'[m]) = Len(call_frames[m]) - n
         /\ \A i \in 1 .. Len(call_frames[m]) - n : call_frames'[m][i] = call_frames[m][i]
         /\ \A k \in VM : k # m => call_frames'[k] = call_frames[k]
         /\ \A c \in CallFrame :
              calls'[c] = IF \E i \in Len(call_frames[m]) - n + 1 .. Len(call_frames[m]) :
                               call_frames[m][i] = c
                          THEN "free" ELSE calls[c]
<1> DEFINE s == call_frames[m]
           deleted == {s[i] : i \in Len(s) - n + 1 .. Len(s)}
<1>1. s \in Seq(CallFrame) /\ call_frames \in [VM -> Seq(CallFrame)]
      /\ calls \in [CallFrame -> CallState] /\ Len(s) \in Nat
  BY DEF StacksTyped
<1>2. /\ Len(s) - n >= 0
      /\ call_frames' = [call_frames EXCEPT ![m] = SubSeq(s, 1, Len(s) - n)]
      /\ calls' = [c \in CallFrame |-> IF c \in deleted THEN "free" ELSE calls[c]]
  BY DEF PopCallFrames
<1>3. Len(s) - n \in 0 .. Len(s)
  BY <1>1, <1>2
<1>4. /\ SubSeq(s, 1, Len(s) - n) \in Seq(CallFrame)
      /\ Len(SubSeq(s, 1, Len(s) - n)) = Len(s) - n
      /\ \A i \in 1 .. Len(s) - n : SubSeq(s, 1, Len(s) - n)[i] = s[i]
  BY <1>1, <1>3, Prefix
<1>5. \A c \in CallFrame : c \in deleted <=> \E i \in Len(s) - n + 1 .. Len(s) : s[i] = c
  OBVIOUS
<1> HIDE DEF deleted
<1>6. calls' \in [CallFrame -> CallState]
  BY <1>1, <1>2 DEF CallState
<1> QED BY <1>1, <1>2, <1>3, <1>4, <1>5, <1>6, SMTT(30)

\* drop_call_frame cuts one list.
LEMMA DropCallFrameIs ==
  ASSUME StacksTyped, NEW m \in VM, call_frames[m] # <<>>, call_frames' = DropCallFrame(m)
  PROVE  /\ call_frames' \in [VM -> Seq(CallFrame)]
         /\ Len(call_frames'[m]) = Len(call_frames[m]) - 1
         /\ \A i \in 1 .. Len(call_frames[m]) - 1 : call_frames'[m][i] = call_frames[m][i]
         /\ \A k \in VM : k # m => call_frames'[k] = call_frames[k]
<1>1. call_frames[m] \in Seq(CallFrame) /\ call_frames \in [VM -> Seq(CallFrame)]
  BY DEF StacksTyped
<1>2. Len(call_frames[m]) - 1 \in 0 .. Len(call_frames[m])
  BY <1>1
<1>3. /\ Front(call_frames[m]) \in Seq(CallFrame)
      /\ Len(Front(call_frames[m])) = Len(call_frames[m]) - 1
      /\ \A i \in 1 .. Len(call_frames[m]) - 1 : Front(call_frames[m])[i] = call_frames[m][i]
  BY <1>1, <1>2, Prefix DEF Front
<1> QED BY <1>1, <1>3 DEF DropCallFrame

NewFrame(f, m, c) == [frame |-> f, vm |-> m, open |-> <<>>, call_frame |-> c]

\* One or two elements more are appended one after the other.
LEMMA ConcatIs ==
  ASSUME NEW S, NEW s \in Seq(S), NEW a \in S, NEW b \in S
  PROVE  /\ s \o <<a>> = Append(s, a)
         /\ s \o <<a, b>> = Append(Append(s, a), b)
  OBVIOUS

\* push_frame with one frame.
LEMMA PushFrameIs ==
  ASSUME StacksTyped, NEW m \in VM, NEW f \in Frame \cup VM, NEW c \in CallFrame \cup {None},
         NEW s \in Seq(StackFrame), PushFrames(m, <<f>>, c, s)
  PROVE  /\ frames' = [frames EXCEPT ![m] = Append(@, f)]
         /\ stack_frames' = Append(s, NewFrame(f, m, c))
         /\ NewFrame(f, m, c) \in StackFrame
         /\ NewFrame(f, m, c).vm = m /\ NewFrame(f, m, c).frame = f
         /\ NewFrame(f, m, c).call_frame = c /\ NewFrame(f, m, c).open = <<>>
<1> DEFINE r == [i \in 1 .. Len(<<f>>) |->
                   [frame |-> <<f>>[i], vm |-> m, open |-> <<>>,
                    call_frame |-> IF i = Len(<<f>>) THEN c ELSE None]]
<1>1. NewFrame(f, m, c) \in StackFrame
      /\ NewFrame(f, m, c).vm = m /\ NewFrame(f, m, c).frame = f
      /\ NewFrame(f, m, c).call_frame = c /\ NewFrame(f, m, c).open = <<>>
  BY DEF NewFrame, StackFrame
<1>2. r = <<NewFrame(f, m, c)>>
  BY DEF NewFrame
<1>3. frames[m] \in Seq(Frame \cup VM) /\ frames \in [VM -> Seq(Frame \cup VM)]
  BY DEF StacksTyped
<1>4. frames' = [frames EXCEPT ![m] = @ \o <<f>>] /\ stack_frames' = s \o r
  BY DEF PushFrames
<1>5. frames[m] \o <<f>> = Append(frames[m], f)
  BY <1>3, ConcatIs
<1>6. s \o <<NewFrame(f, m, c)>> = Append(s, NewFrame(f, m, c))
  BY <1>1, ConcatIs
<1> HIDE DEF r
<1> QED BY <1>1, <1>2, <1>3, <1>4, <1>5, <1>6

\* push_frame with the base of a run and its function.
LEMMA PushTwoFramesAre ==
  ASSUME StacksTyped, NEW m \in VM, NEW f \in Frame \cup VM, NEW c \in CallFrame,
         NEW s \in Seq(StackFrame), PushFrames(m, <<m, f>>, c, s)
  PROVE  /\ frames' = [frames EXCEPT ![m] = Append(Append(@, m), f)]
         /\ stack_frames' = Append(Append(s, NewFrame(m, m, None)), NewFrame(f, m, c))
<1> DEFINE r == [i \in 1 .. Len(<<m, f>>) |->
                   [frame |-> <<m, f>>[i], vm |-> m, open |-> <<>>,
                    call_frame |-> IF i = Len(<<m, f>>) THEN c ELSE None]]
<1>1. NewFrame(f, m, c) \in StackFrame /\ NewFrame(m, m, None) \in StackFrame
  BY DEF NewFrame, StackFrame
<1>2. r = <<NewFrame(m, m, None), NewFrame(f, m, c)>>
  BY DEF NewFrame
<1>3. frames[m] \in Seq(Frame \cup VM) /\ frames \in [VM -> Seq(Frame \cup VM)]
  BY DEF StacksTyped
<1>4. frames' = [frames EXCEPT ![m] = @ \o <<m, f>>] /\ stack_frames' = s \o r
  BY DEF PushFrames
<1>5. frames[m] \o <<m, f>> = Append(Append(frames[m], m), f)
  BY <1>3, ConcatIs
<1>6. s \o <<NewFrame(m, m, None), NewFrame(f, m, c)>> =
        Append(Append(s, NewFrame(m, m, None)), NewFrame(f, m, c))
  BY <1>1, ConcatIs
<1> HIDE DEF r
<1> QED BY <1>1, <1>2, <1>3, <1>4, <1>5, <1>6

-----------------------------------------------------------------------------
(* How TriesInv survives.                                                  *)

\* The frame is different from those below it that may have tries.
LEMMA TopDistinct ==
  ASSUME StacksTyped, StackInv, NEW n \in Base .. L, n = Base => ~StartsFunction(Base)
  PROVE  /\ \A i \in 1 .. n - 1 : stack_frames[i].frame # stack_frames[n].frame
         /\ \A k \in 1 .. Len(runs) :
              runs[k].kind \in ForFunction => runs[k].vm # stack_frames[n].frame
<1>1. Structure /\ VM \cap Frame = {}
  BY StackStructure, CallStackAssumption
<1>2. L \in Nat \ {0} /\ Base \in 1 .. L /\ n \in 1 .. L /\ Len(runs) \in Nat \ {0}
  BY <1>1 DEF Structure
<1>3. CASE n = Base
  <2>1. runs[Len(runs)].kind \notin ForFunction /\ IsBase(n) /\ RunOf(n) = Len(runs)
    BY <1>1, <1>2, <1>3 DEF StartsFunction, KindOf, Structure
  <2>2. \A j \in 1 .. Len(runs) - 1 : runs[j].vm # runs[Len(runs)].vm
    BY <1>2, <2>1 DEF StackInv, KindsOfRuns
  <2>3. stack_frames[n].frame = runs[Len(runs)].vm
    BY <1>1, <1>3 DEF Structure, Current, Last
  <2>4. ASSUME NEW i \in 1 .. n - 1 PROVE stack_frames[i].frame # stack_frames[n].frame
    <3>1. i \in 1 .. L /\ RunOf(i) \in 1 .. Len(runs) - 1
      BY <1>1, <1>2, <1>3 DEF Structure
    <3>2. stack_frames[i].vm # runs[Len(runs)].vm
      BY <1>1, <2>2, <3>1 DEF Structure
    <3>3. CASE IsBase(i)
      BY <2>3, <3>1, <3>2, <3>3 DEF StackInv, FramesOfStack
    <3>4. CASE ~IsBase(i)
      BY <1>1, <2>1, <3>1, <3>4 DEF Structure, IsBase
    <3> QED BY <3>3, <3>4
  <2>5. ASSUME NEW k \in 1 .. Len(runs), runs[k].kind \in ForFunction
        PROVE  runs[k].vm # stack_frames[n].frame
    <3>1. k # Len(runs)
      BY <2>1, <2>5
    <3>2. k \in 1 .. Len(runs) - 1
      BY <1>2, <3>1
    <3> QED BY <2>2, <2>3, <3>2
  <2> QED BY <2>4, <2>5
<1>4. CASE n # Base
  <2>1. ~IsBase(n) /\ stack_frames[n].frame \in Frame
    BY <1>1, <1>2, <1>4 DEF Structure
  <2>2. ASSUME NEW i \in 1 .. n - 1 PROVE stack_frames[i].frame # stack_frames[n].frame
    <3>1. i \in 1 .. L /\ i < n
      BY <1>2
    <3> QED BY <1>1, <1>2, <2>1, <3>1 DEF StackInv, FramesOfStack, IsBase
  <2>3. \A k \in 1 .. Len(runs) : runs[k].vm \in VM
    BY <1>1 DEF Structure, Activation
  <2> QED BY <1>1, <2>1, <2>2, <2>3
<1> QED BY <1>3, <1>4

Shrinks(f) == tries'[f] \in {tries[f], <<>>}

\* TriesInv when frames of the run are popped and some tries end.
LEMMA TriesPop ==
  ASSUME StacksTyped, StackInv, TriesInv, NEW n \in Base .. L, L' = n, SameBelow(n), runs' = runs,
         \A f \in Frame \cup VM : Len(tries'[f]) <= 1,
         \A f \in Frame : tries'[f] # <<>> => \E i \in 1 .. n : stack_frames[i].frame = f,
         \A i \in 1 .. n - 1 : Shrinks(stack_frames[i].frame),
         \A k \in 1 .. Len(runs) : runs[k].kind \in ForFunction => Shrinks(runs[k].vm)
  PROVE  TriesInv'
<1>1. Structure
  BY StackStructure
<1>2. L \in Nat \ {0} /\ Base \in 1 .. L /\ n \in 1 .. L
  BY <1>1 DEF Structure
<1>3. /\ \A i \in 0 .. n : RunOf(i)' = RunOf(i)
      /\ \A i \in 1 .. n : IsBase(i)' = IsBase(i)
  BY <1>2, CountsBelow
<1>4. TriesOfStack'
  BY <1>2 DEF TriesOfStack, SameBelow
<1>5. ASSUME NEW i \in 1 .. n, NEW j \in 1 .. n, i < j, IsBase(j)',
             \A k \in i .. j : stack_frames'[k].vm = stack_frames'[j].vm
      PROVE  tries'[stack_frames'[i].frame] = <<>>
  <2>1. i \in 1 .. n - 1 /\ i \in 1 .. L /\ j \in 1 .. L
    BY <1>2, <1>5
  <2>2. \A k \in i .. j : stack_frames[k].vm = stack_frames[j].vm
    BY <1>5, <2>1 DEF SameBelow
  <2>3. tries[stack_frames[i].frame] = <<>>
    BY <1>3, <1>5, <2>1, <2>2 DEF TriesInv, TriesBelow
  <2> QED BY <2>1, <2>3 DEF Shrinks, SameBelow
<1>6. ASSUME NEW k \in 1 .. Len(runs), runs[k].kind \in ForFunction
      PROVE  tries'[runs[k].vm] = <<>>
  BY <1>6 DEF TriesInv, TriesBelow, Shrinks
<1>7. ASSUME NEW i \in 1 .. n, Waits(i)'
      PROVE  CatchesAll(stack_frames[i].frame)'
  <2>1. i \in 1 .. n - 1 /\ i + 1 \in 1 .. n /\ i \in 1 .. L
    BY <1>2, <1>7 DEF Waits
  <2>2. Waits(i)
    BY <1>2, <1>3, <1>7, <2>1 DEF Waits, KindOf
  <2>3. CatchesAll(stack_frames[i].frame)
    BY <2>1, <2>2 DEF TriesInv, TriesBelow
  <2>4. Shrinks(stack_frames[i].frame) /\ stack_frames'[i].frame = stack_frames[i].frame
    BY <2>1 DEF SameBelow
  <2>5. CASE tries'[stack_frames[i].frame] = <<>>
    BY <2>4, <2>5 DEF CatchesAll
  <2>6. CASE tries'[stack_frames[i].frame] = tries[stack_frames[i].frame]
    BY <2>3, <2>4, <2>6 DEF CatchesAll
  <2> QED BY <2>4, <2>5, <2>6 DEF Shrinks
<1> QED BY <1>4, <1>5, <1>6, <1>7 DEF TriesInv, TriesBelow

\* TriesInv when the frame of a function or a class body is pushed.
LEMMA TriesPush ==
  ASSUME StacksTyped, StackInv, TriesInv, StackInv', StacksTyped', tries' = tries, runs' = runs,
         SameBelow(L), L' = L + 1, stack_frames'[L + 1].frame \notin VM
  PROVE  TriesInv'
<1>1. Structure
  BY StackStructure
<1> PICK n \in Nat : n = L
  BY <1>1 DEF Structure
<1>2. n \in Nat \ {0} /\ ~IsBase(n + 1)'
  BY <1>1 DEF Structure, IsBase
<1>3. /\ \A i \in 0 .. n : RunOf(i)' = RunOf(i)
      /\ \A i \in 1 .. n : IsBase(i)' = IsBase(i)
  BY <1>2, CountsBelow
<1>4. TriesOfStack'
  <2>1. ASSUME NEW f \in Frame, tries[f] # <<>>
        PROVE  \E i \in 1 .. n + 1 : stack_frames'[i].frame = f
    <3>1. PICK i \in 1 .. n : stack_frames[i].frame = f
      BY <2>1 DEF TriesInv, TriesOfStack
    <3> QED BY <3>1 DEF SameBelow
  <2> QED BY <2>1 DEF TriesInv, TriesOfStack
<1>5. ASSUME NEW i \in 1 .. n + 1, NEW j \in 1 .. n + 1, i < j, IsBase(j)',
             \A k \in i .. j : stack_frames'[k].vm = stack_frames'[j].vm
      PROVE  tries'[stack_frames'[i].frame] = <<>>
  <2>1. i \in 1 .. n /\ j \in 1 .. n
    BY <1>2, <1>5
  <2>2. \A k \in i .. j : stack_frames[k].vm = stack_frames[j].vm
    BY <1>5, <2>1 DEF SameBelow
  <2>3. tries[stack_frames[i].frame] = <<>>
    BY <1>3, <1>5, <2>1, <2>2 DEF TriesInv, TriesBelow
  <2> QED BY <2>1, <2>3 DEF SameBelow
<1>6. ASSUME NEW i \in 1 .. n + 1, Waits(i)'
      PROVE  CatchesAll(stack_frames[i].frame)'
  <2>1. i \in 1 .. n /\ i + 1 \in 1 .. n
    <3>1. i < n + 1 /\ IsBase(i + 1)'
      BY <1>6 DEF Waits
    <3>2. i # n
      BY <1>2, <3>1
    <3> QED BY <1>2, <3>1, <3>2
  <2>2. Waits(i)
    BY <1>3, <1>6, <2>1 DEF Waits, KindOf
  <2>3. CatchesAll(stack_frames[i].frame)
    BY <2>1, <2>2 DEF TriesInv, TriesBelow
  <2> QED BY <2>1, <2>3 DEF SameBelow, CatchesAll
<1> QED BY <1>4, <1>5, <1>6 DEF TriesInv, TriesBelow

\* TriesInv when a run starts on a VM in no try.
LEMMA TriesRun ==
  ASSUME StacksTyped, StackInv, TriesInv, StackInv', StacksTyped', tries' = tries,
         NEW m \in VM, NEW kind, NEW c, kind \in ForFunction => tries[m] = <<>>,
         runs' = Append(runs, [vm |-> m, kind |-> kind, call_frame |-> c]),
         SameBelow(L), stack_frames'[L + 1].frame = m, stack_frames'[L + 1].vm = m,
         L' = L + 1 \/ (L' = L + 2 /\ stack_frames'[L + 2].frame \in Frame),
         \A i \in Visible(m) : tries[stack_frames[i].frame] = <<>>,
         kind = "call" => CatchesAll(Top.frame)
  PROVE  TriesInv'
<1>1. Structure /\ VM \cap Frame = {}
  BY StackStructure, CallStackAssumption
<1> PICK n \in Nat : n = L
  BY <1>1 DEF Structure
<1> PICK n1 \in Nat : n1 = n + 1
  OBVIOUS
<1> PICK n2 \in Nat : n2 = n + 2
  OBVIOUS
<1>2. n \in Nat \ {0} /\ IsBase(n1)' /\ (L' = n2 => ~IsBase(n2)')
  BY <1>1 DEF Structure, IsBase
<1>3. /\ \A i \in 0 .. n : RunOf(i)' = RunOf(i)
      /\ \A i \in 1 .. n : IsBase(i)' = IsBase(i)
  BY <1>2, CountsBelow
<1>4. /\ Len(runs') = Len(runs) + 1 /\ \A k \in 1 .. Len(runs) : runs'[k] = runs[k]
      /\ runs'[Len(runs) + 1] = [vm |-> m, kind |-> kind, call_frame |-> c]
      /\ Len(runs) \in Nat
  BY DEF StacksTyped
<1>5. \A i \in 1 .. L' : i \in 1 .. n \/ i = n1 \/ (i = n2 /\ L' = n2)
  BY <1>2
<1>6. TriesOfStack'
  <2>1. ASSUME NEW f \in Frame, tries[f] # <<>>
        PROVE  \E i \in 1 .. L' : stack_frames'[i].frame = f
    <3>1. PICK i \in 1 .. n : stack_frames[i].frame = f
      BY <2>1 DEF TriesInv, TriesOfStack
    <3>2. i \in 1 .. L'
      BY <1>2
    <3> QED BY <3>1, <3>2 DEF SameBelow
  <2> QED BY <2>1 DEF TriesInv, TriesOfStack
<1>7. ASSUME NEW i \in 1 .. L', NEW j \in 1 .. L', i < j, IsBase(j)',
             \A k \in i .. j : stack_frames'[k].vm = stack_frames'[j].vm
      PROVE  tries'[stack_frames'[i].frame] = <<>>
  <2>1. i \in 1 .. n /\ (j \in 1 .. n \/ j = n1)
    BY <1>2, <1>5, <1>7
  <2>2. CASE j \in 1 .. n
    <3>1. \A k \in i .. j : stack_frames[k].vm = stack_frames[j].vm
      BY <1>7, <2>1, <2>2 DEF SameBelow
    <3>2. tries[stack_frames[i].frame] = <<>>
      BY <1>3, <1>7, <2>1, <2>2, <3>1 DEF TriesInv, TriesBelow
    <3> QED BY <2>1, <3>2 DEF SameBelow
  <2>3. CASE j = n1
    <3>1. \A k \in i .. n : stack_frames[k].vm = m
      BY <1>2, <1>7, <2>1, <2>3 DEF SameBelow
    <3>2. i \in Visible(m)
      BY <2>1, <3>1 DEF Visible, L
    <3> QED BY <2>1, <3>2 DEF SameBelow
  <2> QED BY <2>1, <2>2, <2>3
<1>8. ASSUME NEW k \in 1 .. Len(runs) + 1, runs'[k].kind \in ForFunction
      PROVE  tries[runs'[k].vm] = <<>>
  <2>1. CASE k \in 1 .. Len(runs)
    BY <1>4, <1>8, <2>1 DEF TriesInv, TriesBelow
  <2>2. CASE k = Len(runs) + 1
    BY <1>4, <1>8, <2>2
  <2> QED BY <1>4, <2>1, <2>2
<1>9. ASSUME NEW i \in 1 .. L', Waits(i)'
      PROVE  CatchesAll(stack_frames[i].frame)'
  <2>1. i < L' /\ IsBase(i + 1)'
    BY <1>9 DEF Waits
  <2>2. i \in 1 .. n
    <3>1. i # n1
      BY <1>2, <1>5, <2>1
    <3> QED BY <1>2, <1>5, <2>1, <3>1
  <2>3. CASE i + 1 \in 1 .. n
    <3>1. RunOf(i + 1) \in 1 .. Len(runs)
      BY <1>1, <2>3 DEF Structure
    <3>2. Waits(i)
      BY <1>3, <1>4, <1>9, <2>3, <3>1 DEF Waits, KindOf
    <3>3. CatchesAll(stack_frames[i].frame)
      BY <2>2, <3>2 DEF TriesInv, TriesBelow
    <3> QED BY <2>2, <3>3 DEF SameBelow, CatchesAll
  <2>4. CASE i = n
    <3>1. RunOf(n1)' = Len(runs) + 1
      <4>1. RunOf(n1)' = RunOf(n1 - 1)' + 1 /\ n1 - 1 = n
        <5>1. n1 \in Nat \ {0} /\ n1 - 1 = n
          BY <1>2
        <5> QED BY <1>2, <5>1, CountsNext DEF RunFacts
      <4>2. RunOf(n) = Len(runs)
        BY DEF StackInv, RunsOnStack, L
      <4> QED BY <1>2, <1>3, <4>1, <4>2
    <3>2. kind = "call"
      BY <1>4, <1>9, <2>4, <3>1 DEF Waits, KindOf
    <3>3. CatchesAll(stack_frames[n].frame)
      BY <3>2 DEF Top, Last, L
    <3> QED BY <2>2, <2>4, <3>3 DEF SameBelow, CatchesAll
  <2> QED BY <2>2, <2>3, <2>4
<1> QED BY <1>4, <1>6, <1>7, <1>8, <1>9 DEF TriesInv, TriesBelow

\* TriesInv when the base of a run is popped.
LEMMA TriesEnd ==
  ASSUME StacksTyped, StackInv, TriesInv, StackInv', StacksTyped', tries' = tries,
         runs' = Front(runs), IsBase(L), L > 1, Len(runs) > 1, L' = L - 1, SameBelow(L - 1)
  PROVE  TriesInv'
<1>1. Structure /\ VM \cap Frame = {}
  BY StackStructure, CallStackAssumption
<1> PICK n \in Nat : n = L - 1
  BY <1>1 DEF Structure
<1>2. n \in Nat \ {0} /\ n + 1 = L /\ Len(runs) \in Nat /\ L \in Nat
  BY <1>1 DEF Structure
<1>3. /\ \A i \in 0 .. n : RunOf(i)' = RunOf(i)
      /\ \A i \in 1 .. n : IsBase(i)' = IsBase(i)
  BY <1>2, CountsBelow
<1>4. /\ Len(runs') = Len(runs) - 1
      /\ \A k \in 1 .. Len(runs) - 1 : runs'[k] = runs[k]
  <2>1. runs \in Seq(Activation) /\ Len(runs) - 1 \in 0 .. Len(runs)
    BY <1>2 DEF StacksTyped
  <2> QED BY <2>1, Prefix DEF Front
<1>5. \A i \in 1 .. n : i \in 1 .. L /\ i < L /\ RunOf(i) \in 1 .. Len(runs) - 1
  <2>1. Base = L
    BY <1>1, <1>2 DEF Structure
  <2> QED BY <1>1, <1>2, <2>1, SMTT(30) DEF Structure
<1>6. TriesOfStack'
  <2>1. ASSUME NEW f \in Frame, tries[f] # <<>>
        PROVE  \E i \in 1 .. n : stack_frames'[i].frame = f
    <3>1. PICK i \in 1 .. L : stack_frames[i].frame = f
      BY <2>1 DEF TriesInv, TriesOfStack
    <3>2. i \in 1 .. n
      BY <1>1, <1>2, <3>1 DEF IsBase
    <3> QED BY <3>1, <3>2 DEF SameBelow
  <2> QED BY <2>1 DEF TriesInv, TriesOfStack
<1>7. ASSUME NEW i \in 1 .. n, NEW j \in 1 .. n, i < j, IsBase(j)',
             \A k \in i .. j : stack_frames'[k].vm = stack_frames'[j].vm
      PROVE  tries'[stack_frames'[i].frame] = <<>>
  <2>1. \A k \in i .. j : stack_frames[k].vm = stack_frames[j].vm
    BY <1>7 DEF SameBelow
  <2>2. tries[stack_frames[i].frame] = <<>>
    BY <1>3, <1>5, <1>7, <2>1 DEF TriesInv, TriesBelow
  <2> QED BY <2>2 DEF SameBelow
<1>8. ASSUME NEW k \in 1 .. Len(runs) - 1, runs'[k].kind \in ForFunction
      PROVE  tries[runs'[k].vm] = <<>>
  BY <1>2, <1>4, <1>8 DEF TriesInv, TriesBelow
<1>9. ASSUME NEW i \in 1 .. n, Waits(i)'
      PROVE  CatchesAll(stack_frames[i].frame)'
  <2>1. i + 1 \in 1 .. n /\ IsBase(i + 1)'
    BY <1>2, <1>9 DEF Waits
  <2>2. Waits(i)
    BY <1>3, <1>4, <1>5, <1>9, <2>1, SMTT(30) DEF Waits, KindOf
  <2>3. CatchesAll(stack_frames[i].frame)
    BY <1>5, <2>2 DEF TriesInv, TriesBelow
  <2> QED BY <2>3 DEF SameBelow, CatchesAll
<1> QED BY <1>4, <1>6, <1>7, <1>8, <1>9 DEF TriesInv, TriesBelow

-----------------------------------------------------------------------------
(* The heights, and the entries that the frames account for.               *)

HeightFacts(H, hang) ==
  /\ \A i, j \in 0 .. L, m \in VM : i <= j => H[i][m] <= H[j][m]
  /\ \A i \in 1 .. L : LET m == stack_frames[i].vm IN
       /\ H[i][m] - OpenHere(i) \in Nat /\ H[i - 1][m] <= H[i][m] - OpenHere(i)
       /\ Matched(i) = 1 => ~IsBase(i) /\ H[i][m] - OpenHere(i) = H[i - 1][m] + 1
  /\ \A i \in 0 .. L - 1, m \in VM : H[i][m] <= Len(call_frames[m])
  /\ H[L][Current] = Len(call_frames[Current]) + (IF hang THEN 1 ELSE 0)

\* The heights grow from the bottom of the stack to its top.
LEMMA HeightStep ==
  ASSUME StacksTyped, StackInv, NEW H \in Heights, \A i \in 1 .. L : Height(H, i)
  PROVE  /\ \A i, j \in 0 .. L, m \in VM : i <= j => H[i][m] <= H[j][m]
         /\ \A i \in 1 .. L : LET m == stack_frames[i].vm IN
              /\ H[i][m] - OpenHere(i) \in Nat /\ H[i - 1][m] <= H[i][m] - OpenHere(i)
              /\ Matched(i) = 1 => ~IsBase(i) /\ H[i][m] - OpenHere(i) = H[i - 1][m] + 1
<1>1. Structure
  BY StackStructure
<1>2. L \in Nat \ {0} /\ \A i \in 0 .. L, m \in VM : H[i][m] \in Nat
  BY <1>1 DEF Structure, Heights
<1>3. ASSUME NEW i \in 1 .. L
      PROVE  LET m == stack_frames[i].vm IN
             /\ m \in VM /\ OpenHere(i) \in Nat
             /\ H[i][m] - OpenHere(i) \in Nat /\ H[i - 1][m] <= H[i][m] - OpenHere(i)
             /\ Matched(i) = 1 => ~IsBase(i) /\ H[i][m] - OpenHere(i) = H[i - 1][m] + 1
  <2> DEFINE m == stack_frames[i].vm
  <2>1. m \in VM /\ stack_frames[i].open \in Seq(CallFrame)
    BY <1>1 DEF Structure, StackFrame
  <2>2. OpenHere(i) \in Nat /\ Matched(i) \in {0, 1} /\ H[i - 1][m] \in Nat /\ H[i][m] \in Nat
    BY <1>2, <2>1 DEF OpenHere, Matched
  <2>3. Matched(i) = 1 => ~IsBase(i)
    BY DEF Matched, StackInv, FramesOfStack
  <2>4. /\ ~IsBase(i) => H[i][m] = H[i - 1][m] + Matched(i) + OpenHere(i)
        /\ IsBase(i) => H[i][m] >= H[i - 1][m] + OpenHere(i)
    BY DEF Height
  <2> HIDE DEF m
  <2>5. CASE IsBase(i)
    BY <2>1, <2>2, <2>3, <2>4, <2>5, SMTT(30) DEF m
  <2>6. CASE ~IsBase(i)
    <3>1. H[i][m] - OpenHere(i) = H[i - 1][m] + Matched(i)
      BY <2>2, <2>4, <2>6
    <3>2. CASE Matched(i) = 1
      <4>1. H[i][m] - OpenHere(i) = H[i - 1][m] + 1
        BY <3>1, <3>2
      <4> QED BY <2>1, <2>2, <2>6, <4>1, SMTT(30) DEF m
    <3>3. CASE Matched(i) = 0
      <4>1. H[i][m] - OpenHere(i) = H[i - 1][m]
        BY <2>2, <3>1, <3>3
      <4> QED BY <2>1, <2>2, <3>3, <4>1 DEF m
    <3> QED BY <2>2, <3>2, <3>3
  <2> QED BY <2>5, <2>6
<1>4. ASSUME NEW i \in 1 .. L, NEW m \in VM PROVE H[i - 1][m] <= H[i][m]
  <2>1. H[i - 1][m] \in Nat /\ H[i][m] \in Nat
    BY <1>2
  <2>2. CASE m = stack_frames[i].vm
    BY <1>3, <2>1, <2>2
  <2>3. CASE m # stack_frames[i].vm
    <3>1. H[i][m] = H[i - 1][m] + Held(i, m) /\ Held(i, m) \in {0, 1}
      BY <2>3 DEF Height, Held
    <3> QED BY <2>1, <3>1
  <2> QED BY <2>2, <2>3
<1>5. ASSUME NEW i \in 0 .. L, NEW j \in 0 .. L, NEW m \in VM, i <= j
      PROVE  H[i][m] <= H[j][m]
  <2> DEFINE S == {k \in i .. L : H[i][m] <= H[k][m]}
  <2>1. i \in S
    BY <1>2
  <2>2. ASSUME NEW k \in i .. L - 1, k \in S PROVE k + 1 \in S
    <3>1. k + 1 \in 1 .. L /\ k \in 0 .. L /\ k + 1 \in 0 .. L /\ k + 1 \in i .. L /\ (k + 1) - 1 = k
      BY <1>2
    <3>2. H[k][m] <= H[k + 1][m] /\ H[i][m] <= H[k][m]
      BY <1>4, <2>2, <3>1
    <3>3. H[i][m] \in Nat /\ H[k][m] \in Nat /\ H[k + 1][m] \in Nat
      BY <1>2, <3>1
    <3> QED BY <3>1, <3>2, <3>3
  <2>3. i .. L \subseteq S
    <3> HIDE DEF S
    <3>1. i \in Nat /\ L \in Nat
      BY <1>2
    <3> QED BY <2>1, <2>2, <3>1, SetInduction
  <2> QED BY <1>5, <2>3
<1> QED BY <1>3, <1>5

\* The heights stay within the lists, and the last is the length of the
\* running VM's.
LEMMA HeightsKnown ==
  ASSUME StacksTyped, StackInv, NEW H \in Heights, NEW hang \in BOOLEAN, CallsInv(H, hang)
  PROVE  HeightFacts(H, hang)
<1>1. Structure
  BY StackStructure
<1>2. L \in Nat \ {0} /\ L \in 1 .. L /\ stack_frames[L].vm = Current /\ Current \in VM
  BY <1>1 DEF Structure
<1>3. \A i \in 1 .. L : Height(H, i)
  BY DEF CallsInv
<1>4. /\ \A i, j \in 0 .. L, m \in VM : i <= j => H[i][m] <= H[j][m]
      /\ \A i \in 1 .. L : LET m == stack_frames[i].vm IN
           /\ H[i][m] - OpenHere(i) \in Nat /\ H[i - 1][m] <= H[i][m] - OpenHere(i)
           /\ Matched(i) = 1 => ~IsBase(i) /\ H[i][m] - OpenHere(i) = H[i - 1][m] + 1
  BY <1>3, HeightStep
<1>5. /\ H[L][Current] = Len(call_frames[Current]) + (IF hang THEN 1 ELSE 0)
      /\ \A m \in VM : m # Current => H[L][m] <= Len(call_frames[m])
      /\ \A m \in VM : Len(call_frames[m]) \in Nat
      /\ \A i \in 0 .. L, m \in VM : H[i][m] \in Nat
  <2>1. Lengths(H, hang)
    BY DEF CallsInv
  <2>2. \A m \in VM : call_frames[m] \in Seq(CallFrame)
    BY DEF StacksTyped
  <2>3. \A m \in VM : Len(call_frames[m]) \in Nat /\ Len(call_frames[m]) + 0 = Len(call_frames[m])
    BY <2>2
  <2>4. \A i \in 0 .. L, m \in VM : H[i][m] \in Nat
    BY <1>2 DEF Heights
  <2>5. H[L][Current] = Len(call_frames[Current]) + (IF hang THEN 1 ELSE 0)
    BY <1>2, <2>1 DEF Lengths
  <2>6. \A m \in VM : m # Current => H[L][m] <= Len(call_frames[m])
    BY <2>1, <2>3 DEF Lengths
  <2> QED BY <2>3, <2>4, <2>5, <2>6
<1>6. hang => OpenHere(L) >= 1
  <2> SUFFICES ASSUME hang PROVE OpenHere(L) >= 1
    OBVIOUS
  <2>1. mode = "throw" /\ stack_frames[L].open # <<>>
    BY DEF CallsInv, OnTheWay, InCall, Top, Last, L
  <2>2. OpenHere(L) = Len(stack_frames[L].open)
    BY <2>1 DEF OpenHere, Left
  <2>3. stack_frames[L].open \in Seq(CallFrame)
    BY <1>1, <1>2 DEF Structure, StackFrame
  <2> QED BY <2>1, <2>2, <2>3
<1>7. H[L - 1][Current] <= H[L][Current] - OpenHere(L) /\ OpenHere(L) \in Nat
  <2>1. OpenHere(L) \in Nat
    <3>1. stack_frames[L].open \in Seq(CallFrame)
      BY <1>1, <1>2 DEF Structure, StackFrame
    <3> QED BY <3>1 DEF OpenHere
  <2> QED BY <1>2, <1>4, <2>1
<1>8. ASSUME NEW i \in 0 .. L - 1, NEW m \in VM PROVE H[i][m] <= Len(call_frames[m])
  <2>1. H[i][m] <= H[L - 1][m] /\ H[L - 1][m] <= H[L][m] /\ H[i][m] \in Nat
        /\ H[L - 1][m] \in Nat /\ H[L][m] \in Nat /\ Len(call_frames[m]) \in Nat
    BY <1>2, <1>4, <1>5
  <2>2. CASE m # Current
    BY <1>5, <2>1, <2>2, SMTT(30)
  <2>3. CASE m = Current
    <3>1. H[L - 1][Current] <= Len(call_frames[Current])
      <4>1. CASE hang
        BY <1>5, <1>6, <1>7, <2>1, <2>3, <4>1
      <4>2. CASE ~hang
        BY <1>5, <1>7, <2>1, <2>3, <4>2
      <4> QED BY <4>1, <4>2
    <3> QED BY <2>1, <2>3, <3>1
  <2> QED BY <2>2, <2>3
<1> QED BY <1>4, <1>5, <1>8 DEF HeightFacts

SameOpen(n) == \A i \in 1 .. n : stack_frames'[i].open = stack_frames[i].open

\* The call frame is none that the frames below the n-th refer to.
Apart(H, n, c) ==
  \/ calls[c] = "free"
  \/ /\ calls[c] \in {"pending", "inner"}
     /\ \E x \in H[n - 1][Current] + 1 .. Len(call_frames[Current]) :
          call_frames[Current][x] = c
  \/ calls[c] \in {"outer", "returned"} /\ n <= Base /\ c = Last(runs).call_frame

\* A call frame that is apart is none that the frames below the n-th are
\* matched with or evaluate the arguments of.
LEMMA ApartIs ==
  ASSUME StacksTyped, StackInv, NEW H \in Heights, NEW hang \in BOOLEAN, CallsInv(H, hang),
         NEW n \in 1 .. L, NEW c \in CallFrame, Apart(H, n, c), NEW i \in 1 .. n - 1
  PROVE  /\ stack_frames[i].call_frame # None => stack_frames[i].call_frame # c
         /\ \A k \in 1 .. Len(stack_frames[i].open) :
              calls[stack_frames[i].open[k]] = "pending" => stack_frames[i].open[k] # c
<1>1. Structure /\ HeightFacts(H, hang)
  BY StackStructure, HeightsKnown
<1>2. /\ L \in Nat \ {0} /\ n \in 1 .. L /\ i \in 1 .. L /\ i # L /\ Current \in VM
      /\ \A j \in 0 .. L, m \in VM : H[j][m] \in Nat
      /\ \A m \in VM : Len(call_frames[m]) \in Nat
  <2>1. L \in Nat \ {0} /\ Current \in VM
    BY <1>1 DEF Structure
  <2>2. \A m \in VM : call_frames[m] \in Seq(CallFrame)
    BY DEF StacksTyped
  <2>3. \A m \in VM : Len(call_frames[m]) \in Nat
    BY <2>2
  <2>4. \A j \in 0 .. L, m \in VM : H[j][m] \in Nat
    BY <2>1 DEF Heights
  <2>5. i \in 1 .. L /\ i # L
    BY <2>1
  <2> QED BY <2>1, <2>3, <2>4, <2>5
<1> DEFINE m == stack_frames[i].vm
           h == H[i][m] - OpenHere(i)
           open == stack_frames[i].open
<1>3. /\ m \in VM /\ open \in Seq(CallFrame) /\ OpenHere(i) = Len(open) /\ Len(open) \in Nat
  BY <1>1, <1>2, SMTT(30) DEF Structure, StackFrame, OpenHere
<1>4. /\ Entry(H, hang, i) /\ States(hang, i) /\ DistinctEntries /\ DistinctHeld
  BY <1>2 DEF CallsInv
<1>5. H[i][m] <= H[n - 1][m] /\ H[n - 1][m] <= Len(call_frames[m])
      /\ n - 1 \in 0 .. L - 1
  <2>1. i \in 0 .. L /\ n - 1 \in 0 .. L /\ n - 1 \in 0 .. L - 1 /\ i <= n - 1
    BY <1>2
  <2> QED BY <1>1, <1>3, <2>1 DEF HeightFacts
<1>6. /\ h \in Nat /\ (Matched(i) = 1 => h # 0) /\ h + Len(open) = H[i][m] /\ H[i][m] \in Nat
  <2>1. h \in Nat /\ (Matched(i) = 1 => h = H[i - 1][m] + 1)
    BY <1>1, <1>2 DEF HeightFacts
  <2>2. H[i - 1][m] \in Nat /\ H[i][m] \in Nat
    BY <1>2, <1>3
  <2>3. h + Len(open) = H[i][m]
    <3> HIDE DEF open, m
    <3> QED BY <1>3, <2>2
  <2> HIDE DEF h
  <2> QED BY <2>1, <2>2, <2>3
<1>7. ASSUME NEW x \in 1 .. H[i][m], calls[c] \in {"pending", "inner"},
             Apart(H, n, c)
      PROVE  call_frames[m][x] # c
  <2>1. PICK y \in H[n - 1][Current] + 1 .. Len(call_frames[Current]) :
               call_frames[Current][y] = c
    BY <1>7 DEF Apart
  <2>2. x \in 1 .. Len(call_frames[m]) /\ H[n - 1][m] \in Nat /\ H[n - 1][Current] \in Nat
        /\ x <= H[n - 1][m]
    <3>1. n - 1 \in 0 .. L
      BY <1>2
    <3>2. H[n - 1][m] \in Nat /\ H[n - 1][Current] \in Nat /\ Len(call_frames[m]) \in Nat
      BY <1>2, <1>3, <3>1
    <3> HIDE DEF m
    <3>3. \A a, b1, c1, d \in Nat : a \in 1 .. b1 /\ b1 <= c1 /\ c1 <= d => a \in 1 .. d /\ a <= c1
      OBVIOUS
    <3>4. x \in Nat /\ H[i][m] \in Nat
      BY <1>6
    <3>5. H[i][m] <= H[n - 1][m] /\ H[n - 1][m] <= Len(call_frames[m])
      BY <1>5
    <3> QED BY <1>7, <3>2, <3>3, <3>4, <3>5
  <2>3. y \in 1 .. Len(call_frames[Current])
    BY <1>2, <2>1, <2>2
  <2>4. CASE m = Current
    <3>1. x # y
      BY <1>2, <2>1, <2>2, <2>4
    <3> QED BY <1>3, <1>4, <2>1, <2>2, <2>3, <2>4, <3>1 DEF DistinctEntries
  <2>5. CASE m # Current
    BY <1>2, <1>3, <1>4, <1>7, <2>1, <2>2, <2>3, <2>5 DEF DistinctEntries
  <2> QED BY <2>4, <2>5
<1>8. ASSUME stack_frames[i].call_frame # None PROVE stack_frames[i].call_frame # c
  <2>1. Matched(i) = 1 /\ h \in 1 .. H[i][m] /\ call_frames[m][h] = stack_frames[i].call_frame
    <3>1. Matched(i) = 1
      BY <1>8 DEF Matched
    <3>2. call_frames[m][h] = stack_frames[i].call_frame
      BY <1>4, <3>1 DEF Entry
    <3> HIDE DEF h, open, m
    <3> QED BY <1>3, <1>6, <3>1, <3>2
  <2>2. calls[stack_frames[i].call_frame] = IF IsFirst(i) THEN "outer" ELSE "inner"
    BY <1>4, <2>1 DEF States
  <2>3. CASE calls[c] \in {"pending", "inner"}
    BY <1>7, <2>1, <2>3
  <2>4. CASE calls[c] \notin {"pending", "inner"}
    <3> SUFFICES ASSUME IsFirst(i), calls[c] = "outer" PROVE stack_frames[i].call_frame # c
      BY <2>2, <2>4 DEF Apart
    <3>1. n <= Base /\ c = runs[Len(runs)].call_frame
      BY DEF Apart, Last
    <3>2. i - 1 \in 1 .. L /\ i - 1 # L /\ StartsFunction(i - 1) /\ (i - 1) + 1 = i
      BY <1>2 DEF IsFirst
    <3>3. stack_frames[i].call_frame = runs[RunOf(i - 1)].call_frame
      BY <3>2 DEF StackInv, FirstFrames
    <3>4. RunOf(i - 1) \in 1 .. Len(runs) - 1 /\ Len(runs) \in 1 .. Len(runs)
          /\ RunOf(i - 1) \in 1 .. Len(runs) /\ RunOf(i - 1) < Len(runs)
      BY <1>1, <1>2, <3>1, <3>2 DEF Structure
    <3>5. runs[Len(runs)].call_frame # None
      BY <3>1, CallStackAssumption
    <3> QED BY <1>4, <3>1, <3>3, <3>4, <3>5 DEF DistinctHeld
  <2> QED BY <2>3, <2>4
<1>9. ASSUME NEW k \in 1 .. Len(open), calls[open[k]] = "pending" PROVE open[k] # c
  <2> SUFFICES ASSUME calls[c] = "pending" PROVE open[k] # c
    BY <1>9
  <2>1. call_frames[m][h + k] = open[k]
    BY <1>2, <1>3, <1>4 DEF Entry
  <2>2. h + k \in 1 .. H[i][m]
    <3> HIDE DEF h, open, m
    <3> QED BY <1>3, <1>6
  <2> QED BY <1>7, <2>1, <2>2
<1> QED BY <1>8, <1>9

\* What the frames below the n-th need to keep what is known of them.
Undisturbed(H, G, n) ==
  /\ SameBelow(n) /\ SameOpen(n - 1)
  /\ \A k \in 1 .. RunOf(n) : runs'[k] = runs[k]
  /\ \A i \in 0 .. n - 1 : G[i] = H[i]
  /\ \A m \in VM, x \in Nat : 1 <= x /\ x <= H[n - 1][m] => call_frames'[m][x] = call_frames[m][x]
  /\ \A i \in 1 .. n - 1 : Shrinks(stack_frames[i].frame)
  /\ \A c \in CallFrame : calls'[c] = calls[c] \/ Apart(H, n, c)

\* What is known of the frames below the n-th stays true.
LEMMA KeptBelow ==
  ASSUME StacksTyped, StackInv, NEW H \in Heights, NEW hang \in BOOLEAN, CallsInv(H, hang),
         NEW G \in Heights, NEW hang2 \in BOOLEAN,
         NEW n \in 1 .. L, n <= L', L' \in Nat, Undisturbed(H, G, n)
  PROVE  \A i \in 1 .. n - 1 :
           /\ Height(G, i)' /\ Entry(G, hang2, i)' /\ TryPosition(G, i)'
           /\ OpenCalls(hang2, i)' /\ States(hang2, i)'
<1>1. Structure /\ HeightFacts(H, hang)
  BY StackStructure, HeightsKnown
<1>2. L \in Nat \ {0} /\ \A j \in 0 .. L, m \in VM : H[j][m] \in Nat
  <2>1. L \in Nat \ {0}
    BY <1>1 DEF Structure
  <2> QED BY <2>1 DEF Heights
<1>3. /\ \A i \in 0 .. n : RunOf(i)' = RunOf(i)
      /\ \A i \in 1 .. n : IsBase(i)' = IsBase(i)
  BY <1>2, CountsBelow DEF Undisturbed
<1> TAKE i \in 1 .. n - 1
<1>4. /\ i \in 1 .. L /\ i \in 1 .. n /\ i # L /\ i # L' /\ i < L /\ i < L' /\ i + 1 \in 1 .. n
      /\ i + 1 \in 1 .. L /\ i - 1 \in 0 .. n - 1 /\ i \in 0 .. n - 1 /\ i \in 0 .. L /\ i - 1 \in 0 .. L
      /\ n - 1 \in 0 .. L /\ (i # 1 => i - 1 \in 1 .. n /\ i - 1 \in 1 .. L)
  BY <1>2
<1>5. /\ stack_frames'[i].frame = stack_frames[i].frame
      /\ stack_frames'[i].vm = stack_frames[i].vm
      /\ stack_frames'[i].call_frame = stack_frames[i].call_frame
      /\ stack_frames'[i].open = stack_frames[i].open
      /\ i # 1 => stack_frames'[i - 1].vm = stack_frames[i - 1].vm
      /\ G[i] = H[i] /\ G[i - 1] = H[i - 1]
      /\ tries'[stack_frames[i].frame] \in {tries[stack_frames[i].frame], <<>>}
  BY <1>4 DEF Undisturbed, SameBelow, SameOpen, Shrinks
<1>6. \A j \in 1 .. n : RunOf(j)' = RunOf(j) /\ IsBase(j)' = IsBase(j) /\ KindOf(j)' = KindOf(j)
                        /\ runs'[RunOf(j)] = runs[RunOf(j)]
  <2>1. \A j \in 1 .. n : RunOf(j) \in 1 .. RunOf(n)
    <3>1. \A j \in 1 .. n : RunOf(j) \in 1 .. Len(runs)
      BY <1>1, <1>2, SMTT(30) DEF Structure
    <3>2. \A j \in 1 .. n : RunOf(j) \in Nat /\ RunOf(j) <= RunOf(n) /\ RunOf(n) \in Nat
      BY RunStep DEF RunFacts
    <3> QED BY <1>1, <3>1, <3>2 DEF Structure
  <2> QED BY <1>3, <2>1 DEF Undisturbed, KindOf
<1> DEFINE m == stack_frames[i].vm
           open == stack_frames[i].open
           h == H[i][m] - Len(open)
<1>7. /\ m \in VM /\ open \in Seq(CallFrame) /\ Len(open) \in Nat
      /\ stack_frames[i].call_frame # None => stack_frames[i].call_frame \in CallFrame
      /\ \A k \in 1 .. Len(open) : open[k] \in CallFrame
  BY <1>1, <1>4, SMTT(30) DEF Structure, StackFrame
<1>8. /\ Height(H, i) /\ Entry(H, hang, i) /\ TryPosition(H, i)
      /\ OpenCalls(hang, i) /\ States(hang, i)
  BY <1>4 DEF CallsInv
<1>9. /\ OpenHere(i) = Len(open) /\ OpenHere(i)' = Len(open)
      /\ Matched(i)' = Matched(i)
      /\ \A k \in VM : Held(i, k)' = Held(i, k)
      /\ StartsFunction(i)' = StartsFunction(i) /\ Waits(i)' = Waits(i)
      /\ IsFirst(i)' = IsFirst(i)
  <2>1. /\ OpenHere(i) = Len(open) /\ OpenHere(i)' = Len(open)
        /\ Matched(i)' = Matched(i)
    BY <1>4, <1>5 DEF OpenHere, Matched
  <2>2. \A k \in VM : Held(i, k)' = Held(i, k)
    BY <1>4, <1>5, <1>6 DEF Held
  <2>3. StartsFunction(i)' = StartsFunction(i) /\ Waits(i)' = Waits(i)
    BY <1>4, <1>6 DEF StartsFunction, Waits
  <2>4. IsFirst(i)' = IsFirst(i)
    BY <1>4, <1>6 DEF IsFirst, StartsFunction
  <2> QED BY <2>1, <2>2, <2>3, <2>4
<1>10. /\ h \in Nat /\ (Matched(i) = 1 => h # 0) /\ h + Len(open) = H[i][m]
       /\ \A k \in VM : H[i][k] \in Nat /\ H[n - 1][k] \in Nat /\ H[i][k] <= H[n - 1][k]
  <2>1. H[i][m] \in Nat /\ H[i - 1][m] \in Nat
    BY <1>2, <1>4, <1>7
  <2>2. h \in Nat /\ (Matched(i) = 1 => h = H[i - 1][m] + 1)
    BY <1>1, <1>4, <1>9 DEF HeightFacts
  <2>3. h + Len(open) = H[i][m]
    <3> HIDE DEF open, m
    <3> QED BY <1>7, <2>1
  <2>4. \A k \in VM : H[i][k] \in Nat /\ H[n - 1][k] \in Nat /\ H[i][k] <= H[n - 1][k]
    BY <1>1, <1>2, <1>4, SMTT(30) DEF HeightFacts
  <2> HIDE DEF h
  <2> QED BY <2>1, <2>2, <2>3, <2>4
<1>11. ASSUME NEW k \in VM, NEW x \in 1 .. H[i][k]
       PROVE  call_frames'[k][x] = call_frames[k][x]
  <2>1. x \in Nat /\ 1 <= x /\ x <= H[n - 1][k]
    BY <1>10
  <2> QED BY <2>1 DEF Undisturbed
<1>12. Height(G, i)'
  BY <1>5, <1>6, <1>8, <1>9, <1>4 DEF Height
<1>13. Entry(G, hang2, i)'
  <2>1. ASSUME Matched(i) = 1 PROVE call_frames'[m][h] = stack_frames[i].call_frame
    <3>1. call_frames[m][h] = stack_frames[i].call_frame
      BY <1>8, <1>9, <2>1 DEF Entry
    <3>2. h \in 1 .. H[i][m]
      <4> HIDE DEF h, m, open
      <4> QED BY <1>7, <1>10, <2>1
    <3> QED BY <1>7, <1>11, <3>1, <3>2
  <2>2. ASSUME NEW k \in 1 .. Len(open) PROVE call_frames'[m][h + k] = open[k]
    <3>1. call_frames[m][h + k] = open[k]
      BY <1>4, <1>8, <1>9 DEF Entry
    <3>2. h + k \in 1 .. H[i][m]
      <4> HIDE DEF h, m, open
      <4> QED BY <1>7, <1>10
    <3> QED BY <1>7, <1>11, <3>1, <3>2
  <2>3. ASSUME NEW k \in VM \ {m}, Held(i, k) = 1
        PROVE  call_frames'[k][H[i][k]] = runs[RunOf(i)].call_frame
    <3>1. call_frames[k][H[i][k]] = runs[RunOf(i)].call_frame
      BY <1>8, <2>3 DEF Entry
    <3>2. H[i][k] = H[i - 1][k] + 1 /\ H[i - 1][k] \in Nat
      BY <1>2, <1>4, <1>8, <2>3 DEF Height
    <3>3. H[i][k] \in 1 .. H[i][k]
      BY <3>2
    <3>4. call_frames'[k][H[i][k]] = call_frames[k][H[i][k]]
      BY <1>11, <3>3
    <3> QED BY <3>1, <3>4
  <2>4. /\ stack_frames'[i].vm = m /\ G[i][m] - OpenHere(i)' = h /\ OpenHere(i)' = Len(open)
        /\ runs'[RunOf(i)'].call_frame = runs[RunOf(i)].call_frame
    BY <1>4, <1>5, <1>6, <1>9
  <2> QED BY <1>5, <1>9, <2>1, <2>2, <2>3, <2>4 DEF Entry
<1>14. TryPosition(G, i)'
  <2> DEFINE f == stack_frames[i].frame
  <2>1. ASSUME tries'[f] # <<>>, ~tries'[f][1].caught
        PROVE  tries'[f][1].cf_position = IF h = 0 THEN None ELSE call_frames'[m][h]
    <3>1. tries'[f] = tries[f]
      BY <1>5, <2>1
    <3>2. tries[f][1].cf_position = IF h = 0 THEN None ELSE call_frames[m][h]
      BY <1>4, <1>8, <2>1, <3>1 DEF TryPosition
    <3>3. h # 0 => h \in 1 .. H[i][m]
      <4> HIDE DEF h, m, open
      <4> QED BY <1>7, <1>10
    <3> QED BY <1>7, <1>11, <3>1, <3>2, <3>3
  <2>2. stack_frames'[i].frame = f /\ stack_frames'[i].vm = m
        /\ G[i][m] - Len(stack_frames'[i].open) = h
    BY <1>5
  <2> QED BY <2>1, <2>2 DEF TryPosition
<1>15. OpenCalls(hang2, i)'
  BY <1>4, <1>5, <1>6, <1>8, <1>9 DEF OpenCalls, Last
<1>16. ASSUME NEW c \in CallFrame,
              c = stack_frames[i].call_frame
                \/ \E k \in 1 .. Len(open) : c = open[k] /\ calls[c] = "pending"
       PROVE  calls'[c] = calls[c]
  <2>1. c = stack_frames[i].call_frame => stack_frames[i].call_frame # None
    BY CallStackAssumption
  <2>2. ~Apart(H, n, c)
    <3> SUFFICES ASSUME Apart(H, n, c) PROVE FALSE
      OBVIOUS
    <3>1. /\ stack_frames[i].call_frame # None => stack_frames[i].call_frame # c
          /\ \A k \in 1 .. Len(stack_frames[i].open) :
               calls[stack_frames[i].open[k]] = "pending" => stack_frames[i].open[k] # c
      BY ApartIs
    <3> QED BY <1>16, <2>1, <3>1
  <2> QED BY <2>2 DEF Undisturbed
<1>17. States(hang2, i)'
  <2>1. Matched(i) = 1 => calls'[stack_frames[i].call_frame] = IF IsFirst(i) THEN "outer" ELSE "inner"
    <3>1. Matched(i) = 1 => stack_frames[i].call_frame # None
      BY DEF Matched
    <3> QED BY <1>7, <1>8, <1>16, <3>1 DEF States
  <2>2. \A k \in 1 .. Len(open) : (k = Len(open) /\ Waits(i)) \/ calls'[open[k]] = "pending"
    BY <1>4, <1>7, <1>8, <1>9, <1>16 DEF States
  <2> QED BY <1>5, <1>9, <2>1, <2>2 DEF States
<1> QED BY <1>12, <1>13, <1>14, <1>15, <1>17

\* What is known of the frame that runs.
TopFacts(H) ==
  /\ L \in Nat \ {0} /\ L \in 1 .. L /\ Current \in VM /\ Top = stack_frames[L]
  /\ Top \in StackFrame /\ Top.vm = Current /\ Top.frame \in Frame \cup VM
  /\ Top.open \in Seq(CallFrame) /\ Len(Top.open) \in Nat
  /\ \A i \in 0 .. L, m \in VM : H[i][m] \in Nat
  /\ \A m \in VM : call_frames[m] \in Seq(CallFrame) /\ Len(call_frames[m]) \in Nat
  /\ RunOf(L) = Len(runs) /\ Len(runs) \in Nat \ {0}

\* The frame on top is one of the running VM.
LEMMA TopKnown ==
  ASSUME StacksTyped, StackInv, NEW H \in Heights
  PROVE  TopFacts(H)
<1>1. Structure
  BY StackStructure
<1>2. /\ L \in Nat \ {0} /\ L \in 1 .. L /\ Current \in VM /\ Top = stack_frames[L]
      /\ stack_frames[L] \in StackFrame /\ stack_frames[L].vm = Current
      /\ RunOf(L) = Len(runs) /\ Len(runs) \in Nat \ {0}
  BY <1>1 DEF Structure, Top, Last, L
<1>3. Top.frame \in Frame \cup VM /\ Top.open \in Seq(CallFrame)
  BY <1>2 DEF StackFrame
<1>4. Len(Top.open) \in Nat
  BY <1>3
<1>5. \A i \in 0 .. L, m \in VM : H[i][m] \in Nat
  BY <1>2 DEF Heights
<1>6. \A m \in VM : call_frames[m] \in Seq(CallFrame)
  BY DEF StacksTyped
<1>7. \A m \in VM : Len(call_frames[m]) \in Nat
  BY <1>6
<1> QED BY <1>2, <1>3, <1>4, <1>5, <1>6, <1>7 DEF TopFacts

\* Nothing happens to the stack and the call frames.
LEMMA CallsSame ==
  ASSUME StacksTyped, StackInv, NEW H \in Heights, NEW hang \in BOOLEAN, ~hang, CallsInv(H, hang),
         UNCHANGED <<stack_frames, call_frames, calls, runs>>,
         (Left' <=> Left) \/ Top.open = <<>>,
         (Running /\ Running') \/ Last(runs).call_frame = None,
         ~LeavesArguments /\ mode' \in {"throw", "again"} => Top.open = <<>>,
         mode' = "end" => Top.open = <<>>,
         \A i \in 1 .. L - 1 : Shrinks(stack_frames[i].frame),
         TryPosition(H, L)'
  PROVE  CallsInv(H, hang)'
<1>1. Structure /\ TopFacts(H)
  BY StackStructure, TopKnown
<1> PICK n \in Nat : n = L
  BY <1>1 DEF TopFacts
<1>0. n \in Nat \ {0}
  BY <1>1 DEF TopFacts
<1>2. /\ n \in 1 .. L /\ n \in Nat \ {0} /\ L' = n /\ Len(stack_frames) = n
      /\ stack_frames' = stack_frames /\ call_frames' = call_frames /\ calls' = calls
      /\ runs' = runs /\ n <= L' /\ L' \in Nat
  BY <1>0, <1>1 DEF TopFacts, L
<1>3. SameBelow(n) /\ RunOf(n)' = RunOf(n) /\ Current' = Current
  BY DEF SameBelow, RunOf, IsBase, Current
<1>4. \A i \in 1 .. n : IsBase(i)' = IsBase(i) /\ RunOf(i)' = RunOf(i) /\ KindOf(i)' = KindOf(i)
  BY DEF IsBase, RunOf, KindOf
<1>5. Undisturbed(H, H, n)
  BY <1>2, <1>3 DEF Undisturbed, SameOpen
<1>6. \A i \in 1 .. n - 1 :
        /\ Height(H, i)' /\ Entry(H, hang, i)' /\ TryPosition(H, i)'
        /\ OpenCalls(hang, i)' /\ States(hang, i)'
  BY <1>2, <1>5, KeptBelow, hang \in BOOLEAN
<1>7. /\ Height(H, n) /\ Entry(H, hang, n) /\ OpenCalls(hang, n) /\ States(hang, n)
      /\ Lengths(H, hang) /\ DistinctEntries /\ DistinctHeld /\ HeldCallFramesAlive /\ OnTheWay(hang)
  BY <1>2 DEF CallsInv
<1>8. /\ OpenHere(n)' = OpenHere(n) /\ Matched(n)' = Matched(n)
      /\ \A k \in VM : Held(n, k)' = Held(n, k)
      /\ StartsFunction(n)' = StartsFunction(n) /\ IsFirst(n)' = IsFirst(n)
      /\ ~Waits(n) /\ ~Waits(n)'
  <2>1. OpenHere(n)' = OpenHere(n)
    <3>1. OpenHere(n) = IF Left THEN 0 ELSE Len(Top.open)
      BY <1>1 DEF OpenHere, TopFacts
    <3>2. OpenHere(n)' = IF Left' THEN 0 ELSE Len(Top.open)
      BY <1>1, <1>2 DEF OpenHere, TopFacts
    <3> QED BY <3>1, <3>2
  <2>2. Matched(n)' = Matched(n) /\ \A k \in VM : Held(n, k)' = Held(n, k)
    BY <1>2, <1>4 DEF Matched, Held
  <2>3. StartsFunction(n)' = StartsFunction(n) /\ IsFirst(n)' = IsFirst(n)
    <3>1. n > 1 => n - 1 \in 1 .. n
      BY <1>0
    <3> QED BY <1>2, <1>4, <3>1 DEF StartsFunction, IsFirst
  <2>4. ~(n < L) /\ ~(n < L')
    BY <1>2
  <2> QED BY <2>1, <2>2, <2>3, <2>4 DEF Waits
<1>9. Height(H, n)'
  BY <1>4, <1>7, <1>8, <1>2 DEF Height
<1>10. Entry(H, hang, n)'
  BY <1>2, <1>4, <1>7, <1>8 DEF Entry
<1>11. OpenCalls(hang, n)'
  BY <1>1, <1>2, <1>7, <1>8 DEF OpenCalls, TopFacts
<1>12. States(hang, n)'
  BY <1>2, <1>7, <1>8 DEF States
<1>13. Lengths(H, hang)'
  BY <1>2, <1>3, <1>7 DEF Lengths
<1>14. DistinctEntries' /\ DistinctHeld'
  BY <1>7 DEF DistinctEntries, DistinctHeld
<1>15. HeldCallFramesAlive'
  BY <1>7 DEF HeldCallFramesAlive, Running
<1>16. OnTheWay(hang)'
  BY <1>2 DEF OnTheWay, Top
<1>17. \A i \in 1 .. n : i \in 1 .. n - 1 \/ i = n
  BY <1>0
<1>18. TryPosition(H, n)'
  BY <1>2
<1> QED BY <1>2, <1>6, <1>9, <1>10, <1>11, <1>12, <1>13, <1>14, <1>15, <1>16, <1>17, <1>18
         DEF CallsInv

\* Lists that are cut have no entry twice.
LEMMA DistinctKept ==
  ASSUME DistinctEntries, \A m \in VM : Len(call_frames[m]) \in Nat,
         \A m \in VM : Len(call_frames'[m]) \in 0 .. Len(call_frames[m]),
         \A m \in VM : \A i \in 1 .. Len(call_frames'[m]) :
           /\ call_frames'[m][i] = call_frames[m][i]
           /\ calls'[call_frames[m][i]] \in {"pending", "inner"} =>
                calls[call_frames[m][i]] \in {"pending", "inner"}
  PROVE  DistinctEntries'
<1>1. ASSUME NEW m \in VM, NEW i \in 1 .. Len(call_frames'[m])
      PROVE  i \in 1 .. Len(call_frames[m])
  OBVIOUS
<1>2. ASSUME NEW m \in VM, NEW i \in 1 .. Len(call_frames'[m]), NEW j \in 1 .. Len(call_frames'[m]), i # j
      PROVE  call_frames'[m][i] # call_frames'[m][j]
  BY <1>1, <1>2 DEF DistinctEntries
<1>3. ASSUME NEW m \in VM, NEW k \in VM, NEW i \in 1 .. Len(call_frames'[m]),
             NEW j \in 1 .. Len(call_frames'[k]), m # k, call_frames'[m][i] = call_frames'[k][j]
      PROVE  calls'[call_frames'[m][i]] \notin {"pending", "inner"}
  BY <1>1, <1>3, SMTT(30) DEF DistinctEntries
<1> QED BY <1>2, <1>3 DEF DistinctEntries

\* A call frame that is new in the lists of M is in none of them twice.
LEMMA DistinctAdded ==
  ASSUME StacksTyped, DistinctEntries, NEW c \in CallFrame, NEW M \in SUBSET VM,
         \A m \in M : call_frames'[m] = Append(call_frames[m], c),
         \A m \in VM \ M : call_frames'[m] = call_frames[m],
         \A m \in M : \A i \in 1 .. Len(call_frames[m]) : call_frames[m][i] # c,
         \/ calls'[c] \notin {"pending", "inner"}
         \/ /\ \A m \in VM : \A i \in 1 .. Len(call_frames[m]) : call_frames[m][i] # c
            /\ \E m \in VM : M = {m},
         \A d \in CallFrame : d # c => calls'[d] = calls[d]
  PROVE  DistinctEntries'
<1>1. \A m \in VM : call_frames[m] \in Seq(CallFrame) /\ Len(call_frames[m]) \in Nat
                    /\ \A i \in 1 .. Len(call_frames[m]) : call_frames[m][i] \in CallFrame
  <2> TAKE m \in VM
  <2>1. call_frames[m] \in Seq(CallFrame)
    BY DEF StacksTyped
  <2> QED BY <2>1
<1>2. ASSUME NEW m \in VM, NEW i \in 1 .. Len(call_frames'[m])
      PROVE  \/ i \in 1 .. Len(call_frames[m]) /\ call_frames'[m][i] = call_frames[m][i]
             \/ m \in M /\ i = Len(call_frames[m]) + 1 /\ call_frames'[m][i] = c
  <2>1. CASE m \in M
    <3>1. call_frames[m] \in Seq(CallFrame) /\ call_frames'[m] = Append(call_frames[m], c)
      BY <1>1, <2>1
    <3> QED BY <2>1, <3>1
  <2>2. CASE m \notin M
    BY <1>2, <2>2
  <2> QED BY <2>1, <2>2
<1>3. ASSUME NEW m \in VM, NEW i \in 1 .. Len(call_frames'[m]), NEW j \in 1 .. Len(call_frames'[m]), i # j
      PROVE  call_frames'[m][i] # call_frames'[m][j]
  <2>1. CASE i \in 1 .. Len(call_frames[m]) /\ call_frames'[m][i] = call_frames[m][i]
    <3>1. CASE j \in 1 .. Len(call_frames[m]) /\ call_frames'[m][j] = call_frames[m][j]
      BY <1>3, <2>1, <3>1 DEF DistinctEntries
    <3>2. CASE m \in M /\ j = Len(call_frames[m]) + 1 /\ call_frames'[m][j] = c
      <4>1. call_frames[m][i] # c
        BY <2>1, <3>2
      <4> QED BY <2>1, <3>2, <4>1
    <3> QED BY <1>2, <3>1, <3>2
  <2>2. CASE m \in M /\ i = Len(call_frames[m]) + 1 /\ call_frames'[m][i] = c
    <3>1. j \in 1 .. Len(call_frames[m]) /\ call_frames'[m][j] = call_frames[m][j]
      BY <1>2, <1>3, <2>2
    <3> QED BY <2>2, <3>1
  <2> QED BY <1>2, <2>1, <2>2
<1>4. ASSUME NEW m \in VM, NEW k \in VM, NEW i \in 1 .. Len(call_frames'[m]),
             NEW j \in 1 .. Len(call_frames'[k]), m # k, call_frames'[m][i] = call_frames'[k][j]
      PROVE  calls'[call_frames'[m][i]] \notin {"pending", "inner"}
  <2>1. CASE call_frames'[m][i] # c
    <3>1. /\ i \in 1 .. Len(call_frames[m]) /\ call_frames'[m][i] = call_frames[m][i]
          /\ j \in 1 .. Len(call_frames[k]) /\ call_frames'[k][j] = call_frames[k][j]
      BY <1>2, <1>4, <2>1, SMTT(30)
    <3>2. calls'[call_frames[m][i]] = calls[call_frames[m][i]]
      BY <1>1, <2>1, <3>1
    <3> QED BY <1>4, <3>1, <3>2 DEF DistinctEntries
  <2>2. CASE call_frames'[m][i] = c
    <3>1. (m \in M /\ k \in M) \/ \E n \in VM : \E x \in 1 .. Len(call_frames[n]) : call_frames[n][x] = c
      <4>1. m \in M \/ \E x \in 1 .. Len(call_frames[m]) : call_frames[m][x] = c
        BY <1>2, <2>2
      <4>2. k \in M \/ \E x \in 1 .. Len(call_frames[k]) : call_frames[k][x] = c
        <5>1. call_frames'[k][j] = c
          BY <1>4, <2>2
        <5> QED BY <1>2, <5>1
      <4> QED BY <4>1, <4>2
    <3>2. calls'[c] \notin {"pending", "inner"}
      BY <1>4, <3>1
    <3> QED BY <2>2, <3>2
  <2> QED BY <2>1, <2>2
<1> QED BY <1>3, <1>4 DEF DistinctEntries

-----------------------------------------------------------------------------
(* The actions.                                                            *)

\* What the running code finds.
RunningFacts(H) ==
  /\ H[L][Current] = Len(call_frames[Current])
  /\ OpenHere(L) = Len(Top.open) /\ ~StartsFunction(L) /\ ~Waits(L)
  /\ Height(H, L) /\ TryPosition(H, L)
  /\ \A m \in VM \ {Current} : Held(L, m) = 1 =>
       call_frames[m][H[L][m]] = runs[Len(runs)].call_frame
  /\ Matched(L) = 1 =>
       /\ call_frames[Current][H[L][Current] - Len(Top.open)] = Top.call_frame
       /\ calls[Top.call_frame] = IF IsFirst(L) THEN "outer" ELSE "inner"
  /\ \A k \in 1 .. Len(Top.open) :
       /\ call_frames[Current][(H[L][Current] - Len(Top.open)) + k] = Top.open[k]
       /\ calls[Top.open[k]] = "pending"
  /\ ~LeavesArguments => Len(Top.open) <= 1
  /\ \A k \in 1 .. Len(runs) :
       runs[k].call_frame # None => calls[runs[k].call_frame] = "outer"

\* Code that runs finds the call frames of its frame at the end of its list.
LEMMA RunningKnown ==
  ASSUME StacksTyped, StackInv, NEW H \in Heights, NEW hang \in BOOLEAN, CallsInv(H, hang),
         mode = "run"
  PROVE  ~hang /\ RunningFacts(H)
<1>1. TopFacts(H) /\ HeightFacts(H, hang)
  BY TopKnown, HeightsKnown
<1>2. ~hang
  BY DEF CallsInv, OnTheWay
<1>3. /\ Height(H, L) /\ Entry(H, hang, L) /\ TryPosition(H, L)
      /\ OpenCalls(hang, L) /\ States(hang, L) /\ HeldCallFramesAlive
  BY <1>1 DEF CallsInv, TopFacts
<1>4. H[L][Current] = Len(call_frames[Current])
  <2>1. H[L][Current] = Len(call_frames[Current]) + 0
    BY <1>1, <1>2 DEF HeightFacts
  <2> QED BY <1>1, <2>1 DEF TopFacts
<1>5. OpenHere(L) = Len(Top.open)
  BY <1>1 DEF OpenHere, Left, TopFacts
<1>6. ~StartsFunction(L)
  BY <1>1 DEF TopFacts, StackInv, FirstFrames, Running
<1>7. ~Waits(L)
  BY <1>1 DEF Waits, TopFacts
<1>8. /\ \A m \in VM \ {Current} : Held(L, m) = 1 =>
           call_frames[m][H[L][m]] = runs[Len(runs)].call_frame
      /\ Matched(L) = 1 =>
           call_frames[Current][H[L][Current] - Len(Top.open)] = Top.call_frame
      /\ \A k \in 1 .. Len(Top.open) :
           call_frames[Current][(H[L][Current] - Len(Top.open)) + k] = Top.open[k]
  BY <1>1, <1>2, <1>3, <1>5 DEF Entry, TopFacts
<1>9. /\ Matched(L) = 1 => calls[Top.call_frame] = IF IsFirst(L) THEN "outer" ELSE "inner"
      /\ \A k \in 1 .. Len(Top.open) : calls[Top.open[k]] = "pending"
  BY <1>1, <1>2, <1>3, <1>5, <1>7 DEF States, TopFacts
<1>10. ~LeavesArguments => Len(Top.open) <= 1
  BY <1>1, <1>3 DEF OpenCalls, TopFacts
<1>11. \A k \in 1 .. Len(runs) :
         runs[k].call_frame # None => calls[runs[k].call_frame] = "outer"
  <2>1. \A k \in 1 .. Len(runs) : k \in 1 .. Len(runs) - 1 \/ k = Len(runs)
    BY <1>1 DEF TopFacts
  <2> QED BY <1>3, <2>1 DEF HeldCallFramesAlive, Last
<1> QED BY <1>2, <1>3, <1>4, <1>5, <1>6, <1>7, <1>8, <1>9, <1>10, <1>11 DEF RunningFacts

\* The top of the next state, with n frames, and the others.
Known(G, hang, i) ==
  Height(G, i) /\ Entry(G, hang, i) /\ TryPosition(G, i) /\ OpenCalls(hang, i) /\ States(hang, i)

\* CallsHold of the next state, frame by frame.
LEMMA CallsAgain ==
  ASSUME NEW G \in Heights, NEW hang \in BOOLEAN, NEW n \in Nat, L' = n,
         \A i \in 1 .. n - 1 : Known(G, hang, i)', Known(G, hang, n)',
         Lengths(G, hang)', DistinctEntries', DistinctHeld', HeldCallFramesAlive', OnTheWay(hang)'
  PROVE  CallsHold'
<1>1. \A i \in 1 .. n : i \in 1 .. n - 1 \/ i = n
  OBVIOUS
<1>2. CallsInv(G, hang)'
  BY <1>1 DEF CallsInv, Known
<1> QED BY <1>2 DEF CallsHold

\* What an action starts from, with n frames on the stack.
Given(H, hang, n) ==
  /\ StacksTyped /\ StackInv /\ TriesInv /\ TriesOfLoaded /\ Structure
  /\ CallsInv(H, hang) /\ TopFacts(H) /\ HeightFacts(H, hang)
  /\ n = L /\ n \in Nat \ {0} /\ n \in 1 .. L
  /\ stack_frames \in Seq(StackFrame) /\ Len(stack_frames) = n /\ stack_frames # <<>>
  /\ mode = "run" => ~hang /\ RunningFacts(H)

\* The invariant gives every action what it starts from.
LEMMA GivenHolds ==
  ASSUME IInv
  PROVE  \E H \in Heights, hang \in BOOLEAN, n \in Nat : Given(H, hang, n)
<1>1. StacksTyped /\ StackInv /\ TriesInv /\ TriesOfLoaded /\ Structure
  BY StackStructure DEF IInv
<1> PICK H \in Heights, hang \in BOOLEAN : CallsInv(H, hang)
  BY DEF IInv, CallsHold
<1>2. TopFacts(H) /\ HeightFacts(H, hang) /\ (mode = "run" => ~hang /\ RunningFacts(H))
  BY <1>1, RunningKnown, TopKnown, HeightsKnown
<1> PICK n \in Nat : n = L
  BY <1>2 DEF TopFacts
<1>3. n \in Nat \ {0} /\ n \in 1 .. L
  BY <1>2 DEF TopFacts
<1>4. stack_frames \in Seq(StackFrame) /\ Len(stack_frames) = n
  BY <1>1 DEF StacksTyped, L
<1>5. stack_frames # <<>>
  BY <1>3, <1>4
<1>6. Given(H, hang, n)
  BY <1>1, <1>2, <1>3, <1>4, <1>5 DEF Given
<1> QED BY <1>6

\* The n-th frame keeps its first o open calls, and their entries.
KeepsPlace(H, G, n, o) ==
  /\ n <= L' /\ L' \in Nat /\ SameBelow(n)
  /\ n = L => ~Left
  /\ n = L' => ~Left'
  /\ o <= Len(stack_frames[n].open) /\ Len(stack_frames'[n].open) = o
  /\ \A k \in 1 .. o : stack_frames'[n].open[k] = stack_frames[n].open[k]
  /\ \A k \in 1 .. RunOf(n) : runs'[k] = runs[k]
  /\ G[n - 1] = H[n - 1]
  /\ \A k \in VM : k # stack_frames[n].vm => G[n][k] = H[n][k]
  /\ G[n][stack_frames[n].vm] =
       (H[n][stack_frames[n].vm] - Len(stack_frames[n].open)) + o

KeepsCalls(H, G, hang, hang2, n, o) ==
  /\ \A k \in VM, x \in Nat :
       /\ 1 <= x /\ x <= G[n][k]
       /\ ~(n = L' /\ hang2 /\ k = stack_frames[n].vm /\ x = G[n][k] /\ o # 0)
       => call_frames'[k][x] = call_frames[k][x]
  /\ n = L /\ hang => o < Len(stack_frames[n].open) \/ (hang2 /\ n = L')
  /\ stack_frames[n].call_frame # None =>
       calls'[stack_frames[n].call_frame] = calls[stack_frames[n].call_frame]
  /\ \A k \in 1 .. o :
       \/ k = o /\ (Waits(n)' \/ (n = L' /\ hang2))
       \/ calls'[stack_frames[n].open[k]] = "pending"

\* Then it is known as it was.
LEMMA KeptFrame ==
  ASSUME NEW H \in Heights, NEW hang \in BOOLEAN, NEW l \in Nat, Given(H, hang, l),
         NEW G \in Heights, NEW hang2 \in BOOLEAN, NEW n \in 1 .. L, NEW o \in Nat,
         KeepsPlace(H, G, n, o), KeepsCalls(H, G, hang, hang2, n, o), OpenCalls(hang2, n)',
         Shrinks(stack_frames[n].frame) \/ TryPosition(G, n)'
  PROVE  Known(G, hang2, n)'
<1> DEFINE m == stack_frames[n].vm
           open == stack_frames[n].open
           h == H[n][m] - Len(open)
<1>1. /\ StacksTyped /\ StackInv /\ Structure /\ HeightFacts(H, hang) /\ TopFacts(H)
      /\ Height(H, n) /\ Entry(H, hang, n) /\ TryPosition(H, n)
  BY DEF Given, CallsInv
<1>0. /\ L \in Nat /\ n \in Nat \ {0} /\ SameBelow(n) /\ (n = L' => ~Left') /\ (n = L => ~Left)
      /\ o <= Len(open) /\ Len(stack_frames'[n].open) = o
      /\ \A k \in 1 .. o : stack_frames'[n].open[k] = open[k]
      /\ G[n - 1] = H[n - 1] /\ G[n][m] = h + o
  BY <1>1, SMTT(30) DEF TopFacts, KeepsPlace
<1>2. /\ stack_frames[n] \in StackFrame /\ m \in VM /\ open \in Seq(CallFrame) /\ Len(open) \in Nat
      /\ stack_frames[n].call_frame \in CallFrame \cup {None}
      /\ stack_frames[n].frame \in Frame \cup VM
  <2>1. stack_frames[n] \in StackFrame
    BY <1>1 DEF Structure
  <2> QED BY <2>1 DEF StackFrame
<1>3. /\ OpenHere(n) = Len(open) /\ OpenHere(n)' = o
      /\ stack_frames'[n].vm = m /\ stack_frames'[n].frame = stack_frames[n].frame
      /\ stack_frames'[n].call_frame = stack_frames[n].call_frame
      /\ Matched(n)' = Matched(n)
  <2>1. n \in 1 .. n
    BY <1>0
  <2> QED BY <1>0, <2>1 DEF OpenHere, SameBelow, Matched
<1>4. /\ \A i \in 1 .. n : IsBase(i)' = IsBase(i)
      /\ \A i \in 0 .. n : RunOf(i)' = RunOf(i)
  BY <1>0, CountsBelow
<1>5. RunOf(n) \in 1 .. RunOf(n) /\ RunOf(n)' = RunOf(n) /\ IsBase(n)' = IsBase(n)
      /\ KindOf(n)' = KindOf(n) /\ runs'[RunOf(n)] = runs[RunOf(n)]
  <2>1. RunOf(n) \in 1 .. Len(runs) /\ n \in 1 .. n /\ n \in 0 .. n
    BY <1>0, <1>1 DEF Structure
  <2>2. RunOf(n) \in 1 .. RunOf(n)
    BY <2>1
  <2>3. runs'[RunOf(n)] = runs[RunOf(n)]
    BY <2>2 DEF KeepsPlace
  <2> QED BY <1>4, <2>1, <2>2, <2>3 DEF KindOf
<1>6. n > 1 => /\ IsBase(n - 1)' = IsBase(n - 1) /\ KindOf(n - 1)' = KindOf(n - 1)
               /\ stack_frames'[n - 1].vm = stack_frames[n - 1].vm
  <2> HAVE n > 1
  <2>1. n - 1 \in 1 .. n /\ n - 1 \in 0 .. n /\ n - 1 \in 1 .. L
    BY <1>0
  <2>2. RunOf(n - 1) \in 1 .. Len(runs)
    BY <1>1, <2>1 DEF Structure
  <2>3. RunOf(n - 1) \in Nat /\ RunOf(n - 1) <= RunOf(n)
    BY <1>0, <2>1, RunStep DEF RunFacts
  <2>4. RunOf(n - 1) \in 1 .. RunOf(n)
    BY <1>5, <2>2, <2>3
  <2>5. runs'[RunOf(n - 1)] = runs[RunOf(n - 1)]
    BY <2>4 DEF KeepsPlace
  <2> QED BY <1>0, <1>4, <2>1, <2>5 DEF SameBelow, KindOf
<1>7. /\ \A k \in VM : Held(n, k)' = Held(n, k)
      /\ IsFirst(n)' = IsFirst(n)
  <2>1. \A k \in VM : Held(n, k)' = Held(n, k)
    BY <1>5, <1>6 DEF Held
  <2>2. n > 1 => StartsFunction(n - 1)' = StartsFunction(n - 1)
    BY <1>6 DEF StartsFunction
  <2> QED BY <2>1, <2>2 DEF IsFirst
<1>8. \A k \in VM : H[n][k] \in Nat /\ H[n - 1][k] \in Nat /\ G[n][k] \in Nat
  <2>1. n \in Nat /\ n - 1 \in Nat
    BY <1>0
  <2>2. H[n] \in [VM -> Nat] /\ H[n - 1] \in [VM -> Nat] /\ G[n] \in [VM -> Nat]
    BY <2>1 DEF Heights
  <2> QED BY <2>2
<1>9. h \in Nat /\ (Matched(n) = 1 => h \in Nat \ {0}) /\ G[n][m] = h + o
      /\ (~IsBase(n) => h = H[n - 1][m] + Matched(n)) /\ (IsBase(n) => h >= H[n - 1][m])
      /\ (IsBase(n) /\ "reentry" \in Features => h = H[n - 1][m])
  <2>1. h \in Nat /\ (Matched(n) = 1 => h = H[n - 1][m] + 1)
    BY <1>1, <1>2, <1>3 DEF HeightFacts
  <2>2. ~IsBase(n) => H[n][m] = H[n - 1][m] + Matched(n) + Len(open)
    BY <1>1, <1>3 DEF Height
  <2>3. /\ IsBase(n) => H[n][m] >= H[n - 1][m] + Len(open)
        /\ IsBase(n) /\ "reentry" \in Features => H[n][m] = H[n - 1][m] + Len(open)
    BY <1>1, <1>3 DEF Height
  <2>4. Matched(n) \in Nat /\ H[n][m] \in Nat /\ H[n - 1][m] \in Nat
    BY <1>2, <1>8 DEF Matched
  <2>5. G[n][m] = h + o
    BY <1>0
  <2>6. h = H[n][m] - Len(open)
    OBVIOUS
  <2>7. h \in Nat /\ (Matched(n) = 1 => h \in Nat \ {0})
    <3> HIDE DEF h, m, open
    <3> QED BY <2>1, <2>4
  <2> PICK x \in Nat : x = Len(open)
    BY <1>2
  <2> PICK y \in Nat : y = H[n][m]
    BY <2>4
  <2> PICK z \in Nat : z = H[n - 1][m]
    BY <2>4
  <2>8. h = y - x
    BY <2>6
  <2>9. ~IsBase(n) => h = z + Matched(n)
    <3>1. ~IsBase(n) => y = z + Matched(n) + x
      BY <2>2
    <3> HIDE DEF h, m, open
    <3> QED BY <2>4, <2>8, <3>1, SMTT(30)
  <2>10. (IsBase(n) => h >= z) /\ (IsBase(n) /\ "reentry" \in Features => h = z)
    <3>1. (IsBase(n) => y >= z + x) /\ (IsBase(n) /\ "reentry" \in Features => y = z + x)
      BY <2>3
    <3> HIDE DEF h, m, open
    <3> QED BY <2>8, <3>1, SMTT(30)
  <2> QED BY <2>5, <2>7, <2>9, <2>10
<1>10. Height(G, n)'
  <2>1. \A k \in VM \ {m} : G[n][k] = G[n - 1][k] + Held(n, k)
    BY <1>0, <1>1 DEF Height, KeepsPlace
  <2>2. Matched(n) \in Nat
    BY DEF Matched
  <2>3. ~IsBase(n) => G[n][m] = G[n - 1][m] + Matched(n) + o
    BY <1>0, <1>8, <1>9, <2>2
  <2>6. G[n][m] = h + o /\ G[n - 1][m] = H[n - 1][m] /\ H[n - 1][m] \in Nat
    BY <1>0, <1>2, <1>8
  <2>4. IsBase(n) => G[n][m] >= G[n - 1][m] + o
    <3> HIDE DEF h, m
    <3> QED BY <1>9, <2>6
  <2>5. IsBase(n) /\ "reentry" \in Features => G[n][m] = G[n - 1][m] + o
    <3> HIDE DEF h, m
    <3> QED BY <1>9, <2>6
  <2> QED BY <1>3, <1>5, <1>7, <2>1, <2>3, <2>4, <2>5 DEF Height
<1>11. Entry(G, hang2, n)'
  <2>1. Matched(n) = 1 => call_frames'[m][h] = stack_frames[n].call_frame
    <3>1. Matched(n) = 1 => call_frames[m][h] = stack_frames[n].call_frame
      BY <1>1, <1>3 DEF Entry
    <3>2. Matched(n) = 1 => 1 <= h /\ h <= G[n][m] /\ h \in Nat /\ (h = G[n][m] => o = 0)
      <4> HIDE DEF h, m
      <4> QED BY <1>9
    <3>3. Matched(n) = 1 => call_frames'[m][h] = call_frames[m][h]
      <4> HIDE DEF h
      <4> QED BY <1>2, <3>2 DEF KeepsCalls
    <3> QED BY <3>1, <3>3
  <2>2. ASSUME NEW k \in 1 .. o, n # L' \/ ~hang2 \/ k # o
        PROVE  call_frames'[m][h + k] = open[k]
    <3>1. k \in 1 .. Len(open) /\ (n # L \/ ~hang \/ k # Len(open))
      BY <1>0, <1>2, <2>2 DEF KeepsCalls
    <3>2. call_frames[m][h + k] = open[k]
      BY <1>1, <1>3, <3>1 DEF Entry
    <3>3. 1 <= h + k /\ h + k <= G[n][m] /\ h + k \in Nat /\ (h + k = G[n][m] => k = o)
      <4> HIDE DEF h, m
      <4> QED BY <1>9
    <3>4. call_frames'[m][h + k] = call_frames[m][h + k]
      <4> HIDE DEF h
      <4> QED BY <1>2, <2>2, <3>3 DEF KeepsCalls
    <3> QED BY <3>2, <3>4
  <2>3. ASSUME NEW k \in VM \ {m}, Held(n, k) = 1
        PROVE  call_frames'[k][G[n][k]] = runs[RunOf(n)].call_frame
    <3>1. call_frames[k][H[n][k]] = runs[RunOf(n)].call_frame
      BY <1>1, <2>3 DEF Entry
    <3>2. G[n][k] = H[n][k] /\ H[n][k] = H[n - 1][k] + 1
      BY <1>1, <2>3 DEF Height, KeepsPlace
    <3>3. 1 <= G[n][k] /\ G[n][k] \in Nat
      BY <1>8, <3>2
    <3>4. call_frames'[k][G[n][k]] = call_frames[k][G[n][k]]
      BY <3>3 DEF KeepsCalls
    <3> QED BY <3>1, <3>2, <3>4
  <2>4. G[n][m] - o = h
    <3> HIDE DEF h, m
    <3> QED BY <1>9
  <2>5. /\ \A k \in VM \ {m} : Held(n, k)' = 1 => call_frames'[k][G[n][k]] = runs'[RunOf(n)'].call_frame
        /\ Matched(n)' = 1 => call_frames'[m][h] = stack_frames'[n].call_frame
        /\ \A k \in 1 .. o : n # L' \/ ~hang2 \/ k # Len(stack_frames'[n].open) =>
             call_frames'[m][h + k] = stack_frames'[n].open[k]
    BY <1>0, <1>3, <1>5, <1>7, <2>1, <2>2, <2>3
  <2> SUFFICES Entry(G, hang2, n)'
    OBVIOUS
  <2>6. stack_frames'[n].vm = m /\ OpenHere(n)' = o
    BY <1>3
  <2> HIDE DEF h, m
  <2> QED BY <2>4, <2>5, <2>6 DEF Entry
<1>12. TryPosition(G, n)'
  <2> DEFINE f == stack_frames[n].frame
  <2> SUFFICES ASSUME Shrinks(f) PROVE TryPosition(G, n)'
    OBVIOUS
  <2>1. ASSUME tries'[f] # <<>>, ~tries'[f][1].caught
        PROVE  tries'[f][1].cf_position = IF h = 0 THEN None ELSE call_frames'[m][h]
    <3>1. tries'[f] = tries[f]
      BY <2>1 DEF Shrinks
    <3>2. tries[f][1].cf_position = IF h = 0 THEN None ELSE call_frames[m][h]
      BY <1>0, <1>1, <2>1, <3>1 DEF TryPosition
    <3>3. h # 0 => 1 <= h /\ h <= G[n][m] /\ h \in Nat /\ (h = G[n][m] => o = 0)
      <4> HIDE DEF h, m
      <4> QED BY <1>9
    <3>4. h # 0 => call_frames'[m][h] = call_frames[m][h]
      <4> HIDE DEF h
      <4> QED BY <1>2, <3>3 DEF KeepsCalls
    <3> HIDE DEF h, m, f
    <3> QED BY <3>1, <3>2, <3>4
  <2>2. G[n][m] - o = h
    <3> HIDE DEF h, m
    <3> QED BY <1>9
  <2>3. stack_frames'[n].vm = m /\ stack_frames'[n].frame = f /\ Len(stack_frames'[n].open) = o
    BY <1>0, <1>3
  <2> HIDE DEF h, m, f
  <2> QED BY <2>1, <2>2, <2>3 DEF TryPosition
<1>13. States(hang2, n)'
  <2>1. Matched(n) = 1 => calls'[stack_frames[n].call_frame] = IF IsFirst(n) THEN "outer" ELSE "inner"
    <3>1. States(hang, n)
      BY DEF Given, CallsInv
    <3> QED BY <3>1 DEF States, Matched, KeepsCalls
  <2>2. \A k \in 1 .. o :
          \/ k = Len(stack_frames'[n].open) /\ (Waits(n)' \/ (n = L' /\ hang2))
          \/ calls'[stack_frames'[n].open[k]] = "pending"
    BY <1>0 DEF KeepsCalls
  <2>3. Matched(n)' = 1 =>
          calls'[stack_frames'[n].call_frame] = IF IsFirst(n)' THEN "outer" ELSE "inner"
    BY <1>3, <1>7, <2>1
  <2> QED BY <1>3, <2>2, <2>3 DEF States
<1> QED BY <1>10, <1>11, <1>12, <1>13 DEF Known

\* The frame of a function or a class body is new on top.
LEMMA NewFunction ==
  ASSUME NEW G \in Heights, NEW hang \in BOOLEAN, ~hang, NEW k \in Nat \ {0}, L' = k, ~Left',
         NEW f \in Frame, NEW m \in VM, NEW c \in CallFrame \cup {None},
         stack_frames'[k] = NewFrame(f, m, c), tries'[f] = <<>>,
         \A x \in VM : x # m => G[k][x] = G[k - 1][x],
         G[k][m] = G[k - 1][m] + (IF c = None THEN 0 ELSE 1),
         c # None => /\ call_frames'[m][G[k][m]] = c
                     /\ calls'[c] = IF IsFirst(k)' THEN "outer" ELSE "inner"
  PROVE  Known(G, hang, k)'
<1>1. /\ stack_frames'[k].frame = f /\ stack_frames'[k].vm = m /\ stack_frames'[k].call_frame = c
      /\ stack_frames'[k].open = <<>> /\ Len(stack_frames'[k].open) = 0
  BY DEF NewFrame
<1>2. ~IsBase(k)' /\ OpenHere(k)' = 0 /\ ~Waits(k)' /\ ~StartsFunction(k)'
      /\ Matched(k)' = IF c = None THEN 0 ELSE 1
  <2>1. ~IsBase(k)'
    BY <1>1, CallStackAssumption DEF IsBase
  <2>2. OpenHere(k)' = 0 /\ ~Waits(k)'
    BY <1>1 DEF OpenHere, Waits
  <2> QED BY <1>1, <2>1, <2>2 DEF StartsFunction, Matched
<1>3. \A x \in VM : Held(k, x)' = 0
  BY <1>2 DEF Held
<1>4. \A x \in VM : G[k][x] \in Nat /\ G[k - 1][x] \in Nat
  <2>1. k - 1 \in Nat
    OBVIOUS
  <2> QED BY <2>1 DEF Heights
<1>5. Height(G, k)'
  BY <1>1, <1>2, <1>3, <1>4 DEF Height
<1>6. Entry(G, hang, k)'
  <2>1. Matched(k)' = 1 => call_frames'[m][G[k][m] - 0] = c
    BY <1>2, <1>4
  <2> QED BY <1>1, <1>2, <1>3, <2>1 DEF Entry
<1>7. TryPosition(G, k)'
  BY <1>1 DEF TryPosition
<1>8. OpenCalls(hang, k)'
  BY <1>1, <1>2 DEF OpenCalls
<1>9. States(hang, k)'
  BY <1>1, <1>2 DEF States
<1> QED BY <1>5, <1>6, <1>7, <1>8, <1>9 DEF Known

\* The base of a run is.
LEMMA NewBase ==
  ASSUME NEW G \in Heights, NEW hang \in BOOLEAN, NEW k \in Nat \ {0}, k <= L', ~Left',
         NEW m \in VM, stack_frames'[k] = NewFrame(m, m, None), tries'[m] = <<>>, ~hang,
         k = L' \/ ~IsBase(k + 1)',
         \A x \in VM : x # m => G[k][x] = G[k - 1][x] + Held(k, x)',
         G[k][m] >= G[k - 1][m], "reentry" \in Features => G[k][m] = G[k - 1][m],
         \A x \in VM : x # m /\ Held(k, x)' = 1 =>
           call_frames'[x][G[k][x]] = runs'[RunOf(k)'].call_frame
  PROVE  Known(G, hang, k)'
<1>1. /\ stack_frames'[k].frame = m /\ stack_frames'[k].vm = m /\ stack_frames'[k].call_frame = None
      /\ stack_frames'[k].open = <<>> /\ Len(stack_frames'[k].open) = 0
  BY DEF NewFrame
<1>2. IsBase(k)' /\ OpenHere(k)' = 0 /\ ~Waits(k)' /\ Matched(k)' = 0
  <2>1. OpenHere(k)' = 0 /\ ~Waits(k)'
    BY <1>1 DEF OpenHere, Waits
  <2> QED BY <1>1, <2>1 DEF IsBase, Matched
<1>4. \A x \in VM : G[k][x] \in Nat /\ G[k - 1][x] \in Nat
  <2>1. k - 1 \in Nat
    OBVIOUS
  <2> QED BY <2>1 DEF Heights
<1>5. Height(G, k)'
  <2>1. G[k][m] >= G[k - 1][m] + 0 /\ ("reentry" \in Features => G[k][m] = G[k - 1][m] + 0)
    BY <1>4
  <2> QED BY <1>1, <1>2, <2>1 DEF Height
<1>6. Entry(G, hang, k)'
  BY <1>1, <1>2 DEF Entry
<1>7. TryPosition(G, k)'
  BY <1>1 DEF TryPosition
<1>8. OpenCalls(hang, k)'
  BY <1>1, <1>2 DEF OpenCalls
<1>9. States(hang, k)'
  BY <1>1, <1>2 DEF States
<1> QED BY <1>5, <1>6, <1>7, <1>8, <1>9 DEF Known

\* s with other open calls on top.
OpenIs(s, o) ==
  /\ WithOpen(s, o) \in Seq(StackFrame) /\ Len(WithOpen(s, o)) = Len(s)
  /\ \A i \in 1 .. Len(s) - 1 : WithOpen(s, o)[i] = s[i]
  /\ \A i \in 1 .. Len(s) :
       /\ WithOpen(s, o)[i].frame = s[i].frame
       /\ WithOpen(s, o)[i].vm = s[i].vm
       /\ WithOpen(s, o)[i].call_frame = s[i].call_frame
  /\ WithOpen(s, o)[Len(s)].open = o

\* WithOpenIs, for all stacks.
LEMMA WithOpenAre ==
  \A s \in Seq(StackFrame), o \in Seq(CallFrame) : s # <<>> => OpenIs(s, o)
BY WithOpenIs DEF OpenIs

\* Another height of the list of m at the n-th frame.
SetsHeight(H, G, n, m, x) ==
  /\ \A i \in Nat : i # n => G[i] = H[i]
  /\ \A k \in VM : k # m => G[n][k] = H[n][k]
  /\ G[n][m] = x

\* Such heights exist.
LEMMA HeightSet ==
  \A H \in Heights, n \in Nat, m \in VM, x \in Nat :
    \E G \in Heights : SetsHeight(H, G, n, m, x)
<1> SUFFICES ASSUME NEW H \in Heights, NEW n \in Nat, NEW m \in VM, NEW x \in Nat
             PROVE  \E G \in Heights : SetsHeight(H, G, n, m, x)
  OBVIOUS
<1>1. H \in [Nat -> [VM -> Nat]] /\ H[n] \in [VM -> Nat]
  BY DEF Heights
<1> DEFINE r == [H[n] EXCEPT ![m] = x]
           G == [H EXCEPT ![n] = r]
<1>2. r \in [VM -> Nat] /\ r[m] = x /\ \A k \in VM : k # m => r[k] = H[n][k]
  BY <1>1
<1> HIDE DEF r
<1>3. G \in Heights
  BY <1>1, <1>2 DEF Heights
<1>4. G[n] = r /\ \A i \in Nat : i # n => G[i] = H[i]
  BY <1>1
<1> HIDE DEF G
<1> QED BY <1>2, <1>3, <1>4 DEF SetsHeight

\* What the running code finds: n frames, l open calls on top, and top call
\* frames in its list.
RunningNow(H, hang, n, l, top) ==
  /\ ~hang /\ Current \in VM
  /\ l = Len(stack_frames[n].open) /\ top = Len(call_frames[Current]) /\ top = H[n][Current]
  /\ top >= l
  /\ Top = stack_frames[n] /\ stack_frames[n].vm = Current /\ TopFrame = stack_frames[n].frame
  /\ stack_frames[n].frame \in Frame \cup VM
  /\ stack_frames[n].call_frame \in CallFrame \cup {None}
  /\ stack_frames[n].open \in Seq(CallFrame)
  /\ call_frames[Current] \in Seq(CallFrame)
  /\ Matched(n) = 1 =>
       /\ top - l \in 1 .. top
       /\ call_frames[Current][top - l] = stack_frames[n].call_frame
       /\ calls[stack_frames[n].call_frame] = IF IsFirst(n) THEN "outer" ELSE "inner"
  /\ \A k \in 1 .. l :
       /\ stack_frames[n].open[k] \in CallFrame /\ (top - l) + k \in 1 .. top
       /\ call_frames[Current][(top - l) + k] = stack_frames[n].open[k]
       /\ calls[stack_frames[n].open[k]] = "pending"
  /\ ~StartsFunction(n) /\ ~Waits(n)
  /\ ~LeavesArguments => l <= 1
  /\ \A k \in 1 .. Len(runs) :
       runs[k].call_frame # None => calls[runs[k].call_frame] = "outer"

\* The entries of the frame on top are the last ones in the list.
LEMMA RunningIs ==
  ASSUME NEW H \in Heights, NEW hang \in BOOLEAN, NEW n \in Nat, Given(H, hang, n), mode = "run"
  PROVE  \E l, top \in Nat : RunningNow(H, hang, n, l, top)
<1>1. /\ ~hang /\ RunningFacts(H) /\ TopFacts(H) /\ Structure /\ n = L /\ HeightFacts(H, hang)
      /\ n \in 1 .. L /\ n \in Nat \ {0}
  BY DEF Given
<1>2. /\ Current \in VM /\ Top = stack_frames[n] /\ stack_frames[n].vm = Current
      /\ TopFrame = stack_frames[n].frame /\ stack_frames[n].frame \in Frame \cup VM
      /\ stack_frames[n].call_frame \in CallFrame \cup {None}
      /\ stack_frames[n].open \in Seq(CallFrame) /\ call_frames[Current] \in Seq(CallFrame)
  BY <1>1 DEF TopFacts, Structure, StackFrame
<1>3. PICK l \in Nat : l = Len(stack_frames[n].open)
  BY <1>2
<1>4. PICK top \in Nat : top = H[n][Current]
  BY <1>1, <1>2 DEF TopFacts
<1>5. /\ top = Len(call_frames[Current]) /\ ~StartsFunction(n) /\ ~Waits(n)
      /\ (~LeavesArguments => l <= 1) /\ OpenHere(n) = l
      /\ \A k \in 1 .. Len(runs) :
           runs[k].call_frame # None => calls[runs[k].call_frame] = "outer"
  BY <1>1, <1>2, <1>3, <1>4 DEF RunningFacts
<1>6. Matched(n) = 1 =>
        /\ call_frames[Current][top - l] = stack_frames[n].call_frame
        /\ calls[stack_frames[n].call_frame] = IF IsFirst(n) THEN "outer" ELSE "inner"
  BY <1>1, <1>2, <1>3, <1>4 DEF RunningFacts
<1>7. \A k \in 1 .. l :
        /\ call_frames[Current][(top - l) + k] = stack_frames[n].open[k]
        /\ calls[stack_frames[n].open[k]] = "pending"
  <2>1. \A k \in 1 .. Len(Top.open) :
          /\ call_frames[Current][(H[L][Current] - Len(Top.open)) + k] = Top.open[k]
          /\ calls[Top.open[k]] = "pending"
    BY <1>1 DEF RunningFacts
  <2> QED BY <1>1, <1>2, <1>3, <1>4, <2>1
<1>8. top - l \in Nat /\ (Matched(n) = 1 => top - l \in Nat \ {0})
  <2>1. top - l \in Nat /\ (Matched(n) = 1 => top - l = H[n - 1][Current] + 1)
    BY <1>1, <1>2, <1>4, <1>5 DEF HeightFacts
  <2>2. H[n - 1][Current] \in Nat
    <3>1. n - 1 \in Nat
      BY <1>1
    <3> QED BY <1>2, <3>1 DEF Heights
  <2> QED BY <2>1, <2>2
<1>9. top >= l /\ (Matched(n) = 1 => top - l \in 1 .. top)
      /\ \A k \in 1 .. l : (top - l) + k \in 1 .. top
  BY <1>8
<1>10. \A k \in 1 .. l : stack_frames[n].open[k] \in CallFrame
  BY <1>2, <1>3
<1> QED BY <1>1, <1>2, <1>3, <1>4, <1>5, <1>6, <1>7, <1>9, <1>10, ZenonT(30) DEF RunningNow

\* Other heights at the k-th frame, and the one above.
Row == [VM -> Nat]
RowsAre(H, G, k, r, q) ==
  (\A i \in Nat : i # k /\ i # k + 1 => G[i] = H[i]) /\ G[k] = r /\ G[k + 1] = q

\* Such heights exist.
LEMMA RowsSet ==
  \A H \in Heights, k \in Nat, r, q \in Row :
    \E G \in Heights : RowsAre(H, G, k, r, q)
<1> SUFFICES ASSUME NEW H \in Heights, NEW k \in Nat, NEW r \in Row, NEW q \in Row
             PROVE  \E G \in Heights : RowsAre(H, G, k, r, q)
  OBVIOUS
<1> DEFINE G == [i \in Nat |-> IF i = k THEN r ELSE IF i = k + 1 THEN q ELSE H[i]]
<1>1. G \in Heights
  BY DEF Heights, Row
<1>2. G[k] = r /\ G[k + 1] = q /\ \A i \in Nat : i # k /\ i # k + 1 => G[i] = H[i]
  OBVIOUS
<1> HIDE DEF G
<1> QED BY <1>1, <1>2 DEF RowsAre

\* The starter of every run still holds its call frame.
LEMMA HeldKept ==
  ASSUME Structure, runs' = runs, mode' \in {"run", "throw"},
         \A k \in 1 .. Len(runs) :
           runs[k].call_frame # None => calls[runs[k].call_frame] = "outer",
         \A d \in CallFrame : calls[d] = "outer" => calls'[d] = "outer"
  PROVE  HeldCallFramesAlive'
<1>1. \A k \in 1 .. Len(runs) : runs[k].call_frame # None => calls'[runs[k].call_frame] = "outer"
  <2> TAKE k \in 1 .. Len(runs)
  <2>1. runs[k].call_frame \in CallFrame \cup {None}
    BY DEF Structure, Activation
  <2> QED BY <2>1
<1>2. Len(runs) \in 1 .. Len(runs) /\ \A k \in 1 .. Len(runs) - 1 : k \in 1 .. Len(runs)
  BY DEF Structure
<1> QED BY <1>1, <1>2 DEF HeldCallFramesAlive, Last

\* The lists are as long as the frames below the top say.
LEMMA LengthsKept ==
  ASSUME NEW H \in Heights, NEW hang \in BOOLEAN, NEW n \in Nat, Given(H, hang, n), ~hang,
         NEW G \in Heights, NEW k \in Nat, L' = k,
         \A m \in VM : G[k][m] = H[n][m] /\ call_frames'[m] = call_frames[m],
         \A i \in 1 .. k : \E j \in 1 .. n : stack_frames'[i].vm = stack_frames[j].vm
  PROVE  Lengths(G, hang)'
<1>1. Lengths(H, hang) /\ n = L /\ \A m \in VM : Len(call_frames[m]) \in Nat
  BY DEF Given, CallsInv, TopFacts
<1> SUFFICES ASSUME NEW m \in VM
             PROVE  /\ G[k][m] <= Len(call_frames'[m])
                    /\ "reentry" \in Features \/ (\E i \in 1 .. k : stack_frames'[i].vm = m)
                         => G[k][m] = Len(call_frames'[m])
  <2>1. \A m \in VM : Len(call_frames'[m]) + 0 = Len(call_frames'[m])
    BY <1>1
  <2> QED BY <2>1 DEF Lengths
<1>2. /\ H[n][m] <= Len(call_frames[m]) + 0
      /\ "reentry" \in Features \/ (\E i \in 1 .. n : stack_frames[i].vm = m)
           => H[n][m] = Len(call_frames[m]) + 0
  BY <1>1 DEF Lengths
<1>3. G[k][m] <= Len(call_frames'[m])
  <2>1. \A x, y \in Nat : x <= y + 0 => x <= y
    OBVIOUS
  <2>2. H[n][m] \in Nat
    BY DEF Heights
  <2>3. H[n][m] <= Len(call_frames[m])
    BY <1>1, <1>2, <2>1, <2>2
  <2> QED BY <2>3
<1>4. ASSUME "reentry" \in Features \/ (\E i \in 1 .. k : stack_frames'[i].vm = m)
      PROVE  G[k][m] = Len(call_frames'[m])
  <2>1. "reentry" \in Features \/ (\E i \in 1 .. n : stack_frames[i].vm = m)
    BY <1>4
  <2>2. H[n][m] = Len(call_frames[m])
    BY <1>1, <1>2, <2>1
  <2> QED BY <2>2
<1> QED BY <1>3, <1>4

\* What PushFrames does with one frame, and with that of a run as well.
PushedFrame(m, f, c, s) ==
  /\ frames' = [frames EXCEPT ![m] = Append(@, f)]
  /\ stack_frames' = Append(s, NewFrame(f, m, c))
  /\ NewFrame(f, m, c) \in StackFrame
  /\ NewFrame(f, m, c).vm = m /\ NewFrame(f, m, c).frame = f
  /\ NewFrame(f, m, c).call_frame = c

\* PushFrameIs, for all frames.
LEMMA PushFrameAre ==
  StacksTyped =>
    \A m \in VM, f \in Frame, c \in CallFrame \cup {None}, s \in Seq(StackFrame) :
      PushFrames(m, <<f>>, c, s) => PushedFrame(m, f, c, s)
<1> SUFFICES ASSUME StacksTyped, NEW m \in VM, NEW f \in Frame, NEW c \in CallFrame \cup {None},
                    NEW s \in Seq(StackFrame), PushFrames(m, <<f>>, c, s)
             PROVE  PushedFrame(m, f, c, s)
  OBVIOUS
<1>1. f \in Frame \cup VM
  OBVIOUS
<1>2. /\ frames' = [frames EXCEPT ![m] = Append(@, f)]
      /\ stack_frames' = Append(s, NewFrame(f, m, c))
  BY <1>1, PushFrameIs, SMTT(30)
<1>3. NewFrame(f, m, c) \in StackFrame
  BY <1>1 DEF NewFrame, StackFrame
<1>4. /\ NewFrame(f, m, c).vm = m /\ NewFrame(f, m, c).frame = f
      /\ NewFrame(f, m, c).call_frame = c
  BY DEF NewFrame
<1> QED BY <1>2, <1>3, <1>4 DEF PushedFrame

\* The frame of a function or of a class body is pushed.
LEMMA FramePushed ==
  ASSUME NEW H \in Heights, NEW hang \in BOOLEAN, NEW n \in Nat, Given(H, hang, n),
         mode = "run", mode' = "run", NEW f \in Frame, Fresh(f), NEW c \in CallFrame \cup {None},
         NEW s \in Seq(StackFrame), SameShape(s, stack_frames), PushFrames(Current, <<f>>, c, s),
         call_frames' \in [VM -> Seq(CallFrame)], calls' \in [CallFrame -> CallState],
         UNCHANGED <<tries, runs, imports, loaded, raised, by_call>>
  PROVE  /\ StacksTyped' /\ StackInv' /\ TriesInv' /\ TriesOfLoaded'
         /\ L' = n + 1 /\ SameBelow(n) /\ stack_frames'[n + 1] = NewFrame(f, Current, c)
         /\ \A i \in 1 .. n : stack_frames'[i] = s[i]
         /\ tries'[f] = <<>>
<1>1. /\ StacksTyped /\ StackInv /\ TriesInv /\ TriesOfLoaded /\ Structure /\ n = L /\ n \in Nat \ {0}
      /\ Current \in VM /\ Len(stack_frames) = n
  BY DEF Given, TopFacts
<1>2. /\ frames' = [frames EXCEPT ![Current] = Append(@, f)]
      /\ stack_frames' = Append(s, NewFrame(f, Current, c))
      /\ NewFrame(f, Current, c) \in StackFrame
      /\ NewFrame(f, Current, c).vm = Current /\ NewFrame(f, Current, c).frame = f
      /\ NewFrame(f, Current, c).call_frame = c
  <2>1. PushedFrame(Current, f, c, s)
    BY <1>1, PushFrameAre
  <2> QED BY <2>1 DEF PushedFrame
<1>3. /\ Len(s) = n
      /\ \A i \in 1 .. n : s[i].frame = stack_frames[i].frame /\ s[i].vm = stack_frames[i].vm
                           /\ s[i].call_frame = stack_frames[i].call_frame
  BY <1>1 DEF SameShape
<1>4. /\ stack_frames' \in Seq(StackFrame) /\ L' = n + 1
      /\ stack_frames'[n + 1] = NewFrame(f, Current, c)
      /\ \A i \in 1 .. n : stack_frames'[i] = s[i]
  BY <1>2, <1>3 DEF L
<1>5. SameBelow(n)
  BY <1>3, <1>4 DEF SameBelow
<1>6. StacksTyped'
  <2>1. frames' \in [VM -> Seq(Frame \cup VM)]
    BY <1>1, <1>2, SMTT(30) DEF StacksTyped
  <2> QED BY <1>1, <1>4, <2>1 DEF StacksTyped
<1>7. FramesMatchStack'
  <2>1. FramesMatchStack /\ Current \in loaded
    BY <1>1 DEF StackInv, KindsOfRuns, Current, Last, Structure
  <2> QED BY <1>1, <1>2, <2>1, MatchPushed
<1>8. StackInv'
  BY <1>1, <1>2, <1>4, <1>5, <1>7, StackPush DEF Running
<1>9. TriesInv'
  <2>1. stack_frames'[L + 1].frame \notin VM
    BY <1>1, <1>2, <1>4, CallStackAssumption
  <2> QED BY <1>1, <1>4, <1>5, <1>6, <1>8, <2>1, TriesPush
<1>10. TriesOfLoaded'
  BY <1>1 DEF TriesOfLoaded
<1>11. tries'[f] = <<>>
  BY <1>1, FreshNotOnStack DEF TriesInv, TriesOfStack
<1> QED BY <1>4, <1>5, <1>6, <1>8, <1>9, <1>10, <1>11

-----------------------------------------------------------------------------
(* PushCallFrame: a call begins.                                           *)

\* PushCallFrame keeps the invariant: the list grows by the open call.
LEMMA PushCallFrameStep ==
  ASSUME IInv, WorkingFeatures, NEW c \in CallFrame, PushCallFrame(c)
  PROVE  IInv'
<1> PICK H \in Heights, hang \in BOOLEAN, n \in Nat : Given(H, hang, n)
  BY GivenHolds
<1> DEFINE open == stack_frames[n].open
           s == WithOpen(stack_frames, Append(open, c))
<1>1. /\ StacksTyped /\ StackInv /\ TriesInv /\ TriesOfLoaded /\ Structure /\ CallsInv(H, hang)
      /\ n = L /\ n \in Nat \ {0} /\ n \in 1 .. L /\ Len(stack_frames) = n
      /\ stack_frames \in Seq(StackFrame) /\ stack_frames # <<>>
      /\ Top = stack_frames[n] /\ Current \in VM /\ Top.vm = Current
      /\ open \in Seq(CallFrame) /\ Len(open) \in Nat
      /\ call_frames[Current] \in Seq(CallFrame) /\ Len(call_frames[Current]) \in Nat
  BY DEF Given, TopFacts
<1>2. /\ mode = "run" /\ mode' = "run" /\ FreshCall(c) /\ MayRaise
      /\ call_frames' = [call_frames EXCEPT ![Current] = Append(@, c)]
      /\ calls' = [calls EXCEPT ![c] = "pending"]
      /\ stack_frames' = s
      /\ UNCHANGED <<frames, tries, runs, imports, loaded, raised, by_call>>
  BY <1>1 DEF PushCallFrame
<1>3. ~hang /\ RunningFacts(H)
  BY <1>2 DEF Given
<1>4. /\ s \in Seq(StackFrame) /\ Len(s) = n
      /\ \A i \in 1 .. n - 1 : s[i] = stack_frames[i]
      /\ \A i \in 1 .. n : /\ s[i].frame = stack_frames[i].frame /\ s[i].vm = stack_frames[i].vm
                           /\ s[i].call_frame = stack_frames[i].call_frame
      /\ s[n].open = Append(open, c)
  <2>1. Append(open, c) \in Seq(CallFrame)
    BY <1>1
  <2>2. OpenIs(stack_frames, Append(open, c))
    BY <1>1, <2>1, WithOpenAre
  <2> QED BY <1>1, <2>2 DEF OpenIs
<1>5. stack_frames' \in Seq(StackFrame) /\ L' = n /\ SameBelow(n) /\ SameOpen(n - 1)
      /\ stack_frames'[n].open = Append(open, c)
  BY <1>2, <1>4 DEF SameBelow, SameOpen, L
<1>6. call_frames' \in [VM -> Seq(CallFrame)] /\ calls' \in [CallFrame -> CallState]
      /\ call_frames'[Current] = Append(call_frames[Current], c)
      /\ (\A m \in VM : m # Current => call_frames'[m] = call_frames[m])
      /\ calls'[c] = "pending" /\ (\A d \in CallFrame : d # c => calls'[d] = calls[d])
  <2>1. call_frames \in [VM -> Seq(CallFrame)] /\ calls \in [CallFrame -> CallState]
    BY <1>1 DEF StacksTyped
  <2>2. "pending" \in CallState
    BY DEF CallState
  <2> QED BY <1>1, <1>2, <2>1, <2>2
<1>7. StacksTyped'
  BY <1>1, <1>2, <1>5, <1>6 DEF StacksTyped
<1>8. StackInv'
  <2>1. L' = L /\ SameBelow(L) /\ ~StartsFunction(L) /\ mode' \notin {"end", "leave"}
    BY <1>1, <1>2, <1>3, <1>5 DEF RunningFacts
  <2> QED BY <1>1, <1>2, <2>1, StackSame
<1>9. TriesInv'
  <2>1. n \in Base .. L
    BY <1>1 DEF Structure
  <2>2. /\ \A f \in Frame \cup VM : Len(tries'[f]) <= 1
        /\ \A f \in Frame : tries'[f] # <<>> => \E i \in 1 .. n : stack_frames[i].frame = f
    BY <1>1, <1>2 DEF TriesInv, TriesOfStack
  <2>3. \A f : Shrinks(f)
    BY <1>2 DEF Shrinks
  <2> QED BY <1>1, <1>2, <1>5, <2>1, <2>2, <2>3, TriesPop
<1>10. TriesOfLoaded'
  BY <1>1, <1>2 DEF TriesOfLoaded
<1>11. \E G \in Heights : SetsHeight(H, G, n, Current, H[n][Current] + 1)
  <2>1. H[n][Current] + 1 \in Nat
    BY <1>1, SMTT(30) DEF Heights
  <2> QED BY <1>1, <2>1, HeightSet
<1> PICK G \in Heights : SetsHeight(H, G, n, Current, H[n][Current] + 1)
  BY <1>11
<1>12. /\ H[n][Current] = Len(call_frames[Current]) /\ H[n][Current] \in Nat
       /\ Len(call_frames'[Current]) = H[n][Current] + 1
       /\ \A x \in 1 .. H[n][Current] : call_frames'[Current][x] = call_frames[Current][x]
       /\ call_frames'[Current][H[n][Current] + 1] = c
  BY <1>1, <1>3, <1>6 DEF RunningFacts
<1> HIDE DEF s
<1>13. \A i \in 1 .. n - 1 : Known(G, hang, i)'
  <2>1. \A k \in VM, x \in Nat : 1 <= x /\ x <= H[n - 1][k] => call_frames'[k][x] = call_frames[k][x]
    <3> TAKE k \in VM, x \in Nat
    <3> HAVE 1 <= x /\ x <= H[n - 1][k]
    <3>1. k # Current => call_frames'[k] = call_frames[k]
      BY <1>6
    <3>2. H[n - 1][Current] <= H[n][Current] /\ H[n - 1][Current] \in Nat
      <4>1. n - 1 \in 0 .. L /\ n \in 0 .. L /\ n - 1 <= n /\ n - 1 \in Nat
        BY <1>1
      <4>2. H[n - 1][Current] \in Nat
        BY <1>1, <4>1 DEF Heights
      <4>3. HeightFacts(H, hang) /\ n = L
        BY <1>1 DEF Given
      <4>4. \A i, j \in 0 .. L, m \in VM : i <= j => H[i][m] <= H[j][m]
        BY <4>3 DEF HeightFacts
      <4> QED BY <1>1, <4>1, <4>2, <4>3, <4>4
    <3>3. k = Current => x \in 1 .. H[n][Current]
      BY <1>12, <3>2
    <3> QED BY <1>12, <3>1, <3>3
  <2>2. \A d \in CallFrame : calls'[d] = calls[d] \/ Apart(H, n, d)
    BY <1>2, <1>6 DEF Apart, FreshCall
  <2>3. \A i \in 0 .. n - 1 : G[i] = H[i]
    BY DEF SetsHeight
  <2>4. /\ \A k \in 1 .. RunOf(n) : runs'[k] = runs[k]
        /\ \A i \in 1 .. n - 1 : Shrinks(stack_frames[i].frame)
    BY <1>2 DEF Shrinks
  <2>5. Undisturbed(H, G, n)
    BY <1>5, <2>1, <2>2, <2>3, <2>4 DEF Undisturbed
  <2>6. n <= L' /\ L' \in Nat
    BY <1>5
  <2> QED BY <1>1, <2>5, <2>6, KeptBelow DEF Known
<1>14. Known(G, hang, n)'
  <2>20. PICK l \in Nat : l = Len(open)
    BY <1>1
  <2>21. PICK top \in Nat : top = H[n][Current]
    BY <1>12
  <2>1. /\ stack_frames'[n].vm = Current /\ stack_frames'[n].frame = stack_frames[n].frame
        /\ stack_frames'[n].call_frame = stack_frames[n].call_frame
        /\ Len(stack_frames'[n].open) = l + 1
        /\ \A k \in 1 .. l : stack_frames'[n].open[k] = open[k]
        /\ stack_frames'[n].open[l + 1] = c
    <3>1. n \in 1 .. n
      BY <1>1
    <3>2. Append(open, c)[l + 1] = c /\ Len(Append(open, c)) = l + 1
          /\ \A k \in 1 .. l : Append(open, c)[k] = open[k]
      BY <1>1, <2>20
    <3> QED BY <1>1, <1>5, <3>1, <3>2 DEF SameBelow
  <2>2. /\ \A i \in 1 .. n : IsBase(i)' = IsBase(i) /\ RunOf(i)' = RunOf(i) /\ KindOf(i)' = KindOf(i)
        /\ n \in 1 .. n /\ (n > 1 => n - 1 \in 1 .. n)
    <3>1. \A i \in 1 .. n : i \in 0 .. n
      OBVIOUS
    <3> QED BY <1>1, <1>2, <1>5, <3>1, CountsBelow DEF KindOf
  <2>3. /\ Matched(n)' = Matched(n) /\ OpenHere(n)' = l + 1 /\ ~Waits(n)'
        /\ StartsFunction(n)' = StartsFunction(n) /\ IsFirst(n)' = IsFirst(n)
        /\ \A k \in VM : Held(n, k)' = Held(n, k)
    <3>1. Matched(n)' = Matched(n) /\ OpenHere(n)' = l + 1 /\ ~Waits(n)'
      BY <1>2, <1>5, <2>1 DEF Matched, OpenHere, Waits, Left
    <3>2. n > 1 => stack_frames'[n - 1].vm = stack_frames[n - 1].vm
      BY <1>5, <2>2 DEF SameBelow
    <3>3. StartsFunction(n)' = StartsFunction(n) /\ (n > 1 => StartsFunction(n - 1)' = StartsFunction(n - 1))
      BY <2>2 DEF StartsFunction
    <3> QED BY <2>2, <3>1, <3>2, <3>3 DEF IsFirst, Held
  <2>4. /\ Height(H, n) /\ TryPosition(H, n) /\ OpenHere(n) = l /\ ~StartsFunction(n)
        /\ stack_frames[n].vm = Current
    BY <1>1, <1>3, <2>20 DEF RunningFacts
  <2>22. /\ Matched(n) = 1 =>
              /\ call_frames[Current][top - l] = stack_frames[n].call_frame
              /\ calls[stack_frames[n].call_frame] = IF IsFirst(n) THEN "outer" ELSE "inner"
         /\ \A k \in 1 .. l : /\ call_frames[Current][(top - l) + k] = open[k]
                              /\ calls[open[k]] = "pending"
    <3>1. /\ Matched(n) = 1 =>
               /\ call_frames[Current][H[n][Current] - Len(open)] = stack_frames[n].call_frame
               /\ calls[stack_frames[n].call_frame] = IF IsFirst(n) THEN "outer" ELSE "inner"
          /\ \A k \in 1 .. Len(open) :
               /\ call_frames[Current][(H[n][Current] - Len(open)) + k] = open[k]
               /\ calls[open[k]] = "pending"
      <4>1. Matched(L) = 1 =>
              /\ call_frames[Current][H[L][Current] - Len(Top.open)] = Top.call_frame
              /\ calls[Top.call_frame] = IF IsFirst(L) THEN "outer" ELSE "inner"
        BY <1>3 DEF RunningFacts
      <4>2. \A k \in 1 .. Len(Top.open) :
              /\ call_frames[Current][(H[L][Current] - Len(Top.open)) + k] = Top.open[k]
              /\ calls[Top.open[k]] = "pending"
        BY <1>3 DEF RunningFacts
      <4> QED BY <1>1, <4>1, <4>2
    <3> QED BY <2>20, <2>21, <3>1
  <2>23. /\ ~IsBase(n) => top = H[n - 1][Current] + Matched(n) + l
         /\ IsBase(n) => top >= H[n - 1][Current] + l
         /\ IsBase(n) /\ "reentry" \in Features => top = H[n - 1][Current] + l
    BY <2>4, <2>21 DEF Height
  <2>24. tries[stack_frames[n].frame] # <<>> /\ ~tries[stack_frames[n].frame][1].caught =>
           tries[stack_frames[n].frame][1].cf_position =
             IF top - l = 0 THEN None ELSE call_frames[Current][top - l]
    BY <1>2, <2>4, <2>20, <2>21 DEF TryPosition, Left
  <2>5. G[n][Current] = top + 1 /\ G[n - 1] = H[n - 1] /\ Matched(n) \in Nat /\ top >= l
        /\ H[n - 1][Current] \in Nat /\ (Matched(n) = 1 => top - l \in 1 .. top)
    <3>1. n - 1 \in Nat /\ n - 1 # n
      BY <1>1
    <3>2. H[n][Current] - l \in Nat /\ H[n - 1][Current] <= H[n][Current] - l
          /\ (Matched(n) = 1 => H[n][Current] - l = H[n - 1][Current] + 1)
      <4>1. HeightFacts(H, hang)
        BY DEF Given
      <4> QED BY <1>1, <2>4, <4>1 DEF HeightFacts
    <3>3. H[n - 1][Current] \in Nat
      BY <1>1, <3>1 DEF Heights
    <3>4. G[n][Current] = top + 1 /\ G[n - 1] = H[n - 1]
      BY <2>21, <3>1 DEF SetsHeight
    <3>5. Matched(n) \in Nat
      BY DEF Matched
    <3>6. top - l \in Nat /\ (Matched(n) = 1 => top - l = H[n - 1][Current] + 1)
      BY <2>20, <2>21, <3>2
    <3> QED BY <3>3, <3>4, <3>5, <3>6
  <2>6. Height(G, n)'
    <3>1. \A k \in VM \ {Current} : G[n][k] = G[n - 1][k] + Held(n, k)
      BY <2>4, <2>5 DEF Height, SetsHeight
    <3>2. ~IsBase(n) => G[n][Current] = G[n - 1][Current] + Matched(n) + (l + 1)
      BY <2>5, <2>23
    <3>3. /\ IsBase(n) => G[n][Current] >= G[n - 1][Current] + (l + 1)
          /\ IsBase(n) /\ "reentry" \in Features => G[n][Current] = G[n - 1][Current] + (l + 1)
      BY <2>5, <2>23
    <3> QED BY <2>1, <2>2, <2>3, <3>1, <3>2, <3>3 DEF Height
  <2>7. /\ \A x \in 1 .. top : call_frames'[Current][x] = call_frames[Current][x]
        /\ call_frames'[Current][top + 1] = c
    BY <1>12, <2>21
  <2>8. Entry(G, hang, n)'
    <3>1. Matched(n) = 1 => call_frames'[Current][top - l] = stack_frames[n].call_frame
      BY <2>5, <2>7, <2>22
    <3>2. \A k \in 1 .. l + 1 : call_frames'[Current][(top - l) + k] = stack_frames'[n].open[k]
      <4> TAKE k \in 1 .. l + 1
      <4>1. CASE k = l + 1
        <5>1. (top - l) + k = top + 1
          BY <4>1
        <5> QED BY <2>1, <2>7, <4>1, <5>1
      <4>2. CASE k \in 1 .. l
        <5>1. (top - l) + k \in 1 .. top
          BY <2>5, <4>2
        <5> QED BY <2>1, <2>7, <2>22, <4>2, <5>1
      <4> QED BY <4>1, <4>2
    <3>3. ASSUME NEW k \in VM \ {Current}, Held(n, k) = 1
          PROVE  call_frames'[k][G[n][k]] = runs[RunOf(n)].call_frame
      <4>1. call_frames[k][H[n][k]] = runs[Len(runs)].call_frame
        BY <1>1, <1>3, <3>3 DEF RunningFacts
      <4>2. RunOf(n) = Len(runs)
        BY <1>1 DEF Given, TopFacts
      <4> QED BY <1>6, <3>3, <4>1, <4>2 DEF SetsHeight
    <3>4. G[n][Current] - (l + 1) = top - l
      BY <2>5
    <3> QED BY <1>2, <2>1, <2>2, <2>3, <3>1, <3>2, <3>3, <3>4, ZenonT(30) DEF Entry
  <2>9. TryPosition(G, n)'
    <3> DEFINE f == stack_frames[n].frame
    <3>2. top - l # 0 => top - l \in 1 .. top
      BY <2>5
    <3>3. G[n][Current] - (l + 1) = top - l
      BY <2>5
    <3>4. tries'[f] # <<>> /\ ~tries'[f][1].caught =>
            tries'[f][1].cf_position = IF top - l = 0 THEN None ELSE call_frames'[Current][top - l]
      BY <1>2, <2>7, <2>24, <3>2
    <3>5. stack_frames'[n].frame = f
      BY <2>1
    <3> HIDE DEF f
    <3> QED BY <2>1, <3>3, <3>4, <3>5 DEF TryPosition
  <2>10. OpenCalls(hang, n)'
    <3>1. ~LeavesArguments => l = 0
      <4>1. ~LeavesArguments => open = <<>>
        BY <1>1, <1>2 DEF MayRaise, InCall, LeavesArguments
      <4> QED BY <2>20, <4>1
    <3>2. ~StartsFunction(n)' /\ ~Waits(n)'
      BY <2>3, <2>4
    <3>3. LeavesArguments' = LeavesArguments /\ n = L' /\ mode' = "run"
      BY <1>2, <1>5 DEF LeavesArguments
    <3> HIDE DEF open
    <3> QED BY <2>1, <3>1, <3>2, <3>3 DEF OpenCalls
  <2>11. States(hang, n)'
    <3>1. Matched(n) = 1 => calls'[stack_frames[n].call_frame] = IF IsFirst(n) THEN "outer" ELSE "inner"
      <4>1. Matched(n) = 1 => /\ stack_frames[n].call_frame \in CallFrame
                              /\ calls[stack_frames[n].call_frame] # "free"
        <5>1. stack_frames[n].call_frame \in CallFrame \cup {None}
          BY <1>1 DEF Structure, StackFrame
        <5> QED BY <2>22, <5>1 DEF Matched
      <4> QED BY <1>2, <1>6, <2>22, <4>1 DEF FreshCall
    <3>2. \A k \in 1 .. l + 1 : calls'[stack_frames'[n].open[k]] = "pending"
      <4> TAKE k \in 1 .. l + 1
      <4>1. CASE k = l + 1
        BY <1>6, <2>1, <4>1
      <4>2. CASE k \in 1 .. l
        <5>1. open[k] \in CallFrame
          BY <1>1, <2>20, <4>2
        <5>2. calls[open[k]] = "pending" /\ stack_frames'[n].open[k] = open[k]
          BY <2>1, <2>22, <4>2
        <5> QED BY <1>6, <5>1, <5>2
      <4> QED BY <4>1, <4>2
    <3> QED BY <2>1, <2>3, <3>1, <3>2 DEF States
  <2> QED BY <2>6, <2>8, <2>9, <2>10, <2>11 DEF Known
<1>15. Lengths(G, hang)'
  <2>1. Lengths(H, hang) /\ Current' = Current
    BY <1>1, <1>2 DEF CallsInv, Current
  <2> SUFFICES ASSUME NEW m \in VM
               PROVE  /\ G[n][m] <= Len(call_frames'[m])
                      /\ "reentry" \in Features \/ (\E i \in 1 .. n : stack_frames'[i].vm = m)
                           => G[n][m] = Len(call_frames'[m])
    BY <1>3, <1>5 DEF Lengths
  <2>2. CASE m = Current
    BY <1>12, <2>2 DEF SetsHeight
  <2>3. CASE m # Current
    <3>1. G[n][m] = H[n][m] /\ call_frames'[m] = call_frames[m]
      BY <1>6, <2>3 DEF SetsHeight
    <3>2. /\ H[n][m] <= Len(call_frames[m]) + 0
          /\ "reentry" \in Features \/ (\E i \in 1 .. n : stack_frames[i].vm = m)
               => H[n][m] = Len(call_frames[m]) + 0
      BY <1>1, <1>3, <2>1 DEF Lengths
    <3>3. Len(call_frames[m]) \in Nat
      BY DEF Given, TopFacts
    <3>4. \A i \in 1 .. n : stack_frames'[i].vm = stack_frames[i].vm
      BY <1>5 DEF SameBelow
    <3> QED BY <3>1, <3>2, <3>3, <3>4
  <2> QED BY <2>2, <2>3
<1>16. DistinctEntries' /\ DistinctHeld'
  <2>1. \A m \in VM : \A i \in 1 .. Len(call_frames[m]) : call_frames[m][i] # c
    BY <1>2 DEF FreshCall
  <2>2. DistinctEntries'
    <3> DEFINE M == {Current}
    <3>1. M \in SUBSET VM /\ (\E m \in VM : M = {m})
      BY <1>1
    <3>2. /\ \A m \in M : call_frames'[m] = Append(call_frames[m], c)
          /\ \A m \in VM \ M : call_frames'[m] = call_frames[m]
      BY <1>6
    <3>3. \A m \in M : \A i \in 1 .. Len(call_frames[m]) : call_frames[m][i] # c
      BY <1>1, <2>1
    <3>4. DistinctEntries
      BY <1>1 DEF CallsInv
    <3> HIDE DEF M
    <3> QED BY <1>1, <1>6, <2>1, <3>1, <3>2, <3>3, <3>4, DistinctAdded
  <2> QED BY <1>1, <1>2, <2>2 DEF CallsInv, DistinctHeld
<1>17. HeldCallFramesAlive' /\ OnTheWay(hang)'
  <2>1. \A d \in CallFrame : calls[d] = "outer" => calls'[d] = "outer"
    BY <1>2, <1>6 DEF FreshCall
  <2>2. \A k \in 1 .. Len(runs) : runs[k].call_frame # None => calls'[runs[k].call_frame] = "outer"
    <3> TAKE k \in 1 .. Len(runs)
    <3>1. runs[k].call_frame \in CallFrame \cup {None}
      BY <1>1 DEF Structure, Activation
    <3> QED BY <1>3, <2>1, <3>1 DEF RunningFacts
  <2>3. Len(runs) \in 1 .. Len(runs) /\ \A k \in 1 .. Len(runs) - 1 : k \in 1 .. Len(runs)
    BY <1>1 DEF Structure
  <2>4. HeldCallFramesAlive'
    BY <1>2, <2>2, <2>3 DEF HeldCallFramesAlive, Last
  <2> QED BY <1>2, <1>3, <2>4 DEF OnTheWay
<1>18. CallsHold'
  BY <1>5, <1>13, <1>14, <1>15, <1>16, <1>17, CallsAgain
<1> QED BY <1>7, <1>8, <1>9, <1>10, <1>18 DEF IInv

-----------------------------------------------------------------------------
(* BuildClass: the body of a class has a frame.                            *)

\* BuildClass keeps the invariant: the new frame is matched with no call
\* frame.
LEMMA BeginClassStep ==
  ASSUME IInv, WorkingFeatures, NEW f \in Frame, BeginClass(f)
  PROVE  IInv'
<1>1. PICK H \in Heights, hang \in BOOLEAN, n \in Nat : Given(H, hang, n)
  BY GivenHolds
<1>2. /\ mode = "run" /\ mode' = "run" /\ ~InCall /\ Fresh(f)
      /\ PushFrames(Current, <<f>>, None, stack_frames)
      /\ UNCHANGED <<call_frames, calls, tries, runs, imports, loaded, raised, by_call>>
  BY DEF BeginClass, AtStatement
<1>3. PICK l \in Nat, top \in Nat : RunningNow(H, hang, n, l, top)
  BY <1>1, <1>2, RunningIs
<1>4. /\ StacksTyped /\ StackInv /\ TriesInv /\ Structure /\ CallsInv(H, hang) /\ n = L
      /\ n \in 1 .. L /\ n \in Nat \ {0} /\ stack_frames \in Seq(StackFrame)
      /\ \A m \in VM : H[n][m] \in Nat
  BY <1>1 DEF Given, Heights
<1>5. ~hang /\ l = 0 /\ Len(stack_frames[n].open) = 0
      /\ stack_frames[n].open = <<>> /\ stack_frames[n].vm = Current /\ Current \in VM
      /\ ~StartsFunction(n)
  BY <1>2, <1>3 DEF RunningNow, InCall
<1>6. /\ StacksTyped' /\ StackInv' /\ TriesInv' /\ TriesOfLoaded'
      /\ L' = n + 1 /\ SameBelow(n) /\ stack_frames'[n + 1] = NewFrame(f, Current, None)
      /\ \A i \in 1 .. n : stack_frames'[i] = stack_frames[i]
      /\ tries'[f] = <<>>
  <2>1. SameShape(stack_frames, stack_frames)
    BY DEF SameShape
  <2>2. call_frames' \in [VM -> Seq(CallFrame)] /\ calls' \in [CallFrame -> CallState]
    BY <1>2, <1>4 DEF StacksTyped
  <2> QED BY <1>1, <1>2, <1>4, <2>1, <2>2, FramePushed, ZenonT(30)
<1>7. PICK G \in Heights : G[n + 1] = H[n] /\ \A i \in Nat : i # n + 1 => G[i] = H[i]
  <2>1. PICK k \in Nat : k = n + 1
    BY <1>4
  <2>2. H[n] \in Row /\ H[k + 1] \in Row
    BY DEF Heights, Row
  <2>3. PICK G \in Heights : RowsAre(H, G, k, H[n], H[k + 1])
    BY <2>2, RowsSet
  <2>4. \A i \in Nat : i # k => G[i] = H[i]
    BY <2>3 DEF RowsAre
  <2> QED BY <2>1, <2>3, <2>4 DEF RowsAre
<1>8. \A i \in 1 .. n - 1 : Known(G, hang, i)'
  <2>1. Undisturbed(H, G, n)
    BY <1>2, <1>6, <1>7 DEF Undisturbed, SameOpen, Shrinks
  <2>2. n <= L' /\ L' \in Nat
    BY <1>6
  <2> QED BY <1>4, <2>1, <2>2, KeptBelow DEF Known
<1>9. Known(G, hang, n)'
  <2>1. G[n] = H[n] /\ G[n - 1] = H[n - 1]
    BY <1>4, <1>7
  <2>2. KeepsPlace(H, G, n, 0)
    <3>1. (H[n][stack_frames[n].vm] - Len(stack_frames[n].open)) + 0 = H[n][stack_frames[n].vm]
      BY <1>4, <1>5
    <3>2. n <= L' /\ L' \in Nat
      BY <1>6
    <3>3. stack_frames'[n] = stack_frames[n]
      BY <1>4, <1>6
    <3> QED BY <1>2, <1>5, <1>6, <2>1, <3>1, <3>2, <3>3 DEF KeepsPlace, Left
  <2>3. KeepsCalls(H, G, hang, hang, n, 0)
    BY <1>2, <1>5 DEF KeepsCalls
  <2>4. OpenCalls(hang, n)'
    <3>1. stack_frames'[n].open = <<>> /\ n < L' /\ n # L' /\ ~IsBase(n + 1)'
      BY <1>4, <1>5, <1>6, CallStackAssumption DEF IsBase, NewFrame
    <3> QED BY <3>1 DEF OpenCalls, Waits
  <2>5. Shrinks(stack_frames[n].frame)
    BY <1>2 DEF Shrinks
  <2> QED BY <1>1, <1>4, <2>2, <2>3, <2>4, <2>5, KeptFrame
<1>10. Known(G, hang, n + 1)'
  <2>1. PICK k \in Nat \ {0} : k = n + 1
    BY <1>4
  <2>2. \A x \in VM : x # Current => G[k][x] = G[k - 1][x]
    BY <1>4, <1>7, <2>1
  <2>3. G[k][Current] = G[k - 1][Current] + 0
    BY <1>4, <1>5, <1>7, <2>1
  <2>4. Known(G, hang, k)'
    BY <1>2, <1>5, <1>6, <2>1, <2>2, <2>3, NewFunction DEF Left
  <2> QED BY <2>1, <2>4
<1>11. Lengths(G, hang)'
  <2>1. \A i \in 1 .. n + 1 : \E j \in 1 .. n : stack_frames'[i].vm = stack_frames[j].vm
    <3> TAKE i \in 1 .. n + 1
    <3>1. CASE i \in 1 .. n
      BY <1>6, <3>1
    <3>2. CASE i = n + 1
      BY <1>4, <1>5, <1>6, <3>2 DEF NewFrame
    <3> QED BY <1>4, <3>1, <3>2
  <2>2. n + 1 \in Nat /\ \A m \in VM : G[n + 1][m] = H[n][m] /\ call_frames'[m] = call_frames[m]
    BY <1>2, <1>7
  <2>3. PICK k \in Nat : k = n + 1
    BY <1>4
  <2> QED BY <1>1, <1>5, <1>6, <2>1, <2>2, <2>3, LengthsKept
<1>12. DistinctEntries' /\ DistinctHeld'
  BY <1>2, <1>4 DEF CallsInv, DistinctEntries, DistinctHeld
<1>13. HeldCallFramesAlive' /\ OnTheWay(hang)'
  BY <1>2, <1>3, <1>4, <1>5, HeldKept DEF OnTheWay, RunningNow
<1>14. CallsHold'
  <2>1. n + 1 \in Nat /\ \A i \in 1 .. (n + 1) - 1 : Known(G, hang, i)'
    BY <1>4, <1>8, <1>9
  <2> QED BY <1>6, <1>10, <1>11, <1>12, <1>13, <2>1, CallsAgain
<1> QED BY <1>6, <1>14 DEF IInv

-----------------------------------------------------------------------------
(* Call of a function of the same VM.                                      *)

\* The call frame that a Call finds on top is that of its arguments.
AtCallFacts(n, l, top) ==
  /\ l \in Nat \ {0} /\ top \in Nat \ {0} /\ TopCall = call_frames[Current][top]
  /\ TopCall = stack_frames[n].open[l] /\ TopCall \in CallFrame /\ calls[TopCall] = "pending"
  /\ Front(stack_frames[n].open) \in Seq(CallFrame) /\ Len(Front(stack_frames[n].open)) = l - 1
  /\ \A k \in 1 .. l - 1 : /\ k \in 1 .. l
                           /\ Front(stack_frames[n].open)[k] = stack_frames[n].open[k]
                           /\ stack_frames[n].open[k] # TopCall
  /\ stack_frames[n].call_frame # None => stack_frames[n].call_frame # TopCall

\* The call frame is the last entry, and no other open call of the frame.
LEMMA AtCallIs ==
  ASSUME NEW H \in Heights, NEW hang \in BOOLEAN, NEW n \in Nat, Given(H, hang, n), AtCall,
         NEW l \in Nat, NEW top \in Nat, RunningNow(H, hang, n, l, top)
  PROVE  AtCallFacts(n, l, top)
<1>1. /\ stack_frames[n].open # <<>> /\ TopCall = Last(stack_frames[n].open)
      /\ stack_frames[n].open \in Seq(CallFrame) /\ l = Len(stack_frames[n].open)
      /\ call_frames[Current] \in Seq(CallFrame) /\ top = Len(call_frames[Current]) /\ top >= l
      /\ Current \in VM
  BY DEF AtCall, InCall, RunningNow
<1>2. l \in Nat \ {0} /\ top \in Nat \ {0}
  <2>1. l \in Nat \ {0}
    BY <1>1
  <2> QED BY <1>1, <2>1
<1>3. TopCall = call_frames[Current][top] /\ TopCall = stack_frames[n].open[l]
  <2>1. call_frames[Current] # <<>>
    BY <1>1, <1>2
  <2> QED BY <1>1, <2>1 DEF TopCall, Last
<1>4. l \in 1 .. l /\ TopCall \in CallFrame /\ calls[TopCall] = "pending"
  <2>1. l \in 1 .. l
    BY <1>2
  <2> QED BY <1>3, <2>1 DEF RunningNow
<1>5. /\ Front(stack_frames[n].open) \in Seq(CallFrame) /\ Len(Front(stack_frames[n].open)) = l - 1
      /\ \A k \in 1 .. l - 1 : Front(stack_frames[n].open)[k] = stack_frames[n].open[k]
  <2>1. l - 1 \in 0 .. Len(stack_frames[n].open) /\ l - 1 = Len(stack_frames[n].open) - 1
    BY <1>1, <1>2
  <2> QED BY <1>1, <2>1, Prefix, SMTT(30) DEF Front
<1>6. \A k \in 1 .. l - 1 : k \in 1 .. l /\ stack_frames[n].open[k] # TopCall
  <2> TAKE k \in 1 .. l - 1
  <2>1. k \in 1 .. l /\ (top - l) + k \in 1 .. top /\ (top - l) + k # top /\ top \in 1 .. top
    <3>1. top >= l
      BY <1>1
    <3>2. k \in Nat /\ 1 <= k /\ k < l
      BY <1>2
    <3>3. (top - l) + k < top /\ (top - l) + k >= 1 /\ (top - l) + k \in Nat
      BY <3>1, <3>2
    <3> QED BY <1>2, <3>2, <3>3
  <2>2. call_frames[Current][(top - l) + k] = stack_frames[n].open[k]
    BY <2>1 DEF RunningNow
  <2>3. DistinctEntries
    BY DEF Given, CallsInv
  <2>4. call_frames[Current][(top - l) + k] # call_frames[Current][top]
    BY <1>1, <2>1, <2>3 DEF DistinctEntries
  <2> QED BY <1>3, <2>1, <2>2, <2>4
<1>7. stack_frames[n].call_frame # None => stack_frames[n].call_frame # TopCall
  <2>1. stack_frames[n].call_frame # None => calls[stack_frames[n].call_frame] \in {"outer", "inner"}
    BY DEF RunningNow, Matched
  <2> QED BY <1>4, <2>1
<1> QED BY <1>2, <1>3, <1>4, <1>5, <1>6, <1>7 DEF AtCallFacts

\* Call of a function of the same VM keeps the invariant: the open call
\* becomes the call frame of the new frame.
LEMMA CallFunctionStep ==
  ASSUME IInv, WorkingFeatures, NEW f \in Frame, CallFunction(f)
  PROVE  IInv'
<1>1. PICK H \in Heights, hang \in BOOLEAN, n \in Nat : Given(H, hang, n)
  BY GivenHolds
<1>2. /\ mode = "run" /\ mode' = "run" /\ AtCall /\ Fresh(f)
      /\ PushFrames(Current, <<f>>, TopCall, WithOpen(stack_frames, Front(Top.open)))
      /\ calls' = [calls EXCEPT ![TopCall] = "inner"]
      /\ UNCHANGED <<call_frames, tries, runs, imports, loaded, raised, by_call>>
  BY DEF CallFunction, AtCall
<1>3. PICK l \in Nat, top \in Nat : RunningNow(H, hang, n, l, top)
  BY <1>1, <1>2, RunningIs
<1>4. AtCallFacts(n, l, top)
  BY <1>1, <1>2, <1>3, AtCallIs
<1>5. /\ StacksTyped /\ StackInv /\ TriesInv /\ Structure /\ CallsInv(H, hang) /\ n = L
      /\ n \in 1 .. L /\ n \in Nat \ {0} /\ n - 1 \in Nat
      /\ stack_frames \in Seq(StackFrame) /\ Len(stack_frames) = n /\ stack_frames # <<>>
      /\ \A m \in VM : H[n][m] \in Nat
  BY <1>1 DEF Given, Heights
<1>6. /\ ~hang /\ Len(stack_frames[n].open) = l /\ Top = stack_frames[n]
      /\ stack_frames[n].vm = Current /\ Current \in VM /\ ~StartsFunction(n)
      /\ top = H[n][Current] /\ top >= l
  BY <1>3 DEF RunningNow
<1> DEFINE s == WithOpen(stack_frames, Front(stack_frames[n].open))
<1>7. /\ s \in Seq(StackFrame) /\ Len(s) = n
      /\ \A i \in 1 .. n - 1 : s[i] = stack_frames[i]
      /\ \A i \in 1 .. n : /\ s[i].frame = stack_frames[i].frame /\ s[i].vm = stack_frames[i].vm
                           /\ s[i].call_frame = stack_frames[i].call_frame
      /\ s[n].open = Front(stack_frames[n].open)
  <2>1. Front(stack_frames[n].open) \in Seq(CallFrame)
    BY <1>4 DEF AtCallFacts
  <2>2. OpenIs(stack_frames, Front(stack_frames[n].open))
    BY <1>5, <2>1, WithOpenAre
  <2> QED BY <1>5, <2>2 DEF OpenIs
<1>8. PICK c \in CallFrame : c = TopCall
  BY <1>4 DEF AtCallFacts
<1>9. /\ calls' \in [CallFrame -> CallState] /\ calls'[c] = "inner" /\ calls[c] = "pending"
      /\ \A d \in CallFrame : d # c => calls'[d] = calls[d]
  <2>1. "inner" \in CallState
    BY DEF CallState
  <2> QED BY <1>2, <1>4, <1>5, <1>8, <2>1 DEF StacksTyped, AtCallFacts
<1>10. /\ StacksTyped' /\ StackInv' /\ TriesInv' /\ TriesOfLoaded'
       /\ L' = n + 1 /\ SameBelow(n) /\ stack_frames'[n + 1] = NewFrame(f, Current, c)
       /\ \A i \in 1 .. n : stack_frames'[i] = s[i]
       /\ tries'[f] = <<>>
  <2>1. SameShape(s, stack_frames)
    BY <1>5, <1>7 DEF SameShape
  <2>2. call_frames' \in [VM -> Seq(CallFrame)]
    BY <1>2, <1>5 DEF StacksTyped
  <2>3. PushFrames(Current, <<f>>, c, s)
    BY <1>2, <1>6, <1>8
  <2> HIDE DEF s
  <2> QED BY <1>1, <1>2, <1>5, <1>7, <1>9, <2>1, <2>2, <2>3, FramePushed
<1>11. /\ stack_frames'[n].open = Front(stack_frames[n].open)
       /\ Len(stack_frames'[n].open) = l - 1 /\ l - 1 \in Nat /\ top - 1 \in Nat
       /\ \A k \in 1 .. l - 1 : stack_frames'[n].open[k] = stack_frames[n].open[k]
       /\ SameOpen(n - 1)
  <2>1. stack_frames'[n] = s[n]
    BY <1>5, <1>10
  <2>2. SameOpen(n - 1)
    <3>1. \A i \in 1 .. n - 1 : i \in 1 .. n
      BY <1>5
    <3> QED BY <1>7, <1>10, <3>1 DEF SameOpen
  <2>3. l - 1 \in Nat /\ top - 1 \in Nat
    BY <1>4 DEF AtCallFacts
  <2> QED BY <1>4, <1>7, <2>1, <2>2, <2>3 DEF AtCallFacts
<1>12. PICK G \in Heights :
         /\ \A i \in Nat : i # n /\ i # n + 1 => G[i] = H[i]
         /\ \A k \in VM : k # Current => G[n][k] = H[n][k]
         /\ G[n][Current] = top - 1 /\ G[n + 1] = H[n]
  <2>1. [H[n] EXCEPT ![Current] = top - 1] \in Row /\ H[n] \in Row
    BY <1>6, <1>11 DEF Heights, Row
  <2>2. PICK r \in Row : r = [H[n] EXCEPT ![Current] = top - 1]
    BY <2>1
  <2>3. PICK G \in Heights : RowsAre(H, G, n, r, H[n])
    BY <2>1, RowsSet
  <2> QED BY <1>6, <2>1, <2>2, <2>3 DEF RowsAre, Row
<1>13. \A i \in 1 .. n - 1 : Known(G, hang, i)'
  <2>1. \A d \in CallFrame : calls'[d] = calls[d] \/ Apart(H, n, d)
    <3>1. Apart(H, n, c)
      <4>1. H[n - 1][Current] <= top - l /\ H[n - 1][Current] \in Nat
        <5>1. H[n - 1][Current] <= H[n][Current] - OpenHere(n) /\ OpenHere(n) = l
          BY <1>1, <1>2, <1>5, <1>6 DEF Given, HeightFacts, OpenHere, Left
        <5>2. H[n - 1][Current] \in Nat
          BY <1>5, <1>6 DEF Heights
        <5> QED BY <1>6, <5>1, <5>2
      <4>2. top \in H[n - 1][Current] + 1 .. top
        BY <1>4, <1>6, <4>1, SMTT(30) DEF AtCallFacts
      <4>3. top = Len(call_frames[Current]) /\ call_frames[Current][top] = c
        BY <1>3, <1>4, <1>8 DEF RunningNow, AtCallFacts
      <4> QED BY <1>9, <4>2, <4>3 DEF Apart
    <3> QED BY <1>9, <3>1
  <2>2. \A i \in 0 .. n - 1 : G[i] = H[i]
    BY <1>5, <1>12
  <2>3. Undisturbed(H, G, n)
    BY <1>2, <1>10, <1>11, <2>1, <2>2 DEF Undisturbed, Shrinks
  <2>4. n <= L' /\ L' \in Nat
    BY <1>10
  <2> QED BY <1>5, <2>3, <2>4, KeptBelow DEF Known
<1>14. Known(G, hang, n)'
  <2>1. PICK o \in Nat : o = l - 1
    BY <1>11
  <2>2. KeepsPlace(H, G, n, o)
    <3>1. (H[n][Current] - l) + o = top - 1 /\ o <= l
      <4>1. l \in Nat \ {0}
        BY <1>4 DEF AtCallFacts
      <4>2. top = H[n][Current]
        BY <1>6
      <4>3. (top - l) + o = top - 1 /\ o <= l
        BY <2>1, <4>1
      <4> QED BY <4>2, <4>3
    <3>2. n <= L' /\ L' \in Nat
      BY <1>10
    <3>3. G[n - 1] = H[n - 1]
      BY <1>5, <1>12
    <3>4. ~Left /\ ~Left' /\ \A k \in 1 .. RunOf(n) : runs'[k] = runs[k]
      BY <1>2 DEF Left
    <3> QED BY <1>6, <1>10, <1>11, <1>12, <2>1, <3>1, <3>2, <3>3, <3>4 DEF KeepsPlace
  <2>3. KeepsCalls(H, G, hang, hang, n, o)
    <3>1. stack_frames[n].call_frame # None =>
            calls'[stack_frames[n].call_frame] = calls[stack_frames[n].call_frame]
      <4>1. stack_frames[n].call_frame \in CallFrame \cup {None}
        BY <1>3 DEF RunningNow
      <4> QED BY <1>4, <1>8, <1>9, <4>1 DEF AtCallFacts
    <3>2. \A k \in 1 .. o : calls'[stack_frames[n].open[k]] = "pending"
      <4> TAKE k \in 1 .. o
      <4>1. k \in 1 .. l /\ stack_frames[n].open[k] # c
        BY <1>4, <1>8, <2>1 DEF AtCallFacts
      <4>2. stack_frames[n].open[k] \in CallFrame /\ calls[stack_frames[n].open[k]] = "pending"
        BY <1>3, <4>1 DEF RunningNow
      <4> QED BY <1>9, <4>1, <4>2
    <3> QED BY <1>2, <1>6, <3>1, <3>2 DEF KeepsCalls
  <2>4. OpenCalls(hang, n)'
    <3>1. n < L' /\ n # L' /\ ~IsBase(n + 1)'
      BY <1>5, <1>6, <1>10, CallStackAssumption DEF IsBase, NewFrame
    <3>2. ~StartsFunction(n)' /\ ~Waits(n)'
      <4>1. IsBase(n)' = IsBase(n) /\ RunOf(n)' = RunOf(n)
        <5>1. n \in 0 .. n /\ n \in 1 .. n
          BY <1>5
        <5> QED BY <1>10, <5>1, CountsBelow
      <4> QED BY <1>2, <1>6, <3>1, <4>1 DEF StartsFunction, Waits, KindOf
    <3>3. ~LeavesArguments' => l - 1 = 0
      <4>1. LeavesArguments' = LeavesArguments
        BY DEF LeavesArguments
      <4>2. l \in Nat \ {0}
        BY <1>4 DEF AtCallFacts
      <4>3. ~LeavesArguments => l <= 1
        BY <1>3 DEF RunningNow
      <4>4. l <= 1 => l - 1 = 0
        BY <4>2
      <4> QED BY <4>1, <4>3, <4>4
    <3>4. ~LeavesArguments' => stack_frames'[n].open = <<>> /\ Len(stack_frames'[n].open) <= 1
      <4>1. stack_frames'[n].open \in Seq(CallFrame)
        BY <1>4, <1>11 DEF AtCallFacts
      <4> QED BY <1>11, <3>3, <4>1
    <3> QED BY <3>1, <3>2, <3>4 DEF OpenCalls
  <2>5. Shrinks(stack_frames[n].frame)
    BY <1>2 DEF Shrinks
  <2> QED BY <1>1, <1>5, <2>2, <2>3, <2>4, <2>5, KeptFrame
<1>15. Known(G, hang, n + 1)'
  <2>1. PICK k \in Nat \ {0} : k = n + 1
    BY <1>5
  <2>2. k - 1 = n /\ k - 1 # k
    BY <1>5, <2>1
  <2>3. \A x \in VM : x # Current => G[k][x] = G[k - 1][x]
    BY <1>12, <2>1, <2>2
  <2>4. G[k][Current] = G[k - 1][Current] + 1 /\ G[k][Current] = top
    BY <1>4, <1>6, <1>12, <2>1, <2>2, SMTT(30) DEF AtCallFacts
  <2>5. call_frames'[Current][top] = c
    BY <1>2, <1>4, <1>8 DEF AtCallFacts
  <2>6. ~IsFirst(k)'
    <3>1. IsBase(n)' = IsBase(n) /\ RunOf(n)' = RunOf(n)
      <4>1. n \in 0 .. n /\ n \in 1 .. n
        BY <1>5
      <4> QED BY <1>10, <4>1, CountsBelow
    <3> QED BY <1>2, <1>6, <2>2, <3>1 DEF IsFirst, StartsFunction, KindOf
  <2>7. c # None
    BY CallStackAssumption
  <2>8. Known(G, hang, k)'
    BY <1>2, <1>6, <1>9, <1>10, <2>1, <2>3, <2>4, <2>5, <2>6, <2>7, NewFunction DEF Left
  <2> QED BY <2>1, <2>8
<1>16. Lengths(G, hang)'
  <2>1. \A i \in 1 .. n + 1 : \E j \in 1 .. n : stack_frames'[i].vm = stack_frames[j].vm
    <3> TAKE i \in 1 .. n + 1
    <3>1. CASE i \in 1 .. n
      BY <1>7, <1>10, <3>1
    <3>2. CASE i = n + 1
      BY <1>5, <1>6, <1>10, <3>2 DEF NewFrame
    <3> QED BY <1>5, <3>1, <3>2
  <2>2. n + 1 \in Nat /\ \A m \in VM : G[n + 1][m] = H[n][m] /\ call_frames'[m] = call_frames[m]
    BY <1>2, <1>12
  <2>3. PICK k \in Nat : k = n + 1
    BY <1>5
  <2>4. /\ Given(H, hang, n) /\ ~hang /\ G \in Heights /\ L' = k
        /\ \A m \in VM : G[k][m] = H[n][m] /\ call_frames'[m] = call_frames[m]
        /\ \A i \in 1 .. k : \E j \in 1 .. n : stack_frames'[i].vm = stack_frames[j].vm
    BY <1>1, <1>6, <1>10, <2>1, <2>2, <2>3
  <2> QED BY <2>4, LengthsKept
<1>17. DistinctEntries' /\ DistinctHeld'
  <2>1. DistinctEntries'
    <3>1. ASSUME NEW m \in VM, NEW i \in 1 .. Len(call_frames'[m])
          PROVE  /\ call_frames'[m][i] = call_frames[m][i]
                 /\ calls'[call_frames[m][i]] \in {"pending", "inner"} =>
                      calls[call_frames[m][i]] \in {"pending", "inner"}
      <4>1. call_frames[m] \in Seq(CallFrame)
        BY <1>5 DEF StacksTyped
      <4>2. call_frames[m][i] \in CallFrame
        BY <1>2, <3>1, <4>1
      <4> QED BY <1>2, <1>9, <4>2
    <3>2. \A m \in VM : Len(call_frames[m]) \in Nat
      BY <1>1 DEF Given, TopFacts
    <3>3. \A m \in VM : Len(call_frames'[m]) \in 0 .. Len(call_frames[m])
      BY <1>2, <3>2
    <3>4. DistinctEntries
      BY <1>5 DEF CallsInv
    <3> QED BY <3>1, <3>2, <3>3, <3>4, DistinctKept
  <2> QED BY <1>2, <1>5, <2>1 DEF CallsInv, DistinctHeld
<1>18. HeldCallFramesAlive' /\ OnTheWay(hang)'
  <2>1. \A d \in CallFrame : calls[d] = "outer" => calls'[d] = "outer"
    BY <1>9
  <2> QED BY <1>2, <1>3, <1>5, <1>6, <2>1, HeldKept DEF OnTheWay, RunningNow
<1>19. CallsHold'
  <2>1. n + 1 \in Nat /\ \A i \in 1 .. (n + 1) - 1 : Known(G, hang, i)'
    BY <1>5, <1>13, <1>14
  <2> QED BY <1>10, <1>15, <1>16, <1>17, <1>18, <2>1, CallsAgain
<1> QED BY <1>10, <1>19 DEF IInv
==============================================================================
