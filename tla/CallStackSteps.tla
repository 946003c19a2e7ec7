--------------------------- MODULE CallStackSteps ----------------------------
(***************************************************************************)
(* The invariant of CallStack is kept by the actions that end native calls  *)
(* and raise exceptions, that begin and end tries, by returns and the ends *)
(* of class bodies, and by the ends of runs.                               *)
(***************************************************************************)
EXTENDS CallStackLemmas

-----------------------------------------------------------------------------
(* CallNative and RaiseInCall: the call frame of a Call is popped.         *)

\* The list of the VM v is without its last entry, which is free.
CallPopped(v, c, top) ==
  /\ call_frames' \in [VM -> Seq(CallFrame)] /\ calls' \in [CallFrame -> CallState]
  /\ Len(call_frames'[v]) = top - 1 /\ top - 1 \in Nat
  /\ \A k \in VM, x \in Nat :
       1 <= x /\ (k = v => x < top) => call_frames'[k][x] = call_frames[k][x]
  /\ \A k \in VM : k # v => call_frames'[k] = call_frames[k]
  /\ calls'[c] = "free" /\ \A d \in CallFrame : d # c => calls'[d] = calls[d]
  /\ DistinctEntries'

\* pop_call_frame, once.
LEMMA CallIsPopped ==
  ASSUME NEW H \in Heights, NEW hang \in BOOLEAN, NEW n \in Nat, Given(H, hang, n),
         NEW v \in VM, NEW top \in Nat, top = Len(call_frames[v]),
         NEW c \in CallFrame, top # 0, call_frames[v][top] = c, PopCallFrames(v, 1)
  PROVE  CallPopped(v, c, top)
<1>1. StacksTyped /\ DistinctEntries /\ \A m \in VM : Len(call_frames[m]) \in Nat
  BY DEF Given, TopFacts, CallsInv
<1>2. /\ call_frames' \in [VM -> Seq(CallFrame)] /\ calls' \in [CallFrame -> CallState]
      /\ Len(call_frames'[v]) = top - 1
      /\ \A i \in 1 .. top - 1 : call_frames'[v][i] = call_frames[v][i]
      /\ \A k \in VM : k # v => call_frames'[k] = call_frames[k]
      /\ \A d \in CallFrame :
           calls'[d] = IF \E i \in top - 1 + 1 .. top : call_frames[v][i] = d
                       THEN "free" ELSE calls[d]
  BY <1>1, PopCallFramesIs
<1>3. calls'[c] = "free" /\ \A d \in CallFrame : d # c => calls'[d] = calls[d]
  <2>1. \A i : i \in top - 1 + 1 .. top <=> i = top
    OBVIOUS
  <2> QED BY <1>2, <2>1
<1>4. \A k \in VM, x \in Nat :
        1 <= x /\ (k = v => x < top) => call_frames'[k][x] = call_frames[k][x]
  <2> TAKE k \in VM, x \in Nat
  <2> HAVE 1 <= x /\ (k = v => x < top)
  <2>1. k = v => x \in 1 .. top - 1
    OBVIOUS
  <2> QED BY <1>2, <2>1
<1>5. DistinctEntries'
  <2>1. \A m \in VM : Len(call_frames'[m]) \in 0 .. Len(call_frames[m])
    BY <1>1, <1>2
  <2>2. ASSUME NEW m \in VM, NEW i \in 1 .. Len(call_frames'[m])
        PROVE  /\ call_frames'[m][i] = call_frames[m][i]
               /\ calls'[call_frames[m][i]] \in {"pending", "inner"} =>
                    calls[call_frames[m][i]] \in {"pending", "inner"}
    <3>1. call_frames[m] \in Seq(CallFrame) /\ i \in 1 .. Len(call_frames[m])
      BY <1>1, <2>1 DEF StacksTyped
    <3>2. call_frames[m][i] \in CallFrame
      BY <3>1
    <3>4. i \in Nat /\ 1 <= i /\ (m = v => i < top)
      <4>1. m = v => i \in 1 .. top - 1
        BY <1>2, <2>2
      <4> QED BY <4>1
    <3>5. call_frames'[m][i] = call_frames[m][i]
      BY <1>4, <3>4
    <3> QED BY <1>3, <3>2, <3>5
  <2> QED BY <1>1, <2>1, <2>2, DistinctKept
<1>6. top - 1 \in Nat
  OBVIOUS
<1> QED BY <1>2, <1>3, <1>4, <1>5, <1>6 DEF CallPopped

\* The call frame of a Call is none that the frames below refer to.
LEMMA TopCallApart ==
  ASSUME NEW H \in Heights, NEW hang \in BOOLEAN, NEW n \in Nat, Given(H, hang, n), mode = "run",
         NEW l \in Nat, NEW top \in Nat, RunningNow(H, hang, n, l, top), AtCallFacts(n, l, top)
  PROVE  H[n - 1][Current] \in Nat /\ H[n - 1][Current] < top /\ Apart(H, n, TopCall)
<1>1. n = L /\ n \in 1 .. L /\ n - 1 \in Nat /\ HeightFacts(H, hang)
  BY DEF Given
<1>2. /\ top = H[n][Current] /\ l = Len(stack_frames[n].open) /\ stack_frames[n].vm = Current
      /\ Current \in VM /\ top = Len(call_frames[Current]) /\ top >= l
  BY DEF RunningNow
<1>3. l \in Nat \ {0} /\ TopCall = call_frames[Current][top] /\ calls[TopCall] = "pending"
  BY DEF AtCallFacts
<1>4. H[n - 1][Current] <= top - l /\ H[n - 1][Current] \in Nat
  <2>1. H[n - 1][Current] <= H[n][Current] - OpenHere(n) /\ OpenHere(n) = l
    BY <1>1, <1>2 DEF HeightFacts, OpenHere, Left
  <2>2. H[n - 1][Current] \in Nat
    BY <1>1, <1>2 DEF Heights
  <2> QED BY <1>2, <2>1, <2>2
<1>5. H[n - 1][Current] < top /\ top \in H[n - 1][Current] + 1 .. top
  <2>1. PICK h \in Nat : h = H[n - 1][Current]
    BY <1>4
  <2>2. h <= top - l /\ l \in Nat \ {0} /\ top >= l
    BY <1>2, <1>3, <1>4, <2>1
  <2>3. h < top /\ top \in h + 1 .. top
    BY <2>2
  <2> QED BY <2>1, <2>3
<1> QED BY <1>2, <1>3, <1>4, <1>5 DEF Apart

\* Call of a native function keeps the invariant.
LEMMA CallNativeStep ==
  ASSUME IInv, WorkingFeatures, CallNative
  PROVE  IInv'
<1>1. PICK H \in Heights, hang \in BOOLEAN, n \in Nat : Given(H, hang, n)
  BY GivenHolds
<1>2. /\ mode = "run" /\ mode' = "run" /\ AtCall /\ PopCallFrames(Current, 1)
      /\ stack_frames' = WithOpen(stack_frames, Front(Top.open))
      /\ UNCHANGED <<frames, tries, runs, imports, loaded, raised, by_call>>
  BY DEF CallNative, AtCall
<1>3. PICK l \in Nat, top \in Nat : RunningNow(H, hang, n, l, top)
  BY <1>1, <1>2, RunningIs
<1>4. AtCallFacts(n, l, top)
  BY <1>1, <1>2, <1>3, AtCallIs
<1>5. /\ StacksTyped /\ StackInv /\ TriesInv /\ TriesOfLoaded /\ Structure /\ CallsInv(H, hang) /\ n = L
      /\ n \in 1 .. L /\ n \in Nat \ {0} /\ n - 1 \in Nat
      /\ stack_frames \in Seq(StackFrame) /\ Len(stack_frames) = n /\ stack_frames # <<>>
      /\ \A m \in VM : H[n][m] \in Nat
  BY <1>1 DEF Given, Heights
<1>6. /\ ~hang /\ Len(stack_frames[n].open) = l /\ Top = stack_frames[n]
      /\ stack_frames[n].vm = Current /\ Current \in VM /\ ~StartsFunction(n)
      /\ top = H[n][Current] /\ top >= l
  BY <1>3 DEF RunningNow
<1>7. /\ stack_frames' \in Seq(StackFrame) /\ Len(stack_frames') = n /\ L' = n /\ SameBelow(n)
      /\ SameOpen(n - 1) /\ stack_frames'[n].open = Front(stack_frames[n].open)
  <2>1. Front(stack_frames[n].open) \in Seq(CallFrame)
    BY <1>4 DEF AtCallFacts
  <2>2. OpenIs(stack_frames, Front(stack_frames[n].open))
    BY <1>5, <2>1, WithOpenAre
  <2>3. stack_frames' = WithOpen(stack_frames, Front(stack_frames[n].open))
    BY <1>2, <1>6
  <2> QED BY <1>5, <2>2, <2>3 DEF OpenIs, L, SameBelow, SameOpen
<1>8. PICK c \in CallFrame : c = TopCall /\ calls[c] = "pending"
  BY <1>4 DEF AtCallFacts
<1>9. CallPopped(Current, c, top) /\ top \in Nat \ {0}
  <2>1. top # 0 /\ call_frames[Current][top] = c /\ top = Len(call_frames[Current])
    BY <1>3, <1>4, <1>8 DEF RunningNow, AtCallFacts
  <2> QED BY <1>1, <1>2, <1>6, <2>1, CallIsPopped
<1>10. StacksTyped'
  BY <1>2, <1>5, <1>7, <1>9 DEF StacksTyped, CallPopped
<1>11. StackInv'
  <2>1. L' = L /\ SameBelow(L) /\ ~StartsFunction(L) /\ mode' \notin {"end", "leave"}
    BY <1>2, <1>5, <1>6, <1>7
  <2> QED BY <1>2, <1>5, <2>1, StackSame
<1>12. TriesInv'
  <2>1. n \in Base .. L
    BY <1>5 DEF Structure
  <2>2. /\ \A f \in Frame \cup VM : Len(tries'[f]) <= 1
        /\ \A f \in Frame : tries'[f] # <<>> => \E i \in 1 .. n : stack_frames[i].frame = f
    BY <1>2, <1>5 DEF TriesInv, TriesOfStack
  <2>3. \A f : Shrinks(f)
    BY <1>2 DEF Shrinks
  <2> QED BY <1>2, <1>5, <1>7, <2>1, <2>2, <2>3, TriesPop
<1>13. TriesOfLoaded'
  BY <1>2, <1>5 DEF TriesOfLoaded
<1>14. /\ Len(stack_frames'[n].open) = l - 1 /\ l - 1 \in Nat /\ top - 1 \in Nat
       /\ \A k \in 1 .. l - 1 : stack_frames'[n].open[k] = stack_frames[n].open[k]
  BY <1>4, <1>7 DEF AtCallFacts
<1>15. PICK G \in Heights : SetsHeight(H, G, n, Current, top - 1)
  BY <1>6, <1>14, HeightSet
<1>16. /\ \A i \in Nat : i # n => G[i] = H[i]
       /\ \A k \in VM : k # Current => G[n][k] = H[n][k]
       /\ G[n][Current] = top - 1
  BY <1>15 DEF SetsHeight
<1>17. \A i \in 1 .. n - 1 : Known(G, hang, i)'
  <2>1. H[n - 1][Current] \in Nat /\ H[n - 1][Current] < top /\ Apart(H, n, c)
    BY <1>1, <1>2, <1>3, <1>4, <1>8, TopCallApart
  <2>2. \A d \in CallFrame : calls'[d] = calls[d] \/ Apart(H, n, d)
    BY <1>9, <2>1 DEF CallPopped
  <2>3. \A i \in 0 .. n - 1 : G[i] = H[i]
    BY <1>5, <1>16
  <2>4. \A k \in VM, x \in Nat : 1 <= x /\ x <= H[n - 1][k] => call_frames'[k][x] = call_frames[k][x]
    <3> TAKE k \in VM, x \in Nat
    <3> HAVE 1 <= x /\ x <= H[n - 1][k]
    <3>1. k = Current => x < top
      BY <2>1
    <3> QED BY <1>9, <3>1 DEF CallPopped
  <2>5. Undisturbed(H, G, n)
    BY <1>2, <1>7, <2>2, <2>3, <2>4 DEF Undisturbed, Shrinks
  <2>6. n <= L' /\ L' \in Nat
    BY <1>7
  <2> QED BY <1>5, <2>5, <2>6, KeptBelow DEF Known
<1>18. Known(G, hang, n)'
  <2>1. PICK o \in Nat : o = l - 1
    BY <1>14
  <2>2. KeepsPlace(H, G, n, o)
    <3>1. (H[n][Current] - l) + o = top - 1 /\ o <= l
      <4>1. l \in Nat \ {0}
        BY <1>4 DEF AtCallFacts
      <4>2. top = H[n][Current]
        BY <1>6
      <4>3. (top - l) + o = top - 1 /\ o <= l
        BY <2>1, <4>1
      <4> QED BY <4>2, <4>3
    <3>2. n <= L' /\ L' \in Nat
      BY <1>7
    <3>3. G[n - 1] = H[n - 1]
      BY <1>5, <1>16
    <3>4. ~Left /\ ~Left' /\ \A k \in 1 .. RunOf(n) : runs'[k] = runs[k]
      BY <1>2 DEF Left
    <3> QED BY <1>6, <1>7, <1>14, <1>16, <2>1, <3>1, <3>2, <3>3, <3>4 DEF KeepsPlace
  <2>3. KeepsCalls(H, G, hang, hang, n, o)
    <3>1. stack_frames[n].call_frame # None =>
            calls'[stack_frames[n].call_frame] = calls[stack_frames[n].call_frame]
      <4>1. stack_frames[n].call_frame \in CallFrame \cup {None}
        BY <1>3 DEF RunningNow
      <4> QED BY <1>4, <1>8, <1>9, <4>1 DEF AtCallFacts, CallPopped
    <3>2. \A k \in 1 .. o : calls'[stack_frames[n].open[k]] = "pending"
      <4> TAKE k \in 1 .. o
      <4>1. k \in 1 .. l /\ stack_frames[n].open[k] # c
        BY <1>4, <1>8, <2>1 DEF AtCallFacts
      <4>2. stack_frames[n].open[k] \in CallFrame /\ calls[stack_frames[n].open[k]] = "pending"
        BY <1>3, <4>1 DEF RunningNow
      <4>3. \A d \in CallFrame : d # c => calls'[d] = calls[d]
        BY <1>9 DEF CallPopped
      <4> QED BY <4>1, <4>2, <4>3
    <3>3. \A k \in VM, x \in Nat : 1 <= x /\ x <= G[n][k] => call_frames'[k][x] = call_frames[k][x]
      <4> TAKE k \in VM, x \in Nat
      <4> HAVE 1 <= x /\ x <= G[n][k]
      <4>1. k = Current => x < top
        BY <1>9, <1>16
      <4> QED BY <1>9, <4>1 DEF CallPopped
    <3> QED BY <1>6, <3>1, <3>2, <3>3 DEF KeepsCalls
  <2>4. OpenCalls(hang, n)'
    <3>1. ~(n < L') /\ n = L' /\ mode' = "run"
      BY <1>2, <1>5, <1>7
    <3>2. ~StartsFunction(n)' /\ ~Waits(n)'
      <4>1. IsBase(n)' = IsBase(n) /\ RunOf(n)' = RunOf(n)
        <5>1. n \in 0 .. n /\ n \in 1 .. n
          BY <1>5
        <5> QED BY <1>7, <5>1, CountsBelow
      <4> QED BY <1>2, <1>6, <3>1, <4>1 DEF StartsFunction, Waits, KindOf
    <3>3. ~LeavesArguments' => Len(stack_frames'[n].open) <= 1
      <4>1. LeavesArguments' = LeavesArguments
        BY DEF LeavesArguments
      <4>2. ~LeavesArguments => l <= 1
        BY <1>3 DEF RunningNow
      <4>3. l <= 1 => l - 1 <= 1
        BY <1>14
      <4> QED BY <1>14, <4>1, <4>2, <4>3
    <3> QED BY <3>1, <3>2, <3>3 DEF OpenCalls
  <2>5. Shrinks(stack_frames[n].frame)
    BY <1>2 DEF Shrinks
  <2> QED BY <1>1, <1>5, <2>2, <2>3, <2>4, <2>5, KeptFrame
<1>19. Lengths(G, hang)'
  <2>1. Lengths(H, hang) /\ Current' = Current
    BY <1>2, <1>5 DEF CallsInv, Current
  <2> SUFFICES ASSUME NEW m \in VM
               PROVE  /\ G[n][m] <= Len(call_frames'[m])
                      /\ "reentry" \in Features \/ (\E i \in 1 .. n : stack_frames'[i].vm = m)
                           => G[n][m] = Len(call_frames'[m])
    BY <1>6, <1>7 DEF Lengths
  <2>2. CASE m = Current
    BY <1>9, <1>16, <2>2 DEF CallPopped
  <2>3. CASE m # Current
    <3>1. G[n][m] = H[n][m] /\ call_frames'[m] = call_frames[m]
      BY <1>9, <1>16, <2>3 DEF CallPopped
    <3>2. /\ H[n][m] <= Len(call_frames[m]) + 0
          /\ "reentry" \in Features \/ (\E i \in 1 .. n : stack_frames[i].vm = m)
               => H[n][m] = Len(call_frames[m]) + 0
      BY <1>5, <1>6, <2>1 DEF Lengths
    <3>3. Len(call_frames[m]) \in Nat
      BY <1>1 DEF Given, TopFacts
    <3>4. \A i \in 1 .. n : stack_frames'[i].vm = stack_frames[i].vm
      BY <1>7 DEF SameBelow
    <3> QED BY <3>1, <3>2, <3>3, <3>4
  <2> QED BY <2>2, <2>3
<1>20. DistinctEntries' /\ DistinctHeld'
  BY <1>2, <1>5, <1>9 DEF CallsInv, DistinctHeld, CallPopped
<1>21. HeldCallFramesAlive' /\ OnTheWay(hang)'
  <2>1. \A d \in CallFrame : calls[d] = "outer" => calls'[d] = "outer"
    BY <1>8, <1>9 DEF CallPopped
  <2> QED BY <1>2, <1>3, <1>5, <1>6, <2>1, HeldKept DEF OnTheWay, RunningNow
<1>22. CallsHold'
  BY <1>5, <1>7, <1>17, <1>18, <1>19, <1>20, <1>21, CallsAgain
<1> QED BY <1>10, <1>11, <1>12, <1>13, <1>22 DEF IInv

\* A Call that fails keeps the invariant: its frame waits for the exception
\* without the call frame.
LEMMA RaiseInCallStep ==
  ASSUME IInv, WorkingFeatures, NEW e \in Exception, RaiseInCall(e)
  PROVE  IInv'
<1>1. PICK H \in Heights, hang \in BOOLEAN, n \in Nat : Given(H, hang, n)
  BY GivenHolds
<1>2. /\ mode = "run" /\ mode' = "throw" /\ AtCall /\ PopCallFrames(Current, 1)
      /\ CatchesAll(TopFrame) /\ raised' = e /\ by_call' = TRUE
      /\ UNCHANGED <<frames, stack_frames, tries, runs, imports, loaded>>
  BY DEF RaiseInCall, AtCall, MayLetOut, WorkingFeatures, CatchesAll
<1> PICK hang2 \in BOOLEAN : hang2
  OBVIOUS
<1>3. PICK l \in Nat, top \in Nat : RunningNow(H, hang, n, l, top)
  BY <1>1, <1>2, RunningIs
<1>4. AtCallFacts(n, l, top)
  BY <1>1, <1>2, <1>3, AtCallIs
<1>5. /\ StacksTyped /\ StackInv /\ TriesInv /\ TriesOfLoaded /\ Structure /\ CallsInv(H, hang) /\ n = L
      /\ n \in 1 .. L /\ n \in Nat \ {0} /\ n - 1 \in Nat
      /\ stack_frames \in Seq(StackFrame) /\ Len(stack_frames) = n /\ stack_frames # <<>>
      /\ \A m \in VM : H[n][m] \in Nat
  BY <1>1 DEF Given, Heights
<1>6. /\ ~hang /\ Len(stack_frames[n].open) = l /\ Top = stack_frames[n]
      /\ stack_frames[n].vm = Current /\ Current \in VM /\ ~StartsFunction(n)
      /\ top = H[n][Current] /\ top >= l
  BY <1>3 DEF RunningNow
<1>7. /\ stack_frames' \in Seq(StackFrame) /\ Len(stack_frames') = n /\ L' = n /\ SameBelow(n)
      /\ SameOpen(n - 1) /\ stack_frames'[n] = stack_frames[n]
  BY <1>2, <1>5 DEF L, SameBelow, SameOpen
<1>8. PICK c \in CallFrame : c = TopCall /\ calls[c] = "pending"
  BY <1>4 DEF AtCallFacts
<1>9. CallPopped(Current, c, top) /\ top \in Nat \ {0}
  <2>1. top # 0 /\ call_frames[Current][top] = c /\ top = Len(call_frames[Current])
    BY <1>3, <1>4, <1>8 DEF RunningNow, AtCallFacts
  <2> QED BY <1>1, <1>2, <1>6, <2>1, CallIsPopped
<1>10. StacksTyped'
  <2>1. e \in Exception \cup {None} /\ e # None /\ "throw" \in Mode
    BY CallStackAssumption DEF Mode
  <2> QED BY <1>2, <1>5, <1>7, <1>9, <2>1 DEF StacksTyped, CallPopped
<1>11. StackInv'
  <2>1. L' = L /\ SameBelow(L) /\ ~StartsFunction(L) /\ mode' \notin {"end", "leave"}
    BY <1>2, <1>5, <1>6, <1>7
  <2> QED BY <1>2, <1>5, <2>1, StackSame
<1>12. TriesInv'
  <2>1. n \in Base .. L
    BY <1>5 DEF Structure
  <2>2. /\ \A f \in Frame \cup VM : Len(tries'[f]) <= 1
        /\ \A f \in Frame : tries'[f] # <<>> => \E i \in 1 .. n : stack_frames[i].frame = f
    BY <1>2, <1>5 DEF TriesInv, TriesOfStack
  <2>3. \A f : Shrinks(f)
    BY <1>2 DEF Shrinks
  <2> QED BY <1>2, <1>5, <1>7, <2>1, <2>2, <2>3, TriesPop
<1>13. TriesOfLoaded'
  BY <1>2, <1>5 DEF TriesOfLoaded
<1>17. \A i \in 1 .. n - 1 : Known(H, hang2, i)'
  <2>1. H[n - 1][Current] \in Nat /\ H[n - 1][Current] < top /\ Apart(H, n, c)
    BY <1>1, <1>2, <1>3, <1>4, <1>8, TopCallApart
  <2>2. \A d \in CallFrame : calls'[d] = calls[d] \/ Apart(H, n, d)
    BY <1>9, <2>1 DEF CallPopped
  <2>4. \A k \in VM, x \in Nat : 1 <= x /\ x <= H[n - 1][k] => call_frames'[k][x] = call_frames[k][x]
    <3> TAKE k \in VM, x \in Nat
    <3> HAVE 1 <= x /\ x <= H[n - 1][k]
    <3>1. k = Current => x < top
      BY <2>1
    <3> QED BY <1>9, <3>1 DEF CallPopped
  <2>5. Undisturbed(H, H, n)
    BY <1>2, <1>7, <2>2, <2>4 DEF Undisturbed, Shrinks
  <2>6. n <= L' /\ L' \in Nat
    BY <1>7
  <2> QED BY <1>5, <2>5, <2>6, KeptBelow DEF Known
<1>18. Known(H, hang2, n)'
  <2>2. KeepsPlace(H, H, n, l)
    <3>1. H[n][Current] = (H[n][Current] - l) + l
      <4>1. top = (top - l) + l
        BY <1>6
      <4> QED BY <1>6, <4>1
    <3>2. n <= L' /\ L' \in Nat
      BY <1>7
    <3>4. ~Left /\ ~Left' /\ \A k \in 1 .. RunOf(n) : runs'[k] = runs[k]
      BY <1>2 DEF Left
    <3> QED BY <1>6, <1>7, <3>1, <3>2, <3>4 DEF KeepsPlace
  <2>3. KeepsCalls(H, H, hang, hang2, n, l)
    <3>1. stack_frames[n].call_frame # None =>
            calls'[stack_frames[n].call_frame] = calls[stack_frames[n].call_frame]
      <4>1. stack_frames[n].call_frame \in CallFrame \cup {None}
        BY <1>3 DEF RunningNow
      <4> QED BY <1>4, <1>8, <1>9, <4>1 DEF AtCallFacts, CallPopped
    <3>2. \A k \in 1 .. l : k = l \/ calls'[stack_frames[n].open[k]] = "pending"
      <4> TAKE k \in 1 .. l
      <4>1. k # l => stack_frames[n].open[k] # c
        <5>1. k # l => k \in 1 .. l - 1
          OBVIOUS
        <5> QED BY <1>4, <1>8, <5>1 DEF AtCallFacts
      <4>2. stack_frames[n].open[k] \in CallFrame /\ calls[stack_frames[n].open[k]] = "pending"
        BY <1>3, <4>1 DEF RunningNow
      <4>3. \A d \in CallFrame : d # c => calls'[d] = calls[d]
        BY <1>9 DEF CallPopped
      <4> QED BY <4>1, <4>2, <4>3
    <3>3. \A k \in VM, x \in Nat :
            1 <= x /\ x <= H[n][k] /\ ~(k = Current /\ x = H[n][k]) => call_frames'[k][x] = call_frames[k][x]
      <4> TAKE k \in VM, x \in Nat
      <4> HAVE 1 <= x /\ x <= H[n][k] /\ ~(k = Current /\ x = H[n][k])
      <4>1. k = Current => x < top
        BY <1>6
      <4> QED BY <1>9, <4>1 DEF CallPopped
    <3>4. l # 0 /\ n = L' /\ hang2
      BY <1>4, <1>7 DEF AtCallFacts
    <3> QED BY <1>6, <3>1, <3>2, <3>3, <3>4 DEF KeepsCalls
  <2>4. OpenCalls(hang2, n)'
    <3>1. ~(n < L') /\ n = L'
      BY <1>5, <1>7
    <3>2. ~StartsFunction(n)' /\ ~Waits(n)'
      <4>1. IsBase(n)' = IsBase(n) /\ RunOf(n)' = RunOf(n)
        <5>1. n \in 0 .. n /\ n \in 1 .. n
          BY <1>5
        <5> QED BY <1>7, <5>1, CountsBelow
      <4> QED BY <1>2, <1>6, <3>1, <4>1 DEF StartsFunction, Waits, KindOf
    <3>3. ~LeavesArguments' => Len(stack_frames'[n].open) <= 1
      <4>1. LeavesArguments' = LeavesArguments
        BY DEF LeavesArguments
      <4>2. ~LeavesArguments => l <= 1
        BY <1>3 DEF RunningNow
      <4> QED BY <1>6, <1>7, <4>1, <4>2
    <3> QED BY <3>1, <3>2, <3>3 DEF OpenCalls
  <2>5. Shrinks(stack_frames[n].frame)
    BY <1>2 DEF Shrinks
  <2> QED BY <1>1, <1>5, <2>2, <2>3, <2>4, <2>5, KeptFrame
<1>19. Lengths(H, hang2)'
  <2>1. Lengths(H, hang) /\ Current' = Current
    BY <1>2, <1>5 DEF CallsInv, Current
  <2> SUFFICES ASSUME NEW m \in VM
               PROVE  /\ m = Current => H[n][m] = Len(call_frames'[m]) + 1
                      /\ m # Current =>
                           /\ H[n][m] <= Len(call_frames'[m]) + 0
                           /\ "reentry" \in Features \/ (\E i \in 1 .. n : stack_frames'[i].vm = m)
                                => H[n][m] = Len(call_frames'[m]) + 0
    <3>1. \A m \in VM : H[n][m] = Len(call_frames'[m]) + 1 => H[n][m] <= Len(call_frames'[m]) + 1
      BY <1>5
    <3> QED BY <1>7, <2>1, <3>1 DEF Lengths
  <2>2. CASE m = Current
    BY <1>6, <1>9, <2>2, SMTT(30) DEF CallPopped
  <2>3. CASE m # Current
    <3>1. call_frames'[m] = call_frames[m]
      BY <1>9, <2>3 DEF CallPopped
    <3>2. /\ H[n][m] <= Len(call_frames[m]) + 0
          /\ "reentry" \in Features \/ (\E i \in 1 .. n : stack_frames[i].vm = m)
               => H[n][m] = Len(call_frames[m]) + 0
      BY <1>5, <1>6, <2>1 DEF Lengths
    <3>4. stack_frames' = stack_frames
      BY <1>2
    <3> QED BY <2>3, <3>1, <3>2, <3>4
  <2> QED BY <2>2, <2>3
<1>20. DistinctEntries' /\ DistinctHeld'
  BY <1>2, <1>5, <1>9 DEF CallsInv, DistinctHeld, CallPopped
<1>21. HeldCallFramesAlive' /\ OnTheWay(hang2)'
  <2>1. \A d \in CallFrame : calls[d] = "outer" => calls'[d] = "outer"
    BY <1>8, <1>9 DEF CallPopped
  <2>2. HeldCallFramesAlive'
    BY <1>2, <1>3, <1>5, <2>1, HeldKept DEF RunningNow
  <2>3. InCall' /\ CatchesAll(Top.frame)'
    <3>1. InCall /\ Top.frame = TopFrame
      BY <1>2, <1>3 DEF AtCall, RunningNow
    <3> QED BY <1>2, <3>1 DEF InCall, Top, CatchesAll
  <2> QED BY <1>2, <2>2, <2>3 DEF OnTheWay
<1>22. CallsHold'
  BY <1>5, <1>7, <1>17, <1>18, <1>19, <1>20, <1>21, CallsAgain
<1> QED BY <1>10, <1>11, <1>12, <1>13, <1>22 DEF IInv

-----------------------------------------------------------------------------
(* The actions that leave the stack and the call frames alone.             *)

\* The invariant, when only tries, mode and exception change.
LEMMA SameStep ==
  ASSUME NEW H \in Heights, NEW hang \in BOOLEAN, NEW n \in Nat, Given(H, hang, n), ~hang,
         UNCHANGED <<frames, call_frames, stack_frames, calls, runs, imports, loaded>>,
         mode' \in Mode, raised' \in Exception \cup {None}, by_call' \in BOOLEAN,
         mode' \in {"throw", "again", "leave"} => raised' # None,
         tries' \in [Frame \cup VM -> Seq(Try)],
         \A f \in Frame \cup VM : f # TopFrame => tries'[f] = tries[f],
         Shrinks(TopFrame) \/ (~StartsFunction(L) /\ Len(tries'[TopFrame]) <= 1),
         mode' \in {"end", "leave"} => IsBase(L), StartsFunction(L) => ~Running',
         (Left' <=> Left) \/ Top.open = <<>>,
         (Running /\ Running') \/ Last(runs).call_frame = None,
         ~LeavesArguments /\ mode' \in {"throw", "again"} => Top.open = <<>>,
         mode' = "end" => Top.open = <<>>,
         TryPosition(H, n)'
  PROVE  IInv'
<1>1. /\ StacksTyped /\ StackInv /\ TriesInv /\ TriesOfLoaded /\ Structure /\ CallsInv(H, hang)
      /\ n = L /\ n \in 1 .. L /\ n \in Nat \ {0} /\ Top = stack_frames[n] /\ TopFrame = Top.frame
  BY DEF Given, TopFacts, Structure
<1>2. L' = L /\ SameBelow(L)
  BY DEF L, SameBelow
<1>3. StacksTyped'
  BY <1>1 DEF StacksTyped
<1>4. StackInv'
  BY <1>1, <1>2, StackSame
<1>5. TopFrame \in Frame \cup VM
  BY <1>1 DEF Structure, StackFrame
<1>6. \A i \in 1 .. n - 1 : Shrinks(stack_frames[i].frame)
  <2>1. CASE Shrinks(TopFrame)
    <3> TAKE i \in 1 .. n - 1
    <3>1. stack_frames[i].frame \in Frame \cup VM
      BY <1>1 DEF Structure, StackFrame
    <3> QED BY <2>1, <3>1 DEF Shrinks
  <2>2. CASE ~StartsFunction(L)
    <3> TAKE i \in 1 .. n - 1
    <3>1. stack_frames[i].frame \in Frame \cup VM
      BY <1>1 DEF Structure, StackFrame
    <3>2. stack_frames[i].frame # stack_frames[n].frame
      <4>1. n \in Base .. L /\ (n = Base => ~StartsFunction(Base))
        BY <1>1, <2>2 DEF Structure
      <4> QED BY <1>1, <4>1, TopDistinct
    <3> QED BY <1>1, <3>1, <3>2 DEF Shrinks
  <2> QED BY <2>1, <2>2
<1>7. TriesInv'
  <2>1. n \in Base .. L
    BY <1>1 DEF Structure
  <2>2. \A f \in Frame \cup VM : Len(tries'[f]) <= 1
    <3> TAKE f \in Frame \cup VM
    <3>1. Len(tries[f]) <= 1 /\ Len(<<>>) <= 1
      BY <1>1 DEF TriesInv, TriesOfStack
    <3> QED BY <1>5, <3>1 DEF Shrinks
  <2>3. \A f \in Frame : tries'[f] # <<>> => \E i \in 1 .. n : stack_frames[i].frame = f
    BY <1>1 DEF TriesInv, TriesOfStack
  <2>4. \A k \in 1 .. Len(runs) : runs[k].kind \in ForFunction => Shrinks(runs[k].vm)
    <3> TAKE k \in 1 .. Len(runs)
    <3>0. runs[k].vm \in Frame \cup VM
      BY <1>1 DEF Structure, Activation
    <3>1. CASE Shrinks(TopFrame)
      BY <3>0, <3>1 DEF Shrinks
    <3>2. CASE ~StartsFunction(L)
      <4>1. n \in Base .. L /\ (n = Base => ~StartsFunction(Base))
        BY <1>1, <3>2 DEF Structure
      <4>2. runs[k].kind \in ForFunction => runs[k].vm # stack_frames[n].frame
        BY <1>1, <4>1, TopDistinct
      <4> QED BY <1>1, <3>0, <4>2 DEF Shrinks
    <3> QED BY <3>1, <3>2
  <2> QED BY <1>1, <1>2, <1>6, <2>1, <2>2, <2>3, <2>4, TriesPop
<1>8. TriesOfLoaded'
  <2>1. \A m \in VM \ loaded : m # TopFrame
    <3>1. TopFrame \in VM => TopFrame = stack_frames[n].vm
      BY <1>1 DEF StackInv, FramesOfStack, IsBase
    <3>2. stack_frames[n].vm \in loaded
      BY <1>1 DEF Structure
    <3> QED BY <3>1, <3>2
  <2> QED BY <1>1, <2>1 DEF TriesOfLoaded
<1>9. CallsInv(H, hang)'
  <2>1. TryPosition(H, L)'
    <3>1. L' = n
      BY <1>1, <1>2
    <3> QED BY <3>1 DEF TryPosition
  <2>2. UNCHANGED <<stack_frames, call_frames, calls, runs>>
    OBVIOUS
  <2>3. \A i \in 1 .. L - 1 : Shrinks(stack_frames[i].frame)
    BY <1>1, <1>6
  <2> QED BY <1>1, <2>1, <2>2, <2>3, CallsSame
<1> QED BY <1>3, <1>4, <1>7, <1>8, <1>9 DEF IInv, CallsHold

\* Code that runs is not at the base that waits for the first function.
LEMMA NoHang ==
  ASSUME NEW H \in Heights, NEW hang \in BOOLEAN, NEW n \in Nat, Given(H, hang, n)
  PROVE  /\ mode # "throw" => ~hang
         /\ Running => ~StartsFunction(L)
         /\ mode = "end" => Top.open = <<>>
         /\ ~LeavesArguments /\ mode \in {"throw", "again"} /\ ~hang => Top.open = <<>>
         /\ hang => InCall /\ CatchesAll(Top.frame)
         /\ TryPosition(H, n) /\ TopFrame = Top.frame /\ Top = stack_frames[n]
         /\ TopFrame \in Frame \cup VM /\ Top.open \in Seq(CallFrame)
<1>1. OnTheWay(hang) /\ OpenCalls(hang, L) /\ n = L /\ n \in 1 .. L /\ TryPosition(H, n) /\ StackInv
  BY DEF Given, CallsInv
<1>2. TopFrame = Top.frame /\ Top = stack_frames[n]
      /\ Top.frame \in Frame \cup VM /\ Top.open \in Seq(CallFrame)
  BY DEF Given, Structure, TopFacts
<1>3. Running => ~StartsFunction(L)
  BY <1>1 DEF StackInv, FirstFrames
<1>4. ~LeavesArguments /\ mode \in {"throw", "again"} /\ ~hang => Top.open = <<>>
  BY <1>1, <1>2 DEF OpenCalls
<1> QED BY <1>1, <1>2, <1>3, <1>4 DEF OnTheWay

\* The end of a module's code keeps the invariant.
LEMMA EndCodeStep ==
  ASSUME IInv, WorkingFeatures, EndCode
  PROVE  IInv'
<1>1. PICK H \in Heights, hang \in BOOLEAN, n \in Nat : Given(H, hang, n)
  BY GivenHolds
<1>2. /\ mode = "run" /\ mode' = "end" /\ ~InCall /\ Top.frame = Current
      /\ UNCHANGED <<frames, call_frames, stack_frames, calls, tries, runs, imports, loaded,
                     raised, by_call>>
  BY DEF EndCode, AtStatement
<1>3. /\ ~hang /\ ~StartsFunction(L) /\ Top.open = <<>> /\ StacksTyped /\ StackInv /\ Structure
      /\ n = L /\ n \in 1 .. L /\ TryPosition(H, n) /\ Top = stack_frames[n]
  BY <1>1, <1>2, NoHang DEF Given, Running, InCall
<1>4. IsBase(L)
  BY <1>2, <1>3 DEF IsBase, Structure
<1>5. Last(runs).call_frame = None
  <2>1. RunOf(L) = Len(runs) /\ Len(runs) \in 1 .. Len(runs)
    BY <1>3 DEF Structure
  <2>2. KindOf(L) \notin ForFunction
    BY <1>3, <1>4 DEF StartsFunction
  <2> QED BY <1>3, <2>1, <2>2 DEF KindOf, Last, StackInv, KindsOfRuns
<1>6. TryPosition(H, n)'
  BY <1>2, <1>3 DEF TryPosition, Left
<1>7. "end" \in Mode
  BY DEF Mode
<1> QED BY <1>1, <1>2, <1>3, <1>4, <1>5, <1>6, <1>7, SameStep DEF StacksTyped, Shrinks, Running, Left

\* Raise keeps the invariant.
LEMMA RaiseStep ==
  ASSUME IInv, WorkingFeatures, NEW e \in Exception, Raise(e)
  PROVE  IInv'
<1>1. PICK H \in Heights, hang \in BOOLEAN, n \in Nat : Given(H, hang, n)
  BY GivenHolds
<1>2. /\ mode = "run" /\ mode' = "throw" /\ MayRaise /\ raised' = e
      /\ UNCHANGED <<frames, call_frames, stack_frames, calls, tries, runs, imports, loaded, by_call>>
  BY DEF Raise
<1>3. /\ ~hang /\ ~StartsFunction(L) /\ StacksTyped /\ n = L /\ TryPosition(H, n)
  BY <1>1, <1>2, NoHang DEF Given, Running
<1>4. ~LeavesArguments => Top.open = <<>>
  BY <1>2 DEF MayRaise, InCall, LeavesArguments
<1>5. TryPosition(H, n)'
  BY <1>2, <1>3 DEF TryPosition, Left, L
<1>6. "throw" \in Mode /\ e \in Exception \cup {None} /\ e # None
  BY CallStackAssumption DEF Mode
<1>7. Running /\ Running' /\ ~Left /\ ~Left' /\ \A f : Shrinks(f)
  BY <1>2 DEF Running, Left, Shrinks
<1> QED BY <1>1, <1>2, <1>3, <1>4, <1>5, <1>6, <1>7, SameStep DEF StacksTyped

\* Executing the opcode again keeps the invariant.
LEMMA AgainStep ==
  ASSUME IInv, WorkingFeatures, Again
  PROVE  IInv'
<1>1. PICK H \in Heights, hang \in BOOLEAN, n \in Nat : Given(H, hang, n)
  BY GivenHolds
<1>2. /\ mode = "again" /\ mode' \in {"run", "throw"} /\ by_call' = FALSE
      /\ mode' = "throw" => raised' = raised
      /\ raised' \in {None, raised}
      /\ UNCHANGED <<frames, call_frames, stack_frames, calls, tries, runs, imports, loaded>>
  BY DEF Again
<1>3. /\ ~hang /\ ~StartsFunction(L) /\ StacksTyped /\ n = L /\ TryPosition(H, n)
      /\ ~LeavesArguments => Top.open = <<>>
  BY <1>1, <1>2, NoHang DEF Given, Running
<1>5. TryPosition(H, n)'
  BY <1>2, <1>3 DEF TryPosition, Left, L
<1>6. mode' \in Mode /\ raised' \in Exception \cup {None} /\ (mode' \in {"throw", "again", "leave"} => raised' # None)
  BY <1>2, <1>3 DEF Mode, StacksTyped
<1>7. Running /\ Running' /\ ~Left /\ ~Left' /\ (\A f : Shrinks(f)) /\ mode' \notin {"end", "leave"}
  BY <1>2 DEF Running, Left, Shrinks
<1> QED BY <1>1, <1>2, <1>3, <1>5, <1>6, <1>7, SameStep DEF StacksTyped

\* The end of the program keeps the invariant.
LEMMA EndProgramStep ==
  ASSUME IInv, WorkingFeatures, EndProgram
  PROVE  IInv'
<1>1. PICK H \in Heights, hang \in BOOLEAN, n \in Nat : Given(H, hang, n)
  BY GivenHolds
<1>2. /\ mode \in {"end", "leave"} /\ mode' = "done" /\ Last(runs).kind = "main"
      /\ UNCHANGED <<frames, call_frames, stack_frames, calls, tries, runs, imports, loaded,
                     raised, by_call>>
  BY DEF EndProgram
<1>3. /\ ~hang /\ StacksTyped /\ StackInv /\ Structure /\ n = L /\ n \in 1 .. L /\ TryPosition(H, n)
      /\ (mode = "end" => Top.open = <<>>)
  BY <1>1, <1>2, NoHang DEF Given
<1>4. Last(runs).call_frame = None
  <2>1. Len(runs) \in 1 .. Len(runs)
    BY <1>3 DEF Structure
  <2> QED BY <1>2, <1>3, <2>1 DEF Last, StackInv, KindsOfRuns, ForFunction
<1>5. TryPosition(H, n)'
  BY <1>2, <1>3 DEF TryPosition, Left, L
<1>6. "done" \in Mode
  BY DEF Mode
<1>7. ~Running' /\ ((Left' <=> Left) \/ Top.open = <<>>) /\ \A f : Shrinks(f)
  BY <1>2, <1>3 DEF Running, Left, Shrinks
<1> QED BY <1>1, <1>2, <1>3, <1>4, <1>5, <1>6, <1>7, SameStep DEF StacksTyped

-----------------------------------------------------------------------------
(* Tries begin and end.                                                    *)

\* PushTry: the try remembers the call frame that is on top.
LEMMA PushTryStep ==
  ASSUME IInv, WorkingFeatures, NEW handled \in SUBSET Exception, PushTry(handled)
  PROVE  IInv'
<1>1. PICK H \in Heights, hang \in BOOLEAN, n \in Nat : Given(H, hang, n)
  BY GivenHolds
<1> DEFINE t == [caught |-> FALSE, handles |-> handled, cf_position |-> TopCall]
<1>2. /\ mode = "run" /\ ~InCall /\ tries' = [tries EXCEPT ![TopFrame] = <<t>>]
      /\ UNCHANGED <<frames, call_frames, stack_frames, calls, runs, imports, loaded, mode,
                     raised, by_call>>
  BY DEF PushTry, AtStatement
<1>3. /\ ~hang /\ ~StartsFunction(L) /\ Top.open = <<>> /\ StacksTyped /\ StackInv /\ Structure
      /\ n = L /\ n \in 1 .. L /\ Top = stack_frames[n] /\ TopFrame \in Frame \cup VM
      /\ TopFrame = stack_frames[n].frame
  BY <1>1, <1>2, NoHang DEF Given, Running, InCall
<1>4. PICK l \in Nat, top \in Nat : RunningNow(H, hang, n, l, top)
  BY <1>1, <1>2, RunningIs
<1>5. TopCall = (IF top = 0 THEN None ELSE call_frames[Current][top]) /\ TopCall \in CallFrame \cup {None}
  <2>1. call_frames[Current] \in Seq(CallFrame) /\ top = Len(call_frames[Current])
    BY <1>4 DEF RunningNow
  <2>2. top = 0 <=> call_frames[Current] = <<>>
    BY <2>1
  <2>3. top # 0 => call_frames[Current][top] \in CallFrame
    BY <2>1
  <2> QED BY <2>1, <2>2, <2>3 DEF TopCall, Last
<1>6. t \in Try
  BY <1>5 DEF Try
<1> HIDE DEF t
<1>7. tries' \in [Frame \cup VM -> Seq(Try)] /\ tries'[TopFrame] = <<t>> /\ Len(<<t>>) = 1
      /\ \A f \in Frame \cup VM : f # TopFrame => tries'[f] = tries[f]
  <2>1. tries \in [Frame \cup VM -> Seq(Try)] /\ <<t>> \in Seq(Try)
    BY <1>3, <1>6 DEF StacksTyped
  <2> QED BY <1>2, <1>3, <2>1
<1>8. TryPosition(H, n)'
  <2>1. stack_frames'[n].vm = Current /\ Len(stack_frames'[n].open) = 0 /\ H[n][Current] = top
    BY <1>2, <1>3, <1>4 DEF RunningNow
  <2>2. H[n][Current] - Len(stack_frames'[n].open) = top
    BY <2>1
  <2>3. tries'[stack_frames'[n].frame][1].cf_position = TopCall
    BY <1>2, <1>3, <1>7 DEF t
  <2> QED BY <1>2, <1>5, <2>1, <2>2, <2>3 DEF TryPosition
<1>9. Running /\ Running' /\ ~Left /\ ~Left'
  BY <1>2 DEF Running, Left
<1> QED BY <1>1, <1>2, <1>3, <1>7, <1>8, <1>9, SameStep DEF StacksTyped

\* The innermost try of the top frame is gone.
LEMMA TryLeft ==
  ASSUME NEW H \in Heights, NEW hang \in BOOLEAN, NEW n \in Nat, Given(H, hang, n),
         tries[TopFrame] # <<>>, tries' = [tries EXCEPT ![TopFrame] = Front(@)]
  PROVE  /\ tries' \in [Frame \cup VM -> Seq(Try)] /\ tries'[TopFrame] = <<>>
         /\ \A f \in Frame \cup VM : f # TopFrame => tries'[f] = tries[f]
<1>1. StacksTyped /\ TriesInv /\ TopFrame \in Frame \cup VM
  BY NoHang DEF Given
<1>2. tries \in [Frame \cup VM -> Seq(Try)] /\ Len(tries[TopFrame]) <= 1
  BY <1>1 DEF StacksTyped, TriesInv, TriesOfStack
<1>3. Len(tries[TopFrame]) - 1 = 0
  <2>1. tries[TopFrame] \in Seq(Try)
    BY <1>1, <1>2
  <2>2. Len(tries[TopFrame]) \in Nat \ {0}
    BY <2>1, SequenceLen
  <2>3. \A k \in Nat \ {0} : k <= 1 => k - 1 = 0
    OBVIOUS
  <2> QED BY <1>2, <2>2, <2>3
<1>4. Front(tries[TopFrame]) = <<>> /\ <<>> \in Seq(Try)
  <2>1. \A s \in Seq(Try) : SubSeq(s, 1, 0) = <<>>
    OBVIOUS
  <2> QED BY <1>1, <1>2, <1>3, <2>1 DEF Front
<1> QED BY <1>1, <1>2, <1>4

\* PopTry: PopCatch and the finally block.
LEMMA PopTryStep ==
  ASSUME IInv, WorkingFeatures, PopTry
  PROVE  IInv'
<1>1. PICK H \in Heights, hang \in BOOLEAN, n \in Nat : Given(H, hang, n)
  BY GivenHolds
<1>2. /\ mode = "run" /\ ~InCall /\ tries[TopFrame] # <<>>
      /\ tries' = [tries EXCEPT ![TopFrame] = Front(@)]
      /\ UNCHANGED <<frames, call_frames, stack_frames, calls, runs, imports, loaded, mode,
                     raised, by_call>>
  BY DEF PopTry, AtStatement
<1>3. /\ ~hang /\ ~StartsFunction(L) /\ StacksTyped /\ n = L
      /\ TopFrame = stack_frames[n].frame
  BY <1>1, <1>2, NoHang DEF Given, Running
<1>4. /\ tries' \in [Frame \cup VM -> Seq(Try)] /\ tries'[TopFrame] = <<>>
      /\ \A f \in Frame \cup VM : f # TopFrame => tries'[f] = tries[f]
  BY <1>1, <1>2, TryLeft
<1>5. TryPosition(H, n)'
  BY <1>2, <1>3, <1>4 DEF TryPosition
<1>6. Running /\ Running' /\ ~Left /\ ~Left' /\ Len(tries'[TopFrame]) <= 1
  BY <1>2, <1>4 DEF Running, Left
<1> QED BY <1>1, <1>2, <1>3, <1>4, <1>5, <1>6, SameStep DEF StacksTyped

\* The frame at the top is one that a handler is looked for in.
LEMMA TopVisible ==
  ASSUME Structure
  PROVE  /\ Visible(Current) \in SUBSET (1 .. L)
         /\ \A i \in Base .. L : i \in Visible(Current)
<1>1. Base \in 1 .. L /\ L \in Nat /\ \A i \in Base .. L : stack_frames[i].vm = Current
  BY DEF Structure
<1>2. \A i \in Base .. L : i \in 1 .. L /\ \A j \in i .. L : j \in Base .. L
  BY <1>1
<1> QED BY <1>1, <1>2 DEF Visible, L

\* RunFinally: the exception was raised by a statement, as a try around a
\* call handles everything, so no call frame is missing.
LEMMA RunFinallyStep ==
  ASSUME IInv, WorkingFeatures, RunFinally
  PROVE  IInv'
<1>1. PICK H \in Heights, hang \in BOOLEAN, n \in Nat : Given(H, hang, n)
  BY GivenHolds
<1>2. /\ mode = "throw" /\ mode' = "again" /\ tries[TopFrame] # <<>> /\ (~InCatch => Handlers = {})
      /\ tries' = [tries EXCEPT ![TopFrame] = Front(@)]
      /\ UNCHANGED <<frames, call_frames, stack_frames, calls, runs, imports, loaded, raised,
                     by_call>>
  BY DEF RunFinally
<1>3. /\ ~StartsFunction(L) /\ StacksTyped /\ n = L /\ Structure /\ TriesInv
      /\ TopFrame = stack_frames[n].frame /\ Top = stack_frames[n] /\ TopFrame = Top.frame
      /\ TopFrame \in Frame \cup VM
      /\ (~LeavesArguments /\ ~hang => Top.open = <<>>)
      /\ (hang => CatchesAll(Top.frame))
  BY <1>1, <1>2, NoHang DEF Given, Running
<1>4. ~hang
  <2> SUFFICES ASSUME hang PROVE FALSE
    OBVIOUS
  <2>1. tries[TopFrame] \in Seq(Try) /\ Len(tries[TopFrame]) <= 1
    BY <1>3 DEF StacksTyped, TriesInv, TriesOfStack
  <2>2. Len(tries[TopFrame]) = 1
    <3>1. Len(tries[TopFrame]) \in Nat \ {0}
      BY <1>2, <2>1, SequenceLen
    <3>2. \A k \in Nat \ {0} : k <= 1 => k = 1
      OBVIOUS
    <3> QED BY <2>1, <3>1, <3>2
  <2>3. Last(tries[TopFrame]) = tries[TopFrame][1] /\ ~tries[TopFrame][1].caught
        /\ tries[TopFrame][1].handles = Exception
    BY <1>3, <2>2 DEF CatchesAll, Last
  <2>4. raised \in Exception
    BY <1>2, <1>3 DEF StacksTyped
  <2>5. n \in Visible(Current)
    <3>1. n \in Base .. L
      BY <1>3 DEF Structure
    <3> QED BY <1>3, <3>1, TopVisible
  <2>6. n \in Handlers
    BY <1>2, <1>3, <2>3, <2>4, <2>5 DEF Handlers
  <2>7. ~InCatch
    BY <2>3 DEF InCatch
  <2> QED BY <1>2, <2>6, <2>7
<1>5. /\ tries' \in [Frame \cup VM -> Seq(Try)] /\ tries'[TopFrame] = <<>>
      /\ \A f \in Frame \cup VM : f # TopFrame => tries'[f] = tries[f]
  BY <1>1, <1>2, TryLeft
<1>6. TryPosition(H, n)'
  BY <1>2, <1>3, <1>5 DEF TryPosition
<1>7. /\ Running /\ Running' /\ ~Left /\ ~Left' /\ Len(tries'[TopFrame]) <= 1
      /\ mode' \in Mode
  BY <1>2, <1>5 DEF Running, Left, Mode
<1> QED BY <1>1, <1>2, <1>3, <1>4, <1>5, <1>6, <1>7, SameStep DEF StacksTyped

-----------------------------------------------------------------------------
(* Nothing happens.                                                        *)

\* The invariant is a state predicate of vars.
LEMMA StutterStep ==
  ASSUME IInv, UNCHANGED vars
  PROVE  IInv'
<1> USE DEF vars
<1>1. StacksTyped'
  BY DEF IInv, StacksTyped
<1>2. \A i \in Nat : IsBase(i)' = IsBase(i) /\ RunOf(i)' = RunOf(i) /\ KindOf(i)' = KindOf(i)
  BY DEF IsBase, RunOf, KindOf
<1>3. L' = L /\ L \in Nat /\ Top' = Top /\ Current' = Current /\ InCall' = InCall
  BY DEF L, Top, Current, InCall, IInv, StacksTyped
<1>4. StackInv'
  <2>1. FramesMatchStack'
    BY DEF IInv, StackInv, FramesMatchStack, Pushed, Constructed
  <2>2. RunsOnStack'
    BY <1>3 DEF IInv, StackInv, RunsOnStack, RunOf, IsBase
  <2>3. FramesOfStack'
    BY <1>3 DEF IInv, StackInv, FramesOfStack, IsBase
  <2>4. KindsOfRuns'
    BY DEF IInv, StackInv, KindsOfRuns
  <2>5. FirstFrames'
    BY <1>3 DEF IInv, StackInv, FirstFrames, StartsFunction, KindOf, RunOf, IsBase, Running
  <2> QED BY <2>1, <2>2, <2>3, <2>4, <2>5 DEF StackInv
<1>5. TriesInv'
  BY <1>3, ZenonT(30) DEF IInv, TriesInv, TriesOfStack, TriesBelow, Waits, CatchesAll, KindOf, RunOf, IsBase
<1>6. TriesOfLoaded'
  BY DEF IInv, TriesOfLoaded
<1>7. ASSUME NEW H \in Heights, NEW hang \in BOOLEAN, CallsInv(H, hang)
      PROVE  CallsInv(H, hang)'
  <2>0. /\ \A i \in 1 .. L : Height(H, i) /\ Entry(H, hang, i) /\ TryPosition(H, i)
        /\ \A i \in 1 .. L : OpenCalls(hang, i) /\ States(hang, i)
        /\ Lengths(H, hang) /\ DistinctEntries /\ DistinctHeld /\ HeldCallFramesAlive
        /\ OnTheWay(hang)
    BY <1>7 DEF CallsInv
  <2>1. Left' = Left
    BY DEF Left
  <2>2. \A i \in 1 .. L :
          /\ OpenHere(i)' = OpenHere(i) /\ Matched(i)' = Matched(i) /\ (Waits(i)' <=> Waits(i))
          /\ \A m \in VM : Held(i, m)' = Held(i, m)
    BY <1>3, <2>1 DEF OpenHere, Matched, Waits, Held, KindOf, RunOf, IsBase
  <2>3. \A i \in 1 .. L : Height(H, i)'
    <3> TAKE i \in 1 .. L
    <3>1. IsBase(i)' = IsBase(i)
      BY DEF IsBase
    <3>2. Height(H, i)
      BY <2>0
    <3> QED BY <2>2, <3>1, <3>2 DEF Height
  <2>4. \A i \in 1 .. L : Entry(H, hang, i)'
    <3> TAKE i \in 1 .. L
    <3>1. RunOf(i)' = RunOf(i)
      BY DEF RunOf, IsBase
    <3>2. Entry(H, hang, i)
      BY <2>0
    <3> QED BY <1>3, <2>2, <3>1, <3>2 DEF Entry
  <2>5. \A i \in 1 .. L : TryPosition(H, i)'
    BY <1>3, <2>0, <2>1 DEF TryPosition
  <2>6. \A i \in 1 .. L : OpenCalls(hang, i)'
    <3> TAKE i \in 1 .. L
    <3>1. (StartsFunction(i)' <=> StartsFunction(i)) /\ RunOf(i + 1)' = RunOf(i + 1)
      BY DEF StartsFunction, KindOf, RunOf, IsBase
    <3>2. OpenCalls(hang, i)
      BY <2>0
    <3> QED BY <1>3, <2>2, <3>1, <3>2 DEF OpenCalls, LeavesArguments
  <2>7. \A i \in 1 .. L : States(hang, i)'
    <3> TAKE i \in 1 .. L
    <3>1. IsFirst(i)' <=> IsFirst(i)
      BY DEF IsFirst, StartsFunction, KindOf, RunOf, IsBase
    <3>2. States(hang, i)
      BY <2>0
    <3> QED BY <1>3, <2>2, <3>1, <3>2 DEF States
  <2>8. Lengths(H, hang)'
    BY <1>3, <2>0 DEF Lengths
  <2>9. DistinctEntries' /\ DistinctHeld' /\ HeldCallFramesAlive'
    BY <2>0 DEF DistinctEntries, DistinctHeld, HeldCallFramesAlive
  <2>10. OnTheWay(hang)'
    BY <1>3, <2>0 DEF OnTheWay, CatchesAll
  <2> QED BY <1>3, <2>3, <2>4, <2>5, <2>6, <2>7, <2>8, <2>9, <2>10 DEF CallsInv
<1> QED BY <1>1, <1>4, <1>5, <1>6, <1>7 DEF IInv, CallsHold

-----------------------------------------------------------------------------
(* Frames go, and the k-th is on top.                                      *)

\* What is known of a frame.
FrameFacts(H, hang, k) ==
  /\ stack_frames[k] \in StackFrame /\ stack_frames[k].vm \in VM
  /\ stack_frames[k].frame \in Frame \cup VM
  /\ stack_frames[k].call_frame \in CallFrame \cup {None}
  /\ stack_frames[k].open \in Seq(CallFrame) /\ Len(stack_frames[k].open) \in Nat
  /\ Known(H, hang, k)

\* The invariant says this of every frame.
LEMMA FrameKnown ==
  ASSUME NEW H \in Heights, NEW hang \in BOOLEAN, NEW n \in Nat, Given(H, hang, n)
  PROVE  \A k \in 1 .. n : FrameFacts(H, hang, k)
<1> TAKE k \in 1 .. n
<1>1. n = L /\ Structure /\ CallsInv(H, hang)
  BY DEF Given
<1>2. stack_frames[k] \in StackFrame
  BY <1>1 DEF Structure
<1>3. /\ stack_frames[k].vm \in VM /\ stack_frames[k].frame \in Frame \cup VM
      /\ stack_frames[k].call_frame \in CallFrame \cup {None}
      /\ stack_frames[k].open \in Seq(CallFrame)
  BY <1>2 DEF StackFrame
<1>4. Known(H, hang, k)
  BY <1>1 DEF CallsInv, Known
<1> QED BY <1>2, <1>3, <1>4 DEF FrameFacts

\* The calls of the k-th frame are not touched, nor those below.
Untouched(H, k) ==
  \A c \in CallFrame :
    \/ calls'[c] = calls[c]
    \/ /\ Apart(H, k, c) /\ stack_frames[k].call_frame # c
       /\ \A j \in 1 .. Len(stack_frames[k].open) :
            calls[stack_frames[k].open[j]] = "pending" => stack_frames[k].open[j] # c

\* What is apart from the frames up to the k-th leaves the k-th untouched.
LEMMA ApartBelow ==
  ASSUME NEW H \in Heights, NEW hang \in BOOLEAN, NEW n \in Nat, Given(H, hang, n),
         NEW k \in 1 .. n - 1, \A c \in CallFrame : calls'[c] = calls[c] \/ Apart(H, k + 1, c)
  PROVE  Untouched(H, k)
<1>1. /\ StacksTyped /\ StackInv /\ Structure /\ CallsInv(H, hang) /\ HeightFacts(H, hang) /\ n = L
      /\ L \in Nat /\ Current \in VM
  BY DEF Given, Structure
<1> PICK q \in Nat : q = k + 1
  OBVIOUS
<1>2. q \in 1 .. L /\ k \in 1 .. q - 1 /\ q - 1 = k /\ k \in Nat \ {0}
  BY <1>1
<1> SUFFICES ASSUME NEW c \in CallFrame, Apart(H, q, c)
             PROVE  /\ Apart(H, k, c) /\ stack_frames[k].call_frame # c
                    /\ \A j \in 1 .. Len(stack_frames[k].open) :
                         calls[stack_frames[k].open[j]] = "pending" => stack_frames[k].open[j] # c
  BY DEF Untouched
<1>3. /\ stack_frames[k].call_frame # None => stack_frames[k].call_frame # c
      /\ \A j \in 1 .. Len(stack_frames[k].open) :
           calls[stack_frames[k].open[j]] = "pending" => stack_frames[k].open[j] # c
  BY <1>1, <1>2, ApartIs
<1>4. None # c
  BY CallStackAssumption
<1>5. Apart(H, k, c)
  <2>1. H[k - 1][Current] <= H[k][Current] /\ H[k - 1][Current] \in Nat /\ H[k][Current] \in Nat
    <3>1. k - 1 \in 0 .. L /\ k \in 0 .. L /\ k - 1 <= k
      BY <1>1, <1>2
    <3> QED BY <1>1, <3>1 DEF HeightFacts, Heights
  <2>2. \A x \in H[q - 1][Current] + 1 .. Len(call_frames[Current]) :
          x \in H[k - 1][Current] + 1 .. Len(call_frames[Current])
    <3>1. Len(call_frames[Current]) \in Nat
      BY DEF Given, TopFacts
    <3> QED BY <1>2, <2>1, <3>1, SMTT(30)
  <2>3. q <= Base => k <= Base
    BY <1>1, <1>2 DEF Structure
  <2> QED BY <2>2, <2>3 DEF Apart
<1> QED BY <1>3, <1>4, <1>5

\* The frames up to the k-th, now on top, are known as they were.
LEMMA NewTop ==
  ASSUME NEW H \in Heights, NEW hang \in BOOLEAN, NEW n \in Nat, Given(H, hang, n),
         NEW hang2 \in BOOLEAN, NEW k \in 1 .. n - 1, L' = k, SameBelow(k), SameOpen(k),
         ~Left', \A j \in 1 .. RunOf(k) : runs'[j] = runs[j],
         \A m \in VM, x \in Nat :
           /\ 1 <= x /\ x <= H[k][m]
           /\ ~(hang2 /\ m = stack_frames[k].vm /\ x = H[k][m])
           => call_frames'[m][x] = call_frames[m][x],
         Untouched(H, k), \A i \in 1 .. k : Shrinks(stack_frames[i].frame),
         hang2 <=> Waits(k),
         hang2 \/ LeavesArguments \/ mode' \notin {"throw", "again"} \/ stack_frames[k].open = <<>>
  PROVE  \A i \in 1 .. k : Known(H, hang2, i)'
<1>1. /\ StacksTyped /\ StackInv /\ Structure /\ CallsInv(H, hang) /\ HeightFacts(H, hang) /\ n = L
      /\ L \in Nat /\ k \in Nat \ {0} /\ k \in 1 .. L /\ k # L /\ k \in 1 .. n /\ k - 1 \in Nat
      /\ k - 1 \in 0 .. L /\ k \in 0 .. L /\ k - 1 <= k
  <2>1. /\ StacksTyped /\ StackInv /\ Structure /\ CallsInv(H, hang) /\ HeightFacts(H, hang) /\ n = L
        /\ L \in Nat
    BY DEF Given, Structure
  <2>2. \A l \in Nat : \A j \in 1 .. l - 1 :
          /\ j \in Nat \ {0} /\ j \in 1 .. l /\ j # l /\ j - 1 \in Nat
          /\ j - 1 \in 0 .. l /\ j \in 0 .. l /\ j - 1 <= j
    OBVIOUS
  <2> QED BY <2>1, <2>2
<1>2. FrameFacts(H, hang, k)
  BY <1>1, FrameKnown
<1> PICK m \in VM : m = stack_frames[k].vm
  BY <1>2 DEF FrameFacts
<1> PICK o \in Nat : o = Len(stack_frames[k].open)
  BY <1>2 DEF FrameFacts
<1> PICK h \in Nat : h = H[k][m]
  BY <1>1 DEF Heights
<1> PICK g \in Nat : g = H[k - 1][m]
  BY <1>1, SMTT(30) DEF Heights
<1>3. g <= h - o /\ h - o \in Nat
  <2>1. OpenHere(k) = o
    BY <1>1 DEF OpenHere
  <2> QED BY <1>1, <2>1 DEF HeightFacts
<1>4. hang2 => o # 0
  BY <1>2 DEF FrameFacts, Known, OpenCalls
<1>5. \A i \in 1 .. k - 1 : Known(H, hang2, i)'
  <2>1. \A x \in VM : H[k - 1][x] <= H[k][x]
    BY <1>1 DEF HeightFacts
  <2>2. \A y \in VM, x \in Nat : 1 <= x /\ x <= H[k - 1][y] => call_frames'[y][x] = call_frames[y][x]
    <3> TAKE y \in VM, x \in Nat
    <3> HAVE 1 <= x /\ x <= H[k - 1][y]
    <3>1. H[k - 1][y] \in Nat /\ H[k][y] \in Nat
      BY <1>1 DEF Heights
    <3>2. x <= H[k][y]
      BY <2>1, <3>1
    <3>3. ~(hang2 /\ y = m /\ x = H[k][y])
      <4> SUFFICES ASSUME hang2, y = m PROVE x # H[k][y]
        OBVIOUS
      <4>1. H[k - 1][y] <= h - o /\ o # 0 /\ h = H[k][y]
        BY <1>3, <1>4
      <4>2. \A a, b1, c1, d \in Nat : a <= b1 /\ b1 <= c1 - d /\ d # 0 => a # c1
        OBVIOUS
      <4> QED BY <3>1, <4>1, <4>2, ZenonT(30)
    <3> QED BY <3>2, <3>3
  <2>3. \A c \in CallFrame : calls'[c] = calls[c] \/ Apart(H, k, c)
    BY DEF Untouched
  <2>4. SameOpen(k - 1) /\ \A i \in 1 .. k - 1 : Shrinks(stack_frames[i].frame)
    BY <1>1, SMTT(30) DEF SameOpen
  <2>5. Undisturbed(H, H, k)
    BY <2>2, <2>3, <2>4 DEF Undisturbed
  <2>6. k <= L' /\ L' \in Nat
    BY <1>1
  <2> QED BY <1>1, <2>5, <2>6, KeptBelow DEF Known
<1>6. Known(H, hang2, k)'
  <2>1. KeepsPlace(H, H, k, o)
    <3>1. h = (h - o) + o
      OBVIOUS
    <3>2. k <= L' /\ L' \in Nat /\ o <= o
      BY <1>1
    <3>3. stack_frames'[k].open = stack_frames[k].open
      BY <1>1 DEF SameOpen
    <3> QED BY <1>1, <3>1, <3>2, <3>3 DEF KeepsPlace
  <2>2. KeepsCalls(H, H, hang, hang2, k, o)
    <3>1. stack_frames[k].call_frame # None =>
            calls'[stack_frames[k].call_frame] = calls[stack_frames[k].call_frame]
      BY <1>2 DEF Untouched, FrameFacts
    <3>2. \A j \in 1 .. o : (j = o /\ k = L' /\ hang2) \/ calls'[stack_frames[k].open[j]] = "pending"
      <4> TAKE j \in 1 .. o
      <4>1. stack_frames[k].open[j] \in CallFrame
        BY <1>2 DEF FrameFacts
      <4>2. (j = o /\ Waits(k)) \/ calls[stack_frames[k].open[j]] = "pending"
        BY <1>1, <1>2 DEF FrameFacts, Known, States, OpenHere
      <4>3. calls[stack_frames[k].open[j]] = "pending" => calls'[stack_frames[k].open[j]] = "pending"
        BY <4>1 DEF Untouched
      <4> QED BY <4>2, <4>3
    <3>3. \A y \in VM, x \in Nat :
            /\ 1 <= x /\ x <= H[k][y]
            /\ ~(k = L' /\ hang2 /\ y = stack_frames[k].vm /\ x = H[k][y] /\ o # 0)
            => call_frames'[y][x] = call_frames[y][x]
      BY <1>4
    <3> QED BY <1>1, <3>1, <3>2, <3>3 DEF KeepsCalls
  <2>3. OpenCalls(hang2, k)'
    <3>1. IsBase(k)' = IsBase(k) /\ RunOf(k)' = RunOf(k)
      <4>1. k \in 0 .. k /\ k \in 1 .. k
        BY <1>1
      <4> QED BY <1>1, <4>1, CountsBelow
    <3>2. RunOf(k) \in 1 .. RunOf(k)
      BY <1>1 DEF Structure
    <3>3. StartsFunction(k)' => StartsFunction(k)
      BY <3>1, <3>2 DEF StartsFunction, KindOf
    <3>4. ~Waits(k)' /\ ~(k < L')
      BY <1>1 DEF Waits
    <3>5. stack_frames'[k].open = stack_frames[k].open
      BY <1>1 DEF SameOpen
    <3>7. LeavesArguments' <=> LeavesArguments
      BY DEF LeavesArguments
    <3>6. OpenCalls(hang, k)
      BY <1>2 DEF FrameFacts, Known
    <3> QED BY <3>3, <3>4, <3>5, <3>6, <3>7 DEF OpenCalls
  <2>4. Shrinks(stack_frames[k].frame)
    BY <1>1
  <2> QED BY <1>1, <2>1, <2>2, <2>3, <2>4, KeptFrame
<1> QED BY <1>1, <1>5, <1>6

\* The frames above the k-th are popped.
LEMMA StackCut ==
  ASSUME NEW H \in Heights, NEW hang \in BOOLEAN, NEW n \in Nat, Given(H, hang, n),
         NEW k \in Nat, k <= n, stack_frames' = StackWithout(n - k)
  PROVE  /\ stack_frames' \in Seq(StackFrame) /\ L' = k
         /\ \A i \in 1 .. k : stack_frames'[i] = stack_frames[i]
         /\ SameBelow(k) /\ SameOpen(k)
<1>1. StacksTyped /\ n = L
  BY DEF Given
<1>2. n - k \in 0 .. n /\ n - (n - k) = k
  OBVIOUS
<1>3. /\ StackWithout(n - k) \in Seq(StackFrame) /\ Len(StackWithout(n - k)) = k
      /\ \A i \in 1 .. k : StackWithout(n - k)[i] = stack_frames[i]
  BY <1>1, <1>2, StackWithoutIs
<1> QED BY <1>3 DEF L, SameBelow, SameOpen

\* A frame of a class body has a frame of its run below it.
LEMMA ClassFrame ==
  ASSUME NEW H \in Heights, NEW hang \in BOOLEAN, NEW n \in Nat, Given(H, hang, n),
         mode = "run", ~IsBase(n)
  PROVE  /\ Base \in 1 .. n - 1 /\ n - 1 \in 1 .. n - 1 /\ n - 1 \in Base .. L /\ ~Waits(n - 1)
         /\ stack_frames[n].call_frame = None => (n - 1 = Base => ~StartsFunction(Base))
<1>1. /\ n = L /\ n \in Nat \ {0} /\ Structure /\ StackInv
  BY DEF Given
<1>2. Base \in 1 .. n /\ IsBase(Base)
  BY <1>1 DEF Structure
<1>3. Base \in 1 .. n - 1 /\ n - 1 \in 1 .. n - 1 /\ n - 1 \in Base .. L /\ (n - 1) + 1 = n
  BY <1>1, <1>2
<1>4. ASSUME stack_frames[n].call_frame = None, n - 1 = Base, StartsFunction(Base) PROVE FALSE
  <2>1. Base \in 1 .. L /\ Base # L /\ Base + 1 = n
    BY <1>1, <1>2, <1>3, <1>4
  <2>2. stack_frames[n].call_frame = runs[RunOf(Base)].call_frame
    BY <1>1, <1>4, <2>1 DEF StackInv, FirstFrames
  <2>3. runs[RunOf(Base)].kind \in ForFunction /\ RunOf(Base) \in 1 .. Len(runs)
    BY <1>1, <1>4, <2>1 DEF StartsFunction, KindOf, Structure
  <2> QED BY <1>1, <1>4, <2>2, <2>3 DEF StackInv, KindsOfRuns
<1>5. ~Waits(n - 1)
  BY <1>3 DEF Waits
<1> QED BY <1>3, <1>4, <1>5

\* The tries of the frames that are popped are gone with them.
LEMMA TriesCut ==
  ASSUME NEW H \in Heights, NEW hang \in BOOLEAN, NEW n \in Nat, Given(H, hang, n),
         NEW k \in Base .. L, tries' = TriesWithout(n - k)
  PROVE  /\ tries' \in [Frame \cup VM -> Seq(Try)] /\ \A f \in Frame \cup VM : Shrinks(f)
         /\ \A f \in Frame : tries'[f] # <<>> => \E i \in 1 .. k : stack_frames[i].frame = f
         /\ \A f \in VM : tries'[f] = tries[f]
<1>1. StacksTyped /\ StackInv /\ TriesInv /\ n = L /\ n \in Nat /\ Base \in 1 .. L /\ VM \cap Frame = {}
  BY CallStackAssumption DEF Given, Structure
<1>2. n - k \in 0 .. L - Base /\ k \in Nat /\ (L - (n - k)) = k
  BY <1>1
<1>3. /\ tries' \in [Frame \cup VM -> Seq(Try)]
      /\ \A f \in Frame \cup VM :
           tries'[f] = IF f \in Frame /\ \E j \in k + 1 .. L : stack_frames[j].frame = f
                       THEN <<>> ELSE tries[f]
  <2>1. \A f \in Frame \cup VM :
          TriesWithout(n - k)[f] =
             IF f \in Frame /\ \E j \in (L - (n - k)) + 1 .. L : stack_frames[j].frame = f
             THEN <<>> ELSE tries[f]
    <3>1. L - (n - k) + 1 = (L - (n - k)) + 1
      BY <1>1, <1>2
    <3> QED BY <1>1, <1>2, <3>1, TriesWithoutIs
  <2> QED BY <1>1, <1>2, <2>1, TriesWithoutIs
<1>4. ASSUME NEW f \in Frame, tries'[f] # <<>>
      PROVE  \E i \in 1 .. k : stack_frames[i].frame = f
  <2>1. ~(\E j \in k + 1 .. L : stack_frames[j].frame = f) /\ tries[f] # <<>>
    BY <1>3, <1>4
  <2>2. PICK i \in 1 .. L : stack_frames[i].frame = f
    BY <1>1, <2>1 DEF TriesInv, TriesOfStack
  <2>3. i \notin k + 1 .. L
    BY <2>1, <2>2
  <2>4. i \in 1 .. k
    BY <1>1, <1>2, <2>3
  <2> QED BY <2>2, <2>4
<1>5. \A f \in VM : tries'[f] = tries[f]
  BY <1>1, <1>3
<1>6. \A f \in Frame \cup VM : Shrinks(f)
  BY <1>3 DEF Shrinks
<1> QED BY <1>3, <1>4, <1>5, <1>6

\* PopFrame: the body of a class ends.
LEMMA EndClassStep ==
  ASSUME IInv, WorkingFeatures, EndClass
  PROVE  IInv'
<1>1. PICK H \in Heights, hang \in BOOLEAN, n \in Nat : Given(H, hang, n)
  BY GivenHolds
<1>2. /\ mode = "run" /\ mode' = "run" /\ ~InCall
      /\ Top.frame \in Frame /\ Top.call_frame = None /\ tries[TopFrame] = <<>>
      /\ frames' = FramesWithout(1) /\ stack_frames' = StackWithout(1)
      /\ UNCHANGED <<call_frames, calls, tries, runs, imports, loaded, raised, by_call>>
  BY DEF EndClass, AtStatement
<1>3. /\ StacksTyped /\ StackInv /\ TriesInv /\ TriesOfLoaded /\ Structure /\ CallsInv(H, hang) /\ n = L
      /\ ~hang /\ Top.open = <<>> /\ Top = stack_frames[n] /\ TopFrame = stack_frames[n].frame
      /\ n \in Nat \ {0}
  BY <1>1, <1>2, NoHang DEF Given, InCall
<1>4. ~IsBase(n)
  BY <1>2, <1>3, CallStackAssumption DEF IsBase
<1> PICK k \in Nat : k = n - 1
  BY <1>3
<1>5. /\ Base \in 1 .. k /\ k \in 1 .. n - 1 /\ k \in Base .. L /\ k < n /\ n - k = 1
      /\ ~Waits(k) /\ (k = Base => ~StartsFunction(Base)) /\ k + 1 = n
  <2>1. n - k = 1 /\ k < n /\ k + 1 = n
    BY <1>3
  <2> QED BY <1>1, <1>2, <1>3, <1>4, <2>1, ClassFrame
<1>6. /\ stack_frames' \in Seq(StackFrame) /\ L' = k /\ SameBelow(k) /\ SameOpen(k)
      /\ \A i \in 1 .. k : stack_frames'[i] = stack_frames[i]
  <2>1. stack_frames' = StackWithout(n - k) /\ k <= n
    BY <1>2, <1>5
  <2> QED BY <1>1, <2>1, StackCut
<1>7. Len(frames[Current]) \in Nat /\ Len(frames[Current]) >= L - Base
  BY <1>3, RunFrames
<1>8. frames' \in [VM -> Seq(Frame \cup VM)]
  <2>1. Current \in VM /\ Base \in Nat /\ L - Base >= 1
    <3>1. \A b \in 1 .. k : b \in Nat /\ n - b >= 1
      BY <1>5
    <3> QED BY <1>3, <1>5, <3>1 DEF Structure
  <2>2. 1 \in 0 .. Len(frames[Current])
    BY <1>3, <1>7, <2>1
  <2> QED BY <1>2, <1>3, <2>1, <2>2, FramesWithoutType
<1>9. StacksTyped'
  BY <1>2, <1>3, <1>6, <1>8 DEF StacksTyped
<1>10. StackInv'
  <2>1. frames' = FramesWithout(L - k)
    BY <1>2, <1>3, <1>5
  <2> QED BY <1>2, <1>3, <1>5, <1>6, <2>1, StackPop
<1>11. TriesInv'
  <2>1. \A f \in Frame \cup VM : Len(tries'[f]) <= 1
    BY <1>2, <1>3 DEF TriesInv, TriesOfStack
  <2>2. ASSUME NEW f \in Frame, tries'[f] # <<>>
        PROVE  \E i \in 1 .. k : stack_frames[i].frame = f
    <3>1. PICK i \in 1 .. L : stack_frames[i].frame = f
      BY <1>2, <1>3, <2>2 DEF TriesInv, TriesOfStack
    <3>2. i # n
      BY <1>2, <1>3, <2>2, <3>1
    <3> QED BY <1>3, <3>1, <3>2
  <2>3. \A f : Shrinks(f)
    BY <1>2 DEF Shrinks
  <2> QED BY <1>2, <1>3, <1>5, <1>6, <2>1, <2>2, <2>3, TriesPop
<1>12. TriesOfLoaded'
  BY <1>2, <1>3 DEF TriesOfLoaded
<1>13. \A i \in 1 .. k : Known(H, hang, i)'
  <2>1. Untouched(H, k)
    BY <1>2 DEF Untouched
  <2>2. ~Left' /\ \A f : Shrinks(f)
    BY <1>2 DEF Left, Shrinks
  <2>3. /\ \A j \in 1 .. RunOf(k) : runs'[j] = runs[j]
        /\ \A m \in VM, x \in Nat : call_frames'[m][x] = call_frames[m][x]
    BY <1>2
  <2> QED BY <1>1, <1>2, <1>3, <1>5, <1>6, <2>1, <2>2, <2>3, NewTop
<1>14. Lengths(H, hang)'
  <2>1. \A m \in VM : H[k][m] = H[n][m]
    <3> TAKE m \in VM
    <3>1. H[k][m] \in Nat /\ H[n][m] \in Nat /\ n - 1 = k
      BY DEF Heights
    <3>2. Height(H, n) /\ stack_frames[n].vm = Current
      BY <1>3 DEF CallsInv, Structure
    <3>3. Held(n, m) = 0 /\ Matched(n) = 0 /\ OpenHere(n) = 0
      <4>1. Len(stack_frames[n].open) = 0
        BY <1>3
      <4> QED BY <1>2, <1>3, <1>4, <4>1 DEF Held, Matched, OpenHere
    <3>4. CASE m = Current
      <4>1. H[n][m] = H[k][m] + 0 + 0
        BY <1>4, <3>1, <3>2, <3>3, <3>4 DEF Height
      <4> QED BY <3>1, <4>1
    <3>5. CASE m # Current
      <4>1. H[n][m] = H[k][m] + 0
        BY <1>4, <3>1, <3>2, <3>3, <3>5 DEF Height
      <4> QED BY <3>1, <4>1
    <3> QED BY <3>4, <3>5
  <2>2. \A i \in 1 .. k : \E j \in 1 .. n : stack_frames'[i].vm = stack_frames[j].vm
    <3>1. \A i \in 1 .. k : i \in 1 .. n
      BY <1>5
    <3> QED BY <1>6, <3>1
  <2> QED BY <1>1, <1>2, <1>3, <1>6, <2>1, <2>2, LengthsKept
<1>15. DistinctEntries' /\ DistinctHeld' /\ HeldCallFramesAlive'
  BY <1>2, <1>3 DEF CallsInv, DistinctEntries, DistinctHeld, HeldCallFramesAlive
<1>16. OnTheWay(hang)'
  BY <1>2, <1>3 DEF OnTheWay
<1>17. CallsHold'
  <2>1. (\A i \in 1 .. k - 1 : Known(H, hang, i)') /\ Known(H, hang, k)'
    BY <1>5, <1>13
  <2> QED BY <1>3, <1>6, <1>14, <1>15, <1>16, <2>1, CallsAgain
<1> QED BY <1>9, <1>10, <1>11, <1>12, <1>17 DEF IInv

-----------------------------------------------------------------------------
(* Return and ReturnConst.                                                 *)

\* What a Return finds: k frames below it, the call frame c of its function
\* last in the list.
ReturnFacts(H, hang, n, k, top, c) ==
  /\ Given(H, hang, n) /\ RunningNow(H, hang, n, 0, top) /\ ~hang /\ top \in Nat \ {0}
  /\ ~IsBase(n) /\ stack_frames[n].open = <<>>
  /\ c = stack_frames[n].call_frame /\ call_frames[Current][top] = c /\ TopCall = c
  /\ top = Len(call_frames[Current]) /\ top = H[n][Current]
  /\ n \in Nat \ {0} /\ n = L /\ k \in Nat \ {0} /\ k < n /\ n - k = 1 /\ n - 1 = k
  /\ Base \in 1 .. k /\ k \in 1 .. n - 1 /\ k \in Base .. L /\ ~Waits(k)
  /\ calls[c] = (IF IsFirst(n) THEN "outer" ELSE "inner")
  /\ IsFirst(n) <=> (k = Base /\ StartsFunction(Base))
  /\ H[k][Current] = top - 1 /\ \A m \in VM : m # Current => H[k][m] = H[n][m]

\* A Return finds its own call frame last in the list.
LEMMA ReturnIs ==
  ASSUME IInv, mode = "run", ~InCall, Top.call_frame # None
  PROVE  \E H \in Heights, hang \in BOOLEAN, n, k, top \in Nat, c \in CallFrame :
           ReturnFacts(H, hang, n, k, top, c)
<1>1. PICK H \in Heights, hang \in BOOLEAN, n \in Nat : Given(H, hang, n)
  BY GivenHolds
<1>2. PICK l \in Nat, top \in Nat : RunningNow(H, hang, n, l, top)
  BY <1>1, RunningIs
<1>3. /\ StackInv /\ Structure /\ CallsInv(H, hang) /\ n = L
      /\ ~hang /\ stack_frames[n].open = <<>> /\ Top = stack_frames[n] /\ n \in Nat \ {0}
  BY <1>1, NoHang DEF Given, InCall
<1>4. l = 0
  <2>1. Len(<<>>) = 0
    OBVIOUS
  <2> QED BY <1>2, <1>3, <2>1 DEF RunningNow
<1>5. RunningNow(H, hang, n, 0, top)
  BY <1>2, <1>4
<1> PICK c \in CallFrame : c = stack_frames[n].call_frame
  <2>1. stack_frames[n].call_frame \in CallFrame \cup {None} /\ stack_frames[n].call_frame # None
    BY <1>2, <1>3 DEF RunningNow
  <2> QED BY <2>1
<1>6. c # None /\ Matched(n) = 1
  BY CallStackAssumption DEF Matched
<1>7. /\ top \in Nat \ {0} /\ call_frames[Current][top] = c
      /\ calls[c] = (IF IsFirst(n) THEN "outer" ELSE "inner")
      /\ top = Len(call_frames[Current]) /\ top = H[n][Current] /\ call_frames[Current] \in Seq(CallFrame)
      /\ Current \in VM
  <2>1. top - 0 \in 1 .. top /\ call_frames[Current][top - 0] = c
    BY <1>5, <1>6 DEF RunningNow
  <2>2. top \in Nat \ {0} /\ call_frames[Current][top] = c
    BY <2>1
  <2> QED BY <1>5, <1>6, <2>2 DEF RunningNow
<1>8. TopCall = c
  <2>1. call_frames[Current] # <<>>
    BY <1>7
  <2> QED BY <1>7, <2>1 DEF TopCall, Last
<1>9. ~IsBase(n)
  <2>1. n \in 1 .. L
    BY <1>3
  <2> QED BY <1>3, <1>6, <2>1 DEF StackInv, FramesOfStack
<1> PICK k \in Nat : k = n - 1
  BY <1>3
<1>10. /\ Base \in 1 .. k /\ k \in 1 .. n - 1 /\ k \in Base .. L /\ ~Waits(k)
       /\ k < n /\ n - k = 1 /\ n - 1 = k
  <2>1. n - k = 1 /\ k < n /\ n - 1 = k
    BY <1>3
  <2> QED BY <1>1, <1>9, <2>1, ClassFrame
<1>11. k \in Nat \ {0}
  BY <1>10
<1>12. IsFirst(n) <=> (k = Base /\ StartsFunction(Base))
  <2>1. n > 1
    BY <1>10, <1>11
  <2>2. k # Base => ~IsBase(k)
    BY <1>3, <1>10 DEF Structure
  <2> QED BY <1>10, <2>1, <2>2 DEF IsFirst, StartsFunction
<1>13. /\ H[k][Current] = top - 1
       /\ \A m \in VM : m # Current => H[k][m] = H[n][m]
  <2>1. Height(H, n) /\ stack_frames[n].vm = Current
    BY <1>3 DEF CallsInv, Structure
  <2>2. OpenHere(n) = 0
    <3>1. Len(stack_frames[n].open) = 0
      BY <1>3
    <3> QED BY <3>1 DEF OpenHere
  <2>3. H[k][Current] \in Nat /\ H[n][Current] = H[k][Current] + 1 + 0
    BY <1>6, <1>7, <1>9, <1>10, <2>1, <2>2 DEF Height, Heights
  <2>4. ASSUME NEW m \in VM, m # Current PROVE H[k][m] = H[n][m]
    <3>1. H[k][m] \in Nat /\ Held(n, m) = 0
      BY <1>9 DEF Heights, Held
    <3>2. H[n][m] = H[k][m] + 0
      BY <1>10, <2>1, <2>4, <3>1 DEF Height
    <3> QED BY <3>1, <3>2
  <2> QED BY <1>7, <2>3, <2>4
<1>14. ReturnFacts(H, hang, n, k, top, c)
  BY <1>1, <1>3, <1>5, <1>7, <1>8, <1>9, <1>10, <1>11, <1>12, <1>13 DEF ReturnFacts
<1> QED BY <1>14

\* The frame of the function is popped, with its tries, and its call frame
\* is out of the list.
LEMMA ReturnFrames ==
  ASSUME NEW H \in Heights, NEW hang \in BOOLEAN, NEW n \in Nat, NEW k \in Nat, NEW top \in Nat,
         NEW c \in CallFrame, ReturnFacts(H, hang, n, k, top, c),
         frames' = FramesWithout(1), tries' = TriesWithout(1), stack_frames' = StackWithout(1),
         UNCHANGED <<runs, imports, loaded, raised, by_call>>,
         mode' \in {"run", "end"}, mode' = "end" <=> IsFirst(n),
         call_frames' \in [VM -> Seq(CallFrame)], calls' \in [CallFrame -> CallState],
         Len(call_frames'[Current]) = top - 1,
         \A i \in 1 .. top - 1 : call_frames'[Current][i] = call_frames[Current][i],
         \A m \in VM : m # Current => call_frames'[m] = call_frames[m],
         Untouched(H, k)
  PROVE  /\ StacksTyped' /\ StackInv' /\ TriesInv' /\ TriesOfLoaded' /\ Lengths(H, hang)'
         /\ L' = k /\ \A i \in 1 .. k : stack_frames'[i] = stack_frames[i] /\ Known(H, hang, i)'
<1>1. /\ Given(H, hang, n) /\ ~hang /\ n = L /\ k < n /\ n - k = 1 /\ n - 1 = k /\ top \in Nat \ {0}
      /\ Base \in 1 .. k /\ k \in 1 .. n - 1 /\ k \in Base .. L /\ ~Waits(k)
      /\ IsFirst(n) <=> (k = Base /\ StartsFunction(Base))
      /\ H[k][Current] = top - 1 /\ \A m \in VM : m # Current => H[k][m] = H[n][m]
  BY DEF ReturnFacts
<1>2. /\ StacksTyped /\ StackInv /\ TriesInv /\ TriesOfLoaded /\ Structure /\ CallsInv(H, hang)
      /\ Current \in VM
  BY <1>1 DEF Given, Structure
<1>3. /\ stack_frames' \in Seq(StackFrame) /\ L' = k /\ SameBelow(k) /\ SameOpen(k)
      /\ \A i \in 1 .. k : stack_frames'[i] = stack_frames[i]
  <2>1. stack_frames' = StackWithout(n - k) /\ k <= n
    BY <1>1
  <2> QED BY <1>1, <2>1, StackCut
<1>4. frames' \in [VM -> Seq(Frame \cup VM)]
  <2>1. Len(frames[Current]) \in Nat /\ Len(frames[Current]) >= L - Base
    BY <1>2, RunFrames
  <2>2. \A b \in 1 .. k : b \in Nat /\ n - b >= 1
    BY <1>1
  <2>3. 1 \in 0 .. Len(frames[Current])
    BY <1>1, <2>1, <2>2
  <2> QED BY <1>2, <2>3, FramesWithoutType
<1>5. /\ tries' \in [Frame \cup VM -> Seq(Try)] /\ \A f \in Frame \cup VM : Shrinks(f)
      /\ \A f \in Frame : tries'[f] # <<>> => \E i \in 1 .. k : stack_frames[i].frame = f
      /\ \A f \in VM : tries'[f] = tries[f]
  <2>1. tries' = TriesWithout(n - k)
    BY <1>1
  <2> QED BY <1>1, <2>1, TriesCut, ZenonT(30)
<1>6. \A i \in 1 .. L : stack_frames[i].frame \in Frame \cup VM
  BY <1>2 DEF Structure, StackFrame
<1>7. StacksTyped'
  BY <1>2, <1>3, <1>4, <1>5 DEF StacksTyped, Mode
<1>8. StackInv'
  <2>1. frames' = FramesWithout(L - k) /\ (mode' \in {"end", "leave"} => k = Base)
    BY <1>1
  <2>2. k = Base /\ StartsFunction(Base) => ~Running'
    BY <1>1 DEF Running
  <2> QED BY <1>1, <1>2, <1>3, <2>1, <2>2, StackPop
<1>9. TriesInv'
  <2>1. \A f \in Frame \cup VM : Len(tries'[f]) <= 1
    <3>1. \A f \in Frame \cup VM : Len(tries[f]) <= 1
      BY <1>2 DEF TriesInv, TriesOfStack
    <3>2. Len(<<>>) <= 1
      OBVIOUS
    <3> QED BY <1>5, <3>1, <3>2 DEF Shrinks
  <2>2. \A i \in 1 .. k - 1 : Shrinks(stack_frames[i].frame)
    <3>1. \A i \in 1 .. k - 1 : i \in 1 .. L
      BY <1>1
    <3> QED BY <1>5, <1>6, <3>1
  <2>3. \A j \in 1 .. Len(runs) : runs[j].kind \in ForFunction => Shrinks(runs[j].vm)
    BY <1>2, <1>5 DEF Structure, Activation
  <2> QED BY <1>1, <1>2, <1>3, <1>5, <2>1, <2>2, <2>3, TriesPop
<1>10. TriesOfLoaded'
  BY <1>2, <1>5 DEF TriesOfLoaded
<1>11. \A i \in 1 .. k : Known(H, hang, i)'
  <2>1. ~Left' /\ mode' \notin {"throw", "again"}
    BY DEF Left
  <2>2. \A i \in 1 .. k : Shrinks(stack_frames[i].frame)
    <3>1. \A i \in 1 .. k : i \in 1 .. L
      BY <1>1
    <3> QED BY <1>5, <1>6, <3>1
  <2>3. \A m \in VM, x \in Nat : 1 <= x /\ x <= H[k][m] => call_frames'[m][x] = call_frames[m][x]
    <3> TAKE m \in VM, x \in Nat
    <3> HAVE 1 <= x /\ x <= H[k][m]
    <3>1. m = Current => x \in 1 .. top - 1
      BY <1>1
    <3> QED BY <3>1
  <2>4. \A m \in VM, x \in Nat :
          /\ 1 <= x /\ x <= H[k][m] /\ ~(hang /\ m = stack_frames[k].vm /\ x = H[k][m])
          => call_frames'[m][x] = call_frames[m][x]
    BY <2>3
  <2>5. \A j \in 1 .. RunOf(k) : runs'[j] = runs[j]
    OBVIOUS
  <2>6. hang <=> Waits(k)
    BY <1>1
  <2>7. /\ Given(H, hang, n) /\ k \in 1 .. n - 1 /\ L' = k /\ SameBelow(k) /\ SameOpen(k)
        /\ hang \/ LeavesArguments \/ mode' \notin {"throw", "again"} \/ stack_frames[k].open = <<>>
    BY <1>1, <1>3, <2>1
  <2>8. Untouched(H, k)
    OBVIOUS
  <2> QED BY <2>1, <2>2, <2>4, <2>5, <2>6, <2>7, <2>8, NewTop
<1>12. Lengths(H, hang)'
  <2>1. Lengths(H, hang) /\ Current' = Current
    BY <1>2 DEF CallsInv, Current
  <2> SUFFICES ASSUME NEW m \in VM
               PROVE  /\ H[k][m] <= Len(call_frames'[m])
                      /\ "reentry" \in Features \/ (\E i \in 1 .. k : stack_frames'[i].vm = m)
                           => H[k][m] = Len(call_frames'[m])
    <3>1. \A m \in VM : Len(call_frames'[m]) \in Nat
      OBVIOUS
    <3> QED BY <1>1, <1>3, <3>1 DEF Lengths
  <2>2. CASE m = Current
    <3>1. H[k][m] = Len(call_frames'[m]) /\ H[k][m] \in Nat
      BY <1>1, <2>2
    <3> QED BY <3>1
  <2>3. CASE m # Current
    <3>1. H[k][m] = H[n][m] /\ call_frames'[m] = call_frames[m]
      BY <1>1, <2>3
    <3>2. /\ H[n][m] <= Len(call_frames[m]) + 0
          /\ "reentry" \in Features \/ (\E i \in 1 .. n : stack_frames[i].vm = m)
               => H[n][m] = Len(call_frames[m]) + 0
      BY <1>1, <2>1 DEF Lengths
    <3>3. Len(call_frames[m]) \in Nat /\ H[n][m] \in Nat
      BY <1>1, ZenonT(30) DEF Given, TopFacts, Heights
    <3>4. \A i \in 1 .. k : i \in 1 .. n /\ stack_frames'[i].vm = stack_frames[i].vm
      BY <1>1, <1>3
    <3>5. /\ H[n][m] <= Len(call_frames[m])
          /\ "reentry" \in Features \/ (\E i \in 1 .. n : stack_frames[i].vm = m)
               => H[n][m] = Len(call_frames[m])
      BY <3>2, <3>3
    <3> QED BY <3>1, <3>4, <3>5
  <2> QED BY <2>2, <2>3
<1> QED BY <1>3, <1>7, <1>8, <1>9, <1>10, <1>11, <1>12

\* A function returns to its caller in the same run: the call frame is deleted.
LEMMA ReturnInnerStep ==
  ASSUME IInv, WorkingFeatures, Return, ~EndsRun(TopCall)
  PROVE  IInv'
<1>1. /\ mode = "run" /\ mode' = "run" /\ ~InCall /\ Top.call_frame # None
      /\ frames' = FramesWithout(1) /\ tries' = TriesWithout(1) /\ stack_frames' = StackWithout(1)
      /\ PopCallFrames(Current, 1) /\ UNCHANGED <<runs, imports, loaded, raised, by_call>>
  BY DEF Return, AtStatement
<1>2. PICK H \in Heights, hang \in BOOLEAN, n \in Nat, k \in Nat, top \in Nat, c \in CallFrame :
        ReturnFacts(H, hang, n, k, top, c)
  BY <1>1, ReturnIs
<1>3. /\ Given(H, hang, n) /\ ~hang /\ n = L /\ top \in Nat \ {0} /\ calls[c] = "inner" /\ ~IsFirst(n)
      /\ call_frames[Current][top] = c /\ top = Len(call_frames[Current]) /\ n - 1 = k /\ k \in 1 .. n - 1
      /\ H[k][Current] = top - 1 /\ n - 1 = k /\ k + 1 = n /\ RunningNow(H, hang, n, 0, top)
  <2>1. TopCall = c
    BY <1>2 DEF ReturnFacts
  <2>2. calls[c] # "outer"
    BY <2>1 DEF EndsRun
  <2> QED BY <1>2, <2>2 DEF ReturnFacts
<1>4. CallPopped(Current, c, top)
  <2>1. Current \in VM
    BY <1>3 DEF RunningNow
  <2> QED BY <1>1, <1>3, <2>1, CallIsPopped
<1>5. Untouched(H, k)
  <2>1. Apart(H, n, c)
    <3>1. top \in H[n - 1][Current] + 1 .. Len(call_frames[Current])
      BY <1>3
    <3> QED BY <1>3, <3>1 DEF Apart
  <2>2. \A d \in CallFrame : calls'[d] = calls[d] \/ Apart(H, k + 1, d)
    BY <1>3, <1>4, <2>1 DEF CallPopped
  <2> QED BY <1>3, <2>2, ApartBelow
<1>6. /\ StacksTyped' /\ StackInv' /\ TriesInv' /\ TriesOfLoaded' /\ Lengths(H, hang)'
      /\ L' = k /\ \A i \in 1 .. k : stack_frames'[i] = stack_frames[i] /\ Known(H, hang, i)'
  <2>1. /\ call_frames' \in [VM -> Seq(CallFrame)] /\ calls' \in [CallFrame -> CallState]
        /\ Len(call_frames'[Current]) = top - 1
        /\ \A m \in VM : m # Current => call_frames'[m] = call_frames[m]
    BY <1>4 DEF CallPopped
  <2>2. \A i \in 1 .. top - 1 : call_frames'[Current][i] = call_frames[Current][i]
    <3>1. \A i \in 1 .. top - 1 : i \in Nat /\ 1 <= i /\ i < top
      BY <1>3
    <3>2. Current \in VM
      BY <1>3 DEF RunningNow
    <3> QED BY <1>4, <3>1, <3>2 DEF CallPopped
  <2>3. /\ ReturnFacts(H, hang, n, k, top, c)
        /\ frames' = FramesWithout(1) /\ tries' = TriesWithout(1) /\ stack_frames' = StackWithout(1)
        /\ UNCHANGED <<runs, imports, loaded, raised, by_call>>
        /\ mode' \in {"run", "end"} /\ (mode' = "end" <=> IsFirst(n))
    BY <1>1, <1>2, <1>3
  <2>4. Untouched(H, k)
    BY <1>5
  <2> QED BY <2>1, <2>2, <2>3, <2>4, ReturnFrames
<1>7. DistinctEntries' /\ DistinctHeld'
  BY <1>1, <1>3, <1>4 DEF CallPopped, Given, CallsInv, DistinctHeld
<1>8. HeldCallFramesAlive'
  <2>1. \A d \in CallFrame : calls[d] = "outer" => calls'[d] = "outer"
    BY <1>3, <1>4 DEF CallPopped
  <2>2. Structure
    BY <1>3 DEF Given
  <2> QED BY <1>1, <1>3, <2>1, <2>2, HeldKept DEF RunningNow
<1>9. OnTheWay(hang)'
  BY <1>1, <1>3 DEF OnTheWay
<1>10. CallsHold'
  <2>1. (\A i \in 1 .. k - 1 : Known(H, hang, i)') /\ Known(H, hang, k)'
    <3>1. k \in 1 .. k /\ \A i \in 1 .. k - 1 : i \in 1 .. k
      BY <1>3
    <3> QED BY <1>6, <3>1
  <2> QED BY <1>6, <1>7, <1>8, <1>9, <2>1, CallsAgain
<1> QED BY <1>6, <1>10 DEF IInv

\* The run that was started for the function ends: its starter still holds
\* the call frame, and finds the value in it.
LEMMA ReturnOuterStep ==
  ASSUME IInv, WorkingFeatures, Return, EndsRun(TopCall)
  PROVE  IInv'
<1>1. /\ mode = "run" /\ mode' = "end" /\ ~InCall /\ Top.call_frame # None
      /\ frames' = FramesWithout(1) /\ tries' = TriesWithout(1) /\ stack_frames' = StackWithout(1)
      /\ call_frames' = DropCallFrame(Current)
      /\ calls' = [calls EXCEPT ![TopCall] = "returned"]
      /\ UNCHANGED <<runs, imports, loaded, raised, by_call>>
  BY DEF Return, AtStatement
<1>2. PICK H \in Heights, hang \in BOOLEAN, n \in Nat, k \in Nat, top \in Nat, c \in CallFrame :
        ReturnFacts(H, hang, n, k, top, c)
  BY <1>1, ReturnIs
<1>3. /\ Given(H, hang, n) /\ ~hang /\ n = L /\ top \in Nat \ {0} /\ calls[c] = "outer" /\ IsFirst(n)
      /\ call_frames[Current][top] = c /\ top = Len(call_frames[Current]) /\ TopCall = c
      /\ H[k][Current] = top - 1 /\ k + 1 = n /\ RunningNow(H, hang, n, 0, top)
      /\ k = Base /\ StartsFunction(k) /\ k \in 1 .. n - 1 /\ c = stack_frames[n].call_frame
  <2>1. TopCall = c
    BY <1>2 DEF ReturnFacts
  <2>2. calls[c] = "outer"
    BY <2>1 DEF EndsRun
  <2> QED BY <1>2, <2>1, <2>2 DEF ReturnFacts
<1>4. /\ StacksTyped /\ StackInv /\ Structure /\ CallsInv(H, hang) /\ Current \in VM
      /\ Len(runs) \in Nat \ {0}
  BY <1>3 DEF Given, Structure
<1>5. calls' \in [CallFrame -> CallState] /\ calls'[c] = "returned"
      /\ \A d \in CallFrame : d # c => calls'[d] = calls[d]
  BY <1>1, <1>3, <1>4 DEF StacksTyped, CallState
<1>6. /\ call_frames' \in [VM -> Seq(CallFrame)] /\ Len(call_frames'[Current]) = top - 1
      /\ \A i \in 1 .. top - 1 : call_frames'[Current][i] = call_frames[Current][i]
      /\ \A m \in VM : m # Current => call_frames'[m] = call_frames[m]
  <2>1. call_frames[Current] # <<>>
    BY <1>3
  <2> QED BY <1>1, <1>3, <1>4, <2>1, DropCallFrameIs
<1>7. c = Last(runs).call_frame
  <2>1. k \in 1 .. L /\ k # L
    BY <1>3
  <2>2. stack_frames[n].call_frame = runs[RunOf(k)].call_frame
    BY <1>3, <1>4, <2>1 DEF StackInv, FirstFrames
  <2>3. RunOf(k) = Len(runs)
    BY <1>3, <1>4, <2>1 DEF Structure
  <2> QED BY <1>3, <2>2, <2>3 DEF Last
<1>8. stack_frames[k].call_frame = None /\ stack_frames[k].open = <<>>
  <2>1. k \in 1 .. L /\ IsBase(k)
    BY <1>3 DEF StartsFunction
  <2> QED BY <1>3, <1>4, <2>1 DEF StackInv, FramesOfStack, CallsInv, OpenCalls
<1>9. Untouched(H, k)
  <2>1. Apart(H, k, c)
    <3>1. k <= Base
      BY <1>3
    <3> QED BY <1>3, <1>7, <3>1 DEF Apart
  <2>2. Len(stack_frames[k].open) = 0 /\ stack_frames[k].call_frame # c
    BY <1>8, CallStackAssumption
  <2> QED BY <1>5, <2>1, <2>2 DEF Untouched
<1>10. /\ StacksTyped' /\ StackInv' /\ TriesInv' /\ TriesOfLoaded' /\ Lengths(H, hang)'
       /\ L' = k /\ \A i \in 1 .. k : stack_frames'[i] = stack_frames[i] /\ Known(H, hang, i)'
  <2>1. mode' \in {"run", "end"} /\ (mode' = "end" <=> IsFirst(n))
    BY <1>1, <1>3
  <2>2. /\ frames' = FramesWithout(1) /\ tries' = TriesWithout(1) /\ stack_frames' = StackWithout(1)
        /\ UNCHANGED <<runs, imports, loaded, raised, by_call>>
    BY <1>1
  <2> QED BY <1>2, <1>5, <1>6, <1>9, <2>1, <2>2, ReturnFrames
<1>11. DistinctEntries'
  <2>1. \A m \in VM : Len(call_frames[m]) \in Nat /\ call_frames[m] \in Seq(CallFrame)
    BY <1>3 DEF Given, TopFacts
  <2>2. \A m \in VM : Len(call_frames'[m]) \in 0 .. Len(call_frames[m])
    <3>1. top - 1 \in 0 .. top
      BY <1>3
    <3>2. \A m \in VM : Len(call_frames[m]) \in 0 .. Len(call_frames[m])
      BY <2>1
    <3> QED BY <1>3, <1>6, <3>1, <3>2
  <2>3. \A m \in VM : \A i \in 1 .. Len(call_frames'[m]) :
          /\ call_frames'[m][i] = call_frames[m][i]
          /\ calls'[call_frames[m][i]] \in {"pending", "inner"} =>
               calls[call_frames[m][i]] \in {"pending", "inner"}
    <3> TAKE m \in VM
    <3> TAKE i \in 1 .. Len(call_frames'[m])
    <3>1. call_frames'[m][i] = call_frames[m][i]
      BY <1>3, <1>6
    <3>2. i \in 1 .. Len(call_frames[m])
      BY <2>1, <2>2
    <3>3. call_frames[m][i] \in CallFrame
      BY <2>1, <3>2
    <3> QED BY <1>5, <3>1, <3>3
  <2>4. DistinctEntries
    BY <1>4 DEF CallsInv
  <2> QED BY <2>1, <2>2, <2>3, <2>4, DistinctKept
<1>12. DistinctHeld'
  BY <1>1, <1>4 DEF CallsInv, DistinctHeld
<1>13. HeldCallFramesAlive'
  <2>1. \A i \in 1 .. Len(runs) : runs[i].call_frame # None => calls[runs[i].call_frame] = "outer"
    BY <1>3 DEF RunningNow
  <2>2. ASSUME NEW i \in 1 .. Len(runs) - 1, runs[i].call_frame # None
        PROVE  calls'[runs[i].call_frame] = "outer"
    <3>1. i \in 1 .. Len(runs) /\ i < Len(runs) /\ Len(runs) \in 1 .. Len(runs)
      BY <1>4
    <3>2. runs[i].call_frame \in CallFrame
      BY <1>4, <2>2, <3>1 DEF Structure, Activation
    <3>3. runs[i].call_frame # c
      <4>1. runs[Len(runs)].call_frame = c /\ c # None
        BY <1>7, CallStackAssumption DEF Last
      <4> QED BY <1>4, <3>1, <4>1 DEF CallsInv, DistinctHeld
    <3> QED BY <1>5, <2>1, <2>2, <3>1, <3>2, <3>3
  <2> QED BY <1>1, <1>5, <1>7, <2>2 DEF HeldCallFramesAlive, Last
<1>14. OnTheWay(hang)'
  <2>1. stack_frames'[k].open = <<>> /\ L' = k
    <3>1. k \in 1 .. k
      BY <1>3
    <3> QED BY <1>8, <1>10, <3>1
  <2> QED BY <1>1, <1>3, <2>1 DEF OnTheWay, Top, Last, L
<1>15. CallsHold'
  <2>1. (\A i \in 1 .. k - 1 : Known(H, hang, i)') /\ Known(H, hang, k)'
    <3>1. k \in 1 .. k /\ \A i \in 1 .. k - 1 : i \in 1 .. k
      BY <1>3
    <3> QED BY <1>10, <3>1
  <2> QED BY <1>10, <1>11, <1>12, <1>13, <1>14, <2>1, CallsAgain
<1> QED BY <1>10, <1>15 DEF IInv

\* Return keeps the invariant.
LEMMA ReturnStep ==
  ASSUME IInv, WorkingFeatures, Return
  PROVE  IInv'
BY ReturnInnerStep, ReturnOuterStep

-----------------------------------------------------------------------------
(* Runs end: Leave, EndCall and EndImport.                                 *)

\* What the end of a run finds: only its base is left of it, and the frame
\* below, the k-th, belongs to the VM that called run.
EndFacts(H, hang, n, k) ==
  /\ Given(H, hang, n) /\ ~hang /\ n \in Nat \ {0} /\ n = L /\ k \in Nat \ {0} /\ k < n
  /\ n - k = 1 /\ n - 1 = k /\ k + 1 = n /\ k \in 1 .. n - 1 /\ n = Base /\ IsBase(n)
  /\ Len(runs) \in Nat \ {0, 1} /\ RunOf(n) = Len(runs) /\ RunOf(k) = Len(runs) - 1
  /\ KindOf(n) = Last(runs).kind
  /\ Current \in VM /\ Caller \in VM /\ stack_frames[n].vm = Current /\ stack_frames[k].vm = Caller
  /\ Waits(k) <=> Last(runs).kind = "call"
  /\ Last(runs).kind = "call" => Caller # Current
  /\ OpenHere(n) = 0
  /\ \A m \in VM : H[n][m] \in Nat /\ H[k][m] \in Nat /\ Len(call_frames[m]) \in Nat
                   /\ call_frames[m] \in Seq(CallFrame)
  /\ \A m \in VM : m # Current =>
       H[n][m] = H[k][m] + (IF Last(runs).kind = "native" /\ Caller = m THEN 1 ELSE 0)
  /\ H[k][Current] <= H[n][Current]
  /\ "reentry" \in Features => H[k][Current] = H[n][Current]
  /\ "reentry" \notin Features => \A i \in 1 .. k : stack_frames[i].vm # Current
  /\ \A m \in VM : H[n][m] <= Len(call_frames[m])
  /\ \A m \in VM : "reentry" \in Features \/ (\E i \in 1 .. n : stack_frames[i].vm = m) =>
       H[n][m] = Len(call_frames[m])
  /\ H[n][Caller] = Len(call_frames[Caller])

\* The invariant gives this at the end of a run.
LEMMA EndIs ==
  ASSUME IInv, mode \in {"end", "leave"}, Last(runs).kind # "main"
  PROVE  \E H \in Heights, hang \in BOOLEAN, n, k \in Nat : EndFacts(H, hang, n, k)
<1>1. PICK H \in Heights, hang \in BOOLEAN, n \in Nat : Given(H, hang, n)
  BY GivenHolds
<1>2. /\ StacksTyped /\ StackInv /\ Structure /\ CallsInv(H, hang) /\ n = L /\ ~hang
      /\ (mode = "end" => Top.open = <<>>) /\ Top = stack_frames[n] /\ n \in Nat \ {0}
  BY <1>1, NoHang DEF Given
<1>3. Base \in 1 .. L /\ Len(runs) \in Nat \ {0} /\ Current \in VM
  BY <1>2 DEF Structure
<1>4. IsBase(n) /\ n = Base
  <2>1. Top.frame = Current
    BY <1>2 DEF StackInv, RunsOnStack
  <2>2. IsBase(n)
    BY <1>2, <1>3, <2>1 DEF IsBase
  <2>3. n \in 1 .. L /\ (n > Base => ~IsBase(n))
    BY <1>2 DEF Structure
  <2> QED BY <1>2, <1>3, <2>2, <2>3
<1>5. RunOf(n) = Len(runs) /\ stack_frames[n].vm = Current
  <2>1. n \in 1 .. L /\ n >= Base
    BY <1>2, <1>4
  <2> QED BY <1>2, <2>1 DEF Structure
<1>6. Len(runs) \in Nat \ {0, 1}
  <2>1. Len(runs) \in 1 .. Len(runs)
    BY <1>3
  <2> QED BY <1>2, <1>3, <2>1 DEF StackInv, KindsOfRuns, Last
<1> PICK k \in Nat : k = n - 1
  BY <1>2
<1>7. RunOf(k) \in Nat /\ RunOf(n) = RunOf(k) + 1 /\ RunOf(n) <= n
  <2>1. RunOf(n) <= n
    BY <1>2, RunStep DEF RunFacts
  <2> QED BY <1>2, <1>4, <2>1, RunStep DEF RunFacts
<1>8. /\ k < n /\ n - k = 1 /\ n - 1 = k /\ k + 1 = n /\ k \in Nat \ {0} /\ k \in 1 .. n - 1
      /\ RunOf(k) = Len(runs) - 1
  <2>1. RunOf(k) = Len(runs) - 1
    BY <1>5, <1>6, <1>7
  <2>2. n # 1
    BY <1>5, <1>6, <1>7
  <2> QED BY <1>2, <2>1, <2>2
<1>9. stack_frames[k].vm = Caller /\ Caller \in VM
  <2>1. k \in 1 .. L
    BY <1>2, <1>8
  <2> QED BY <1>2, <1>8, <2>1 DEF Caller, Structure, StackFrame
<1>10. KindOf(n) = Last(runs).kind
  BY <1>5 DEF KindOf, Last
<1>11. Waits(k) <=> Last(runs).kind = "call"
  BY <1>2, <1>4, <1>8, <1>10 DEF Waits
<1>12. /\ Last(runs).kind = "call" => Caller # Current
       /\ "reentry" \notin Features => \A i \in 1 .. k : stack_frames[i].vm # Current
  <2>1. Len(runs) \in 1 .. Len(runs)
    BY <1>3
  <2>2. /\ runs[Len(runs)].kind = "call" => runs[Len(runs) - 1].vm # runs[Len(runs)].vm
        /\ "reentry" \notin Features => \A j \in 1 .. Len(runs) - 1 : runs[j].vm # runs[Len(runs)].vm
    BY <1>2, <2>1 DEF StackInv, KindsOfRuns
  <2>3. ASSUME "reentry" \notin Features, NEW i \in 1 .. k PROVE stack_frames[i].vm # Current
    <3>1. i \in 1 .. L /\ i < Base
      BY <1>2, <1>4, <1>8
    <3>2. RunOf(i) \in 1 .. Len(runs) /\ RunOf(i) < Len(runs) /\ stack_frames[i].vm = runs[RunOf(i)].vm
      BY <1>2, <3>1 DEF Structure
    <3>3. RunOf(i) \in 1 .. Len(runs) - 1
      BY <1>3, <3>2
    <3> QED BY <2>2, <2>3, <3>2, <3>3 DEF Current, Last
  <2> QED BY <2>2, <2>3 DEF Caller, Current, Last
<1>13. OpenHere(n) = 0
  <2>1. Top.open = <<>> => Len(Top.open) = 0
    OBVIOUS
  <2> QED BY <1>2, <2>1 DEF OpenHere, Left
<1>14. \A m \in VM : H[n][m] \in Nat /\ H[k][m] \in Nat /\ Len(call_frames[m]) \in Nat
                     /\ call_frames[m] \in Seq(CallFrame)
  BY <1>1 DEF Given, TopFacts, Heights
<1>15. Height(H, n)
  BY <1>2 DEF CallsInv
<1>16. \A m \in VM : m # Current =>
         H[n][m] = H[k][m] + (IF Last(runs).kind = "native" /\ Caller = m THEN 1 ELSE 0)
  <2> TAKE m \in VM
  <2> HAVE m # Current
  <2>1. Held(n, m) = IF Last(runs).kind = "native" /\ Caller = m THEN 1 ELSE 0
    <3>1. n > 1
      BY <1>8
    <3> QED BY <1>4, <1>8, <1>9, <1>10, <3>1 DEF Held
  <2> QED BY <1>5, <1>8, <1>15, <2>1, ZenonT(30) DEF Height
<1>17. /\ H[k][Current] <= H[n][Current]
       /\ "reentry" \in Features => H[k][Current] = H[n][Current]
  <2>1. /\ H[n][Current] >= H[k][Current] + 0
        /\ "reentry" \in Features => H[n][Current] = H[k][Current] + 0
    BY <1>4, <1>5, <1>8, <1>13, <1>15 DEF Height
  <2> QED BY <1>3, <1>14, <2>1
<1>18. \A m \in VM : /\ H[n][m] <= Len(call_frames[m])
                     /\ "reentry" \in Features \/ (\E i \in 1 .. n : stack_frames[i].vm = m) =>
                          H[n][m] = Len(call_frames[m])
  <2> TAKE m \in VM
  <2>1. /\ H[n][m] <= Len(call_frames[m]) + 0
        /\ "reentry" \in Features \/ (\E i \in 1 .. n : stack_frames[i].vm = m) =>
             H[n][m] = Len(call_frames[m]) + 0
    BY <1>2 DEF CallsInv, Lengths
  <2> QED BY <1>14, <2>1
<1>19. H[n][Caller] = Len(call_frames[Caller])
  <2>1. k \in 1 .. n
    BY <1>8
  <2> QED BY <1>9, <1>18, <2>1
<1>20. EndFacts(H, hang, n, k)
  BY <1>1, <1>2, <1>3, <1>4, <1>5, <1>6, <1>8, <1>9, <1>10, <1>11, <1>12, <1>13, <1>14, <1>16,
     <1>17, <1>18, <1>19 DEF EndFacts
<1> QED BY <1>20

\* The base of the run is popped.
LEMMA EndFrames ==
  ASSUME NEW H \in Heights, NEW hang \in BOOLEAN, NEW n \in Nat, NEW k \in Nat,
         EndFacts(H, hang, n, k), mode \in {"end", "leave"}, Last(runs).kind # "main",
         frames' = FramesWithout(1), runs' = Front(runs), UNCHANGED <<tries, loaded>>,
         mode' \in {"run", "throw"}, L' = k, SameBelow(k),
         stack_frames' \in Seq(StackFrame),
         call_frames' \in [VM -> Seq(CallFrame)], calls' \in [CallFrame -> CallState],
         imports' \in Seq(VM), raised' \in Exception \cup {None}, mode' = "throw" => raised' # None,
         by_call' \in BOOLEAN
  PROVE  /\ StacksTyped' /\ StackInv' /\ TriesInv' /\ TriesOfLoaded' /\ DistinctHeld'
         /\ Current' = Caller /\ Len(runs') = Len(runs) - 1
         /\ \A j \in 1 .. Len(runs) - 1 : runs'[j] = runs[j]
<1>1. /\ n = L /\ n - 1 = k /\ IsBase(n) /\ n = Base /\ Len(runs) \in Nat \ {0, 1} /\ n - k = 1
      /\ k \in Nat \ {0} /\ StacksTyped /\ StackInv /\ TriesInv /\ TriesOfLoaded /\ Structure
      /\ CallsInv(H, hang) /\ Current \in VM
  BY DEF EndFacts, Given
<1>2. /\ runs' \in Seq(Activation) /\ Len(runs') = Len(runs) - 1 /\ runs' # <<>>
      /\ \A j \in 1 .. Len(runs) - 1 : runs'[j] = runs[j]
  <2>1. runs \in Seq(Activation) /\ Len(runs) - 1 \in 0 .. Len(runs)
    BY <1>1 DEF StacksTyped
  <2>2. /\ runs' \in Seq(Activation) /\ Len(runs') = Len(runs) - 1
        /\ \A j \in 1 .. Len(runs) - 1 : runs'[j] = runs[j]
    BY <2>1, Prefix DEF Front
  <2>3. Len(runs) - 1 # 0
    BY <1>1
  <2> QED BY <2>2, <2>3
<1>3. frames' \in [VM -> Seq(Frame \cup VM)]
  <2>1. FramesMatchStack /\ Current \in loaded /\ L \in Nat /\ L \in 1 .. L
    <3>1. L \in Nat /\ L \in 1 .. L /\ n = L
      BY <1>1
    <3>2. stack_frames[L].vm = Current /\ stack_frames[L].vm \in loaded
      BY <1>1, <3>1 DEF EndFacts, Structure
    <3> QED BY <1>1, <3>1, <3>2 DEF StackInv
  <2>2. Len(frames[Current]) = Constructed(Current) + Pushed(Current, L)
    BY <2>1 DEF FramesMatchStack, L
  <2>3. /\ Pushed(Current, L - 1) \in Nat
        /\ Pushed(Current, L) = Pushed(Current, L - 1) + (IF stack_frames[L].vm = Current THEN 1 ELSE 0)
    <3>1. L \in Nat \ {0}
      BY <2>1
    <3> QED BY <1>1, <3>1, PushedStep DEF PushedFacts
  <2>4. stack_frames[L].vm = Current
    BY <1>1 DEF EndFacts
  <2>5. 1 \in 0 .. Len(frames[Current])
    BY <2>2, <2>3, <2>4 DEF Constructed
  <2> QED BY <1>1, <2>5, FramesWithoutType
<1>4. StacksTyped'
  <2>1. mode' \in Mode /\ (mode' \in {"throw", "again", "leave"} => raised' # None)
    BY DEF Mode
  <2> QED BY <1>1, <1>2, <1>3, <2>1 DEF StacksTyped
<1>5. StackInv'
  <2>1. L' = L - 1 /\ SameBelow(L - 1) /\ Running'
    BY <1>1 DEF Running
  <2> QED BY <1>1, <2>1, StackEnd
<1>6. TriesInv'
  <2>1. L' = L - 1 /\ SameBelow(L - 1)
    BY <1>1
  <2>2. IsBase(L) /\ L > 1 /\ Len(runs) > 1
    <3>1. \A x \in Nat \ {0, 1} : x > 1
      OBVIOUS
    <3>2. \A x \in Nat : x - 1 = k => x > 1
      BY <1>1
    <3> QED BY <1>1, <3>1, <3>2
  <2> QED BY <1>1, <1>4, <1>5, <2>1, <2>2, TriesEnd
<1>7. TriesOfLoaded'
  BY <1>1 DEF TriesOfLoaded
<1>8. Current' = Caller
  <2>1. Len(runs) - 1 \in 1 .. Len(runs) - 1
    <3>1. \A x \in Nat \ {0, 1} : x - 1 \in 1 .. x - 1
      OBVIOUS
    <3> QED BY <1>1, <3>1
  <2> QED BY <1>2, <2>1 DEF Current, Last, Caller
<1>9. DistinctHeld'
  <2>1. \A j, l \in 1 .. Len(runs) :
          j < l /\ runs[l].call_frame # None => runs[j].call_frame # runs[l].call_frame
    BY <1>1 DEF CallsInv, DistinctHeld
  <2>2. \A j \in 1 .. Len(runs) - 1 : j \in 1 .. Len(runs)
    BY <1>1
  <2> QED BY <1>2, <2>1, <2>2, SMTT(30) DEF DistinctHeld
<1> QED BY <1>2, <1>4, <1>5, <1>6, <1>7, <1>8, <1>9

\* The lists of call frames are as long as the frames below say.
EndsAt(H, G, hang2, k) ==
  /\ L' = k /\ SameBelow(k) /\ Current' = Caller
  /\ \A m \in VM : m # Caller => G[k][m] = H[k][m] /\ call_frames'[m] = call_frames[m]
  /\ Len(call_frames'[Caller]) \in Nat
  /\ G[k][Caller] = Len(call_frames'[Caller]) + (IF hang2 THEN 1 ELSE 0)

\* Then the frames account for the lists again.
LEMMA EndLengths ==
  ASSUME NEW H \in Heights, NEW hang \in BOOLEAN, NEW n \in Nat, NEW k \in Nat,
         EndFacts(H, hang, n, k), NEW G \in Heights, NEW hang2 \in BOOLEAN, EndsAt(H, G, hang2, k)
  PROVE  Lengths(G, hang2)'
<1> USE DEF EndsAt
<1>1. \A i \in 1 .. k : i \in 1 .. n /\ stack_frames'[i].vm = stack_frames[i].vm
  BY DEF SameBelow, EndFacts
<1> SUFFICES ASSUME NEW m \in VM
             PROVE  LET length == Len(call_frames'[m]) + (IF hang2 /\ m = Caller THEN 1 ELSE 0) IN
                    /\ G[k][m] <= length
                    /\ "reentry" \in Features \/ (\E i \in 1 .. k : stack_frames'[i].vm = m)
                         => G[k][m] = length
  BY DEF Lengths
<1>2. CASE m = Caller
  <2>1. G[k][m] \in Nat
    <3>1. k \in Nat
      OBVIOUS
    <3> QED BY <3>1 DEF Heights
  <2>2. G[k][m] = Len(call_frames'[m]) + (IF hang2 /\ m = Caller THEN 1 ELSE 0)
    BY <1>2
  <2>3. G[k][m] <= G[k][m]
    BY <2>1
  <2> QED BY <2>2, <2>3
<1>3. CASE m # Caller
  <2>0. /\ H[n][m] \in Nat /\ H[k][m] \in Nat /\ Len(call_frames[m]) \in Nat
        /\ H[n][m] <= Len(call_frames[m])
        /\ "reentry" \in Features \/ (\E i \in 1 .. n : stack_frames[i].vm = m) =>
             H[n][m] = Len(call_frames[m])
    BY DEF EndFacts
  <2>1. CASE m = Current
    <3>1. /\ H[k][m] <= H[n][m]
          /\ "reentry" \in Features => H[k][m] = H[n][m]
          /\ "reentry" \notin Features => \A i \in 1 .. k : stack_frames[i].vm # m
      BY <2>1 DEF EndFacts
    <3>2. G[k][m] = H[k][m] /\ call_frames'[m] = call_frames[m]
      BY <1>3
    <3>3. H[k][m] <= Len(call_frames[m])
      BY <2>0, <3>1
    <3>4. ASSUME "reentry" \in Features \/ (\E i \in 1 .. k : stack_frames'[i].vm = m)
          PROVE  H[k][m] = Len(call_frames[m])
      BY <1>1, <2>0, <3>1, <3>4
    <3>5. (IF hang2 /\ m = Caller THEN 1 ELSE 0) = 0
      BY <1>3
    <3>6. Len(call_frames[m]) + 0 = Len(call_frames[m])
      BY <2>0
    <3> QED BY <3>2, <3>3, <3>4, <3>5, <3>6
  <2>2. CASE m # Current
    <3>1. H[n][m] = H[k][m] + 0
      BY <1>3, <2>2 DEF EndFacts
    <3>2. H[n][m] = H[k][m]
      BY <2>0, <3>1
    <3>3. G[k][m] = H[k][m] /\ call_frames'[m] = call_frames[m]
      BY <1>3
    <3>4. \A i \in 1 .. k : stack_frames'[i].vm = m => \E j \in 1 .. n : stack_frames[j].vm = m
      BY <1>1
    <3>5. /\ G[k][m] <= Len(call_frames'[m])
          /\ "reentry" \in Features \/ (\E i \in 1 .. k : stack_frames'[i].vm = m)
               => G[k][m] = Len(call_frames'[m])
      BY <2>0, <3>2, <3>3, <3>4
    <3> QED BY <1>3, <2>0, <3>3, <3>5
  <2> QED BY <2>1, <2>2
<1> QED BY <1>2, <1>3

\* The starter of every run but the last still holds its call frame.
LEMMA EndHeld ==
  ASSUME NEW H \in Heights, NEW hang \in BOOLEAN, NEW n \in Nat, NEW k \in Nat,
         EndFacts(H, hang, n, k), mode' \in {"run", "throw"},
         Len(runs') = Len(runs) - 1, \A j \in 1 .. Len(runs) - 1 : runs'[j] = runs[j],
         \A c \in CallFrame : calls[c] = "outer" => calls'[c] = "outer"
  PROVE  HeldCallFramesAlive'
<1>1. /\ Len(runs) \in Nat \ {0, 1} /\ HeldCallFramesAlive
      /\ \A j \in 1 .. Len(runs) : runs[j] \in Activation
  BY DEF EndFacts, Given, CallsInv, Structure
<1>2. \A j \in 1 .. Len(runs) - 1 :
        runs'[j].call_frame # None => calls'[runs'[j].call_frame] = "outer"
  <2> TAKE j \in 1 .. Len(runs) - 1
  <2>1. runs[j] \in Activation
    BY <1>1
  <2>2. runs[j].call_frame \in CallFrame \cup {None}
    BY <2>1 DEF Activation
  <2> QED BY <1>1, <2>2 DEF HeldCallFramesAlive
<1>3. Len(runs') \in 1 .. Len(runs) - 1 /\ \A j \in 1 .. Len(runs') - 1 : j \in 1 .. Len(runs) - 1
  <2>1. \A x \in Nat \ {0, 1} : x - 1 \in 1 .. x - 1 /\ \A j \in 1 .. (x - 1) - 1 : j \in 1 .. x - 1
    OBVIOUS
  <2> QED BY <1>1, <2>1
<1> QED BY <1>2, <1>3 DEF HeldCallFramesAlive, Last

\* The rest of load_module.
LEMMA EndImportStep ==
  ASSUME IInv, WorkingFeatures, EndImport
  PROVE  IInv'
<1>1. /\ mode = "end" /\ mode' = "run" /\ Last(runs).kind = "import"
      /\ frames' = FramesWithout(1) /\ stack_frames' = StackWithout(1)
      /\ runs' = Front(runs) /\ imports' = Front(imports)
      /\ UNCHANGED <<call_frames, calls, tries, loaded, raised, by_call>>
  BY DEF EndImport
<1>2. PICK H \in Heights, hang \in BOOLEAN, n \in Nat, k \in Nat : EndFacts(H, hang, n, k)
  BY <1>1, EndIs
<1>3. /\ Given(H, hang, n) /\ ~hang /\ n = L /\ k \in Nat \ {0} /\ k < n /\ n - k = 1
      /\ k \in 1 .. n - 1 /\ RunOf(k) = Len(runs) - 1 /\ ~Waits(k)
      /\ H[n][Caller] = Len(call_frames[Caller]) /\ Caller \in VM
      /\ StacksTyped /\ CallsInv(H, hang)
  BY <1>1, <1>2 DEF EndFacts, Given
<1>4. /\ stack_frames' \in Seq(StackFrame) /\ L' = k /\ SameBelow(k) /\ SameOpen(k)
  <2>1. stack_frames' = StackWithout(n - k) /\ k <= n
    BY <1>1, <1>3
  <2> QED BY <1>3, <2>1, StackCut
<1>5. /\ call_frames' \in [VM -> Seq(CallFrame)] /\ calls' \in [CallFrame -> CallState]
      /\ imports' \in Seq(VM) /\ raised' \in Exception \cup {None} /\ by_call' \in BOOLEAN
  <2>1. \A s \in Seq(VM) : Front(s) \in Seq(VM)
    BY DEF Front
  <2> QED BY <1>1, <1>3, <2>1 DEF StacksTyped
<1>6. /\ StacksTyped' /\ StackInv' /\ TriesInv' /\ TriesOfLoaded' /\ DistinctHeld'
      /\ Current' = Caller /\ Len(runs') = Len(runs) - 1
      /\ \A j \in 1 .. Len(runs) - 1 : runs'[j] = runs[j]
  BY <1>1, <1>2, <1>4, <1>5, EndFrames
<1>7. \A i \in 1 .. k : Known(H, hang, i)'
  <2>1. Untouched(H, k)
    BY <1>1 DEF Untouched
  <2>2. ~Left' /\ (\A f : Shrinks(f)) /\ mode' \notin {"throw", "again"}
    BY <1>1 DEF Left, Shrinks
  <2>3. /\ \A j \in 1 .. RunOf(k) : runs'[j] = runs[j]
        /\ \A m \in VM, x \in Nat : call_frames'[m][x] = call_frames[m][x]
    BY <1>1, <1>3, <1>6
  <2> QED BY <1>3, <1>4, <2>1, <2>2, <2>3, NewTop
<1>8. Lengths(H, hang)'
  <2>1. \A m \in VM : m # Caller => H[k][m] = H[k][m] /\ call_frames'[m] = call_frames[m]
    BY <1>1
  <2>2. H[k][Caller] = Len(call_frames'[Caller]) + 0 /\ Len(call_frames'[Caller]) \in Nat
    <3>1. /\ H[n][Caller] = H[k][Caller] + 0 \/ H[n][Caller] = H[k][Caller]
          /\ H[k][Caller] \in Nat /\ H[n][Caller] \in Nat
      <4>1. Last(runs).kind # "native"
        BY <1>1
      <4>2. Caller = Current => H[n][Caller] = H[k][Caller]
        <5>1. "reentry" \notin Features => Caller # Current
          BY <1>2, <1>3 DEF EndFacts
        <5> QED BY <1>2, <5>1 DEF EndFacts
      <4> QED BY <1>2, <4>1, <4>2 DEF EndFacts
    <3> QED BY <1>1, <1>3, <3>1
  <2>3. H[k][Caller] = Len(call_frames'[Caller]) + (IF hang THEN 1 ELSE 0)
    BY <1>3, <2>2
  <2>4. EndsAt(H, H, hang, k)
    BY <1>4, <1>6, <2>1, <2>2, <2>3 DEF EndsAt
  <2> QED BY <1>2, <2>4, EndLengths
<1>9. DistinctEntries'
  <2>1. call_frames' = call_frames /\ calls' = calls
    BY <1>1
  <2>2. DistinctEntries
    BY <1>3 DEF CallsInv
  <2> QED BY <2>1, <2>2 DEF DistinctEntries
<1>10. HeldCallFramesAlive' /\ OnTheWay(hang)'
  <2>1. OnTheWay(hang)'
    BY <1>1, <1>3 DEF OnTheWay
  <2> QED BY <1>1, <1>2, <1>6, <2>1, EndHeld
<1>11. CallsHold'
  <2>1. (\A i \in 1 .. k - 1 : Known(H, hang, i)') /\ Known(H, hang, k)'
    <3>1. k \in 1 .. k /\ \A i \in 1 .. k - 1 : i \in 1 .. k
      BY <1>3
    <3> QED BY <1>7, <3>1
  <2> QED BY <1>4, <1>6, <1>8, <1>9, <1>10, <2>1, CallsAgain
<1> QED BY <1>6, <1>11 DEF IInv

\* The call frame that a run returned its value in is none that the frames
\* below refer to, as long as they are not waiting for it.
LEMMA ReturnedApart ==
  ASSUME NEW H \in Heights, NEW hang \in BOOLEAN, NEW n \in Nat, NEW k \in Nat,
         EndFacts(H, hang, n, k), mode = "end", Last(runs).kind \in ForFunction
  PROVE  \E c \in CallFrame :
           /\ c = Last(runs).call_frame /\ calls[c] = "returned" /\ Apart(H, k, c)
           /\ stack_frames[k].call_frame # c
           /\ \A j \in 1 .. Len(stack_frames[k].open) :
                calls[stack_frames[k].open[j]] = "pending" => stack_frames[k].open[j] # c
<1>1. /\ Len(runs) \in 1 .. Len(runs) /\ Given(H, hang, n) /\ StackInv /\ HeldCallFramesAlive
      /\ runs[Len(runs)] \in Activation /\ k <= Base /\ k \in 1 .. n /\ k \in 1 .. L
  <2>1. Len(runs) \in 1 .. Len(runs) /\ k <= Base /\ k \in 1 .. n /\ n = L /\ Given(H, hang, n)
    <3>1. /\ Len(runs) \in Nat \ {0, 1} /\ n \in Nat /\ n = L /\ n = Base /\ k \in 1 .. n - 1
          /\ Given(H, hang, n)
      BY DEF EndFacts
    <3>2. \A x \in Nat \ {0, 1} : x \in 1 .. x
      OBVIOUS
    <3> QED BY <3>1, <3>2
  <2> QED BY <2>1 DEF Given, CallsInv, Structure
<1>2. runs[Len(runs)].call_frame # None
  BY <1>1 DEF StackInv, KindsOfRuns, Last
<1> PICK c \in CallFrame : c = runs[Len(runs)].call_frame
  BY <1>1, <1>2 DEF Activation
<1>3. c = Last(runs).call_frame /\ c # None
  BY CallStackAssumption DEF Last
<1>4. calls[c] = "returned"
  BY <1>1, <1>3 DEF HeldCallFramesAlive
<1>5. Apart(H, k, c)
  BY <1>1, <1>3, <1>4 DEF Apart
<1>6. FrameFacts(H, hang, k)
  BY <1>1, FrameKnown
<1>7. stack_frames[k].call_frame # c
  <2> SUFFICES ASSUME stack_frames[k].call_frame = c PROVE FALSE
    OBVIOUS
  <2>1. Matched(k) = 1
    BY <1>3 DEF Matched
  <2>2. calls[c] = IF IsFirst(k) THEN "outer" ELSE "inner"
    BY <1>6, <2>1 DEF FrameFacts, Known, States
  <2> QED BY <1>4, <2>2
<1>8. \A j \in 1 .. Len(stack_frames[k].open) :
        calls[stack_frames[k].open[j]] = "pending" => stack_frames[k].open[j] # c
  BY <1>4
<1> QED BY <1>3, <1>4, <1>5, <1>7, <1>8

\* A callback ran on the VM that made it.
LEMMA EndCallBackStep ==
  ASSUME IInv, WorkingFeatures, EndCall, Caller = Current
  PROVE  IInv'
<1>1. /\ mode = "end" /\ mode' = "run" /\ Last(runs).kind \in ForFunction /\ Last(runs).kind # "main"
      /\ frames' = FramesWithout(1) /\ runs' = Front(runs)
      /\ calls' = [calls EXCEPT ![Last(runs).call_frame] = "free"]
      /\ UNCHANGED <<call_frames, tries, imports, loaded, raised, by_call>>
  BY DEF EndCall, ForFunction
<1>2. PICK H \in Heights, hang \in BOOLEAN, n \in Nat, k \in Nat : EndFacts(H, hang, n, k)
  BY <1>1, EndIs
<1>3. /\ Given(H, hang, n) /\ ~hang /\ n = L /\ k \in Nat \ {0} /\ k < n /\ n - k = 1
      /\ k \in 1 .. n - 1 /\ RunOf(k) = Len(runs) - 1 /\ ~Waits(k) /\ Last(runs).kind # "call"
      /\ H[n][Caller] = Len(call_frames[Caller]) /\ Caller \in VM
      /\ StacksTyped /\ CallsInv(H, hang)
      /\ ("reentry" \notin Features => \A i \in 1 .. k : stack_frames[i].vm # Current)
      /\ stack_frames[k].vm = Caller
  BY <1>1, <1>2 DEF EndFacts, Given
<1>4. stack_frames' = StackWithout(1)
  BY <1>3 DEF EndCall
<1>5. /\ stack_frames' \in Seq(StackFrame) /\ L' = k /\ SameBelow(k) /\ SameOpen(k)
  <2>1. stack_frames' = StackWithout(n - k) /\ k <= n
    BY <1>3, <1>4
  <2> QED BY <1>3, <2>1, StackCut
<1>6. PICK c \in CallFrame :
        /\ c = Last(runs).call_frame /\ calls[c] = "returned" /\ Apart(H, k, c)
        /\ stack_frames[k].call_frame # c
        /\ \A j \in 1 .. Len(stack_frames[k].open) :
             calls[stack_frames[k].open[j]] = "pending" => stack_frames[k].open[j] # c
  BY <1>1, <1>2, ReturnedApart
<1>7. calls' \in [CallFrame -> CallState] /\ calls'[c] = "free"
      /\ \A d \in CallFrame : d # c => calls'[d] = calls[d]
  BY <1>1, <1>3, <1>6 DEF StacksTyped, CallState
<1>8. /\ call_frames' \in [VM -> Seq(CallFrame)]
      /\ imports' \in Seq(VM) /\ raised' \in Exception \cup {None} /\ by_call' \in BOOLEAN
  BY <1>1, <1>3 DEF StacksTyped
<1>9. /\ StacksTyped' /\ StackInv' /\ TriesInv' /\ TriesOfLoaded' /\ DistinctHeld'
      /\ Current' = Caller /\ Len(runs') = Len(runs) - 1
      /\ \A j \in 1 .. Len(runs) - 1 : runs'[j] = runs[j]
  BY <1>1, <1>2, <1>5, <1>7, <1>8, EndFrames
<1>10. \A i \in 1 .. k : Known(H, hang, i)'
  <2>1. Untouched(H, k)
    BY <1>6, <1>7 DEF Untouched
  <2>2. ~Left' /\ (\A f : Shrinks(f)) /\ mode' \notin {"throw", "again"}
    BY <1>1 DEF Left, Shrinks
  <2>3. /\ \A j \in 1 .. RunOf(k) : runs'[j] = runs[j]
        /\ \A m \in VM, x \in Nat : call_frames'[m][x] = call_frames[m][x]
    BY <1>1, <1>3, <1>9
  <2>4. /\ Given(H, hang, n) /\ k \in 1 .. n - 1 /\ (hang <=> Waits(k))
        /\ L' = k /\ SameBelow(k) /\ SameOpen(k)
    BY <1>3, <1>5
  <2> QED BY <2>1, <2>2, <2>3, <2>4, NewTop
<1>11. Lengths(H, hang)'
  <2>1. \A m \in VM : m # Caller => H[k][m] = H[k][m] /\ call_frames'[m] = call_frames[m]
    BY <1>1
  <2>2. "reentry" \in Features
    <3>1. k \in 1 .. k
      BY <1>3
    <3> QED BY <1>3, <3>1
  <2>3. H[k][Caller] = Len(call_frames'[Caller]) /\ Len(call_frames'[Caller]) \in Nat
    BY <1>1, <1>2, <1>3, <2>2 DEF EndFacts
  <2>4. H[k][Caller] = Len(call_frames'[Caller]) + (IF hang THEN 1 ELSE 0)
    BY <1>3, <2>3
  <2>5. EndsAt(H, H, hang, k)
    BY <1>5, <1>9, <2>1, <2>3, <2>4 DEF EndsAt
  <2> QED BY <1>2, <2>5, EndLengths
<1>12. DistinctEntries'
  <2>1. \A m \in VM : Len(call_frames[m]) \in Nat /\ call_frames[m] \in Seq(CallFrame)
    BY <1>3 DEF Given, TopFacts
  <2>2. \A m \in VM : Len(call_frames'[m]) \in 0 .. Len(call_frames[m])
    BY <1>1, <2>1
  <2>3. \A m \in VM : \A i \in 1 .. Len(call_frames'[m]) :
          /\ call_frames'[m][i] = call_frames[m][i]
          /\ calls'[call_frames[m][i]] \in {"pending", "inner"} =>
               calls[call_frames[m][i]] \in {"pending", "inner"}
    <3> TAKE m \in VM
    <3> TAKE i \in 1 .. Len(call_frames'[m])
    <3>1. call_frames'[m][i] = call_frames[m][i] /\ call_frames[m][i] \in CallFrame
      BY <1>1, <2>1
    <3> QED BY <1>7, <3>1
  <2>4. DistinctEntries
    BY <1>3 DEF CallsInv
  <2> QED BY <2>1, <2>2, <2>3, <2>4, DistinctKept
<1>13. HeldCallFramesAlive' /\ OnTheWay(hang)'
  <2>1. OnTheWay(hang)'
    BY <1>1, <1>3 DEF OnTheWay
  <2>2. \A d \in CallFrame : calls[d] = "outer" => calls'[d] = "outer"
    BY <1>6, <1>7
  <2> QED BY <1>1, <1>2, <1>9, <2>1, <2>2, EndHeld
<1>14. CallsHold'
  <2>1. (\A i \in 1 .. k - 1 : Known(H, hang, i)') /\ Known(H, hang, k)'
    <3>1. k \in 1 .. k /\ \A i \in 1 .. k - 1 : i \in 1 .. k
      BY <1>3
    <3> QED BY <1>10, <3>1
  <2> QED BY <1>5, <1>9, <1>11, <1>12, <1>13, <2>1, CallsAgain
<1> QED BY <1>9, <1>14 DEF IInv

\* The call frame that the starter of the run holds is the last of its list.
LEMMA CallerHolds ==
  ASSUME NEW H \in Heights, NEW hang \in BOOLEAN, NEW n \in Nat, NEW k \in Nat,
         EndFacts(H, hang, n, k), Last(runs).kind \in ForFunction, Caller # Current
  PROVE  \E top \in Nat : /\ top = Len(call_frames[Caller]) /\ top # 0
                          /\ call_frames[Caller][top] = Last(runs).call_frame
                          /\ top = H[n][Caller]
                          /\ Last(runs).kind = "native" => H[k][Caller] = top - 1
                          /\ Last(runs).kind = "call" =>
                               /\ H[k][Caller] = top /\ stack_frames[k].open # <<>>
                               /\ Last(stack_frames[k].open) = Last(runs).call_frame
<1>1. /\ Given(H, hang, n) /\ CallsInv(H, hang) /\ n = L /\ k \in 1 .. n /\ k \in 1 .. L /\ k # L
      /\ n \in 1 .. L /\ k + 1 = n /\ n - 1 = k /\ n > 1
      /\ IsBase(n) /\ RunOf(n) = Len(runs) /\ KindOf(n) = Last(runs).kind /\ Caller \in VM
      /\ stack_frames[k].vm = Caller /\ stack_frames[n].vm = Current
      /\ (Waits(k) <=> Last(runs).kind = "call")
  BY DEF EndFacts, Given
<1>2. /\ H[n][Caller] \in Nat /\ H[k][Caller] \in Nat /\ H[n][Caller] = Len(call_frames[Caller])
      /\ H[n][Caller] = H[k][Caller] + (IF Last(runs).kind = "native" /\ Caller = Caller THEN 1 ELSE 0)
  BY <1>1 DEF EndFacts
<1> PICK top \in Nat : top = H[n][Caller]
  BY <1>2
<1>3. CASE Last(runs).kind = "native"
  <2>1. H[n][Caller] = H[k][Caller] + 1
    BY <1>2, <1>3
  <2>2. Held(n, Caller) = 1
    BY <1>1, <1>3 DEF Held
  <2>3. call_frames[Caller][H[n][Caller]] = runs[RunOf(n)].call_frame
    <3>1. Entry(H, hang, n)
      BY <1>1 DEF CallsInv
    <3> QED BY <1>1, <2>2, <3>1 DEF Entry
  <2>4. top # 0 /\ H[k][Caller] = top - 1
    BY <1>2, <2>1
  <2>5. call_frames[Caller][top] = Last(runs).call_frame /\ top = Len(call_frames[Caller])
    BY <1>1, <1>2, <2>3 DEF Last
  <2> QED BY <1>3, <2>4, <2>5
<1>4. CASE Last(runs).kind = "call"
  <2>1. H[k][Caller] = top
    BY <1>2, <1>4
  <2>2. FrameFacts(H, hang, k)
    BY <1>1, FrameKnown
  <2>3. stack_frames[k].open # <<>> /\ Last(stack_frames[k].open) = runs[RunOf(k + 1)].call_frame
    BY <1>1, <1>4, <2>2 DEF FrameFacts, Known, OpenCalls
  <2>4. Last(stack_frames[k].open) = Last(runs).call_frame
    BY <1>1, <2>3 DEF Last
  <2> PICK o \in Nat : o = Len(stack_frames[k].open)
    BY <2>2 DEF FrameFacts
  <2>5. o \in Nat \ {0} /\ o \in 1 .. o
    <3>1. stack_frames[k].open \in Seq(CallFrame)
      BY <2>2 DEF FrameFacts
    <3>2. o \in Nat \ {0}
      BY <2>3, <3>1, SequenceLen
    <3> QED BY <3>2
  <2>6. OpenHere(k) = o
    BY <1>1 DEF OpenHere
  <2>7. call_frames[Caller][(H[k][Caller] - OpenHere(k)) + o] = stack_frames[k].open[o]
    BY <1>1, <2>2, <2>5, <2>6 DEF FrameFacts, Known, Entry
  <2>8. (H[k][Caller] - OpenHere(k)) + o = top
    <3>1. (top - o) + o = top
      OBVIOUS
    <3> QED BY <2>1, <2>6, <3>1
  <2>9. call_frames[Caller][top] = Last(runs).call_frame
    BY <2>4, <2>7, <2>8 DEF Last
  <2>10. top # 0
    <3>1. H[k - 1][Caller] <= H[k][Caller] - OpenHere(k) /\ H[k - 1][Caller] \in Nat
      <4>1. k - 1 \in Nat
        BY <1>1
      <4> QED BY <1>1, <4>1, ZenonT(30) DEF Given, HeightFacts, Heights
    <3>2. PICK g \in Nat : g = H[k - 1][Caller]
      BY <3>1
    <3>3. g <= top - o
      BY <2>1, <2>6, <3>1, <3>2
    <3> QED BY <2>5, <3>3
  <2> QED BY <1>2, <1>4, <2>1, <2>3, <2>4, <2>9, <2>10
<1> QED BY <1>3, <1>4 DEF ForFunction

\* A call of another module's function is over, or a callback.
LEMMA EndOuterStep ==
  ASSUME IInv, WorkingFeatures, EndCall, Caller # Current
  PROVE  IInv'
<1>1. /\ mode = "end" /\ mode' = "run" /\ Last(runs).kind \in ForFunction /\ Last(runs).kind # "main"
      /\ frames' = FramesWithout(1) /\ runs' = Front(runs) /\ PopCallFrames(Caller, 1)
      /\ Last(runs).kind # "call" => stack_frames' = StackWithout(1)
      /\ Last(runs).kind = "call" =>
           stack_frames' = WithOpen(StackWithout(1), Front(Last(StackWithout(1)).open))
      /\ UNCHANGED <<tries, imports, loaded, raised, by_call>>
  BY DEF EndCall, ForFunction
<1>2. PICK H \in Heights, hang \in BOOLEAN, n \in Nat, k \in Nat : EndFacts(H, hang, n, k)
  BY <1>1, EndIs
<1>3. /\ Given(H, hang, n) /\ ~hang /\ n = L /\ k \in Nat \ {0} /\ k < n /\ n - k = 1 /\ k + 1 = n
      /\ k \in 1 .. n - 1 /\ RunOf(k) = Len(runs) - 1 /\ (Waits(k) <=> Last(runs).kind = "call")
      /\ Caller \in VM /\ stack_frames[k].vm = Caller /\ StacksTyped /\ StackInv /\ CallsInv(H, hang)
      /\ k \in 1 .. n /\ k \in 1 .. L
  BY <1>2 DEF EndFacts, Given
<1> PICK s \in Seq(StackFrame) : s = StackWithout(1)
  BY <1>3, StackWithoutIs
<1>4. Len(s) = k /\ (\A i \in 1 .. k : s[i] = stack_frames[i]) /\ s # <<>>
  <2>1. 1 \in 0 .. L /\ L - 1 = k
    BY <1>3
  <2>2. Len(s) = k /\ (\A i \in 1 .. k : s[i] = stack_frames[i])
    BY <1>3, <2>1, StackWithoutIs
  <2>3. Len(<<>>) = 0
    OBVIOUS
  <2> QED BY <1>3, <2>2, <2>3
<1>5. PICK top \in Nat : /\ top = Len(call_frames[Caller]) /\ top # 0
                         /\ call_frames[Caller][top] = Last(runs).call_frame
                         /\ top = H[n][Caller]
                         /\ Last(runs).kind = "native" => H[k][Caller] = top - 1
                         /\ Last(runs).kind = "call" =>
                              /\ H[k][Caller] = top /\ stack_frames[k].open # <<>>
                              /\ Last(stack_frames[k].open) = Last(runs).call_frame
  BY <1>1, <1>2, CallerHolds
<1>6. PICK c \in CallFrame :
        /\ c = Last(runs).call_frame /\ calls[c] = "returned" /\ Apart(H, k, c)
        /\ stack_frames[k].call_frame # c
        /\ \A j \in 1 .. Len(stack_frames[k].open) :
             calls[stack_frames[k].open[j]] = "pending" => stack_frames[k].open[j] # c
  BY <1>1, <1>2, ReturnedApart
<1>7. CallPopped(Caller, c, top)
  BY <1>1, <1>3, <1>5, <1>6, CallIsPopped
<1>8. FrameFacts(H, hang, k)
  BY <1>3, FrameKnown
<1> PICK o \in Nat : o = Len(stack_frames[k].open)
  BY <1>8 DEF FrameFacts
<1>9. /\ stack_frames' \in Seq(StackFrame) /\ L' = k /\ SameBelow(k) /\ SameOpen(k - 1)
      /\ Last(runs).kind # "call" => SameOpen(k)
      /\ Last(runs).kind = "call" =>
           /\ o \in Nat \ {0} /\ Len(stack_frames'[k].open) = o - 1
           /\ \A j \in 1 .. o - 1 : stack_frames'[k].open[j] = stack_frames[k].open[j]
  <2>1. CASE Last(runs).kind # "call"
    <3>1. stack_frames' = s
      BY <1>1, <2>1
    <3>2. SameBelow(k) /\ SameOpen(k) /\ SameOpen(k - 1)
      BY <1>3, <1>4, <3>1 DEF SameBelow, SameOpen
    <3> QED BY <1>4, <2>1, <3>1, <3>2 DEF L
  <2>2. CASE Last(runs).kind = "call"
    <3>1. Last(s) = stack_frames[k]
      <4>1. k \in 1 .. k
        BY <1>3
      <4> QED BY <1>4, <4>1 DEF Last
    <3> PICK q \in Seq(CallFrame) : q = stack_frames[k].open
      BY <1>8 DEF FrameFacts
    <3>2. o \in Nat \ {0} /\ q # <<>>
      BY <1>5, <2>2, SequenceLen
    <3> PICK p \in Seq(CallFrame) : p = Front(q)
      <4>1. o - 1 \in 0 .. o
        BY <3>2
      <4> QED BY <4>1, Prefix DEF Front
    <3>3. Len(p) = o - 1 /\ \A j \in 1 .. o - 1 : p[j] = q[j]
      <4>1. o - 1 \in 0 .. o
        BY <3>2, SMTT(30)
      <4> QED BY <4>1, Prefix DEF Front
    <3>4. stack_frames' = WithOpen(s, p)
      BY <1>1, <2>2, <3>1
    <3>5. OpenIs(s, p)
      BY <1>4, WithOpenAre
    <3>6. /\ stack_frames' \in Seq(StackFrame) /\ Len(stack_frames') = k
          /\ \A i \in 1 .. k - 1 : stack_frames'[i] = stack_frames[i]
      <4>1. \A i \in 1 .. k - 1 : i \in 1 .. k
        BY <1>3
      <4> QED BY <1>4, <3>4, <3>5, <4>1 DEF OpenIs
    <3>7. SameBelow(k)
      <4>1. \A i \in 1 .. k : /\ stack_frames'[i].frame = s[i].frame
                              /\ stack_frames'[i].vm = s[i].vm
                              /\ stack_frames'[i].call_frame = s[i].call_frame
        BY <1>4, <3>4, <3>5 DEF OpenIs
      <4> QED BY <1>4, <4>1 DEF SameBelow
    <3>8. SameOpen(k - 1)
      BY <3>6 DEF SameOpen
    <3>9. stack_frames'[k].open = p
      BY <1>4, <3>4, <3>5 DEF OpenIs
    <3> QED BY <2>2, <3>2, <3>3, <3>6, <3>7, <3>8, <3>9 DEF L
  <2> QED BY <2>1, <2>2
<1>10. /\ call_frames' \in [VM -> Seq(CallFrame)] /\ calls' \in [CallFrame -> CallState]
       /\ imports' \in Seq(VM) /\ raised' \in Exception \cup {None} /\ by_call' \in BOOLEAN
       /\ Len(call_frames'[Caller]) = top - 1 /\ top - 1 \in Nat
       /\ \A m \in VM : m # Caller => call_frames'[m] = call_frames[m]
       /\ DistinctEntries'
  <2>1. imports' \in Seq(VM) /\ raised' \in Exception \cup {None} /\ by_call' \in BOOLEAN
    BY <1>1, <1>3 DEF StacksTyped
  <2> QED BY <1>7, <2>1 DEF CallPopped
<1>11. /\ StacksTyped' /\ StackInv' /\ TriesInv' /\ TriesOfLoaded' /\ DistinctHeld'
       /\ Current' = Caller /\ Len(runs') = Len(runs) - 1
       /\ \A j \in 1 .. Len(runs) - 1 : runs'[j] = runs[j]
  <2>1. UNCHANGED <<tries, loaded>> /\ mode' \in {"run", "throw"} /\ mode' # "throw" /\ mode \in {"end", "leave"}
    BY <1>1
  <2> QED BY <1>1, <1>2, <1>9, <1>10, <2>1, EndFrames
<1> PICK x \in Nat : x = top - 1
  BY <1>5
<1> PICK G \in Heights : SetsHeight(H, G, k, Caller, x)
  BY <1>3, HeightSet
<1>12. /\ G[k][Caller] = top - 1 /\ \A m \in VM : m # Caller => G[k][m] = H[k][m]
       /\ \A i \in 0 .. k - 1 : G[i] = H[i]
  BY <1>3 DEF SetsHeight
<1>13. Untouched(H, k) /\ ~Left' /\ (\A f : Shrinks(f)) /\ mode' \notin {"throw", "again"}
       /\ \A j \in 1 .. RunOf(k) : runs'[j] = runs[j]
  <2>1. Untouched(H, k)
    BY <1>6, <1>7 DEF Untouched, CallPopped
  <2> QED BY <1>1, <1>3, <1>11, <2>1 DEF Left, Shrinks
<1>14. \A m \in VM, y \in Nat : 1 <= y /\ (m = Caller => y < top) => call_frames'[m][y] = call_frames[m][y]
  BY <1>7 DEF CallPopped
<1>15. \A i \in 1 .. k : Known(G, hang, i)'
  <2>1. CASE Last(runs).kind # "call"
    <3>1. \A m \in VM, y \in Nat : 1 <= y /\ y <= H[k][m] => call_frames'[m][y] = call_frames[m][y]
      <4> TAKE m \in VM, y \in Nat
      <4> HAVE 1 <= y /\ y <= H[k][m]
      <4>1. H[k][Caller] = top - 1
        BY <1>1, <1>5, <2>1 DEF ForFunction
      <4>2. m = Caller => y < top
        BY <4>1
      <4> QED BY <1>14, <4>2
    <3>2. /\ Given(H, hang, n) /\ k \in 1 .. n - 1 /\ (hang <=> Waits(k))
          /\ L' = k /\ SameBelow(k) /\ SameOpen(k)
      BY <1>3, <1>9, <2>1
    <3>3. \A i \in 1 .. k : Known(H, hang, i)'
      BY <1>13, <3>1, <3>2, NewTop, ZenonT(30)
    <3>4. G = H
      <4>1. H[k][Caller] = top - 1
        BY <1>1, <1>5, <2>1 DEF ForFunction
      <4>2. \A i \in Nat : G[i] = H[i]
        <5> TAKE i \in Nat
        <5>1. CASE i # k
          BY <5>1 DEF SetsHeight
        <5>2. CASE i = k
          <6>1. G[k] \in [VM -> Nat] /\ H[k] \in [VM -> Nat]
            BY <1>3 DEF Heights
          <6>2. \A m \in VM : G[k][m] = H[k][m]
            BY <1>12, <4>1
          <6> QED BY <5>2, <6>1, <6>2
        <5> QED BY <5>1, <5>2
      <4> QED BY <4>2 DEF Heights
    <3> QED BY <3>3, <3>4
  <2>2. CASE Last(runs).kind = "call"
    <3>0. H[k][Caller] = top /\ o \in Nat \ {0} /\ c = stack_frames[k].open[o]
          /\ Len(stack_frames'[k].open) = o - 1
          /\ \A j \in 1 .. o - 1 : stack_frames'[k].open[j] = stack_frames[k].open[j]
      BY <1>5, <1>6, <1>9, <2>2 DEF Last
    <3> PICK p \in Nat : p = o - 1
      BY <3>0
    <3>1. \A i \in 1 .. k - 1 : Known(G, hang, i)'
      <4>1. \A m \in VM, y \in Nat : 1 <= y /\ y <= H[k - 1][m] => call_frames'[m][y] = call_frames[m][y]
        <5> TAKE m \in VM, y \in Nat
        <5> HAVE 1 <= y /\ y <= H[k - 1][m]
        <5>1. H[k - 1][Caller] <= H[k][Caller] - OpenHere(k) /\ OpenHere(k) = o /\ H[k - 1][Caller] \in Nat
          <6>1. k - 1 \in Nat
            <7>1. \A a \in Nat \ {0} : a - 1 \in Nat
              OBVIOUS
            <7>2. k \in Nat \ {0}
              BY <1>3
            <7> QED BY <7>1, <7>2
          <6>2. k # L
            BY <1>3
          <6> QED BY <1>3, <6>1, <6>2, ZenonT(30) DEF Given, HeightFacts, Heights, OpenHere
        <5>2. PICK g \in Nat : g = H[k - 1][Caller]
          BY <5>1
        <5>3. g <= top - o
          BY <3>0, <5>1, <5>2
        <5>5. g < top
          BY <3>0, <5>3, SMTT(30)
        <5>4. m = Caller => y < top
          BY <5>2, <5>5
        <5> QED BY <1>14, <5>4
      <4>2. \A d \in CallFrame : calls'[d] = calls[d] \/ Apart(H, k, d)
        BY <1>13 DEF Untouched
      <4>3. Undisturbed(H, G, k)
        BY <1>9, <1>12, <1>13, <4>1, <4>2 DEF Undisturbed
      <4>4. k \in 1 .. L /\ k <= L' /\ L' \in Nat
        BY <1>3, <1>9
      <4> QED BY <1>3, <4>3, <4>4, KeptBelow DEF Known
    <3>2. KeepsPlace(H, G, k, p)
      <4>1. G[k][Caller] = (H[k][Caller] - o) + p
        <5>1. top - 1 = (top - o) + p
          BY <3>0
        <5> QED BY <1>12, <3>0, <5>1
      <4>2. G[k - 1] = H[k - 1]
        <5>1. k - 1 \in 0 .. k - 1
          BY <1>3
        <5> QED BY <1>12, <5>1
      <4>3. k <= L' /\ L' \in Nat /\ k # L /\ p <= o
        <5>1. k # L
          BY <1>3
        <5>2. p <= o
          BY <3>0
        <5> QED BY <1>9, <5>1, <5>2
      <4> QED BY <1>3, <1>9, <1>12, <1>13, <3>0, <4>1, <4>2, <4>3 DEF KeepsPlace
    <3>3. KeepsCalls(H, G, hang, hang, k, p)
      <4>1. stack_frames[k].call_frame # None =>
              calls'[stack_frames[k].call_frame] = calls[stack_frames[k].call_frame]
        BY <1>8, <1>13 DEF FrameFacts, Untouched
      <4>2. \A j \in 1 .. p : calls'[stack_frames[k].open[j]] = "pending"
        <5> TAKE j \in 1 .. p
        <5>1. j \in 1 .. o /\ j # o
          BY <3>0, SMTT(30)
        <5>2. stack_frames[k].open[j] \in CallFrame
          BY <1>8, <5>1 DEF FrameFacts
        <5>3. k # L
          BY <1>3
        <5>4. calls[stack_frames[k].open[j]] = "pending"
          BY <1>8, <5>1, <5>3 DEF FrameFacts, Known, States, OpenHere
        <5> QED BY <1>13, <5>1, <5>2, <5>4 DEF Untouched
      <4>3. \A m \in VM, y \in Nat : 1 <= y /\ y <= G[k][m] => call_frames'[m][y] = call_frames[m][y]
        <5> TAKE m \in VM, y \in Nat
        <5> HAVE 1 <= y /\ y <= G[k][m]
        <5>1. m = Caller => y < top
          BY <1>5, <1>12
        <5> QED BY <1>14, <5>1
      <4>4. k # L
        BY <1>3
      <4> QED BY <1>3, <4>1, <4>2, <4>3, <4>4 DEF KeepsCalls
    <3>4. OpenCalls(hang, k)'
      <4>1. IsBase(k)' = IsBase(k) /\ RunOf(k)' = RunOf(k)
        <5>1. k \in 0 .. k /\ k \in 1 .. k
          BY <1>3
        <5> QED BY <1>9, <5>1, CountsBelow
      <4>2. RunOf(k) \in 1 .. RunOf(k)
        <5>1. RunOf(k) \in 1 .. Len(runs)
          BY <1>3 DEF Given, Structure
        <5> QED BY <5>1
      <4>3. ~StartsFunction(k)'
        <5>1. ~StartsFunction(k)
          BY <1>5, <1>8, <2>2 DEF FrameFacts, Known, OpenCalls
        <5> QED BY <1>13, <4>1, <4>2, <5>1 DEF StartsFunction, KindOf
      <4>4. ~Waits(k)' /\ ~(k < L')
        BY <1>3, <1>9 DEF Waits
      <4>5. LeavesArguments' <=> LeavesArguments
        BY DEF LeavesArguments
      <4>6. ~LeavesArguments => Len(stack_frames'[k].open) <= 1
        <5>1. ~LeavesArguments => o <= 1
          BY <1>8 DEF FrameFacts, Known, OpenCalls
        <5> QED BY <3>0, <5>1
      <4> QED BY <1>1, <4>3, <4>4, <4>5, <4>6 DEF OpenCalls
    <3>5. Known(G, hang, k)'
      <4>1. Shrinks(stack_frames[k].frame) /\ k \in 1 .. L
        BY <1>3, <1>13
      <4> QED BY <1>3, <3>2, <3>3, <3>4, <4>1, KeptFrame
    <3> QED BY <1>3, <3>1, <3>5
  <2> QED BY <2>1, <2>2
<1>16. Lengths(G, hang)'
  <2>1. \A m \in VM : m # Caller => G[k][m] = H[k][m] /\ call_frames'[m] = call_frames[m]
    BY <1>10, <1>12
  <2>2. G[k][Caller] = Len(call_frames'[Caller]) + (IF hang THEN 1 ELSE 0)
    BY <1>3, <1>10, <1>12
  <2>3. L' = k /\ SameBelow(k) /\ Current' = Caller /\ Len(call_frames'[Caller]) \in Nat
    BY <1>9, <1>10, <1>11
  <2>4. EndsAt(H, G, hang, k)
    BY <2>1, <2>2, <2>3 DEF EndsAt
  <2> QED BY <1>2, <2>4, EndLengths
<1>17. HeldCallFramesAlive' /\ OnTheWay(hang)'
  <2>1. OnTheWay(hang)'
    BY <1>1, <1>3 DEF OnTheWay
  <2>2. \A d \in CallFrame : calls[d] = "outer" => calls'[d] = "outer"
    BY <1>6, <1>7 DEF CallPopped
  <2> QED BY <1>1, <1>2, <1>11, <2>1, <2>2, EndHeld
<1>18. CallsHold'
  <2>1. (\A i \in 1 .. k - 1 : Known(G, hang, i)') /\ Known(G, hang, k)'
    <3>1. k \in 1 .. k /\ \A i \in 1 .. k - 1 : i \in 1 .. k
      BY <1>3
    <3> QED BY <1>15, <3>1
  <2> QED BY <1>9, <1>10, <1>11, <1>16, <1>17, <2>1, CallsAgain
<1> QED BY <1>11, <1>18 DEF IInv

\* The end of a call or a callback keeps the invariant.
LEMMA EndCallStep ==
  ASSUME IInv, WorkingFeatures, EndCall
  PROVE  IInv'
BY EndCallBackStep, EndOuterStep

\* An exception leaves run: a VM that called another one is in the middle of
\* its Call again, without its call frame.
LEMMA LeaveStep ==
  ASSUME IInv, WorkingFeatures, Leave
  PROVE  IInv'
<1>1. /\ mode = "leave" /\ Last(runs).kind # "main"
      /\ frames' = FramesWithout(1) /\ stack_frames' = StackWithout(1)
      /\ runs' = Front(runs) /\ mode' \in {"run", "throw"}
      /\ Last(runs).kind = "import" \/ Caller = Current => call_frames' = call_frames
      /\ ~(Last(runs).kind = "import" \/ Caller = Current) => call_frames' = DropCallFrame(Caller)
      /\ mode' = "throw" => raised' = raised
      /\ mode' = "run" => Last(runs).kind = "native"
      /\ raised' \in {raised, None} /\ by_call' \in BOOLEAN
      /\ UNCHANGED <<calls, tries, imports, loaded>>
  BY DEF Leave
<1>2. PICK H \in Heights, hang \in BOOLEAN, n \in Nat, k \in Nat : EndFacts(H, hang, n, k)
  BY <1>1, EndIs
<1>3. /\ Given(H, hang, n) /\ ~hang /\ n = L /\ k \in Nat \ {0} /\ k < n /\ n - k = 1 /\ k + 1 = n
      /\ k \in 1 .. n - 1 /\ RunOf(k) = Len(runs) - 1 /\ (Waits(k) <=> Last(runs).kind = "call")
      /\ H[n][Caller] = Len(call_frames[Caller]) /\ Caller \in VM /\ stack_frames[k].vm = Caller
      /\ StacksTyped /\ StackInv /\ TriesInv /\ CallsInv(H, hang) /\ k \in 1 .. n /\ k \in 1 .. L /\ k < L
      /\ (Last(runs).kind = "call" => Caller # Current)
      /\ Len(runs) \in 1 .. Len(runs) /\ \A m \in VM : call_frames[m] \in Seq(CallFrame)
  <2>1. Len(runs) \in Nat \ {0, 1}
    BY <1>2 DEF EndFacts
  <2>2. Len(runs) \in 1 .. Len(runs)
    BY <2>1
  <2> QED BY <1>2, <2>2 DEF EndFacts, Given
<1> PICK hang2 \in BOOLEAN : hang2 <=> Last(runs).kind = "call"
  OBVIOUS
<1>4. /\ stack_frames' \in Seq(StackFrame) /\ L' = k /\ SameBelow(k) /\ SameOpen(k)
  <2>1. stack_frames' = StackWithout(n - k) /\ k <= n
    BY <1>1, <1>3
  <2> QED BY <1>3, <2>1, StackCut
<1>5. Last(runs).kind \in {"import", "call", "native"}
  <2>1. runs[Len(runs)] \in Activation
    BY <1>3 DEF Given, Structure
  <2> QED BY <1>1, <2>1 DEF Activation, Last
<1>6. ASSUME ~(Last(runs).kind = "import" \/ Caller = Current)
      PROVE  \E top \in Nat :
               /\ top = Len(call_frames[Caller]) /\ top # 0
               /\ Last(runs).kind = "native" => H[k][Caller] = top - 1
               /\ Last(runs).kind = "call" => H[k][Caller] = top
               /\ call_frames' \in [VM -> Seq(CallFrame)]
               /\ Len(call_frames'[Caller]) = top - 1
               /\ \A i \in 1 .. top - 1 : call_frames'[Caller][i] = call_frames[Caller][i]
               /\ \A m \in VM : m # Caller => call_frames'[m] = call_frames[m]
  <2>1. Last(runs).kind \in ForFunction /\ Caller # Current
    BY <1>5, <1>6 DEF ForFunction
  <2>2. PICK top \in Nat : /\ top = Len(call_frames[Caller]) /\ top # 0
                           /\ Last(runs).kind = "native" => H[k][Caller] = top - 1
                           /\ Last(runs).kind = "call" => H[k][Caller] = top
    BY <1>2, <2>1, CallerHolds
  <2>3. call_frames[Caller] # <<>>
    BY <2>2
  <2>4. /\ call_frames' \in [VM -> Seq(CallFrame)]
        /\ Len(call_frames'[Caller]) = Len(call_frames[Caller]) - 1
        /\ \A i \in 1 .. Len(call_frames[Caller]) - 1 : call_frames'[Caller][i] = call_frames[Caller][i]
        /\ \A m \in VM : m # Caller => call_frames'[m] = call_frames[m]
    BY <1>1, <1>3, <1>6, <2>3, DropCallFrameIs
  <2> QED BY <2>2, <2>4
<1>7. /\ call_frames' \in [VM -> Seq(CallFrame)] /\ calls' \in [CallFrame -> CallState]
      /\ imports' \in Seq(VM) /\ raised' \in Exception \cup {None} /\ by_call' \in BOOLEAN
      /\ (mode' = "throw" => raised' # None)
  <2>1. call_frames' \in [VM -> Seq(CallFrame)]
    BY <1>1, <1>3, <1>6 DEF StacksTyped
  <2> QED BY <1>1, <1>3, <2>1 DEF StacksTyped
<1>8. /\ StacksTyped' /\ StackInv' /\ TriesInv' /\ TriesOfLoaded' /\ DistinctHeld'
      /\ Current' = Caller /\ Len(runs') = Len(runs) - 1
      /\ \A j \in 1 .. Len(runs) - 1 : runs'[j] = runs[j]
  <2>1. mode \in {"end", "leave"}
    BY <1>1
  <2> QED BY <1>1, <1>2, <1>4, <1>7, <2>1, EndFrames
<1>9. FrameFacts(H, hang, k)
  BY <1>3, FrameKnown
<1>10. \A i \in 1 .. k : Known(H, hang2, i)'
  <2>1. Untouched(H, k)
    BY <1>1 DEF Untouched
  <2>2. ~Left' /\ (\A f : Shrinks(f)) /\ \A j \in 1 .. RunOf(k) : runs'[j] = runs[j]
    BY <1>1, <1>3, <1>8 DEF Left, Shrinks
  <2>3. \A m \in VM, x \in Nat :
          /\ 1 <= x /\ x <= H[k][m] /\ ~(hang2 /\ m = stack_frames[k].vm /\ x = H[k][m])
          => call_frames'[m][x] = call_frames[m][x]
    <3>1. CASE Last(runs).kind = "import" \/ Caller = Current
      BY <1>1, <3>1
    <3>2. CASE ~(Last(runs).kind = "import" \/ Caller = Current)
      <4>1. PICK top \in Nat :
               /\ top = Len(call_frames[Caller]) /\ top # 0
               /\ Last(runs).kind = "native" => H[k][Caller] = top - 1
               /\ Last(runs).kind = "call" => H[k][Caller] = top
               /\ \A i \in 1 .. top - 1 : call_frames'[Caller][i] = call_frames[Caller][i]
               /\ \A m \in VM : m # Caller => call_frames'[m] = call_frames[m]
        BY <1>6, <3>2
      <4> TAKE m \in VM, x \in Nat
      <4> HAVE /\ 1 <= x /\ x <= H[k][m]
               /\ ~(hang2 /\ m = stack_frames[k].vm /\ x = H[k][m])
      <4>2. CASE m # Caller
        BY <4>1, <4>2
      <4>3. CASE m = Caller
        <5>1. x \in 1 .. top - 1
          <6>1. CASE Last(runs).kind = "native"
            <7>1. x <= top - 1
              BY <4>1, <4>3, <6>1
            <7> QED BY <7>1
          <6>2. CASE Last(runs).kind = "call"
            <7>1. x <= top /\ x # top
              BY <1>3, <4>1, <4>3, <6>2
            <7> QED BY <7>1
          <6> QED BY <1>5, <3>2, <6>1, <6>2
        <5> QED BY <4>1, <4>3, <5>1
      <4> QED BY <4>2, <4>3
    <3> QED BY <3>1, <3>2
  <2>4. /\ Given(H, hang, n) /\ k \in 1 .. n - 1 /\ (hang2 <=> Waits(k))
        /\ L' = k /\ SameBelow(k) /\ SameOpen(k)
    BY <1>3, <1>4
  <2>5. hang2 \/ LeavesArguments \/ mode' \notin {"throw", "again"} \/ stack_frames[k].open = <<>>
    BY <1>3, <1>9 DEF FrameFacts, Known, OpenCalls
  <2> QED BY <2>1, <2>2, <2>3, <2>4, <2>5, NewTop
<1>11. Lengths(H, hang2)'
  <2> PICK one \in Nat : one = IF hang2 THEN 1 ELSE 0
    OBVIOUS
  <2>1. /\ \A m \in VM : m # Caller => call_frames'[m] = call_frames[m]
        /\ Len(call_frames'[Caller]) \in Nat
        /\ H[k][Caller] = Len(call_frames'[Caller]) + one
    <3>1. CASE Last(runs).kind = "import" \/ Caller = Current
      <4>1. H[k][Caller] = H[n][Caller] /\ H[n][Caller] \in Nat
        <5>1. H[n][Caller] \in Nat /\ H[k][Caller] \in Nat
          BY <1>2, <1>3 DEF EndFacts
        <5>2. CASE Caller = Current
          <6>1. "reentry" \in Features
            <7>1. k \in 1 .. k
              BY <1>3
            <7> QED BY <1>2, <1>3, <5>2, <7>1 DEF EndFacts
          <6> QED BY <1>2, <5>1, <5>2, <6>1 DEF EndFacts
        <5>3. CASE Caller # Current
          <6>1. Last(runs).kind # "native"
            BY <3>1, <5>3
          <6>2. H[n][Caller] = H[k][Caller] + 0
            BY <1>2, <1>3, <5>3, <6>1 DEF EndFacts
          <6> QED BY <5>1, <6>2
        <5> QED BY <5>2, <5>3
      <4>2. one = 0
        BY <1>3, <3>1
      <4>3. Len(call_frames'[Caller]) = H[k][Caller] /\ call_frames' = call_frames
        BY <1>1, <1>3, <3>1, <4>1
      <4> QED BY <4>1, <4>2, <4>3
    <3>2. CASE ~(Last(runs).kind = "import" \/ Caller = Current)
      <4>1. PICK top \in Nat :
               /\ top = Len(call_frames[Caller]) /\ top # 0
               /\ Last(runs).kind = "native" => H[k][Caller] = top - 1
               /\ Last(runs).kind = "call" => H[k][Caller] = top
               /\ Len(call_frames'[Caller]) = top - 1
               /\ \A m \in VM : m # Caller => call_frames'[m] = call_frames[m]
        BY <1>6, <3>2
      <4>2. CASE Last(runs).kind = "native"
        <5>1. one = 0
          BY <4>2
        <5> QED BY <4>1, <4>2, <5>1
      <4>3. CASE Last(runs).kind = "call"
        <5>1. one = 1
          BY <4>3
        <5> QED BY <4>1, <4>3, <5>1
      <4> QED BY <1>5, <3>2, <4>2, <4>3
    <3> QED BY <3>1, <3>2
  <2>2. EndsAt(H, H, hang2, k)
    BY <1>4, <1>8, <2>1 DEF EndsAt
  <2> QED BY <1>2, <2>2, EndLengths
<1>12. DistinctEntries'
  <2>1. \A m \in VM : Len(call_frames[m]) \in Nat /\ call_frames[m] \in Seq(CallFrame)
    BY <1>3 DEF Given, TopFacts
  <2>2. \A m \in VM : /\ Len(call_frames'[m]) \in 0 .. Len(call_frames[m])
                      /\ \A i \in 1 .. Len(call_frames'[m]) : call_frames'[m][i] = call_frames[m][i]
    <3>1. CASE Last(runs).kind = "import" \/ Caller = Current
      BY <1>1, <2>1, <3>1
    <3>2. CASE ~(Last(runs).kind = "import" \/ Caller = Current)
      <4>1. PICK top \in Nat :
               /\ top = Len(call_frames[Caller]) /\ top # 0
               /\ Len(call_frames'[Caller]) = top - 1
               /\ \A i \in 1 .. top - 1 : call_frames'[Caller][i] = call_frames[Caller][i]
               /\ \A m \in VM : m # Caller => call_frames'[m] = call_frames[m]
        BY <1>6, <3>2
      <4>2. top - 1 \in 0 .. top
        BY <4>1
      <4> TAKE m \in VM
      <4>3. CASE m = Caller
        BY <4>1, <4>2, <4>3
      <4>4. CASE m # Caller
        <5>1. call_frames'[m] = call_frames[m]
          BY <4>1, <4>4
        <5> QED BY <2>1, <5>1
      <4> QED BY <4>3, <4>4
    <3> QED BY <3>1, <3>2
  <2>3. DistinctEntries
    BY <1>3 DEF CallsInv
  <2> QED BY <1>1, <2>1, <2>2, <2>3, DistinctKept
<1>13. HeldCallFramesAlive'
  <2>1. \A d \in CallFrame : calls[d] = "outer" => calls'[d] = "outer"
    BY <1>1
  <2>2. mode' \in {"run", "throw"}
    BY <1>1
  <2> QED BY <1>2, <1>8, <2>1, <2>2, EndHeld
<1>14. OnTheWay(hang2)'
  <2>1. mode' # "end"
    BY <1>1
  <2> SUFFICES ASSUME hang2 PROVE mode' = "throw" /\ InCall' /\ CatchesAll(Top.frame)'
    BY <2>1 DEF OnTheWay
  <2>2. mode' = "throw" /\ Waits(k)
    BY <1>1, <1>3
  <2>3. Top' = stack_frames[k]
    <3>1. k \in 1 .. k /\ k \in 0 .. n
      BY <1>3
    <3>2. stack_frames'[k] = stack_frames[k]
      <4>1. stack_frames' = StackWithout(n - k) /\ k <= n
        BY <1>1, <1>3
      <4> QED BY <1>3, <3>1, <4>1, StackCut
    <3> QED BY <1>4, <3>2 DEF Top, Last, L
  <2>4. InCall'
    BY <1>9, <2>2, <2>3 DEF InCall, FrameFacts, Known, OpenCalls
  <2>5. CatchesAll(stack_frames[k].frame)
    BY <1>3, <2>2 DEF TriesInv, TriesBelow
  <2> QED BY <1>1, <2>2, <2>3, <2>4, <2>5 DEF CatchesAll
<1>15. CallsHold'
  <2>1. (\A i \in 1 .. k - 1 : Known(H, hang2, i)') /\ Known(H, hang2, k)'
    <3>1. k \in 1 .. k /\ \A i \in 1 .. k - 1 : i \in 1 .. k
      BY <1>3, SMTT(30)
    <3> QED BY <1>10, <3>1
  <2> QED BY <1>4, <1>8, <1>11, <1>12, <1>13, <1>14, <2>1, CallsAgain
<1> QED BY <1>8, <1>15 DEF IInv
==============================================================================
