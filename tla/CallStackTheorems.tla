-------------------------- MODULE CallStackTheorems --------------------------
(***************************************************************************)
(* The invariant of CallStack is kept when runs start, and when an exception *)
(* is handled or leaves a run; so it always holds, and with it the safety  *)
(* properties.                                                             *)
(***************************************************************************)
EXTENDS CallStackSteps

-----------------------------------------------------------------------------
(* Runs start: CallModule, CallBack and Import.                            *)

\* What a run of kind on m starts from, with n frames on the stack, l open
\* calls of the top one and top call frames: its base is pushed, and a
\* function with the call frame c unless it is an import.
Starting(H, hang, n, l, top, m, kind, c) ==
  /\ Given(H, hang, n) /\ RunningNow(H, hang, n, l, top) /\ mode = "run" /\ mode' = "run"
  /\ m \in VM /\ kind \in {"import", "call", "native"}
  /\ tries' = tries /\ tries[m] = <<>>
  /\ runs' = Append(runs, [vm |-> m, kind |-> kind, call_frame |-> c])
  /\ \A i \in 1 .. n : stack_frames'[i] = stack_frames[i]
  /\ stack_frames'[n + 1] = NewFrame(m, m, None)
  /\ call_frames' \in [VM -> Seq(CallFrame)] /\ calls' \in [CallFrame -> CallState]
  /\ kind = "import" => L' = n + 1 /\ c = None /\ call_frames' = call_frames /\ calls' = calls
  /\ kind # "import" =>
       /\ L' = n + 2 /\ c \in CallFrame
       /\ \E f \in Frame : stack_frames'[n + 2] = NewFrame(f, m, c) /\ tries[f] = <<>>
       /\ calls[c] \in {"free", "pending"} /\ Apart(H, n, c) /\ stack_frames[n].call_frame # c
       /\ calls'[c] = "outer" /\ \A d \in CallFrame : d # c => calls'[d] = calls[d]
       /\ \A x \in VM :
            IF x = m \/ (kind = "native" /\ x = Current)
            THEN /\ call_frames'[x] = Append(call_frames[x], c)
                 /\ \A i \in 1 .. Len(call_frames[x]) : call_frames[x][i] # c
            ELSE call_frames'[x] = call_frames[x]
  /\ kind = "call" => /\ m # Current /\ l # 0 /\ c = stack_frames[n].open[l]
                      /\ \A k \in 1 .. l - 1 : stack_frames[n].open[k] # c
  /\ kind = "native" => calls[c] = "free"
  /\ kind # "call" /\ ~LeavesArguments => l = 0
  /\ "reentry" \notin Features => m # Current

\* The new run, and its heights.
Started(H, G, n, m, kind, c) ==
  /\ Current' = m /\ IsBase(n + 1)' /\ RunOf(n + 1)' = Len(runs) + 1
  /\ KindOf(n + 1)' = kind /\ runs'[RunOf(n + 1)'].call_frame = c
  /\ RunOf(n)' = RunOf(n) /\ (\A j \in 1 .. RunOf(n) : runs'[j] = runs[j])
  /\ ~StartsFunction(n)' /\ (Waits(n)' <=> kind = "call")
  /\ \A x \in VM : x # m => Held(n + 1, x)' = IF kind = "native" /\ x = Current THEN 1 ELSE 0
  /\ kind # "import" => ~IsBase(n + 2)' /\ IsFirst(n + 2)'
  /\ \A i \in 0 .. n : G[i] = H[i]
  /\ G[n + 1][m] = Len(call_frames[m])
  /\ \A x \in VM : x # m =>
       G[n + 1][x] = H[n][x] + (IF kind = "native" /\ x = Current THEN 1 ELSE 0)
  /\ G[n + 2][m] = Len(call_frames[m]) + 1
  /\ \A x \in VM : x # m => G[n + 2][x] = G[n + 1][x]

\* There are such heights.
LEMMA StartIs ==
  ASSUME NEW H \in Heights, NEW hang \in BOOLEAN, NEW n \in Nat, NEW l \in Nat, NEW top \in Nat,
         NEW m, NEW kind, NEW c, Starting(H, hang, n, l, top, m, kind, c)
  PROVE  \E G \in Heights : Started(H, G, n, m, kind, c)
<1>1. /\ Given(H, hang, n) /\ RunningNow(H, hang, n, l, top) /\ m \in VM
      /\ runs' = Append(runs, [vm |-> m, kind |-> kind, call_frame |-> c])
      /\ \A i \in 1 .. n : stack_frames'[i] = stack_frames[i]
      /\ stack_frames'[n + 1] = NewFrame(m, m, None)
      /\ (kind = "import" => L' = n + 1)
      /\ kind # "import" =>
           L' = n + 2 /\ \E f \in Frame : stack_frames'[n + 2] = NewFrame(f, m, c)
      /\ kind \in {"import", "call", "native"}
  BY DEF Starting
<1>2. /\ StacksTyped /\ Structure /\ n = L /\ n \in Nat \ {0} /\ Len(runs) \in Nat \ {0}
      /\ RunOf(n) = Len(runs) /\ stack_frames[n].vm = Current /\ ~StartsFunction(n)
      /\ runs \in Seq(Activation)
  BY <1>1 DEF Given, TopFacts, RunningNow, StacksTyped
<1> PICK R \in Nat : R = Len(runs)
  BY <1>2
<1>3. /\ Len(runs') = R + 1 /\ runs'[R + 1] = [vm |-> m, kind |-> kind, call_frame |-> c]
      /\ \A j \in 1 .. R : runs'[j] = runs[j]
  BY <1>1, <1>2
<1>4. Current' = m
  BY <1>3 DEF Current, Last
<1> PICK k \in Nat : k = n + 1
  OBVIOUS
<1> PICK q \in Nat : q = n + 2
  OBVIOUS
<1>5. k \in Nat \ {0} /\ q \in Nat \ {0} /\ k - 1 = n /\ q - 1 = k /\ k + 1 = q /\ k > 1 /\ q > 1
  BY <1>2
<1>6. stack_frames'[k].frame = m /\ stack_frames'[k].vm = m
  BY <1>1 DEF NewFrame
<1>7. SameBelow(n)
  BY <1>1 DEF SameBelow
<1>8. RunOf(n)' = RunOf(n) /\ IsBase(n)' = IsBase(n)
  <2>1. n \in 0 .. n /\ n \in 1 .. n
    BY <1>2
  <2> QED BY <1>7, <2>1, CountsBelow
<1>9. IsBase(k)' /\ RunOf(k)' = R + 1
  <2>1. IsBase(k)'
    BY <1>1, <1>6 DEF IsBase
  <2>2. RunOf(k)' = RunOf(k - 1)' + 1
    BY <1>5, <2>1, CountsNext DEF RunFacts
  <2> QED BY <1>2, <1>5, <1>8, <2>1, <2>2
<1>10. KindOf(k)' = kind /\ runs'[RunOf(k)'].call_frame = c
  BY <1>3, <1>9 DEF KindOf
<1>11. ~StartsFunction(n)'
  <2>1. RunOf(n) \in 1 .. R
    BY <1>2
  <2> QED BY <1>2, <1>3, <1>8, <2>1 DEF StartsFunction, KindOf
<1>12. Waits(n)' <=> kind = "call"
  <2>1. n < L'
    <3>1. n < n + 1 /\ n < n + 2
      OBVIOUS
    <3> QED BY <1>1, <3>1
  <2> QED BY <1>9, <1>10, <2>1 DEF Waits
<1>13. \A x \in VM : x # m => Held(k, x)' = IF kind = "native" /\ x = Current THEN 1 ELSE 0
  <2>1. stack_frames'[k - 1].vm = Current
    <3>1. n \in 1 .. n
      BY <1>2
    <3> QED BY <1>1, <1>2, <1>5, <3>1
  <2> QED BY <1>5, <1>9, <1>10, <2>1 DEF Held
<1>14. kind # "import" => ~IsBase(q)' /\ IsFirst(q)'
  <2> SUFFICES ASSUME kind # "import" PROVE ~IsBase(q)' /\ IsFirst(q)'
    OBVIOUS
  <2>1. stack_frames'[q].frame \in Frame
    <3>1. PICK f \in Frame : stack_frames'[n + 2] = NewFrame(f, m, c)
      BY <1>1
    <3>2. NewFrame(f, m, c).frame = f
      BY DEF NewFrame
    <3> QED BY <3>1, <3>2
  <2>2. ~IsBase(q)'
    BY <2>1, CallStackAssumption DEF IsBase
  <2>3. StartsFunction(k)'
    BY <1>1, <1>9, <1>10 DEF StartsFunction, ForFunction
  <2>4. StartsFunction(q - 1)'
    BY <1>5, <2>3
  <2> QED BY <1>5, <2>2, <2>4 DEF IsFirst
<1> PICK len \in Nat : len = Len(call_frames[m])
  BY <1>1 DEF Given, TopFacts
<1> DEFINE r == [x \in VM |-> IF x = m THEN len
                              ELSE H[n][x] + (IF kind = "native" /\ x = Current THEN 1 ELSE 0)]
           s == [x \in VM |-> IF x = m THEN len + 1 ELSE r[x]]
<1>15. r \in Row /\ s \in Row
  <2>1. \A x \in VM : H[n][x] \in Nat
    BY DEF Heights
  <2>2. \A x \in VM : r[x] \in Nat
    BY <2>1
  <2> QED BY <2>2 DEF Row
<1> PICK G \in Heights : RowsAre(H, G, k, r, s)
  BY <1>15, RowsSet
<1>16. /\ \A i \in 0 .. n : G[i] = H[i]
       /\ G[k] = r /\ G[q] = s
  <2>1. \A i \in 0 .. n : i \in Nat /\ i # k /\ i # k + 1
    BY <1>5, SMTT(30)
  <2> QED BY <1>5, <2>1 DEF RowsAre
<1>17. /\ G[k][m] = Len(call_frames[m]) /\ G[q][m] = Len(call_frames[m]) + 1
       /\ \A x \in VM : x # m =>
            /\ G[k][x] = H[n][x] + (IF kind = "native" /\ x = Current THEN 1 ELSE 0)
            /\ G[q][x] = G[k][x]
  BY <1>1, <1>16
<1>18. RunOf(n) = R
  BY <1>2
<1> HIDE DEF r, s
<1>19. Started(H, G, n, m, kind, c)
  BY <1>3, <1>4, <1>8, <1>9, <1>10, <1>11, <1>12, <1>13, <1>14, <1>16, <1>17, <1>18 DEF Started
<1> QED BY <1>19

\* The lists of call frames grow at their ends.
Grown(H, G, n, m, kind, c) ==
  /\ L' \in Nat /\ n <= L' /\ n + 1 <= L' /\ n < L' /\ n # L' /\ n \in Nat \ {0}
  /\ SameBelow(n) /\ SameOpen(n) /\ SameOpen(n - 1)
  /\ \A x \in VM, i \in Nat : 1 <= i /\ i <= H[n][x] => call_frames'[x][i] = call_frames[x][i]
  /\ \A x \in VM : H[n - 1][x] \in Nat /\ H[n][x] \in Nat /\ H[n - 1][x] <= H[n][x]
  /\ \A x \in VM : Len(call_frames[x]) \in Nat /\ H[n][x] <= Len(call_frames[x])
  /\ "reentry" \in Features => H[n][m] = Len(call_frames[m])
  /\ H[n][Current] = Len(call_frames[Current])
  /\ \A x \in VM :
       Len(call_frames'[x]) = Len(call_frames[x])
         + (IF kind # "import" /\ (x = m \/ (kind = "native" /\ x = Current)) THEN 1 ELSE 0)
  /\ kind # "import" => \A x \in VM : x = m \/ (kind = "native" /\ x = Current) =>
       call_frames'[x][Len(call_frames[x]) + 1] = c
  /\ \A i \in 1 .. n : stack_frames[i].vm \in VM /\ stack_frames'[i].vm = stack_frames[i].vm
  /\ G[n] = H[n] /\ G[n - 1] = H[n - 1]

\* That is so when a run starts.
LEMMA GrownIs ==
  ASSUME NEW H \in Heights, NEW hang \in BOOLEAN, NEW n \in Nat, NEW l \in Nat, NEW top \in Nat,
         NEW m, NEW kind, NEW c, Starting(H, hang, n, l, top, m, kind, c),
         NEW G \in Heights, Started(H, G, n, m, kind, c)
  PROVE  Grown(H, G, n, m, kind, c)
<1>1. /\ Given(H, hang, n) /\ RunningNow(H, hang, n, l, top) /\ m \in VM
      /\ \A i \in 1 .. n : stack_frames'[i] = stack_frames[i]
      /\ (kind = "import" => L' = n + 1 /\ call_frames' = call_frames)
      /\ kind # "import" =>
           /\ L' = n + 2 /\ c \in CallFrame
           /\ \A x \in VM :
                IF x = m \/ (kind = "native" /\ x = Current)
                THEN call_frames'[x] = Append(call_frames[x], c)
                ELSE call_frames'[x] = call_frames[x]
  BY DEF Starting
<1>2. /\ n \in Nat \ {0} /\ n = L /\ \A i \in 0 .. n, x \in VM : H[i][x] \in Nat
      /\ \A x \in VM : call_frames[x] \in Seq(CallFrame) /\ Len(call_frames[x]) \in Nat
      /\ \A i, j \in 0 .. n, x \in VM : i <= j => H[i][x] <= H[j][x]
      /\ \A i \in 1 .. n : stack_frames[i].vm \in VM
  <2>1. \A i \in 1 .. n : stack_frames[i] \in StackFrame
    BY <1>1 DEF Given, Structure
  <2> QED BY <1>1, <2>1 DEF Given, TopFacts, HeightFacts, StackFrame
<1>3. /\ L' \in Nat /\ n <= L' /\ n + 1 <= L' /\ n < L' /\ n # L'
  <2>1. n <= n + 1 /\ n + 1 <= n + 1 /\ n < n + 1 /\ n # n + 1 /\ n + 1 \in Nat
    OBVIOUS
  <2>2. n <= n + 2 /\ n + 1 <= n + 2 /\ n < n + 2 /\ n # n + 2 /\ n + 2 \in Nat
    OBVIOUS
  <2> QED BY <1>1, <2>1, <2>2
<1>4. SameBelow(n) /\ SameOpen(n) /\ SameOpen(n - 1)
  <2>1. \A i \in 1 .. n - 1 : i \in 1 .. n
    BY <1>2
  <2> QED BY <1>1, <2>1 DEF SameBelow, SameOpen
<1>5. n - 1 \in 0 .. n /\ n \in 0 .. n /\ n - 1 <= n
  BY <1>2
<1>6. /\ \A x \in VM : H[n - 1][x] \in Nat /\ H[n][x] \in Nat /\ H[n - 1][x] <= H[n][x]
      /\ G[n] = H[n] /\ G[n - 1] = H[n - 1]
  BY <1>2, <1>5 DEF Started
<1>7. /\ \A x \in VM : H[n][x] <= Len(call_frames[x])
      /\ "reentry" \in Features => H[n][m] = Len(call_frames[m])
      /\ H[n][Current] = Len(call_frames[Current])
  <2>1. Lengths(H, hang) /\ ~hang
    BY <1>1 DEF Given, CallsInv, RunningNow
  <2>2. \A x \in VM : /\ H[n][x] <= Len(call_frames[x]) + 0
                      /\ "reentry" \in Features => H[n][x] = Len(call_frames[x]) + 0
    BY <1>2, <2>1 DEF Lengths
  <2> QED BY <1>1, <1>2, <2>2 DEF RunningNow
<1>8. ASSUME NEW x \in VM
      PROVE  /\ Len(call_frames'[x]) = Len(call_frames[x])
                  + (IF kind # "import" /\ (x = m \/ (kind = "native" /\ x = Current)) THEN 1 ELSE 0)
             /\ \A i \in 1 .. Len(call_frames[x]) : call_frames'[x][i] = call_frames[x][i]
             /\ kind # "import" /\ (x = m \/ (kind = "native" /\ x = Current)) =>
                  call_frames'[x][Len(call_frames[x]) + 1] = c
  <2>1. call_frames[x] \in Seq(CallFrame) /\ Len(call_frames[x]) \in Nat
    BY <1>2
  <2>2. CASE kind # "import" /\ (x = m \/ (kind = "native" /\ x = Current))
    <3>1. c \in CallFrame /\ call_frames'[x] = Append(call_frames[x], c)
      BY <1>1, <2>2
    <3>2. /\ Len(Append(call_frames[x], c)) = Len(call_frames[x]) + 1
          /\ \A i \in 1 .. Len(call_frames[x]) : Append(call_frames[x], c)[i] = call_frames[x][i]
          /\ Append(call_frames[x], c)[Len(call_frames[x]) + 1] = c
      BY <2>1, <3>1
    <3> QED BY <2>2, <3>1, <3>2
  <2>3. CASE ~(kind # "import" /\ (x = m \/ (kind = "native" /\ x = Current)))
    <3>1. call_frames'[x] = call_frames[x]
      BY <1>1, <2>3
    <3>2. Len(call_frames[x]) = Len(call_frames[x]) + 0
      BY <2>1
    <3> QED BY <2>3, <3>1, <3>2
  <2> QED BY <2>2, <2>3
<1>9. ASSUME NEW x \in VM, NEW i \in Nat, 1 <= i, i <= H[n][x]
      PROVE  call_frames'[x][i] = call_frames[x][i]
  <2>1. H[n][x] <= Len(call_frames[x]) /\ H[n][x] \in Nat /\ Len(call_frames[x]) \in Nat
    BY <1>2, <1>6, <1>7
  <2>2. i \in 1 .. Len(call_frames[x])
    BY <1>9, <2>1
  <2> QED BY <1>8, <2>2
<1> QED BY <1>1, <1>2, <1>3, <1>4, <1>6, <1>7, <1>8, <1>9 DEF Grown

\* The frames below are known as they were.
LEMMA StartBelow ==
  ASSUME NEW H \in Heights, NEW hang \in BOOLEAN, NEW n \in Nat, NEW l \in Nat, NEW top \in Nat,
         NEW m, NEW kind, NEW c, Starting(H, hang, n, l, top, m, kind, c),
         NEW G \in Heights, Started(H, G, n, m, kind, c)
  PROVE  (\A i \in 1 .. n - 1 : Known(G, hang, i)') /\ Known(G, hang, n)'
<1>1. /\ Given(H, hang, n) /\ RunningNow(H, hang, n, l, top) /\ mode = "run" /\ mode' = "run"
      /\ tries' = tries /\ (kind = "import" => calls' = calls)
      /\ kind # "import" =>
           /\ c \in CallFrame
           /\ calls[c] \in {"free", "pending"} /\ Apart(H, n, c) /\ stack_frames[n].call_frame # c
           /\ \A d \in CallFrame : d # c => calls'[d] = calls[d]
      /\ kind = "call" => l # 0 /\ c = stack_frames[n].open[l]
                          /\ \A k \in 1 .. l - 1 : stack_frames[n].open[k] # c
      /\ kind = "native" => calls[c] = "free"
      /\ kind # "call" /\ ~LeavesArguments => l = 0
      /\ kind \in {"import", "call", "native"}
  BY DEF Starting
<1>2. Grown(H, G, n, m, kind, c)
  BY GrownIs
<1>3. /\ StacksTyped /\ StackInv /\ CallsInv(H, hang) /\ n = L /\ n \in 1 .. L /\ n \in Nat \ {0}
  BY <1>1 DEF Given
<1>4. /\ ~hang /\ l = Len(stack_frames[n].open) /\ ~StartsFunction(n) /\ stack_frames[n].vm = Current
      /\ Current \in VM /\ top >= l /\ top = H[n][Current]
      /\ stack_frames[n].open \in Seq(CallFrame)
      /\ stack_frames[n].call_frame \in CallFrame \cup {None}
      /\ \A k \in 1 .. l : stack_frames[n].open[k] \in CallFrame /\ calls[stack_frames[n].open[k]] = "pending"
      /\ ~LeavesArguments => l <= 1
  BY <1>1 DEF RunningNow
<1>5. \A d \in CallFrame : calls'[d] = calls[d] \/ (kind # "import" /\ d = c)
  BY <1>1
<1>6. /\ RunOf(n)' = RunOf(n) /\ (\A j \in 1 .. RunOf(n) : runs'[j] = runs[j])
      /\ ~StartsFunction(n)' /\ (Waits(n)' <=> kind = "call")
      /\ runs'[RunOf(n + 1)'].call_frame = c /\ RunOf(n + 1)' = Len(runs) + 1
      /\ \A i \in 0 .. n : G[i] = H[i]
  BY DEF Started
<1>7. \A i \in 1 .. n - 1 : Known(G, hang, i)'
  <2>1. \A d \in CallFrame : calls'[d] = calls[d] \/ Apart(H, n, d)
    BY <1>1, <1>5
  <2>2. \A i \in 0 .. n - 1 : G[i] = H[i]
    BY <1>3, <1>6
  <2>3. \A x \in VM, i \in Nat : 1 <= i /\ i <= H[n - 1][x] => call_frames'[x][i] = call_frames[x][i]
    <3> TAKE x \in VM, i \in Nat
    <3> HAVE 1 <= i /\ i <= H[n - 1][x]
    <3>1. H[n - 1][x] \in Nat /\ H[n][x] \in Nat /\ H[n - 1][x] <= H[n][x]
      BY <1>2 DEF Grown
    <3>2. i <= H[n][x]
      BY <3>1
    <3> QED BY <1>2, <3>2 DEF Grown
  <2>4. Undisturbed(H, G, n)
    BY <1>1, <1>2, <1>6, <2>1, <2>2, <2>3 DEF Undisturbed, Shrinks, Grown
  <2>5. n <= L' /\ L' \in Nat
    BY <1>2 DEF Grown
  <2> QED BY <1>3, <2>4, <2>5, KeptBelow DEF Known
<1>8. Known(G, hang, n)'
  <2>0. Len(stack_frames'[n].open) = l /\ stack_frames'[n].open = stack_frames[n].open
    BY <1>2, <1>3, <1>4 DEF Grown, SameOpen
  <2>1. KeepsPlace(H, G, n, l)
    <3>1. ~Left /\ ~Left'
      BY <1>1 DEF Left
    <3>2. (top - l) + l = top /\ l <= l
      OBVIOUS
    <3> QED BY <1>2, <1>3, <1>4, <1>6, <2>0, <3>1, <3>2 DEF KeepsPlace, Grown
  <2>2. KeepsCalls(H, G, hang, hang, n, l)
    <3>1. \A x \in VM, i \in Nat : 1 <= i /\ i <= G[n][x] => call_frames'[x][i] = call_frames[x][i]
      BY <1>2 DEF Grown
    <3>2. stack_frames[n].call_frame # None =>
            calls'[stack_frames[n].call_frame] = calls[stack_frames[n].call_frame]
      BY <1>1, <1>4, <1>5
    <3>3. ASSUME NEW k \in 1 .. l, ~(k = l /\ Waits(n)')
          PROVE  calls'[stack_frames[n].open[k]] = "pending"
      <4>1. stack_frames[n].open[k] \in CallFrame /\ calls[stack_frames[n].open[k]] = "pending"
        BY <1>4
      <4>2. kind # "import" => stack_frames[n].open[k] # c
        <5>1. CASE kind = "call"
          <6>1. k \in 1 .. l - 1
            BY <1>6, <3>3, <5>1
          <6> QED BY <1>1, <5>1, <6>1
        <5>2. CASE kind = "native"
          BY <1>1, <4>1, <5>2
        <5> QED BY <1>1, <5>1, <5>2
      <4> QED BY <1>5, <4>1, <4>2
    <3> QED BY <1>4, <3>1, <3>2, <3>3 DEF KeepsCalls
  <2>3. OpenCalls(hang, n)'
    <3>1. Waits(n)' => stack_frames[n].open # <<>> /\ Last(stack_frames[n].open) = c
      BY <1>1, <1>4, <1>6 DEF Last
    <3>2. LeavesArguments' = LeavesArguments
      BY DEF LeavesArguments
    <3>3. l = 0 => stack_frames[n].open = <<>>
      BY <1>4, SequenceLen
    <3>4. n # L'
      BY <1>2 DEF Grown
    <3> QED BY <1>1, <1>4, <1>6, <2>0, <3>1, <3>2, <3>3, <3>4 DEF OpenCalls
  <2>4. Shrinks(stack_frames[n].frame)
    BY <1>1 DEF Shrinks
  <2>5. n \in 1 .. L
    BY <1>3
  <2> QED BY <1>1, <2>1, <2>2, <2>3, <2>4, <2>5, KeptFrame
<1> QED BY <1>7, <1>8

\* So is the base of the run, and the function it was started for.
LEMMA StartTop ==
  ASSUME NEW H \in Heights, NEW hang \in BOOLEAN, NEW n \in Nat, NEW l \in Nat, NEW top \in Nat,
         NEW m, NEW kind, NEW c, Starting(H, hang, n, l, top, m, kind, c),
         NEW G \in Heights, Started(H, G, n, m, kind, c)
  PROVE  Known(G, hang, n + 1)' /\ (kind # "import" => Known(G, hang, n + 2)')
<1>1. /\ Given(H, hang, n) /\ RunningNow(H, hang, n, l, top) /\ mode' = "run" /\ m \in VM
      /\ tries' = tries /\ tries[m] = <<>>
      /\ stack_frames'[n + 1] = NewFrame(m, m, None)
      /\ (kind = "import" => L' = n + 1)
      /\ kind # "import" =>
           /\ L' = n + 2 /\ c \in CallFrame /\ calls'[c] = "outer"
           /\ \E f \in Frame : stack_frames'[n + 2] = NewFrame(f, m, c) /\ tries[f] = <<>>
  BY DEF Starting
<1>2. Grown(H, G, n, m, kind, c)
  BY GrownIs
<1>3. ~Left' /\ ~hang /\ Current \in VM
  BY <1>1 DEF Left, RunningNow
<1>4. \A x \in VM : H[n][x] \in Nat /\ Len(call_frames[x]) \in Nat /\ H[n][x] <= Len(call_frames[x])
  BY <1>2 DEF Grown
<1> PICK k \in Nat : k = n + 1
  OBVIOUS
<1> PICK q \in Nat : q = n + 2
  OBVIOUS
<1>5. k \in Nat \ {0} /\ q \in Nat \ {0} /\ k - 1 = n /\ q - 1 = k /\ k + 1 = q /\ k <= L'
  BY <1>2 DEF Grown
<1>6. Known(G, hang, k)'
  <2>1. k = L' \/ ~IsBase(k + 1)'
    <3>1. kind # "import" => ~IsBase(q)'
      BY DEF Started
    <3> QED BY <1>1, <1>5, <3>1
  <2>2. \A x \in VM : x # m => G[k][x] = G[k - 1][x] + Held(k, x)'
    <3>1. G[n] = H[n]
      BY <1>2 DEF Grown
    <3>2. \A x \in VM : x # m => /\ Held(k, x)' = IF kind = "native" /\ x = Current THEN 1 ELSE 0
                                 /\ G[k][x] = H[n][x] + (IF kind = "native" /\ x = Current THEN 1 ELSE 0)
      BY DEF Started
    <3> QED BY <1>5, <3>1, <3>2
  <2>3. G[k][m] >= G[k - 1][m] /\ ("reentry" \in Features => G[k][m] = G[k - 1][m])
    <3>1. G[n] = H[n] /\ ("reentry" \in Features => H[n][m] = Len(call_frames[m]))
      BY <1>2 DEF Grown
    <3>2. G[k][m] = Len(call_frames[m])
      BY DEF Started
    <3> QED BY <1>1, <1>4, <1>5, <3>1, <3>2
  <2>4. ASSUME NEW x \in VM, x # m, Held(k, x)' = 1
        PROVE  call_frames'[x][G[k][x]] = runs'[RunOf(k)'].call_frame
    <3>1. Held(k, x)' = IF kind = "native" /\ x = Current THEN 1 ELSE 0
      BY <2>4 DEF Started
    <3>2. kind = "native" /\ x = Current
      BY <2>4, <3>1
    <3>3. G[k][x] = H[n][x] + (IF kind = "native" /\ x = Current THEN 1 ELSE 0)
      BY <2>4 DEF Started
    <3>4. H[n][Current] = Len(call_frames[Current])
      BY <1>2 DEF Grown
    <3>5. call_frames'[x][Len(call_frames[x]) + 1] = c
      BY <1>2, <3>2 DEF Grown
    <3>6. runs'[RunOf(k)'].call_frame = c
      BY DEF Started
    <3>7. G[k][x] = Len(call_frames[x]) + 1
      BY <3>2, <3>3, <3>4
    <3> QED BY <3>5, <3>6, <3>7
  <2> QED BY <1>1, <1>3, <1>5, <2>1, <2>2, <2>3, <2>4, NewBase
<1>7. ASSUME kind # "import" PROVE Known(G, hang, q)'
  <2>1. PICK f \in Frame : stack_frames'[q] = NewFrame(f, m, c) /\ tries'[f] = <<>>
    BY <1>1, <1>7
  <2>2. \A x \in VM : x # m => G[q][x] = G[q - 1][x]
    BY <1>5 DEF Started
  <2>3. G[q][m] = Len(call_frames[m]) + 1 /\ G[q - 1][m] = Len(call_frames[m])
    BY <1>5 DEF Started
  <2>4. call_frames'[m][G[q][m]] = c
    BY <1>1, <1>2, <1>7, <2>3 DEF Grown
  <2>5. IsFirst(q)' /\ calls'[c] = "outer" /\ c \in CallFrame /\ c # None /\ L' = q
    BY <1>1, <1>7, CallStackAssumption DEF Started
  <2>6. calls'[c] = IF IsFirst(q)' THEN "outer" ELSE "inner"
    BY <2>5
  <2> QED BY <1>1, <1>3, <1>5, <2>1, <2>2, <2>3, <2>4, <2>5, <2>6, NewFunction
<1> QED BY <1>6, <1>7

\* The frames account for the lists again.
LEMMA StartLengths ==
  ASSUME NEW H \in Heights, NEW hang \in BOOLEAN, NEW n \in Nat, NEW l \in Nat, NEW top \in Nat,
         NEW m, NEW kind, NEW c, Starting(H, hang, n, l, top, m, kind, c),
         NEW G \in Heights, Started(H, G, n, m, kind, c)
  PROVE  Lengths(G, hang)'
<1>1. /\ Given(H, hang, n) /\ RunningNow(H, hang, n, l, top) /\ m \in VM
      /\ stack_frames'[n + 1] = NewFrame(m, m, None)
      /\ (kind = "import" => L' = n + 1)
      /\ kind # "import" =>
           L' = n + 2 /\ \E f \in Frame : stack_frames'[n + 2] = NewFrame(f, m, c) /\ tries[f] = <<>>
  BY DEF Starting
<1>2. Grown(H, G, n, m, kind, c)
  BY GrownIs
<1>3. Lengths(H, hang) /\ ~hang /\ n = L /\ n \in Nat \ {0}
  BY <1>1 DEF Given, RunningNow, CallsInv
<1> PICK k \in Nat : k = L'
  BY <1>2 DEF Grown
<1>4. ASSUME NEW x \in VM, x # m, NEW i \in 1 .. k, stack_frames'[i].vm = x
      PROVE  \E j \in 1 .. n : stack_frames[j].vm = x
  <2>1. stack_frames'[n + 1].vm = m /\ (kind # "import" => stack_frames'[n + 2].vm = m)
    <3>1. \A f : NewFrame(f, m, c).vm = m
      BY DEF NewFrame
    <3>2. NewFrame(m, m, None).vm = m
      BY DEF NewFrame
    <3> QED BY <1>1, <3>1, <3>2
  <2>2. i \in 1 .. n
    <3>1. i # n + 1 /\ (kind # "import" => i # n + 2)
      BY <1>4, <2>1
    <3> QED BY <1>1, <1>3, <3>1
  <2> QED BY <1>2, <1>4, <2>2 DEF Grown
<1> SUFFICES ASSUME NEW x \in VM
             PROVE  /\ G[k][x] <= Len(call_frames'[x]) + 0
                    /\ "reentry" \in Features \/ (\E i \in 1 .. k : stack_frames'[i].vm = x)
                         => G[k][x] = Len(call_frames'[x]) + 0
  BY <1>3 DEF Lengths
<1>5. Len(call_frames[x]) \in Nat /\ H[n][x] \in Nat
  BY <1>2 DEF Grown
<1>6. Len(call_frames'[x]) = Len(call_frames[x])
        + (IF kind # "import" /\ (x = m \/ (kind = "native" /\ x = Current)) THEN 1 ELSE 0)
  BY <1>2 DEF Grown
<1>7. CASE x = m
  <2>1. G[n + 1][m] = Len(call_frames[m]) /\ G[n + 2][m] = Len(call_frames[m]) + 1
    BY DEF Started
  <2> PICK len \in Nat : len = Len(call_frames[x])
    BY <1>5
  <2>2. CASE kind = "import"
    <3>1. Len(call_frames'[x]) = len + 0 /\ len + 0 = len
      BY <1>6, <2>2
    <3>2. G[k][x] = len
      BY <1>1, <1>7, <2>1, <2>2
    <3> QED BY <3>1, <3>2
  <2>3. CASE kind # "import"
    <3>1. Len(call_frames'[x]) = len + 1
      BY <1>6, <1>7, <2>3
    <3>2. G[k][x] = len + 1 /\ len + 1 <= (len + 1) + 0 /\ len + 1 = (len + 1) + 0
      BY <1>1, <1>7, <2>1, <2>3
    <3> QED BY <3>1, <3>2
  <2> QED BY <2>2, <2>3
<1>8. CASE x # m
  <2>1. G[n + 1][x] = H[n][x] + (IF kind = "native" /\ x = Current THEN 1 ELSE 0)
        /\ G[n + 2][x] = G[n + 1][x]
    BY <1>8 DEF Started
  <2>2. G[k][x] = H[n][x] + (IF kind = "native" /\ x = Current THEN 1 ELSE 0)
    BY <1>1, <2>1
  <2>3. /\ H[n][x] <= Len(call_frames[x]) + 0
        /\ "reentry" \in Features \/ (\E i \in 1 .. n : stack_frames[i].vm = x)
             => H[n][x] = Len(call_frames[x]) + 0
    BY <1>3 DEF Lengths
  <2>4. Len(call_frames'[x]) = Len(call_frames[x]) + (IF kind = "native" /\ x = Current THEN 1 ELSE 0)
    BY <1>6, <1>8
  <2> PICK len \in Nat, h \in Nat : len = Len(call_frames[x]) /\ h = H[n][x]
    BY <1>5
  <2> PICK d \in Nat : d = IF kind = "native" /\ x = Current THEN 1 ELSE 0
    OBVIOUS
  <2>5. G[k][x] <= Len(call_frames'[x]) + 0
    <3>1. h <= len
      BY <2>3
    <3>2. \A a, b, e \in Nat : a <= b => a + e <= (b + e) + 0
      OBVIOUS
    <3>3. h + d <= (len + d) + 0
      BY <3>1, <3>2
    <3> QED BY <2>2, <2>4, <3>3
  <2>6. H[n][x] = Len(call_frames[x]) + 0 => G[k][x] = Len(call_frames'[x]) + 0
    <3>1. h = len + 0 => h + d = (len + d) + 0
      OBVIOUS
    <3> QED BY <2>2, <2>4, <3>1
  <2> QED BY <1>4, <1>8, <2>3, <2>5, <2>6
<1> QED BY <1>7, <1>8

\* The call frame of the run is none that another run was started for.
LEMMA StartCalls ==
  ASSUME NEW H \in Heights, NEW hang \in BOOLEAN, NEW n \in Nat, NEW l \in Nat, NEW top \in Nat,
         NEW m, NEW kind, NEW c, Starting(H, hang, n, l, top, m, kind, c)
  PROVE  CallsHold'
<1> PICK G \in Heights : Started(H, G, n, m, kind, c)
  BY StartIs
<1>1. /\ Given(H, hang, n) /\ RunningNow(H, hang, n, l, top) /\ mode = "run" /\ mode' = "run"
      /\ m \in VM /\ kind \in {"import", "call", "native"}
      /\ runs' = Append(runs, [vm |-> m, kind |-> kind, call_frame |-> c])
      /\ (kind = "import" => c = None /\ L' = n + 1 /\ call_frames' = call_frames /\ calls' = calls)
      /\ kind # "import" =>
           /\ L' = n + 2 /\ c \in CallFrame /\ calls[c] \in {"free", "pending"}
           /\ calls'[c] = "outer" /\ \A d \in CallFrame : d # c => calls'[d] = calls[d]
           /\ \A x \in VM :
                IF x = m \/ (kind = "native" /\ x = Current)
                THEN /\ call_frames'[x] = Append(call_frames[x], c)
                     /\ \A i \in 1 .. Len(call_frames[x]) : call_frames[x][i] # c
                ELSE call_frames'[x] = call_frames[x]
  BY DEF Starting
<1>2. /\ StacksTyped /\ Structure /\ DistinctEntries /\ DistinctHeld /\ HeldCallFramesAlive /\ ~hang
      /\ \A k \in 1 .. Len(runs) : runs[k].call_frame # None => calls[runs[k].call_frame] = "outer"
      /\ \A k \in 1 .. Len(runs) : runs[k].call_frame \in CallFrame \cup {None}
      /\ Len(runs) \in Nat \ {0} /\ Current \in VM
  <2>1. \A k \in 1 .. Len(runs) : runs[k].call_frame \in CallFrame \cup {None}
    BY <1>1 DEF Given, Structure, Activation
  <2> QED BY <1>1, <2>1 DEF Given, CallsInv, RunningNow, Structure
<1>3. /\ Len(runs') = Len(runs) + 1 /\ \A k \in 1 .. Len(runs) : runs'[k] = runs[k]
      /\ runs'[Len(runs) + 1].call_frame = c
  BY <1>1, <1>2 DEF StacksTyped
<1>4. (\A i \in 1 .. n : Known(G, hang, i)') /\ Known(G, hang, n + 1)'
      /\ (kind # "import" => Known(G, hang, n + 2)')
  <2>1. (\A i \in 1 .. n - 1 : Known(G, hang, i)') /\ Known(G, hang, n)'
    BY StartBelow
  <2>2. Known(G, hang, n + 1)' /\ (kind # "import" => Known(G, hang, n + 2)')
    BY StartTop
  <2>3. \A i \in 1 .. n : i \in 1 .. n - 1 \/ i = n
    OBVIOUS
  <2> QED BY <2>1, <2>2, <2>3
<1>5. Lengths(G, hang)'
  BY StartLengths
<1>6. DistinctEntries'
  <2>1. CASE kind = "import"
    BY <1>1, <1>2, <2>1 DEF DistinctEntries
  <2>2. CASE kind # "import"
    <3> DEFINE M == {x \in VM : x = m \/ (kind = "native" /\ x = Current)}
    <3>1. M \in SUBSET VM /\ (\A x \in M : call_frames'[x] = Append(call_frames[x], c))
          /\ (\A x \in VM \ M : call_frames'[x] = call_frames[x])
          /\ (\A x \in M : \A i \in 1 .. Len(call_frames[x]) : call_frames[x][i] # c)
      BY <1>1, <2>2
    <3>2. calls'[c] \notin {"pending", "inner"} /\ c \in CallFrame
          /\ \A d \in CallFrame : d # c => calls'[d] = calls[d]
      BY <1>1, <2>2
    <3> HIDE DEF M
    <3> QED BY <1>2, <3>1, <3>2, DistinctAdded
  <2> QED BY <2>1, <2>2
<1>7. DistinctHeld'
  <2>1. \A k \in 1 .. Len(runs) : c # None => runs[k].call_frame # c
    <3> TAKE k \in 1 .. Len(runs)
    <3> HAVE c # None
    <3>1. c \in CallFrame /\ calls[c] # "outer"
      BY <1>1
    <3> QED BY <1>2, <3>1
  <2> SUFFICES ASSUME NEW j \in 1 .. Len(runs'), NEW k \in 1 .. Len(runs'), j < k,
                      runs'[k].call_frame # None
               PROVE  runs'[j].call_frame # runs'[k].call_frame
    BY DEF DistinctHeld
  <2>2. j \in 1 .. Len(runs) /\ (k \in 1 .. Len(runs) \/ k = Len(runs) + 1)
    BY <1>2, <1>3, SMTT(30)
  <2> QED BY <1>2, <1>3, <2>1, <2>2 DEF DistinctHeld
<1>8. HeldCallFramesAlive'
  <2>1. \A d \in CallFrame : calls[d] = "outer" => calls'[d] = "outer"
    <3>1. CASE kind = "import"
      BY <1>1, <3>1
    <3>2. CASE kind # "import"
      <4> TAKE d \in CallFrame
      <4> QED BY <1>1, <3>2
    <3> QED BY <3>1, <3>2
  <2>2. \A k \in 1 .. Len(runs) : runs'[k].call_frame # None => calls'[runs'[k].call_frame] = "outer"
    <3> TAKE k \in 1 .. Len(runs)
    <3> QED BY <1>2, <1>3, <2>1
  <2>3. c # None => calls'[c] = "outer"
    BY <1>1
  <2>4. Last(runs').call_frame = c /\ \A k \in 1 .. Len(runs') - 1 : k \in 1 .. Len(runs)
    BY <1>2, <1>3 DEF Last
  <2> QED BY <1>1, <2>2, <2>3, <2>4 DEF HeldCallFramesAlive
<1>9. OnTheWay(hang)'
  BY <1>1, <1>2 DEF OnTheWay
<1>10. CASE kind = "import"
  <2>1. PICK k \in Nat : k = n + 1
    OBVIOUS
  <2>2. (\A i \in 1 .. k - 1 : Known(G, hang, i)') /\ Known(G, hang, k)' /\ L' = k
    <3>1. k - 1 = n
      BY <2>1
    <3> QED BY <1>1, <1>4, <1>10, <2>1, <3>1
  <2> QED BY <1>5, <1>6, <1>7, <1>8, <1>9, <2>2, CallsAgain
<1>11. CASE kind # "import"
  <2>1. PICK k \in Nat : k = n + 2
    OBVIOUS
  <2>2. (\A i \in 1 .. k - 1 : Known(G, hang, i)') /\ Known(G, hang, k)' /\ L' = k
    <3>1. \A i \in 1 .. k - 1 : i \in 1 .. n \/ i = n + 1
      BY <2>1
    <3> QED BY <1>1, <1>4, <1>11, <2>1, <3>1
  <2> QED BY <1>5, <1>6, <1>7, <1>8, <1>9, <2>2, CallsAgain
<1> QED BY <1>10, <1>11

\* FramesMatchStack of the next state.
LEMMA MatchNext ==
  ASSUME stack_frames' \in Seq(StackFrame), Match(frames', stack_frames', loaded')
  PROVE  FramesMatchStack'
<1>1. (stack_frames \in Seq(StackFrame) =>
        (FramesMatchStack <=> Match(frames, stack_frames, loaded)))'
  BY MatchIs, PTL
<1> QED BY <1>1

\* push_frame of the base and of the function keeps FramesMatchStack.
LEMMA FramesMatchRun ==
  ASSUME StacksTyped, StackInv, NEW m \in loaded, NEW f \in Frame, NEW c \in CallFrame,
         frames' = [frames EXCEPT ![m] = Append(Append(@, m), f)],
         stack_frames' = Append(Append(stack_frames, NewFrame(m, m, None)), NewFrame(f, m, c)),
         loaded' = loaded
  PROVE  FramesMatchStack' /\ frames' \in [VM -> Seq(Frame \cup VM)]
         /\ stack_frames' \in Seq(StackFrame)
<1>1. /\ stack_frames \in Seq(StackFrame) /\ frames \in [VM -> Seq(Frame \cup VM)]
      /\ loaded \in SUBSET VM /\ m \in VM
  BY DEF StacksTyped
<1>2. /\ NewFrame(m, m, None) \in StackFrame /\ NewFrame(f, m, c) \in StackFrame
      /\ NewFrame(m, m, None).vm = m /\ NewFrame(m, m, None).frame = m
      /\ NewFrame(f, m, c).vm = m /\ NewFrame(f, m, c).frame = f
  BY <1>1 DEF NewFrame, StackFrame
<1>3. Match(frames, stack_frames, loaded)
  BY <1>1, MatchIs DEF StackInv
<1> DEFINE fr == [frames EXCEPT ![m] = Append(@, m)]
           st == Append(stack_frames, NewFrame(m, m, None))
<1>4. fr \in [VM -> Seq(Frame \cup VM)] /\ st \in Seq(StackFrame)
  <2>1. frames[m] \in Seq(Frame \cup VM) /\ m \in Frame \cup VM
    BY <1>1
  <2>2. Append(frames[m], m) \in Seq(Frame \cup VM)
    BY <2>1
  <2> QED BY <1>1, <1>2, <2>2
<1>5. Match(fr, st, loaded)
  <2>1. \A e \in StackFrame : e.vm \in loaded =>
          Match([frames EXCEPT ![e.vm] = Append(@, e.frame)], Append(stack_frames, e), loaded)
    BY <1>1, <1>3, MatchAppend
  <2> QED BY <1>2, <2>1
<1>6. Match([fr EXCEPT ![m] = Append(@, f)], Append(st, NewFrame(f, m, c)), loaded)
  <2> HIDE DEF fr, st
  <2>1. \A e \in StackFrame : e.vm \in loaded =>
          Match([fr EXCEPT ![e.vm] = Append(@, e.frame)], Append(st, e), loaded)
    BY <1>1, <1>4, <1>5, MatchAppend
  <2> QED BY <1>2, <2>1
<1>7. frames' = [fr EXCEPT ![m] = Append(@, f)] /\ stack_frames' = Append(st, NewFrame(f, m, c))
  BY <1>1
<1>8. frames' \in [VM -> Seq(Frame \cup VM)]
  <2> HIDE DEF fr, st
  <2>1. fr[m] \in Seq(Frame \cup VM) /\ f \in Frame \cup VM
    BY <1>1, <1>4
  <2>2. Append(fr[m], f) \in Seq(Frame \cup VM)
    BY <2>1
  <2> QED BY <1>4, <1>7, <2>2
<1>9. stack_frames' \in Seq(StackFrame)
  <2> HIDE DEF st
  <2> QED BY <1>2, <1>4, <1>7
<1> HIDE DEF fr, st
<1> QED BY <1>6, <1>7, <1>8, <1>9, MatchNext

\* A run is started for a function: what does not concern the call frames.
LEMMA StartFunctionRun ==
  ASSUME NEW H \in Heights, NEW hang \in BOOLEAN, NEW n \in Nat, Given(H, hang, n),
         WorkingFeatures, mode = "run", mode' = "run",
         NEW m \in VM, NEW f \in Frame, NEW c \in CallFrame, NEW kind \in ForFunction,
         MayStart(m), Fresh(f), PushFrames(m, <<m, f>>, c, stack_frames),
         runs' = Append(runs, [vm |-> m, kind |-> kind, call_frame |-> c]),
         kind = "call" => m # Current /\ CatchesAll(Top.frame),
         call_frames' \in [VM -> Seq(CallFrame)], calls' \in [CallFrame -> CallState],
         UNCHANGED <<tries, imports, loaded, raised, by_call>>
  PROVE  /\ StacksTyped' /\ StackInv' /\ TriesInv' /\ TriesOfLoaded'
         /\ L' = n + 2 /\ \A i \in 1 .. n : stack_frames'[i] = stack_frames[i]
         /\ stack_frames'[n + 1] = NewFrame(m, m, None)
         /\ stack_frames'[n + 2] = NewFrame(f, m, c)
         /\ tries[m] = <<>> /\ tries[f] = <<>>
<1>1. /\ StacksTyped /\ StackInv /\ TriesInv /\ TriesOfLoaded /\ Structure /\ n = L /\ n \in Nat \ {0}
      /\ stack_frames \in Seq(StackFrame) /\ Len(stack_frames) = n
  BY DEF Given, TopFacts
<1>2. /\ m \in loaded
      /\ "reentry" \notin Features => \A i \in 1 .. Len(runs) : runs[i].vm # m
      /\ tries[m] = <<>> /\ \A i \in Visible(m) : tries[stack_frames[i].frame] = <<>>
  BY DEF MayStart, WorkingFeatures
<1>3. /\ frames' = [frames EXCEPT ![m] = Append(Append(@, m), f)]
      /\ stack_frames' = Append(Append(stack_frames, NewFrame(m, m, None)), NewFrame(f, m, c))
  <2>1. f \in Frame \cup VM
    OBVIOUS
  <2> QED BY <1>1, <2>1, PushTwoFramesAre
<1>4. FramesMatchStack' /\ frames' \in [VM -> Seq(Frame \cup VM)]
      /\ stack_frames' \in Seq(StackFrame)
  BY <1>1, <1>2, <1>3, FramesMatchRun
<1>5. /\ NewFrame(m, m, None) \in StackFrame /\ NewFrame(f, m, c) \in StackFrame
      /\ NewFrame(m, m, None).vm = m /\ NewFrame(m, m, None).frame = m
      /\ NewFrame(m, m, None).call_frame = None
      /\ NewFrame(f, m, c).vm = m /\ NewFrame(f, m, c).frame = f /\ NewFrame(f, m, c).call_frame = c
  BY DEF NewFrame, StackFrame
<1>6. /\ L' = n + 2 /\ \A i \in 1 .. n : stack_frames'[i] = stack_frames[i]
      /\ stack_frames'[n + 1] = NewFrame(m, m, None)
      /\ stack_frames'[n + 2] = NewFrame(f, m, c)
  BY <1>1, <1>3, <1>5 DEF L
<1>7. SameBelow(n)
  BY <1>6 DEF SameBelow
<1>8. StacksTyped'
  <2>1. [vm |-> m, kind |-> kind, call_frame |-> c] \in Activation
    BY DEF Activation, ForFunction
  <2>2. runs' \in Seq(Activation) /\ runs' # <<>>
    <3>1. runs \in Seq(Activation)
      BY <1>1 DEF StacksTyped
    <3>2. \A a \in Activation : Append(runs, a) \in Seq(Activation) /\ Append(runs, a) # <<>>
      BY <3>1
    <3> QED BY <2>1, <3>2
  <2> QED BY <1>1, <1>4, <2>2 DEF StacksTyped
<1>9. c # None /\ kind \in {"import", "call", "native"}
  BY CallStackAssumption DEF ForFunction
<1>10. StackInv'
  <2>1. /\ SameBelow(L) /\ stack_frames'[L + 1].frame = m /\ stack_frames'[L + 1].vm = m
        /\ stack_frames'[L + 1].call_frame = None
    BY <1>1, <1>5, <1>6, <1>7
  <2>2. /\ Fresh(f) /\ stack_frames'[L + 2].frame = f /\ stack_frames'[L + 2].vm = m
        /\ stack_frames'[L + 2].call_frame = c
    BY <1>1, <1>5, <1>6
  <2>3. L' = IF kind = "import" THEN L + 1 ELSE L + 2
    BY <1>1, <1>6 DEF ForFunction
  <2>4. Running /\ Running'
    BY DEF Running
  <2>5. loaded \subseteq loaded' /\ m \in loaded'
    BY <1>2
  <2>6. kind \notin ForFunction \/ "reentry" \notin Features => \A k \in 1 .. Len(runs) : runs[k].vm # m
    BY <1>2
  <2>7. kind = "call" => m # Current
    OBVIOUS
  <2>8. kind \in ForFunction <=> c # None
    BY <1>9
  <2>9. kind \in ForFunction =>
          \E g \in Frame : /\ Fresh(g) /\ stack_frames'[L + 2].frame = g
                           /\ stack_frames'[L + 2].vm = m
                           /\ stack_frames'[L + 2].call_frame = c
    BY <2>2
  <2> QED BY <1>1, <1>4, <1>9, <2>1, <2>3, <2>4, <2>5, <2>6, <2>7, <2>8, <2>9, StackRun
<1>11. TriesInv'
  <2>1. /\ SameBelow(L) /\ stack_frames'[L + 1].frame = m /\ stack_frames'[L + 1].vm = m
        /\ L' = L + 2 /\ stack_frames'[L + 2].frame \in Frame
    BY <1>1, <1>5, <1>6, <1>7
  <2> QED BY <1>1, <1>2, <1>8, <1>10, <2>1, TriesRun
<1>12. TriesOfLoaded'
  BY <1>1 DEF TriesOfLoaded
<1>13. tries[f] = <<>>
  BY <1>1, FreshNotOnStack DEF TriesInv, TriesOfStack
<1> QED BY <1>2, <1>6, <1>8, <1>10, <1>11, <1>12, <1>13

\* Call of a function of another VM.
LEMMA CallModuleStep ==
  ASSUME IInv, WorkingFeatures, NEW m \in VM, NEW f \in Frame, CallModule(m, f)
  PROVE  IInv'
<1>1. PICK H \in Heights, hang \in BOOLEAN, n \in Nat : Given(H, hang, n)
  BY GivenHolds
<1>2. /\ mode = "run" /\ mode' = "run" /\ AtCall /\ Fresh(f) /\ m # Current /\ MayStart(m)
      /\ MayLetOut("typed call")
      /\ call_frames' = [call_frames EXCEPT ![m] = Append(@, TopCall)]
      /\ PushFrames(m, <<m, f>>, TopCall, stack_frames)
      /\ calls' = [calls EXCEPT ![TopCall] = "outer"]
      /\ runs' = Append(runs, [vm |-> m, kind |-> "call", call_frame |-> TopCall])
      /\ UNCHANGED <<tries, imports, loaded, raised, by_call>>
  BY DEF CallModule, AtCall
<1>3. PICK l \in Nat, top \in Nat : RunningNow(H, hang, n, l, top)
  BY <1>1, <1>2, RunningIs
<1>4. AtCallFacts(n, l, top)
  BY <1>1, <1>2, <1>3, AtCallIs
<1>5. /\ StacksTyped /\ StackInv /\ DistinctEntries /\ Structure /\ n = L
      /\ call_frames \in [VM -> Seq(CallFrame)] /\ calls \in [CallFrame -> CallState]
  BY <1>1 DEF Given, CallsInv, StacksTyped
<1>6. PICK c \in CallFrame : c = TopCall
  BY <1>4 DEF AtCallFacts
<1>7. /\ call_frames' \in [VM -> Seq(CallFrame)] /\ call_frames'[m] = Append(call_frames[m], c)
      /\ \A x \in VM : x # m => call_frames'[x] = call_frames[x]
      /\ calls' \in [CallFrame -> CallState] /\ calls'[c] = "outer"
      /\ \A d \in CallFrame : d # c => calls'[d] = calls[d]
  <2>1. "outer" \in CallState
    BY DEF CallState
  <2>2. call_frames[m] \in Seq(CallFrame)
    BY <1>5
  <2>3. Append(call_frames[m], c) \in Seq(CallFrame)
    BY <2>2
  <2> QED BY <1>2, <1>5, <1>6, <2>1, <2>3
<1>8. CatchesAll(Top.frame)
  <2>1. "typed call" \notin Features
    BY DEF WorkingFeatures
  <2>2. TopFrame = Top.frame
    BY <1>5 DEF Structure
  <2> QED BY <1>2, <2>1, <2>2 DEF MayLetOut, CatchesAll
<1>9. /\ StacksTyped' /\ StackInv' /\ TriesInv' /\ TriesOfLoaded'
      /\ L' = n + 2 /\ \A i \in 1 .. n : stack_frames'[i] = stack_frames[i]
      /\ stack_frames'[n + 1] = NewFrame(m, m, None)
      /\ stack_frames'[n + 2] = NewFrame(f, m, c)
      /\ tries[m] = <<>> /\ tries[f] = <<>>
  <2>1. "call" \in ForFunction
    BY DEF ForFunction
  <2>2. PICK kind \in ForFunction : kind = "call"
    BY <2>1
  <2>3. kind = "call" => m # Current /\ CatchesAll(Top.frame)
    BY <1>2, <1>8
  <2>4. /\ PushFrames(m, <<m, f>>, c, stack_frames)
        /\ runs' = Append(runs, [vm |-> m, kind |-> kind, call_frame |-> c])
    BY <1>2, <1>6, <2>2
  <2>5. /\ mode = "run" /\ mode' = "run" /\ MayStart(m) /\ Fresh(f)
        /\ call_frames' \in [VM -> Seq(CallFrame)] /\ calls' \in [CallFrame -> CallState]
        /\ UNCHANGED <<tries, imports, loaded, raised, by_call>>
    BY <1>2, <1>7
  <2> QED BY <1>1, <2>3, <2>4, <2>5, StartFunctionRun
<1>10. \A i \in 1 .. Len(call_frames[m]) : call_frames[m][i] # c
  <2> TAKE i \in 1 .. Len(call_frames[m])
  <2>1. top \in 1 .. Len(call_frames[Current]) /\ call_frames[Current][top] = c
    BY <1>3, <1>4, <1>6 DEF RunningNow, AtCallFacts
  <2>2. calls[c] = "pending" /\ Current \in VM
    BY <1>3, <1>4, <1>6 DEF AtCallFacts, RunningNow
  <2>3. call_frames[m][i] = call_frames[Current][top] => calls[call_frames[m][i]] # "pending"
    BY <1>2, <1>5, <2>1, <2>2 DEF DistinctEntries
  <2> QED BY <2>1, <2>2, <2>3
<1>11. Starting(H, hang, n, l, top, m, "call", c)
  <2>1. Apart(H, n, c)
    BY <1>1, <1>2, <1>3, <1>4, <1>6, TopCallApart
  <2>2. /\ calls[c] = "pending" /\ stack_frames[n].call_frame # c
        /\ l # 0 /\ c = stack_frames[n].open[l] /\ \A k \in 1 .. l - 1 : stack_frames[n].open[k] # c
    <3>1. c # None
      BY CallStackAssumption
    <3> QED BY <1>4, <1>6, <3>1 DEF AtCallFacts
  <2>3. "reentry" \notin Features => m # Current
    BY <1>2
  <2>4. runs' = Append(runs, [vm |-> m, kind |-> "call", call_frame |-> c])
    BY <1>2, <1>6
  <2>5. \E g \in Frame : stack_frames'[n + 2] = NewFrame(g, m, c) /\ tries[g] = <<>>
    BY <1>9
  <2> QED BY <1>1, <1>2, <1>3, <1>7, <1>9, <1>10, <2>1, <2>2, <2>3, <2>4, <2>5, ZenonT(30) DEF Starting
<1>12. CallsHold'
  BY <1>11, StartCalls
<1> QED BY <1>9, <1>12 DEF IInv

\* Native code calls a function back.
LEMMA CallBackStep ==
  ASSUME IInv, WorkingFeatures, NEW m \in VM, NEW f \in Frame, NEW c \in CallFrame,
         CallBack(m, f, c)
  PROVE  IInv'
<1>1. PICK H \in Heights, hang \in BOOLEAN, n \in Nat : Given(H, hang, n)
  BY GivenHolds
<1>2. /\ MayRaise /\ mode = "run" /\ mode' = "run" /\ FreshCall(c) /\ Fresh(f) /\ MayStart(m)
      /\ call_frames' = [x \in VM |-> IF x \in {m, Current} THEN Append(call_frames[x], c)
                                      ELSE call_frames[x]]
      /\ PushFrames(m, <<m, f>>, c, stack_frames)
      /\ calls' = [calls EXCEPT ![c] = "outer"]
      /\ runs' = Append(runs, [vm |-> m, kind |-> "native", call_frame |-> c])
      /\ UNCHANGED <<tries, imports, loaded, raised, by_call>>
  BY DEF CallBack
<1>3. PICK l \in Nat, top \in Nat : RunningNow(H, hang, n, l, top)
  BY <1>1, <1>2, RunningIs
<1>4. /\ n = L /\ call_frames \in [VM -> Seq(CallFrame)] /\ calls \in [CallFrame -> CallState]
      /\ Len(runs) \in Nat \ {0} /\ Current = runs[Len(runs)].vm
  BY <1>1 DEF Given, StacksTyped, TopFacts, Current, Last
<1>5. /\ call_frames' \in [VM -> Seq(CallFrame)]
      /\ \A x \in VM : call_frames'[x] = IF x = m \/ x = Current THEN Append(call_frames[x], c)
                                         ELSE call_frames[x]
      /\ calls' \in [CallFrame -> CallState] /\ calls'[c] = "outer" /\ calls[c] = "free"
      /\ \A d \in CallFrame : d # c => calls'[d] = calls[d]
      /\ \A x \in VM : \A i \in 1 .. Len(call_frames[x]) : call_frames[x][i] # c
  <2>1. "outer" \in CallState
    BY DEF CallState
  <2>2. \A x \in VM : call_frames[x] \in Seq(CallFrame) /\ Append(call_frames[x], c) \in Seq(CallFrame)
    <3> TAKE x \in VM
    <3>1. call_frames[x] \in Seq(CallFrame)
      BY <1>4
    <3> QED BY <3>1
  <2> QED BY <1>2, <1>4, <2>1, <2>2 DEF FreshCall
<1>6. /\ StacksTyped' /\ StackInv' /\ TriesInv' /\ TriesOfLoaded'
      /\ L' = n + 2 /\ \A i \in 1 .. n : stack_frames'[i] = stack_frames[i]
      /\ stack_frames'[n + 1] = NewFrame(m, m, None)
      /\ stack_frames'[n + 2] = NewFrame(f, m, c)
      /\ tries[m] = <<>> /\ tries[f] = <<>>
  <2>1. "native" \in ForFunction
    BY DEF ForFunction
  <2>2. PICK kind \in ForFunction : kind = "native"
    BY <2>1
  <2>3. kind = "call" => m # Current /\ CatchesAll(Top.frame)
    BY <2>2
  <2>4. /\ PushFrames(m, <<m, f>>, c, stack_frames)
        /\ runs' = Append(runs, [vm |-> m, kind |-> kind, call_frame |-> c])
    BY <1>2, <2>2
  <2>5. /\ mode = "run" /\ mode' = "run" /\ MayStart(m) /\ Fresh(f)
        /\ call_frames' \in [VM -> Seq(CallFrame)] /\ calls' \in [CallFrame -> CallState]
        /\ UNCHANGED <<tries, imports, loaded, raised, by_call>>
    BY <1>2, <1>5
  <2> QED BY <1>1, <2>3, <2>4, <2>5, StartFunctionRun
<1>7. Starting(H, hang, n, l, top, m, "native", c)
  <2>1. Apart(H, n, c)
    BY <1>5 DEF Apart
  <2>2. stack_frames[n].call_frame # c
    <3>1. c # None
      BY CallStackAssumption
    <3> QED BY <1>3, <1>5, <3>1 DEF RunningNow, Matched
  <2>3. ~LeavesArguments => l = 0
    <3>1. ~LeavesArguments => stack_frames[n].open = <<>>
      BY <1>2, <1>3 DEF MayRaise, InCall, LeavesArguments, RunningNow
    <3> QED BY <1>3, <3>1 DEF RunningNow
  <2>4. "reentry" \notin Features => m # Current
    <3>1. Len(runs) \in 1 .. Len(runs)
      BY <1>4
    <3> QED BY <1>2, <1>4, <3>1 DEF MayStart
  <2>5. \E g \in Frame : stack_frames'[n + 2] = NewFrame(g, m, c) /\ tries[g] = <<>>
    BY <1>6
  <2> QED BY <1>1, <1>2, <1>3, <1>5, <1>6, <2>1, <2>2, <2>3, <2>4, <2>5 DEF Starting
<1>8. CallsHold'
  BY <1>7, StartCalls
<1> QED BY <1>6, <1>8 DEF IInv

\* A sequence of frames without any of m.
LEMMA NothingPushed ==
  ASSUME NEW st \in Seq(StackFrame), NEW m, \A i \in 1 .. Len(st) : st[i].vm # m
  PROVE  PushedIn(st, m, Len(st)) = 0
<1>1. Len(st) \in Nat
  OBVIOUS
<1>2. \A j \in 1 .. Len(st) : j \in {i \in Nat : st[i].vm = m} <=> j \in {}
  OBVIOUS
<1>3. Count({i \in Nat : st[i].vm = m}, Len(st)) = Count({}, Len(st))
  <2>1. Len(st) \in 0 .. Len(st)
    BY <1>1
  <2> PICK len \in Nat : len = Len(st)
    BY <1>1
  <2> DEFINE P == {i \in Nat : st[i].vm = m}
             Q == {}
  <2>2. \A j \in 1 .. len : j \in P <=> j \in Q
    BY <1>2
  <2> HIDE DEF P, Q
  <2>3. \A i \in 0 .. len : Count(P, i) = Count(Q, i)
    BY <2>2, CountSame
  <2> QED BY <2>1, <2>3 DEF P, Q
<1>4. {j \in 1 .. Len(st) : j \in {}} = {}
  OBVIOUS
<1> QED BY <1>3, <1>4, FS_EmptySet DEF Count, PushedIn

\* load_module: the module is new, so it has no frames and no tries.
LEMMA ImportStructure ==
  ASSUME NEW H \in Heights, NEW hang \in BOOLEAN, NEW n \in Nat, Given(H, hang, n),
         NEW m \in VM, Import(m)
  PROVE  /\ StacksTyped' /\ StackInv' /\ TriesInv' /\ TriesOfLoaded'
         /\ L' = n + 1 /\ \A i \in 1 .. n : stack_frames'[i] = stack_frames[i]
         /\ stack_frames'[n + 1] = NewFrame(m, m, None) /\ tries[m] = <<>> /\ m # Current
<1>1. /\ StacksTyped /\ StackInv /\ TriesInv /\ TriesOfLoaded /\ Structure /\ n = L /\ n \in Nat \ {0}
      /\ stack_frames \in Seq(StackFrame) /\ Len(stack_frames) = n /\ Current \in VM
      /\ Len(runs) \in Nat \ {0}
  BY DEF Given, TopFacts
<1>2. /\ mode = "run" /\ m \notin loaded /\ loaded' = loaded \cup {m}
      /\ frames' = [frames EXCEPT ![m] = <<m, m>>]
      /\ imports' = Append(imports, m)
      /\ runs' = Append(runs, [vm |-> m, kind |-> "import", call_frame |-> None])
      /\ UNCHANGED <<call_frames, calls, tries, mode, raised, by_call>>
  BY DEF Import, AtStatement
<1>3. stack_frames' = Append(stack_frames, NewFrame(m, m, None))
  <2>1. [frame |-> m, vm |-> m, call_frame |-> None, open |-> <<>>] = NewFrame(m, m, None)
    BY DEF NewFrame
  <2> QED BY <2>1 DEF Import
<1>4. /\ NewFrame(m, m, None) \in StackFrame
      /\ NewFrame(m, m, None).vm = m /\ NewFrame(m, m, None).frame = m
      /\ NewFrame(m, m, None).call_frame = None
  BY DEF NewFrame, StackFrame
<1>5. /\ L' = n + 1 /\ \A i \in 1 .. n : stack_frames'[i] = stack_frames[i]
      /\ stack_frames'[n + 1] = NewFrame(m, m, None) /\ stack_frames' \in Seq(StackFrame)
  BY <1>1, <1>3, <1>4 DEF L
<1>6. SameBelow(n)
  BY <1>5 DEF SameBelow
<1>7. /\ \A i \in 1 .. n : stack_frames[i].vm # m
      /\ \A k \in 1 .. Len(runs) : runs[k].vm # m
      /\ m # Main /\ tries[m] = <<>>
  BY <1>1, <1>2, SMTT(30) DEF Structure, StackInv, KindsOfRuns, TriesOfLoaded
<1>8. m # Current
  <2>1. Len(runs) \in 1 .. Len(runs)
    BY <1>1
  <2> QED BY <1>7, <2>1 DEF Current, Last
<1>9. frames \in [VM -> Seq(Frame \cup VM)] /\ loaded \in SUBSET VM
  BY <1>1 DEF StacksTyped
<1> DEFINE fr == [frames EXCEPT ![m] = <<m>>]
           ld == loaded \cup {m}
<1>10. fr \in [VM -> Seq(Frame \cup VM)] /\ ld \in SUBSET VM
       /\ fr[m] = <<m>> /\ \A x \in VM : x # m => fr[x] = frames[x]
  <2>1. <<m>> \in Seq(Frame \cup VM)
    OBVIOUS
  <2> QED BY <1>9, <2>1
<1>11. frames' = [fr EXCEPT ![m] = Append(@, m)] /\ frames' \in [VM -> Seq(Frame \cup VM)]
  <2>1. Append(<<m>>, m) = <<m, m>> /\ <<m, m>> \in Seq(Frame \cup VM)
    <3>1. m \in Frame \cup VM
      OBVIOUS
    <3>2. <<m>> \in Seq(Frame \cup VM) /\ <<m, m>> \in Seq(Frame \cup VM)
      OBVIOUS
    <3>3. <<>> \in Seq(Frame \cup VM)
      OBVIOUS
    <3>4. /\ <<>> \o <<m>> = Append(<<>>, m)
          /\ <<>> \o <<m, m>> = Append(Append(<<>>, m), m)
      BY <3>1, <3>3, ConcatIs
    <3>5. <<>> \o <<m>> = <<m>> /\ <<>> \o <<m, m>> = <<m, m>>
      BY <3>2, ConcatEmptySeq
    <3> QED BY <3>2, <3>4, <3>5
  <2> QED BY <1>2, <1>9, <2>1
<1> HIDE DEF fr
<1>12. Match(frames, stack_frames, loaded)
  BY <1>1, MatchIs DEF StackInv
<1>13. Match(fr, stack_frames, ld)
  <2>1. PushedIn(stack_frames, m, Len(stack_frames)) = 0
    BY <1>1, <1>7, NothingPushed
  <2>2. ASSUME NEW x \in ld
        PROVE  /\ Len(fr[x]) = Constructed(x) + PushedIn(stack_frames, x, Len(stack_frames))
               /\ x # Main => fr[x][1] = x
    <3>1. CASE x = m
      <4>1. Len(<<m>>) = 1 + 0 /\ <<m>>[1] = m
        OBVIOUS
      <4> QED BY <1>7, <1>10, <2>1, <3>1, <4>1 DEF Constructed
    <3>2. CASE x # m
      BY <1>9, <1>10, <1>12, <3>2 DEF Match
    <3> QED BY <3>1, <3>2
  <2>3. ASSUME NEW i \in 1 .. Len(stack_frames)
        PROVE  LET x == stack_frames[i].vm
               IN  fr[x][Constructed(x) + PushedIn(stack_frames, x, i)] = stack_frames[i].frame
    <3>1. stack_frames[i].vm \in VM /\ stack_frames[i].vm # m
      BY <1>1, <1>7, <1>9 DEF Structure
    <3>2. fr[stack_frames[i].vm] = frames[stack_frames[i].vm]
      BY <1>10, <3>1
    <3> QED BY <1>12, <3>2 DEF Match
  <2> QED BY <2>2, <2>3 DEF Match
<1>14. FramesMatchStack'
  <2>1. \A e \in StackFrame : e.vm \in ld =>
          Match([fr EXCEPT ![e.vm] = Append(@, e.frame)], Append(stack_frames, e), ld)
    BY <1>1, <1>10, <1>13, MatchAppend
  <2>2. Match([fr EXCEPT ![m] = Append(@, m)], Append(stack_frames, NewFrame(m, m, None)), ld)
    BY <1>4, <2>1
  <2>3. loaded' = ld
    BY <1>2
  <2> HIDE DEF ld
  <2> QED BY <1>3, <1>5, <1>11, <2>2, <2>3, MatchNext
<1>15. StacksTyped'
  <2>1. [vm |-> m, kind |-> "import", call_frame |-> None] \in Activation
    BY DEF Activation
  <2>2. runs' \in Seq(Activation) /\ runs' # <<>>
    <3>1. runs \in Seq(Activation)
      BY <1>1 DEF StacksTyped
    <3>2. \A a \in Activation : Append(runs, a) \in Seq(Activation) /\ Append(runs, a) # <<>>
      BY <3>1
    <3> QED BY <1>2, <2>1, <3>2
  <2>3. imports' \in Seq(VM) /\ loaded' \subseteq VM
    <3>1. imports \in Seq(VM)
      BY <1>1 DEF StacksTyped
    <3> QED BY <1>2, <1>9, <3>1
  <2> QED BY <1>1, <1>2, <1>5, <1>11, <2>2, <2>3 DEF StacksTyped
<1>16. StackInv'
  <2>1. /\ SameBelow(L) /\ stack_frames'[L + 1].frame = m /\ stack_frames'[L + 1].vm = m
        /\ stack_frames'[L + 1].call_frame = None
    BY <1>1, <1>4, <1>5, <1>6
  <2>2. PICK kind \in {"import", "call", "native"} : kind = "import"
    OBVIOUS
  <2>3. L' = IF kind = "import" THEN L + 1 ELSE L + 2
    BY <1>1, <1>5, <2>2
  <2>4. Running /\ Running'
    BY <1>2 DEF Running
  <2>5. loaded \subseteq loaded' /\ m \in loaded'
    BY <1>2
  <2>6. kind \notin ForFunction \/ "reentry" \notin Features => \A k \in 1 .. Len(runs) : runs[k].vm # m
    BY <1>7
  <2>7. kind = "call" => m # Current
    BY <1>8
  <2>8. kind \notin ForFunction
    BY <2>2 DEF ForFunction
  <2>9. runs' = Append(runs, [vm |-> m, kind |-> kind, call_frame |-> None])
    BY <1>2, <2>2
  <2>10. kind \in ForFunction <=> None # None
    BY <2>8
  <2>11. kind \in ForFunction =>
           \E g \in Frame : /\ Fresh(g) /\ stack_frames'[L + 2].frame = g
                            /\ stack_frames'[L + 2].vm = m
                            /\ stack_frames'[L + 2].call_frame = None
    BY <2>8
  <2> QED BY <1>1, <1>14, <2>1, <2>3, <2>4, <2>5, <2>6, <2>7, <2>9, <2>10, <2>11, StackRun
<1>17. TriesInv'
  <2>1. /\ SameBelow(L) /\ stack_frames'[L + 1].frame = m /\ stack_frames'[L + 1].vm = m
        /\ L' = L + 1
    BY <1>1, <1>4, <1>5, <1>6
  <2>2. Visible(m) = {}
    <3>1. \A i \in 1 .. n : i \notin Visible(m)
      <4> TAKE i \in 1 .. n
      <4>1. i \in i .. n
        BY <1>1
      <4> QED BY <1>1, <1>7, <4>1 DEF Visible
    <3> QED BY <1>1, <3>1 DEF Visible
  <2>3. PICK kind \in {"import", "call", "native"} : kind = "import"
    OBVIOUS
  <2>4. runs' = Append(runs, [vm |-> m, kind |-> kind, call_frame |-> None])
    BY <1>2, <2>3
  <2>5. kind = "call" => CatchesAll(Top.frame)
    BY <2>3
  <2> QED BY <1>1, <1>2, <1>7, <1>15, <1>16, <2>1, <2>2, <2>4, <2>5, TriesRun
<1>18. TriesOfLoaded'
  BY <1>1, <1>2 DEF TriesOfLoaded
<1> QED BY <1>5, <1>7, <1>8, <1>15, <1>16, <1>17, <1>18

\* load_module keeps the invariant.
LEMMA ImportStep ==
  ASSUME IInv, WorkingFeatures, NEW m \in VM, Import(m)
  PROVE  IInv'
<1>1. PICK H \in Heights, hang \in BOOLEAN, n \in Nat : Given(H, hang, n)
  BY GivenHolds
<1>2. /\ mode = "run" /\ mode' = "run" /\ ~InCall
      /\ runs' = Append(runs, [vm |-> m, kind |-> "import", call_frame |-> None])
      /\ UNCHANGED <<call_frames, calls, tries>>
  BY DEF Import, AtStatement
<1>3. PICK l \in Nat, top \in Nat : RunningNow(H, hang, n, l, top)
  BY <1>1, <1>2, RunningIs
<1>4. /\ StacksTyped' /\ StackInv' /\ TriesInv' /\ TriesOfLoaded'
      /\ L' = n + 1 /\ \A i \in 1 .. n : stack_frames'[i] = stack_frames[i]
      /\ stack_frames'[n + 1] = NewFrame(m, m, None) /\ tries[m] = <<>> /\ m # Current
  BY <1>1, ImportStructure
<1>5. l = 0
  BY <1>2, <1>3 DEF RunningNow, InCall
<1>6. call_frames' \in [VM -> Seq(CallFrame)] /\ calls' \in [CallFrame -> CallState]
  BY <1>1, <1>2 DEF Given, StacksTyped
<1>7. Starting(H, hang, n, l, top, m, "import", None)
  BY <1>1, <1>2, <1>3, <1>4, <1>5, <1>6 DEF Starting
<1>8. CallsHold'
  BY <1>7, StartCalls
<1> QED BY <1>4, <1>8 DEF IInv

-----------------------------------------------------------------------------
(* An exception is handled, or leaves run: Handle and Unwind.              *)

\* What is known of the frames of the run that an exception was raised in.
RunFrame(H, hang, n, b, i) ==
  /\ FrameFacts(H, hang, i) /\ stack_frames[i].vm = Current /\ ~Waits(i)
  /\ i \in Nat \ {0} /\ i <= n /\ b <= i
  /\ i > b => ~IsBase(i)
  /\ OpenHere(i) = Len(stack_frames[i].open)
  /\ H[i][Current] \in Nat /\ H[i - 1][Current] \in Nat /\ H[i][Current] - OpenHere(i) \in Nat
  /\ H[i - 1][Current] <= H[i][Current] - OpenHere(i)

\* n frames, those from the b-th on of the run, and top call frames in its list.
Thrown(H, hang, n, b, top) ==
  /\ Given(H, hang, n) /\ mode = "throw" /\ b = Base /\ n = L
  /\ b \in Nat \ {0} /\ n \in Nat \ {0} /\ b <= n /\ b \in 1 .. n /\ IsBase(b)
  /\ Current \in VM /\ RunOf(b) = Len(runs) /\ stack_frames[b].frame = Current
  /\ call_frames[Current] \in Seq(CallFrame) /\ top = Len(call_frames[Current])
  /\ H[n][Current] = top + (IF hang THEN 1 ELSE 0)
  /\ hang => Len(stack_frames[n].open) # 0
  /\ ~LeavesArguments => Len(stack_frames[n].open) <= 1
                         /\ (~hang => Len(stack_frames[n].open) = 0)
  /\ TopFrame = stack_frames[n].frame
  /\ \A k \in 1 .. Len(runs) : runs[k].call_frame # None => calls[runs[k].call_frame] = "outer"
  /\ \A i \in b .. n : RunFrame(H, hang, n, b, i)

\* The invariant gives this when an exception is raised.
LEMMA ThrownIs ==
  ASSUME IInv, mode = "throw"
  PROVE  \E H \in Heights, hang \in BOOLEAN, n, b, top \in Nat : Thrown(H, hang, n, b, top)
<1> PICK H \in Heights, hang \in BOOLEAN, n \in Nat : Given(H, hang, n)
  BY GivenHolds
<1>1. /\ StacksTyped /\ StackInv /\ Structure /\ CallsInv(H, hang) /\ TopFacts(H) /\ HeightFacts(H, hang)
      /\ n = L /\ n \in Nat \ {0} /\ n \in 1 .. L /\ Current \in VM
  BY DEF Given, TopFacts
<1> PICK b \in Nat : b = Base
  BY <1>1 DEF Structure
<1>2. /\ b \in Nat \ {0} /\ b <= n /\ b \in 1 .. n /\ b = Base /\ IsBase(b) /\ RunOf(b) = Len(runs)
      /\ stack_frames[b].frame = Current
      /\ \A i \in b .. n : /\ i \in Nat \ {0} /\ i \in 1 .. n /\ i <= n /\ b <= i
                           /\ i - 1 \in 0 .. n /\ i \in 0 .. n
                           /\ stack_frames[i].vm = Current /\ (i > b => ~IsBase(i))
  BY <1>1 DEF Structure
<1>3. \A i \in 1 .. n : FrameFacts(H, hang, i)
  BY FrameKnown
<1>4. ~Left
  BY DEF Left
<1>5. ASSUME NEW i \in b .. n PROVE RunFrame(H, hang, n, b, i)
  <2>1. /\ i \in Nat \ {0} /\ i \in 1 .. n /\ i <= n /\ b <= i /\ i - 1 \in 0 .. n /\ i \in 0 .. n
        /\ stack_frames[i].vm = Current /\ (i > b => ~IsBase(i)) /\ FrameFacts(H, hang, i)
    BY <1>2, <1>3
  <2>2. ~Waits(i)
    <3> SUFFICES ASSUME Waits(i) PROVE FALSE
      OBVIOUS
    <3>1. i < n /\ IsBase(i + 1)
      BY <1>1 DEF Waits
    <3>2. i + 1 \in b .. n /\ i + 1 > b
      BY <2>1, <3>1
    <3> QED BY <1>2, <3>1, <3>2
  <2>3. OpenHere(i) = Len(stack_frames[i].open)
    BY <1>4 DEF OpenHere
  <2>4. H[i][Current] \in Nat /\ H[i - 1][Current] \in Nat
    BY <1>1, <2>1 DEF TopFacts
  <2>5. H[i][Current] - OpenHere(i) \in Nat /\ H[i - 1][Current] <= H[i][Current] - OpenHere(i)
    BY <1>1, <2>1 DEF HeightFacts
  <2> QED BY <2>1, <2>2, <2>3, <2>4, <2>5 DEF RunFrame
<1>6. /\ hang => InCall
      /\ ~LeavesArguments /\ ~hang => Top.open = <<>>
      /\ TopFrame = Top.frame /\ Top = stack_frames[n] /\ Top.open \in Seq(CallFrame)
  BY NoHang
<1>7. Known(H, hang, n)
  BY <1>1, <1>3 DEF FrameFacts
<1>8. /\ hang => Len(stack_frames[n].open) # 0
      /\ ~LeavesArguments => Len(stack_frames[n].open) <= 1
                             /\ (~hang => Len(stack_frames[n].open) = 0)
  <2>1. Len(Top.open) = 0 <=> Top.open = <<>>
    BY <1>6, SequenceLen
  <2>2. ~LeavesArguments => Len(stack_frames[n].open) <= 1
    BY <1>7 DEF Known, OpenCalls
  <2> QED BY <1>6, <2>1, <2>2 DEF InCall
<1>9. \A k \in 1 .. Len(runs) : runs[k].call_frame # None => calls[runs[k].call_frame] = "outer"
  <2>1. HeldCallFramesAlive
    BY <1>1 DEF CallsInv
  <2>2. \A k \in 1 .. Len(runs) : k \in 1 .. Len(runs) - 1 \/ k = Len(runs)
    BY <1>1 DEF TopFacts
  <2> QED BY <2>1, <2>2 DEF HeldCallFramesAlive, Last
<1>10. PICK top \in Nat : top = Len(call_frames[Current])
  BY <1>1 DEF TopFacts
<1>11. call_frames[Current] \in Seq(CallFrame) /\ H[n][Current] = top + (IF hang THEN 1 ELSE 0)
  BY <1>1, <1>10 DEF TopFacts, HeightFacts
<1>12. Thrown(H, hang, n, b, top)
  BY <1>1, <1>2, <1>5, <1>6, <1>8, <1>9, <1>10, <1>11 DEF Thrown
<1> QED BY <1>12

\* The frames of the run say nothing about the lists of other VMs.
LEMMA RunHeights ==
  ASSUME NEW H \in Heights, NEW hang \in BOOLEAN, NEW n \in Nat, NEW b \in Nat, NEW top \in Nat,
         Thrown(H, hang, n, b, top), NEW m \in VM, m # Current
  PROVE  \A i \in b .. n : H[i][m] = H[b][m]
<1> DEFINE S == {i \in Nat : H[i][m] = H[b][m]}
<1>1. b \in S
  OBVIOUS
<1>2. ASSUME NEW i \in b .. n - 1, i \in S PROVE i + 1 \in S
  <2>1. i + 1 \in b .. n /\ i + 1 > b /\ (i + 1) - 1 = i /\ i + 1 \in Nat
    BY DEF Thrown
  <2> PICK j \in Nat : j = i + 1
    BY <2>1
  <2>2. RunFrame(H, hang, n, b, j)
    BY <2>1 DEF Thrown
  <2>3. stack_frames[j].vm = Current /\ ~IsBase(j) /\ Height(H, j)
    BY <2>1, <2>2 DEF RunFrame, FrameFacts, Known
  <2>4. Held(j, m) = 0
    BY <2>3 DEF Held
  <2>5. H[j][m] = H[j - 1][m] + Held(j, m)
    BY <2>3 DEF Height
  <2>6. H[i][m] \in Nat
    BY DEF Heights
  <2> QED BY <1>2, <2>1, <2>4, <2>5, <2>6
<1> HIDE DEF S
<1>3. b .. n \subseteq S
  BY <1>1, <1>2, SetInduction
<1> QED BY <1>3 DEF S

\* An entry of the list above what the k-th frame begins with is that of an
\* open call or of a function, which is called from the run or by its starter.
EntryOfRun(k, c) ==
  \/ calls[c] \in {"pending", "inner"}
  \/ k = Base /\ StartsFunction(Base) /\ c = Last(runs).call_frame /\ calls[c] = "outer"

\* That is so for all of them.
LEMMA RunEntry ==
  ASSUME NEW H \in Heights, NEW hang \in BOOLEAN, NEW n \in Nat, NEW b \in Nat, NEW top \in Nat,
         Thrown(H, hang, n, b, top), NEW k \in b .. n, NEW x \in Nat,
         H[k][Current] - OpenHere(k) < x, x <= top
  PROVE  EntryOfRun(k, call_frames[Current][x])
<1> DEFINE S == {j \in Nat : j \in k .. n /\ x <= H[j][Current]}
<1>1. /\ k \in Nat /\ n \in Nat \ {0} /\ b \in Nat \ {0} /\ n \in k .. n /\ H[n][Current] \in Nat
      /\ H[n][Current] = top + (IF hang THEN 1 ELSE 0) /\ n = L /\ b = Base
  <2>1. n \in b .. n
    BY DEF Thrown
  <2>2. RunFrame(H, hang, n, b, n)
    BY <2>1 DEF Thrown
  <2>3. k \in Nat /\ n \in k .. n
    <3>1. b \in Nat /\ n \in Nat
      OBVIOUS
    <3> QED BY <3>1
  <2> QED BY <2>2, <2>3 DEF Thrown, RunFrame
<1>2. n \in S
  BY <1>1
<1>3. PICK j \in S : \A i \in S : j <= i
  <2>1. S \in SUBSET Nat /\ S # {}
    BY <1>2
  <2> HIDE DEF S
  <2> QED BY <2>1, LeastNatural
<1>4. j \in Nat /\ j \in k .. n /\ j \in b .. n /\ x <= H[j][Current]
  BY <1>1, <1>3
<1>5. RunFrame(H, hang, n, b, j)
  BY <1>4 DEF Thrown
<1>6. /\ stack_frames[j].vm = Current /\ ~Waits(j) /\ (j > b => ~IsBase(j))
      /\ OpenHere(j) = Len(stack_frames[j].open)
      /\ Height(H, j) /\ Entry(H, hang, j) /\ States(hang, j)
      /\ H[j][Current] \in Nat /\ H[j - 1][Current] \in Nat
      /\ H[j - 1][Current] <= H[j][Current] - OpenHere(j)
      /\ Len(stack_frames[j].open) \in Nat
  BY <1>5 DEF RunFrame, FrameFacts, Known
<1> PICK o \in Nat : o = OpenHere(j)
  BY <1>6
<1> PICK g \in Nat, p \in Nat : g = H[j][Current] /\ p = H[j - 1][Current]
  BY <1>6
<1> PICK h \in Nat : h = g - o
  BY <1>5 DEF RunFrame
<1>9. g = h + o /\ x <= g
  BY <1>4
<1>7. CASE h < x
  <2>1. x - h \in 1 .. o /\ h + (x - h) = x
    <3>1. \A a, b1, c1, d \in Nat : a < b1 /\ b1 <= c1 /\ c1 = a + d
                                    => b1 - a \in 1 .. d /\ a + (b1 - a) = b1
      OBVIOUS
    <3> QED BY <1>7, <1>9, <3>1
  <2> PICK y \in 1 .. o : y = x - h
    BY <2>1
  <2>2. h + y = x
    BY <2>1
  <2>3. ~(j = L /\ hang /\ y = o)
    <3> SUFFICES ASSUME j = L, hang, y = o PROVE FALSE
      OBVIOUS
    <3>1. H[n][Current] = top + 1
      BY <1>1
    <3>2. H[j][Current] = x
      BY <1>9, <2>2
    <3> QED BY <1>1, <3>1, <3>2
  <2>4. call_frames[Current][h + y] = stack_frames[j].open[y]
    BY <1>6, <2>3 DEF Entry
  <2>5. calls[stack_frames[j].open[y]] = "pending"
    BY <1>6, <2>3 DEF States
  <2> QED BY <2>2, <2>4, <2>5 DEF EntryOfRun
<1>8. CASE x <= h
  <2>1. j # k
    BY <1>8
  <2>2. j > k /\ j - 1 \in k .. n /\ j - 1 \in Nat /\ j > b /\ j - 1 < j
    BY <1>1, <1>4, <2>1
  <2>3. j - 1 \notin S
    BY <1>3, <2>2
  <2>4. H[j - 1][Current] < x
    <3>1. ~(x <= H[j - 1][Current])
      BY <2>2, <2>3
    <3>2. \A a1, b1 \in Nat : ~(a1 <= b1) => b1 < a1
      OBVIOUS
    <3> QED BY <1>6, <3>1, <3>2
  <2>5. ~IsBase(j) /\ H[j][Current] = H[j - 1][Current] + Matched(j) + OpenHere(j)
    BY <1>6, <2>2 DEF Height
  <2>6. Matched(j) = 1 /\ x = h
    <3>1. Matched(j) \in {0, 1}
      BY DEF Matched
    <3>2. Matched(j) = 0 => h = H[j - 1][Current]
      <4> HAVE Matched(j) = 0
      <4>1. g = p + 0 + o
        BY <2>5
      <4> QED BY <1>9, <4>1
    <3>3. Matched(j) = 1 => h = H[j - 1][Current] + 1
      <4> HAVE Matched(j) = 1
      <4>1. g = p + 1 + o
        BY <2>5
      <4> QED BY <1>9, <4>1
    <3> QED BY <1>6, <1>8, <2>4, <3>1, <3>2, <3>3, SMTT(30)
  <2>7. call_frames[Current][x] = stack_frames[j].call_frame
    BY <1>6, <2>6 DEF Entry
  <2>8. calls[stack_frames[j].call_frame] = IF IsFirst(j) THEN "outer" ELSE "inner"
    BY <1>6, <2>6 DEF States
  <2>9. CASE ~IsFirst(j)
    BY <2>7, <2>8, <2>9 DEF EntryOfRun
  <2>10. CASE IsFirst(j)
    <3>1. StartsFunction(j - 1) /\ IsBase(j - 1)
      BY <2>10 DEF IsFirst, StartsFunction
    <3>2. j - 1 = b
      <4>1. j - 1 \in b .. n
        BY <1>1, <2>2
      <4>2. RunFrame(H, hang, n, b, j - 1)
        BY <4>1 DEF Thrown
      <4>3. ~(j - 1 > b)
        BY <3>1, <4>2 DEF RunFrame
      <4> QED BY <1>1, <2>2, <4>1, <4>3
    <3>3. k = b
      BY <1>1, <2>2, <3>2
    <3>4. stack_frames[b + 1].call_frame = runs[RunOf(b)].call_frame
      <4>1. FirstFrames /\ b \in 1 .. L /\ b # L
        BY <1>1, <1>4, <2>2, <3>2 DEF Thrown, Given, StackInv
      <4> QED BY <3>1, <3>2, <4>1 DEF FirstFrames
    <3>5. RunOf(b) = Len(runs) /\ b + 1 = j
      BY <1>1, <2>2, <3>2 DEF Thrown
    <3> QED BY <1>1, <2>7, <2>8, <2>10, <3>1, <3>2, <3>3, <3>4, <3>5 DEF EntryOfRun, Last
  <2> QED BY <2>9, <2>10
<1> QED BY <1>4, <1>6, <1>7, <1>8

\* What a handler finds: its frame is the k-th, one of the run, and h call
\* frames were in the list when the try began.
HandlerFacts(H, hang, n, b, top, k, h) ==
  /\ Thrown(H, hang, n, b, top) /\ k \in b .. n /\ k \in Nat \ {0} /\ k <= n
  /\ k = Base => ~StartsFunction(Base)
  /\ stack_frames[k].frame \in Frame \cup VM /\ Len(tries[stack_frames[k].frame]) = 1
  /\ h = H[k][Current] - Len(stack_frames[k].open) /\ h <= top /\ H[k - 1][Current] <= h
  /\ frames' = FramesWithout(n - k) /\ stack_frames' = WithOpen(StackWithout(n - k), <<>>)
  /\ tries' = [TriesWithout(n - k) EXCEPT ![stack_frames[k].frame] =
                 Append(Front(@), [caught |-> TRUE, handles |-> {}, cf_position |-> None])]
  /\ PopCallFrames(Current, top - h)
  /\ mode' = "run" /\ raised' = None /\ by_call' = FALSE
  /\ UNCHANGED <<runs, imports, loaded>>

\* handle_exception finds this: the try remembers the entry that was on top,
\* which is still at its place and nowhere else.
LEMMA HandleIs ==
  ASSUME IInv, Handle
  PROVE  \E H \in Heights, hang \in BOOLEAN, n, b, top, k, h \in Nat :
           HandlerFacts(H, hang, n, b, top, k, h)
<1>1. mode = "throw" /\ Handlers # {}
  BY DEF Handle
<1> PICK H \in Heights, hang \in BOOLEAN, n \in Nat, b \in Nat, top \in Nat :
           Thrown(H, hang, n, b, top)
  BY <1>1, ThrownIs
<1>2. /\ StacksTyped /\ StackInv /\ TriesInv /\ Structure /\ CallsInv(H, hang) /\ n = L /\ b = Base
      /\ b \in Nat \ {0} /\ n \in Nat \ {0} /\ b \in 1 .. n /\ IsBase(b) /\ Len(stack_frames) = n
      /\ RunOf(b) = Len(runs) /\ stack_frames[b].frame = Current /\ Current = Last(runs).vm
      /\ Len(runs) \in Nat \ {0}
      /\ call_frames[Current] \in Seq(CallFrame) /\ top = Len(call_frames[Current]) /\ Current \in VM
  BY DEF Thrown, Given, Structure, Current
<1> PICK k \in Nat : k = Innermost(Handlers) /\ k \in Handlers
  <2>1. Handlers \in SUBSET (1 .. n)
    BY <1>2 DEF Handlers, Visible
  <2>2. Innermost(Handlers) \in Handlers
    BY <1>1, <2>1, InnermostIs
  <2>3. Innermost(Handlers) \in 1 .. n
    BY <2>1, <2>2
  <2> PICK i \in Nat : i = Innermost(Handlers)
    BY <2>3
  <2> QED BY <2>2
<1>3. /\ k \in Visible(Current) /\ k \in 1 .. n /\ tries[stack_frames[k].frame] # <<>>
      /\ ~Last(tries[stack_frames[k].frame]).caught
      /\ \A j \in k .. n : stack_frames[j].vm = Current
  BY <1>2 DEF Handlers, Visible
<1>4. k \in b .. n
  <2> SUFFICES ASSUME k < b PROVE FALSE
    BY <1>2, <1>3
  <2>1. \A j \in k .. b : j \in k .. n
    BY <1>2
  <2>2. \A j \in k .. b : stack_frames[j].vm = stack_frames[b].vm
    <3>1. b \in k .. b
      BY <1>2
    <3> QED BY <1>3, <2>1, <3>1
  <2>3. tries[stack_frames[k].frame] = <<>>
    BY <1>2, <1>3, <2>2 DEF TriesInv, TriesBelow
  <2> QED BY <1>3, <2>3
<1>5. k = Base => ~StartsFunction(Base)
  <2> SUFFICES ASSUME k = b, StartsFunction(b) PROVE FALSE
    BY <1>2
  <2>1. runs[Len(runs)].kind \in ForFunction
    BY <1>2 DEF StartsFunction, KindOf
  <2>2. Len(runs) \in 1 .. Len(runs)
    BY <1>2
  <2>3. tries[runs[Len(runs)].vm] = <<>>
    BY <1>2, <2>1, <2>2 DEF TriesInv, TriesBelow
  <2> QED BY <1>2, <1>3, <2>3 DEF Last
<1>6. RunFrame(H, hang, n, b, k)
  BY <1>4 DEF Thrown
<1>7. /\ stack_frames[k].frame \in Frame \cup VM /\ TryPosition(H, k)
      /\ OpenHere(k) = Len(stack_frames[k].open) /\ k \in Nat \ {0} /\ k <= n
      /\ stack_frames[k].vm = Current
      /\ H[k][Current] \in Nat /\ H[k - 1][Current] \in Nat /\ H[k][Current] - OpenHere(k) \in Nat
      /\ H[k - 1][Current] <= H[k][Current] - OpenHere(k) /\ Len(stack_frames[k].open) \in Nat
      /\ stack_frames[k].call_frame \in CallFrame \cup {None}
  BY <1>6 DEF RunFrame, FrameFacts, Known
<1> PICK f \in Frame \cup VM : f = stack_frames[k].frame
  BY <1>7
<1> PICK g \in Nat, o \in Nat : g = H[k][Current] /\ o = Len(stack_frames[k].open)
  BY <1>7
<1> PICK h \in Nat : h = g - o
  BY <1>7
<1>8. Len(tries[f]) = 1 /\ Last(tries[f]) = tries[f][1] /\ tries[f] \in Seq(Try)
  <2>1. tries[f] \in Seq(Try) /\ Len(tries[f]) <= 1
    BY <1>2 DEF StacksTyped, TriesInv, TriesOfStack
  <2>2. Len(tries[f]) \in Nat \ {0}
    <3>1. tries[f] # <<>>
      BY <1>3
    <3> QED BY <2>1, <3>1, SequenceLen
  <2> PICK len \in Nat \ {0} : len = Len(tries[f])
    BY <2>2
  <2>4. len <= 1
    BY <2>1
  <2>5. \A x \in Nat \ {0} : x <= 1 => x = 1
    OBVIOUS
  <2>3. Len(tries[f]) = 1
    BY <2>4, <2>5
  <2> QED BY <2>1, <2>3 DEF Last
<1>9. h <= top
  <2>1. \A i \in 0 .. n - 1, m \in VM : H[i][m] <= Len(call_frames[m])
    BY <1>2 DEF Thrown, Given, HeightFacts
  <2>2. CASE k < n
    <3>1. k \in 0 .. n - 1
      BY <2>2
    <3>2. g <= top
      BY <1>2, <2>1, <3>1
    <3> QED BY <3>2, SMTT(30)
  <2>3. CASE k = n
    <3>1. g = top + (IF hang THEN 1 ELSE 0) /\ (hang => o # 0)
      BY <2>3 DEF Thrown
    <3>2. CASE hang
      <4>1. g = top + 1 /\ o # 0
        BY <3>1, <3>2
      <4> QED BY <4>1
    <3>3. CASE ~hang
      <4>1. g = top + 0
        BY <3>1, <3>3
      <4> QED BY <4>1
    <3> QED BY <3>2, <3>3
  <2> QED BY <1>7, <2>2, <2>3
<1>10. tries[f][1].cf_position = IF h = 0 THEN None ELSE call_frames[Current][h]
  <2>1. ~tries[f][1].caught /\ tries[f] # <<>>
    BY <1>3, <1>8
  <2>2. ~Left
    BY <1>1 DEF Left
  <2> QED BY <1>7, <2>1, <2>2 DEF TryPosition
<1> DEFINE cfs == call_frames[Current]
           kept == {x \in 1 .. Len(cfs) : cfs[x] = Last(tries[f]).cf_position}
<1>11. (IF kept = {} THEN Len(cfs) ELSE Len(cfs) - Innermost(kept)) = top - h
  <2>1. CASE h = 0
    <3>1. \A x \in 1 .. Len(cfs) : cfs[x] # None
      BY <1>2, CallStackAssumption, SMTT(30)
    <3>2. kept = {}
      BY <1>8, <1>10, <2>1, <3>1
    <3>3. top - h = top
      BY <2>1, SMTT(30)
    <3> QED BY <1>2, <3>2, <3>3
  <2>2. CASE h # 0
    <3>1. h \in 1 .. Len(cfs) /\ cfs[h] = Last(tries[f]).cf_position
      BY <1>2, <1>8, <1>9, <1>10, <2>2, SMTT(30)
    <3>2. \A x \in 1 .. Len(cfs) : cfs[x] = cfs[h] => x = h
      BY <1>2, <3>1, ZenonT(30) DEF CallsInv, DistinctEntries
    <3>3. kept \in SUBSET (1 .. top) /\ h \in kept /\ \A x \in kept : x = h
      BY <1>2, <3>1, <3>2
    <3>4. Innermost(kept) = h /\ kept # {}
      <4> HIDE DEF kept, cfs
      <4> QED BY <3>3, InnermostIs
    <3> QED BY <1>2, <3>4
  <2> QED BY <2>1, <2>2
<1>12. H[k - 1][Current] <= h
  BY <1>7
<1>13. /\ frames' = FramesWithout(n - k) /\ stack_frames' = WithOpen(StackWithout(n - k), <<>>)
       /\ tries' = [TriesWithout(n - k) EXCEPT ![stack_frames[k].frame] =
                      Append(Front(@), [caught |-> TRUE, handles |-> {}, cf_position |-> None])]
       /\ PopCallFrames(Current, IF kept = {} THEN Len(cfs) ELSE Len(cfs) - Innermost(kept))
       /\ mode' = "run" /\ raised' = None /\ by_call' = FALSE
       /\ UNCHANGED <<runs, imports, loaded>>
  BY <1>2 DEF Handle
<1>14. PopCallFrames(Current, top - h)
  <2> HIDE DEF kept, cfs
  <2> QED BY <1>11, <1>13
<1> HIDE DEF kept, cfs
<1>15. HandlerFacts(H, hang, n, b, top, k, h)
  BY <1>4, <1>5, <1>7, <1>8, <1>9, <1>12, <1>13, <1>14 DEF HandlerFacts
<1> QED BY <1>15

\* Frames of the run go until the k-th is on top, and call frames until h are
\* left, which are at least those of the frames below and its own.
Cut(H, G, hang, n, b, top, k, h) ==
  /\ Thrown(H, hang, n, b, top) /\ k \in b .. n /\ k \in Nat \ {0} /\ k <= n
  /\ SetsHeight(H, G, k, Current, h)
  /\ h <= top /\ H[k - 1][Current] <= h /\ H[k][Current] - OpenHere(k) <= h
  /\ PopCallFrames(Current, top - h) /\ runs' = runs
  /\ L' = k /\ SameBelow(k) /\ SameOpen(k - 1)
  /\ \A i \in 1 .. k - 1 : Shrinks(stack_frames[i].frame)

\* The call frames that are deleted are those of calls out of the frames that go.
CutCalls(k, h, top) ==
  /\ call_frames' \in [VM -> Seq(CallFrame)] /\ calls' \in [CallFrame -> CallState]
  /\ Len(call_frames'[Current]) = h
  /\ \A m \in VM, x \in Nat :
       1 <= x /\ (m = Current => x <= h) => call_frames'[m][x] = call_frames[m][x]
  /\ \A m \in VM : m # Current => call_frames'[m] = call_frames[m]
  /\ \A c \in CallFrame :
       \/ calls'[c] = calls[c]
       \/ /\ calls'[c] = "free" /\ EntryOfRun(k, c)
          /\ \E x \in h + 1 .. top : call_frames[Current][x] = c
  /\ DistinctEntries'

\* That is what popping call frames does.
LEMMA CutCallsAre ==
  ASSUME NEW H \in Heights, NEW G \in Heights, NEW hang \in BOOLEAN, NEW n \in Nat, NEW b \in Nat,
         NEW top \in Nat, NEW k \in Nat, NEW h \in Nat, Cut(H, G, hang, n, b, top, k, h)
  PROVE  CutCalls(k, h, top)
<1>1. /\ Thrown(H, hang, n, b, top) /\ k \in b .. n /\ k \in Nat \ {0} /\ h <= top
      /\ PopCallFrames(Current, top - h) /\ StacksTyped /\ CallsInv(H, hang) /\ Current \in VM
      /\ top = Len(call_frames[Current]) /\ H[k][Current] - OpenHere(k) <= h
  BY DEF Cut, Thrown, Given
<1>2. top - h \in Nat /\ top - (top - h) = h
  BY <1>1
<1>3. /\ call_frames' \in [VM -> Seq(CallFrame)] /\ calls' \in [CallFrame -> CallState]
      /\ Len(call_frames'[Current]) = h
      /\ \A i \in 1 .. h : call_frames'[Current][i] = call_frames[Current][i]
      /\ \A m \in VM : m # Current => call_frames'[m] = call_frames[m]
      /\ \A c \in CallFrame :
           calls'[c] = IF \E i \in h + 1 .. top : call_frames[Current][i] = c
                       THEN "free" ELSE calls[c]
  <2>1. /\ call_frames' \in [VM -> Seq(CallFrame)] /\ calls' \in [CallFrame -> CallState]
        /\ Len(call_frames'[Current]) = Len(call_frames[Current]) - (top - h)
        /\ \A i \in 1 .. Len(call_frames[Current]) - (top - h) :
             call_frames'[Current][i] = call_frames[Current][i]
        /\ \A m \in VM : m # Current => call_frames'[m] = call_frames[m]
        /\ \A c \in CallFrame :
             calls'[c] = IF \E i \in Len(call_frames[Current]) - (top - h) + 1 .. Len(call_frames[Current]) :
                                call_frames[Current][i] = c
                         THEN "free" ELSE calls[c]
    BY <1>1, <1>2, PopCallFramesIs, SMTT(30)
  <2>2. Len(call_frames[Current]) - (top - h) = h /\ Len(call_frames[Current]) - (top - h) + 1 = h + 1
    BY <1>1, <1>2
  <2> QED BY <1>1, <2>1, <2>2
<1>4. \A m \in VM, x \in Nat :
        1 <= x /\ (m = Current => x <= h) => call_frames'[m][x] = call_frames[m][x]
  <2>1. \A x \in Nat : 1 <= x /\ x <= h => x \in 1 .. h
    OBVIOUS
  <2> QED BY <1>3, <2>1
<1>5. ASSUME NEW c \in CallFrame, NEW x \in h + 1 .. top, call_frames[Current][x] = c
      PROVE  EntryOfRun(k, c)
  <2>1. x \in Nat /\ h < x /\ x <= top
    OBVIOUS
  <2>2. H[k][Current] - OpenHere(k) \in Nat
    <3>1. RunFrame(H, hang, n, b, k)
      BY <1>1 DEF Thrown
    <3> QED BY <3>1 DEF RunFrame
  <2> PICK o \in Nat : o = H[k][Current] - OpenHere(k)
    BY <2>2
  <2>3. H[k][Current] - OpenHere(k) < x
    BY <1>1, <2>1, SMTT(30)
  <2>4. EntryOfRun(k, call_frames[Current][x])
    BY <1>1, <2>1, <2>3, RunEntry
  <2> QED BY <1>5, <2>4
<1>6. DistinctEntries'
  <2>1. DistinctEntries /\ \A m \in VM : Len(call_frames[m]) \in Nat
    BY <1>1 DEF CallsInv, StacksTyped
  <2>2. ASSUME NEW m \in VM
        PROVE  /\ Len(call_frames'[m]) \in 0 .. Len(call_frames[m])
               /\ \A i \in 1 .. Len(call_frames'[m]) :
                    call_frames'[m][i] = call_frames[m][i] /\ call_frames[m][i] \in CallFrame
    <3>1. call_frames[m] \in Seq(CallFrame)
      BY <1>1 DEF StacksTyped
    <3>2. \A i \in 1 .. Len(call_frames[m]) : call_frames[m][i] \in CallFrame
      BY <3>1
    <3>3. CASE m = Current
      <4>1. Len(call_frames'[m]) = h /\ Len(call_frames[m]) = top
        BY <1>1, <1>3, <3>3
      <4>2. \A i \in 1 .. h : i \in 1 .. top
        BY <1>1
      <4> QED BY <1>1, <1>3, <3>2, <3>3, <4>1, <4>2
    <3>4. CASE m # Current
      BY <1>3, <2>1, <3>2, <3>4
    <3> QED BY <3>3, <3>4
  <2>3. \A c \in CallFrame : calls'[c] \in {"pending", "inner"} => calls[c] \in {"pending", "inner"}
    BY <1>3
  <2> QED BY <2>1, <2>2, <2>3, DistinctKept
<1> QED BY <1>3, <1>4, <1>5, <1>6 DEF CutCalls

\* What the frames below the k-th, and the lists, are after that.
LEMMA CutBelow ==
  ASSUME NEW H \in Heights, NEW G \in Heights, NEW hang \in BOOLEAN, NEW n \in Nat, NEW b \in Nat,
         NEW top \in Nat, NEW k \in Nat, NEW h \in Nat, Cut(H, G, hang, n, b, top, k, h),
         NEW hang2 \in BOOLEAN, ~hang2
  PROVE  (\A i \in 1 .. k - 1 : Known(G, hang2, i)') /\ Lengths(G, hang2)'
<1>1. /\ Thrown(H, hang, n, b, top) /\ k \in b .. n /\ k \in Nat \ {0} /\ k <= n
      /\ SetsHeight(H, G, k, Current, h) /\ h <= top /\ H[k - 1][Current] <= h
      /\ runs' = runs /\ L' = k /\ SameBelow(k) /\ SameOpen(k - 1)
      /\ \A i \in 1 .. k - 1 : Shrinks(stack_frames[i].frame)
  BY DEF Cut
<1>2. /\ StacksTyped /\ StackInv /\ CallsInv(H, hang) /\ Current \in VM /\ n = L /\ b = Base
      /\ top = Len(call_frames[Current]) /\ b \in Nat \ {0} /\ Given(H, hang, n)
  BY <1>1 DEF Thrown, Given
<1>3. CutCalls(k, h, top)
  BY CutCallsAre
<1>4. k - 1 \in Nat /\ k \in 1 .. n /\ H[k - 1][Current] \in Nat
  <2>1. k - 1 \in Nat /\ k \in 1 .. n
    BY <1>1
  <2> QED BY <1>2, <2>1 DEF Heights
<1>5. ASSUME NEW c \in CallFrame PROVE calls'[c] = calls[c] \/ Apart(H, k, c)
  <2> SUFFICES ASSUME calls'[c] # calls[c] PROVE Apart(H, k, c)
    OBVIOUS
  <2>1. EntryOfRun(k, c) /\ \E x \in h + 1 .. top : call_frames[Current][x] = c
    BY <1>3 DEF CutCalls
  <2>2. CASE calls[c] \in {"pending", "inner"}
    <3> PICK x \in h + 1 .. top : call_frames[Current][x] = c
      BY <2>1
    <3> PICK p \in Nat : p = H[k - 1][Current]
      BY <1>4
    <3>1. x \in p + 1 .. top
      BY <1>1
    <3>2. x \in H[k - 1][Current] + 1 .. Len(call_frames[Current])
      BY <1>2, <3>1
    <3> QED BY <2>2, <3>2 DEF Apart
  <2>3. CASE k = Base /\ c = Last(runs).call_frame /\ calls[c] = "outer"
    <3>1. k <= Base
      BY <1>1, <2>3
    <3> QED BY <2>3, <3>1 DEF Apart
  <2> QED BY <2>1, <2>2, <2>3 DEF EntryOfRun
<1>6. Undisturbed(H, G, k)
  <2>1. \A i \in 0 .. k - 1 : G[i] = H[i]
    <3>1. \A i \in 0 .. k - 1 : i \in Nat /\ i # k
      BY <1>1
    <3> QED BY <1>1, <3>1 DEF SetsHeight
  <2>2. ASSUME NEW m \in VM, NEW x \in Nat, 1 <= x, x <= H[k - 1][m]
        PROVE  call_frames'[m][x] = call_frames[m][x]
    <3>1. m = Current => x <= h
      BY <1>1, <1>4, <2>2
    <3> QED BY <1>3, <2>2, <3>1 DEF CutCalls
  <2> QED BY <1>1, <1>5, <2>1, <2>2 DEF Undisturbed
<1>7. \A i \in 1 .. k - 1 : Known(G, hang2, i)'
  <2>1. k \in 1 .. L /\ k <= L' /\ L' \in Nat
    BY <1>1, <1>2, <1>4
  <2>2. \A i \in 1 .. k - 1 :
          /\ Height(G, i)' /\ Entry(G, hang2, i)' /\ TryPosition(G, i)'
          /\ OpenCalls(hang2, i)' /\ States(hang2, i)'
    BY <1>2, <1>6, <2>1, KeptBelow
  <2> QED BY <2>2 DEF Known
<1>8. Lengths(G, hang2)'
  <2>1. Lengths(H, hang) /\ Current' = Current
    BY <1>1, <1>2 DEF CallsInv, Current
  <2>2. \A m \in VM : Len(call_frames'[m]) \in Nat
    BY <1>3 DEF CutCalls
  <2> SUFFICES ASSUME NEW m \in VM
               PROVE  /\ G[k][m] <= Len(call_frames'[m])
                      /\ "reentry" \in Features \/ (\E i \in 1 .. k : stack_frames'[i].vm = m)
                           => G[k][m] = Len(call_frames'[m])
    BY <1>1, <2>1, <2>2 DEF Lengths
  <2>3. CASE m = Current
    <3>1. G[k][m] = h /\ Len(call_frames'[m]) = h
      BY <1>1, <1>3, <2>3 DEF SetsHeight, CutCalls
    <3> QED BY <3>1
  <2>4. CASE m # Current
    <3>1. G[k][m] = H[k][m] /\ call_frames'[m] = call_frames[m]
      BY <1>1, <1>3, <2>4 DEF SetsHeight, CutCalls
    <3>2. H[k][m] = H[n][m]
      <4>1. \A i \in b .. n : H[i][m] = H[b][m]
        BY <1>1, <2>4, RunHeights
      <4>2. n \in b .. n
        BY <1>1 DEF Thrown
      <4> QED BY <1>1, <4>1, <4>2
    <3>3. /\ H[n][m] <= Len(call_frames[m]) + 0
          /\ "reentry" \in Features \/ (\E i \in 1 .. n : stack_frames[i].vm = m)
               => H[n][m] = Len(call_frames[m]) + 0
      BY <1>2, <2>1, <2>4 DEF Lengths
    <3>4. Len(call_frames[m]) \in Nat /\ H[n][m] \in Nat
      BY <1>2, ZenonT(30) DEF Given, TopFacts, Heights
    <3>5. /\ H[n][m] <= Len(call_frames[m])
          /\ "reentry" \in Features \/ (\E i \in 1 .. n : stack_frames[i].vm = m)
               => H[n][m] = Len(call_frames[m])
      BY <3>3, <3>4
    <3>6. \A i \in 1 .. k : i \in 1 .. n /\ stack_frames'[i].vm = stack_frames[i].vm
      BY <1>1 DEF SameBelow
    <3> QED BY <3>1, <3>2, <3>5, <3>6
  <2> QED BY <2>3, <2>4
<1> QED BY <1>7, <1>8

\* handle_exception: the frames above that of the handler go, with their
\* tries, and the handler's try has caught the exception.
LEMMA HandleFrames ==
  ASSUME NEW H \in Heights, NEW hang \in BOOLEAN, NEW n \in Nat, NEW b \in Nat, NEW top \in Nat,
         NEW k \in Nat, NEW h \in Nat, HandlerFacts(H, hang, n, b, top, k, h)
  PROVE  /\ StacksTyped' /\ StackInv' /\ TriesInv' /\ TriesOfLoaded'
         /\ L' = k /\ SameBelow(k) /\ SameOpen(k - 1) /\ stack_frames'[k].open = <<>>
         /\ \A i \in 1 .. k - 1 : Shrinks(stack_frames[i].frame)
         /\ tries'[stack_frames[k].frame] # <<>> /\ tries'[stack_frames[k].frame][1].caught
<1>1. /\ Thrown(H, hang, n, b, top) /\ k \in b .. n /\ k \in Nat \ {0} /\ k <= n
      /\ k = Base => ~StartsFunction(Base)
      /\ stack_frames[k].frame \in Frame \cup VM /\ Len(tries[stack_frames[k].frame]) = 1
      /\ frames' = FramesWithout(n - k) /\ stack_frames' = WithOpen(StackWithout(n - k), <<>>)
      /\ tries' = [TriesWithout(n - k) EXCEPT ![stack_frames[k].frame] =
                     Append(Front(@), [caught |-> TRUE, handles |-> {}, cf_position |-> None])]
      /\ PopCallFrames(Current, top - h) /\ h <= top
      /\ mode' = "run" /\ raised' = None /\ by_call' = FALSE
      /\ UNCHANGED <<runs, imports, loaded>>
  BY DEF HandlerFacts
<1>2. /\ StacksTyped /\ StackInv /\ TriesInv /\ TriesOfLoaded /\ Structure /\ Given(H, hang, n)
      /\ n = L /\ b = Base /\ Current \in VM /\ b \in Nat \ {0} /\ n - k \in Nat
      /\ n - k \in 0 .. L - Base /\ n - k \in 0 .. L /\ k \in Base .. L /\ L - (n - k) = k
      /\ k \in 1 .. n
  <2>1. Thrown(H, hang, n, b, top) /\ n = L /\ b = Base /\ b \in Nat \ {0}
    BY <1>1 DEF Thrown
  <2>2. n - k \in Nat /\ n - k \in 0 .. n - b /\ n - k \in 0 .. n /\ k \in b .. n /\ n - (n - k) = k
        /\ k \in 1 .. n
    BY <1>1, <2>1
  <2>3. n - k \in 0 .. L - Base /\ n - k \in 0 .. L /\ k \in Base .. L /\ L - (n - k) = k
    BY <2>1, <2>2
  <2> QED BY <2>1, <2>2, <2>3 DEF Thrown, Given
<1> PICK f \in Frame \cup VM : f = stack_frames[k].frame
  BY <1>1
<1>3. /\ StackWithout(n - k) \in Seq(StackFrame) /\ Len(StackWithout(n - k)) = k
      /\ \A i \in 1 .. k : StackWithout(n - k)[i] = stack_frames[i]
  BY <1>2, StackWithoutIs
<1>4. stack_frames' \in Seq(StackFrame) /\ L' = k /\ SameBelow(k) /\ SameOpen(k - 1)
      /\ stack_frames'[k].open = <<>>
  <2> PICK s \in Seq(StackFrame) : s = StackWithout(n - k)
    BY <1>3
  <2>1. s # <<>> /\ <<>> \in Seq(CallFrame) /\ Len(s) = k /\ \A i \in 1 .. k : s[i] = stack_frames[i]
    <3>1. Len(s) = k
      BY <1>3
    <3>2. s # <<>>
      BY <1>1, <3>1
    <3> QED BY <1>3, <3>1, <3>2
  <2>2. OpenIs(s, <<>>)
    BY <2>1, WithOpenAre
  <2>3. stack_frames' = WithOpen(s, <<>>)
    BY <1>1
  <2>4. \A i \in 1 .. k - 1 : i \in 1 .. k
    BY <1>1
  <2>5. stack_frames' \in Seq(StackFrame) /\ L' = k /\ stack_frames'[k].open = <<>>
    <3>1. /\ WithOpen(s, <<>>) \in Seq(StackFrame) /\ Len(WithOpen(s, <<>>)) = Len(s)
          /\ WithOpen(s, <<>>)[Len(s)].open = <<>>
      BY <2>2 DEF OpenIs
    <3>2. L' = Len(stack_frames')
      BY DEF L
    <3> HIDE DEF L
    <3> QED BY <2>1, <2>3, <3>1, <3>2
  <2>6. SameBelow(k)
    BY <2>1, <2>2, <2>3 DEF OpenIs, SameBelow
  <2>7. SameOpen(k - 1)
    BY <2>1, <2>2, <2>3, <2>4 DEF OpenIs, SameOpen
  <2> QED BY <2>5, <2>6, <2>7
<1>5. frames' \in [VM -> Seq(Frame \cup VM)]
  <2>1. Len(frames[Current]) \in Nat /\ Len(frames[Current]) >= L - Base
    BY <1>2, RunFrames
  <2> PICK len \in Nat : len = Len(frames[Current])
    BY <2>1
  <2>2. len >= n - b
    BY <1>2, <2>1
  <2>3. n - k \in 0 .. len
    <3>1. n - k <= n - b
      BY <1>1
    <3> QED BY <1>1, <1>2, <2>2, <3>1
  <2> QED BY <1>1, <1>2, <2>3, FramesWithoutType
<1>6. /\ TriesWithout(n - k) \in [Frame \cup VM -> Seq(Try)]
      /\ \A g \in Frame \cup VM :
           TriesWithout(n - k)[g] =
             IF g \in Frame /\ \E j \in k + 1 .. n : stack_frames[j].frame = g
             THEN <<>> ELSE tries[g]
  <2>1. /\ TriesWithout(n - k) \in [Frame \cup VM -> Seq(Try)]
        /\ \A g \in Frame \cup VM :
             TriesWithout(n - k)[g] =
               IF g \in Frame /\ \E j \in L - (n - k) + 1 .. L : stack_frames[j].frame = g
               THEN <<>> ELSE tries[g]
    BY <1>2, TriesWithoutIs
  <2>2. L - (n - k) + 1 = k + 1
    BY <1>1, <1>2
  <2> QED BY <1>2, <2>1, <2>2
<1>7. TriesWithout(n - k)[f] = tries[f]
  <2>1. f \in Frame => \A j \in k + 1 .. n : stack_frames[j].frame # f
    <3> HAVE f \in Frame
    <3>1. ~IsBase(k)
      BY CallStackAssumption DEF IsBase
    <3>2. \A j \in k + 1 .. n : j \in 1 .. L /\ k < j /\ k \in 1 .. L
      BY <1>1, <1>2
    <3> QED BY <1>2, <3>1, <3>2 DEF StackInv, FramesOfStack
  <2> QED BY <1>6, <2>1
<1>8. Front(tries[f]) = <<>> /\ tries[f] \in Seq(Try)
  <2>1. tries[f] \in Seq(Try) /\ Len(tries[f]) = 1
    BY <1>1, <1>2 DEF StacksTyped
  <2> QED BY <2>1 DEF Front
<1> DEFINE t == [caught |-> TRUE, handles |-> {}, cf_position |-> None]
<1>9. t \in Try /\ t.caught
  BY DEF Try
<1>10. /\ tries' \in [Frame \cup VM -> Seq(Try)] /\ tries'[f] = Append(<<>>, t)
       /\ \A g \in Frame \cup VM : g # f => tries'[g] = TriesWithout(n - k)[g]
  <2>1. Append(<<>>, t) \in Seq(Try)
    BY <1>9
  <2>2. tries' = [TriesWithout(n - k) EXCEPT ![f] = Append(Front(TriesWithout(n - k)[f]), t)]
    BY <1>1
  <2>3. tries' = [TriesWithout(n - k) EXCEPT ![f] = Append(<<>>, t)]
    BY <1>7, <1>8, <2>2
  <2> HIDE DEF t
  <2> QED BY <1>6, <2>1, <2>3
<1>11. tries'[f] # <<>> /\ tries'[f][1].caught /\ Len(tries'[f]) = 1
  BY <1>9, <1>10
<1> HIDE DEF t
<1>12. \A g \in Frame \cup VM : g # f => Shrinks(g)
  BY <1>6, <1>10 DEF Shrinks
<1>13. /\ \A i \in 1 .. k - 1 : stack_frames[i].frame # f
       /\ \A j \in 1 .. Len(runs) : runs[j].kind \in ForFunction => runs[j].vm # f
  BY <1>1, <1>2, TopDistinct
<1>14. \A i \in 1 .. k - 1 : Shrinks(stack_frames[i].frame)
  <2>1. \A i \in 1 .. L : stack_frames[i].frame \in Frame \cup VM
    BY <1>2 DEF Structure, StackFrame
  <2>2. \A i \in 1 .. k - 1 : i \in 1 .. L
    BY <1>1, <1>2
  <2> QED BY <1>12, <1>13, <2>1, <2>2
<1>15. StacksTyped'
  <2>1. call_frames' \in [VM -> Seq(CallFrame)] /\ calls' \in [CallFrame -> CallState]
    <3>1. top - h \in Nat
      BY <1>1
    <3> QED BY <1>1, <1>2, <3>1, PopCallFramesIs
  <2> QED BY <1>1, <1>2, <1>4, <1>5, <1>10, <2>1 DEF StacksTyped, Mode
<1>16. StackInv'
  <2>1. frames' = FramesWithout(L - k) /\ mode' \notin {"end", "leave"}
    BY <1>1, <1>2
  <2>2. ~(k = Base /\ StartsFunction(Base))
    BY <1>1
  <2> QED BY <1>1, <1>2, <1>4, <2>1, <2>2, StackPop
<1>17. TriesInv'
  <2>1. \A g \in Frame \cup VM : Len(tries'[g]) <= 1
    <3>1. \A g \in Frame \cup VM : Len(tries[g]) <= 1
      BY <1>2 DEF TriesInv, TriesOfStack
    <3>2. Len(<<>>) <= 1 /\ 1 <= 1
      OBVIOUS
    <3> TAKE g \in Frame \cup VM
    <3>3. CASE g = f
      BY <1>11, <3>2, <3>3
    <3>4. CASE g # f
      BY <1>12, <3>1, <3>2, <3>4 DEF Shrinks
    <3> QED BY <3>3, <3>4
  <2>2. \A g \in Frame : tries'[g] # <<>> => \E i \in 1 .. k : stack_frames[i].frame = g
    <3> TAKE g \in Frame
    <3> HAVE tries'[g] # <<>>
    <3>1. CASE g = f
      BY <1>1, <3>1
    <3>2. CASE g # f
      <4>1. tries'[g] = TriesWithout(n - k)[g]
        BY <1>10, <3>2
      <4>2. tries[g] # <<>> /\ ~ \E j \in k + 1 .. n : stack_frames[j].frame = g
        BY <1>6, <4>1
      <4>3. \E i \in 1 .. n : stack_frames[i].frame = g
        BY <1>2, <4>2 DEF TriesInv, TriesOfStack
      <4>4. \A i \in 1 .. n : i \in 1 .. k \/ i \in k + 1 .. n
        BY <1>1
      <4> QED BY <4>2, <4>3, <4>4
    <3> QED BY <3>1, <3>2
  <2>3. \A j \in 1 .. Len(runs) : runs[j].kind \in ForFunction => Shrinks(runs[j].vm)
    BY <1>2, <1>12, <1>13 DEF Structure, Activation
  <2> QED BY <1>1, <1>2, <1>4, <1>14, <2>1, <2>2, <2>3, TriesPop
<1>18. TriesOfLoaded'
  <2>1. \A m \in VM \ loaded : m # f
    <3>1. stack_frames[k].frame \in VM => stack_frames[k].frame = stack_frames[k].vm
      BY <1>2 DEF StackInv, FramesOfStack, IsBase
    <3>2. stack_frames[k].vm \in loaded
      BY <1>2 DEF Structure
    <3> QED BY <3>1, <3>2
  <2> QED BY <1>1, <1>2, <1>12, <2>1 DEF TriesOfLoaded, Shrinks
<1> QED BY <1>4, <1>11, <1>14, <1>15, <1>16, <1>17, <1>18

\* handle_exception, for the call frames: those of the try's beginning are left.
LEMMA HandleCalls ==
  ASSUME NEW H \in Heights, NEW hang \in BOOLEAN, NEW n \in Nat, NEW b \in Nat, NEW top \in Nat,
         NEW k \in Nat, NEW h \in Nat, HandlerFacts(H, hang, n, b, top, k, h)
  PROVE  CallsHold'
<1>1. /\ Thrown(H, hang, n, b, top) /\ k \in b .. n /\ k \in Nat \ {0} /\ k <= n
      /\ k = Base => ~StartsFunction(Base)
      /\ h = H[k][Current] - Len(stack_frames[k].open) /\ h <= top /\ H[k - 1][Current] <= h
      /\ PopCallFrames(Current, top - h) /\ mode' = "run" /\ runs' = runs
  BY DEF HandlerFacts
<1>2. /\ L' = k /\ SameBelow(k) /\ SameOpen(k - 1) /\ stack_frames'[k].open = <<>>
      /\ \A i \in 1 .. k - 1 : Shrinks(stack_frames[i].frame)
      /\ tries'[stack_frames[k].frame] # <<>> /\ tries'[stack_frames[k].frame][1].caught
  <2>1. /\ StacksTyped' /\ StackInv' /\ TriesInv' /\ TriesOfLoaded'
        /\ L' = k /\ SameBelow(k) /\ SameOpen(k - 1) /\ stack_frames'[k].open = <<>>
        /\ \A i \in 1 .. k - 1 : Shrinks(stack_frames[i].frame)
        /\ tries'[stack_frames[k].frame] # <<>> /\ tries'[stack_frames[k].frame][1].caught
    BY HandleFrames
  <2> QED BY <2>1
<1>3. /\ StacksTyped /\ StackInv /\ CallsInv(H, hang) /\ Given(H, hang, n) /\ Structure
      /\ n = L /\ b = Base /\ Current \in VM /\ mode = "throw"
      /\ \A j \in 1 .. Len(runs) : runs[j].call_frame # None => calls[runs[j].call_frame] = "outer"
  BY <1>1 DEF Thrown, Given
<1>4. /\ RunFrame(H, hang, n, b, k) /\ FrameFacts(H, hang, k)
      /\ stack_frames[k].vm = Current /\ ~Waits(k) /\ OpenHere(k) = Len(stack_frames[k].open)
      /\ H[k][Current] \in Nat /\ H[k - 1][Current] \in Nat
  BY <1>1 DEF Thrown, RunFrame
<1> PICK hang2 \in BOOLEAN : ~hang2
  OBVIOUS
<1> PICK G \in Heights : SetsHeight(H, G, k, Current, h)
  BY <1>3, HeightSet
<1>5. Cut(H, G, hang, n, b, top, k, h)
  <2>1. H[k][Current] - OpenHere(k) <= h
    BY <1>1, <1>4
  <2> QED BY <1>1, <1>2, <2>1 DEF Cut
<1>6. CutCalls(k, h, top)
  BY <1>5, CutCallsAre
<1>7. (\A i \in 1 .. k - 1 : Known(G, hang2, i)') /\ Lengths(G, hang2)'
  BY <1>5, CutBelow, SMTT(30)
<1>8. Known(G, hang2, k)'
  <2> PICK o \in Nat : o = 0
    OBVIOUS
  <2>1. KeepsPlace(H, G, k, o)
    <3>1. ~Left /\ ~Left'
      BY <1>1, <1>3 DEF Left
    <3>2. o <= Len(stack_frames[k].open) /\ Len(stack_frames'[k].open) = o
      <4>1. Len(stack_frames[k].open) \in Nat
        BY <1>4 DEF FrameFacts
      <4> QED BY <1>2, <4>1
    <3>3. G[k - 1] = H[k - 1]
      <4>1. k - 1 \in Nat /\ k - 1 # k
        BY <1>1
      <4> QED BY <4>1 DEF SetsHeight
    <3>4. /\ \A m \in VM : m # stack_frames[k].vm => G[k][m] = H[k][m]
          /\ G[k][stack_frames[k].vm] = h
      BY <1>4 DEF SetsHeight
    <3>5. G[k][stack_frames[k].vm] = (H[k][stack_frames[k].vm] - Len(stack_frames[k].open)) + o
      <4>1. h + o = h
        OBVIOUS
      <4> QED BY <1>1, <1>4, <3>4, <4>1
    <3>6. \A j \in 1 .. o : stack_frames'[k].open[j] = stack_frames[k].open[j]
      OBVIOUS
    <3>7. k <= L' /\ L' \in Nat /\ SameBelow(k) /\ \A j \in 1 .. RunOf(k) : runs'[j] = runs[j]
      BY <1>1, <1>2
    <3> QED BY <3>1, <3>2, <3>3, <3>4, <3>5, <3>6, <3>7 DEF KeepsPlace
  <2>2. KeepsCalls(H, G, hang, hang2, k, o)
    <3>1. ASSUME NEW m \in VM, NEW x \in Nat, 1 <= x, x <= G[k][m]
          PROVE  call_frames'[m][x] = call_frames[m][x]
      <4>1. m = Current => x <= h
        BY <3>1 DEF SetsHeight
      <4> QED BY <1>6, <3>1, <4>1 DEF CutCalls
    <3>2. k = L /\ hang => o < Len(stack_frames[k].open)
      <4> HAVE k = L /\ hang
      <4>1. Len(stack_frames[k].open) # 0 /\ Len(stack_frames[k].open) \in Nat
        BY <1>1, <1>3, <1>4 DEF Thrown, FrameFacts
      <4> QED BY <4>1
    <3>3. stack_frames[k].call_frame # None =>
            calls'[stack_frames[k].call_frame] = calls[stack_frames[k].call_frame]
      <4> HAVE stack_frames[k].call_frame # None
      <4> PICK c \in CallFrame : c = stack_frames[k].call_frame
        BY <1>4 DEF FrameFacts
      <4>1. call_frames[Current][h] = c /\ Matched(k) = 1
        <5>1. Matched(k) = 1
          BY DEF Matched
        <5>2. Entry(H, hang, k)
          BY <1>4 DEF FrameFacts, Known
        <5>3. call_frames[Current][H[k][Current] - OpenHere(k)] = c
          BY <1>4, <5>1, <5>2 DEF Entry
        <5> QED BY <1>1, <1>4, <5>1, <5>3
      <4>2. h \in 1 .. top
        <5>1. HeightFacts(H, hang) /\ k \in 1 .. L
          BY <1>1, <1>3 DEF Given
        <5>2. H[k][Current] - OpenHere(k) = H[k - 1][Current] + 1
          BY <1>4, <4>1, <5>1 DEF HeightFacts
        <5>3. h = H[k - 1][Current] + 1
          BY <1>1, <1>4, <5>2
        <5> QED BY <1>1, <1>4, <5>3
      <4>3. \A x \in h + 1 .. top : call_frames[Current][x] # c
        <5>1. DistinctEntries /\ top = Len(call_frames[Current])
          BY <1>1, <1>3 DEF CallsInv, Thrown
        <5>2. \A x \in h + 1 .. top : x \in 1 .. top /\ x # h
          OBVIOUS
        <5> QED BY <1>3, <4>1, <4>2, <5>1, <5>2 DEF DistinctEntries
      <4> QED BY <1>6, <4>3 DEF CutCalls
    <3> QED BY <3>1, <3>2, <3>3 DEF KeepsCalls
  <2>3. OpenCalls(hang2, k)'
    <3>1. ~Waits(k)'
      BY <1>2 DEF Waits
    <3>2. stack_frames'[k].open = <<>> /\ Len(stack_frames'[k].open) <= 1
      BY <1>2
    <3> QED BY <3>1, <3>2 DEF OpenCalls
  <2>4. TryPosition(G, k)'
    <3>1. stack_frames'[k].frame = stack_frames[k].frame
      BY <1>1, <1>2 DEF SameBelow
    <3> QED BY <1>2, <3>1 DEF TryPosition
  <2>5. k \in 1 .. L
    BY <1>1, <1>3
  <2> QED BY <1>3, <2>1, <2>2, <2>3, <2>4, <2>5, KeptFrame
<1>9. DistinctEntries' /\ DistinctHeld'
  <2>1. DistinctEntries'
    BY <1>6 DEF CutCalls
  <2>2. DistinctHeld
    BY <1>3 DEF CallsInv
  <2>3. DistinctHeld'
    BY <1>1, <2>2 DEF DistinctHeld
  <2> QED BY <2>1, <2>3
<1>10. HeldCallFramesAlive'
  <2>1. ASSUME NEW d \in CallFrame, calls[d] = "outer" PROVE calls'[d] = "outer"
    <3>1. ~EntryOfRun(k, d)
      BY <1>1, <2>1 DEF EntryOfRun
    <3> QED BY <1>6, <2>1, <3>1 DEF CutCalls
  <2> QED BY <1>1, <1>3, <2>1, HeldKept
<1>11. OnTheWay(hang2)'
  BY <1>1 DEF OnTheWay
<1> QED BY <1>1, <1>2, <1>7, <1>8, <1>9, <1>10, <1>11, CallsAgain

\* The exception is caught.
LEMMA HandleStep ==
  ASSUME IInv, WorkingFeatures, Handle
  PROVE  IInv'
<1> PICK H \in Heights, hang \in BOOLEAN, n \in Nat, b \in Nat, top \in Nat, k \in Nat, h \in Nat :
        HandlerFacts(H, hang, n, b, top, k, h)
  BY HandleIs
<1>1. StacksTyped' /\ StackInv' /\ TriesInv' /\ TriesOfLoaded'
  BY HandleFrames
<1>2. CallsHold'
  BY HandleCalls
<1> QED BY <1>1, <1>2 DEF IInv

\* The frames of the run above its base that are matched with a call frame.
Calls(b) == {j \in Nat : j > b /\ stack_frames[j].call_frame # None}

\* What unwind_stacks pops: all frames of the run but its base, and as many
\* call frames as they are matched with.
LEMMA UnwoundIs ==
  ASSUME NEW H \in Heights, NEW hang \in BOOLEAN, NEW n \in Nat, NEW b \in Nat, NEW top \in Nat,
         Thrown(H, hang, n, b, top)
  PROVE  /\ Unwound = b + 1 .. n /\ Cardinality(Unwound) = n - b
         /\ Cardinality({i \in Unwound : stack_frames[i].call_frame # None}) = Count(Calls(b), n)
<1>1. /\ StacksTyped /\ StackInv /\ Structure /\ n = L /\ b = Base /\ b \in Nat \ {0} /\ n \in Nat \ {0}
      /\ b <= n /\ b \in 1 .. n /\ IsBase(b) /\ stack_frames[b].frame = Current /\ Current \in VM
      /\ \A i \in b .. n : RunFrame(H, hang, n, b, i)
  BY DEF Thrown, Given
<1>2. Visible(Current) \in SUBSET (1 .. n) /\ \A i \in b .. n : i \in Visible(Current)
  BY <1>1, TopVisible
<1>3. PICK v \in 1 .. n : /\ v = Outermost(Visible(Current)) /\ v \in Visible(Current)
                          /\ \A i \in Visible(Current) : v <= i
  <2>1. b \in b .. n
    BY <1>1
  <2>2. Visible(Current) # {}
    BY <1>2, <2>1
  <2>3. /\ Outermost(Visible(Current)) \in Visible(Current)
        /\ \A i \in Visible(Current) : Outermost(Visible(Current)) <= i
    BY <1>2, <2>2, OutermostIs
  <2>4. Outermost(Visible(Current)) \in 1 .. n
    BY <1>2, <2>3
  <2> QED BY <2>3, <2>4
<1>4. stack_frames[v].vm = Current /\ \A j \in v .. n : stack_frames[j].vm = Current
  <2>1. \A j \in v .. Len(stack_frames) : stack_frames[j].vm = Current
    BY <1>3 DEF Visible
  <2>2. Len(stack_frames) = n
    BY <1>1 DEF L
  <2>3. v \in v .. n
    OBVIOUS
  <2> QED BY <2>1, <2>2, <2>3
<1>5. IsBase(v)
  <2>1. CASE v = 1
    BY <1>1, <2>1 DEF StackInv, RunsOnStack
  <2>2. CASE v # 1
    <3> SUFFICES ASSUME ~IsBase(v) PROVE FALSE
      OBVIOUS
    <3>1. v \in Nat \ {0} /\ v - 1 \in 1 .. n /\ v \in 1 .. n /\ v - 1 < v
      BY <1>1, <2>2
    <3>2. RunOf(v - 1) \in Nat /\ RunOf(v) = RunOf(v - 1) + 0
      BY <3>1, RunStep DEF RunFacts
    <3>3. RunOf(v) = RunOf(v - 1)
      BY <3>2
    <3>4. stack_frames[v - 1].vm = Current
      BY <1>1, <1>4, <3>1, <3>3 DEF Structure
    <3>5. \A j \in v - 1 .. n : stack_frames[j].vm = Current
      <4>1. \A j \in v - 1 .. n : j = v - 1 \/ j \in v .. n
        OBVIOUS
      <4> QED BY <1>4, <3>4, <4>1
    <3>6. v - 1 \in Visible(Current)
      <4>1. Len(stack_frames) = n
        BY <1>1 DEF L
      <4> QED BY <3>1, <3>5, <4>1 DEF Visible
    <3>7. v <= v - 1
      BY <1>3, <3>6
    <3> QED BY <3>1, <3>7
  <2> QED BY <2>1, <2>2
<1>6. stack_frames[v].frame = Current
  BY <1>1, <1>4, <1>5 DEF StackInv, FramesOfStack
<1>7. \A j \in b + 1 .. n : stack_frames[j].frame # Current
  <2>1. \A j \in b + 1 .. n : j \in b .. n /\ j > b
    BY <1>1
  <2> QED BY <1>1, <2>1 DEF RunFrame, IsBase
<1>8. Unwound = b + 1 .. n
  <2>1. Unwound = {i \in Visible(Current) : \A j \in i .. n : stack_frames[j].frame # Current}
    <3>1. Len(stack_frames) = n
      BY <1>1 DEF L
    <3> QED BY <1>3, <1>6, <3>1 DEF Unwound
  <2>2. ASSUME NEW i \in Visible(Current), \A j \in i .. n : stack_frames[j].frame # Current
        PROVE  i \in b + 1 .. n
    <3>1. i \in 1 .. n
      BY <1>2
    <3>2. ~(i <= b)
      <4> SUFFICES ASSUME i <= b PROVE FALSE
        OBVIOUS
      <4>1. b \in i .. n
        BY <1>1, <3>1
      <4> QED BY <1>1, <2>2, <4>1
    <3> QED BY <1>1, <3>1, <3>2
  <2>3. ASSUME NEW i \in b + 1 .. n
        PROVE  i \in Visible(Current) /\ \A j \in i .. n : stack_frames[j].frame # Current
    <3>1. i \in b .. n /\ \A j \in i .. n : j \in b + 1 .. n
      BY <1>1
    <3> QED BY <1>2, <1>7, <3>1
  <2> QED BY <2>1, <2>2, <2>3
<1>9. Cardinality(b + 1 .. n) = n - b
  <2>1. b + 1 \in Int /\ n \in Int
    OBVIOUS
  <2>2. Cardinality(b + 1 .. n) = IF b + 1 > n THEN 0 ELSE n - (b + 1) + 1
    BY <2>1, FS_Interval
  <2> QED BY <1>1, <2>2
<1>10. {i \in b + 1 .. n : stack_frames[i].call_frame # None} = {j \in 1 .. n : j \in Calls(b)}
  <2>1. \A j \in Nat : j \in b + 1 .. n <=> (j \in 1 .. n /\ j > b)
    BY <1>1
  <2>2. \A j \in b + 1 .. n : j \in Nat
    OBVIOUS
  <2> QED BY <2>1, <2>2 DEF Calls
<1> QED BY <1>8, <1>9, <1>10 DEF Count

\* The list is at least as long as its base and the matched frames say, and no
\* longer when every argument list that is open is waiting.
LEMMA UnwoundHeights ==
  ASSUME NEW H \in Heights, NEW hang \in BOOLEAN, NEW n \in Nat, NEW b \in Nat, NEW top \in Nat,
         Thrown(H, hang, n, b, top)
  PROVE  \E c, h \in Nat :
           /\ c = Count(Calls(b), n) /\ h + c = top
           /\ H[b][Current] - OpenHere(b) <= h
           /\ ~LeavesArguments => h = H[b][Current] - OpenHere(b)
<1>1. /\ b \in Nat \ {0} /\ n \in Nat \ {0} /\ b <= n /\ b \in b .. n /\ n \in b .. n /\ n = L
      /\ H[n][Current] = top + (IF hang THEN 1 ELSE 0)
      /\ hang => Len(stack_frames[n].open) # 0
      /\ ~LeavesArguments => /\ Len(stack_frames[n].open) <= 1
                             /\ (~hang => Len(stack_frames[n].open) = 0)
      /\ \A i \in b .. n : RunFrame(H, hang, n, b, i)
  <2>1. b \in b .. n /\ n \in b .. n
    BY DEF Thrown
  <2> QED BY <2>1 DEF Thrown
<1> PICK bb \in Nat : bb = H[b][Current] - OpenHere(b)
  BY <1>1 DEF RunFrame
<1> DEFINE Holds(i) == \E o, g, c \in Nat :
             /\ o = OpenHere(i) /\ g = H[i][Current] /\ c = Count(Calls(b), i)
             /\ bb + c + o <= g /\ (~LeavesArguments => g = bb + c + o)
           S == {i \in Nat : Holds(i)}
<1>2. \A i \in b .. n : OpenHere(i) \in Nat /\ H[i][Current] \in Nat
  BY <1>1, ZenonT(30) DEF RunFrame, FrameFacts
<1>3. b \in S
  <2>1. {j \in 1 .. b : j \in Calls(b)} = {}
    BY DEF Calls
  <2>2. Count(Calls(b), b) = 0
    BY <2>1, FS_EmptySet DEF Count
  <2> PICK o \in Nat, g \in Nat : o = OpenHere(b) /\ g = H[b][Current]
    BY <1>1, <1>2
  <2>3. bb + 0 + o = g
    OBVIOUS
  <2>4. Holds(b)
    BY <2>2, <2>3
  <2> QED BY <2>4
<1>4. ASSUME NEW i \in b .. n - 1, i \in S PROVE i + 1 \in S
  <2> PICK j \in Nat : j = i + 1
    OBVIOUS
  <2>1. i \in b .. n /\ j \in b .. n /\ j > b /\ j - 1 = i /\ j \in Nat \ {0} /\ i < n /\ i \in Nat
    BY <1>1
  <2>2. RunFrame(H, hang, n, b, j) /\ RunFrame(H, hang, n, b, i)
    BY <1>1, <2>1
  <2>3. stack_frames[j].vm = Current /\ ~IsBase(j) /\ Height(H, j)
    BY <2>1, <2>2 DEF RunFrame, FrameFacts, Known
  <2>4. H[j][Current] = H[i][Current] + Matched(j) + OpenHere(j)
    BY <2>1, <2>3 DEF Height
  <2>5. Count(Calls(b), j) = Count(Calls(b), i) + Matched(j)
    <3>1. Count(Calls(b), j) = Count(Calls(b), j - 1) + (IF j \in Calls(b) THEN 1 ELSE 0)
      BY <2>1, CountStep
    <3>2. (IF j \in Calls(b) THEN 1 ELSE 0) = Matched(j)
      BY <2>1 DEF Calls, Matched
    <3> QED BY <2>1, <3>1, <3>2
  <2>6. ~LeavesArguments => OpenHere(i) = 0
    <3> HAVE ~LeavesArguments
    <3>1. OpenCalls(hang, i) /\ ~Waits(i) /\ OpenHere(i) = Len(stack_frames[i].open)
      BY <2>2 DEF RunFrame, FrameFacts, Known
    <3>2. stack_frames[i].open = <<>>
      BY <1>1, <2>1, <3>1 DEF OpenCalls
    <3> QED BY <3>1, <3>2
  <2>7. Holds(i)
    BY <1>4
  <2> PICK o \in Nat, g \in Nat, c \in Nat :
             /\ o = OpenHere(i) /\ g = H[i][Current] /\ c = Count(Calls(b), i)
             /\ bb + c + o <= g /\ (~LeavesArguments => g = bb + c + o)
    BY <2>7
  <2>8. Matched(j) \in {0, 1}
    BY DEF Matched
  <2> PICK m \in Nat : m = Matched(j)
    BY <2>8
  <2> PICK p \in Nat : p = OpenHere(j)
    BY <1>2, <2>1
  <2> PICK d \in Nat : d = c + m
    OBVIOUS
  <2> PICK q \in Nat : q = g + m + p
    OBVIOUS
  <2>9. bb + d + p <= q /\ (~LeavesArguments => q = bb + d + p)
    <3>1. bb + d + p <= q
      OBVIOUS
    <3>2. ~LeavesArguments => q = bb + d + p
      BY <2>6
    <3> QED BY <3>1, <3>2
  <2>10. Count(Calls(b), j) = d /\ H[j][Current] = q /\ OpenHere(j) = p
    BY <2>4, <2>5
  <2>11. Holds(j)
    BY <2>9, <2>10
  <2> QED BY <2>11, ZenonT(30)
<1>5. n \in S
  <2> HIDE DEF S
  <2>1. b .. n \subseteq S
    BY <1>3, <1>4, SetInduction
  <2> QED BY <1>1, <2>1
<1>6. Holds(n)
  BY <1>5
<1> PICK o \in Nat, g \in Nat, c \in Nat :
             /\ o = OpenHere(n) /\ g = H[n][Current] /\ c = Count(Calls(b), n)
             /\ bb + c + o <= g /\ (~LeavesArguments => g = bb + c + o)
  BY <1>6
<1>7. o = Len(stack_frames[n].open)
  BY <1>1 DEF RunFrame
<1>8. bb + c <= top /\ (~LeavesArguments => top = bb + c)
  <2>1. CASE hang
    <3>1. g = top + 1 /\ o # 0 /\ (~LeavesArguments => o <= 1)
      BY <1>1, <1>7, <2>1
    <3> QED BY <3>1
  <2>2. CASE ~hang
    <3>1. g = top + 0 /\ (~LeavesArguments => o = 0)
      BY <1>1, <1>7, <2>2
    <3> QED BY <3>1
  <2> QED BY <2>1, <2>2
<1> PICK h \in Nat : h + c = top
  <2>1. top - c \in Nat /\ (top - c) + c = top
    BY <1>8
  <2> QED BY <2>1
<1>9. bb <= h /\ (~LeavesArguments => h = bb)
  BY <1>8
<1> QED BY <1>9

\* What an exception that nothing handles finds: the base of the run is the
\* b-th frame, and h call frames are left.
UnwindFacts(H, hang, n, b, top, h) ==
  /\ Thrown(H, hang, n, b, top) /\ h <= top
  /\ H[b][Current] - OpenHere(b) <= h
  /\ ~LeavesArguments => h = H[b][Current] - OpenHere(b)
  /\ frames' = FramesWithout(n - b) /\ tries' = TriesWithout(n - b)
  /\ stack_frames' = StackWithout(n - b) /\ PopCallFrames(Current, top - h)
  /\ mode' = "leave" /\ UNCHANGED <<runs, imports, loaded, raised, by_call>>

\* unwind_stacks finds this.
LEMMA UnwindIs ==
  ASSUME IInv, Unwind
  PROVE  \E H \in Heights, hang \in BOOLEAN, n, b, top, h \in Nat :
           UnwindFacts(H, hang, n, b, top, h)
<1>1. mode = "throw"
  BY DEF Unwind
<1> PICK H \in Heights, hang \in BOOLEAN, n \in Nat, b \in Nat, top \in Nat :
           Thrown(H, hang, n, b, top)
  BY <1>1, ThrownIs
<1>2. /\ Unwound = b + 1 .. n /\ Cardinality(Unwound) = n - b
      /\ Cardinality({i \in Unwound : stack_frames[i].call_frame # None}) = Count(Calls(b), n)
  BY UnwoundIs
<1> PICK c \in Nat, h \in Nat :
           /\ c = Count(Calls(b), n) /\ h + c = top
           /\ H[b][Current] - OpenHere(b) <= h
           /\ ~LeavesArguments => h = H[b][Current] - OpenHere(b)
  BY UnwoundHeights
<1>3. h <= top /\ top - h = c
  OBVIOUS
<1>4. /\ frames' = FramesWithout(Cardinality(Unwound))
      /\ tries' = TriesWithout(Cardinality(Unwound))
      /\ stack_frames' = StackWithout(Cardinality(Unwound))
      /\ PopCallFrames(Current,
           Cardinality({i \in Unwound : stack_frames[i].call_frame # None}))
      /\ mode' = "leave" /\ UNCHANGED <<runs, imports, loaded, raised, by_call>>
  BY DEF Unwind
<1>5. /\ frames' = FramesWithout(n - b) /\ tries' = TriesWithout(n - b)
      /\ stack_frames' = StackWithout(n - b)
  BY <1>2, <1>4
<1>6. PopCallFrames(Current, top - h)
  BY <1>2, <1>3, <1>4
<1>7. UnwindFacts(H, hang, n, b, top, h)
  BY <1>3, <1>4, <1>5, <1>6 DEF UnwindFacts
<1> QED BY <1>7

\* unwind_stacks: the base of the run is on top.
LEMMA UnwindFrames ==
  ASSUME NEW H \in Heights, NEW hang \in BOOLEAN, NEW n \in Nat, NEW b \in Nat, NEW top \in Nat,
         NEW h \in Nat, UnwindFacts(H, hang, n, b, top, h)
  PROVE  /\ StacksTyped' /\ StackInv' /\ TriesInv' /\ TriesOfLoaded'
         /\ L' = b /\ SameBelow(b) /\ SameOpen(b)
         /\ \A i \in 1 .. b - 1 : Shrinks(stack_frames[i].frame)
<1>1. /\ Thrown(H, hang, n, b, top) /\ h <= top /\ PopCallFrames(Current, top - h)
      /\ frames' = FramesWithout(n - b) /\ tries' = TriesWithout(n - b)
      /\ stack_frames' = StackWithout(n - b) /\ mode' = "leave"
      /\ UNCHANGED <<runs, imports, loaded, raised, by_call>>
  BY DEF UnwindFacts
<1>2. /\ StacksTyped /\ StackInv /\ TriesInv /\ TriesOfLoaded /\ Structure /\ Given(H, hang, n)
      /\ n = L /\ b = Base /\ Current \in VM /\ b \in Nat \ {0} /\ b <= n /\ mode = "throw"
      /\ n - b \in Nat /\ b \in Base .. L
  <2>1. n = L /\ b = Base /\ b \in Nat \ {0} /\ b <= n
    BY <1>1 DEF Thrown
  <2>2. n - b \in Nat /\ b \in b .. n
    BY <2>1
  <2> QED BY <1>1, <2>1, <2>2 DEF Thrown, Given
<1>3. /\ stack_frames' \in Seq(StackFrame) /\ L' = b /\ SameBelow(b) /\ SameOpen(b)
  BY <1>1, <1>2, StackCut
<1>4. frames' \in [VM -> Seq(Frame \cup VM)]
  <2>1. Len(frames[Current]) \in Nat /\ Len(frames[Current]) >= L - Base
    BY <1>2, RunFrames
  <2> PICK len \in Nat : len = Len(frames[Current])
    BY <2>1
  <2>2. len >= n - b
    BY <1>2, <2>1
  <2>3. n - b \in 0 .. len
    BY <1>2, <2>2
  <2> QED BY <1>1, <1>2, <2>3, FramesWithoutType
<1>5. /\ tries' \in [Frame \cup VM -> Seq(Try)] /\ \A f \in Frame \cup VM : Shrinks(f)
      /\ \A f \in Frame : tries'[f] # <<>> => \E i \in 1 .. b : stack_frames[i].frame = f
      /\ \A f \in VM : tries'[f] = tries[f]
  <2>1. Given(H, hang, n) /\ b \in Base .. L /\ tries' = TriesWithout(n - b)
    BY <1>1, <1>2
  <2> QED BY <2>1, TriesCut
<1>6. \A i \in 1 .. b - 1 : Shrinks(stack_frames[i].frame)
  <2>1. \A i \in 1 .. L : stack_frames[i].frame \in Frame \cup VM
    BY <1>2 DEF Structure, StackFrame
  <2>2. \A i \in 1 .. b - 1 : i \in 1 .. L
    BY <1>2
  <2> QED BY <1>5, <2>1, <2>2
<1>7. StacksTyped'
  <2>1. call_frames' \in [VM -> Seq(CallFrame)] /\ calls' \in [CallFrame -> CallState]
    <3>1. top - h \in Nat
      BY <1>1
    <3> QED BY <1>1, <1>2, <3>1, PopCallFramesIs
  <2>2. raised # None
    BY <1>2 DEF StacksTyped
  <2> QED BY <1>1, <1>2, <1>3, <1>4, <1>5, <2>1, <2>2 DEF StacksTyped, Mode
<1>8. StackInv'
  <2>1. frames' = FramesWithout(L - b) /\ ~Running'
    BY <1>1, <1>2 DEF Running
  <2> QED BY <1>1, <1>2, <1>3, <2>1, StackPop
<1>9. TriesInv'
  <2>1. \A g \in Frame \cup VM : Len(tries'[g]) <= 1
    <3>1. \A g \in Frame \cup VM : Len(tries[g]) <= 1
      BY <1>2 DEF TriesInv, TriesOfStack
    <3>2. Len(<<>>) <= 1
      OBVIOUS
    <3> QED BY <1>5, <3>1, <3>2 DEF Shrinks
  <2>2. \A j \in 1 .. Len(runs) : runs[j].kind \in ForFunction => Shrinks(runs[j].vm)
    BY <1>2, <1>5 DEF Structure, Activation
  <2> QED BY <1>1, <1>2, <1>3, <1>5, <1>6, <2>1, <2>2, TriesPop
<1>10. TriesOfLoaded'
  BY <1>1, <1>2, <1>5 DEF TriesOfLoaded
<1> QED BY <1>3, <1>6, <1>7, <1>8, <1>9, <1>10

\* The base of a run that an exception has left.
LEMMA UnwoundBase ==
  ASSUME NEW H \in Heights, NEW G \in Heights, NEW hang \in BOOLEAN, NEW n \in Nat, NEW b \in Nat,
         NEW top \in Nat, NEW h \in Nat, UnwindFacts(H, hang, n, b, top, h), WorkingFeatures,
         Cut(H, G, hang, n, b, top, b, h), SameOpen(b), NEW hang2 \in BOOLEAN, ~hang2
  PROVE  Known(G, hang2, b)'
<1>1. /\ Thrown(H, hang, n, b, top) /\ mode' = "leave" /\ runs' = runs
      /\ H[b][Current] - OpenHere(b) <= h
      /\ ~LeavesArguments => h = H[b][Current] - OpenHere(b)
  BY DEF UnwindFacts
<1>2. /\ StacksTyped /\ StackInv /\ Structure /\ n = L /\ b = Base /\ Current \in VM /\ b \in Nat \ {0}
      /\ b \in 1 .. n /\ IsBase(b) /\ b \in b .. n /\ RunOf(b) = Len(runs)
  <2>1. b \in b .. n
    BY <1>1 DEF Thrown
  <2> QED BY <1>1, <2>1 DEF Thrown, Given
<1>3. /\ L' = b /\ SameBelow(b) /\ SameOpen(b) /\ SetsHeight(H, G, b, Current, h)
      /\ CutCalls(b, h, top)
  BY CutCallsAre DEF Cut
<1>4. /\ RunFrame(H, hang, n, b, b) /\ Known(H, hang, b) /\ stack_frames[b].vm = Current
      /\ H[b][Current] \in Nat /\ H[b - 1][Current] \in Nat
      /\ H[b - 1][Current] <= H[b][Current] - OpenHere(b)
      /\ H[b][Current] - OpenHere(b) \in Nat
      /\ stack_frames[b].open \in Seq(CallFrame) /\ Len(stack_frames[b].open) \in Nat
  BY <1>1, <1>2 DEF Thrown, RunFrame, FrameFacts
<1>5. /\ stack_frames'[b].frame = stack_frames[b].frame /\ stack_frames'[b].vm = Current
      /\ stack_frames'[b].call_frame = None /\ stack_frames'[b].open = stack_frames[b].open
      /\ IsBase(b)' /\ RunOf(b)' = RunOf(b) /\ KindOf(b)' = KindOf(b)
  <2>1. b \in 1 .. b /\ b \in 0 .. b
    BY <1>2
  <2>2. stack_frames[b].call_frame = None
    BY <1>2 DEF StackInv, FramesOfStack
  <2>3. RunOf(b)' = RunOf(b) /\ IsBase(b)'
    BY <1>2, <1>3, <2>1, CountsBelow
  <2> QED BY <1>1, <1>3, <1>4, <2>1, <2>2, <2>3 DEF SameBelow, SameOpen, KindOf
<1>6. Left' /\ OpenHere(b)' = 0
  BY <1>1, <1>3 DEF Left, OpenHere
<1>7. \A m \in VM : Held(b, m)' = Held(b, m)
  <2>1. b > 1 => stack_frames'[b - 1].vm = stack_frames[b - 1].vm
    <3>1. b > 1 => b - 1 \in 1 .. b
      BY <1>2
    <3> QED BY <1>3, <3>1 DEF SameBelow
  <2> QED BY <1>2, <1>5, <2>1 DEF Held
<1>8. G[b - 1] = H[b - 1] /\ G[b][Current] = h /\ \A m \in VM : m # Current => G[b][m] = H[b][m]
  <2>1. b - 1 \in Nat /\ b - 1 # b
    BY <1>2
  <2> QED BY <1>3, <2>1 DEF SetsHeight
<1>9. Height(H, b) /\ Entry(H, hang, b) /\ OpenCalls(hang, b)
  BY <1>4 DEF Known
<1>10. Height(G, b)'
  <2>1. \A m \in VM \ {Current} : G[b][m] = G[b - 1][m] + Held(b, m)'
    BY <1>4, <1>7, <1>8, <1>9 DEF Height
  <2> PICK p \in Nat, bb \in Nat : p = H[b - 1][Current] /\ bb = H[b][Current] - OpenHere(b)
    BY <1>4
  <2>2. G[b][Current] >= G[b - 1][Current] + OpenHere(b)'
    <3>1. h >= p + 0
      BY <1>1, <1>4, SMTT(30)
    <3> QED BY <1>6, <1>8, <3>1
  <2>3. "reentry" \in Features => G[b][Current] = G[b - 1][Current] + OpenHere(b)'
    <3> HAVE "reentry" \in Features
    <3>1. h = bb
      BY <1>1 DEF WorkingFeatures
    <3> PICK o \in Nat : o = OpenHere(b)
      BY <1>1, <1>2, <1>4 DEF RunFrame
    <3> PICK g \in Nat : g = H[b][Current]
      BY <1>4
    <3>2. g = p + o
      BY <1>2, <1>4, <1>9 DEF Height
    <3>3. h = p + 0
      BY <3>1, <3>2
    <3> QED BY <1>6, <1>8, <3>3
  <2> QED BY <1>5, <2>1, <2>2, <2>3 DEF Height
<1>11. Entry(G, hang2, b)'
  <2>1. Matched(b)' = 0
    BY <1>5 DEF Matched
  <2>2. ASSUME NEW m \in VM \ {Current}, Held(b, m)' = 1
        PROVE  call_frames'[m][G[b][m]] = runs'[RunOf(b)'].call_frame
    <3>1. call_frames[m][H[b][m]] = runs[RunOf(b)].call_frame
      BY <1>4, <1>7, <1>9, <2>2 DEF Entry
    <3>2. call_frames'[m] = call_frames[m] /\ G[b][m] = H[b][m]
      BY <1>3, <1>8, <2>2 DEF CutCalls
    <3> QED BY <1>1, <1>5, <3>1, <3>2
  <2>3. 1 .. OpenHere(b)' = {}
    BY <1>6
  <2> QED BY <1>5, <2>1, <2>2, <2>3 DEF Entry
<1>12. TryPosition(G, b)'
  BY <1>3, <1>6 DEF TryPosition
<1>13. OpenCalls(hang2, b)'
  <2>1. StartsFunction(b)' => StartsFunction(b)
    BY <1>2, <1>5 DEF StartsFunction
  <2>2. ~Waits(b)'
    BY <1>2, <1>3 DEF Waits
  <2>3. ~LeavesArguments => Len(stack_frames'[b].open) <= 1
    BY <1>5, <1>9 DEF OpenCalls
  <2>4. ~(b < L')
    BY <1>2, <1>3
  <2> QED BY <1>1, <1>5, <1>9, <2>1, <2>2, <2>3, <2>4 DEF OpenCalls
<1>14. States(hang2, b)'
  <2>1. Matched(b)' = 0
    BY <1>5 DEF Matched
  <2>2. 1 .. OpenHere(b)' = {}
    BY <1>6
  <2> QED BY <2>1, <2>2 DEF States
<1> QED BY <1>10, <1>11, <1>12, <1>13, <1>14 DEF Known

\* unwind_stacks, for the call frames: none of the frames below is deleted.
LEMMA UnwindCalls ==
  ASSUME NEW H \in Heights, NEW hang \in BOOLEAN, NEW n \in Nat, NEW b \in Nat, NEW top \in Nat,
         NEW h \in Nat, UnwindFacts(H, hang, n, b, top, h), WorkingFeatures
  PROVE  CallsHold'
<1>1. /\ Thrown(H, hang, n, b, top) /\ mode' = "leave" /\ runs' = runs /\ h <= top
      /\ PopCallFrames(Current, top - h) /\ H[b][Current] - OpenHere(b) <= h
  BY DEF UnwindFacts
<1>2. /\ L' = b /\ SameBelow(b) /\ SameOpen(b)
      /\ \A i \in 1 .. b - 1 : Shrinks(stack_frames[i].frame)
  BY UnwindFrames
<1>3. /\ StacksTyped /\ StackInv /\ CallsInv(H, hang) /\ Given(H, hang, n) /\ Structure
      /\ n = L /\ b = Base /\ Current \in VM /\ b \in b .. n /\ b \in Nat \ {0} /\ b <= n
      /\ Len(runs) \in Nat \ {0} /\ RunOf(b) = Len(runs)
      /\ \A j \in 1 .. Len(runs) : runs[j].call_frame # None => calls[runs[j].call_frame] = "outer"
  <2>1. b \in b .. n
    BY <1>1 DEF Thrown
  <2> QED BY <1>1, <2>1 DEF Thrown, Given, Structure
<1> PICK hang2 \in BOOLEAN : ~hang2
  OBVIOUS
<1> PICK G \in Heights : SetsHeight(H, G, b, Current, h)
  BY <1>3, HeightSet
<1>4. Cut(H, G, hang, n, b, top, b, h)
  <2>1. H[b - 1][Current] <= h
    <3>1. RunFrame(H, hang, n, b, b)
      BY <1>1, <1>3 DEF Thrown
    <3> PICK p \in Nat, bb \in Nat : p = H[b - 1][Current] /\ bb = H[b][Current] - OpenHere(b)
      BY <3>1 DEF RunFrame
    <3>2. p <= bb /\ bb <= h
      BY <1>1, <3>1 DEF RunFrame
    <3> QED BY <3>2
  <2>2. SameOpen(b - 1)
    <3>1. \A i \in 1 .. b - 1 : i \in 1 .. b
      BY <1>3
    <3> QED BY <1>2, <3>1 DEF SameOpen
  <2> QED BY <1>1, <1>2, <1>3, <2>1, <2>2 DEF Cut
<1>5. CutCalls(b, h, top)
  BY <1>4, CutCallsAre
<1>6. (\A i \in 1 .. b - 1 : Known(G, hang2, i)') /\ Lengths(G, hang2)'
  BY <1>4, CutBelow
<1>7. Known(G, hang2, b)'
  BY <1>2, <1>4, UnwoundBase
<1>8. DistinctEntries' /\ DistinctHeld'
  <2>1. DistinctEntries'
    BY <1>5 DEF CutCalls
  <2>2. DistinctHeld
    BY <1>3 DEF CallsInv
  <2>3. DistinctHeld'
    BY <1>1, <2>2 DEF DistinctHeld
  <2> QED BY <2>1, <2>3
<1>9. HeldCallFramesAlive'
  <2> SUFFICES ASSUME NEW i \in 1 .. Len(runs) - 1, runs[i].call_frame # None
               PROVE  calls'[runs[i].call_frame] = "outer"
    BY <1>1 DEF HeldCallFramesAlive
  <2>1. i \in 1 .. Len(runs) /\ i < Len(runs) /\ Len(runs) \in 1 .. Len(runs)
    BY <1>3
  <2>2. runs[i].call_frame \in CallFrame
    BY <1>3, <2>1 DEF Structure, Activation
  <2>3. calls[runs[i].call_frame] = "outer"
    BY <1>3, <2>1
  <2>4. runs[i].call_frame # Last(runs).call_frame
    <3>1. CASE Last(runs).call_frame = None
      BY <3>1
    <3>2. CASE Last(runs).call_frame # None
      BY <1>3, <2>1, <3>2 DEF CallsInv, DistinctHeld, Last
    <3> QED BY <3>1, <3>2
  <2>5. ~EntryOfRun(b, runs[i].call_frame)
    BY <2>3, <2>4 DEF EntryOfRun
  <2> QED BY <1>5, <2>2, <2>3, <2>5 DEF CutCalls
<1>10. OnTheWay(hang2)'
  BY <1>1 DEF OnTheWay
<1> QED BY <1>2, <1>3, <1>6, <1>7, <1>8, <1>9, <1>10, CallsAgain

\* The exception leaves the run.
LEMMA UnwindStep ==
  ASSUME IInv, WorkingFeatures, Unwind
  PROVE  IInv'
<1> PICK H \in Heights, hang \in BOOLEAN, n \in Nat, b \in Nat, top \in Nat, h \in Nat :
        UnwindFacts(H, hang, n, b, top, h)
  BY UnwindIs
<1>1. StacksTyped' /\ StackInv' /\ TriesInv' /\ TriesOfLoaded'
  BY UnwindFrames
<1>2. CallsHold'
  BY UnwindCalls
<1> QED BY <1>1, <1>2 DEF IInv

-----------------------------------------------------------------------------
(* The program starts, and the invariant holds from then on.               *)

\* The stack of a program that starts is the global frame of its VM.
LEMMA InitStack ==
  ASSUME Init
  PROVE  /\ L = 1 /\ stack_frames[1].frame = Main /\ stack_frames[1].vm = Main
         /\ stack_frames[1].call_frame = None /\ stack_frames[1].open = <<>>
         /\ IsBase(1) /\ RunOf(1) = 1 /\ Pushed(Main, 1) = 1
         /\ Len(runs) = 1 /\ runs[1].vm = Main /\ runs[1].kind = "main"
         /\ runs[1].call_frame = None /\ Current = Main /\ Top = stack_frames[1]
         /\ KindOf(1) = "main" /\ ~StartsFunction(1) /\ ~Waits(1) /\ Main \in VM
<1>1. /\ L = 1 /\ stack_frames[1].frame = Main /\ stack_frames[1].vm = Main
      /\ stack_frames[1].call_frame = None /\ stack_frames[1].open = <<>>
      /\ Len(runs) = 1 /\ runs[1].vm = Main /\ runs[1].kind = "main"
      /\ runs[1].call_frame = None /\ Main \in VM
  BY CallStackAssumption DEF Init, L
<1>2. IsBase(1)
  BY <1>1 DEF IsBase
<1>3. RunOf(1) = 1 /\ Pushed(Main, 1) = 1
  <2>1. RunOf(0) = 0 /\ RunOf(1) = RunOf(1 - 1) + 1
    BY <1>2, RunStep DEF RunFacts
  <2>2. Pushed(Main, 0) = 0 /\ Pushed(Main, 1) = Pushed(Main, 1 - 1) + 1
    BY <1>1, PushedStep DEF PushedFacts
  <2> QED BY <2>1, <2>2
<1>4. Current = Main /\ Top = stack_frames[1]
  BY <1>1 DEF Current, Top, Last, L
<1>5. KindOf(1) = "main" /\ ~StartsFunction(1)
  BY <1>1, <1>3 DEF KindOf, StartsFunction, ForFunction
<1>6. ~Waits(1)
  BY <1>1 DEF Waits
<1> QED BY <1>1, <1>2, <1>3, <1>4, <1>5, <1>6

\* Every variable has its type when the program starts.
LEMMA InitType ==
  ASSUME Init
  PROVE  StacksTyped
<1>1. Main \in VM
  BY CallStackAssumption
<1>2. frames \in [VM -> Seq(Frame \cup VM)]
  <2>1. <<Main>> \in Seq(Frame \cup VM) /\ <<>> \in Seq(Frame \cup VM)
    BY <1>1
  <2> QED BY <2>1 DEF Init
<1>3. call_frames \in [VM -> Seq(CallFrame)] /\ tries \in [Frame \cup VM -> Seq(Try)]
  BY DEF Init
<1>4. stack_frames \in Seq(StackFrame)
  <2>1. [frame |-> Main, vm |-> Main, call_frame |-> None, open |-> <<>>] \in StackFrame
    BY <1>1 DEF StackFrame
  <2> QED BY <2>1 DEF Init
<1>5. runs \in Seq(Activation) /\ runs # <<>>
  <2>1. [vm |-> Main, kind |-> "main", call_frame |-> None] \in Activation
    BY <1>1 DEF Activation
  <2> QED BY <2>1 DEF Init
<1>6. calls \in [CallFrame -> CallState] /\ imports \in Seq(VM) /\ loaded \subseteq VM
  BY <1>1 DEF Init, CallState
<1> QED BY <1>2, <1>3, <1>4, <1>5, <1>6 DEF Init, StacksTyped, Mode

\* The parts of the invariant that are about the stack and the tries.
LEMMA InitStructure ==
  ASSUME Init
  PROVE  StackInv /\ TriesInv /\ TriesOfLoaded
<1>1. /\ L = 1 /\ stack_frames[1].frame = Main /\ stack_frames[1].vm = Main
      /\ stack_frames[1].call_frame = None
      /\ IsBase(1) /\ RunOf(1) = 1 /\ Pushed(Main, 1) = 1
      /\ Len(runs) = 1 /\ runs[1].vm = Main /\ runs[1].kind = "main" /\ runs[1].call_frame = None
      /\ ~StartsFunction(1) /\ ~Waits(1) /\ Main \in VM
  BY InitStack
<1>2. \A i \in 1 .. 1 : i = 1
  OBVIOUS
<1>3. FramesMatchStack
  <2>1. frames[Main] = <<Main>> /\ loaded = {Main} /\ Len(stack_frames) = 1 /\ Constructed(Main) = 0
    BY <1>1 DEF Init, Constructed
  <2>2. Len(frames[Main]) = Constructed(Main) + Pushed(Main, Len(stack_frames))
    BY <1>1, <2>1
  <2>3. frames[Main][Constructed(Main) + Pushed(Main, 1)] = Main
    BY <1>1, <2>1
  <2> QED BY <1>1, <1>2, <2>1, <2>2, <2>3 DEF FramesMatchStack
<1>4. RunsOnStack
  BY <1>1, <1>2 DEF RunsOnStack, Init, L
<1>5. FramesOfStack
  BY <1>1, <1>2 DEF FramesOfStack
<1>6. KindsOfRuns
  <2>1. loaded = {Main}
    BY DEF Init
  <2> QED BY <1>1, <1>2, <2>1 DEF KindsOfRuns, ForFunction
<1>7. FirstFrames
  BY <1>1, <1>2 DEF FirstFrames
<1>8. \A f \in Frame \cup VM : tries[f] = <<>>
  BY DEF Init
<1>9. TriesOfStack
  BY <1>8 DEF TriesOfStack
<1>10. TriesBelow
  <2>1. \A i, j \in 1 .. L : ~(i < j)
    BY <1>1
  <2>2. \A k \in 1 .. Len(runs) : runs[k].kind \notin ForFunction
    BY <1>1, <1>2 DEF ForFunction
  <2>3. \A i \in 1 .. L : ~Waits(i)
    BY <1>1, <1>2
  <2> QED BY <2>1, <2>2, <2>3 DEF TriesBelow
<1>11. TriesOfLoaded
  BY <1>8 DEF TriesOfLoaded
<1> QED BY <1>3, <1>4, <1>5, <1>6, <1>7, <1>9, <1>10, <1>11 DEF StackInv, TriesInv

\* There are no call frames yet.
LEMMA InitCalls ==
  ASSUME Init
  PROVE  CallsHold
<1>1. /\ L = 1 /\ stack_frames[1].frame = Main /\ stack_frames[1].vm = Main
      /\ stack_frames[1].call_frame = None /\ stack_frames[1].open = <<>>
      /\ IsBase(1) /\ KindOf(1) = "main"
      /\ Len(runs) = 1 /\ runs[1].call_frame = None /\ Current = Main
      /\ ~StartsFunction(1) /\ ~Waits(1) /\ Main \in VM
  BY InitStack
<1>2. \A i \in 1 .. 1 : i = 1
  OBVIOUS
<1>3. /\ \A m \in VM : call_frames[m] = <<>>
      /\ \A f \in Frame \cup VM : tries[f] = <<>>
      /\ mode = "run"
  BY DEF Init
<1> DEFINE Z == [i \in Nat |-> [m \in VM |-> 0]]
<1>4. Z \in Heights
  BY DEF Heights
<1>5. \A i \in Nat, m \in VM : Z[i][m] = 0
  OBVIOUS
<1> HIDE DEF Z
<1> PICK H \in Heights : \A i \in Nat, m \in VM : H[i][m] = 0
  BY <1>4, <1>5
<1> PICK hang \in BOOLEAN : ~hang
  OBVIOUS
<1>6. H[1][Main] = 0 /\ H[0][Main] = 0 /\ \A m \in VM : H[1][m] = 0 /\ H[0][m] = 0
  BY <1>1
<1>7. OpenHere(1) = 0 /\ Matched(1) = 0 /\ \A m : Held(1, m) = 0
  BY <1>1, <1>3 DEF OpenHere, Matched, Held, Left
<1>8. Height(H, 1)
  BY <1>1, <1>6, <1>7 DEF Height
<1>9. Entry(H, hang, 1)
  <2>1. 1 .. 0 = {}
    OBVIOUS
  <2> QED BY <1>7, <2>1 DEF Entry
<1>10. TryPosition(H, 1)
  BY <1>1, <1>3 DEF TryPosition
<1>11. OpenCalls(hang, 1)
  BY <1>1 DEF OpenCalls
<1>12. States(hang, 1)
  BY <1>7 DEF States
<1>13. Lengths(H, hang)
  <2>1. \A m \in VM : Len(call_frames[m]) = 0
    BY <1>3
  <2> QED BY <1>1, <1>6, <2>1 DEF Lengths
<1>14. DistinctEntries
  <2>1. \A m \in VM : Len(call_frames[m]) = 0
    BY <1>3
  <2> QED BY <2>1 DEF DistinctEntries
<1>15. DistinctHeld
  BY <1>1, <1>2 DEF DistinctHeld
<1>16. HeldCallFramesAlive
  BY <1>1, <1>2, <1>3 DEF HeldCallFramesAlive, Last
<1>17. OnTheWay(hang)
  BY <1>3 DEF OnTheWay
<1> QED BY <1>1, <1>2, <1>8, <1>9, <1>10, <1>11, <1>12, <1>13, <1>14, <1>15, <1>16, <1>17
        DEF CallsHold, CallsInv

\* The invariant holds when the program starts.
LEMMA InitStep == Init => IInv
BY InitType, InitStructure, InitCalls DEF IInv

\* Every action of the interpreter keeps the invariant, as long as the program
\* does nothing but what is known to work.
LEMMA NextStep ==
  ASSUME IInv, WorkingFeatures, [Next]_vars
  PROVE  IInv'
<1>1. ASSUME NEW c \in CallFrame, PushCallFrame(c) PROVE IInv'
  BY <1>1, PushCallFrameStep
<1>2. ASSUME NEW f \in Frame, CallFunction(f) PROVE IInv'
  BY <1>2, CallFunctionStep
<1>3. ASSUME NEW f \in Frame, BeginClass(f) PROVE IInv'
  BY <1>3, BeginClassStep
<1>4. ASSUME NEW m \in VM, NEW f \in Frame, CallModule(m, f) PROVE IInv'
  BY <1>4, CallModuleStep
<1>5. ASSUME NEW m \in VM, NEW f \in Frame, NEW c \in CallFrame, CallBack(m, f, c) PROVE IInv'
  BY <1>5, CallBackStep
<1>6. CASE CallNative
  BY <1>6, CallNativeStep
<1>7. CASE EndClass
  BY <1>7, EndClassStep
<1>8. CASE Return
  BY <1>8, ReturnStep
<1>9. CASE PopTry
  BY <1>9, PopTryStep
<1>10. ASSUME NEW handled \in SUBSET Exception, PushTry(handled) PROVE IInv'
  BY <1>10, PushTryStep
<1>11. ASSUME NEW m \in VM, Import(m) PROVE IInv'
  BY <1>11, ImportStep
<1>12. ASSUME NEW e \in Exception, Raise(e) PROVE IInv'
  BY <1>12, RaiseStep
<1>13. ASSUME NEW e \in Exception, RaiseInCall(e) PROVE IInv'
  BY <1>13, RaiseInCallStep
<1>14. CASE EndCode
  BY <1>14, EndCodeStep
<1>15. CASE EndCall
  BY <1>15, EndCallStep
<1>16. CASE EndImport
  BY <1>16, EndImportStep
<1>17. CASE RunFinally
  BY <1>17, RunFinallyStep
<1>18. CASE Again
  BY <1>18, AgainStep
<1>19. CASE Handle
  BY <1>19, HandleStep
<1>20. CASE Unwind
  BY <1>20, UnwindStep
<1>21. CASE Leave
  BY <1>21, LeaveStep
<1>22. CASE EndProgram
  BY <1>22, EndProgramStep
<1>23. CASE Stop \/ UNCHANGED vars
  BY <1>23, StutterStep DEF Stop
<1> QED
  BY <1>1, <1>2, <1>3, <1>4, <1>5, <1>6, <1>7, <1>8, <1>9, <1>10, <1>11, <1>12, <1>13, <1>14,
     <1>15, <1>16, <1>17, <1>18, <1>19, <1>20, <1>21, <1>22, <1>23 DEF Next, Propagate

\* The invariant holds in every state of a program that does nothing but what
\* is known to work.
THEOREM InvariantHolds == WorkingFeatures /\ Spec => []IInv
<1>1. Init => IInv
  BY InitStep
<1>2. WorkingFeatures /\ IInv /\ [Next]_vars => IInv'
  BY NextStep
<1>3. WorkingFeatures => []WorkingFeatures
  <2>1. WorkingFeatures => WorkingFeatures'
    BY DEF WorkingFeatures, LeavesArguments
  <2> QED BY <2>1, PTL
<1> QED BY <1>1, <1>2, <1>3, PTL DEF Spec

-----------------------------------------------------------------------------
(* The places: every frame that waits is gone on with where it was.        *)

\* What is known before and after a step.
PlaceFacts ==
  /\ IInv /\ PlacesInv /\ WorkingFeatures
  /\ StacksTyped /\ StackInv /\ TriesInv /\ Structure /\ StacksTyped' /\ Structure'
  /\ L \in Nat \ {0} /\ L' \in Nat \ {0} /\ Current \in VM /\ Current' \in VM
  /\ Len(runs) \in Nat \ {0} /\ Len(runs') \in Nat \ {0}
  /\ stack_frames \in Seq(StackFrame) /\ stack_frames # <<>> /\ Len(stack_frames) = L
  /\ Top = stack_frames[L] /\ Top \in StackFrame /\ Top' = stack_frames'[L']
  /\ Top.frame \in Frame \cup VM /\ Top.vm = Current /\ TopFrame = Top.frame

\* The invariant gives this.
LEMMA PlaceFactsHold ==
  ASSUME IInv, PlacesInv, WorkingFeatures, IInv'
  PROVE  PlaceFacts
<1>1. StacksTyped /\ StackInv /\ TriesInv /\ StacksTyped' /\ StackInv'
  BY DEF IInv
<1>2. Structure
  BY <1>1, StackStructure
<1>3. Structure'
  <2>1. (StacksTyped /\ StackInv => Structure)'
    BY StackStructure, PTL
  <2> QED BY <1>1, <2>1
<1>4. /\ L \in Nat \ {0} /\ Current \in VM /\ Len(runs) \in Nat \ {0} /\ L \in 1 .. L
      /\ L' \in Nat \ {0} /\ Current' \in VM /\ Len(runs') \in Nat \ {0}
  BY <1>2, <1>3 DEF Structure
<1>5. Top = stack_frames[L] /\ Top' = stack_frames'[L']
  BY DEF Top, Last, L
<1>6. Top \in StackFrame /\ Top.vm = Current /\ TopFrame = Top.frame
  BY <1>2, <1>4, <1>5 DEF Structure
<1>7. stack_frames \in Seq(StackFrame) /\ Len(stack_frames) = L /\ stack_frames # <<>>
  BY <1>1, <1>4 DEF StacksTyped, L
<1>8. Top.frame \in Frame \cup VM
  BY <1>6 DEF StackFrame
<1> QED BY <1>1, <1>2, <1>3, <1>4, <1>5, <1>6, <1>7, <1>8 DEF PlaceFacts

\* A step leaves alone what the frames below are gone on with: the notes in
\* call frames that are in use, the runs below and what they put back, and
\* the place of every VM that waits without a note.
AddrKept(c) ==
  \/ calls'[c] = "free"
  \/ /\ caller_addr'[c] = caller_addr[c]
     /\ calls'[c] = calls[c] \/ (calls[c] = "outer" /\ calls'[c] = "returned")
  \/ calls[c] \in {"free", "pending"} /\ Running

RunsKept ==
  \A j \in 1 .. Len(runs') :
    IF j <= Len(runs) THEN runs'[j] = runs[j] /\ pre_call_bci'[j] = pre_call_bci[j]
    ELSE \A k \in 2 .. Len(runs) : KeepsNoPlace(k) => runs[k - 1].vm # runs'[j].vm

NotesKept ==
  /\ \A c \in CallFrame : AddrKept(c)
  /\ RunsKept
  /\ \A v \in VM : v # Current /\ v # Current' => bci'[v] = bci[v]

\* The frames that stay are gone on with where they were.
LEMMA PlacesBelow ==
  ASSUME PlaceFacts, NotesKept, NEW n \in Nat, n <= L, n <= L', SameBelow(n), NEW i \in 2 .. n
  PROVE  ReturnsTo(i)' /\ GoesOn(i)'
<1>1. i \in 1 .. L /\ i \in 1 .. L' /\ i - 1 \in 1 .. n /\ i \in 1 .. n /\ i \in 2 .. L
      /\ i - 1 \in 1 .. L /\ i - 1 \in 1 .. L' /\ i \in 0 .. n /\ i \in Nat \ {0}
  BY DEF PlaceFacts
<1>2. /\ RunOf(i)' = RunOf(i) /\ IsBase(i)' = IsBase(i)
      /\ stack_frames'[i - 1].frame = stack_frames[i - 1].frame
      /\ stack_frames'[i].call_frame = stack_frames[i].call_frame
  BY <1>1, CountsBelow DEF SameBelow
<1>3. ReturnsTo(i) /\ GoesOn(i)
  BY <1>1 DEF PlaceFacts, PlacesInv
<1>4. ReturnsTo(i)'
  <2> SUFFICES ASSUME NEW c, c = stack_frames[i].call_frame, c # None, calls'[c] = "inner"
               PROVE  caller_addr'[c] = stack_frames[i - 1].frame
    BY <1>2 DEF ReturnsTo
  <2>1. c \in CallFrame
    BY <1>1 DEF PlaceFacts, Structure, StackFrame
  <2>2. calls[c] \in {"inner", "outer"}
    <3>1. PICK H \in Heights, hang \in BOOLEAN : States(hang, i)
      BY <1>1 DEF PlaceFacts, IInv, CallsHold, CallsInv
    <3> QED BY <3>1 DEF States, Matched
  <2>3. calls[c] = "inner" /\ caller_addr'[c] = caller_addr[c]
    BY <2>1, <2>2 DEF NotesKept, AddrKept
  <2> QED BY <1>3, <2>3 DEF ReturnsTo
<1>5. GoesOn(i)'
  <2> SUFFICES ASSUME IsBase(i) PROVE GoesOn(i)'
    BY <1>2 DEF GoesOn
  <2> PICK k \in Nat : k = RunOf(i)
    BY <1>1, RunStep DEF RunFacts
  <2> DEFINE f == stack_frames[i - 1].frame
  <2>1. k \in 2 .. Len(runs) /\ k \in 2 .. Len(runs')
    <3>1. RunOf(i) = RunOf(i - 1) + 1
      BY <1>1, RunStep DEF RunFacts
    <3>2. RunOf(i - 1) \in 1 .. Len(runs) /\ RunOf(i) \in 1 .. Len(runs)
      BY <1>1 DEF PlaceFacts, Structure
    <3>3. RunOf(i)' \in 1 .. Len(runs')
      BY <1>1 DEF PlaceFacts, Structure
    <3>4. k \in 1 .. Len(runs) /\ k \in 1 .. Len(runs') /\ k >= 2
      BY <1>2, <3>1, <3>2, <3>3
    <3> QED BY <3>4 DEF PlaceFacts
  <2>2. \A j \in 1 .. k : runs'[j] = runs[j] /\ pre_call_bci'[j] = pre_call_bci[j]
    <3> TAKE j \in 1 .. k
    <3>1. j \in 1 .. Len(runs') /\ j <= Len(runs)
      BY <2>1 DEF PlaceFacts
    <3> QED BY <3>1 DEF NotesKept, RunsKept
  <2>3. /\ runs'[k] = runs[k] /\ runs'[k - 1] = runs[k - 1] /\ pre_call_bci'[k] = pre_call_bci[k]
        /\ runs[k - 1].vm \in VM /\ k \in 1 .. Len(runs) /\ k \in Nat
    <3>1. k \in 1 .. k /\ k - 1 \in 1 .. k /\ k - 1 \in 1 .. Len(runs) /\ k \in 1 .. Len(runs)
      BY <2>1 DEF PlaceFacts
    <3>2. runs[k - 1] \in Activation
      BY <3>1 DEF PlaceFacts, Structure
    <3> QED BY <2>2, <3>1, <3>2 DEF Activation
  <2>4. Noted(k, f)
    BY <1>3 DEF GoesOn
  <2> SUFFICES /\ runs[k].kind = "call" =>
                    \A c : c = runs[k].call_frame /\ calls'[c] \in {"outer", "returned"} =>
                      caller_addr'[c] = f
               /\ runs[k].kind # "call" =>
                    IF runs[k - 1].vm = runs[k].vm THEN pre_call_bci[k] = f
                    ELSE /\ bci'[runs[k - 1].vm] = f
                         /\ \A j \in k .. Len(runs') : runs'[j].vm # runs[k - 1].vm
    BY <1>2, <2>3 DEF GoesOn, Noted
  <2>5. ASSUME runs[k].kind = "call", NEW c, c = runs[k].call_frame,
               calls'[c] \in {"outer", "returned"}
        PROVE  caller_addr'[c] = f
    <3>1. c # None /\ c \in CallFrame
      <4>1. runs[k] \in Activation /\ runs[k].call_frame # None
        BY <2>3, <2>5 DEF PlaceFacts, Structure, StackInv, KindsOfRuns, ForFunction
      <4> QED BY <2>5, <4>1 DEF Activation
    <3>2. Running => calls[c] = "outer"
      <4>1. HeldCallFramesAlive
        BY DEF PlaceFacts, IInv, CallsHold, CallsInv
      <4>2. k \in 1 .. Len(runs) - 1 \/ k = Len(runs)
        BY <2>1 DEF PlaceFacts
      <4> QED BY <2>5, <3>1, <4>1, <4>2 DEF HeldCallFramesAlive, Running, Last
    <3>3. AddrKept(c)
      BY <3>1 DEF NotesKept
    <3>4. caller_addr'[c] = caller_addr[c] /\ calls[c] \in {"outer", "returned"}
      BY <2>5, <3>2, <3>3 DEF AddrKept
    <3> QED BY <2>4, <2>5, <3>4 DEF Noted
  <2>6. ASSUME runs[k].kind # "call", runs[k - 1].vm # runs[k].vm
        PROVE  /\ bci'[runs[k - 1].vm] = f
               /\ \A j \in k .. Len(runs') : runs'[j].vm # runs[k - 1].vm
    <3>1. /\ bci[runs[k - 1].vm] = f
          /\ \A j \in k .. Len(runs) : runs[j].vm # runs[k - 1].vm
      BY <2>4, <2>6 DEF Noted
    <3>2. KeepsNoPlace(k)
      <4>1. runs[k] \in Activation
        BY <2>3 DEF PlaceFacts, Structure
      <4>2. runs[k].kind # "main"
        <5>1. KindsOfRuns /\ k # 1
          BY <2>1 DEF PlaceFacts, StackInv
        <5> QED BY <2>3, <5>1 DEF KindsOfRuns
      <4> QED BY <2>6, <4>1, <4>2 DEF KeepsNoPlace, Activation
    <3>3. \A j \in k .. Len(runs') : runs'[j].vm # runs[k - 1].vm
      <4> TAKE j \in k .. Len(runs')
      <4>1. j \in 1 .. Len(runs')
        BY <2>1
      <4>2. CASE j <= Len(runs)
        <5>1. j \in k .. Len(runs)
          BY <2>1, <4>2 DEF PlaceFacts
        <5> QED BY <3>1, <4>1, <4>2, <5>1 DEF NotesKept, RunsKept
      <4>3. CASE ~(j <= Len(runs))
        BY <2>1, <3>2, <4>1, <4>3 DEF NotesKept, RunsKept
      <4> QED BY <4>2, <4>3
    <3>4. runs[k - 1].vm # Current /\ runs[k - 1].vm # Current'
      <4>1. Len(runs) \in k .. Len(runs) /\ Len(runs') \in k .. Len(runs')
        BY <2>1 DEF PlaceFacts
      <4> QED BY <3>1, <3>3, <4>1 DEF Current, Last
    <3> QED BY <2>3, <3>1, <3>3, <3>4 DEF NotesKept
  <2> QED BY <2>3, <2>4, <2>5, <2>6 DEF Noted
<1> QED BY <1>4, <1>5

\* So the invariant of the places is kept, if it holds of the frames that are
\* new and of the VM that runs.
LEMMA PlacesSet ==
  ASSUME PlaceFacts, NotesKept, NEW n \in Nat, n <= L, n <= L', SameBelow(n),
         \A i \in 2 .. L' : i > n => ReturnsTo(i)' /\ GoesOn(i)',
         PlacesTyped', Len(pre_call_bci') = Len(runs'), RunsOwnCode'
  PROVE  PlacesInv'
<1>1. ASSUME NEW i \in 2 .. L' PROVE ReturnsTo(i)' /\ GoesOn(i)'
  <2>1. CASE i > n
    BY <2>1
  <2>2. CASE ~(i > n)
    <3>1. i \in 2 .. n
      BY <2>2 DEF PlaceFacts
    <3> QED BY <3>1, PlacesBelow
  <2> QED BY <2>1, <2>2
<1> QED BY <1>1 DEF PlacesInv

\* Every activation is as it was.
LEMMA RunsSame ==
  ASSUME PlaceFacts, runs' = runs, pre_call_bci' = pre_call_bci
  PROVE  RunsKept /\ Current' = Current /\ Len(pre_call_bci') = Len(runs')
<1>1. Len(pre_call_bci) = Len(runs)
  BY DEF PlaceFacts, PlacesInv
<1>2. RunsKept
  BY DEF RunsKept, PlaceFacts
<1> QED BY <1>1, <1>2 DEF Current

\* The call frames that are popped are free afterwards.
LEMMA PoppedAddrs ==
  ASSUME PlaceFacts, NEW m \in VM, NEW n, PopCallFrames(m, n)
  PROVE  /\ \A c \in CallFrame : AddrKept(c)
         /\ caller_addr' \in [CallFrame -> Frame \cup VM \cup {None}]
<1> DEFINE deleted == {call_frames[m][i] : i \in Len(call_frames[m]) - n + 1 .. Len(call_frames[m])}
<1>1. /\ calls' = [c \in CallFrame |-> IF c \in deleted THEN "free" ELSE calls[c]]
      /\ caller_addr' = [c \in CallFrame |-> IF c \in deleted THEN None ELSE caller_addr[c]]
  BY DEF PopCallFrames
<1>2. caller_addr \in [CallFrame -> Frame \cup VM \cup {None}]
  BY DEF PlaceFacts, PlacesInv, PlacesTyped
<1> HIDE DEF deleted
<1> QED BY <1>1, <1>2 DEF AddrKept

\* The place of one VM is set.
LEMMA BciSet ==
  ASSUME PlaceFacts, NEW m \in VM, NEW f \in Frame \cup VM \cup {None}, SetBci(m, f)
  PROVE  /\ bci' \in [VM -> Frame \cup VM \cup {None}]
         /\ bci'[m] = f /\ \A v \in VM : v # m => bci'[v] = bci[v]
<1>1. bci \in [VM -> Frame \cup VM \cup {None}]
  BY DEF PlaceFacts, PlacesInv, PlacesTyped
<1> QED BY <1>1 DEF SetBci

-----------------------------------------------------------------------------
(* Opcodes that push or pop no frame.                                      *)

\* The stack and the places stay.
LEMMA PlacesStay ==
  ASSUME PlaceFacts, L' = L, SameBelow(L), runs' = runs, bci' = bci, pre_call_bci' = pre_call_bci,
         \A c \in CallFrame : AddrKept(c), caller_addr' \in [CallFrame -> Frame \cup VM \cup {None}],
         mode' \in {"run", "again", "throw"} => bci[Current] = Top.frame
  PROVE  PlacesInv'
<1>1. RunsKept /\ Current' = Current /\ Len(pre_call_bci') = Len(runs')
  BY RunsSame
<1>2. NotesKept
  BY <1>1 DEF NotesKept
<1>3. PlacesTyped'
  BY DEF PlaceFacts, PlacesInv, PlacesTyped
<1>4. RunsOwnCode'
  <2>1. Top'.frame = Top.frame
    BY DEF PlaceFacts, SameBelow
  <2> QED BY <1>1, <2>1 DEF RunsOwnCode
<1>5. L \in Nat /\ L <= L /\ L <= L' /\ \A i \in 2 .. L' : ~(i > L)
  BY DEF PlaceFacts
<1> QED BY <1>1, <1>2, <1>3, <1>4, <1>5, PlacesSet

\* A list of open calls changes nothing else of the stack.
LEMMA WithOpenShape ==
  ASSUME NEW s \in Seq(StackFrame), s # <<>>, NEW o, WithOpen(s, o) \in Seq(StackFrame)
  PROVE  /\ Len(WithOpen(s, o)) = Len(s)
         /\ \A i \in 1 .. Len(s) :
              /\ WithOpen(s, o)[i].frame = s[i].frame
              /\ WithOpen(s, o)[i].vm = s[i].vm
              /\ WithOpen(s, o)[i].call_frame = s[i].call_frame
<1>1. Len(s) \in 1 .. Len(s) /\ s[Len(s)] \in StackFrame /\ Len(s) \in Nat
  OBVIOUS
<1> DEFINE t == [s[Len(s)] EXCEPT !.open = o]
<1>2. /\ t.frame = s[Len(s)].frame /\ t.vm = s[Len(s)].vm
      /\ t.call_frame = s[Len(s)].call_frame
  BY <1>1 DEF StackFrame
<1>3. WithOpen(s, o) = [s EXCEPT ![Len(s)] = t]
  BY DEF WithOpen
<1> HIDE DEF t
<1>4. DOMAIN WithOpen(s, o) = 1 .. Len(s) /\ DOMAIN WithOpen(s, o) = 1 .. Len(WithOpen(s, o))
  BY <1>1, <1>3
<1>5. Len(WithOpen(s, o)) \in Nat
  OBVIOUS
<1>6. Len(WithOpen(s, o)) = Len(s)
  BY <1>1, <1>4, <1>5
<1>7. ASSUME NEW i \in 1 .. Len(s)
      PROVE  /\ WithOpen(s, o)[i].frame = s[i].frame /\ WithOpen(s, o)[i].vm = s[i].vm
             /\ WithOpen(s, o)[i].call_frame = s[i].call_frame
  <2>1. DOMAIN s = 1 .. Len(s)
    OBVIOUS
  <2>2. CASE i = Len(s)
    <3>1. WithOpen(s, o)[i] = t
      BY <1>1, <1>3, <2>1, <2>2
    <3> QED BY <1>2, <2>2, <3>1
  <2>3. CASE i # Len(s)
    <3>1. WithOpen(s, o)[i] = s[i]
      BY <1>1, <1>3, <2>1, <2>3
    <3> QED BY <3>1
  <2> QED BY <2>2, <2>3
<1> QED BY <1>6, <1>7

\* The open calls of the top frame change.
LEMMA OpenChanged ==
  ASSUME PlaceFacts, NEW o, stack_frames' = WithOpen(stack_frames, o)
  PROVE  L' = L /\ SameBelow(L)
<1>1. stack_frames \in Seq(StackFrame) /\ stack_frames # <<>> /\ stack_frames' \in Seq(StackFrame)
  BY DEF PlaceFacts, StacksTyped
<1> QED BY <1>1, WithOpenShape DEF L, SameBelow, PlaceFacts

\* A call begins: no frame moves.
LEMMA PushCallFramePlaces ==
  ASSUME PlaceFacts, NEW c \in CallFrame, PushCallFrame(c)
  PROVE  PlacesInv'
<1>1. /\ mode = "run" /\ calls[c] = "free" /\ calls' = [calls EXCEPT ![c] = "pending"]
      /\ \E o : stack_frames' = WithOpen(stack_frames, o)
      /\ runs' = runs /\ bci' = bci /\ pre_call_bci' = pre_call_bci /\ caller_addr' = caller_addr
      /\ mode' = mode
  BY DEF PushCallFrame, FreshCall, places
<1>2. L' = L /\ SameBelow(L)
  BY <1>1, OpenChanged
<1>3. \A d \in CallFrame : AddrKept(d)
  BY <1>1 DEF AddrKept, Running, PlaceFacts, StacksTyped
<1>4. caller_addr' \in [CallFrame -> Frame \cup VM \cup {None}] /\ bci[Current] = Top.frame
  BY <1>1 DEF PlaceFacts, PlacesInv, PlacesTyped, RunsOwnCode
<1> QED BY <1>1, <1>2, <1>3, <1>4, PlacesStay

\* A native function is called and returns.
LEMMA CallNativePlaces ==
  ASSUME PlaceFacts, CallNative
  PROVE  PlacesInv'
<1>1. /\ mode = "run" /\ PopCallFrames(Current, 1)
      /\ stack_frames' = WithOpen(stack_frames, Front(Top.open))
      /\ runs' = runs /\ bci' = bci /\ pre_call_bci' = pre_call_bci /\ Current \in VM
  BY DEF CallNative, AtCall, PlaceFacts
<1>2. L' = L /\ SameBelow(L)
  BY <1>1, OpenChanged
<1>3. /\ \A d \in CallFrame : AddrKept(d)
      /\ caller_addr' \in [CallFrame -> Frame \cup VM \cup {None}]
  BY <1>1, PoppedAddrs
<1>4. bci[Current] = Top.frame
  BY <1>1 DEF PlaceFacts, PlacesInv, RunsOwnCode
<1> QED BY <1>1, <1>2, <1>3, <1>4, PlacesStay

\* A call that cannot be made leaves its call frame free.
LEMMA RaiseInCallPlaces ==
  ASSUME PlaceFacts, NEW e \in Exception, RaiseInCall(e)
  PROVE  PlacesInv'
<1>1. /\ mode = "run" /\ PopCallFrames(Current, 1) /\ stack_frames' = stack_frames
      /\ runs' = runs /\ bci' = bci /\ pre_call_bci' = pre_call_bci /\ Current \in VM
  BY DEF RaiseInCall, AtCall, PlaceFacts
<1>2. L' = L /\ SameBelow(L)
  BY <1>1 DEF L, SameBelow
<1>3. /\ \A d \in CallFrame : AddrKept(d)
      /\ caller_addr' \in [CallFrame -> Frame \cup VM \cup {None}]
  BY <1>1, PoppedAddrs
<1>4. bci[Current] = Top.frame
  BY <1>1 DEF PlaceFacts, PlacesInv, RunsOwnCode
<1> QED BY <1>1, <1>2, <1>3, <1>4, PlacesStay

\* No frame, no call frame and no run changes.
LEMMA NothingMoves ==
  ASSUME PlaceFacts, UNCHANGED <<stack_frames, calls, runs, places>>,
         mode' \in {"run", "again", "throw"} => bci[Current] = Top.frame
  PROVE  PlacesInv'
<1>1. /\ L' = L /\ SameBelow(L) /\ runs' = runs /\ bci' = bci /\ pre_call_bci' = pre_call_bci
      /\ caller_addr' = caller_addr /\ calls' = calls
  BY DEF L, SameBelow, places
<1>2. /\ \A d \in CallFrame : AddrKept(d)
      /\ caller_addr' \in [CallFrame -> Frame \cup VM \cup {None}]
  BY <1>1 DEF AddrKept, PlaceFacts, PlacesInv, PlacesTyped
<1> QED BY <1>1, <1>2, PlacesStay

\* Where a finally block runs, the exception came out of no call: a try around
\* a call handles everything.
LEMMA RunFinallyPlaces ==
  ASSUME PlaceFacts, RunFinally
  PROVE  PlacesInv'
<1>1. /\ mode = "throw" /\ tries[TopFrame] # <<>> /\ (~InCatch => Handlers = {})
      /\ UNCHANGED <<stack_frames, calls, runs, places>>
  BY DEF RunFinally
<1>2. ~CatchesAll(Top.frame)
  <2> SUFFICES ASSUME CatchesAll(Top.frame) PROVE FALSE
    OBVIOUS
  <2>1. /\ tries[TopFrame] \in Seq(Try) /\ Len(tries[TopFrame]) <= 1
        /\ stack_frames[L].frame = TopFrame /\ Structure
    BY DEF PlaceFacts, StacksTyped, TriesInv, TriesOfStack
  <2>2. Len(tries[TopFrame]) = 1
    <3>1. Len(tries[TopFrame]) \in Nat \ {0}
      BY <1>1, <2>1, SequenceLen
    <3>2. \A k \in Nat \ {0} : k <= 1 => k = 1
      OBVIOUS
    <3> QED BY <2>1, <3>1, <3>2
  <2>3. Last(tries[TopFrame]) = tries[TopFrame][1] /\ ~tries[TopFrame][1].caught
        /\ tries[TopFrame][1].handles = Exception
    BY <2>2 DEF CatchesAll, Last, PlaceFacts
  <2>4. raised \in Exception
    BY <1>1 DEF PlaceFacts, StacksTyped
  <2>5. L \in Visible(Current)
    <3>1. L \in Base .. L
      BY DEF PlaceFacts, Structure
    <3> QED BY <2>1, <3>1, TopVisible
  <2>6. L \in Handlers
    BY <1>1, <2>1, <2>3, <2>4, <2>5 DEF Handlers
  <2>7. ~InCatch
    BY <2>3 DEF InCatch
  <2> QED BY <1>1, <2>6, <2>7
<1>3. bci[Current] = Top.frame
  BY <1>1, <1>2 DEF PlaceFacts, PlacesInv, RunsOwnCode
<1> QED BY <1>1, <1>3, NothingMoves

\* The other opcodes of statements and tries, and the end of the program.
LEMMA QuietPlaces ==
  ASSUME PlaceFacts,
         \/ (\E handled \in SUBSET Exception : PushTry(handled)) \/ PopTry \/ EndCode
         \/ (\E e \in Exception : Raise(e)) \/ Again \/ EndProgram
  PROVE  PlacesInv'
<1>1. /\ UNCHANGED <<stack_frames, calls, runs, places>>
      /\ mode \in {"run", "again"} \/ mode' \in {"end", "done"}
  BY DEF PushTry, PopTry, EndCode, Raise, Again, EndProgram, AtStatement
<1>2. mode \in {"run", "again"} => bci[Current] = Top.frame
  BY DEF PlaceFacts, PlacesInv, RunsOwnCode
<1> QED BY <1>1, <1>2, NothingMoves

-----------------------------------------------------------------------------
(* A frame of the same run is pushed or popped.                            *)

\* A new frame f, with the call frame c, which goes on where the caller was.
LEMMA FramePlaced ==
  ASSUME PlaceFacts, mode = "run", NEW f \in Frame, NEW c \in CallFrame \cup {None},
         NEW s \in Seq(StackFrame), PushFrames(Current, <<f>>, c, s), Len(s) = L,
         \A i \in 1 .. L : /\ s[i].frame = stack_frames[i].frame /\ s[i].vm = stack_frames[i].vm
                           /\ s[i].call_frame = stack_frames[i].call_frame,
         SetBci(Current, f), runs' = runs, pre_call_bci' = pre_call_bci,
         \A d \in CallFrame : AddrKept(d), caller_addr' \in [CallFrame -> Frame \cup VM \cup {None}],
         c # None => caller_addr'[c] = Top.frame
  PROVE  PlacesInv'
<1>0. StacksTyped /\ Current \in VM /\ f \in Frame \cup VM
  BY DEF PlaceFacts
<1>1. stack_frames' = Append(s, NewFrame(f, Current, c)) /\ NewFrame(f, Current, c).frame = f
      /\ NewFrame(f, Current, c).call_frame = c
  BY <1>0, PushFrameIs
<1> PICK n \in Nat, k \in Nat : n = L /\ k = n + 1
  BY DEF PlaceFacts
<1>2. /\ L' = k /\ stack_frames'[k].frame = f /\ stack_frames'[k].call_frame = c
      /\ \A i \in 1 .. n : stack_frames'[i] = s[i]
  <2>1. \A x : Len(Append(s, x)) = Len(s) + 1 /\ Append(s, x)[Len(s) + 1] = x
               /\ \A i \in 1 .. Len(s) : Append(s, x)[i] = s[i]
    BY IsSequenceOf, SequenceAppended
  <2> QED BY <1>1, <2>1 DEF L
<1>3. SameBelow(n)
  BY <1>2 DEF SameBelow
<1>4. RunsKept /\ Current' = Current /\ Len(pre_call_bci') = Len(runs')
  BY RunsSame
<1>5. /\ bci' \in [VM -> Frame \cup VM \cup {None}]
      /\ bci'[Current] = f /\ \A v \in VM : v # Current => bci'[v] = bci[v]
  BY BciSet DEF PlaceFacts
<1>6. NotesKept
  BY <1>4, <1>5 DEF NotesKept
<1>7. PlacesTyped'
  BY <1>5 DEF PlaceFacts, PlacesInv, PlacesTyped
<1>8. RunsOwnCode'
  <2>1. Top'.frame = f
    BY <1>2 DEF PlaceFacts
  <2> QED BY <1>4, <1>5, <2>1 DEF RunsOwnCode
<1>9. ASSUME NEW i \in 2 .. L', i > n PROVE ReturnsTo(i)' /\ GoesOn(i)'
  <2>1. i = k /\ i - 1 = n /\ n \in 1 .. n
    BY <1>2, <1>9 DEF PlaceFacts
  <2>2. stack_frames'[i - 1].frame = Top.frame
    BY <1>3, <2>1 DEF SameBelow, PlaceFacts
  <2>3. ReturnsTo(i)'
    BY <1>2, <2>1, <2>2 DEF ReturnsTo
  <2>4. ~IsBase(i)'
    BY <1>2, <2>1, CallStackAssumption DEF IsBase
  <2> QED BY <2>3, <2>4 DEF GoesOn
<1>10. n <= L /\ n <= L'
  BY <1>2
<1> QED BY <1>3, <1>4, <1>6, <1>7, <1>8, <1>9, <1>10, PlacesSet

\* The body of a class begins, in a frame without a call frame.
LEMMA BeginClassPlaces ==
  ASSUME PlaceFacts, NEW f \in Frame, BeginClass(f)
  PROVE  PlacesInv'
<1>1. /\ mode = "run" /\ PushFrames(Current, <<f>>, None, stack_frames) /\ SetBci(Current, f)
      /\ runs' = runs /\ pre_call_bci' = pre_call_bci /\ caller_addr' = caller_addr /\ calls' = calls
  BY DEF BeginClass, AtStatement
<1>2. /\ \A d \in CallFrame : AddrKept(d)
      /\ caller_addr' \in [CallFrame -> Frame \cup VM \cup {None}]
  BY <1>1 DEF AddrKept, PlaceFacts, PlacesInv, PlacesTyped
<1>3. stack_frames \in Seq(StackFrame) /\ Len(stack_frames) = L
  BY DEF PlaceFacts
<1> QED BY <1>1, <1>2, <1>3, FramePlaced

\* What a Call notes in its call frame.
LEMMA CallerNoted ==
  ASSUME PlaceFacts, AtCall, SetCallerAddr, calls' = [calls EXCEPT ![TopCall] = "inner"]
                                            \/ calls' = [calls EXCEPT ![TopCall] = "outer"]
  PROVE  /\ TopCall \in CallFrame /\ Front(Top.open) \in Seq(CallFrame)
         /\ \A d \in CallFrame : AddrKept(d)
         /\ caller_addr' \in [CallFrame -> Frame \cup VM \cup {None}]
         /\ caller_addr'[TopCall] = Top.frame /\ bci[Current] = Top.frame
<1>1. mode = "run" /\ IInv
  BY DEF AtCall, PlaceFacts
<1> PICK H \in Heights, hang \in BOOLEAN, n \in Nat : Given(H, hang, n)
  BY <1>1, GivenHolds
<1> PICK l \in Nat, top \in Nat : RunningNow(H, hang, n, l, top)
  BY <1>1, RunningIs
<1>2. TopCall \in CallFrame /\ calls[TopCall] = "pending" /\ Front(Top.open) \in Seq(CallFrame)
  <2>1. AtCallFacts(n, l, top)
    BY AtCallIs
  <2>2. Top = stack_frames[n]
    BY DEF RunningNow
  <2> QED BY <2>1, <2>2 DEF AtCallFacts
<1>3. bci[Current] = Top.frame
  BY <1>1 DEF PlaceFacts, PlacesInv, RunsOwnCode
<1>4. /\ caller_addr' \in [CallFrame -> Frame \cup VM \cup {None}]
      /\ caller_addr'[TopCall] = Top.frame
      /\ \A d \in CallFrame : d # TopCall => caller_addr'[d] = caller_addr[d]
  <2>1. caller_addr \in [CallFrame -> Frame \cup VM \cup {None}] /\ Top.frame \in Frame \cup VM \cup {None}
    BY DEF PlaceFacts, PlacesInv, PlacesTyped
  <2> QED BY <1>2, <1>3, <2>1 DEF SetCallerAddr
<1>5. \A d \in CallFrame : d # TopCall => calls'[d] = calls[d]
  BY DEF PlaceFacts, StacksTyped
<1>6. \A d \in CallFrame : AddrKept(d)
  BY <1>1, <1>2, <1>4, <1>5 DEF AddrKept, Running
<1> QED BY <1>2, <1>3, <1>4, <1>6

\* A call of a function notes the place of the caller, which is its frame.
LEMMA CallFunctionPlaces ==
  ASSUME PlaceFacts, NEW f \in Frame, CallFunction(f)
  PROVE  PlacesInv'
<1>1. /\ mode = "run" /\ AtCall
      /\ PushFrames(Current, <<f>>, TopCall, WithOpen(stack_frames, Front(Top.open)))
      /\ calls' = [calls EXCEPT ![TopCall] = "inner"] /\ SetCallerAddr /\ SetBci(Current, f)
      /\ runs' = runs /\ pre_call_bci' = pre_call_bci
  BY DEF CallFunction, AtCall
<1>2. /\ TopCall \in CallFrame /\ Front(Top.open) \in Seq(CallFrame)
      /\ \A d \in CallFrame : AddrKept(d)
      /\ caller_addr' \in [CallFrame -> Frame \cup VM \cup {None}]
      /\ caller_addr'[TopCall] = Top.frame
  BY <1>1, CallerNoted
<1>3. stack_frames \in Seq(StackFrame) /\ stack_frames # <<>> /\ Len(stack_frames) = L
  BY DEF PlaceFacts
<1>4. PICK s \in Seq(StackFrame) : s = WithOpen(stack_frames, Front(Top.open))
  BY <1>2, <1>3, WithOpenIs
<1>5. Len(s) = L /\ \A i \in 1 .. L : /\ s[i].frame = stack_frames[i].frame /\ s[i].vm = stack_frames[i].vm
                                       /\ s[i].call_frame = stack_frames[i].call_frame
  BY <1>3, <1>4, WithOpenShape
<1>6. PushFrames(Current, <<f>>, TopCall, s) /\ TopCall \in CallFrame \cup {None}
  BY <1>1, <1>2, <1>4
<1> QED BY <1>1, <1>2, <1>5, <1>6, FramePlaced

\* The top frame goes, and the VM that runs is in the code of the next one.
LEMMA TopPopped ==
  ASSUME PlaceFacts, ~IsBase(L), stack_frames' = StackWithout(1),
         runs' = runs, pre_call_bci' = pre_call_bci, NEW f \in Frame \cup VM \cup {None},
         SetBci(Current, f), \A d \in CallFrame : AddrKept(d),
         caller_addr' \in [CallFrame -> Frame \cup VM \cup {None}],
         mode' # "end" => f = stack_frames[L - 1].frame, mode' \in {"run", "end"}
  PROVE  PlacesInv'
<1>1. L \in Nat \ {0, 1} /\ 1 \in 0 .. L
  BY DEF PlaceFacts, Structure, StackInv, RunsOnStack
<1> PICK k \in Nat : k = L - 1
  BY <1>1
<1>2. L' = k /\ \A i \in 1 .. k : stack_frames'[i] = stack_frames[i]
  BY <1>1, StackWithoutIs DEF L, PlaceFacts
<1>3. SameBelow(k) /\ k <= L /\ k <= L' /\ \A i \in 2 .. L' : ~(i > k)
  BY <1>1, <1>2 DEF SameBelow
<1>4. RunsKept /\ Current' = Current /\ Len(pre_call_bci') = Len(runs')
  BY RunsSame
<1>5. /\ bci' \in [VM -> Frame \cup VM \cup {None}]
      /\ bci'[Current] = f /\ \A v \in VM : v # Current => bci'[v] = bci[v]
  BY BciSet DEF PlaceFacts
<1>6. NotesKept
  BY <1>4, <1>5 DEF NotesKept
<1>7. PlacesTyped'
  BY <1>5 DEF PlaceFacts, PlacesInv, PlacesTyped
<1>8. RunsOwnCode'
  <2>1. Top' = stack_frames[L - 1]
    <3>1. k \in 1 .. k
      BY <1>1
    <3> QED BY <1>2, <3>1 DEF PlaceFacts
  <2> QED BY <1>4, <1>5, <2>1 DEF RunsOwnCode
<1> QED BY <1>3, <1>4, <1>6, <1>7, <1>8, PlacesSet

\* The body of a class ends, and the code around it goes on.
LEMMA EndClassPlaces ==
  ASSUME PlaceFacts, EndClass
  PROVE  PlacesInv'
<1>1. /\ mode = "run" /\ mode' = "run" /\ Top.frame \in Frame /\ stack_frames' = StackWithout(1)
      /\ SetBci(Current, Last(StackWithout(1)).frame)
      /\ runs' = runs /\ pre_call_bci' = pre_call_bci /\ caller_addr' = caller_addr /\ calls' = calls
  BY DEF EndClass, AtStatement
<1>2. ~IsBase(L)
  BY <1>1, CallStackAssumption DEF IsBase, PlaceFacts
<1>3. /\ \A d \in CallFrame : AddrKept(d)
      /\ caller_addr' \in [CallFrame -> Frame \cup VM \cup {None}]
  BY <1>1 DEF AddrKept, PlaceFacts, PlacesInv, PlacesTyped
<1>4. Last(StackWithout(1)).frame = stack_frames[L - 1].frame /\ stack_frames[L - 1].frame \in Frame \cup VM
  <2>1. L \in Nat \ {0, 1} /\ 1 \in 0 .. L /\ L - 1 \in 1 .. L - 1 /\ L - 1 \in 1 .. L
    BY <1>2 DEF PlaceFacts, Structure, StackInv, RunsOnStack
  <2>2. Len(StackWithout(1)) = L - 1 /\ StackWithout(1)[L - 1] = stack_frames[L - 1]
    BY <2>1, StackWithoutIs DEF PlaceFacts
  <2>3. stack_frames[L - 1] \in StackFrame
    BY <2>1 DEF PlaceFacts, Structure
  <2> QED BY <2>2, <2>3 DEF Last, StackFrame
<1>5. stack_frames[L - 1].frame \in Frame \cup VM \cup {None} /\ SetBci(Current, stack_frames[L - 1].frame)
  BY <1>1, <1>4
<1> QED BY <1>1, <1>2, <1>3, <1>5, TopPopped

\* A Return goes on where the caller of its own function was.
LEMMA ReturnPlaces ==
  ASSUME PlaceFacts, Return
  PROVE  PlacesInv'
<1>1. /\ mode = "run" /\ ~InCall /\ Top.call_frame # None /\ IInv /\ Current \in VM
      /\ stack_frames' = StackWithout(1) /\ runs' = runs /\ pre_call_bci' = pre_call_bci
  BY DEF Return, AtStatement, PlaceFacts
<1> PICK H \in Heights, hang \in BOOLEAN, n \in Nat, k \in Nat, top \in Nat, c \in CallFrame :
           ReturnFacts(H, hang, n, k, top, c)
  BY <1>1, ReturnIs
<1>2. /\ ~IsBase(L) /\ c = stack_frames[L].call_frame /\ TopCall = c
      /\ L \in 2 .. L /\ calls[c] \in {"outer", "inner"}
  BY DEF ReturnFacts
<1>3. /\ caller_addr \in [CallFrame -> Frame \cup VM \cup {None}]
      /\ calls \in [CallFrame -> CallState] /\ ReturnsTo(L) /\ c # None
  BY <1>1, <1>2, CallStackAssumption DEF PlaceFacts, PlacesInv, PlacesTyped, StacksTyped
<1>4. CASE EndsRun(TopCall)
  <2>1. /\ calls' = [calls EXCEPT ![c] = "returned"] /\ mode' = "end"
        /\ SetBci(Current, None) /\ caller_addr' = caller_addr /\ calls[c] = "outer"
    BY <1>2, <1>4 DEF Return, EndsRun
  <2>2. \A d \in CallFrame : AddrKept(d)
    BY <1>3, <2>1 DEF AddrKept
  <2> QED BY <1>1, <1>2, <1>3, <2>1, <2>2, TopPopped
<1>5. CASE ~EndsRun(TopCall)
  <2>1. PopCallFrames(Current, 1) /\ SetBci(Current, caller_addr[c]) /\ mode' = "run"
        /\ calls[c] = "inner"
    BY <1>1, <1>2, <1>5 DEF Return, EndsRun
  <2>2. /\ \A d \in CallFrame : AddrKept(d)
        /\ caller_addr' \in [CallFrame -> Frame \cup VM \cup {None}]
    BY <1>1, <2>1, PoppedAddrs
  <2>3. caller_addr[c] = stack_frames[L - 1].frame /\ caller_addr[c] \in Frame \cup VM \cup {None}
    BY <1>2, <1>3, <2>1 DEF ReturnsTo
  <2> QED BY <1>1, <1>2, <2>1, <2>2, <2>3, TopPopped
<1> QED BY <1>4, <1>5

-----------------------------------------------------------------------------
(* Runs start.                                                             *)

\* A run of m starts with n frames on the stack, p is what it puts back: its
\* caller is gone on with where it was.
LEMMA RunPlaced ==
  ASSUME PlaceFacts, mode = "run", mode' = "run", NEW m \in VM, NEW kind \in {"import", "call", "native"},
         NEW c \in CallFrame \cup {None}, NEW f \in Frame \cup VM, NEW p \in Frame \cup VM \cup {None},
         NEW n \in Nat, n = L, SameBelow(n), L' = IF kind = "import" THEN n + 1 ELSE n + 2,
         stack_frames'[n + 1].frame = m, stack_frames'[n + 1].call_frame = None,
         kind # "import" => /\ f \in Frame /\ stack_frames'[n + 2].frame = f
                            /\ stack_frames'[n + 2].call_frame = c /\ calls'[c] = "outer",
         runs' = Append(runs, [vm |-> m, kind |-> kind, call_frame |-> c]),
         pre_call_bci' = Append(pre_call_bci, p), SetBci(m, f),
         \A d \in CallFrame : AddrKept(d), caller_addr' \in [CallFrame -> Frame \cup VM \cup {None}],
         \A k \in 2 .. Len(runs) : KeepsNoPlace(k) => runs[k - 1].vm # m,
         kind = "import" => f = m, kind # "native" => m # Current,
         kind = "call" => caller_addr'[c] = Top.frame,
         kind # "call" /\ m = Current => p = Top.frame
  PROVE  PlacesInv'
<1> DEFINE a == [vm |-> m, kind |-> kind, call_frame |-> c]
<1>1. n \in Nat \ {0} /\ Len(runs) \in Nat \ {0} /\ Structure /\ bci[Current] = Top.frame
      /\ Top = stack_frames[n] /\ n \in 1 .. n
  BY DEF PlaceFacts, PlacesInv, RunsOwnCode
<1> PICK R \in Nat, n1 \in Nat, n2 \in Nat : R = Len(runs) /\ n1 = n + 1 /\ n2 = n + 2
  BY <1>1
<1>2. /\ Len(runs') = R + 1 /\ runs'[R + 1] = a /\ \A j \in 1 .. R : runs'[j] = runs[j]
  BY DEF PlaceFacts, StacksTyped
<1>3. /\ Len(pre_call_bci') = R + 1 /\ pre_call_bci'[R + 1] = p
      /\ \A j \in 1 .. R : pre_call_bci'[j] = pre_call_bci[j]
      /\ pre_call_bci' \in Seq(Frame \cup VM \cup {None})
  <2>1. pre_call_bci \in Seq(Frame \cup VM \cup {None}) /\ Len(pre_call_bci) = R
    BY DEF PlaceFacts, PlacesInv, PlacesTyped
  <2> QED BY <2>1
<1>4. Current' = m
  BY <1>2 DEF Current, Last
<1>5. RunsKept
  <2> SUFFICES ASSUME NEW j \in 1 .. R + 1
               PROVE  IF j <= R THEN runs'[j] = runs[j] /\ pre_call_bci'[j] = pre_call_bci[j]
                      ELSE \A k \in 2 .. R : KeepsNoPlace(k) => runs[k - 1].vm # runs'[j].vm
    BY <1>2 DEF RunsKept
  <2>1. CASE j <= R
    BY <1>2, <1>3, <2>1
  <2>2. CASE ~(j <= R)
    <3>1. j = R + 1
      BY <2>2
    <3> QED BY <1>2, <2>2, <3>1
  <2> QED BY <2>1, <2>2
<1>6. /\ bci' \in [VM -> Frame \cup VM \cup {None}]
      /\ bci'[m] = f /\ \A v \in VM : v # m => bci'[v] = bci[v]
  BY BciSet
<1>7. NotesKept
  BY <1>4, <1>5, <1>6 DEF NotesKept
<1>8. PlacesTyped'
  BY <1>3, <1>6 DEF PlacesTyped
<1>9. RunsOwnCode'
  <2>1. Top'.frame = f
    <3>1. Top' = stack_frames'[L']
      BY DEF PlaceFacts
    <3> QED BY <3>1
  <2> QED BY <1>4, <1>6, <2>1 DEF RunsOwnCode
<1>10. IsBase(n1)' /\ RunOf(n1)' = R + 1
  <2>1. IsBase(n1)'
    BY DEF IsBase
  <2>2. RunOf(n1)' = RunOf(n1 - 1)' + 1
    BY <1>1, <2>1, CountsNext DEF RunFacts
  <2>3. RunOf(n)' = RunOf(n) /\ RunOf(n) = R
    <3>1. n \in 0 .. n /\ n \in 1 .. L /\ L \in 1 .. L
      BY <1>1
    <3>2. RunOf(n)' = RunOf(n)
      BY <3>1, CountsBelow
    <3>3. RunOf(L) = Len(runs)
      BY <3>1 DEF PlaceFacts, StackInv, RunsOnStack, L
    <3> QED BY <3>2, <3>3
  <2>4. n1 - 1 = n
    OBVIOUS
  <2> QED BY <2>1, <2>2, <2>3, <2>4
<1>11. ReturnsTo(n1)' /\ GoesOn(n1)'
  <2>1. ReturnsTo(n1)'
    BY DEF ReturnsTo
  <2>2. stack_frames'[n1 - 1].frame = Top.frame /\ (R + 1) - 1 = R /\ R \in 1 .. R
    <3>1. n1 - 1 = n
      OBVIOUS
    <3> QED BY <1>1, <3>1 DEF SameBelow
  <2>3. runs'[R].vm = Current /\ runs'[R + 1] = a /\ a.kind = kind /\ a.vm = m /\ a.call_frame = c
    BY <1>1, <1>2, <2>2 DEF Current, Last
  <2>4. kind # "call" => IF Current = m THEN p = Top.frame
                         ELSE /\ bci'[Current] = Top.frame
                              /\ \A j \in R + 1 .. Len(runs') : runs'[j].vm # Current
    <3>1. \A j \in R + 1 .. Len(runs') : j = R + 1
      BY <1>2
    <3>2. Current \in VM
      BY DEF PlaceFacts
    <3> QED BY <1>1, <1>6, <2>3, <3>1, <3>2
  <2> HIDE DEF a
  <2> QED BY <1>2, <1>3, <1>10, <2>1, <2>2, <2>3, <2>4 DEF GoesOn, Noted
<1>12. kind # "import" => ReturnsTo(n2)' /\ GoesOn(n2)'
  <2> SUFFICES ASSUME kind # "import" PROVE ReturnsTo(n2)' /\ GoesOn(n2)'
    OBVIOUS
  <2>1. ~IsBase(n2)'
    BY CallStackAssumption DEF IsBase
  <2>2. ReturnsTo(n2)'
    BY DEF ReturnsTo
  <2> QED BY <2>1, <2>2 DEF GoesOn
<1>13. \A i \in 2 .. L' : i > n => ReturnsTo(i)' /\ GoesOn(i)'
  <2> TAKE i \in 2 .. L'
  <2> HAVE i > n
  <2>1. i = n1 \/ (i = n2 /\ kind # "import")
    OBVIOUS
  <2> QED BY <1>11, <1>12, <2>1
<1> QED BY <1>2, <1>3, <1>7, <1>8, <1>9, <1>13, PlacesSet

\* The base of a run and its function are pushed.
LEMMA TwoPushed ==
  ASSUME PlaceFacts, NEW m \in VM, NEW f \in Frame, NEW c \in CallFrame,
         PushFrames(m, <<m, f>>, c, stack_frames), NEW n \in Nat, n = L
  PROVE  /\ SameBelow(n) /\ L' = n + 2
         /\ stack_frames'[n + 1].frame = m /\ stack_frames'[n + 1].call_frame = None
         /\ stack_frames'[n + 2].frame = f /\ stack_frames'[n + 2].call_frame = c
<1>1. StacksTyped /\ f \in Frame \cup VM /\ stack_frames \in Seq(StackFrame) /\ Len(stack_frames) = n
  BY DEF PlaceFacts
<1> PICK s : s = Append(stack_frames, NewFrame(m, m, None))
  OBVIOUS
<1>2. stack_frames' = Append(s, NewFrame(f, m, c))
  BY <1>1, PushTwoFramesAre
<1>3. /\ IsSequence(s) /\ Len(s) = n + 1 /\ s[n + 1] = NewFrame(m, m, None)
      /\ \A i \in 1 .. n : s[i] = stack_frames[i]
  BY <1>1, IsSequenceOf, SequenceAppended
<1>4. /\ Len(stack_frames') = (n + 1) + 1 /\ stack_frames'[(n + 1) + 1] = NewFrame(f, m, c)
      /\ \A i \in 1 .. n + 1 : stack_frames'[i] = s[i]
  BY <1>2, <1>3, SequenceAppended
<1>5. (n + 1) + 1 = n + 2 /\ n + 1 \in 1 .. n + 1 /\ \A i \in 1 .. n : i \in 1 .. n + 1
  OBVIOUS
<1> QED BY <1>3, <1>4, <1>5 DEF NewFrame, SameBelow, L

\* A call of a function of another VM: the caller has noted its place.
LEMMA CallModulePlaces ==
  ASSUME PlaceFacts, NEW m \in VM, NEW f \in Frame, CallModule(m, f)
  PROVE  PlacesInv'
<1>1. /\ mode = "run" /\ mode' = "run" /\ AtCall /\ m # Current /\ MayStart(m)
      /\ PushFrames(m, <<m, f>>, TopCall, stack_frames)
      /\ calls' = [calls EXCEPT ![TopCall] = "outer"] /\ SetCallerAddr /\ SetBci(m, f)
      /\ runs' = Append(runs, [vm |-> m, kind |-> "call", call_frame |-> TopCall])
      /\ pre_call_bci' = Append(pre_call_bci, None)
  BY DEF CallModule, AtCall
<1>2. /\ TopCall \in CallFrame /\ \A d \in CallFrame : AddrKept(d)
      /\ caller_addr' \in [CallFrame -> Frame \cup VM \cup {None}]
      /\ caller_addr'[TopCall] = Top.frame
  BY <1>1, CallerNoted
<1>3. calls'[TopCall] = "outer"
  BY <1>1, <1>2 DEF PlaceFacts, StacksTyped
<1> PICK n \in Nat : n = L
  BY DEF PlaceFacts
<1>4. /\ SameBelow(n) /\ L' = n + 2
      /\ stack_frames'[n + 1].frame = m /\ stack_frames'[n + 1].call_frame = None
      /\ stack_frames'[n + 2].frame = f /\ stack_frames'[n + 2].call_frame = TopCall
  BY <1>1, <1>2, TwoPushed
<1>5. \A k \in 2 .. Len(runs) : KeepsNoPlace(k) => runs[k - 1].vm # m
  BY <1>1 DEF MayStart, PlaceFacts, WorkingFeatures
<1> PICK c \in CallFrame \cup {None} : c = TopCall
  BY <1>2
<1> PICK kind \in {"import", "call", "native"} : kind = "call"
  OBVIOUS
<1> PICK p \in Frame \cup VM \cup {None} : p = None
  OBVIOUS
<1>6. kind # "import" /\ kind # "native" /\ f \in Frame \cup VM
  OBVIOUS
<1>7. /\ runs' = Append(runs, [vm |-> m, kind |-> kind, call_frame |-> c])
      /\ pre_call_bci' = Append(pre_call_bci, p) /\ SetBci(m, f) /\ mode = "run" /\ mode' = "run"
      /\ calls'[c] = "outer" /\ stack_frames'[n + 2].call_frame = c /\ caller_addr'[c] = Top.frame
      /\ m # Current
  BY <1>1, <1>2, <1>3, <1>4
<1> QED BY <1>2, <1>4, <1>5, <1>6, <1>7, RunPlaced

\* A callback: its starter keeps the place if the VM is the same, and nobody
\* may run the starter otherwise.
LEMMA CallBackPlaces ==
  ASSUME PlaceFacts, NEW m \in VM, NEW f \in Frame, NEW c \in CallFrame, CallBack(m, f, c)
  PROVE  PlacesInv'
<1>1. /\ mode = "run" /\ mode' = "run" /\ MayStart(m) /\ calls[c] = "free"
      /\ PushFrames(m, <<m, f>>, c, stack_frames)
      /\ calls' = [calls EXCEPT ![c] = "outer"] /\ caller_addr' = caller_addr /\ SetBci(m, f)
      /\ runs' = Append(runs, [vm |-> m, kind |-> "native", call_frame |-> c])
      /\ pre_call_bci' = Append(pre_call_bci, IF m = Current THEN bci[Current] ELSE None)
  BY DEF CallBack, FreshCall
<1>2. /\ \A d \in CallFrame : AddrKept(d)
      /\ caller_addr' \in [CallFrame -> Frame \cup VM \cup {None}] /\ calls'[c] = "outer"
  BY <1>1 DEF AddrKept, PlaceFacts, PlacesInv, PlacesTyped, StacksTyped, Running
<1>3. bci[Current] = Top.frame /\ Top.frame \in Frame \cup VM
  BY <1>1 DEF PlaceFacts, PlacesInv, RunsOwnCode
<1> PICK n \in Nat : n = L
  BY DEF PlaceFacts
<1>4. /\ SameBelow(n) /\ L' = n + 2
      /\ stack_frames'[n + 1].frame = m /\ stack_frames'[n + 1].call_frame = None
      /\ stack_frames'[n + 2].frame = f /\ stack_frames'[n + 2].call_frame = c
  BY <1>1, TwoPushed
<1>5. \A k \in 2 .. Len(runs) : KeepsNoPlace(k) => runs[k - 1].vm # m
  BY <1>1 DEF MayStart, PlaceFacts, WorkingFeatures
<1>6. c \in CallFrame \cup {None} /\ f \in Frame \cup VM
  OBVIOUS
<1> PICK p \in Frame \cup VM \cup {None} : p = IF m = Current THEN bci[Current] ELSE None
  BY <1>3
<1>7. pre_call_bci' = Append(pre_call_bci, p) /\ (m = Current => p = Top.frame)
  BY <1>1, <1>3
<1> PICK kind \in {"import", "call", "native"} : kind = "native"
  OBVIOUS
<1>8. /\ runs' = Append(runs, [vm |-> m, kind |-> kind, call_frame |-> c])
      /\ mode = "run" /\ mode' = "run" /\ kind # "import" /\ kind # "call" /\ SetBci(m, f)
  BY <1>1
<1> QED BY <1>2, <1>4, <1>5, <1>6, <1>7, <1>8, RunPlaced

\* The VM of a new module has not run yet.
LEMMA ImportPlaces ==
  ASSUME PlaceFacts, NEW m \in VM, Import(m)
  PROVE  PlacesInv'
<1> DEFINE e == [frame |-> m, vm |-> m, call_frame |-> None, open |-> <<>>]
<1>1. /\ mode = "run" /\ mode' = "run" /\ m \notin loaded /\ stack_frames' = Append(stack_frames, e)
      /\ runs' = Append(runs, [vm |-> m, kind |-> "import", call_frame |-> None])
      /\ SetBci(m, m) /\ pre_call_bci' = Append(pre_call_bci, None)
      /\ calls' = calls /\ caller_addr' = caller_addr
  BY DEF Import, AtStatement
<1>2. /\ \A d \in CallFrame : AddrKept(d)
      /\ caller_addr' \in [CallFrame -> Frame \cup VM \cup {None}]
  BY <1>1 DEF AddrKept, PlaceFacts, PlacesInv, PlacesTyped
<1> PICK n \in Nat : n = L
  BY DEF PlaceFacts
<1>3. stack_frames \in Seq(StackFrame) /\ Len(stack_frames) = n
  BY DEF PlaceFacts
<1>4. /\ Len(stack_frames') = n + 1 /\ stack_frames'[n + 1] = e
      /\ \A i \in 1 .. n : stack_frames'[i] = stack_frames[i]
  <2> HIDE DEF e
  <2> QED BY <1>1, <1>3, IsSequenceOf, SequenceAppended
<1>5. /\ SameBelow(n) /\ L' = n + 1
      /\ stack_frames'[n + 1].frame = m /\ stack_frames'[n + 1].call_frame = None
  BY <1>4 DEF SameBelow, L
<1>6. \A k \in 1 .. Len(runs) : runs[k].vm # m
  BY <1>1 DEF PlaceFacts, StackInv, KindsOfRuns
<1>7. m # Current /\ \A k \in 2 .. Len(runs) : KeepsNoPlace(k) => runs[k - 1].vm # m
  <2>1. Len(runs) \in 1 .. Len(runs) /\ \A k \in 2 .. Len(runs) : k - 1 \in 1 .. Len(runs)
    BY DEF PlaceFacts
  <2> QED BY <1>6, <2>1 DEF Current, Last
<1>8. m \in Frame \cup VM /\ None \in CallFrame \cup {None} /\ None \in Frame \cup VM \cup {None}
      /\ "import" \in {"import", "call", "native"} /\ "import" # "call"
  OBVIOUS
<1> QED BY <1>1, <1>2, <1>5, <1>7, <1>8, RunPlaced

-----------------------------------------------------------------------------
(* Runs end.                                                               *)

\* The starter of a run that is over is the k-th frame, and what C++ code has
\* noted for it is its own place.
Over(k) ==
  /\ k \in Nat \ {0} /\ L = k + 1 /\ k < L /\ k \in 1 .. L /\ IsBase(L)
  /\ Len(runs) \in Nat \ {0, 1} /\ Caller \in VM
  /\ Last(runs).kind \in {"import", "call", "native"}
  /\ (Waits(k) <=> Last(runs).kind = "call")
  /\ stack_frames[k].frame \in Frame \cup VM
  /\ Last(runs).kind = "call" /\ mode = "end" =>
       caller_addr[Last(runs).call_frame] = stack_frames[k].frame
  /\ Last(runs).kind # "call" => Restored[Caller] = stack_frames[k].frame
  /\ Last(runs).kind = "import" => Restored = bci
  /\ Restored \in [VM -> Frame \cup VM \cup {None}]
  /\ \A v \in VM : v # Current => Restored[v] = bci[v]

\* The invariant gives this.
LEMMA OverIs ==
  ASSUME PlaceFacts, mode \in {"end", "leave"}, Last(runs).kind # "main"
  PROVE  \E k \in Nat : Over(k)
<1> PICK H \in Heights, hang \in BOOLEAN, n \in Nat, k \in Nat : EndFacts(H, hang, n, k)
  BY EndIs DEF PlaceFacts
<1> PICK R \in Nat : R = Len(runs)
  BY DEF PlaceFacts
<1>1. /\ k \in Nat \ {0} /\ L = k + 1 /\ k < L /\ k \in 1 .. L /\ L \in 2 .. L /\ L - 1 = k
      /\ IsBase(L) /\ RunOf(L) = R /\ R \in Nat \ {0, 1} /\ Caller \in VM
      /\ (Waits(k) <=> Last(runs).kind = "call")
  <2>1. /\ k \in Nat \ {0} /\ n = L /\ k + 1 = n /\ IsBase(n) /\ RunOf(n) = R /\ R \in Nat \ {0, 1}
        /\ Caller \in VM /\ (Waits(k) <=> Last(runs).kind = "call")
    BY DEF EndFacts, Given
  <2> QED BY <2>1
<1>2. /\ stack_frames[k].frame \in Frame \cup VM /\ Last(runs).kind \in {"import", "call", "native"}
      /\ R \in 1 .. R /\ Last(runs) = runs[R] /\ Last(runs) \in Activation
  <2>1. R \in 1 .. R
    BY <1>1
  <2>2. stack_frames[k] \in StackFrame /\ runs[R] \in Activation
    BY <1>1, <2>1 DEF PlaceFacts, Structure
  <2> QED BY <2>1, <2>2 DEF StackFrame, Activation, Last
<1>3. Noted(R, stack_frames[k].frame)
  BY <1>1 DEF PlaceFacts, PlacesInv, GoesOn
<1>4. bci \in [VM -> Frame \cup VM \cup {None}] /\ Current \in VM
      /\ Last(pre_call_bci) \in Frame \cup VM \cup {None} /\ Last(pre_call_bci) = pre_call_bci[R]
  <2>1. pre_call_bci \in Seq(Frame \cup VM \cup {None}) /\ Len(pre_call_bci) = R
    BY DEF PlaceFacts, PlacesInv, PlacesTyped
  <2>2. pre_call_bci[R] \in Frame \cup VM \cup {None}
    BY <1>2, <2>1
  <2> QED BY <2>1, <2>2 DEF PlaceFacts, PlacesInv, PlacesTyped, Last
<1>5. Restored \in [VM -> Frame \cup VM \cup {None}] /\ \A v \in VM : v # Current => Restored[v] = bci[v]
  BY <1>4 DEF Restored
<1>6. ASSUME Last(runs).kind = "call", mode = "end"
      PROVE  caller_addr[Last(runs).call_frame] = stack_frames[k].frame
  <2>1. Last(runs).call_frame # None
    BY <1>2, <1>6 DEF PlaceFacts, StackInv, KindsOfRuns, ForFunction
  <2>2. calls[Last(runs).call_frame] = "returned"
    BY <1>6, <2>1 DEF PlaceFacts, IInv, CallsHold, CallsInv, HeldCallFramesAlive
  <2> QED BY <1>2, <1>3, <1>6, <2>2 DEF Noted
<1>7. ASSUME Last(runs).kind # "call" PROVE Restored[Caller] = stack_frames[k].frame
  <2>1. Caller = runs[R - 1].vm /\ Current = runs[R].vm
    BY <1>2 DEF Caller, Current
  <2> QED BY <1>1, <1>2, <1>3, <1>4, <1>7, <2>1 DEF Noted, Restored
<1>8. ASSUME Last(runs).kind = "import" PROVE Restored = bci
  <2>1. R - 1 \in 1 .. R - 1
    BY <1>1
  <2>2. runs[R - 1].vm # runs[R].vm
    BY <1>2, <1>8, <2>1 DEF PlaceFacts, StackInv, KindsOfRuns, ForFunction
  <2> QED BY <1>2, <2>2 DEF Restored, Caller, Current
<1>9. Over(k)
  BY <1>1, <1>2, <1>5, <1>6, <1>7, <1>8 DEF Over
<1> QED BY <1>9

\* The run is over, and the starter goes on.
LEMMA RunEnded ==
  ASSUME PlaceFacts, NEW k \in Nat, Over(k), L' = k, SameBelow(k),
         runs' = Front(runs), pre_call_bci' = Front(pre_call_bci),
         \A c \in CallFrame : AddrKept(c), caller_addr' \in [CallFrame -> Frame \cup VM \cup {None}],
         bci' \in [VM -> Frame \cup VM \cup {None}],
         \A v \in VM : v # Caller /\ v # Current => bci'[v] = bci[v],
         mode' \in {"run", "throw"}, mode' = "run" => bci'[Caller] = stack_frames[k].frame,
         mode' = "throw" => \/ bci'[Caller] = stack_frames[k].frame
                            \/ tries' = tries /\ CatchesAll(stack_frames[k].frame)
  PROVE  PlacesInv'
<1> PICK R \in Nat, r \in Nat : R = Len(runs) /\ r = R - 1
  BY DEF PlaceFacts
<1>1. /\ Len(runs') = r /\ \A j \in 1 .. r : runs'[j] = runs[j]
      /\ R \in Nat \ {0, 1} /\ r \in 1 .. r
  <2>1. IsSequence(runs) /\ runs # <<>>
    BY IsSequenceOf DEF PlaceFacts, StacksTyped
  <2>2. R \in Nat \ {0, 1}
    BY DEF Over
  <2> QED BY <2>1, <2>2, SequenceFront DEF Front
<1>2. /\ Len(pre_call_bci') = r /\ \A j \in 1 .. r : pre_call_bci'[j] = pre_call_bci[j]
      /\ pre_call_bci' \in Seq(Frame \cup VM \cup {None})
  <2>1. pre_call_bci \in Seq(Frame \cup VM \cup {None}) /\ Len(pre_call_bci) = R
    BY DEF PlaceFacts, PlacesInv, PlacesTyped
  <2>2. r \in 0 .. Len(pre_call_bci) /\ Len(pre_call_bci) - 1 = r
    BY <1>1, <2>1
  <2> QED BY <2>1, <2>2, Prefix DEF Front
<1>3. Current' = Caller
  BY <1>1 DEF Current, Caller, Last
<1>4. RunsKept
  BY <1>1, <1>2 DEF RunsKept
<1>5. NotesKept
  BY <1>3, <1>4 DEF NotesKept
<1>6. PlacesTyped'
  BY <1>2 DEF PlacesTyped
<1>7. RunsOwnCode'
  <2>1. Top'.frame = stack_frames[k].frame
    <3>1. k \in 1 .. k
      BY DEF Over
    <3> QED BY <3>1 DEF PlaceFacts, SameBelow
  <2>2. tries' = tries => (CatchesAll(stack_frames[k].frame) => CatchesAll(stack_frames[k].frame)')
    <3> SUFFICES ASSUME tries' = tries, CatchesAll(stack_frames[k].frame)
                 PROVE  CatchesAll(stack_frames[k].frame)'
      OBVIOUS
    <3>1. stack_frames'[k].frame = stack_frames[k].frame
      BY DEF SameBelow, Over
    <3> QED BY <3>1 DEF CatchesAll
  <2> QED BY <1>3, <2>1, <2>2 DEF RunsOwnCode, CatchesAll
<1>8. k <= L /\ k <= L' /\ \A i \in 2 .. L' : ~(i > k)
  BY DEF Over
<1> QED BY <1>1, <1>2, <1>5, <1>6, <1>7, <1>8, PlacesSet

\* What is left of the stack.
LEMMA BasePopped ==
  ASSUME PlaceFacts, NEW k \in Nat, Over(k), NEW o,
         stack_frames' = StackWithout(1) \/ stack_frames' = WithOpen(StackWithout(1), o)
  PROVE  L' = k /\ SameBelow(k)
<1>1. 1 \in 0 .. L /\ L - 1 = k /\ StacksTyped /\ k # 0
  BY DEF Over, PlaceFacts
<1>2. /\ StackWithout(1) \in Seq(StackFrame) /\ Len(StackWithout(1)) = k
      /\ \A i \in 1 .. k : StackWithout(1)[i] = stack_frames[i]
  BY <1>1, StackWithoutIs
<1>3. CASE stack_frames' = StackWithout(1)
  BY <1>2, <1>3 DEF L, SameBelow
<1>4. CASE stack_frames' = WithOpen(StackWithout(1), o)
  <2> PICK s \in Seq(StackFrame) : s = StackWithout(1)
    BY <1>2
  <2>1. s # <<>> /\ WithOpen(s, o) \in Seq(StackFrame) /\ Len(s) = k
        /\ \A i \in 1 .. k : s[i] = stack_frames[i]
    BY <1>1, <1>2, <1>4 DEF PlaceFacts, StacksTyped
  <2> QED BY <1>4, <2>1, WithOpenShape DEF L, SameBelow
<1> QED BY <1>3, <1>4

\* The code of a module is over, and the importer is where it was.
LEMMA EndImportPlaces ==
  ASSUME PlaceFacts, EndImport
  PROVE  PlacesInv'
<1>1. /\ mode = "end" /\ mode' = "run" /\ Last(runs).kind = "import" /\ Last(runs).kind # "main"
      /\ stack_frames' = StackWithout(1) /\ runs' = Front(runs)
      /\ pre_call_bci' = Front(pre_call_bci)
      /\ calls' = calls /\ bci' = bci /\ caller_addr' = caller_addr
  BY DEF EndImport
<1> PICK k \in Nat : Over(k)
  BY <1>1, OverIs
<1>2. L' = k /\ SameBelow(k)
  BY <1>1, BasePopped
<1>3. /\ \A d \in CallFrame : AddrKept(d)
      /\ caller_addr' \in [CallFrame -> Frame \cup VM \cup {None}]
      /\ bci' \in [VM -> Frame \cup VM \cup {None}]
  BY <1>1 DEF AddrKept, PlaceFacts, PlacesInv, PlacesTyped
<1>4. bci'[Caller] = stack_frames[k].frame
  BY <1>1 DEF Over
<1> QED BY <1>1, <1>2, <1>3, <1>4, RunEnded

\* A call or a callback is over, and its starter goes on where it was.
LEMMA EndCallPlaces ==
  ASSUME PlaceFacts, EndCall
  PROVE  PlacesInv'
<1>1. /\ mode = "end" /\ mode' = "run" /\ Last(runs).kind # "main"
      /\ runs' = Front(runs) /\ pre_call_bci' = Front(pre_call_bci)
      /\ \/ stack_frames' = StackWithout(1)
         \/ stack_frames' = WithOpen(StackWithout(1), Front(Last(StackWithout(1)).open))
  BY DEF EndCall
<1> PICK k \in Nat : Over(k)
  BY <1>1, OverIs
<1>2. L' = k /\ SameBelow(k) /\ Caller \in VM
  BY <1>1, BasePopped DEF Over
<1>3. /\ \A d \in CallFrame : AddrKept(d)
      /\ caller_addr' \in [CallFrame -> Frame \cup VM \cup {None}]
  <2>1. CASE Caller # Current
    <3>1. PopCallFrames(Caller, 1)
      BY <2>1 DEF EndCall
    <3> QED BY <1>2, <3>1, PoppedAddrs
  <2>2. CASE Caller = Current
    <3>1. /\ calls' = [calls EXCEPT ![Last(runs).call_frame] = "free"]
          /\ caller_addr' = [caller_addr EXCEPT ![Last(runs).call_frame] = None]
      BY <2>2 DEF EndCall
    <3> QED BY <3>1 DEF AddrKept, PlaceFacts, PlacesInv, PlacesTyped, StacksTyped
  <2> QED BY <2>1, <2>2
<1>4. /\ bci' \in [VM -> Frame \cup VM \cup {None}] /\ bci'[Caller] = stack_frames[k].frame
      /\ \A v \in VM : v # Caller /\ v # Current => bci'[v] = bci[v]
  <2>1. CASE Last(runs).kind = "call"
    <3>1. /\ SetBci(Caller, stack_frames[k].frame)
          /\ stack_frames[k].frame \in Frame \cup VM \cup {None}
      BY <1>1, <2>1 DEF EndCall, Over
    <3> QED BY <1>2, <3>1, BciSet
  <2>2. CASE Last(runs).kind # "call"
    <3>1. bci' = Restored
      BY <2>2 DEF EndCall
    <3> QED BY <2>2, <3>1 DEF Over
  <2> QED BY <2>1, <2>2
<1> QED BY <1>1, <1>2, <1>3, <1>4, RunEnded

\* A Call that lets an exception out has not been told its place, but is in no
\* try that would let the exception pass.
LEMMA LeavePlaces ==
  ASSUME PlaceFacts, Leave
  PROVE  PlacesInv'
<1>1. /\ mode = "leave" /\ mode' \in {"run", "throw"} /\ Last(runs).kind # "main"
      /\ runs' = Front(runs) /\ pre_call_bci' = Front(pre_call_bci)
      /\ stack_frames' = StackWithout(1) /\ calls' = calls /\ caller_addr' = caller_addr
      /\ tries' = tries /\ (mode' = "run" => Last(runs).kind = "native")
      /\ bci' = Restored \/ (mode' = "run" /\ SetBci(Caller, Last(StackWithout(1)).frame))
  BY DEF Leave
<1> PICK k \in Nat : Over(k)
  BY <1>1, OverIs
<1>2. L' = k /\ SameBelow(k) /\ Caller \in VM
  BY <1>1, BasePopped DEF Over
<1>3. /\ \A d \in CallFrame : AddrKept(d)
      /\ caller_addr' \in [CallFrame -> Frame \cup VM \cup {None}]
  BY <1>1 DEF AddrKept, PlaceFacts, PlacesInv, PlacesTyped
<1>4. Last(StackWithout(1)).frame = stack_frames[k].frame
  <2>1. 1 \in 0 .. L /\ L - 1 = k /\ k \in 1 .. k /\ StacksTyped
    BY DEF Over, PlaceFacts
  <2>2. Len(StackWithout(1)) = k /\ StackWithout(1)[k] = stack_frames[k]
    BY <2>1, StackWithoutIs
  <2> QED BY <2>2 DEF Last
<1>5. /\ bci' \in [VM -> Frame \cup VM \cup {None}]
      /\ \A v \in VM : v # Caller /\ v # Current => bci'[v] = bci[v]
      /\ Last(runs).kind # "call" => bci'[Caller] = stack_frames[k].frame
  <2>1. CASE bci' = Restored
    BY <2>1 DEF Over
  <2>2. CASE bci' # Restored
    <3>1. SetBci(Caller, stack_frames[k].frame) /\ stack_frames[k].frame \in Frame \cup VM \cup {None}
      BY <1>1, <1>4, <2>2 DEF Over
    <3> QED BY <1>2, <3>1, BciSet
  <2> QED BY <2>1, <2>2
<1>6. Last(runs).kind = "call" => CatchesAll(stack_frames[k].frame)
  BY DEF Over, PlaceFacts, TriesInv, TriesBelow
<1>7. (mode' = "run" => bci'[Caller] = stack_frames[k].frame)
      /\ (mode' = "throw" => \/ bci'[Caller] = stack_frames[k].frame
                             \/ tries' = tries /\ CatchesAll(stack_frames[k].frame))
  BY <1>1, <1>5, <1>6
<1> QED BY <1>1, <1>2, <1>3, <1>5, <1>7, RunEnded

-----------------------------------------------------------------------------
(* The catch clause, and the whole.                                        *)

\* Frames of the run are popped, down to the k-th.
LEMMA RunCut ==
  ASSUME PlaceFacts, NEW k \in Nat, k <= L, L' = k, SameBelow(k), runs' = runs,
         pre_call_bci' = pre_call_bci, NEW f \in Frame \cup VM \cup {None}, SetBci(Current, f),
         NEW n, PopCallFrames(Current, n), mode' \in {"run", "leave"},
         mode' = "run" => f = stack_frames[k].frame
  PROVE  PlacesInv'
<1>1. RunsKept /\ Current' = Current /\ Len(pre_call_bci') = Len(runs') /\ Current \in VM
  BY RunsSame DEF PlaceFacts
<1>2. /\ bci' \in [VM -> Frame \cup VM \cup {None}]
      /\ bci'[Current] = f /\ \A v \in VM : v # Current => bci'[v] = bci[v]
  BY BciSet DEF PlaceFacts
<1>3. /\ \A d \in CallFrame : AddrKept(d)
      /\ caller_addr' \in [CallFrame -> Frame \cup VM \cup {None}]
  BY <1>1, PoppedAddrs
<1>4. NotesKept
  BY <1>1, <1>2, <1>3 DEF NotesKept
<1>5. PlacesTyped'
  BY <1>2, <1>3 DEF PlaceFacts, PlacesInv, PlacesTyped
<1>6. RunsOwnCode'
  <2>1. Top'.frame = stack_frames[k].frame
    <3>1. k \in 1 .. k
      BY DEF PlaceFacts
    <3> QED BY <3>1 DEF PlaceFacts, SameBelow
  <2> QED BY <1>1, <1>2, <2>1 DEF RunsOwnCode
<1>7. k <= L' /\ \A i \in 2 .. L' : ~(i > k)
  OBVIOUS
<1> QED BY <1>1, <1>4, <1>5, <1>6, <1>7, PlacesSet

\* The exception leaves the run, whose VM is nowhere then.
LEMMA UnwindPlaces ==
  ASSUME PlaceFacts, Unwind
  PROVE  PlacesInv'
<1> PICK H \in Heights, hang \in BOOLEAN, n \in Nat, b \in Nat, top \in Nat, h \in Nat :
        UnwindFacts(H, hang, n, b, top, h)
  BY UnwindIs DEF PlaceFacts
<1>0. L' = b /\ SameBelow(b)
  BY UnwindFrames
<1>1. /\ b <= L /\ PopCallFrames(Current, top - h) /\ mode' = "leave" /\ runs' = runs
  BY DEF UnwindFacts, Thrown
<1>2. SetBci(Current, None) /\ pre_call_bci' = pre_call_bci
  BY DEF Unwind
<1>3. None \in Frame \cup VM \cup {None}
  OBVIOUS
<1> QED BY <1>0, <1>1, <1>2, <1>3, RunCut

\* The catch is in the frame that stays on top.
LEMMA HandlePlaces ==
  ASSUME PlaceFacts, Handle
  PROVE  PlacesInv'
<1> PICK k : k = Innermost(Handlers)
  OBVIOUS
<1>1. /\ mode = "throw" /\ Handlers # {} /\ runs' = runs /\ pre_call_bci' = pre_call_bci
      /\ stack_frames' = WithOpen(StackWithout(Len(stack_frames) - k), <<>>)
      /\ SetBci(Current, stack_frames[k].frame) /\ mode' = "run"
  BY DEF Handle
<1>2. \E n : PopCallFrames(Current, n)
  BY DEF Handle
<1>3. k \in 1 .. L
  <2>1. Handlers \in SUBSET (1 .. L) /\ L \in Nat
    BY DEF Handlers, Visible, PlaceFacts
  <2> QED BY <1>1, <2>1, InnermostIs
<1>4. L' = k /\ SameBelow(k)
  <2> PICK n \in Nat, i \in Nat : n = L - i /\ i = k /\ i # 0 /\ L - n = i /\ n \in 0 .. L
                                 /\ n = Len(stack_frames) - k
    <3>1. L - k \in Nat /\ k \in Nat /\ k # 0 /\ L - (L - k) = k /\ L - k \in 0 .. L
      BY <1>3 DEF PlaceFacts
    <3> QED BY <3>1 DEF L
  <2> PICK s : s = StackWithout(n)
    OBVIOUS
  <2>1. s \in Seq(StackFrame) /\ Len(s) = i /\ \A j \in 1 .. i : s[j] = stack_frames[j]
    BY StackWithoutIs DEF PlaceFacts
  <2>2. s # <<>> /\ WithOpen(s, <<>>) \in Seq(StackFrame) /\ stack_frames' = WithOpen(s, <<>>)
    BY <1>1, <2>1 DEF PlaceFacts, StacksTyped
  <2> QED BY <2>1, <2>2, WithOpenShape DEF L, SameBelow
<1>5. stack_frames[k].frame \in Frame \cup VM \cup {None}
  BY <1>3 DEF PlaceFacts, Structure, StackFrame
<1>6. k \in Nat /\ k <= L
  BY <1>3 DEF PlaceFacts
<1> QED BY <1>1, <1>2, <1>4, <1>5, <1>6, RunCut

\* Nothing happens.
LEMMA StutterPlaces ==
  ASSUME PlaceFacts, UNCHANGED vars
  PROVE  PlacesInv'
<1>1. UNCHANGED <<stack_frames, calls, runs, places>> /\ UNCHANGED <<tries, mode>>
  BY DEF vars, places
<1>2. /\ L' = L /\ SameBelow(L) /\ runs' = runs /\ bci' = bci /\ pre_call_bci' = pre_call_bci
      /\ caller_addr' = caller_addr /\ calls' = calls
  BY <1>1 DEF L, SameBelow, places
<1>3. \A d \in CallFrame : AddrKept(d)
  BY <1>2 DEF AddrKept
<1>4. RunsKept /\ Current' = Current /\ Len(pre_call_bci') = Len(runs')
  BY <1>2, RunsSame
<1>5. NotesKept
  BY <1>2, <1>3, <1>4 DEF NotesKept
<1>6. PlacesTyped'
  BY <1>2 DEF PlaceFacts, PlacesInv, PlacesTyped
<1>7. RunsOwnCode'
  <2>1. Top'.frame = Top.frame
    BY <1>2 DEF PlaceFacts, SameBelow
  <2> QED BY <1>1, <1>2, <1>4, <2>1 DEF RunsOwnCode, PlaceFacts, PlacesInv, CatchesAll
<1>8. L \in Nat /\ L <= L /\ L <= L' /\ \A i \in 2 .. L' : ~(i > L)
  BY <1>2 DEF PlaceFacts
<1> QED BY <1>2, <1>4, <1>5, <1>6, <1>7, <1>8, PlacesSet

\* The program starts in its own code.
LEMMA InitPlaces == Init => PlacesInv
<1> SUFFICES ASSUME Init PROVE PlacesInv
  OBVIOUS
<1>1. /\ L = 1 /\ stack_frames[1].frame = Main /\ Current = Main /\ Top = stack_frames[1]
      /\ Main \in VM /\ Len(runs) = 1
  BY InitStack
<1>2. /\ bci = [m \in VM |-> m] /\ caller_addr = [c \in CallFrame |-> None]
      /\ pre_call_bci = <<None>> /\ mode = "run"
  BY DEF Init
<1>3. PlacesTyped /\ Len(pre_call_bci) = Len(runs)
  BY <1>1, <1>2 DEF PlacesTyped
<1>4. RunsOwnCode
  BY <1>1, <1>2 DEF RunsOwnCode
<1>5. \A i \in 2 .. L : FALSE
  BY <1>1
<1> QED BY <1>3, <1>4, <1>5 DEF PlacesInv

\* Every action keeps the invariant of the places.
LEMMA NextPlaces ==
  ASSUME IInv, PlacesInv, WorkingFeatures, IInv', [Next]_vars
  PROVE  PlacesInv'
<1>0. PlaceFacts
  BY PlaceFactsHold
<1>1. ASSUME NEW c \in CallFrame, PushCallFrame(c) PROVE PlacesInv'
  BY <1>0, <1>1, PushCallFramePlaces
<1>2. ASSUME NEW f \in Frame, CallFunction(f) PROVE PlacesInv'
  BY <1>0, <1>2, CallFunctionPlaces
<1>3. ASSUME NEW f \in Frame, BeginClass(f) PROVE PlacesInv'
  BY <1>0, <1>3, BeginClassPlaces
<1>4. ASSUME NEW m \in VM, NEW f \in Frame, CallModule(m, f) PROVE PlacesInv'
  BY <1>0, <1>4, CallModulePlaces
<1>5. ASSUME NEW m \in VM, NEW f \in Frame, NEW c \in CallFrame, CallBack(m, f, c)
      PROVE  PlacesInv'
  BY <1>0, <1>5, CallBackPlaces
<1>6. CASE CallNative
  BY <1>0, <1>6, CallNativePlaces
<1>7. CASE EndClass
  BY <1>0, <1>7, EndClassPlaces
<1>8. CASE Return
  BY <1>0, <1>8, ReturnPlaces
<1>9. CASE \/ PopTry \/ (\E handled \in SUBSET Exception : PushTry(handled))
           \/ (\E e \in Exception : Raise(e)) \/ EndCode \/ Again \/ EndProgram
  BY <1>0, <1>9, QuietPlaces
<1>10. ASSUME NEW m \in VM, Import(m) PROVE PlacesInv'
  BY <1>0, <1>10, ImportPlaces
<1>11. ASSUME NEW e \in Exception, RaiseInCall(e) PROVE PlacesInv'
  BY <1>0, <1>11, RaiseInCallPlaces
<1>12. CASE EndCall
  BY <1>0, <1>12, EndCallPlaces
<1>13. CASE EndImport
  BY <1>0, <1>13, EndImportPlaces
<1>14. CASE RunFinally
  BY <1>0, <1>14, RunFinallyPlaces
<1>15. CASE Handle
  BY <1>0, <1>15, HandlePlaces
<1>16. CASE Unwind
  BY <1>0, <1>16, UnwindPlaces
<1>17. CASE Leave
  BY <1>0, <1>17, LeavePlaces
<1>18. CASE Stop \/ UNCHANGED vars
  BY <1>0, <1>18, StutterPlaces DEF Stop
<1> QED
  BY <1>1, <1>2, <1>3, <1>4, <1>5, <1>6, <1>7, <1>8, <1>9, <1>10, <1>11, <1>12, <1>13, <1>14,
     <1>15, <1>16, <1>17, <1>18 DEF Next, Propagate

\* Every frame that waits is gone on with where it was.
THEOREM PlacesHold == WorkingFeatures /\ Spec => []PlacesInv
<1>1. Init => PlacesInv
  BY InitPlaces
<1>2. WorkingFeatures /\ IInv /\ IInv' /\ PlacesInv /\ [Next]_vars => PlacesInv'
  BY NextPlaces
<1>3. WorkingFeatures => []WorkingFeatures
  <2>1. WorkingFeatures => WorkingFeatures'
    BY DEF WorkingFeatures, LeavesArguments
  <2> QED BY <2>1, PTL
<1> QED BY <1>1, <1>2, <1>3, InvariantHolds, PTL DEF Spec

-----------------------------------------------------------------------------
(* What the invariant is for.                                              *)

\* Every variable has its type.
THEOREM TypesHold == WorkingFeatures /\ Spec => []TypeOK
<1>1. IInv /\ PlacesInv => TypeOK
  BY DEF IInv, PlacesInv, TypeOK
<1> QED BY <1>1, InvariantHolds, PlacesHold, PTL

\* The frames of every VM are its part of stack_frames: pop_frame takes the
\* same frame from both lists.
THEOREM FramesAlwaysMatch == WorkingFeatures /\ Spec => []FramesMatchStack
<1>1. IInv => FramesMatchStack
  BY DEF IInv, StackInv
<1> QED BY <1>1, InvariantHolds, PTL

\* Every activation of run finds the global frame that it pushed on top again
\* when it ends: the assertions of run_from_external and pop_frame hold.
THEOREM RunsStayOnStack == WorkingFeatures /\ Spec => []RunsOnStack
<1>1. IInv => RunsOnStack
  BY DEF IInv, StackInv
<1> QED BY <1>1, InvariantHolds, PTL

\* The call frame that C++ code holds while run runs is not deleted, and the
\* return value is in it when the run has ended normally.
THEOREM HeldCallFramesStayAlive == WorkingFeatures /\ Spec => []HeldCallFramesAlive
<1>1. IInv => HeldCallFramesAlive
  BY DEF IInv, CallsHold, CallsInv
<1> QED BY <1>1, InvariantHolds, PTL

\* The VM is in the code of its top frame; a Call finds the call frame of its
\* arguments on top, and a Return that of its function.
LEMMA OwnCallFrameFollows == IInv /\ PlacesInv => OwnCallFrame
<1> SUFFICES ASSUME IInv, mode = "run"
             PROVE  IF InCall THEN TopCall = Last(Top.open)
                    ELSE Top.call_frame # None => TopCall = Top.call_frame
  BY DEF OwnCallFrame, InOwnCode, PlacesInv, RunsOwnCode
<1> PICK H \in Heights, hang \in BOOLEAN, n \in Nat : Given(H, hang, n)
  BY GivenHolds
<1> PICK l \in Nat, top \in Nat : RunningNow(H, hang, n, l, top)
  BY RunningIs
<1>1. /\ l = Len(Top.open) /\ top = Len(call_frames[Current]) /\ top >= l
      /\ Top = stack_frames[n] /\ Top.open \in Seq(CallFrame)
      /\ call_frames[Current] \in Seq(CallFrame)
  BY DEF RunningNow
<1>2. TopCall = call_frames[Current][top] \/ top = 0
  BY <1>1 DEF TopCall, Last
<1>3. CASE InCall
  <2>1. l # 0
    BY <1>1, <1>3, SequenceLen DEF InCall
  <2>2. l \in 1 .. l /\ (top - l) + l = top /\ top # 0
    BY <1>1, <2>1
  <2>3. call_frames[Current][(top - l) + l] = stack_frames[n].open[l]
    BY <2>2 DEF RunningNow
  <2>4. call_frames[Current][top] = Top.open[l]
    BY <1>1, <2>2, <2>3
  <2> QED BY <1>1, <1>2, <1>3, <2>2, <2>4 DEF Last
<1>4. CASE ~InCall
  <2>1. l = 0
    BY <1>1, <1>4 DEF InCall
  <2> SUFFICES ASSUME Top.call_frame # None PROVE TopCall = Top.call_frame
    BY <1>4
  <2>2. Matched(n) = 1
    BY <1>1 DEF Matched
  <2>3. top - l \in 1 .. top /\ call_frames[Current][top - l] = stack_frames[n].call_frame
    BY <2>2 DEF RunningNow
  <2>4. top - l = top /\ top # 0
    BY <2>1, <2>3
  <2> QED BY <1>1, <1>2, <2>3, <2>4
<1> QED BY <1>3, <1>4

\* No function returns to the caller of another, no opcode takes another
\* call's arguments, and after a call, a callback or an import the VM goes on
\* where it was, whatever the program calls, imports and catches.
THEOREM OpcodesFindTheirCallFrame == WorkingFeatures /\ Spec => []OwnCallFrame
BY OwnCallFrameFollows, InvariantHolds, PlacesHold, PTL
==============================================================================
