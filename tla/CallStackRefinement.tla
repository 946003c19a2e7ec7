------------------------- MODULE CallStackRefinement -------------------------
(***************************************************************************)
(* Calls and exceptions mean to the program what StructuredCalls says: the *)
(* stack of CallStack, without the global frames that calls of other       *)
(* modules push, is its stack, and every action is one of its steps or     *)
(* changes nothing that the program sees.                                  *)
(***************************************************************************)
EXTENDS CallStackTheorems

-----------------------------------------------------------------------------
(* What the program sees of the stack.                                     *)

\* The activations of the program, and those of moss code among them.
Act == [native : BOOLEAN, tries : Seq(SUBSET Exception)]
Function(handled) == [native |-> FALSE, tries |-> handled]

\* f has, for each i, the activations that the frames up to the i-th stand for.
Stacked(f) ==
  /\ f \in [0 .. L -> Seq(Act)] /\ f[0] = <<>> /\ f[L] = Activations
  /\ \A i \in 1 .. L : Seen(i) \in Seq(Act) /\ f[i] = f[i - 1] \o Seen(i)

\* A frame that is in a try is in one of moss.
LEMMA HandledType ==
  ASSUME StacksTyped, NEW f \in Frame \cup VM
  PROVE  HandledBy(f) \in Seq(SUBSET Exception)
<1>1. tries[f] \in Seq(Try)
  BY DEF StacksTyped
<1>2. CASE tries[f] = <<>> \/ Last(tries[f]).caught
  BY <1>2 DEF HandledBy
<1>3. CASE ~(tries[f] = <<>> \/ Last(tries[f]).caught)
  <2>1. tries[f][Len(tries[f])] \in Try
    BY <1>1, <1>3
  <2>2. Last(tries[f]).handles \in SUBSET Exception
    BY <2>1 DEF Last, Try
  <2> QED BY <1>3, <2>2 DEF HandledBy
<1> QED BY <1>2, <1>3

\* What a frame of the stack is to the program.
LEMMA SeenIs ==
  ASSUME StacksTyped, NEW i \in 1 .. L
  PROVE  /\ Seen(i) \in Seq(Act)
         /\ IsBase(i) /\ KindOf(i) = "call" => Seen(i) = <<>>
         /\ IsBase(i) /\ KindOf(i) = "native" => Seen(i) = <<[native |-> TRUE, tries |-> <<>>]>>
         /\ ~StartsFunction(i) => Seen(i) = <<Function(HandledBy(stack_frames[i].frame))>>
<1>1. stack_frames[i].frame \in Frame \cup VM
  <2>1. stack_frames \in Seq(StackFrame) /\ i \in 1 .. Len(stack_frames)
    BY DEF StacksTyped, L
  <2>2. stack_frames[i] \in StackFrame
    BY <2>1
  <2> QED BY <2>2 DEF StackFrame
<1>2. HandledBy(stack_frames[i].frame) \in Seq(SUBSET Exception)
  BY <1>1, HandledType
<1>3. Function(HandledBy(stack_frames[i].frame)) \in Act /\ [native |-> TRUE, tries |-> <<>>] \in Act
  BY <1>2 DEF Act, Function
<1>4. IsBase(i) /\ KindOf(i) = "call" => Seen(i) = <<>>
  BY DEF Seen, KindOf
<1>5. IsBase(i) /\ KindOf(i) = "native" => Seen(i) = <<[native |-> TRUE, tries |-> <<>>]>>
  BY DEF Seen, KindOf
<1>6. ~StartsFunction(i) => Seen(i) = <<Function(HandledBy(stack_frames[i].frame))>>
  BY DEF Seen, KindOf, StartsFunction, ForFunction, Function
<1>7. Seen(i) \in {<<>>, <<[native |-> TRUE, tries |-> <<>>]>>,
                   <<Function(HandledBy(stack_frames[i].frame))>>}
  BY <1>4, <1>5, <1>6 DEF StartsFunction, ForFunction
<1>8. Seen(i) \in Seq(Act)
  <2>1. \A a \in Act : <<a>> \in Seq(Act)
    OBVIOUS
  <2>2. <<>> \in Seq(Act)
    OBVIOUS
  <2> QED BY <1>3, <1>7, <2>1, <2>2, Zenon
<1> QED BY <1>4, <1>5, <1>6, <1>8

\* The activations are those of one frame after the other.
LEMMA ActivationsAre ==
  ASSUME StacksTyped
  PROVE  \E f : Stacked(f)
<1> PICK n \in Nat : n = Len(stack_frames) /\ n = L
  BY DEF StacksTyped, L
<1>1. \A i \in 1 .. n : Seen(i) \in Seq(Act)
  BY SeenIs
<1> DEFINE F(f, m) == f = [k \in 0 .. m |-> IF k = 0 THEN <<>> ELSE f[k - 1] \o Seen(k)]
           T == {m \in Nat : m <= n => \E f : F(f, m)}
<1>2. 0 \in T
  <2>1. PICK f : f = [k \in 0 .. 0 |-> <<>>]
    OBVIOUS
  <2>2. F(f, 0)
    BY <2>1
  <2> QED BY <2>2
<1>3. ASSUME NEW m \in 0 .. n - 1, m \in T PROVE m + 1 \in T
  <2>1. PICK f : F(f, m)
    BY <1>3
  <2>2. PICK g : g = [k \in 0 .. m + 1 |-> IF k = m + 1 THEN f[m] \o Seen(m + 1) ELSE f[k]]
    OBVIOUS
  <2>3. \A k \in 0 .. m + 1 : g[k] = IF k = 0 THEN <<>> ELSE g[k - 1] \o Seen(k)
    <3> TAKE k \in 0 .. m + 1
    <3>1. CASE k = m + 1
      <4>1. k # 0 /\ k - 1 = m /\ m \in 0 .. m + 1 /\ m # m + 1
        BY <3>1
      <4>2. g[m] = f[m] /\ g[k] = f[m] \o Seen(k)
        BY <2>2, <3>1, <4>1
      <4> QED BY <4>1, <4>2
    <3>2. CASE k # m + 1
      <4>1. k \in 0 .. m /\ g[k] = f[k]
        BY <2>2, <3>2
      <4>2. f[k] = IF k = 0 THEN <<>> ELSE f[k - 1] \o Seen(k)
        BY <2>1, <4>1
      <4>3. k # 0 => k - 1 \in 0 .. m + 1 /\ k - 1 # m + 1
        BY <4>1
      <4>4. k # 0 => g[k - 1] = f[k - 1]
        BY <2>2, <4>3
      <4> QED BY <4>1, <4>2, <4>4
    <3> QED BY <3>1, <3>2
  <2>4. F(g, m + 1)
    BY <2>2, <2>3
  <2>5. m + 1 \in Nat
    OBVIOUS
  <2> HIDE DEF F
  <2> QED BY <2>4, <2>5
<1>4. PICK f : F(f, n) /\ f = CHOOSE g : F(g, n)
  <2> HIDE DEF T
  <2>1. 0 .. n \subseteq T
    BY <1>2, <1>3, SetInduction
  <2>2. n \in T
    BY <2>1
  <2>3. \E f : F(f, n)
    BY <2>2 DEF T
  <2> QED BY <2>3
<1>5. Activations = f[n]
  BY <1>4 DEF Activations
<1>6. f[0] = <<>> /\ \A i \in 1 .. n : f[i] = f[i - 1] \o Seen(i)
  <2>1. \A k \in 0 .. n : f[k] = IF k = 0 THEN <<>> ELSE f[k - 1] \o Seen(k)
    BY <1>4
  <2>2. 0 \in 0 .. n /\ \A i \in 1 .. n : i \in 0 .. n /\ i # 0
    OBVIOUS
  <2> QED BY <2>1, <2>2
<1> HIDE DEF F, T
<1>7. f \in [0 .. n -> Seq(Act)]
  <2> DEFINE U == {k \in Nat : f[k] \in Seq(Act)}
  <2>1. 0 \in U
    <3>1. <<>> \in Seq(Act) /\ 0 \in Nat
      OBVIOUS
    <3> QED BY <1>6, <3>1, Zenon
  <2>2. ASSUME NEW k \in 0 .. n - 1, k \in U PROVE k + 1 \in U
    <3>1. PICK i \in 1 .. n : i = k + 1
      OBVIOUS
    <3>2. i - 1 = k
      BY <3>1
    <3>4. f[i] = f[i - 1] \o Seen(i) /\ Seen(i) \in Seq(Act)
      BY <1>1, <1>6, Zenon
    <3>3. f[i] \in Seq(Act)
      BY <2>2, <3>2, <3>4
    <3> QED BY <3>1, <3>3
  <2> HIDE DEF U
  <2>3. 0 .. n \subseteq U
    BY <2>1, <2>2, SetInduction
  <2>4. \A k \in 0 .. n : f[k] \in Seq(Act)
    BY <2>3 DEF U
  <2>5. f = [k \in 0 .. n |-> f[k]]
    BY <1>4 DEF F
  <2> QED BY <2>4, <2>5
<1> QED BY <1>1, <1>5, <1>6, <1>7 DEF Stacked

-----------------------------------------------------------------------------
(* What stays of the stack is seen as it was.                              *)

\* The frames up to the n-th stay, with their runs and what is to be seen of
\* their tries.
Stay(n) ==
  /\ n \in Nat /\ n <= L /\ n <= L' /\ SameBelow(n)
  /\ \A i \in 1 .. n : runs'[RunOf(i)] = runs[RunOf(i)]
  /\ \A i \in 1 .. n : HandledBy(stack_frames[i].frame)' = HandledBy(stack_frames[i].frame)

\* Then they stand for the same activations.
LEMMA SeenStay ==
  ASSUME NEW n, Stay(n)
  PROVE  \A i \in 1 .. n : Seen(i)' = Seen(i)
<1> TAKE i \in 1 .. n
<1>1. IsBase(i)' = IsBase(i) /\ RunOf(i)' = RunOf(i)
  <2>1. i \in 0 .. n /\ n \in Nat
    BY DEF Stay
  <2> QED BY <2>1, CountsBelow DEF Stay
<1>2. stack_frames'[i].frame = stack_frames[i].frame
  BY DEF Stay, SameBelow
<1>3. runs'[RunOf(i)] = runs[RunOf(i)]
  BY DEF Stay
<1>4. HandledBy(stack_frames[i].frame)' = HandledBy(stack_frames[i].frame)
  BY DEF Stay
<1> QED BY <1>1, <1>2, <1>3, <1>4 DEF Seen

\* In the next state as well.
LEMMA ActivationsNext ==
  (StacksTyped => \E f : Stacked(f))'
<1>1. StacksTyped => \E f : Stacked(f)
  BY ActivationsAre
<1> QED BY <1>1, PTL

\* What a stack is made of, before and after.
LEMMA StackStays ==
  ASSUME StacksTyped, StacksTyped', NEW n, Stay(n)
  PROVE  \E f, g : Stacked(f) /\ Stacked(g)' /\ f[n] = g[n] /\ f[n] \in Seq(Act)
                   /\ L \in Nat /\ L' \in Nat /\ Activations \in Seq(Act)
<1> PICK f : Stacked(f)
  BY ActivationsAre
<1> PICK g : Stacked(g)'
  BY ActivationsNext
<1>1. n \in Nat /\ n <= L /\ n <= L' /\ L \in Nat /\ L' \in Nat
  BY DEF Stay, StacksTyped, L
<1>2. f[0] = <<>> /\ \A i \in 1 .. L : f[i] = f[i - 1] \o Seen(i)
  BY DEF Stacked
<1>3. g[0] = <<>> /\ \A i \in 1 .. L' : g[i] = g[i - 1] \o Seen(i)'
  BY DEF Stacked
<1> DEFINE U == {k \in Nat : f[k] = g[k]}
<1>4. 0 \in U
  BY <1>2, <1>3
<1>5. ASSUME NEW k \in 0 .. n - 1, k \in U PROVE k + 1 \in U
  <2>1. PICK i \in 1 .. n : i = k + 1
    BY <1>1
  <2>2. i \in 1 .. L /\ i \in 1 .. L' /\ i - 1 = k /\ i \in Nat
    BY <1>1, <2>1
  <2>3. f[i] = f[k] \o Seen(i) /\ g[i] = g[k] \o Seen(i)'
    BY <1>2, <1>3, <2>2
  <2>4. Seen(i)' = Seen(i)
    BY SeenStay
  <2> QED BY <1>5, <2>1, <2>2, <2>3, <2>4
<1> HIDE DEF U
<1>6. 0 .. n \subseteq U
  BY <1>1, <1>4, <1>5, SetInduction
<1>7. f[n] = g[n]
  BY <1>1, <1>6 DEF U
<1>8. f[n] \in Seq(Act) /\ f[L] \in Seq(Act) /\ f[L] = Activations
  BY <1>1 DEF Stacked
<1> QED BY <1>1, <1>7, <1>8

\* Nothing changes that the program sees.
LEMMA ActivationsStay ==
  ASSUME StacksTyped, StacksTyped', L' = L, Stay(L)
  PROVE  Activations' = Activations /\ Activations \in Seq(Act)
<1> PICK f, g : Stacked(f) /\ Stacked(g)' /\ f[L] = g[L] /\ Activations \in Seq(Act)
  BY StackStays
<1> QED BY DEF Stacked

\* One frame more.
LEMMA ActivationsGrow ==
  ASSUME StacksTyped, StacksTyped', NEW k \in Nat, k = L + 1, L' = k, Stay(L)
  PROVE  Activations' = Activations \o Seen(k)' /\ Activations \in Seq(Act)
<1> PICK f, g : Stacked(f) /\ Stacked(g)' /\ f[L] = g[L] /\ L \in Nat /\ Activations \in Seq(Act)
  BY StackStays
<1>1. f[L] = Activations
  BY DEF Stacked
<1>2. g[k] = Activations'
  BY DEF Stacked
<1>3. k \in 1 .. L' /\ k - 1 = L
  OBVIOUS
<1>4. g[k] = g[k - 1] \o Seen(k)'
  BY <1>3 DEF Stacked
<1>5. Activations' = Activations \o Seen(k)'
  BY <1>1, <1>2, <1>3, <1>4
<1> QED BY <1>5

\* Two frames more.
LEMMA ActivationsGrowTwice ==
  ASSUME StacksTyped, StacksTyped', NEW k \in Nat, NEW q \in Nat, k = L + 1, q = L + 2, L' = q, Stay(L)
  PROVE  /\ Activations' = (Activations \o Seen(k)') \o Seen(q)'
         /\ Activations \in Seq(Act)
<1> PICK f, g : Stacked(f) /\ Stacked(g)' /\ f[L] = g[L] /\ L \in Nat /\ Activations \in Seq(Act)
  BY StackStays
<1>1. f[L] = Activations
  BY DEF Stacked
<1>2. g[q] = Activations'
  BY DEF Stacked
<1>3. k \in 1 .. L' /\ k - 1 = L /\ q \in 1 .. L' /\ q - 1 = k
  OBVIOUS
<1>4. g[k] = g[k - 1] \o Seen(k)' /\ g[q] = g[q - 1] \o Seen(q)'
  BY <1>3 DEF Stacked
<1>5. Activations' = (Activations \o Seen(k)') \o Seen(q)'
  BY <1>1, <1>2, <1>3, <1>4
<1> QED BY <1>5

\* One frame less.
LEMMA ActivationsShrink ==
  ASSUME StacksTyped, StacksTyped', NEW k \in Nat, L' = k, L = k + 1, Stay(k)
  PROVE  Activations = Activations' \o Seen(L) /\ Activations' \in Seq(Act)
<1> PICK f, g : Stacked(f) /\ Stacked(g)' /\ f[k] = g[k] /\ f[k] \in Seq(Act)
  BY StackStays
<1>1. f[L] = Activations
  BY DEF Stacked
<1>2. g[k] = Activations'
  BY DEF Stacked
<1>3. L \in 1 .. L /\ L - 1 = k
  OBVIOUS
<1>4. f[L] = f[L - 1] \o Seen(L)
  BY <1>3 DEF Stacked
<1> QED BY <1>1, <1>2, <1>3, <1>4

\* Frames with activations in S are popped, and the one below may change.
LEMMA ActivationsAbove ==
  ASSUME StacksTyped, NEW f, Stacked(f), NEW k \in Nat, k <= L, NEW S \in SUBSET Act,
         \A i \in k + 1 .. L : Seen(i) \in Seq(S)
  PROVE  \E t \in Seq(S) : f[L] = f[k] \o t
<1>1. L \in Nat
  BY DEF StacksTyped, L
<1> PICK n \in Nat : n = L
  BY <1>1
<1> DEFINE U == {i \in Nat : \E t \in Seq(S) : f[i] = f[k] \o t}
<1>2. k \in U
  <2>1. f[k] \in Seq(Act)
    BY DEF Stacked
  <2>2. f[k] = f[k] \o <<>> /\ <<>> \in Seq(S)
    BY <2>1
  <2> QED BY <2>2
<1>3. ASSUME NEW i \in k .. n - 1, i \in U PROVE i + 1 \in U
  <2>1. PICK j \in Nat : j = i + 1
    OBVIOUS
  <2>2. j \in k + 1 .. L /\ j \in 1 .. L /\ j - 1 = i /\ k \in 0 .. L
    BY <2>1
  <2>3. PICK t \in Seq(S) : f[i] = f[k] \o t
    BY <1>3
  <2>4. f[j] = f[i] \o Seen(j) /\ Seen(j) \in Seq(S)
    BY <2>2 DEF Stacked
  <2>5. f[k] \in Seq(Act)
    BY <2>2 DEF Stacked
  <2>6. (f[k] \o t) \o Seen(j) = f[k] \o (t \o Seen(j)) /\ t \o Seen(j) \in Seq(S)
    <3>1. Seq(S) \subseteq Seq(Act)
      OBVIOUS
    <3>3. t \in Seq(Act) /\ Seen(j) \in Seq(Act)
      BY <2>4, <3>1, Zenon
    <3>2. t \o Seen(j) \in Seq(S)
      BY <2>4
    <3>4. \A p, q, r \in Seq(Act) : (p \o q) \o r = p \o (q \o r)
      BY ConcatAssociative
    <3>5. (f[k] \o t) \o Seen(j) = f[k] \o (t \o Seen(j))
      BY <2>5, <3>3, <3>4, Zenon
    <3> QED BY <3>2, <3>5
  <2>7. f[j] = f[k] \o (t \o Seen(j))
    BY <2>3, <2>4, <2>6
  <2> QED BY <2>1, <2>6, <2>7
<1> HIDE DEF U
<1>4. k .. n \subseteq U
  BY <1>2, <1>3, SetInduction
<1> QED BY <1>4 DEF U

-----------------------------------------------------------------------------
(* The steps of StructuredCalls, for a stack given from its top.           *)

\* Native code, as StructuredCalls shows it.
NativeCode == [native |-> TRUE, tries |-> <<>>]

\* An activation on top of others.
LEMMA TopOf ==
  ASSUME NEW t \in Seq(Act), NEW a \in Act
  PROVE  /\ Append(t, a) \in Seq(Act) /\ Append(t, a) # <<>>
         /\ Len(Append(t, a)) = Len(t) + 1 /\ Len(t) \in Nat
         /\ Append(t, a)[Len(Append(t, a))] = a
         /\ SubSeq(Append(t, a), 1, Len(Append(t, a)) - 1) = t
<1>1. /\ Append(t, a) \in Seq(Act) /\ Append(t, a) # <<>> /\ Len(Append(t, a)) = Len(t) + 1
      /\ Len(t) \in Nat /\ Append(t, a)[Len(Append(t, a))] = a
  OBVIOUS
<1>2. SubSeq(Append(t, a), 1, Len(Append(t, a)) - 1) = t
  OBVIOUS
<1> QED BY <1>1, <1>2

\* Another activation on top.
LEMMA TopChanged ==
  ASSUME NEW t \in Seq(Act), NEW handled \in Seq(SUBSET Exception), NEW others \in Seq(SUBSET Exception),
         NEW s, s = Append(t, Function(handled))
  PROVE  [s EXCEPT ![Len(s)].tries = others] = Append(t, Function(others))
<1>1. Function(handled) \in Act /\ Function(others) \in Act
  BY DEF Function, Act
<1>2. PICK n \in Nat : n = Len(t)
  OBVIOUS
<1>3. Len(s) = n + 1 /\ s \in Seq(Act) /\ s[n + 1] = Function(handled)
  BY <1>1, <1>2, TopOf
<1>4. [s[n + 1] EXCEPT !.tries = others] = Function(others)
  <2> DEFINE a == s[n + 1]
             c == [a EXCEPT !.tries = others]
  <2>1. a \in Act /\ a.native = FALSE
    BY <1>1, <1>3 DEF Function
  <2>2. c \in Act /\ c.native = FALSE /\ c.tries = others
    BY <2>1 DEF Act
  <2> HIDE DEF c
  <2>3. c = [native |-> c.native, tries |-> c.tries]
    BY <2>2 DEF Act
  <2>4. c = Function(others)
    BY <2>2, <2>3 DEF Function
  <2> QED BY <2>4 DEF c
<1>5. [s EXCEPT ![Len(s)].tries = others] = [s EXCEPT ![n + 1] = Function(others)]
  BY <1>3, <1>4
<1>6. [s EXCEPT ![n + 1] = Function(others)] = Append(t, Function(others))
  <2> DEFINE p == Append(t, Function(others))
             q == [s EXCEPT ![n + 1] = Function(others)]
  <2>1. p \in Seq(Act) /\ Len(p) = n + 1 /\ p[n + 1] = Function(others)
    BY <1>1, <1>2, TopOf
  <2>2. \A i \in 1 .. n : p[i] = t[i] /\ s[i] = t[i]
    BY <1>1, <1>2
  <2>3. DOMAIN q = 1 .. n + 1 /\ q[n + 1] = Function(others) /\ \A i \in 1 .. n : q[i] = s[i]
    <3>1. DOMAIN s = 1 .. n + 1 /\ n + 1 \in 1 .. n + 1 /\ \A i \in 1 .. n : i \in 1 .. n + 1 /\ i # n + 1
      BY <1>2, <1>3
    <3>2. DOMAIN q = DOMAIN s
      OBVIOUS
    <3>3. q[n + 1] = Function(others)
      BY <3>1
    <3>4. \A i \in 1 .. n : q[i] = s[i]
      BY <3>1
    <3> QED BY <3>1, <3>2, <3>3, <3>4
  <2>4. q = [i \in 1 .. n + 1 |-> q[i]]
    BY <2>3
  <2> HIDE DEF p, q
  <2>5. p = [i \in 1 .. n + 1 |-> p[i]]
    BY <2>1
  <2>6. \A i \in 1 .. n + 1 : p[i] = q[i]
    BY <1>2, <2>1, <2>2, <2>3
  <2>7. p = q
    BY <2>4, <2>5, <2>6
  <2> QED BY <2>7 DEF p, q
<1> QED BY <1>5, <1>6

\* What is above the first n elements.
LEMMA AboveIs ==
  ASSUME NEW t \in Seq(Act), NEW u \in Seq(Act)
  PROVE  /\ t \o u \in Seq(Act) /\ Len(t \o u) = Len(t) + Len(u)
         /\ Len(t) \in Nat /\ Len(u) \in Nat
         /\ SubSeq(t \o u, 1, Len(t \o u) - Len(u)) = t
         /\ \A i \in Len(t) + 1 .. Len(t) + Len(u) : \E j \in 1 .. Len(u) : (t \o u)[i] = u[j]
<1>1. /\ t \o u \in Seq(Act) /\ Len(t \o u) = Len(t) + Len(u) /\ Len(t) \in Nat /\ Len(u) \in Nat
  OBVIOUS
<1>2. SubSeq(t \o u, 1, Len(t \o u) - Len(u)) = t
  OBVIOUS
<1>3. ASSUME NEW i \in Len(t) + 1 .. Len(t) + Len(u)
      PROVE  \E j \in 1 .. Len(u) : (t \o u)[i] = u[j]
  <2>1. i - Len(t) \in 1 .. Len(u)
    BY <1>1
  <2>2. (t \o u)[i] = u[i - Len(t)]
    BY <1>1
  <2> QED BY <2>1, <2>2
<1> QED BY <1>1, <1>2, <1>3

\* A function is called.
LEMMA CallShown ==
  ASSUME raised = None, raised' = raised, ProgramStack # <<>>,
         ProgramStack' = Append(ProgramStack, Function(<<>>))
  PROVE  Structured!Step
BY DEF Structured!Step, Structured!Run, Structured!Call, Structured!Moss, Function

\* Native code calls a function back.
LEMMA CallbackShown ==
  ASSUME raised = None, raised' = raised, ProgramStack # <<>>,
         ProgramStack' = ProgramStack \o <<NativeCode, Function(<<>>)>>
  PROVE  Structured!Step
BY DEF Structured!Step, Structured!Run, Structured!Callback, Structured!Moss, Structured!Native,
       Function, NativeCode

\* The activation on top returns.
LEMMA ReturnShown ==
  ASSUME raised = None, raised' = raised, NEW t \in Seq(Act), NEW a \in Act,
         ProgramStack = Append(t, a), ProgramStack' = t
  PROVE  Structured!Step
<1>1. ProgramStack # <<>> /\ SubSeq(ProgramStack, 1, Len(ProgramStack) - 1) = t
  BY TopOf
<1> QED BY <1>1 DEF Structured!Step, Structured!Run, Structured!Return, Structured!Without

\* An exception is raised.
LEMMA RaiseShown ==
  ASSUME raised = None, raised' \in Exception, ProgramStack # <<>>, ProgramStack' = ProgramStack
  PROVE  Structured!Step
BY DEF Structured!Step, Structured!Run

\* The activation on top, in no try, begins one.
LEMMA TryShown ==
  ASSUME raised = None, raised' = raised, NEW t \in Seq(Act), NEW handled \in SUBSET Exception,
         ProgramStack = Append(t, Function(<<>>)),
         ProgramStack' = Append(t, Function(<<handled>>))
  PROVE  Structured!Step
<1>1. <<>> \in Seq(SUBSET Exception) /\ <<handled>> \in Seq(SUBSET Exception)
  OBVIOUS
<1>2. Function(<<>>) \in Act
  BY <1>1 DEF Act, Function
<1>3. ProgramStack # <<>> /\ ProgramStack[Len(ProgramStack)] = Function(<<>>)
  BY <1>2, TopOf
<1>4. Append(ProgramStack[Len(ProgramStack)].tries, handled) = <<handled>>
  <2>1. ProgramStack[Len(ProgramStack)].tries = <<>>
    BY <1>3 DEF Function
  <2>2. Append(<<>>, handled) = <<handled>>
    OBVIOUS
  <2> QED BY <2>1, <2>2
<1>5. [ProgramStack EXCEPT ![Len(ProgramStack)].tries = <<handled>>] = ProgramStack'
  <2>1. [ProgramStack EXCEPT ![Len(ProgramStack)].tries = <<handled>>] = Append(t, Function(<<handled>>))
    BY <1>1, TopChanged, Zenon
  <2> QED BY <2>1
<1>6. Structured!Try(handled)
  BY <1>4, <1>5 DEF Structured!Try
<1> QED BY <1>3, <1>6 DEF Structured!Step, Structured!Run

\* The activation on top leaves its try: at its end, or because it does not
\* handle the exception.
LEMMA EndTryShown ==
  ASSUME NEW t \in Seq(Act), NEW handled \in SUBSET Exception,
         ProgramStack = Append(t, Function(<<handled>>)),
         ProgramStack' = Append(t, Function(<<>>)), raised' = raised,
         raised = None \/ raised \notin handled
  PROVE  Structured!Step
<1>1. <<>> \in Seq(SUBSET Exception) /\ <<handled>> \in Seq(SUBSET Exception)
  OBVIOUS
<1>2. Function(<<handled>>) \in Act
  BY <1>1 DEF Act, Function
<1>3. ProgramStack # <<>> /\ ProgramStack[Len(ProgramStack)] = Function(<<handled>>)
  BY <1>2, TopOf
<1>4. ProgramStack[Len(ProgramStack)].tries = <<handled>> /\ <<handled>> # <<>>
      /\ SubSeq(<<handled>>, 1, Len(<<handled>>) - 1) = <<>> /\ <<handled>>[Len(<<handled>>)] = handled
  BY <1>3 DEF Function
<1>5. [ProgramStack EXCEPT ![Len(ProgramStack)].tries = <<>>] = ProgramStack'
  BY <1>1, TopChanged
<1>6. Structured!EndTry
  BY <1>4, <1>5 DEF Structured!EndTry, Structured!Top
<1>7. CASE raised = None
  BY <1>3, <1>6, <1>7 DEF Structured!Step, Structured!Run
<1>8. CASE raised # None /\ raised \notin handled
  BY <1>3, <1>4, <1>6, <1>8 DEF Structured!Step, Structured!LeaveTry, Structured!Top
<1> QED BY <1>7, <1>8

\* None of the activations u on top of t handles the exception.
LEMMA LeavesShown ==
  ASSUME raised # None, NEW t \in Seq(Act), NEW u \in Seq(Act), ProgramStack = t \o u,
         \A i \in 1 .. Len(u) : ~Structured!Handles(u[i], raised)
  PROVE  /\ Structured!Leaves(Len(u)) /\ Len(u) \in 0 .. Len(ProgramStack)
         /\ Structured!Without(Len(u)) = t
<1>1. /\ Len(ProgramStack) = Len(t) + Len(u) /\ Len(t) \in Nat /\ Len(u) \in Nat
      /\ SubSeq(ProgramStack, 1, Len(ProgramStack) - Len(u)) = t
  BY AboveIs
<1>2. Len(u) \in 0 .. Len(ProgramStack)
  BY <1>1
<1>3. ASSUME NEW i \in Len(ProgramStack) - Len(u) + 1 .. Len(ProgramStack)
      PROVE  ~Structured!Handles(ProgramStack[i], raised)
  <2>1. i \in Len(t) + 1 .. Len(t) + Len(u)
    BY <1>1
  <2>2. PICK j \in 1 .. Len(u) : ProgramStack[i] = u[j]
    BY <2>1, AboveIs
  <2> QED BY <2>2
<1> QED BY <1>1, <1>2, <1>3 DEF Structured!Leaves, Structured!Without

\* The exception leaves the activations u.
LEMMA PropagateShown ==
  ASSUME raised # None, raised' = raised, NEW t \in Seq(Act), NEW u \in Seq(Act),
         ProgramStack = t \o u, \A i \in 1 .. Len(u) : ~Structured!Handles(u[i], raised),
         ProgramStack' = t
  PROVE  Structured!Step
<1>1. Structured!Propagate(Len(u)) /\ Len(u) \in 0 .. Len(ProgramStack)
  BY LeavesShown DEF Structured!Propagate
<1> QED BY <1>1 DEF Structured!Step

\* Native code handles the exception itself.
LEMMA SwallowShown ==
  ASSUME raised # None, raised \in Swallowed, raised' = None, NEW t \in Seq(Act),
         ProgramStack = Append(t, NativeCode), ProgramStack' = t
  PROVE  Structured!Step
<1>1. NativeCode \in Act /\ <<NativeCode>> \in Seq(Act) /\ Len(<<NativeCode>>) = 1
  BY DEF Act, NativeCode
<1>2. ProgramStack = t \o <<NativeCode>>
  BY <1>1
<1>3. \A i \in 1 .. Len(<<NativeCode>>) : ~Structured!Handles(<<NativeCode>>[i], raised)
  BY DEF Structured!Handles, NativeCode
<1>4. Structured!Leaves(1) /\ Structured!Without(1) = t
  BY <1>1, <1>2, <1>3, LeavesShown
<1>5. ProgramStack[Len(ProgramStack)] = NativeCode
  BY <1>1, TopOf
<1> QED BY <1>4, <1>5 DEF Structured!Step, Structured!Swallow, Structured!Top, NativeCode

\* The activation below u handles the exception.
LEMMA CatchShown ==
  ASSUME raised # None, raised' = None, NEW t \in Seq(Act), NEW u \in Seq(Act),
         NEW handled \in SUBSET Exception, raised \in handled,
         ProgramStack = Append(t, Function(<<handled>>)) \o u,
         \A i \in 1 .. Len(u) : ~Structured!Handles(u[i], raised),
         ProgramStack' = Append(t, Function(<<>>))
  PROVE  Structured!Step
<1>1. Function(<<handled>>) \in Act
  <2>1. <<handled>> \in Seq(SUBSET Exception)
    OBVIOUS
  <2> QED BY <2>1 DEF Act, Function
<1> DEFINE s == Append(t, Function(<<handled>>))
<1>2. /\ s \in Seq(Act) /\ Len(s) = Len(t) + 1 /\ Len(t) \in Nat /\ s[Len(s)] = Function(<<handled>>)
      /\ SubSeq(s, 1, Len(s) - 1) = t
  BY <1>1, TopOf
<1>3. /\ Structured!Leaves(Len(u)) /\ Len(u) \in 0 .. Len(ProgramStack)
      /\ Len(ProgramStack) = Len(s) + Len(u) /\ Len(u) \in Nat
  <2> HIDE DEF s
  <2> QED BY <1>2, LeavesShown, AboveIs DEF s
<1>4. Len(u) < Len(ProgramStack) /\ Len(ProgramStack) - Len(u) = Len(s)
      /\ Len(ProgramStack) - (Len(u) + 1) = Len(t)
  BY <1>2, <1>3
<1>5. ProgramStack[Len(s)] = Function(<<handled>>)
  <2> HIDE DEF s
  <2>1. (s \o u)[Len(s)] = s[Len(s)]
    BY <1>2
  <2> QED BY <1>2, <2>1 DEF s
<1>6. SubSeq(ProgramStack, 1, Len(t)) = t
  <2>1. \A i \in 1 .. Len(t) : s[i] = t[i]
    BY <1>1
  <2>2. \A i \in 1 .. Len(t) : (s \o u)[i] = s[i]
    <3> HIDE DEF s
    <3> QED BY <1>2
  <2>3. \A i \in 1 .. Len(t) : ProgramStack[i] = t[i]
    BY <2>1, <2>2
  <2>4. SubSeq(ProgramStack, 1, Len(t)) = [i \in 1 .. Len(t) |-> ProgramStack[i]]
    <3>1. ProgramStack \in Seq(Act)
      BY <1>2, AboveIs
    <3>2. SubSeq(ProgramStack, 1, Len(t)) \in Seq(Act) /\ Len(SubSeq(ProgramStack, 1, Len(t))) = Len(t)
          /\ \A i \in 1 .. Len(t) : SubSeq(ProgramStack, 1, Len(t))[i] = ProgramStack[i]
      BY <1>2, <1>3, <3>1, Prefix
    <3> QED BY <1>2, <3>2
  <2> QED BY <2>3, <2>4
<1>7. /\ Structured!Without(Len(u) + 1) = t
      /\ ProgramStack[Len(ProgramStack) - Len(u)].tries = <<handled>>
  <2> HIDE DEF s
  <2> QED BY <1>4, <1>5, <1>6 DEF Structured!Without, Function
<1>8. /\ 1 \in 1 .. Len(<<handled>>) /\ raised \in <<handled>>[1]
      /\ \A l \in 2 .. Len(<<handled>>) : raised \notin <<handled>>[l]
      /\ SubSeq(<<handled>>, 1, 0) = <<>>
  OBVIOUS
<1>9. ProgramStack' = Append(Structured!Without(Len(u) + 1), Structured!Moss(<<>>))
  <2> HIDE DEF s
  <2> QED BY <1>7 DEF Structured!Moss, Function
<1>10. Structured!Catch(Len(u))
  <2> HIDE DEF s
  <2>1. SubSeq(<<handled>>, 1, 1 - 1) = <<>> /\ \A l \in 1 + 1 .. Len(<<handled>>) : raised \notin <<handled>>[l]
    OBVIOUS
  <2>2. ProgramStack' = Append(Structured!Without(Len(u) + 1), Structured!Moss(SubSeq(<<handled>>, 1, 1 - 1)))
    BY <1>9, <2>1
  <2>3. Structured!Leaves(Len(u)) /\ Len(u) < Len(ProgramStack) /\ raised' = None
    BY <1>3, <1>4
  <2>4. \E k \in 1 .. Len(<<handled>>) :
          /\ raised \in <<handled>>[k]
          /\ \A l \in k + 1 .. Len(<<handled>>) : raised \notin <<handled>>[l]
          /\ ProgramStack' = Append(Structured!Without(Len(u) + 1),
                                    Structured!Moss(SubSeq(<<handled>>, 1, k - 1)))
    <3> WITNESS 1 \in 1 .. Len(<<handled>>)
    <3> QED BY <1>8, <2>1, <2>2
  <2> QED BY <1>7, <2>3, <2>4 DEF Structured!Catch
<1> QED BY <1>3, <1>10 DEF Structured!Step

-----------------------------------------------------------------------------
(* What is seen of the running code.                                       *)

\* A frame whose tries stay handles what it did.
LEMMA HandledSame ==
  ASSUME NEW i, stack_frames'[i].frame = stack_frames[i].frame,
         tries'[stack_frames[i].frame] = tries[stack_frames[i].frame]
  PROVE  HandledBy(stack_frames[i].frame)' = HandledBy(stack_frames[i].frame)
BY DEF HandledBy

\* The runs of the frames that stay are what they were.
LEMMA RunsStay ==
  ASSUME StacksTyped, StackInv, NEW n \in Nat, n <= L,
         \/ runs' = runs
         \/ \E a \in Activation : runs' = Append(runs, a)
         \/ runs' = Front(runs) /\ n < Base
  PROVE  \A i \in 1 .. n : runs'[RunOf(i)] = runs[RunOf(i)]
<1> TAKE i \in 1 .. n
<1>1. /\ L \in Nat /\ Len(runs) \in Nat \ {0} /\ i \in 1 .. L /\ RunOf(i) \in 1 .. Len(runs)
      /\ i < Base => RunOf(i) < Len(runs)
  <2>1. Structure
    BY StackStructure
  <2>2. L \in Nat
    BY <2>1 DEF Structure
  <2>3. i \in 1 .. L
    BY <2>2
  <2> QED BY <2>1, <2>3 DEF Structure
<1>2. runs \in Seq(Activation)
  BY DEF StacksTyped
<1>3. CASE \E a \in Activation : runs' = Append(runs, a)
  BY <1>1, <1>2, <1>3
<1>4. CASE runs' = Front(runs) /\ n < Base
  <2>1. Base \in 1 .. L
    BY StackStructure DEF Structure
  <2>2. i < Base /\ Len(runs) - 1 \in 0 .. Len(runs) /\ RunOf(i) \in 1 .. Len(runs) - 1
    BY <1>1, <1>4, <2>1
  <2>3. \A j \in 1 .. Len(runs) - 1 : SubSeq(runs, 1, Len(runs) - 1)[j] = runs[j]
    BY <1>2, <2>2, Prefix
  <2> QED BY <1>4, <2>2, <2>3 DEF Front
<1> QED BY <1>3, <1>4

\* The frames up to the n-th stay with their tries.
LEMMA StayIf ==
  ASSUME StacksTyped, StackInv, NEW n \in Nat, n <= L, n <= L', SameBelow(n),
         \/ runs' = runs
         \/ \E a \in Activation : runs' = Append(runs, a)
         \/ runs' = Front(runs) /\ n < Base,
         \A i \in 1 .. n : tries'[stack_frames[i].frame] = tries[stack_frames[i].frame]
  PROVE  Stay(n)
<1>1. \A i \in 1 .. n : stack_frames'[i].frame = stack_frames[i].frame
  BY DEF SameBelow
<1>2. \A i \in 1 .. n : HandledBy(stack_frames[i].frame)' = HandledBy(stack_frames[i].frame)
  BY <1>1, HandledSame
<1>3. \A i \in 1 .. n : runs'[RunOf(i)] = runs[RunOf(i)]
  BY RunsStay
<1> QED BY <1>2, <1>3 DEF Stay

\* With the same frames, runs and tries the program sees the same.
LEMMA SameShown ==
  ASSUME StacksTyped, StackInv, StacksTyped', L' = L, SameBelow(L), runs' = runs, tries' = tries,
         mode # "done", mode' # "done"
  PROVE  ProgramStack' = ProgramStack /\ ProgramStack = Activations
<1>1. L \in Nat
  BY DEF StacksTyped, L
<1>2. Stay(L)
  BY <1>1, StayIf
<1>3. Activations' = Activations
  BY <1>2, ActivationsStay
<1> QED BY <1>3 DEF ProgramStack

\* The running code is shown on top.
LEMMA TopShown ==
  ASSUME StacksTyped, StackInv, Running
  PROVE  /\ L \in Nat \ {0} /\ Top = stack_frames[L] /\ TopFrame = Top.frame /\ ~StartsFunction(L)
         /\ Top.frame \in Frame \cup VM
         /\ Seen(L) = <<Function(HandledBy(Top.frame))>>
         /\ \E t \in Seq(Act) : ProgramStack = Append(t, Function(HandledBy(Top.frame)))
<1>1. L \in Nat \ {0} /\ Top = stack_frames[L] /\ L \in 1 .. L
  BY StackStructure DEF Structure, Top, Last, L
<1>2. ~StartsFunction(L)
  BY <1>1 DEF StackInv, FirstFrames
<1>3. Seen(L) = <<Function(HandledBy(Top.frame))>> /\ Seen(L) \in Seq(Act)
  BY <1>1, <1>2, SeenIs
<1>4. PICK f : Stacked(f)
  BY ActivationsAre
<1>5. PICK k \in Nat : k = L - 1
  BY <1>1
<1>6. k \in 0 .. L
  BY <1>1, <1>5
<1>7. f[k] \in Seq(Act) /\ f[L] = f[L - 1] \o Seen(L) /\ f[L] = Activations
  BY <1>1, <1>4, <1>6 DEF Stacked
<1>8. Function(HandledBy(Top.frame)) \in Act
  BY <1>3
<1>9. f[k] \o <<Function(HandledBy(Top.frame))>> = Append(f[k], Function(HandledBy(Top.frame)))
  BY <1>7, <1>8
<1>10. ProgramStack = Append(f[k], Function(HandledBy(Top.frame)))
  BY <1>3, <1>5, <1>7, <1>9 DEF ProgramStack, Running
<1>11. TopFrame = Top.frame /\ Top.frame \in Frame \cup VM
  <2>1. stack_frames[L] \in StackFrame /\ TopFrame = Top.frame
    BY <1>1, StackStructure DEF Structure
  <2> QED BY <1>1, <2>1 DEF StackFrame
<1> QED BY <1>1, <1>2, <1>3, <1>7, <1>10, <1>11

\* Frames above the k-th are popped, the k-th may be in another try.
LEMMA CutShown ==
  ASSUME StacksTyped, StacksTyped', NEW j \in Nat, NEW k \in Nat, j = k - 1, L' = k, k # 0, k <= L, Stay(j),
         NEW S \in SUBSET Act, \A i \in k + 1 .. L : Seen(i) \in Seq(S)
  PROVE  \E t \in Seq(Act), u \in Seq(S) :
           Activations = (t \o Seen(k)) \o u /\ Activations' = t \o Seen(k)'
<1> PICK f, g : Stacked(f) /\ Stacked(g)' /\ f[j] = g[j] /\ f[j] \in Seq(Act)
  BY StackStays
<1>1. L \in Nat /\ k \in 1 .. L /\ k \in 1 .. L' /\ k - 1 = j
  BY DEF StacksTyped, L
<1>2. f[k] = f[j] \o Seen(k) /\ f[L] = Activations
  BY <1>1 DEF Stacked
<1>3. g[k] = g[j] \o Seen(k)' /\ g[k] = Activations'
  BY <1>1 DEF Stacked
<1>4. PICK u \in Seq(S) : f[L] = f[k] \o u
  BY <1>1, ActivationsAbove
<1> QED BY <1>2, <1>3, <1>4

-----------------------------------------------------------------------------
(* The steps that change no more than the top of the stack.                *)

\* A step of the program, or nothing that it sees; and what waits for a run
\* still catches all that the run lets out.
Simulated ==
  /\ Structured!Step \/ (ProgramStack' = ProgramStack /\ raised' = raised)
  /\ WaitingCatchesAll'

\* What the refinement knows before and after a step.
RFacts == /\ StacksTyped /\ StackInv /\ TriesInv /\ TriesOfLoaded /\ RInv
          /\ stack_frames \in Seq(StackFrame) /\ stack_frames # <<>> /\ Structure
          /\ L \in Nat \ {0} /\ L = Len(stack_frames)
          /\ StacksTyped' /\ StackInv' /\ L' \in Nat \ {0} /\ L' = Len(stack_frames')
          /\ stack_frames' \in Seq(StackFrame)

\* The invariant gives this.
LEMMA RFactsHold ==
  ASSUME IInv, RInv, IInv'
  PROVE  RFacts
<1>1. StacksTyped /\ StackInv /\ TriesInv /\ TriesOfLoaded /\ StacksTyped' /\ StackInv'
  BY DEF IInv
<1>2. Structure
  BY <1>1, StackStructure
<1>3. (StacksTyped /\ StackInv => Structure)'
  BY StackStructure, PTL
<1>4. L \in Nat \ {0} /\ L' \in Nat \ {0}
  BY <1>1, <1>2, <1>3 DEF Structure
<1>5. stack_frames # <<>>
  BY <1>4 DEF L
<1> QED BY <1>1, <1>2, <1>4, <1>5 DEF RFacts, L, StacksTyped

\* The tries below the top of the stack stay, and so does what they catch for
\* the frames that wait.
LEMMA WaitsKept ==
  ASSUME RFacts, NEW k \in Nat, k <= L, L' = k, SameBelow(k),
         \A i \in 1 .. k : i < k => tries'[stack_frames[i].frame] = tries[stack_frames[i].frame]
  PROVE  WaitingCatchesAll'
<1> SUFFICES ASSUME NEW i \in 1 .. L', i < L', IsBase(i + 1)'
             PROVE  CatchesAll(stack_frames[i].frame)'
  BY DEF WaitingCatchesAll
<1>1. PICK j \in Nat : j = i + 1
  OBVIOUS
<1>2. i \in 1 .. k /\ i < k /\ j \in 1 .. k /\ i \in 1 .. L /\ i < L
  BY <1>1 DEF RFacts
<1>3. IsBase(j)
  BY <1>1, <1>2, CountsBelow
<1>4. CatchesAll(stack_frames[i].frame)
  BY <1>1, <1>2, <1>3 DEF RFacts, RInv, WaitingCatchesAll
<1>5. stack_frames'[i].frame = stack_frames[i].frame
  BY <1>2 DEF SameBelow
<1>6. tries'[stack_frames[i].frame] = tries[stack_frames[i].frame]
  BY <1>2
<1> QED BY <1>4, <1>5, <1>6 DEF CatchesAll

\* Frames are pushed: a function, or a run that the code on top starts.
LEMMA WaitsGrown ==
  ASSUME RFacts, Running, tries' = tries, SameBelow(L), NEW k \in Nat, NEW q \in Nat, k = L + 1,
         q = k \/ (q = k + 1 /\ stack_frames'[q].frame \in Frame), L' = q,
         stack_frames'[k].frame \in Frame \/ CatchesAll(TopFrame)
  PROVE  WaitingCatchesAll'
<1> SUFFICES ASSUME NEW i \in 1 .. L', i < L', IsBase(i + 1)'
             PROVE  CatchesAll(stack_frames[i].frame)'
  BY DEF WaitingCatchesAll
<1>1. PICK j \in Nat : j = i + 1
  OBVIOUS
<1>2. stack_frames'[j].frame \notin Frame
  BY <1>1, CallStackAssumption DEF IsBase
<1>3. j # k + 1 /\ i \in 1 .. L /\ i <= L
  <2>1. j # k + 1
    BY <1>1, <1>2 DEF RFacts
  <2> QED BY <1>1, <2>1 DEF RFacts
<1>4. stack_frames'[i].frame = stack_frames[i].frame
  BY <1>3 DEF SameBelow
<1>5. CASE i = L
  <2>1. CatchesAll(TopFrame)
    BY <1>1, <1>2, <1>5
  <2>2. TopFrame = stack_frames[L].frame
    BY TopShown DEF RFacts
  <2> QED BY <1>4, <1>5, <2>1, <2>2 DEF CatchesAll
<1>6. CASE i # L
  <2>1. j \in 1 .. L /\ i < L /\ L \in Nat
    BY <1>1, <1>3, <1>6 DEF RFacts
  <2>2. IsBase(j)
    BY <1>1, <2>1, CountsBelow
  <2>3. CatchesAll(stack_frames[i].frame)
    BY <1>1, <1>3, <2>1, <2>2 DEF RFacts, RInv, WaitingCatchesAll
  <2> QED BY <1>4, <2>3 DEF CatchesAll
<1> QED BY <1>5, <1>6

\* A step that changes none of what is seen.
LEMMA SameSim ==
  ASSUME RFacts, L' = L, SameBelow(L), runs' = runs, tries' = tries,
         mode # "done", mode' # "done", raised' = raised
  PROVE  Simulated
<1>1. WaitingCatchesAll'
  BY WaitsKept DEF RFacts
<1> QED BY <1>1, SameShown DEF Simulated, RFacts

\* The opcodes that only change the open calls of the top frame.
LEMMA OpenSim ==
  ASSUME RFacts, NEW o, stack_frames' = WithOpen(stack_frames, o),
         UNCHANGED <<runs, tries, raised>>, mode # "done", mode' # "done"
  PROVE  Simulated
<1>1. L' = L /\ SameBelow(L)
  BY WithOpenShape DEF RFacts, SameBelow
<1> QED BY <1>1, SameSim

\* PushCallFrame only opens a call.
LEMMA PushCallFrameSim ==
  ASSUME RFacts, NEW c \in CallFrame, PushCallFrame(c)
  PROVE  Simulated
BY OpenSim DEF PushCallFrame

\* CallNative only closes one.
LEMMA CallNativeSim ==
  ASSUME RFacts, CallNative
  PROVE  Simulated
BY OpenSim DEF CallNative, AtCall

\* The stack that does not change has the same frames.
LEMMA SameStack ==
  ASSUME RFacts, stack_frames' = stack_frames
  PROVE  L' = L /\ SameBelow(L)
BY DEF RFacts, SameBelow

\* The program does not see that the code of a module ends.
LEMMA EndCodeSim ==
  ASSUME RFacts, EndCode
  PROVE  Simulated
BY SameStack, SameSim DEF EndCode, AtStatement

\* The opcode that is executed again raises the same: it is no call, callback
\* or import.
LEMMA AgainSim ==
  ASSUME RFacts, Again
  PROVE  Simulated
<1>1. mode = "again" /\ UNCHANGED <<stack_frames, runs, tries>>
      /\ mode' = (IF by_call THEN "run" ELSE "throw") /\ raised' = (IF by_call THEN None ELSE raised)
  BY DEF Again
<1>2. ~by_call
  BY <1>1 DEF RFacts, RInv, ExceptionInv
<1> QED BY <1>1, <1>2, SameStack, SameSim

\* Nothing happens.
LEMMA StutterSim ==
  ASSUME RFacts, UNCHANGED vars
  PROVE  Simulated
<1>1. UNCHANGED <<stack_frames, runs, tries, raised, mode>>
  BY DEF vars
<1>2. CASE mode = "done"
  <2>1. L \in Nat /\ L' = L /\ SameBelow(L) /\ tries' = tries
    BY <1>1, SameStack DEF RFacts
  <2>2. WaitingCatchesAll'
    BY <2>1, WaitsKept
  <2> QED BY <1>1, <1>2, <2>2 DEF Simulated, ProgramStack
<1>3. CASE mode # "done"
  BY <1>1, <1>3, SameStack, SameSim
<1> QED BY <1>2, <1>3

\* There is an activation while code runs.
LEMMA StackShown ==
  ASSUME RFacts, Running
  PROVE  ProgramStack # <<>> /\ ProgramStack \in Seq(Act)
<1>1. PICK t \in Seq(Act) : ProgramStack = Append(t, Function(HandledBy(Top.frame)))
  BY TopShown DEF RFacts
<1>2. Function(HandledBy(Top.frame)) \in Act
  <2>1. Top.frame \in Frame \cup VM
    BY TopShown DEF RFacts
  <2>2. HandledBy(Top.frame) \in Seq(SUBSET Exception)
    BY <2>1, HandledType DEF RFacts
  <2> QED BY <2>2 DEF Act, Function
<1> QED BY <1>1, <1>2, TopOf

\* An exception is raised by the code on top.
LEMMA RaisingSim ==
  ASSUME RFacts, mode = "run", mode' = "throw", UNCHANGED <<stack_frames, runs, tries>>,
         raised' \in Exception
  PROVE  Simulated
<1>1. raised = None
  BY DEF RFacts, RInv, ExceptionInv
<1>2. ProgramStack' = ProgramStack
  BY SameStack, SameShown DEF RFacts
<1>3. ProgramStack # <<>>
  <2>1. Running
    BY DEF Running
  <2> QED BY <2>1, StackShown
<1>4. WaitingCatchesAll'
  <2>1. L \in Nat /\ L' = L /\ SameBelow(L) /\ tries' = tries
    BY SameStack DEF RFacts
  <2> QED BY <2>1, WaitsKept
<1> QED BY <1>1, <1>2, <1>3, <1>4, RaiseShown DEF Simulated

\* Raise and RaiseInCall.
LEMMA RaiseSim ==
  ASSUME RFacts, NEW e \in Exception, Raise(e) \/ RaiseInCall(e)
  PROVE  Simulated
<1>1. CASE Raise(e)
  BY <1>1, RaisingSim DEF Raise
<1>2. CASE RaiseInCall(e)
  BY <1>2, RaisingSim DEF RaiseInCall, AtCall
<1> QED BY <1>1, <1>2

-----------------------------------------------------------------------------
(* Calls, callbacks and imports.                                           *)

\* The empty sequence is one of anything.
LEMMA NothingIsSeq ==
  ASSUME NEW S
  PROVE  <<>> \in Seq(S)
OBVIOUS

\* A function that has just been called is in no try.
LEMMA FunctionSeen ==
  ASSUME NEW k \in Nat, stack_frames'[k].frame \in Frame, tries'[stack_frames'[k].frame] = <<>>
  PROVE  Seen(k)' = <<Function(<<>>)>> /\ ~IsBase(k)'
<1>1. ~IsBase(k)'
  BY CallStackAssumption DEF IsBase
<1>2. HandledBy(stack_frames[k].frame)' = <<>>
  BY DEF HandledBy
<1>3. Seen(k)' = <<[native |-> FALSE, tries |-> HandledBy(stack_frames[k].frame)']>>
  BY <1>1 DEF Seen
<1>4. Seen(k)' = <<[native |-> FALSE, tries |-> <<>>]>>
  BY <1>2, <1>3
<1> QED BY <1>1, <1>4 DEF Function

\* The base of a run that has just been started.
LEMMA BaseSeen ==
  ASSUME NEW k \in Nat, stack_frames'[k].frame \in VM, RunOf(k)' = Len(runs'),
         tries'[stack_frames'[k].frame] = <<>>,
         NEW kind, runs'[Len(runs')].kind = kind
  PROVE  /\ kind = "call" => Seen(k)' = <<>>
         /\ kind = "native" => Seen(k)' = <<NativeCode>>
         /\ kind = "import" => Seen(k)' = <<Function(<<>>)>>
<1>1. IsBase(k)'
  BY DEF IsBase
<1>2. runs'[RunOf(k)'].kind = kind
  OBVIOUS
<1>3. HandledBy(stack_frames[k].frame)' = <<>>
  BY DEF HandledBy
<1>4. CASE kind = "call"
  BY <1>1, <1>2, <1>4 DEF Seen
<1>5. CASE kind = "native"
  <2>1. Seen(k)' = <<[native |-> TRUE, tries |-> <<>>]>>
    BY <1>1, <1>2, <1>5 DEF Seen
  <2> QED BY <1>5, <2>1 DEF NativeCode
<1>6. CASE kind = "import"
  <2>1. Seen(k)' = <<[native |-> FALSE, tries |-> HandledBy(stack_frames[k].frame)']>>
    BY <1>1, <1>2, <1>6 DEF Seen
  <2>2. Seen(k)' = <<[native |-> FALSE, tries |-> <<>>]>>
    BY <1>3, <2>1
  <2> QED BY <1>6, <2>2 DEF Function
<1> QED BY <1>4, <1>5, <1>6

\* One activation more.
LEMMA PushedShown ==
  ASSUME RFacts, mode = "run", mode' = "run", raised' = raised, tries' = tries,
         runs' = runs \/ \E a \in Activation : runs' = Append(runs, a),
         NEW k \in Nat, k = L + 1, L' = k, SameBelow(L), Seen(k)' = <<Function(<<>>)>>,
         stack_frames'[k].frame \in Frame \/ CatchesAll(TopFrame)
  PROVE  Simulated
<1>1. Stay(L)
  BY StayIf DEF RFacts
<1>2. Activations' = Activations \o Seen(k)'
  BY <1>1, ActivationsGrow DEF RFacts
<1>3. ProgramStack # <<>> /\ ProgramStack \in Seq(Act) /\ ProgramStack = Activations
      /\ ProgramStack' = Activations'
  BY StackShown DEF Running, ProgramStack
<1>4. Function(<<>>) \in Act
  BY NothingIsSeq DEF Function, Act
<1>5. ProgramStack' = Append(ProgramStack, Function(<<>>))
  BY <1>2, <1>3, <1>4
<1>6. raised = None
  BY DEF RFacts, RInv, ExceptionInv
<1>7. WaitingCatchesAll'
  BY WaitsGrown DEF Running
<1> QED BY <1>3, <1>5, <1>6, <1>7, CallShown DEF Simulated

\* A frame that has just been made is in no try.
LEMMA FreshTries ==
  ASSUME RFacts, NEW f \in Frame, Fresh(f)
  PROVE  tries[f] = <<>>
BY FreshNotOnStack DEF RFacts, TriesInv, TriesOfStack

\* The frame of a function or of the body of a class is pushed.
LEMMA FunctionPushed ==
  ASSUME RFacts, mode = "run", mode' = "run", NEW f \in Frame, Fresh(f),
         NEW c \in CallFrame \cup {None}, NEW s \in Seq(StackFrame), PushFrames(Current, <<f>>, c, s),
         Len(s) = L, \A i \in 1 .. L : /\ s[i].frame = stack_frames[i].frame /\ s[i].vm = stack_frames[i].vm
                                       /\ s[i].call_frame = stack_frames[i].call_frame,
         UNCHANGED <<runs, tries, raised>>
  PROVE  Simulated
<1>1. StacksTyped /\ Current \in VM /\ L \in Nat
  BY DEF RFacts, Structure
<1>2. stack_frames' = Append(s, NewFrame(f, Current, c)) /\ NewFrame(f, Current, c).frame = f
  BY <1>1, PushFrameIs
<1>3. PICK k \in Nat : k = L + 1
  BY <1>1
<1>4. L' = k /\ stack_frames'[k].frame = f /\ \A i \in 1 .. L : stack_frames'[i] = s[i]
  <2>1. \A x : Len(Append(s, x)) = Len(s) + 1 /\ Append(s, x)[Len(s) + 1] = x
               /\ \A i \in 1 .. Len(s) : Append(s, x)[i] = s[i]
    BY IsSequenceOf, SequenceAppended
  <2> QED BY <1>2, <1>3, <2>1 DEF L
<1>5. SameBelow(L)
  BY <1>4 DEF SameBelow
<1>6. tries[f] = <<>>
  BY FreshTries
<1>7. Seen(k)' = <<Function(<<>>)>>
  <2>1. stack_frames'[k].frame \in Frame /\ tries'[stack_frames'[k].frame] = <<>>
    BY <1>4, <1>6
  <2> QED BY <2>1, FunctionSeen
<1> QED BY <1>3, <1>4, <1>5, <1>7, PushedShown

\* The body of a class is an activation.
LEMMA BeginClassSim ==
  ASSUME RFacts, NEW f \in Frame, BeginClass(f)
  PROVE  Simulated
<1>1. /\ mode = "run" /\ mode' = "run" /\ Fresh(f) /\ PushFrames(Current, <<f>>, None, stack_frames)
      /\ UNCHANGED <<runs, tries, raised>>
  BY DEF BeginClass, AtStatement
<1>2. stack_frames \in Seq(StackFrame) /\ Len(stack_frames) = L
  BY DEF RFacts
<1> QED BY <1>1, <1>2, FunctionPushed

\* What a Call finds.
LEMMA AtCallShown ==
  ASSUME IInv, AtCall
  PROVE  TopCall \in CallFrame /\ Front(Top.open) \in Seq(CallFrame)
<1>1. mode = "run"
  BY DEF AtCall
<1>2. PICK H \in Heights, hang \in BOOLEAN, n \in Nat : Given(H, hang, n)
  BY GivenHolds
<1>3. PICK l \in Nat, top \in Nat : RunningNow(H, hang, n, l, top)
  BY <1>1, <1>2, RunningIs
<1>4. AtCallFacts(n, l, top)
  BY <1>1, <1>2, <1>3, AtCallIs
<1>5. Top = stack_frames[n]
  BY <1>3 DEF RunningNow
<1> QED BY <1>4, <1>5 DEF AtCallFacts

\* Call of a function of the same VM.
LEMMA CallFunctionSim ==
  ASSUME IInv, RFacts, NEW f \in Frame, CallFunction(f)
  PROVE  Simulated
<1>1. /\ mode = "run" /\ mode' = "run" /\ Fresh(f) /\ AtCall
      /\ PushFrames(Current, <<f>>, TopCall, WithOpen(stack_frames, Front(Top.open)))
      /\ UNCHANGED <<runs, tries, raised>>
  BY DEF CallFunction, AtCall
<1>5. Front(Top.open) \in Seq(CallFrame) /\ TopCall \in CallFrame
  BY <1>1, AtCallShown
<1>6. PICK s \in Seq(StackFrame) : s = WithOpen(stack_frames, Front(Top.open))
  BY <1>5, WithOpenIs DEF RFacts
<1>7. Len(s) = L /\ \A i \in 1 .. L : /\ s[i].frame = stack_frames[i].frame /\ s[i].vm = stack_frames[i].vm
                                       /\ s[i].call_frame = stack_frames[i].call_frame
  <2>1. stack_frames \in Seq(StackFrame) /\ stack_frames # <<>> /\ Len(stack_frames) = L
    BY DEF RFacts
  <2> QED BY <1>6, <2>1, WithOpenShape
<1>8. PushFrames(Current, <<f>>, TopCall, s) /\ TopCall \in CallFrame \cup {None}
  BY <1>1, <1>5, <1>6
<1> QED BY <1>1, <1>7, <1>8, FunctionPushed

\* A function called by another run of run.
LEMMA RunPushed ==
  ASSUME RFacts, mode = "run", mode' = "run", NEW m \in VM, NEW f \in Frame, NEW c \in CallFrame,
         NEW kind \in ForFunction, Fresh(f), tries[m] = <<>>, CatchesAll(TopFrame), PushFrames(m, <<m, f>>, c, stack_frames),
         runs' = Append(runs, [vm |-> m, kind |-> kind, call_frame |-> c]),
         UNCHANGED <<tries, raised>>
  PROVE  Simulated
<1>1. StacksTyped /\ L \in Nat /\ stack_frames \in Seq(StackFrame) /\ L = Len(stack_frames)
      /\ runs \in Seq(Activation)
  BY DEF RFacts, StacksTyped
<1>2. stack_frames' = Append(Append(stack_frames, NewFrame(m, m, None)), NewFrame(f, m, c))
  <2>1. f \in Frame \cup VM
    OBVIOUS
  <2> QED BY <1>1, <2>1, PushTwoFramesAre
<1>3. /\ NewFrame(m, m, None) \in StackFrame /\ NewFrame(f, m, c) \in StackFrame
      /\ NewFrame(m, m, None).frame = m /\ NewFrame(f, m, c).frame = f
  BY DEF NewFrame, StackFrame
<1>4. PICK k \in Nat, q \in Nat : k = L + 1 /\ q = L + 2 /\ q = k + 1 /\ q - 1 = k
  BY <1>1
<1>5. /\ L' = q /\ \A i \in 1 .. L : stack_frames'[i] = stack_frames[i]
      /\ stack_frames'[k].frame = m /\ stack_frames'[q].frame = f
  BY <1>1, <1>2, <1>3, <1>4 DEF L
<1>6. SameBelow(L)
  BY <1>5 DEF SameBelow
<1>7. PICK a \in Activation : runs' = Append(runs, a) /\ a.kind = kind
  <2>1. [vm |-> m, kind |-> kind, call_frame |-> c] \in Activation
    BY DEF Activation, ForFunction
  <2> QED BY <2>1
<1>8. runs'[Len(runs')].kind = kind
  BY <1>1, <1>7
<1>9. Stay(L)
  BY <1>1, <1>5, <1>6, <1>7, <1>4, StayIf DEF RFacts
<1>10. tries[f] = <<>>
  BY FreshTries
<1>11. Seen(q)' = <<Function(<<>>)>> /\ ~IsBase(q)'
  <2>1. stack_frames'[q].frame \in Frame /\ tries'[stack_frames'[q].frame] = <<>>
    BY <1>5, <1>10
  <2> QED BY <2>1, FunctionSeen
<1>12. RunOf(k)' = Len(runs')
  <2>1. RunOf(q)' = Len(runs')
    BY <1>4, <1>5 DEF RFacts, StackInv, RunsOnStack
  <2>2. RunFacts'
    BY CountsNext
  <2>3. q \in Nat \ {0}
    BY <1>4
  <2>4. RunOf(q - 1)' \in Nat /\ RunOf(q)' = RunOf(q - 1)' + (IF IsBase(q)' THEN 1 ELSE 0)
    BY <2>2, <2>3 DEF RunFacts
  <2>5. RunOf(q)' = RunOf(k)'
    BY <1>4, <1>11, <2>4
  <2> QED BY <2>1, <2>5
<1>13. /\ kind = "call" => Seen(k)' = <<>>
       /\ kind = "native" => Seen(k)' = <<NativeCode>>
  <2>1. stack_frames'[k].frame \in VM /\ tries'[stack_frames'[k].frame] = <<>>
    BY <1>5
  <2> QED BY <1>8, <1>12, <2>1, BaseSeen
<1>14. Activations' = (Activations \o Seen(k)') \o Seen(q)'
  BY <1>4, <1>5, <1>9, ActivationsGrowTwice DEF RFacts
<1>15. ProgramStack # <<>> /\ ProgramStack \in Seq(Act) /\ ProgramStack = Activations
      /\ ProgramStack' = Activations'
  BY StackShown DEF Running, ProgramStack
<1>16. Function(<<>>) \in Act /\ NativeCode \in Act
  BY NothingIsSeq DEF Function, Act, NativeCode
<1>17. raised = None
  BY DEF RFacts, RInv, ExceptionInv
<1>20. WaitingCatchesAll'
  <2>1. Running
    BY DEF Running
  <2> QED BY <1>4, <1>5, <1>6, <2>1, WaitsGrown
<1>18. CASE kind = "call"
  <2>1. ProgramStack' = Append(ProgramStack, Function(<<>>))
    BY <1>11, <1>13, <1>14, <1>15, <1>16, <1>18
  <2> QED BY <1>15, <1>17, <1>20, <2>1, CallShown DEF Simulated
<1>19. CASE kind = "native"
  <2>1. ProgramStack' = ProgramStack \o <<NativeCode, Function(<<>>)>>
    <3>1. ProgramStack' = (ProgramStack \o <<NativeCode>>) \o <<Function(<<>>)>>
      BY <1>11, <1>13, <1>14, <1>15, <1>19
    <3>2. \A p \in Seq(Act), x, y \in Act : (p \o <<x>>) \o <<y>> = p \o <<x, y>>
      <4> TAKE p \in Seq(Act), x, y \in Act
      <4>1. p \o <<x>> = Append(p, x) /\ p \o <<x, y>> = Append(Append(p, x), y)
        BY ConcatIs
      <4>2. Append(p, x) \in Seq(Act)
        OBVIOUS
      <4>3. Append(p, x) \o <<y>> = Append(Append(p, x), y)
        BY <4>2, ConcatIs
      <4> QED BY <4>1, <4>3
    <3> QED BY <1>15, <1>16, <3>1, <3>2
  <2> QED BY <1>15, <1>17, <1>20, <2>1, CallbackShown DEF Simulated
<1> QED BY <1>18, <1>19 DEF ForFunction

\* Without "guarded" the VM that runs again is in no try.
LEMMA StartedUnguarded ==
  ASSUME StructuredFeatures, NEW m, MayStart(m)
  PROVE  tries[m] = <<>>
BY DEF StructuredFeatures, WorkingFeatures, MayStart

\* Call of a function of another VM: nothing is seen of the run that it
\* starts.
LEMMA CallModuleSim ==
  ASSUME IInv, RFacts, StructuredFeatures, NEW m \in VM, NEW f \in Frame, CallModule(m, f)
  PROVE  Simulated
<1>1. /\ mode = "run" /\ mode' = "run" /\ AtCall /\ Fresh(f) /\ MayStart(m)
      /\ PushFrames(m, <<m, f>>, TopCall, stack_frames)
      /\ runs' = Append(runs, [vm |-> m, kind |-> "call", call_frame |-> TopCall])
      /\ UNCHANGED <<tries, raised>>
  BY DEF CallModule, AtCall
<1>2. TopCall \in CallFrame /\ tries[m] = <<>> /\ "call" \in ForFunction
  BY <1>1, AtCallShown, StartedUnguarded DEF ForFunction
<1>3. CatchesAll(TopFrame)
  BY DEF CallModule, MayLetOut, CatchesAll, StructuredFeatures, WorkingFeatures
<1> QED BY <1>1, <1>2, <1>3, RunPushed

\* A callback shows the native code and the function.
LEMMA CallBackSim ==
  ASSUME RFacts, StructuredFeatures, NEW m \in VM, NEW f \in Frame, NEW c \in CallFrame,
         CallBack(m, f, c)
  PROVE  Simulated
<1>1. /\ mode = "run" /\ mode' = "run" /\ Fresh(f) /\ MayStart(m)
      /\ PushFrames(m, <<m, f>>, c, stack_frames)
      /\ runs' = Append(runs, [vm |-> m, kind |-> "native", call_frame |-> c])
      /\ UNCHANGED <<tries, raised>>
  BY DEF CallBack
<1>2. tries[m] = <<>> /\ "native" \in ForFunction
  BY <1>1, StartedUnguarded DEF ForFunction
<1>3. CatchesAll(TopFrame)
  BY DEF CallBack, MayLetOut, CatchesAll, StructuredFeatures
<1> QED BY <1>1, <1>2, <1>3, RunPushed

\* The code of a module is an activation.
LEMMA ImportSim ==
  ASSUME RFacts, StructuredFeatures, NEW m \in VM, Import(m)
  PROVE  Simulated
<1>1. /\ mode = "run" /\ mode' = "run" /\ m \in VM \ loaded
      /\ stack_frames' = Append(stack_frames,
           [frame |-> m, vm |-> m, call_frame |-> None, open |-> <<>>])
      /\ runs' = Append(runs, [vm |-> m, kind |-> "import", call_frame |-> None])
      /\ UNCHANGED <<tries, raised>>
  BY DEF Import, AtStatement
<1>2. PICK a \in Activation : runs' = Append(runs, a) /\ a.kind = "import"
  <2>1. [vm |-> m, kind |-> "import", call_frame |-> None] \in Activation
    BY DEF Activation
  <2> QED BY <1>1, <2>1
<1>3. runs \in Seq(Activation) /\ stack_frames \in Seq(StackFrame) /\ L = Len(stack_frames) /\ L \in Nat
  BY DEF RFacts, StacksTyped
<1>4. runs'[Len(runs')].kind = "import"
  BY <1>2, <1>3
<1>5. PICK k \in Nat : k = L + 1
  BY <1>3
<1>6. L' = k /\ stack_frames'[k].frame = m /\ \A i \in 1 .. L : stack_frames'[i] = stack_frames[i]
  BY <1>1, <1>3, <1>5 DEF L
<1>7. SameBelow(L)
  BY <1>6 DEF SameBelow
<1>8. tries[m] = <<>>
  BY <1>1 DEF RFacts, TriesOfLoaded
<1>9. stack_frames'[k].frame \in VM /\ tries'[stack_frames'[k].frame] = <<>>
  BY <1>1, <1>6, <1>8
<1>10. RunOf(k)' = Len(runs')
  BY <1>6 DEF RFacts, StackInv, RunsOnStack
<1>11. Seen(k)' = <<Function(<<>>)>>
  BY <1>4, <1>9, <1>10, BaseSeen
<1>12. CatchesAll(TopFrame)
  BY DEF Import, MayLetOut, CatchesAll, StructuredFeatures
<1> QED BY <1>1, <1>2, <1>5, <1>6, <1>7, <1>11, <1>12, PushedShown

-----------------------------------------------------------------------------
(* Returns, and the ends of runs.                                          *)

\* Frames that are popped take no tries from the ones below.
LEMMA TriesBelowPop ==
  ASSUME StacksTyped, StackInv, NEW k \in Base .. L
  PROVE  \A i \in 1 .. k : TriesWithout(L - k)[stack_frames[i].frame] = tries[stack_frames[i].frame]
<1> TAKE i \in 1 .. k
<1>1. Structure /\ VM \cap Frame = {}
  BY StackStructure, CallStackAssumption
<1>2. L \in Nat \ {0} /\ Base \in 1 .. L /\ i \in 1 .. L /\ k \in Nat /\ L - k \in 0 .. L - Base
      /\ L - (L - k) + 1 = k + 1
  BY <1>1 DEF Structure
<1>3. stack_frames[i].frame \in Frame \cup VM
  BY <1>1, <1>2 DEF Structure, StackFrame
<1>4. TriesWithout(L - k)[stack_frames[i].frame] =
        IF stack_frames[i].frame \in Frame
           /\ \E j \in k + 1 .. L : stack_frames[j].frame = stack_frames[i].frame
        THEN <<>> ELSE tries[stack_frames[i].frame]
  <2>1. PICK n \in 0 .. L - Base : n = L - k
    BY <1>2
  <2>2. TriesWithout(L - k)[stack_frames[i].frame] =
          IF stack_frames[i].frame \in Frame
             /\ \E j \in L - n + 1 .. L : stack_frames[j].frame = stack_frames[i].frame
          THEN <<>> ELSE tries[stack_frames[i].frame]
    BY <1>3, <2>1, TriesWithoutIs
  <2>3. L - n + 1 = k + 1
    BY <1>2, <2>1
  <2> QED BY <2>2, <2>3
<1>5. CASE stack_frames[i].frame \in Frame
  <2>1. ~IsBase(i)
    BY <1>1, <1>5 DEF IsBase
  <2>2. \A j \in k + 1 .. L : i < j /\ j \in 1 .. L
    BY <1>2
  <2>3. \A j \in k + 1 .. L : stack_frames[i].frame # stack_frames[j].frame
    BY <1>2, <2>1, <2>2 DEF StackInv, FramesOfStack
  <2> QED BY <1>4, <2>3
<1>6. CASE stack_frames[i].frame \notin Frame
  BY <1>4, <1>6
<1> QED BY <1>5, <1>6

\* One activation less.
LEMMA PoppedShown ==
  ASSUME RFacts, mode # "done", mode' # "done", NEW k \in Nat, L = k + 1, L' = k, Stay(k)
  PROVE  /\ ProgramStack = ProgramStack' \o Seen(L) /\ ProgramStack' \in Seq(Act)
         /\ \A a \in Act : Seen(L) = <<a>> => ProgramStack = Append(ProgramStack', a)
         /\ Seen(L) = <<>> => ProgramStack' = ProgramStack
<1>1. Activations = Activations' \o Seen(L) /\ Activations' \in Seq(Act)
  BY ActivationsShrink DEF RFacts
<1>2. ProgramStack = ProgramStack' \o Seen(L) /\ ProgramStack' \in Seq(Act)
  BY <1>1 DEF ProgramStack
<1>3. ASSUME NEW a \in Act, Seen(L) = <<a>> PROVE ProgramStack = Append(ProgramStack', a)
  BY <1>2, <1>3, ConcatIs
<1>4. ASSUME Seen(L) = <<>> PROVE ProgramStack' = ProgramStack
  BY <1>2, <1>4
<1> QED BY <1>2, <1>3, <1>4

\* The activation on top returns.
LEMMA PopSim ==
  ASSUME RFacts, mode # "done", mode' # "done", NEW k \in Nat, L = k + 1, L' = k, Stay(k),
         WaitingCatchesAll',
         NEW a \in Act, Seen(L) = <<a>>, raised = None, raised' = raised
  PROVE  Simulated
<1>1. ProgramStack = Append(ProgramStack', a) /\ ProgramStack' \in Seq(Act)
  BY PoppedShown
<1> QED BY <1>1, ReturnShown DEF Simulated

\* The frame on top goes.
LEMMA TopGone ==
  ASSUME RFacts, stack_frames' = StackWithout(1), L # 1
  PROVE  \E k \in Nat \ {0} : L = k + 1 /\ L' = k /\ L - k = 1 /\ SameBelow(k)
<1>1. 1 \in 0 .. L /\ StacksTyped
  BY DEF RFacts
<1>2. PICK k \in Nat \ {0} : k = L - 1
  BY DEF RFacts
<1>3. L' = k /\ \A i \in 1 .. k : stack_frames'[i] = stack_frames[i]
  BY <1>1, <1>2, StackWithoutIs DEF L
<1>4. SameBelow(k)
  BY <1>3 DEF SameBelow
<1>5. L = k + 1 /\ L - k = 1
  BY <1>2 DEF RFacts
<1> QED BY <1>3, <1>4, <1>5

\* The frame of a function or of the body of a class is popped.
LEMMA FunctionGone ==
  ASSUME RFacts, mode = "run", mode' \in {"run", "end"}, stack_frames' = StackWithout(1),
         UNCHANGED <<runs, raised>>, Top.frame \in Frame,
         tries' = tries \/ tries' = TriesWithout(1)
  PROVE  Simulated
<1>1. /\ StacksTyped /\ StackInv /\ Structure /\ Running /\ VM \cap Frame = {}
  BY CallStackAssumption DEF RFacts, Running
<1>2. Top = stack_frames[L] /\ Top.frame \in Frame \cup VM /\ Seen(L) = <<Function(HandledBy(Top.frame))>>
  BY <1>1, TopShown
<1>3. ~IsBase(L)
  BY <1>1, <1>2 DEF IsBase
<1>4. Base \in 1 .. L /\ Base # L /\ L \in Nat \ {0}
  BY <1>1, <1>3 DEF Structure
<1>5. L # 1
  BY <1>4
<1> PICK k \in Nat \ {0} : L = k + 1 /\ L' = k /\ L - k = 1 /\ SameBelow(k)
  BY <1>5, TopGone
<1>6. k \in Base .. L /\ k <= L /\ k <= L'
  BY <1>4
<1>7. \A i \in 1 .. k : tries'[stack_frames[i].frame] = tries[stack_frames[i].frame]
  <2>1. CASE tries' = TriesWithout(1)
    <3>1. \A i \in 1 .. k : TriesWithout(L - k)[stack_frames[i].frame] = tries[stack_frames[i].frame]
      BY <1>1, <1>6, TriesBelowPop
    <3>2. L - k = 1
      OBVIOUS
    <3> QED BY <2>1, <3>1, <3>2
  <2> QED BY <2>1
<1>8. Stay(k)
  BY <1>1, <1>6, <1>7, StayIf
<1>9. Function(HandledBy(Top.frame)) \in Act
  BY <1>1, <1>2, HandledType DEF Act, Function
<1>10. raised = None
  BY DEF RFacts, RInv, ExceptionInv
<1>11. WaitingCatchesAll'
  BY <1>6, <1>7, WaitsKept
<1> QED BY <1>2, <1>8, <1>9, <1>10, <1>11, PopSim

\* The body of a class ends.
LEMMA EndClassSim ==
  ASSUME RFacts, EndClass
  PROVE  Simulated
<1>1. /\ mode = "run" /\ mode' = mode /\ stack_frames' = StackWithout(1) /\ Top.frame \in Frame
      /\ UNCHANGED <<runs, raised, tries>>
  BY DEF EndClass, AtStatement
<1> QED BY <1>1, FunctionGone

\* A function returns.
LEMMA ReturnSim ==
  ASSUME RFacts, Return
  PROVE  Simulated
<1>1. /\ mode = "run" /\ mode' \in {"run", "end"} /\ stack_frames' = StackWithout(1) /\ Top.call_frame # None
      /\ UNCHANGED <<runs, raised>> /\ tries' = TriesWithout(1)
  BY DEF Return, AtStatement
<1>2. Running
  BY <1>1 DEF Running
<1>3. Top.frame \in Frame
  <2>1. L \in 1 .. L /\ Top = stack_frames[L]
    BY <1>2, TopShown DEF RFacts
  <2>2. ~IsBase(L)
    BY <1>1, <2>1 DEF RFacts, StackInv, FramesOfStack
  <2> QED BY <2>1, <2>2 DEF RFacts, Structure
<1> QED BY <1>1, <1>3, FunctionGone

\* A run ends: its base goes.
LEMMA BaseGone ==
  ASSUME IInv, RFacts, mode \in {"end", "leave"}, Last(runs).kind # "main", runs' = Front(runs), tries' = tries,
         stack_frames' = StackWithout(1) \/ \E o : stack_frames' = WithOpen(StackWithout(1), o)
  PROVE  /\ \E k \in Nat \ {0} : L = k + 1 /\ L' = k /\ Stay(k)
         /\ WaitingCatchesAll'
         /\ Last(runs).kind = "call" => Seen(L) = <<>>
         /\ Last(runs).kind = "native" => Seen(L) = <<NativeCode>>
         /\ Last(runs).kind = "import" => /\ Seen(L) = <<Function(HandledBy(Top.frame))>>
                                          /\ Function(HandledBy(Top.frame)) \in Act
<1>1. PICK H \in Heights, hang \in BOOLEAN, n \in Nat, k \in Nat : EndFacts(H, hang, n, k)
  BY EndIs
<1>2. /\ n = L /\ k \in Nat \ {0} /\ n = k + 1 /\ n - 1 = k /\ n = Base /\ IsBase(n)
      /\ KindOf(n) = Last(runs).kind
  BY <1>1 DEF EndFacts
<1>3. StacksTyped /\ StackInv /\ L \in 1 .. L /\ 1 \in 0 .. L /\ L \in Nat \ {0} /\ Top = stack_frames[L]
  BY DEF RFacts, Top, Last, L
<1>4. PICK s \in Seq(StackFrame) : s = StackWithout(1)
  BY <1>3, StackWithoutIs
<1>5. Len(s) = k /\ \A i \in 1 .. k : s[i] = stack_frames[i]
  BY <1>2, <1>3, <1>4, StackWithoutIs
<1>6. L' = k /\ SameBelow(k)
  <2>1. CASE stack_frames' = s
    BY <1>5, <2>1 DEF L, SameBelow
  <2>2. CASE \E o : stack_frames' = WithOpen(s, o)
    <3>1. PICK o : stack_frames' = WithOpen(s, o)
      BY <2>2
    <3>2. s # <<>> /\ WithOpen(s, o) \in Seq(StackFrame)
      BY <1>2, <1>5, <3>1 DEF RFacts
    <3>3. Len(stack_frames') = k /\ \A i \in 1 .. k : /\ stack_frames'[i].frame = s[i].frame
                                                       /\ stack_frames'[i].vm = s[i].vm
                                                       /\ stack_frames'[i].call_frame = s[i].call_frame
      BY <1>5, <3>1, <3>2, WithOpenShape
    <3> QED BY <1>5, <3>3 DEF L, SameBelow
  <2> QED BY <1>4, <2>1, <2>2
<1>7. Stay(k)
  <2>1. k <= L /\ k <= L' /\ k < Base
    BY <1>2, <1>6
  <2> QED BY <1>3, <1>6, <2>1, StayIf
<1>8. /\ KindOf(L) = "call" => Seen(L) = <<>>
      /\ KindOf(L) = "native" => Seen(L) = <<NativeCode>>
  BY <1>2, <1>3, SeenIs DEF NativeCode
<1>9. KindOf(L) = "import" => Seen(L) = <<Function(HandledBy(Top.frame))>> /\ Seen(L) \in Seq(Act)
  BY <1>3, SeenIs DEF StartsFunction, ForFunction
<1>10. KindOf(L) = "import" => Function(HandledBy(Top.frame)) \in Act
  <2>1. \A a : <<a>> \in Seq(Act) => a \in Act
    OBVIOUS
  <2> QED BY <1>9, <2>1
<1>11. WaitingCatchesAll'
  <2>1. k \in Nat /\ k <= L
    BY <1>2
  <2> QED BY <1>6, <2>1, WaitsKept
<1> QED BY <1>2, <1>6, <1>7, <1>8, <1>9, <1>10, <1>11

\* The run of a call, of a callback or of an import ends.
LEMMA EndSim ==
  ASSUME IInv, RFacts, EndCall \/ EndImport
  PROVE  Simulated
<1>1. /\ mode = "end" /\ mode' = "run" /\ Last(runs).kind \in {"call", "native", "import"}
      /\ runs' = Front(runs) /\ UNCHANGED <<tries, raised>>
      /\ stack_frames' = StackWithout(1) \/ \E o : stack_frames' = WithOpen(StackWithout(1), o)
  BY DEF EndCall, EndImport
<1>2. PICK k \in Nat \ {0} : L = k + 1 /\ L' = k /\ Stay(k)
  BY <1>1, BaseGone
<1>7. WaitingCatchesAll'
  BY <1>1, BaseGone
<1>3. raised = None
  BY <1>1 DEF RFacts, RInv, ExceptionInv
<1>4. CASE Last(runs).kind = "call"
  <2>1. Seen(L) = <<>>
    BY <1>1, <1>4, BaseGone
  <2> QED BY <1>1, <1>2, <1>7, <2>1, PoppedShown DEF Simulated
<1>5. CASE Last(runs).kind = "native"
  <2>1. Seen(L) = <<NativeCode>> /\ NativeCode \in Act
    BY <1>1, <1>5, BaseGone, NothingIsSeq DEF Act, NativeCode
  <2> QED BY <1>1, <1>2, <1>3, <1>7, <2>1, PopSim
<1>6. CASE Last(runs).kind = "import"
  <2>1. Seen(L) = <<Function(HandledBy(Top.frame))>> /\ Function(HandledBy(Top.frame)) \in Act
    BY <1>1, <1>6, BaseGone
  <2> QED BY <1>1, <1>2, <1>3, <1>7, <2>1, PopSim
<1> QED BY <1>1, <1>4, <1>5, <1>6

-----------------------------------------------------------------------------
(* The exception leaves a run.                                             *)

\* The try a frame is in, if its body runs.
Guarding(f) == tries[f] # <<>> /\ ~Last(tries[f]).caught

\* A frame is in one try at most.
LEMMA HandledIs ==
  ASSUME StacksTyped, TriesInv, NEW f \in Frame \cup VM
  PROVE  /\ Guarding(f) => /\ HandledBy(f) = <<Last(tries[f]).handles>>
                           /\ Last(tries[f]).handles \in SUBSET Exception
         /\ ~Guarding(f) => HandledBy(f) = <<>>
         /\ tries[f] # <<>> => /\ Len(tries[f]) = 1 /\ Last(tries[f]) = tries[f][1] /\ Front(tries[f]) = <<>>
<1>1. Guarding(f) => HandledBy(f) = <<Last(tries[f]).handles>>
  BY DEF HandledBy, Guarding
<1>2. ~Guarding(f) => HandledBy(f) = <<>>
  BY DEF HandledBy, Guarding
<1>3. ASSUME tries[f] # <<>>
      PROVE  Len(tries[f]) = 1 /\ Last(tries[f]) = tries[f][1] /\ Front(tries[f]) = <<>>
             /\ Last(tries[f]).handles \in SUBSET Exception
  <2>1. tries[f] \in Seq(Try) /\ Len(tries[f]) <= 1
    BY DEF StacksTyped, TriesInv, TriesOfStack
  <2>2. Len(tries[f]) = 1 /\ tries[f][1] \in Try
    <3>1. PICK s \in Seq(Try) : s = tries[f]
      BY <2>1
    <3>2. Len(s) \in Nat \ {0} /\ Len(s) <= 1
      BY <1>3, <2>1, <3>1, SequenceLen
    <3>3. Len(s) = 1
      <4>1. \A n \in Nat \ {0} : n <= 1 => n = 1
        OBVIOUS
      <4> QED BY <3>2, <4>1
    <3>4. 1 \in 1 .. Len(s)
      BY <3>3
    <3>5. s[1] \in Try
      BY <3>4, SequenceLen
    <3> QED BY <3>1, <3>3, <3>5
  <2>3. Front(tries[f]) = <<>>
    BY <2>1, <2>2 DEF Front
  <2> QED BY <2>2, <2>3 DEF Last, Try
<1> QED BY <1>1, <1>2, <1>3 DEF Guarding

\* An activation in no try, or in one, handles what that try handles.
LEMMA HandlesIs ==
  ASSUME NEW h, NEW e
  PROVE  /\ Structured!Handles(Function(<<h>>), e) <=> e \in h
         /\ ~Structured!Handles(Function(<<>>), e)
         /\ ~Structured!Handles(NativeCode, e)
<1>1. Function(<<h>>).tries = <<h>> /\ Function(<<>>).tries = <<>> /\ NativeCode.tries = <<>>
  BY DEF Function, NativeCode
<1>2. Len(<<h>>) = 1 /\ <<h>>[1] = h /\ Len(<<>>) = 0
  OBVIOUS
<1> QED BY <1>1, <1>2 DEF Structured!Handles

\* An exception leaves no frame with a try that handles it.
LEMMA FrameHandles ==
  ASSUME StacksTyped, TriesInv, NEW f \in Frame \cup VM,
         ~(Guarding(f) /\ raised \in Last(tries[f]).handles)
  PROVE  ~Structured!Handles(Function(HandledBy(f)), raised)
BY HandledIs, HandlesIs

\* The exception leaves a run.
LEMMA LeaveSim ==
  ASSUME IInv, RFacts, Leave
  PROVE  Simulated
<1>1. /\ mode = "leave" /\ mode' \in {"throw", "run"} /\ Last(runs).kind # "main"
      /\ runs' = Front(runs) /\ UNCHANGED tries /\ stack_frames' = StackWithout(1)
      /\ raised' = raised \/ (Last(runs).kind = "native" /\ raised \in Swallowed /\ raised' = None)
  BY DEF Leave
<1>2. PICK k \in Nat \ {0} : L = k + 1 /\ L' = k /\ Stay(k)
  BY <1>1, BaseGone
<1>10. WaitingCatchesAll'
  BY <1>1, BaseGone
<1>3. raised # None /\ StacksTyped /\ TriesInv
  BY <1>1 DEF RFacts, StacksTyped
<1>4. ProgramStack' \in Seq(Act)
  BY <1>1, <1>2, PoppedShown
<1>5. ASSUME NEW a \in Act, Seen(L) = <<a>>, ~Structured!Handles(a, raised), raised' = raised
      PROVE  Simulated
  <2>1. ProgramStack = ProgramStack' \o <<a>>
    BY <1>1, <1>2, <1>5, PoppedShown
  <2>2. <<a>> \in Seq(Act) /\ Len(<<a>>) = 1 /\ \A i \in 1 .. Len(<<a>>) : <<a>>[i] = a
    OBVIOUS
  <2>3. \A i \in 1 .. Len(<<a>>) : ~Structured!Handles(<<a>>[i], raised)
    BY <1>5, <2>2
  <2> QED BY <1>3, <1>4, <1>5, <2>1, <2>2, <2>3, <1>10, PropagateShown DEF Simulated
<1>6. CASE Last(runs).kind = "call"
  <2>1. Seen(L) = <<>>
    BY <1>1, <1>6, BaseGone
  <2>2. raised' = raised
    BY <1>1, <1>6
  <2> QED BY <1>1, <1>2, <2>1, <2>2, <1>10, PoppedShown DEF Simulated
<1>7. CASE Last(runs).kind = "native"
  <2>1. Seen(L) = <<NativeCode>> /\ NativeCode \in Act
    BY <1>1, <1>7, BaseGone, NothingIsSeq DEF Act, NativeCode
  <2>2. ~Structured!Handles(NativeCode, raised)
    BY HandlesIs
  <2>3. CASE raised' = raised
    BY <1>5, <2>1, <2>2, <2>3
  <2>4. CASE raised \in Swallowed /\ raised' = None
    <3>1. ProgramStack = Append(ProgramStack', NativeCode)
      BY <1>1, <1>2, <2>1, PoppedShown
    <3> QED BY <1>3, <1>4, <2>4, <3>1, <1>10, SwallowShown DEF Simulated
  <2> QED BY <1>1, <2>3, <2>4
<1>8. CASE Last(runs).kind = "import"
  <2>1. Seen(L) = <<Function(HandledBy(Top.frame))>> /\ Function(HandledBy(Top.frame)) \in Act
    BY <1>1, <1>8, BaseGone
  <2>2. Top.frame \in Frame \cup VM
    <3>1. Top = stack_frames[L] /\ L \in 1 .. L
      BY DEF RFacts, Top, Last, L
    <3> QED BY <3>1 DEF RFacts, Structure, StackFrame
  <2>3. ~Structured!Handles(Function(HandledBy(Top.frame)), raised)
    <3>1. ~(Guarding(Top.frame) /\ raised \in Last(tries[Top.frame]).handles)
      <4>1. SUFFICES ASSUME Guarding(Top.frame), raised \in Last(tries[Top.frame]).handles PROVE FALSE
        OBVIOUS
      <4>2. /\ Len(tries[Top.frame]) = 1 /\ Last(tries[Top.frame]) = tries[Top.frame][1]
            /\ ~tries[Top.frame][1].caught
        BY <1>3, <2>2, <4>1, HandledIs DEF Guarding
      <4>3. 1 \in 1 .. Len(tries[Top.frame])
        BY <4>2
      <4> QED BY <1>1, <4>1, <4>2, <4>3 DEF RFacts, RInv, ExceptionInv
    <3> QED BY <1>3, <2>2, <3>1, FrameHandles
  <2>4. raised' = raised
    BY <1>1, <1>8
  <2> QED BY <1>5, <2>1, <2>3, <2>4
<1>9. Last(runs).kind \in {"main", "import", "call", "native"}
  <2>1. Last(runs) \in Activation
    BY DEF RFacts, Structure, Last
  <2> QED BY <2>1 DEF Activation
<1> QED BY <1>1, <1>6, <1>7, <1>8, <1>9

\* The program ends, by itself or by an exception.
LEMMA EndProgramSim ==
  ASSUME IInv, RFacts, EndProgram
  PROVE  Simulated
<1>1. /\ mode \in {"end", "leave"} /\ mode' = "done" /\ Last(runs).kind = "main" /\ raised' = raised
  BY DEF EndProgram
<1>2. StacksTyped /\ TriesInv /\ StackInv /\ Structure /\ L \in Nat \ {0} /\ L \in 1 .. L /\ Top = stack_frames[L]
      /\ Len(runs) \in Nat \ {0} /\ Top.frame \in Frame \cup VM
  <2>1. L \in Nat \ {0} /\ L = Len(stack_frames)
    BY DEF RFacts
  <2>2. L \in 1 .. L /\ Top = stack_frames[L]
    BY <2>1 DEF Top, Last
  <2>3. Structure /\ StacksTyped /\ TriesInv /\ StackInv
    BY DEF RFacts
  <2>4. Top.frame \in Frame \cup VM
    BY <2>2, <2>3 DEF Structure, StackFrame
  <2> QED BY <2>1, <2>2, <2>3, <2>4 DEF Structure
<1>3. Top.frame = Current /\ IsBase(L)
  BY <1>1, <1>2 DEF StackInv, RunsOnStack, Structure, IsBase
<1>4. Base = L /\ RunOf(L) = Len(runs)
  BY <1>2, <1>3 DEF Structure
<1>5. Len(runs) = 1
  <2>1. Len(runs) \in 1 .. Len(runs)
    BY <1>2
  <2>2. \A k \in 1 .. Len(runs) : runs[k].kind = "main" <=> k = 1
    BY <1>2 DEF StackInv, KindsOfRuns
  <2>3. runs[Len(runs)].kind = "main"
    BY <1>1 DEF Last
  <2> QED BY <2>1, <2>2, <2>3
<1>6. L = 1
  <2>1. SUFFICES ASSUME L # 1 PROVE FALSE
    OBVIOUS
  <2>2. 1 \in 1 .. L /\ 1 < Base
    BY <1>2, <1>4, <2>1
  <2>3. RunOf(1) < Len(runs) /\ RunOf(1) \in 1 .. Len(runs)
    BY <1>2, <2>2 DEF Structure
  <2> QED BY <1>5, <2>3
<1>7. KindOf(L) = "main"
  BY <1>1, <1>4 DEF KindOf, Last
<1>8. Seen(L) = <<Function(HandledBy(Top.frame))>> /\ Seen(L) \in Seq(Act)
  BY <1>2, <1>7, SeenIs DEF StartsFunction, ForFunction
<1>9. Function(HandledBy(Top.frame)) \in Act
  BY <1>2, HandledType DEF Act, Function
<1>10. ProgramStack = <<Function(HandledBy(Top.frame))>> /\ ProgramStack' = <<>>
  <2>1. PICK f : Stacked(f)
    BY <1>2, ActivationsAre
  <2>2. f[1] = f[0] \o Seen(1) /\ f[0] = <<>> /\ f[L] = Activations
    <3>1. 1 \in 1 .. L
      BY <1>6
    <3>2. f[1] = f[1 - 1] \o Seen(1) /\ f[0] = <<>> /\ f[L] = Activations
      BY <2>1, <3>1 DEF Stacked
    <3>3. 1 - 1 = 0
      OBVIOUS
    <3> QED BY <3>2, <3>3
  <2>3. Activations = Seen(L)
    BY <1>6, <1>8, <2>2
  <2> QED BY <1>1, <1>8, <2>3 DEF ProgramStack
<1>13. WaitingCatchesAll'
  <2>1. L' = L /\ SameBelow(L) /\ tries' = tries /\ L \in Nat
    <3>1. stack_frames' = stack_frames /\ tries' = tries
      BY DEF EndProgram
    <3> QED BY <1>2, <3>1, SameStack
  <2> QED BY <2>1, WaitsKept
<1>11. CASE mode = "end"
  <2>1. raised = None
    BY <1>11 DEF RFacts, RInv, ExceptionInv
  <2>2. ProgramStack = Append(<<>>, Function(HandledBy(Top.frame))) /\ <<>> \in Seq(Act)
    BY <1>10
  <2> QED BY <1>1, <1>9, <1>10, <2>1, <2>2, <1>13, ReturnShown DEF Simulated
<1>12. CASE mode = "leave"
  <2>1. ~(Guarding(Top.frame) /\ raised \in Last(tries[Top.frame]).handles)
    <3>1. SUFFICES ASSUME Guarding(Top.frame), raised \in Last(tries[Top.frame]).handles PROVE FALSE
      OBVIOUS
    <3>2. /\ Len(tries[Top.frame]) = 1 /\ Last(tries[Top.frame]) = tries[Top.frame][1]
          /\ ~tries[Top.frame][1].caught
      BY <1>2, <3>1, HandledIs DEF Guarding
    <3>3. 1 \in 1 .. Len(tries[Top.frame])
      BY <3>2
    <3> QED BY <1>12, <3>1, <3>2, <3>3 DEF RFacts, RInv, ExceptionInv
  <2>2. ~Structured!Handles(Function(HandledBy(Top.frame)), raised)
    BY <1>2, <2>1, FrameHandles
  <2>3. raised # None
    BY <1>2, <1>12 DEF StacksTyped
  <2>4. \A a \in Act : /\ <<a>> = <<>> \o <<a>> /\ <<a>> \in Seq(Act) /\ Len(<<a>>) = 1
                       /\ \A i \in 1 .. 1 : <<a>>[i] = a
    OBVIOUS
  <2>5. <<>> \in Seq(Act)
    BY NothingIsSeq
  <2> DEFINE a == Function(HandledBy(Top.frame))
  <2>6. ProgramStack = <<>> \o <<a>> /\ <<a>> \in Seq(Act) /\ \A i \in 1 .. Len(<<a>>) : ~Structured!Handles(<<a>>[i], raised)
    BY <1>9, <1>10, <2>2, <2>4
  <2> HIDE DEF a
  <2> QED BY <1>1, <1>10, <2>3, <2>5, <2>6, <1>13, PropagateShown DEF Simulated
<1> QED BY <1>1, <1>11, <1>12

-----------------------------------------------------------------------------
(* Tries begin and end.                                                    *)

\* A frame of moss code is seen as such in the next state.
LEMMA MossSeen ==
  ASSUME NEW k \in Nat, ~StartsFunction(k)'
  PROVE  Seen(k)' = <<Function(HandledBy(stack_frames[k].frame)')>>
<1>1. ~(IsBase(k)' /\ runs'[RunOf(k)'].kind = "call") /\ ~(IsBase(k)' /\ runs'[RunOf(k)'].kind = "native")
  BY DEF StartsFunction, KindOf, ForFunction
<1>2. CASE IsBase(k)'
  <2>1. Seen(k)' = <<[native |-> FALSE, tries |-> HandledBy(stack_frames[k].frame)']>>
    BY <1>1, <1>2 DEF Seen
  <2> QED BY <2>1 DEF Function
<1>3. CASE ~IsBase(k)'
  <2>1. Seen(k)' = <<[native |-> FALSE, tries |-> HandledBy(stack_frames[k].frame)']>>
    BY <1>3 DEF Seen
  <2> QED BY <2>1 DEF Function
<1> QED BY <1>2, <1>3

\* The run of the code on top, and the frames on top of a frame of it.
LEMMA RunFrameShown ==
  ASSUME RFacts, runs' = runs, NEW k \in Nat, k \in Base .. L, L' = k, SameBelow(k),
         k = Base => ~StartsFunction(Base)
  PROVE  /\ Seen(k) = <<Function(HandledBy(stack_frames[k].frame))>>
         /\ Seen(k)' = <<Function(HandledBy(stack_frames[k].frame)')>>
         /\ k # 0 /\ k \in 1 .. L /\ k \in 1 .. k /\ stack_frames'[k].frame = stack_frames[k].frame
         /\ stack_frames[k].frame \in Frame \cup VM
<1>1. StacksTyped /\ Structure /\ Base \in 1 .. L /\ k \in 1 .. L /\ k # 0 /\ k \in 1 .. k
  BY DEF RFacts, Structure
<1>2. ~StartsFunction(k)
  BY <1>1 DEF Structure, StartsFunction
<1>3. RunOf(k)' = RunOf(k) /\ IsBase(k)' = IsBase(k)
  BY <1>1, CountsBelow
<1>4. ~StartsFunction(k)'
  BY <1>2, <1>3 DEF StartsFunction, KindOf
<1>5. Seen(k) = <<Function(HandledBy(stack_frames[k].frame))>>
  BY <1>1, <1>2, SeenIs
<1>6. Seen(k)' = <<Function(HandledBy(stack_frames[k].frame)')>>
  BY <1>4, MossSeen
<1>7. stack_frames'[k].frame = stack_frames[k].frame /\ stack_frames[k].frame \in Frame \cup VM
  BY <1>1 DEF SameBelow, Structure, StackFrame
<1> QED BY <1>1, <1>5, <1>6, <1>7

\* The innermost try of the running code changes.
LEMMA TopTriesShown ==
  ASSUME RFacts, Running, Running', UNCHANGED <<stack_frames, runs>>,
         NEW g, tries' = [tries EXCEPT ![TopFrame] = g]
  PROVE  /\ Top.frame \in Frame \cup VM /\ TopFrame = Top.frame /\ tries'[Top.frame] = g /\ Top' = Top
         /\ WaitingCatchesAll'
         /\ \E t \in Seq(Act) : /\ ProgramStack = Append(t, Function(HandledBy(Top.frame)))
                                /\ ProgramStack' = Append(t, Function(HandledBy(Top.frame)'))
<1>1. /\ StacksTyped /\ StackInv /\ StacksTyped' /\ L \in Nat \ {0} /\ Top = stack_frames[L] /\ TopFrame = Top.frame
      /\ ~StartsFunction(L) /\ Top.frame \in Frame \cup VM
  BY TopShown DEF RFacts
<1>2. L' = L /\ SameBelow(L) /\ Top' = Top
  BY SameStack DEF Top
<1>3. PICK k \in Nat, j \in Nat : k = L /\ j = k - 1 /\ k # 0 /\ j <= L /\ j <= L' /\ j <= k
  BY <1>1, <1>2
<1>4. k \in Base .. L /\ k \in 1 .. L /\ (k = Base => ~StartsFunction(Base))
  <2>1. Base \in 1 .. L
    BY DEF RFacts, Structure
  <2> QED BY <1>1, <1>3, <2>1
<1>5. \A i \in 1 .. j : tries'[stack_frames[i].frame] = tries[stack_frames[i].frame]
  <2>1. \A i \in 1 .. k - 1 : stack_frames[i].frame # stack_frames[k].frame
    BY <1>1, <1>4, TopDistinct
  <2> QED BY <1>1, <1>3, <2>1
<1>6. SameBelow(j)
  BY <1>2, <1>3 DEF SameBelow
<1>7. Stay(j)
  BY <1>1, <1>3, <1>5, <1>6, StayIf
<1>8. \A i \in k + 1 .. L : Seen(i) \in Seq({})
  BY <1>3
<1>9. {} \in SUBSET Act /\ k <= L /\ L' = k
  BY <1>2, <1>3
<1>10. PICK t \in Seq(Act), u \in Seq({}) :
           Activations = (t \o Seen(k)) \o u /\ Activations' = t \o Seen(k)'
  BY <1>1, <1>3, <1>7, <1>8, <1>9, CutShown
<1>11. u = <<>>
  <2>1. \A i \in 1 .. Len(u) : u[i] \in {}
    BY SequenceLen
  <2>2. u # <<>> => Len(u) \in 1 .. Len(u)
    BY SequenceLen
  <2> QED BY <2>1, <2>2
<1>12. /\ Seen(k) = <<Function(HandledBy(stack_frames[k].frame))>>
       /\ Seen(k)' = <<Function(HandledBy(stack_frames[k].frame)')>>
  <2>1. SameBelow(k) /\ L' = k
    BY <1>2, <1>3
  <2> QED BY <1>4, <2>1, RunFrameShown
<1>13. Seen(k) \in Seq(Act)
  BY <1>1, <1>4, SeenIs
<1>14. Activations = t \o Seen(k)
  BY <1>10, <1>11, <1>13
<1>15. /\ Activations = Append(t, Function(HandledBy(stack_frames[k].frame)))
       /\ Activations' = Append(t, Function(HandledBy(stack_frames[k].frame)'))
  <2>1. \A x : t \o <<x>> = Append(t, x)
    OBVIOUS
  <2> QED BY <1>10, <1>12, <1>14, <2>1
<1>16. ProgramStack = Activations /\ ProgramStack' = Activations'
  BY DEF ProgramStack, Running
<1>17. HandledBy(stack_frames[k].frame)' = HandledBy(Top.frame)' /\ stack_frames[k].frame = Top.frame
  BY <1>1, <1>2, <1>3 DEF HandledBy
<1>18. tries'[Top.frame] = g
  BY <1>1 DEF StacksTyped
<1>19. WaitingCatchesAll'
  <2>1. \A i \in 1 .. k : i < k => i \in 1 .. j
    BY <1>3
  <2>2. k <= L /\ L' = k /\ SameBelow(k)
    BY <1>2, <1>3
  <2> QED BY <1>5, <2>1, <2>2, WaitsKept
<1> QED BY <1>1, <1>2, <1>15, <1>16, <1>17, <1>18, <1>19

\* A try begins.
LEMMA PushTrySim ==
  ASSUME RFacts, NEW handled \in SUBSET Exception, PushTry(handled)
  PROVE  Simulated
<1> DEFINE g == <<[caught |-> FALSE, handles |-> handled, cf_position |-> TopCall]>>
<1>1. /\ mode = "run" /\ mode' = "run" /\ tries[TopFrame] = <<>>
      /\ tries' = [tries EXCEPT ![TopFrame] = g] /\ UNCHANGED <<stack_frames, runs, raised>>
  BY DEF PushTry, AtStatement
<1>2. g # <<>> /\ Len(g) = 1 /\ g[Len(g)].handles = handled /\ ~g[Len(g)].caught
  OBVIOUS
<1> HIDE DEF g
<1>3. Running /\ Running' /\ raised = None
  BY <1>1 DEF Running, RFacts, RInv, ExceptionInv
<1>4. PICK t \in Seq(Act) : /\ ProgramStack = Append(t, Function(HandledBy(Top.frame)))
                            /\ ProgramStack' = Append(t, Function(HandledBy(Top.frame)'))
  BY <1>1, <1>3, TopTriesShown
<1>5. TopFrame = Top.frame /\ tries'[Top.frame] = g /\ Top' = Top /\ WaitingCatchesAll'
  BY <1>1, <1>3, TopTriesShown
<1>6. HandledBy(Top.frame) = <<>>
  BY <1>1, <1>5 DEF HandledBy
<1>7. HandledBy(Top.frame)' = <<handled>>
  BY <1>2, <1>5 DEF HandledBy, Last
<1> QED BY <1>1, <1>3, <1>4, <1>5, <1>6, <1>7, TryShown DEF Simulated

\* A try is left: at its end, or when an exception passes it.
LEMMA LeftTrySim ==
  ASSUME RFacts, mode \in {"run", "throw"}, mode' \in {"run", "again"}, tries[TopFrame] # <<>>,
         tries' = [tries EXCEPT ![TopFrame] = Front(@)], UNCHANGED <<stack_frames, runs, raised>>,
         Guarding(TopFrame) => raised = None \/ raised \notin Last(tries[TopFrame]).handles
  PROVE  Simulated
<1>1. Running /\ Running' /\ StacksTyped /\ TriesInv
  BY DEF Running, RFacts
<1> DEFINE g == Front(tries[TopFrame])
<1>2. tries' = [tries EXCEPT ![TopFrame] = g]
  OBVIOUS
<1> HIDE DEF g
<1>3. PICK t \in Seq(Act) : /\ ProgramStack = Append(t, Function(HandledBy(Top.frame)))
                            /\ ProgramStack' = Append(t, Function(HandledBy(Top.frame)'))
  BY <1>1, <1>2, TopTriesShown
<1>4. Top.frame \in Frame \cup VM /\ TopFrame = Top.frame /\ tries'[Top.frame] = g /\ Top' = Top
      /\ WaitingCatchesAll'
  BY <1>1, <1>2, TopTriesShown
<1>5. g = <<>>
  BY <1>1, <1>4, HandledIs DEF g
<1>6. HandledBy(Top.frame)' = <<>>
  BY <1>4, <1>5 DEF HandledBy
<1>7. CASE Guarding(Top.frame)
  <2>1. PICK h \in SUBSET Exception : HandledBy(Top.frame) = <<h>> /\ h = Last(tries[TopFrame]).handles
    BY <1>1, <1>4, <1>7, HandledIs
  <2>2. raised = None \/ raised \notin h
    BY <1>4, <1>7, <2>1
  <2> QED BY <1>3, <1>4, <1>6, <2>1, <2>2, EndTryShown DEF Simulated
<1>8. CASE ~Guarding(Top.frame)
  <2>1. HandledBy(Top.frame) = <<>>
    BY <1>1, <1>4, <1>8, HandledIs
  <2> QED BY <1>3, <1>4, <1>6, <2>1 DEF Simulated
<1> QED BY <1>7, <1>8

\* A try ends.
LEMMA PopTrySim ==
  ASSUME RFacts, PopTry
  PROVE  Simulated
<1>1. /\ mode = "run" /\ mode' = "run" /\ tries[TopFrame] # <<>>
      /\ tries' = [tries EXCEPT ![TopFrame] = Front(@)] /\ UNCHANGED <<stack_frames, runs, raised>>
  BY DEF PopTry, AtStatement
<1>2. raised = None
  BY <1>1 DEF RFacts, RInv, ExceptionInv
<1> QED BY <1>1, <1>2, LeftTrySim

\* The frames of the run are the ones a handler is looked for in.
LEMMA RunVisible ==
  ASSUME RFacts, NEW i \in Base .. L
  PROVE  i \in Visible(Current) /\ i \in 1 .. L
<1>1. Structure /\ Base \in 1 .. L /\ L = Len(stack_frames) /\ L \in Nat
  BY DEF RFacts, Structure
<1>2. \A j \in i .. L : j \in 1 .. L /\ j >= Base
  BY <1>1
<1>3. \A j \in i .. L : stack_frames[j].vm = Current
  BY <1>1, <1>2 DEF Structure
<1>4. i \in 1 .. L
  BY <1>1
<1> QED BY <1>1, <1>3, <1>4 DEF Visible

\* The exception leaves the try of the frame on top, which does not handle it.
LEMMA RunFinallySim ==
  ASSUME RFacts, RunFinally
  PROVE  Simulated
<1>1. /\ mode = "throw" /\ mode' = "again" /\ tries[TopFrame] # <<>> /\ (~InCatch => Handlers = {})
      /\ tries' = [tries EXCEPT ![TopFrame] = Front(@)] /\ UNCHANGED <<stack_frames, runs, raised>>
  BY DEF RunFinally
<1>2. Running
  BY <1>1 DEF Running
<1>3. Top = stack_frames[L] /\ TopFrame = Top.frame /\ L \in Base .. L
  <2>1. Base \in 1 .. L
    BY DEF RFacts, Structure
  <2> QED BY <1>2, <2>1, TopShown DEF RFacts
<1>4. ASSUME Guarding(TopFrame) PROVE raised \notin Last(tries[TopFrame]).handles
  <2>1. ~InCatch
    BY <1>4 DEF InCatch, Guarding
  <2>2. L \notin Handlers
    BY <1>1, <2>1
  <2>3. L \in Visible(Current)
    BY <1>3, RunVisible
  <2> QED BY <1>3, <1>4, <2>2, <2>3 DEF Handlers, Guarding
<1> QED BY <1>1, <1>4, LeftTrySim

-----------------------------------------------------------------------------
(* The exception is looked after by the frames of a run.                   *)

\* Activations that do not handle the exception.
Passing == {a \in Act : ~Structured!Handles(a, raised)}

\* A frame of the run that is no handler is seen as an activation that does
\* not handle the exception.
LEMMA PassingSeen ==
  ASSUME RFacts, NEW i \in Base .. L, i \notin Handlers
  PROVE  Seen(i) \in Seq(Passing)
<1>1. StacksTyped /\ TriesInv /\ i \in 1 .. L /\ i \in Visible(Current)
  BY RunVisible DEF RFacts
<1>2. stack_frames[i].frame \in Frame \cup VM
  BY <1>1 DEF RFacts, Structure, StackFrame
<1>3. ~(Guarding(stack_frames[i].frame) /\ raised \in Last(tries[stack_frames[i].frame]).handles)
  BY <1>1, RunVisible DEF Handlers, Guarding, RFacts
<1>4. Function(HandledBy(stack_frames[i].frame)) \in Passing /\ NativeCode \in Passing
  <2>1. Function(HandledBy(stack_frames[i].frame)) \in Act
    BY <1>1, <1>2, HandledType DEF Act, Function
  <2>2. NativeCode \in Act
    BY NothingIsSeq DEF Act, NativeCode
  <2> QED BY <1>1, <1>2, <1>3, <2>1, <2>2, FrameHandles, HandlesIs DEF Passing
<1>5. Seen(i) \in {<<>>, <<NativeCode>>, <<Function(HandledBy(stack_frames[i].frame))>>}
  BY <1>1, SeenIs DEF StartsFunction, ForFunction, NativeCode
<1>6. \A a \in Passing : <<a>> \in Seq(Passing)
  OBVIOUS
<1>7. <<>> \in Seq(Passing)
  BY NothingIsSeq
<1> QED BY <1>4, <1>5, <1>6, <1>7, Zenon

\* So the exception leaves them.
LEMMA PassingAll ==
  ASSUME NEW u \in Seq(Passing)
  PROVE  u \in Seq(Act) /\ \A i \in 1 .. Len(u) : ~Structured!Handles(u[i], raised)
<1>1. Passing \subseteq Act
  BY DEF Passing
<1>2. u \in Seq(Act)
  BY <1>1
<1>3. \A i \in 1 .. Len(u) : u[i] \in Passing
  BY SequenceLen
<1> QED BY <1>2, <1>3 DEF Passing

\* unwind_stacks leaves the activations of a run, but for its base.
LEMMA UnwindSim ==
  ASSUME IInv, RFacts, Unwind
  PROVE  Simulated
<1>1. mode = "throw" /\ mode' = "leave" /\ Handlers = {} /\ raised' = raised
  BY DEF Unwind
<1>2. PICK H \in Heights, hang \in BOOLEAN, n, b, top, h \in Nat : UnwindFacts(H, hang, n, b, top, h)
  BY UnwindIs
<1>3. /\ b = Base /\ n = L /\ b \in Nat \ {0} /\ b <= n /\ tries' = TriesWithout(n - b) /\ runs' = runs
  BY <1>2 DEF UnwindFacts, Thrown
<1>4. L' = b /\ SameBelow(b)
  BY <1>2, UnwindFrames
<1>5. StacksTyped /\ StackInv /\ StacksTyped' /\ L \in Nat \ {0} /\ raised # None /\ b \in Base .. L
  <2>1. StacksTyped /\ StackInv /\ StacksTyped' /\ L \in Nat \ {0}
    BY DEF RFacts
  <2>2. raised # None
    BY <1>1, <2>1 DEF StacksTyped
  <2>3. b \in b .. n
    BY <1>2, <1>3, <2>1
  <2> QED BY <1>3, <2>1, <2>2, <2>3
<1>6. \A i \in 1 .. b : tries'[stack_frames[i].frame] = tries[stack_frames[i].frame]
  BY <1>3, <1>5, TriesBelowPop
<1>7. Stay(b)
  BY <1>3, <1>4, <1>5, <1>6, StayIf
<1>8. PICK j \in Nat : j = b - 1
  BY <1>3
<1>9. Stay(j)
  <2>1. j <= L /\ j <= L' /\ j <= b
    BY <1>3, <1>4, <1>5, <1>8
  <2>2. \A i \in 1 .. j : i \in 1 .. b
    BY <1>3, <1>8, <2>1
  <2>3. SameBelow(j)
    BY <1>4, <2>2 DEF SameBelow
  <2>4. \A i \in 1 .. j : tries'[stack_frames[i].frame] = tries[stack_frames[i].frame]
    BY <1>6, <2>2
  <2> QED BY <1>3, <1>5, <2>1, <2>3, <2>4, StayIf
<1>10. \A i \in b + 1 .. L : Seen(i) \in Seq(Passing)
  <2>1. \A i \in b + 1 .. L : i \in Base .. L
    BY <1>3
  <2> QED BY <1>1, <2>1, PassingSeen
<1>11. Passing \in SUBSET Act
  BY DEF Passing
<1>12. PICK t \in Seq(Act), u \in Seq(Passing) :
           Activations = (t \o Seen(b)) \o u /\ Activations' = t \o Seen(b)'
  BY <1>3, <1>4, <1>5, <1>8, <1>9, <1>10, <1>11, CutShown
<1>13. Seen(b)' = Seen(b)
  <2>1. b \in 1 .. b
    BY <1>3
  <2> QED BY <1>7, <2>1, SeenStay
<1>14. Seen(b) \in Seq(Act)
  <2>1. b \in 1 .. L
    BY <1>3
  <2> QED BY <1>5, <2>1, SeenIs
<1>15. ProgramStack = (t \o Seen(b)) \o u /\ ProgramStack' = t \o Seen(b) /\ t \o Seen(b) \in Seq(Act)
  BY <1>1, <1>12, <1>13, <1>14 DEF ProgramStack
<1>16. u \in Seq(Act) /\ \A i \in 1 .. Len(u) : ~Structured!Handles(u[i], raised)
  BY PassingAll
<1>17. WaitingCatchesAll'
  <2>1. b <= L
    BY <1>3
  <2> QED BY <1>3, <1>4, <1>6, <2>1, WaitsKept
<1> QED BY <1>1, <1>5, <1>15, <1>16, <1>17, PropagateShown DEF Simulated

\* handle_exception catches the exception in the innermost frame that can.
LEMMA HandleSim ==
  ASSUME IInv, IInv', RFacts, Handle
  PROVE  Simulated
<1>1. /\ mode = "throw" /\ mode' = "run" /\ Handlers # {} /\ raised' = None
      /\ stack_frames' = WithOpen(StackWithout(Len(stack_frames) - Innermost(Handlers)), <<>>)
  BY DEF Handle
<1>2. PICK H \in Heights, hang \in BOOLEAN, n, b, top, k, h \in Nat : HandlerFacts(H, hang, n, b, top, k, h)
  BY HandleIs
<1>3. /\ b = Base /\ n = L /\ b \in Nat \ {0} /\ k \in b .. n /\ k \in Nat \ {0} /\ k <= n /\ runs' = runs
      /\ (k = Base => ~StartsFunction(Base))
      /\ tries' = [TriesWithout(n - k) EXCEPT ![stack_frames[k].frame] =
                     Append(Front(@), [caught |-> TRUE, handles |-> {}, cf_position |-> None])]
  BY <1>2 DEF HandlerFacts, Thrown
<1>4. /\ L' = k /\ SameBelow(k) /\ tries'[stack_frames[k].frame] # <<>> /\ tries'[stack_frames[k].frame][1].caught
  BY <1>2, HandleFrames
<1>5. /\ StacksTyped /\ StackInv /\ TriesInv /\ StacksTyped' /\ L \in Nat \ {0} /\ raised # None /\ k \in Base .. L
      /\ stack_frames \in Seq(StackFrame) /\ L = Len(stack_frames) /\ stack_frames' \in Seq(StackFrame)
  BY <1>1, <1>3 DEF RFacts, StacksTyped
<1>6. k = Innermost(Handlers) /\ k \in Handlers /\ \A i \in Handlers : i <= k
  <2>1. Handlers \in SUBSET (1 .. L)
    BY <1>5 DEF Handlers, Visible
  <2>2. Innermost(Handlers) \in Handlers /\ \A i \in Handlers : i <= Innermost(Handlers)
    BY <1>1, <1>5, <2>1, InnermostIs
  <2>3. PICK i \in 1 .. L : i = Innermost(Handlers)
    BY <2>1, <2>2
  <2>4. PICK d \in 0 .. L : d = L - i /\ L - d = i
    BY <1>5
  <2>5. StackWithout(d) \in Seq(StackFrame) /\ Len(StackWithout(d)) = i
    BY <1>5, <2>4, StackWithoutIs
  <2>6. stack_frames' = WithOpen(StackWithout(d), <<>>)
    BY <1>1, <1>5, <2>3, <2>4
  <2>7. StackWithout(d) # <<>>
    BY <2>3, <2>5
  <2>8. Len(stack_frames') = i
    BY <1>5, <2>5, <2>6, <2>7, WithOpenShape
  <2> QED BY <1>4, <2>2, <2>3, <2>8 DEF L
<1>7. /\ Seen(k) = <<Function(HandledBy(stack_frames[k].frame))>>
      /\ Seen(k)' = <<Function(HandledBy(stack_frames[k].frame)')>>
      /\ k \in 1 .. L /\ k \in 1 .. k /\ stack_frames'[k].frame = stack_frames[k].frame
      /\ stack_frames[k].frame \in Frame \cup VM
  BY <1>3, <1>4, <1>5, RunFrameShown
<1>8. Guarding(stack_frames[k].frame) /\ raised \in Last(tries[stack_frames[k].frame]).handles
  BY <1>6 DEF Handlers, Guarding
<1>9. PICK handled \in SUBSET Exception : HandledBy(stack_frames[k].frame) = <<handled>> /\ raised \in handled
  BY <1>5, <1>7, <1>8, HandledIs
<1>10. HandledBy(stack_frames[k].frame)' = <<>>
  <2>1. PICK s \in Seq(Try) : s = tries'[stack_frames[k].frame]
    BY <1>5, <1>7 DEF StacksTyped
  <2>2. Len(s) <= 1
    BY <1>7, <2>1 DEF IInv, TriesInv, TriesOfStack
  <2>3. Len(s) = 1
    <3>1. Len(s) \in Nat \ {0}
      BY <1>4, <2>1, SequenceLen
    <3>2. \A x \in Nat \ {0} : x <= 1 => x = 1
      OBVIOUS
    <3> QED BY <2>2, <3>1, <3>2
  <2>4. s[Len(s)].caught
    BY <1>4, <2>1, <2>3
  <2>5. Last(tries'[stack_frames'[k].frame]).caught
    BY <1>7, <2>1, <2>4 DEF Last
  <2> QED BY <2>5 DEF HandledBy
<1>11. PICK j \in Nat : j = k - 1 /\ j <= L /\ j <= L' /\ j <= k
  BY <1>3, <1>4
<1>12. \A i \in 1 .. j : tries'[stack_frames[i].frame] = tries[stack_frames[i].frame]
  <2>1. \A i \in 1 .. k - 1 : stack_frames[i].frame # stack_frames[k].frame
    BY <1>3, <1>5, TopDistinct
  <2>2. \A i \in 1 .. k : TriesWithout(n - k)[stack_frames[i].frame] = tries[stack_frames[i].frame]
    BY <1>3, <1>5, TriesBelowPop
  <2>3. ASSUME NEW i \in 1 .. j PROVE tries'[stack_frames[i].frame] = TriesWithout(n - k)[stack_frames[i].frame]
    <3>1. stack_frames[i].frame # stack_frames[k].frame
      BY <1>11, <2>1, <2>3
    <3>2. stack_frames[i].frame \in Frame \cup VM
      <4>1. i \in 1 .. L
        BY <1>3, <1>11
      <4> QED BY <4>1 DEF RFacts, Structure, StackFrame
    <3>3. stack_frames[i].frame \in DOMAIN TriesWithout(n - k)
      BY <3>2 DEF TriesWithout
    <3> QED BY <1>3, <3>1, <3>3
  <2>4. \A i \in 1 .. j : i \in 1 .. k
    BY <1>11
  <2> QED BY <2>2, <2>3, <2>4
<1>13. SameBelow(j)
  BY <1>4, <1>11 DEF SameBelow
<1>14. Stay(j)
  BY <1>3, <1>5, <1>11, <1>12, <1>13, StayIf
<1>15. \A i \in k + 1 .. L : Seen(i) \in Seq(Passing)
  <2>1. \A i \in k + 1 .. L : i \in Base .. L /\ ~(i <= k)
    BY <1>3
  <2> QED BY <1>6, <2>1, PassingSeen
<1>16. Passing \in SUBSET Act
  BY DEF Passing
<1>17. PICK t \in Seq(Act), u \in Seq(Passing) :
           Activations = (t \o Seen(k)) \o u /\ Activations' = t \o Seen(k)'
  BY <1>3, <1>4, <1>5, <1>11, <1>14, <1>15, <1>16, CutShown
<1>18. ProgramStack = Append(t, Function(<<handled>>)) \o u /\ ProgramStack' = Append(t, Function(<<>>))
  <2>1. \A x : t \o <<x>> = Append(t, x)
    OBVIOUS
  <2>2. Activations = Append(t, Function(<<handled>>)) \o u
    BY <1>7, <1>9, <1>17, <2>1
  <2>3. Activations' = Append(t, Function(<<>>))
    BY <1>7, <1>10, <1>17, <2>1
  <2> QED BY <1>1, <2>2, <2>3 DEF ProgramStack
<1>19. u \in Seq(Act) /\ \A i \in 1 .. Len(u) : ~Structured!Handles(u[i], raised)
  BY PassingAll
<1>20. WaitingCatchesAll'
  <2>1. \A i \in 1 .. k : i < k => i \in 1 .. j
    BY <1>3, <1>11
  <2>2. k <= L
    BY <1>3
  <2> QED BY <1>3, <1>4, <1>12, <2>1, <2>2, WaitsKept
<1> QED BY <1>1, <1>5, <1>9, <1>18, <1>19, <1>20, CatchShown DEF Simulated

-----------------------------------------------------------------------------
(* An exception is raised once, and passes no try that handles it.         *)

\* The opcodes leave no exception behind, and are executed with none.
LEMMA NothingRaised ==
  ASSUME RFacts, mode \in {"run", "end"}, mode' \notin {"throw", "again", "leave"},
         UNCHANGED <<raised, by_call>>
  PROVE  ExceptionInv'
BY DEF RFacts, RInv, ExceptionInv

\* Calls, callbacks and imports begin and end without one.
LEMMA NothingRaisedByOpcodes ==
  ASSUME RFacts,
         \/ \E c \in CallFrame : PushCallFrame(c)
         \/ \E f \in Frame : CallFunction(f) \/ BeginClass(f)
         \/ \E m \in VM, f \in Frame : CallModule(m, f)
         \/ \E m \in VM, f \in Frame, c \in CallFrame : CallBack(m, f, c)
         \/ CallNative \/ EndClass \/ Return \/ PopTry
         \/ \E handled \in SUBSET Exception : PushTry(handled)
         \/ \E m \in VM : Import(m)
         \/ EndCode \/ EndCall \/ EndImport
  PROVE  ExceptionInv'
<1>1. /\ mode \in {"run", "end"} /\ UNCHANGED <<raised, by_call>>
      /\ mode' = mode \/ mode' \in {"run", "end"}
  <2>1. CASE \E c \in CallFrame : PushCallFrame(c)
    BY <2>1 DEF PushCallFrame
  <2>2. CASE \E f \in Frame : CallFunction(f) \/ BeginClass(f)
    BY <2>2 DEF CallFunction, BeginClass, AtCall, AtStatement
  <2>3. CASE \E m \in VM, f \in Frame : CallModule(m, f)
    BY <2>3 DEF CallModule, AtCall
  <2>4. CASE \E m \in VM, f \in Frame, c \in CallFrame : CallBack(m, f, c)
    BY <2>4 DEF CallBack
  <2>5. CASE CallNative \/ EndClass
    BY <2>5 DEF CallNative, EndClass, AtCall, AtStatement
  <2>6. CASE Return
    BY <2>6 DEF Return, AtStatement
  <2>7. CASE PopTry \/ \E handled \in SUBSET Exception : PushTry(handled)
    BY <2>7 DEF PopTry, PushTry, AtStatement
  <2>8. CASE \E m \in VM : Import(m)
    BY <2>8 DEF Import, AtStatement
  <2>9. CASE EndCode \/ EndCall \/ EndImport
    BY <2>9 DEF EndCode, EndCall, EndImport, AtStatement
  <2> QED BY <2>1, <2>2, <2>3, <2>4, <2>5, <2>6, <2>7, <2>8, <2>9
<1>2. mode' \notin {"throw", "again", "leave"}
  BY <1>1
<1> QED BY <1>1, <1>2, NothingRaised

\* A call that cannot be made is in no try that lets its exception pass.
LEMMA RaisedOnce ==
  ASSUME RFacts, StructuredFeatures, NEW e \in Exception, Raise(e) \/ RaiseInCall(e)
  PROVE  ExceptionInv'
<1>1. mode = "run" /\ mode' = "throw" /\ UNCHANGED <<stack_frames, tries>>
  BY DEF Raise, RaiseInCall, AtCall
<1>2. CASE Raise(e)
  <2>1. ~by_call'
    BY <1>1, <1>2 DEF Raise, RFacts, RInv, ExceptionInv
  <2> QED BY <1>1, <2>1 DEF ExceptionInv
<1>3. CASE RaiseInCall(e)
  <2>1. CatchesAll(TopFrame)
    BY <1>3 DEF RaiseInCall, MayLetOut, CatchesAll, StructuredFeatures, WorkingFeatures
  <2>2. Top' = Top /\ TopFrame = Top.frame
    BY <1>1 DEF Top, RFacts, Structure
  <2>3. CatchesAll(Top.frame)'
    BY <1>1, <2>1, <2>2 DEF CatchesAll
  <2> QED BY <1>1, <2>3 DEF ExceptionInv
<1> QED BY <1>2, <1>3

\* An exception that came out of a call passes no try: it is caught, or there
\* is none.
LEMMA RunFinallyRaises ==
  ASSUME RFacts, RunFinally
  PROVE  ExceptionInv'
<1>1. /\ mode = "throw" /\ mode' = "again" /\ tries[TopFrame] # <<>> /\ (~InCatch => Handlers = {})
      /\ UNCHANGED by_call
  BY DEF RunFinally
<1>2. Running /\ StacksTyped /\ TriesInv /\ raised \in Exception
  BY <1>1 DEF Running, RFacts, StacksTyped
<1>3. Top = stack_frames[L] /\ TopFrame = Top.frame /\ L \in Base .. L /\ Top.frame \in Frame \cup VM
  <2>1. Base \in 1 .. L
    BY DEF RFacts, Structure
  <2> QED BY <1>2, <2>1, TopShown DEF RFacts
<1>4. SUFFICES ASSUME by_call PROVE FALSE
  BY <1>1 DEF ExceptionInv
<1>5. CatchesAll(Top.frame)
  BY <1>1, <1>4 DEF RFacts, RInv, ExceptionInv
<1>6. Len(tries[TopFrame]) = 1 /\ Last(tries[TopFrame]) = tries[TopFrame][1]
  BY <1>1, <1>2, <1>3, HandledIs
<1>7. ~Last(tries[TopFrame]).caught /\ Last(tries[TopFrame]).handles = Exception
  <2>1. 1 \in 1 .. Len(tries[TopFrame])
    BY <1>6
  <2> QED BY <1>3, <1>5, <1>6, <2>1 DEF CatchesAll
<1>8. L \in Handlers
  <2>1. L \in Visible(Current)
    BY <1>3, RunVisible
  <2> QED BY <1>1, <1>2, <1>3, <1>7, <2>1 DEF Handlers
<1> QED BY <1>1, <1>7, <1>8 DEF InCatch

\* Nothing on the base of the run that it leaves handles it.
LEMMA UnwindRaises ==
  ASSUME IInv, RFacts, Unwind
  PROVE  ExceptionInv'
<1>1. mode = "throw" /\ mode' = "leave" /\ Handlers = {} /\ raised' = raised
  BY DEF Unwind
<1>2. PICK H \in Heights, hang \in BOOLEAN, n, b, top, h \in Nat : UnwindFacts(H, hang, n, b, top, h)
  BY UnwindIs
<1>3. b = Base /\ n = L /\ b \in Nat \ {0} /\ b <= n /\ tries' = TriesWithout(n - b)
  BY <1>2 DEF UnwindFacts, Thrown
<1>4. L' = b /\ SameBelow(b)
  BY <1>2, UnwindFrames
<1>5. StacksTyped /\ TriesInv /\ StackInv /\ b \in Base .. L /\ b \in 1 .. b /\ b \in 1 .. L
  <2>1. StacksTyped /\ TriesInv /\ StackInv /\ L \in Nat
    BY DEF RFacts
  <2>2. b \in b .. n /\ b \in 1 .. b /\ b \in 1 .. n
    BY <1>3, <2>1
  <2> QED BY <1>3, <2>1, <2>2
<1>6. stack_frames'[b].frame = stack_frames[b].frame
      /\ tries'[stack_frames[b].frame] = tries[stack_frames[b].frame]
  <2>1. \A i \in 1 .. b : TriesWithout(L - b)[stack_frames[i].frame] = tries[stack_frames[i].frame]
    BY <1>5, TriesBelowPop
  <2> QED BY <1>3, <1>4, <1>5, <2>1 DEF SameBelow
<1>7. Top.frame' = stack_frames[b].frame
  <2>1. Top' = stack_frames'[L']
    BY DEF Top, Last, L
  <2> QED BY <1>4, <1>6, <2>1
<1>8. stack_frames[b].frame \in Frame \cup VM
  BY <1>5 DEF RFacts, Structure, StackFrame
<1>9. b \notin Handlers /\ b \in Visible(Current)
  BY <1>1, <1>5, RunVisible
<1>10. ASSUME NEW k \in 1 .. Len(tries[stack_frames[b].frame])
       PROVE  \/ tries[stack_frames[b].frame][k].caught
              \/ raised \notin tries[stack_frames[b].frame][k].handles
  <2>1. PICK s \in Seq(Try) : s = tries[stack_frames[b].frame]
    BY <1>5, <1>8 DEF StacksTyped
  <2>2. s # <<>>
    BY <1>10, <2>1
  <2>3. Len(s) = 1 /\ Last(s) = s[1]
    BY <1>5, <1>8, <2>1, <2>2, HandledIs
  <2>4. k = 1
    BY <1>10, <2>1, <2>3
  <2> QED BY <1>9, <2>1, <2>2, <2>3, <2>4 DEF Handlers
<1> QED BY <1>1, <1>6, <1>7, <1>10 DEF ExceptionInv

\* What a run lets out arrives where all of it is caught.
LEMMA LeaveRaises ==
  ASSUME IInv, RFacts, Leave
  PROVE  ExceptionInv'
<1>1. /\ mode = "leave" /\ Last(runs).kind # "main" /\ tries' = tries /\ runs' = Front(runs)
      /\ stack_frames' = StackWithout(1)
      /\ \/ mode' = "throw"
         \/ mode' = "run" /\ raised' = None /\ by_call' = FALSE
  BY DEF Leave
<1>2. PICK k \in Nat \ {0} : L = k + 1 /\ L' = k /\ Stay(k)
  BY <1>1, BaseGone
<1>3. CASE mode' = "throw"
  <2>1. k \in 1 .. k /\ k \in 1 .. L /\ k < L
    BY <1>2
  <2>2. Top.frame' = stack_frames[k].frame
    <3>1. Top' = stack_frames'[L']
      BY DEF Top, Last, L
    <3> QED BY <1>2, <2>1, <3>1 DEF Stay, SameBelow
  <2>3. IsBase(L)
    <3>1. PICK H \in Heights, hang \in BOOLEAN, n \in Nat, l \in Nat : EndFacts(H, hang, n, l)
      BY <1>1, EndIs
    <3> QED BY <3>1 DEF EndFacts
  <2>4. CatchesAll(stack_frames[k].frame)
    BY <1>2, <2>1, <2>3 DEF RFacts, RInv, WaitingCatchesAll
  <2>5. CatchesAll(Top.frame)'
    BY <1>1, <2>2, <2>4 DEF CatchesAll
  <2> QED BY <1>3, <2>5 DEF ExceptionInv
<1>4. CASE mode' = "run" /\ raised' = None /\ by_call' = FALSE
  BY <1>4 DEF ExceptionInv
<1> QED BY <1>1, <1>3, <1>4

\* A raise that is executed again did not come out of a call.
LEMMA AgainRaises ==
  ASSUME RFacts, Again
  PROVE  ExceptionInv'
<1>1. mode = "again" /\ mode' = (IF by_call THEN "run" ELSE "throw") /\ by_call' = FALSE
  BY DEF Again
<1>2. ~by_call
  BY <1>1 DEF RFacts, RInv, ExceptionInv
<1> QED BY <1>1, <1>2 DEF ExceptionInv

\* A handled exception is gone.
LEMMA HandleRaises ==
  ASSUME RFacts, Handle
  PROVE  ExceptionInv'
BY DEF Handle, ExceptionInv

\* Nothing is said about the end of the program.
LEMMA EndProgramRaises ==
  ASSUME RFacts, EndProgram
  PROVE  ExceptionInv'
BY DEF EndProgram, ExceptionInv

\* Nothing happens.
LEMMA StutterRaises ==
  ASSUME RFacts, UNCHANGED vars
  PROVE  ExceptionInv'
BY DEF RFacts, RInv, ExceptionInv, CatchesAll, Top, Last, vars

-----------------------------------------------------------------------------
(* Every step is one of StructuredCalls, or nothing that the program sees. *)

\* The steps of CallStack are steps of StructuredCalls, or change nothing
\* that the program sees.
LEMMA StepSim ==
  ASSUME IInv, RInv, IInv', StructuredFeatures, [Next]_vars
  PROVE  Simulated
<1> USE RFactsHold
<1>1. ASSUME NEW c \in CallFrame, PushCallFrame(c) PROVE Simulated
  BY <1>1, PushCallFrameSim
<1>2. ASSUME NEW f \in Frame, CallFunction(f) PROVE Simulated
  BY <1>2, CallFunctionSim
<1>3. ASSUME NEW f \in Frame, BeginClass(f) PROVE Simulated
  BY <1>3, BeginClassSim
<1>4. ASSUME NEW m \in VM, NEW f \in Frame, CallModule(m, f) PROVE Simulated
  BY <1>4, CallModuleSim
<1>5. ASSUME NEW m \in VM, NEW f \in Frame, NEW c \in CallFrame, CallBack(m, f, c) PROVE Simulated
  BY <1>5, CallBackSim
<1>6. CASE CallNative
  BY <1>6, CallNativeSim
<1>7. CASE EndClass
  BY <1>7, EndClassSim
<1>8. CASE Return
  BY <1>8, ReturnSim
<1>9. CASE PopTry
  BY <1>9, PopTrySim
<1>10. ASSUME NEW handled \in SUBSET Exception, PushTry(handled) PROVE Simulated
  BY <1>10, PushTrySim
<1>11. ASSUME NEW m \in VM, Import(m) PROVE Simulated
  BY <1>11, ImportSim
<1>12. ASSUME NEW e \in Exception, Raise(e) \/ RaiseInCall(e) PROVE Simulated
  BY <1>12, RaiseSim
<1>13. CASE EndCode
  BY <1>13, EndCodeSim
<1>14. CASE EndCall \/ EndImport
  BY <1>14, EndSim
<1>15. CASE RunFinally
  BY <1>15, RunFinallySim
<1>16. CASE Again
  BY <1>16, AgainSim
<1>17. CASE Handle
  BY <1>17, HandleSim
<1>18. CASE Unwind
  BY <1>18, UnwindSim
<1>19. CASE Leave
  BY <1>19, LeaveSim
<1>20. CASE EndProgram
  BY <1>20, EndProgramSim
<1>21. CASE Stop \/ UNCHANGED vars
  BY <1>21, StutterSim DEF Stop
<1> QED
  BY <1>1, <1>2, <1>3, <1>4, <1>5, <1>6, <1>7, <1>8, <1>9, <1>10, <1>11, <1>12, <1>13, <1>14,
     <1>15, <1>16, <1>17, <1>18, <1>19, <1>20, <1>21 DEF Next, Propagate

\* What is known of the exception is kept by every step.
LEMMA RInvStep ==
  ASSUME IInv, RInv, IInv', StructuredFeatures, [Next]_vars
  PROVE  RInv'
<1>1. RFacts
  BY RFactsHold
<1>2. SUFFICES ExceptionInv'
  BY StepSim DEF Simulated, RInv
<1>3. ASSUME NEW e \in Exception, Raise(e) \/ RaiseInCall(e) PROVE ExceptionInv'
  BY <1>1, <1>3, RaisedOnce
<1>4. CASE Propagate
  BY <1>1, <1>4, RunFinallyRaises, AgainRaises, HandleRaises, UnwindRaises, LeaveRaises, EndProgramRaises
     DEF Propagate
<1>5. CASE Stop \/ UNCHANGED vars
  BY <1>1, <1>5, StutterRaises DEF Stop
<1>6. CASE \/ \E c \in CallFrame : PushCallFrame(c)
           \/ \E f \in Frame : CallFunction(f) \/ BeginClass(f)
           \/ \E m \in VM, f \in Frame : CallModule(m, f)
           \/ \E m \in VM, f \in Frame, c \in CallFrame : CallBack(m, f, c)
           \/ CallNative \/ EndClass \/ Return \/ PopTry
           \/ \E handled \in SUBSET Exception : PushTry(handled)
           \/ \E m \in VM : Import(m)
           \/ EndCode \/ EndCall \/ EndImport
  BY <1>1, <1>6, NothingRaisedByOpcodes
<1> QED BY <1>3, <1>4, <1>5, <1>6 DEF Next

\* A program starts with its own code, in no try.
LEMMA StartSim ==
  ASSUME Init
  PROVE  Structured!Init /\ RInv
<1>1. /\ L = 1 /\ stack_frames[1].frame = Main /\ IsBase(1) /\ KindOf(1) = "main"
      /\ Top = stack_frames[1] /\ Main \in VM
  BY InitStack
<1>2. mode = "run" /\ raised = None /\ by_call = FALSE /\ tries[Main] = <<>>
  BY <1>1 DEF Init
<1>3. StacksTyped
  BY InitType
<1>4. Seen(1) = <<Function(<<>>)>>
  <2>1. ~StartsFunction(1)
    BY InitStack
  <2>2. 1 \in 1 .. L
    BY <1>1
  <2>3. StackInv
    BY InitStep DEF IInv
  <2>4. Seen(1) = <<Function(HandledBy(Main))>>
    BY <1>1, <1>3, <2>1, <2>2, <2>3, SeenIs
  <2>5. HandledBy(Main) = <<>>
    BY <1>2 DEF HandledBy
  <2> QED BY <2>4, <2>5
<1>5. Activations = <<Function(<<>>)>>
  <2>1. PICK f : Stacked(f)
    BY <1>3, ActivationsAre
  <2>2. f[1] = f[0] \o Seen(1) /\ f[0] = <<>> /\ f[L] = Activations
    <3>1. 1 \in 1 .. L
      BY <1>1
    <3>2. f[1] = f[1 - 1] \o Seen(1) /\ f[0] = <<>> /\ f[L] = Activations
      BY <2>1, <3>1 DEF Stacked
    <3>3. 1 - 1 = 0
      OBVIOUS
    <3> QED BY <3>2, <3>3
  <2>3. \A x : <<>> \o <<x>> = <<x>>
    OBVIOUS
  <2> QED BY <1>1, <1>4, <2>2, <2>3
<1>6. Structured!Init
  <2>1. InOwnCode = TRUE
    <3>1. PlacesInv
      BY InitPlaces
    <3> QED BY <1>2, <3>1 DEF InOwnCode, PlacesInv, RunsOwnCode
  <2> QED BY <1>2, <1>5, <2>1 DEF Structured!Init, Structured!Moss, ProgramStack, Function
<1>7. WaitingCatchesAll
  BY <1>1 DEF WaitingCatchesAll
<1>8. ExceptionInv
  BY <1>2 DEF ExceptionInv
<1> QED BY <1>6, <1>7, <1>8 DEF RInv

\* Calls and exceptions mean what StructuredCalls says, whatever interpreters
\* run the program and however often run calls itself, in every program that
\* does what is known to work and keeps its imports and callbacks out of tries
\* that would let an exception pass.  What goes on is always the code of the
\* innermost activation.
THEOREM CallsAreStructured == StructuredFeatures /\ Spec => StructuredSpec
<1>1. Init => Structured!Init /\ RInv
  BY StartSim
<1>2. StructuredFeatures /\ IInv /\ IInv' /\ RInv /\ [Next]_vars => RInv'
  BY RInvStep
<1>3. StructuredFeatures /\ IInv /\ IInv' /\ RInv /\ [Next]_vars
        => [Structured!Step]_<<ProgramStack, raised>>
  BY StepSim DEF Simulated
<1>4. PlacesInv => InOwnCode
  BY DEF PlacesInv, RunsOwnCode, InOwnCode
<1>5. StructuredFeatures /\ IInv /\ IInv' /\ RInv /\ PlacesInv' /\ [Next]_vars
        => [Structured!Next]_<<ProgramStack, raised, InOwnCode>>
  <2>1. PlacesInv' => InOwnCode'
    BY <1>4, PTL
  <2>2. InOwnCode' = TRUE \/ InOwnCode' = FALSE
    BY DEF InOwnCode
  <2> QED BY <1>3, <2>1, <2>2 DEF Structured!Next
<1>6. StructuredFeatures => []StructuredFeatures
  <2>1. StructuredFeatures => StructuredFeatures'
    BY DEF StructuredFeatures, WorkingFeatures, LeavesArguments
  <2> QED BY <2>1, PTL
<1>7. StructuredFeatures => WorkingFeatures
  BY DEF StructuredFeatures
<1> QED BY <1>1, <1>2, <1>5, <1>6, <1>7, InvariantHolds, PlacesHold, PTL DEF Spec, StructuredSpec, Structured!Spec

=============================================================================
