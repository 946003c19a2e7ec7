---------------------------- MODULE GcHeapProofs ----------------------------
(***************************************************************************)
(* Proofs about GcHeap, for any number of values, pools, VMs and any       *)
(* program: the inductive invariant (no dangling pointers), no lost pools, *)
(* exact marking, and the refinement of GcAbstract.                        *)
(***************************************************************************)
EXTENDS GcReachable, FiniteSetTheorems, TLAPS

-----------------------------------------------------------------------------
(* The stack. *)

\* Pushing an activation leaves those below as they are.
LEMMA PushStack ==
  ASSUME stack_frames \in Seq(Activation), NEW a \in Activation,
         Push(a)
  PROVE  /\ stack_frames' \in Seq(Activation)
         /\ Depth' = Depth + 1
         /\ \A i \in 1 .. Depth : stack_frames'[i] = stack_frames[i]
         /\ stack_frames'[Depth + 1] = a
BY DEF Depth, Push

\* Popping leaves the activations below the top as they are.
LEMMA PopStack ==
  ASSUME stack_frames \in Seq(Activation), Depth > 1, Pop
  PROVE  /\ stack_frames' \in Seq(Activation)
         /\ Depth' = Depth - 1
         /\ \A i \in 1 .. Depth' : stack_frames'[i] = stack_frames[i]
BY DEF Pop, Depth

\* The running activation and its registers.
LEMMA TopFacts ==
  ASSUME TypeOK
  PROVE  /\ Depth \in Nat \ {0}
         /\ Top = stack_frames[Depth]
         /\ \A i \in 1 .. Depth :
              /\ stack_frames[i] \in Activation
              /\ stack_frames[i].vm \in VM
              /\ stack_frames[i].frame \in Pool
              /\ stack_frames[i].fun \in Value \cup {None}
              /\ stack_frames[i].module \in Value \cup {None}
              /\ stack_frames[i].args \in SUBSET Value
              /\ stack_frames[i].external \in BOOLEAN
         /\ Top.vm \in VM /\ Top.frame \in Pool
         /\ Registers \subseteq Value
<1>1. stack_frames \in Seq(Activation) /\ stack_frames # <<>>
      /\ slots \in [Pool -> SUBSET Value]
  BY DEF TypeOK
<1>2. Depth \in Nat \ {0}
  BY <1>1 DEF Depth
<1>3. Top = stack_frames[Depth]
  BY DEF Top
<1>4. \A i \in 1 .. Depth : stack_frames[i] \in Activation
  BY <1>1 DEF Depth
<1>5. \A a \in Activation :
         /\ a.vm \in VM /\ a.frame \in Pool /\ a.fun \in Value \cup {None}
         /\ a.module \in Value \cup {None}
         /\ a.args \in SUBSET Value /\ a.external \in BOOLEAN
  BY DEF Activation
<1>6. Top \in Activation
  BY <1>2, <1>3, <1>4
<1>7. Registers \subseteq Value
  BY <1>1, <1>5, <1>6 DEF Registers
<1> QED BY <1>2, <1>3, <1>4, <1>5, <1>6, <1>7

\* Induction along the stack survives a push onto the top and a pop.
LEMMA StackInductionPush ==
  ASSUME stack_frames \in Seq(Activation), Depth > 0, StackInduction,
         NEW a \in Activation, Push(a)
  PROVE  StackInduction'
<1>0. Depth \in Nat
  BY DEF Depth
<1>1. /\ Depth \in Nat /\ Depth' = Depth + 1
      /\ \A i \in 1 .. Depth : stack_frames'[i] = stack_frames[i]
  BY <1>0, PushStack
<1>2. ASSUME NEW d \in 1 .. Depth', NEW S \in SUBSET VM, Main \in S,
             \A i \in 2 .. d :
               stack_frames'[i - 1].vm \in S => stack_frames'[i].vm \in S
      PROVE  \A i \in 1 .. d : stack_frames'[i].vm \in S
  <2> DEFINE e == IF d = Depth + 1 THEN Depth ELSE d
  <2>1. e \in 1 .. Depth /\ e <= d
    BY <1>1
  <2>2. \A i \in 2 .. e :
          stack_frames[i - 1].vm \in S => stack_frames[i].vm \in S
    <3> TAKE i \in 2 .. e
    <3>1. i \in 2 .. d /\ i - 1 \in 1 .. Depth /\ i \in 1 .. Depth
      BY <1>1, <2>1
    <3>2. stack_frames'[i - 1] = stack_frames[i - 1]
          /\ stack_frames'[i] = stack_frames[i]
      BY <1>1, <3>1
    <3> QED BY <1>2, <3>1, <3>2
  <2>3. \A i \in 1 .. e : stack_frames[i].vm \in S
    BY <1>2, <2>1, <2>2 DEF StackInduction
  <2>4. \A i \in 1 .. e : stack_frames'[i].vm \in S
    BY <1>1, <2>1, <2>3
  <2>5. CASE d = Depth + 1
    <3>1. d \in 2 .. d /\ d - 1 = Depth /\ Depth \in 1 .. e
      BY <1>1, <2>5
    <3>2. stack_frames'[d].vm \in S
      BY <1>2, <2>4, <3>1
    <3> QED BY <1>1, <2>4, <2>5, <3>2
  <2>6. CASE d # Depth + 1
    BY <2>4, <2>6
  <2> QED BY <2>5, <2>6
<1> QED BY <1>2 DEF StackInduction

LEMMA StackInductionPop ==
  ASSUME stack_frames \in Seq(Activation), Depth > 1, StackInduction, Pop
  PROVE  StackInduction'
<1>1. /\ Depth \in Nat /\ Depth' = Depth - 1
      /\ \A i \in 1 .. Depth' : stack_frames'[i] = stack_frames[i]
  BY PopStack DEF Depth
<1>2. ASSUME NEW d \in 1 .. Depth', NEW S \in SUBSET VM, Main \in S,
             \A i \in 2 .. d :
               stack_frames'[i - 1].vm \in S => stack_frames'[i].vm \in S
      PROVE  \A i \in 1 .. d : stack_frames'[i].vm \in S
  <2>1. d \in 1 .. Depth /\ \A i \in 1 .. d : i \in 1 .. Depth'
    BY <1>1
  <2>2. \A i \in 2 .. d : i \in 1 .. d /\ i - 1 \in 1 .. d
    BY <1>1
  <2>3. \A i \in 2 .. d :
          stack_frames[i - 1].vm \in S => stack_frames[i].vm \in S
    BY <1>1, <1>2, <2>1, <2>2
  <2>4. \A i \in 1 .. d : stack_frames[i].vm \in S
    BY <1>2, <2>1, <2>3 DEF StackInduction
  <2> QED BY <1>1, <2>1, <2>4
<1> QED BY <1>2 DEF StackInduction

-----------------------------------------------------------------------------
(* What every step of the program does to a closed heap. *)

\* The pools that are allocated by a step.
NewPools == live_pools' \ live_pools

\* The program only adds objects; what it adds or redirects points to
\* allocated objects; it lists frames that are allocated.
Grows ==
  /\ all_values \subseteq all_values'
  /\ live_pools \subseteq live_pools' /\ live_pools' \subseteq Pool
  /\ vms \subseteq vms'
  /\ \A v \in all_values :
       /\ pools'[v] = pools[v] /\ home'[v] = home[v] /\ kind'[v] = kind[v]
       /\ refs'[v] \subseteq all_values'
  /\ \A v \in all_values' \ all_values :
       /\ refs'[v] \subseteq all_values'
       /\ pools'[v] \subseteq OwnedPools \cup NewPools
       /\ home'[v] \in vms' \cup {None}
       /\ kind'[v] = "fun" => home'[v] # None
  /\ \A p \in live_pools :
       /\ vm_owner'[p] = vm_owner[p]
       /\ slots'[p] \subseteq slots[p] \cup all_values'
  /\ \A p \in NewPools : slots'[p] \subseteq all_values' /\ vm_owner'[p] \in vms'
  /\ \A p \in Pool \ live_pools' : slots'[p] = {}
  /\ \A m \in vms : global_frame'[m] = global_frame[m]
  /\ \A m \in vms' \ vms :
       global_frame'[m] \in NewPools /\ vm_owner'[global_frame'[m]] = m
  /\ static_roots' \subseteq all_values'
  /\ \A p \in Pool :
       popped_frames'[p] > 0 =>
         popped_frames[p] > 0 \/ p \in live_pools \ Globals
  /\ \A i \in 1 .. Depth' :
       \/ i \in 1 .. Depth /\ stack_frames'[i] = stack_frames[i]
       \/ /\ stack_frames'[i].frame \in OwnedPools \cup NewPools
          /\ stack_frames'[i].vm \in vms'
          /\ stack_frames'[i].fun \in all_values' \cup {None}
          /\ stack_frames'[i].args \subseteq all_values'

\* A pool is owned by a VM, by the stack or by a value.
LEMMA OwnedCases ==
  ASSUME NEW p
  PROVE  p \in OwnedPools <=>
           \/ \E m \in vms : p = global_frame[m]
           \/ \E i \in 1 .. Depth : p = stack_frames[i].frame
           \/ \E v \in all_values : p \in pools[v]
BY DEF OwnedPools, Globals

LEMMA OwnedCasesNext ==
  ASSUME NEW p
  PROVE  p \in OwnedPools' <=>
           \/ \E m \in vms' : p = global_frame'[m]
           \/ \E i \in 1 .. Depth' : p = stack_frames'[i].frame
           \/ \E v \in all_values' : p \in pools'[v]
BY DEF OwnedPools, Globals

\* In a closed heap owned pools are allocated.
LEMMA OwnedAllocated ==
  ASSUME HeapClosed
  PROVE  OwnedPools \subseteq live_pools
BY OwnedCases DEF HeapClosed, ValuesClosed, VMsClosed, StackClosed

\* No pool becomes owned but by being allocated.
LEMMA GrowsOwned ==
  ASSUME Grows
  PROVE  OwnedPools' \subseteq OwnedPools \cup NewPools
<1> SUFFICES ASSUME NEW p \in OwnedPools'
             PROVE  p \in OwnedPools \cup NewPools
  OBVIOUS
<1>1. CASE \E m \in vms' : p = global_frame'[m]
  BY <1>1, OwnedCases DEF Grows
<1>2. CASE \E i \in 1 .. Depth' : p = stack_frames'[i].frame
  BY <1>2, OwnedCases DEF Grows
<1>3. CASE \E v \in all_values' : p \in pools'[v]
  BY <1>3, OwnedCases DEF Grows
<1> QED BY <1>1, <1>2, <1>3, OwnedCasesNext

LEMMA GrowsKeepsHeap ==
  ASSUME HeapClosed, Homes, GlobalsOwned, FreshPools, Listed, Grows
  PROVE  HeapClosed' /\ Homes' /\ GlobalsOwned' /\ FreshPools' /\ Listed'
<1>1. OwnedPools \subseteq live_pools
  BY OwnedAllocated
<1>2. ValuesClosed'
  BY <1>1 DEF Grows, ValuesClosed, HeapClosed, NewPools
<1>3. PoolsClosed'
  <2> SUFFICES ASSUME NEW p \in OwnedPools'
               PROVE  slots'[p] \subseteq all_values' /\ vm_owner'[p] \in vms'
    BY DEF PoolsClosed
  <2>1. CASE p \in OwnedPools
    <3>1. slots[p] \subseteq all_values /\ vm_owner[p] \in vms
      BY <2>1 DEF HeapClosed, PoolsClosed
    <3> QED BY <1>1, <2>1, <3>1 DEF Grows
  <2>2. CASE p \in NewPools
    BY <2>2 DEF Grows
  <2> QED BY <2>1, <2>2, GrowsOwned
<1>4. VMsClosed'
  BY DEF Grows, VMsClosed, HeapClosed, NewPools
<1>5. StackClosed'
  BY <1>1 DEF Grows, StackClosed, HeapClosed, NewPools
<1>6. HeapClosed'
  BY <1>2, <1>3, <1>4, <1>5 DEF HeapClosed, Grows
<1>7. Homes'
  BY DEF Homes, Grows
<1>8. FreshPools'
  BY DEF FreshPools, Grows
<1>9. Globals' \subseteq Globals \cup NewPools
  BY DEF Grows, Globals
<1>10. Listed'
  BY <1>9 DEF Listed, Grows, NewPools
<1>11. GlobalsOwned'
  <2>1. Main \in vms'
    BY DEF GlobalsOwned, Grows
  <2>2. ASSUME NEW m \in vms'
        PROVE  global_frame'[m] \in Pool /\ vm_owner'[global_frame'[m]] = m
    <3>1. CASE m \in vms
      <4>1. global_frame[m] \in live_pools /\ vm_owner[global_frame[m]] = m
        BY <3>1 DEF GlobalsOwned, HeapClosed, VMsClosed
      <4> QED BY <3>1, <4>1 DEF Grows
    <3>2. CASE m \notin vms
      BY <3>2 DEF Grows, NewPools
    <3> QED BY <3>1, <3>2
  <2> QED BY <2>1, <2>2 DEF GlobalsOwned
<1> QED BY <1>6, <1>7, <1>8, <1>10, <1>11

-----------------------------------------------------------------------------
(* The stack invariants under the three things a step does to the stack. *)

StackInv == Chain /\ Imports /\ StackInduction

\* The module of an activation is allocated.
LEMMA ImportsAllocated ==
  ASSUME HeapClosed, Imports
  PROVE  \A i \in 1 .. Depth : stack_frames[i].module \in all_values \cup {None}
BY DEF HeapClosed, Imports

\* The activations that a step leaves on the stack stay chained.
LEMMA ChainPrefix ==
  ASSUME TypeOK, HeapClosed, StackInv, Grows, NEW k \in 1 .. Depth,
         \A i \in 1 .. k : stack_frames'[i] = stack_frames[i]
  PROVE  /\ stack_frames'[1].vm = Main
         /\ \A i \in 2 .. k :
              \/ stack_frames'[i].vm = stack_frames'[i - 1].vm
              \/ Runs(stack_frames[i], stack_frames[i].fun)'
              \/ Runs(stack_frames[i], stack_frames[i].module)'
<1>0. Depth \in Nat \ {0} /\ Chain /\ Imports
  BY TopFacts DEF StackInv
<1>1. stack_frames'[1].vm = Main
  BY <1>0 DEF Chain
<1>2. ASSUME NEW i \in 2 .. k
      PROVE  \/ stack_frames'[i].vm = stack_frames'[i - 1].vm
             \/ Runs(stack_frames[i], stack_frames[i].fun)'
             \/ Runs(stack_frames[i], stack_frames[i].module)'
  <2>1. i \in 2 .. Depth /\ i \in 1 .. k /\ i - 1 \in 1 .. k
        /\ i \in 1 .. Depth
    BY <1>0
  <2>2. stack_frames'[i] = stack_frames[i]
        /\ stack_frames'[i - 1] = stack_frames[i - 1]
    BY <2>1
  <2>3. /\ stack_frames[i].fun \in all_values \cup {None}
        /\ stack_frames[i].module \in all_values \cup {None}
    BY <1>0, <2>1, ImportsAllocated DEF HeapClosed, StackClosed
  <2>4. \A v \in all_values : home'[v] = home[v]
    BY DEF Grows
  <2> QED BY <1>0, <2>1, <2>2, <2>3, <2>4 DEF Chain, Runs
<1> QED BY <1>1, <1>2

LEMMA StackSame ==
  ASSUME TypeOK, HeapClosed, StackInv, Grows, UNCHANGED rootVars
  PROVE  StackInv'
<1>1. Depth' = Depth /\ Depth \in Nat \ {0} /\ Depth \in 1 .. Depth
      /\ UNCHANGED <<stack_frames, static_roots>>
  BY TopFacts DEF Depth, rootVars
<1>2. Chain'
  BY <1>1, ChainPrefix DEF Chain
<1>3. Imports' /\ StackInduction'
  BY <1>1 DEF StackInv, StackInduction, Imports
<1> QED BY <1>2, <1>3 DEF StackInv

LEMMA StackPush ==
  ASSUME TypeOK, HeapClosed, StackInv, Grows,
         NEW a \in Activation, Push(a),
         \/ a.vm = Top.vm
         \/ a.fun # None /\ home'[a.fun] = a.vm
         \/ a.module # None /\ home'[a.module] = a.vm,
         a.module # None => a.module \in static_roots' \ all_values,
         static_roots \subseteq static_roots'
  PROVE  StackInv'
<1>0. stack_frames \in Seq(Activation) /\ Depth \in Nat \ {0}
      /\ Depth \in 1 .. Depth
  BY TopFacts DEF TypeOK
<1>1. /\ Depth \in Nat \ {0} /\ Depth' = Depth + 1
      /\ \A i \in 1 .. Depth : stack_frames'[i] = stack_frames[i]
      /\ stack_frames'[Depth + 1] = a
  BY <1>0, PushStack
<1>2. StackInduction /\ Imports /\ Depth > 0
  BY <1>0 DEF StackInv
<1>3. StackInduction'
  BY <1>0, <1>2, StackInductionPush
<1>4. Chain'
  <2>1. /\ stack_frames'[1].vm = Main
        /\ \A i \in 2 .. Depth :
             \/ stack_frames'[i].vm = stack_frames'[i - 1].vm
             \/ Runs(stack_frames[i], stack_frames[i].fun)'
             \/ Runs(stack_frames[i], stack_frames[i].module)'
    BY <1>0, <1>1, ChainPrefix
  <2>2. stack_frames'[Depth] = Top
    BY <1>0, <1>1, TopFacts
  <2>3. \A i \in 2 .. Depth' : i \in 2 .. Depth \/ i = Depth + 1
    BY <1>1
  <2>4. (Depth + 1) - 1 = Depth
    BY <1>1
  <2>5. ASSUME NEW i, i = Depth + 1
        PROVE  \/ stack_frames'[i].vm = stack_frames'[i - 1].vm
               \/ Runs(stack_frames[i], stack_frames[i].fun)'
               \/ Runs(stack_frames[i], stack_frames[i].module)'
    BY <1>1, <2>2, <2>4, <2>5 DEF Runs
  <2> QED BY <2>1, <2>3, <2>5 DEF Chain
<1>5. Imports'
  <2>1. \A i \in 1 .. Depth' : i \in 1 .. Depth \/ i = Depth + 1
    BY <1>1
  <2>2. \A i \in 1 .. Depth : a.module # None => stack_frames[i].module # a.module
    BY <1>2, ImportsAllocated
  <2> QED BY <1>1, <1>2, <2>1, <2>2 DEF Imports
<1> QED BY <1>3, <1>4, <1>5 DEF StackInv

LEMMA StackPop ==
  ASSUME TypeOK, HeapClosed, StackInv, Grows, Depth > 1, Pop,
         \A i \in 1 .. Depth - 1 : stack_frames[i].module \in static_roots
                                   => stack_frames[i].module \in static_roots'
  PROVE  StackInv'
<1>0. StackInduction /\ Imports
  BY DEF StackInv
<1>1. /\ Depth \in Nat \ {0} /\ Depth' = Depth - 1
      /\ \A i \in 1 .. Depth' : stack_frames'[i] = stack_frames[i]
      /\ stack_frames \in Seq(Activation) /\ Top = stack_frames[Depth]
  BY TopFacts, PopStack DEF TypeOK
<1>2. StackInduction'
  BY <1>0, <1>1, StackInductionPop
<1>3. Depth' \in 1 .. Depth
  BY <1>1
<1>4. Chain'
  BY <1>1, <1>3, ChainPrefix DEF Chain
<1>5. Imports'
  <2>1. \A i \in 1 .. Depth' : i \in 1 .. Depth /\ i # Depth
    BY <1>1
  <2>2. Depth \in 1 .. Depth
    BY <1>1
  <2> QED BY <1>0, <1>1, <2>1, <2>2 DEF Imports
<1> QED BY <1>2, <1>4, <1>5 DEF StackInv

-----------------------------------------------------------------------------
(* The actions of the program. *)

RunInv == TypeOK /\ Static /\ HeapClosed

\* What the running opcode finds.
LEMMA RunFacts ==
  ASSUME RunInv
  PROVE  /\ OwnedPools \subseteq live_pools
         /\ Top.frame \in OwnedPools /\ Top.frame \in Pool
         /\ Top.vm \in vms /\ Top.vm \in VM
         /\ Registers \subseteq all_values
         /\ Registers = slots[Top.frame]
         /\ Depth \in Nat \ {0}
         /\ \A p \in OwnedPools : slots[p] \subseteq all_values
                                  /\ vm_owner[p] \in vms
         /\ \A v \in all_values : pools[v] \subseteq OwnedPools
         /\ \A p \in Pool \ live_pools : slots[p] = {}
<1>1. OwnedPools \subseteq live_pools
  BY OwnedAllocated DEF RunInv
<1>2. Depth \in 1 .. Depth /\ Top = stack_frames[Depth]
      /\ Depth \in Nat \ {0}
  BY TopFacts DEF RunInv
<1>3. Top.frame \in OwnedPools
  BY <1>2, OwnedCases
<1>4. Top.vm \in vms /\ Top.vm \in VM /\ Top.frame \in Pool
  BY <1>2, TopFacts DEF RunInv, HeapClosed, StackClosed
<1>5. \A p \in OwnedPools : slots[p] \subseteq all_values /\ vm_owner[p] \in vms
  BY DEF RunInv, HeapClosed, PoolsClosed
<1>6. \A v \in all_values : pools[v] \subseteq OwnedPools
  BY OwnedCases
<1>7. \A p \in Pool \ live_pools : slots[p] = {}
  BY DEF RunInv, Static, FreshPools
<1> QED BY <1>1, <1>2, <1>3, <1>4, <1>5, <1>6, <1>7 DEF Registers

\* A step that changes only registers, attributes or elements.
LEMMA StoreGrows ==
  ASSUME RunInv,
         UNCHANGED <<all_values, kind, pools, home, live_pools, vm_owner,
                     popped_frames, vmVars, rootVars>>,
         \A v \in all_values : refs'[v] \subseteq all_values,
         \A p \in live_pools : slots'[p] \subseteq slots[p] \cup all_values,
         \A p \in Pool \ live_pools : slots'[p] = {}
  PROVE  Grows
<1>1. Depth' = Depth
  BY DEF Depth, rootVars
<1>2. live_pools \subseteq Pool
  BY DEF RunInv, TypeOK
<1> QED
  BY <1>1, <1>2 DEF Grows, NewPools, RunInv, HeapClosed, vmVars, rootVars

LEMMA NewListGrows ==
  ASSUME RunInv, NEW v \in Value, NEW rs \in SUBSET Value, NewList(v, rs)
  PROVE  Grows /\ UNCHANGED rootVars /\ TypeOK'
<1> USE RunFacts
<1>1. UNCHANGED rootVars /\ Depth' = Depth
  BY DEF NewList, Depth, rootVars
<1>2. TypeOK'
  BY DEF RunInv, TypeOK, NewList, Allocate, Store, Running, gcVars, vmVars,
         rootVars, rawRoots, Kind
<1>3. Grows
  BY <1>1 DEF RunInv, TypeOK, HeapClosed, ValuesClosed, NewList, Allocate,
     Store, Running, vmVars, rootVars, Grows, NewPools
<1> QED BY <1>1, <1>2, <1>3

LEMMA NewIteratorGrows ==
  ASSUME RunInv, NEW v \in Value, NEW c \in Value, NewIterator(v, c)
  PROVE  Grows /\ UNCHANGED rootVars /\ TypeOK'
<1> USE RunFacts
<1>1. UNCHANGED rootVars /\ Depth' = Depth
  BY DEF NewIterator, Depth, rootVars
<1>2. TypeOK'
  BY DEF RunInv, TypeOK, NewIterator, Allocate, Store, Running, gcVars,
         vmVars, rootVars, rawRoots, Kind
<1>3. Grows
  BY <1>1 DEF RunInv, TypeOK, HeapClosed, ValuesClosed, NewIterator,
     Allocate, Store, Running, vmVars, rootVars, Grows, NewPools
<1> QED BY <1>1, <1>2, <1>3

\* The frames a function captures are on the stack.
LEMMA CapturedOwned ==
  ASSUME RunInv
  PROVE  Captured \subseteq OwnedPools
BY OwnedCases DEF Captured

LEMMA CreateFunGrows ==
  ASSUME RunInv, NEW v \in Value, CreateFun(v)
  PROVE  Grows /\ UNCHANGED rootVars /\ TypeOK'
<1> USE RunFacts
<1> DEFINE ms == {w \in all_values : kind[w] = "module" /\ home[w] = Top.vm}
           cs == Captured
<1>1. UNCHANGED rootVars /\ Depth' = Depth
  BY DEF CreateFun, Depth, rootVars
<1>2. ms \subseteq all_values /\ cs \subseteq OwnedPools
  BY CapturedOwned
<1>3. Allocate(v, "fun", ms, None, cs, Top.vm)
  BY DEF CreateFun
<1>4. OwnedPools \subseteq Pool
  BY DEF RunInv, TypeOK
<1>5. /\ Store(v)
      /\ UNCHANGED <<live_pools, vm_owner, pool_owner, popped_frames, vmVars,
                     rootVars, rawRoots, gcVars>>
  BY DEF CreateFun, Running
<1> HIDE DEF ms, cs
<1>6. TypeOK'
  BY <1>2, <1>3, <1>4, <1>5
     DEF RunInv, TypeOK, Allocate, Store, gcVars, vmVars, rootVars,
         rawRoots, Kind
<1>7. Top.vm # None
  BY AddressAssumption
<1>8. Grows
  BY <1>1, <1>2, <1>3, <1>5, <1>7
     DEF RunInv, TypeOK, HeapClosed, ValuesClosed, Allocate, Store, vmVars,
         rootVars, Grows, NewPools
<1> QED BY <1>1, <1>6, <1>8

LEMMA NewObjectGrows ==
  ASSUME RunInv, NEW v \in Value, NEW c \in Value, NEW p \in Pool,
         NewObject(v, c, p)
  PROVE  Grows /\ UNCHANGED rootVars /\ TypeOK'
<1> USE RunFacts
<1>1. UNCHANGED rootVars /\ Depth' = Depth
  BY DEF NewObject, Depth, rootVars
<1>2. PICK q \in pools[c] :
        /\ vm_owner' = [vm_owner EXCEPT ![p] = vm_owner[q]]
        /\ slots' = [slots EXCEPT ![Top.frame] = @ \cup {v}, ![p] = slots[q]]
  BY DEF NewObject
<1>3. q \in OwnedPools /\ q \in Pool /\ c \in all_values
  BY DEF NewObject, RunInv, TypeOK
<1>4. /\ Allocate(v, "object", {c}, None, {p}, None)
      /\ p \notin live_pools /\ live_pools' = live_pools \cup {p}
      /\ UNCHANGED <<pool_owner, popped_frames, vmVars, rootVars, rawRoots,
                     gcVars>>
  BY DEF NewObject, Running
<1>5. TypeOK'
  BY <1>2, <1>3, <1>4, ZenonT(60)
     DEF RunInv, TypeOK, Allocate, gcVars, vmVars, rootVars, rawRoots, Kind
<1>6. p # Top.frame
  BY <1>4
<1>7. NewPools = {p}
  BY <1>4 DEF NewPools
<1>8. slots \in [Pool -> SUBSET Value] /\ vm_owner \in [Pool -> VM \cup {None}]
  BY DEF RunInv, TypeOK
<1>9. slots'[p] \subseteq all_values' /\ vm_owner'[p] \in vms'
  BY <1>2, <1>3, <1>4, <1>6, <1>8 DEF Allocate, vmVars
<1>10. \A r \in Pool \ {p} : /\ slots'[r] \subseteq slots[r] \cup {v}
                             /\ vm_owner'[r] = vm_owner[r]
                             /\ r # Top.frame => slots'[r] = slots[r]
  BY <1>2, <1>8
<1>11. /\ \A r \in live_pools :
            /\ vm_owner'[r] = vm_owner[r]
            /\ slots'[r] \subseteq slots[r] \cup all_values'
       /\ \A r \in Pool \ live_pools' : slots'[r] = {}
  <2>1. live_pools \subseteq Pool \ {p}
    BY <1>4 DEF RunInv, TypeOK
  <2>2. all_values \cup {v} = all_values'
    BY <1>4 DEF Allocate
  <2>3. Top.frame \in live_pools
    OBVIOUS
  <2>4. ASSUME NEW r \in Pool \ live_pools'
        PROVE  slots'[r] = {}
    BY <1>4, <1>10, <2>3
  <2>5. \A r \in live_pools : slots'[r] \subseteq slots[r] \cup all_values'
    BY <1>10, <2>1, <2>2
  <2> QED BY <1>10, <2>1, <2>4, <2>5
<1>12. /\ all_values \subseteq all_values' /\ c \in all_values'
       /\ \A w \in all_values' \ all_values :
            /\ refs'[w] = {c} /\ pools'[w] = {p}
            /\ home'[w] = None /\ kind'[w] = "object"
       /\ \A w \in all_values :
            /\ pools'[w] = pools[w] /\ home'[w] = home[w]
            /\ kind'[w] = kind[w] /\ refs'[w] = refs[w]
  BY <1>3, <1>4 DEF RunInv, TypeOK, Allocate
<1>13. Grows
  BY <1>1, <1>4, <1>7, <1>9, <1>11, <1>12
     DEF RunInv, TypeOK, HeapClosed, ValuesClosed, vmVars, rootVars, Grows
<1> QED BY <1>1, <1>5, <1>13

\* What can be loaded comes from one of five places.
LEMMA LoadableCases ==
  ASSUME NEW v \in Loadable
  PROVE  \/ v \in UNION {slots[p] : p \in Scope}
         \/ v \in UNION {ClosureFun(p) : p \in Scope}
         \/ v \in UNION {refs[r] : r \in Registers}
         \/ v \in UNION {slots[p] : p \in AttributeFrames}
         \/ v \in UNION {refs[w] : w \in Iterated}
BY DEF Loadable

\* The opcodes that store something the program has already.
LEMMA StoresGrow ==
  ASSUME RunInv, NEW c, NEW v,
         \/ Append_(c, v) \/ Remove(c, v) \/ SetAttr(c, v) \/ Load(v)
         \/ Overwrite(v) \/ AddConverter(v) \/ Catch
  PROVE  Grows /\ UNCHANGED rootVars /\ TypeOK'
<1> USE RunFacts
<1>1. CASE Append_(c, v) \/ Remove(c, v)
  <2>0. /\ UNCHANGED <<all_values, kind, iterates, pools, home, poolVars,
                       popped_frames, vmVars, rootVars, rawRoots, gcVars>>
        /\ c \in all_values /\ v \in all_values
    BY <1>1 DEF Append_, Remove, Running, RunInv, HeapClosed, ValuesClosed
  <2>1. PICK r \in SUBSET all_values : refs' = [refs EXCEPT ![c] = r]
    <3>1. refs[c] \subseteq all_values
      BY <2>0 DEF RunInv, HeapClosed, ValuesClosed
    <3>2. CASE Append_(c, v)
      BY <2>0, <3>1, <3>2 DEF Append_
    <3>3. CASE Remove(c, v)
      BY <2>0, <3>1, <3>3 DEF Remove
    <3> QED BY <1>1, <3>2, <3>3
  <2>2. TypeOK'
    BY <2>0, <2>1 DEF RunInv, TypeOK, gcVars, poolVars, vmVars, rootVars,
                      rawRoots
  <2>3. \A w \in all_values : refs'[w] \subseteq all_values
    BY <2>1 DEF RunInv, TypeOK, HeapClosed, ValuesClosed
  <2>4. Grows
    BY <2>0, <2>3, StoreGrows DEF poolVars
  <2> QED BY <2>0, <2>2, <2>4 DEF rootVars
<1>2. CASE SetAttr(c, v) \/ Load(v) \/ Overwrite(v) \/ Catch
  <2>0. UNCHANGED <<valueVars, live_pools, vm_owner, pool_owner,
                    popped_frames, vmVars, rootVars, converters, gcVars>>
        /\ in_flight' \in {in_flight, None}
    BY <1>2 DEF SetAttr, Load, Overwrite, Catch, Running, rawRoots
  <2>1. PICK p \in OwnedPools, x \in SUBSET all_values :
          \/ slots' = [slots EXCEPT ![p] = @ \cup x]
          \/ slots' = [slots EXCEPT ![p] = @ \ x]
    <3>1. CASE SetAttr(c, v)
      <4>1. {v} \in SUBSET all_values /\ pools[c] \subseteq OwnedPools
        BY <3>1 DEF SetAttr
      <4> QED BY <3>1, <4>1 DEF SetAttr
    <3>2. CASE Load(v)
      <4>1. v \in all_values
        <5>1. \A p \in Scope : p \in OwnedPools
          <6>1. OwnedPools \in SUBSET Pool
            BY DEF RunInv, TypeOK
          <6>2. FramesOf(Top.vm) \subseteq OwnedPools
            BY OwnedCases DEF FramesOf
          <6>3. Closures(OwnedPools) \subseteq OwnedPools
            BY OwnedCases DEF Closures, ClosureFun
          <6> QED BY <6>1, <6>2, <6>3 DEF Scope
        <5>2. \A r \in Registers : /\ refs[r] \subseteq all_values
                                   /\ pools[r] \subseteq OwnedPools
          BY DEF RunInv, HeapClosed, ValuesClosed
        <5>3. \A w \in all_values : refs[w] \subseteq all_values
          BY DEF RunInv, HeapClosed, ValuesClosed
        <5>4. CASE v \in UNION {slots[p] : p \in Scope}
          BY <5>1, <5>4
        <5>5. CASE v \in UNION {ClosureFun(p) : p \in Scope}
          BY <5>5 DEF ClosureFun
        <5>6. CASE v \in UNION {refs[r] : r \in Registers}
          BY <5>2, <5>6
        <5>7. CASE v \in UNION {slots[p] : p \in AttributeFrames}
          BY <5>2, <5>7 DEF AttributeFrames
        <5>8. CASE v \in UNION {refs[w] : w \in Iterated}
          BY <5>3, <5>8 DEF Iterated
        <5>10. \/ v \in UNION {slots[p] : p \in Scope}
               \/ v \in UNION {ClosureFun(p) : p \in Scope}
               \/ v \in UNION {refs[r] : r \in Registers}
               \/ v \in UNION {slots[p] : p \in AttributeFrames}
               \/ v \in UNION {refs[w] : w \in Iterated}
          BY <3>2, LoadableCases DEF Load
        <5> QED BY <5>4, <5>5, <5>6, <5>7, <5>8, <5>10, Zenon
      <4>2. {v} \in SUBSET all_values /\ Top.frame \in OwnedPools
        BY <4>1
      <4>3. slots' = [slots EXCEPT ![Top.frame] = @ \cup {v}]
        BY <3>2 DEF Load, Store
      <4> QED BY <4>2, <4>3
    <3>3. CASE Overwrite(v)
      BY <3>3, ZenonT(60) DEF Overwrite
    <3>4. CASE Catch
      BY <3>4, ZenonT(60) DEF Catch, Store
    <3> QED BY <1>2, <3>1, <3>2, <3>3, <3>4
  <2>2. p \in live_pools /\ slots \in [Pool -> SUBSET Value]
        /\ all_values \subseteq Value
    BY <2>1 DEF RunInv, TypeOK
  <2>3. slots' \in [Pool -> SUBSET Value]
    BY <2>1, <2>2
  <2>4. TypeOK'
    BY <2>0, <2>3 DEF RunInv, TypeOK, valueVars, gcVars, vmVars, rootVars
  <2>5. \A q \in live_pools : slots'[q] \subseteq slots[q] \cup all_values
    <3>1. live_pools \subseteq Pool
      BY DEF RunInv, TypeOK
    <3>2. \A q \in Pool : slots'[q] \subseteq slots[q] \cup all_values
      BY <2>1, <2>2
    <3> QED BY <3>1, <3>2
  <2>6. \A q \in Pool \ live_pools : slots'[q] = {}
    BY <2>1, <2>2
  <2>7. \A w \in all_values : refs'[w] \subseteq all_values
    BY <2>0 DEF valueVars, RunInv, HeapClosed, ValuesClosed
  <2>8. Grows
    BY <2>0, <2>5, <2>6, <2>7, StoreGrows DEF valueVars
  <2> QED BY <2>0, <2>4, <2>8 DEF rootVars
<1>3. CASE AddConverter(v)
  <2>1. TypeOK'
    BY <1>3 DEF RunInv, TypeOK, AddConverter, Running, gcVars, valueVars,
                poolVars, vmVars, rootVars
  <2>2. /\ \A w \in all_values : refs'[w] \subseteq all_values
        /\ UNCHANGED <<valueVars, poolVars, popped_frames, vmVars, rootVars>>
    BY <1>3 DEF AddConverter, valueVars, RunInv, HeapClosed, ValuesClosed
  <2>3. Grows
    BY <2>2, StoreGrows DEF poolVars, valueVars
  <2> QED BY <2>1, <2>2, <2>3 DEF rootVars
<1> QED BY <1>1, <1>2, <1>3

\* Raise allocates the exception, which is in no register.
LEMMA RaiseGrows ==
  ASSUME RunInv, NEW v \in Value, Raise(v)
  PROVE  Grows /\ UNCHANGED rootVars /\ TypeOK'
<1> USE RunFacts
<1>1. UNCHANGED rootVars /\ Depth' = Depth
  BY DEF Raise, Depth, rootVars
<1>2. TypeOK'
  BY DEF RunInv, TypeOK, Raise, Allocate, Running, gcVars, poolVars, vmVars,
         rootVars, Kind
<1>3. Grows
  BY <1>1 DEF RunInv, TypeOK, HeapClosed, ValuesClosed, Raise, Allocate,
     Running, poolVars, vmVars, rootVars, Grows, NewPools
<1> QED BY <1>1, <1>2, <1>3

\* A push adds one activation to those there were.
LEMMA PushedActivations ==
  ASSUME RunInv, NEW a \in Activation,
         Push(a)
  PROVE  /\ stack_frames' \in Seq(Activation) /\ stack_frames' # <<>>
         /\ \A i \in 1 .. Depth' :
              \/ i \in 1 .. Depth /\ stack_frames'[i] = stack_frames[i]
              \/ stack_frames'[i] = a
<1>1. stack_frames \in Seq(Activation) /\ Depth \in Nat
  BY RunFacts DEF RunInv, TypeOK
<1>2. /\ stack_frames' \in Seq(Activation)
      /\ Depth' = Depth + 1
      /\ \A i \in 1 .. Depth : stack_frames'[i] = stack_frames[i]
      /\ stack_frames'[Depth + 1] = a
  BY <1>1, PushStack
<1>3. stack_frames' # <<>>
  BY <1>1, <1>2 DEF Depth
<1> QED BY <1>1, <1>2, <1>3

LEMMA BuildClassGrows ==
  ASSUME RunInv, NEW v \in Value, NEW p \in Pool, BuildClass(v, p)
  PROVE  Grows /\ StackInv' /\ TypeOK'
<1> USE RunFacts
<1>1. /\ Allocate(v, "class", {}, None, {p}, None)
      /\ NewPool(p, Top.vm, v) /\ Store(v)
      /\ Push([vm |-> Top.vm, frame |-> p, fun |-> None, args |-> {},
                module |-> None, external |-> FALSE])
      /\ UNCHANGED <<popped_frames, vmVars, static_roots, rawRoots, gcVars>>
  BY DEF BuildClass, Running
<1>b. TypeOK /\ HeapClosed /\ StackInv
  BY DEF RunInv, Static, StackInv
<1>a. PICK a \in Activation :
        /\ a.vm = Top.vm /\ a.frame = p /\ a.fun = None /\ a.args = {}
        /\ a.module = None
        /\ Push(a)
  <2> DEFINE a == [vm |-> Top.vm, frame |-> p, fun |-> None, args |-> {},
                   module |-> None, external |-> FALSE]
  <2>1. a \in Activation
    BY <1>1 DEF Activation
  <2> QED BY <1>1, <2>1
<1>2. /\ stack_frames' \in Seq(Activation) /\ stack_frames' # <<>>
      /\ \A i \in 1 .. Depth' :
           \/ i \in 1 .. Depth /\ stack_frames'[i] = stack_frames[i]
           \/ stack_frames'[i] = a
  BY <1>a, PushedActivations
<1>3. TypeOK'
  BY <1>1, <1>2 DEF RunInv, TypeOK, Allocate, NewPool, Store, gcVars, vmVars,
                    rawRoots, Kind
<1>4. NewPools = {p}
  BY <1>1 DEF NewPools, NewPool
<1>5. Grows
  BY <1>1, <1>2, <1>4, <1>a
     DEF RunInv, TypeOK, HeapClosed, ValuesClosed, Allocate, NewPool, Store,
         vmVars, Grows
<1>6. /\ static_roots \subseteq static_roots' /\ a \in Activation /\ Push(a)
      /\ a.vm = Top.vm /\ ~(a.module # None)
  BY <1>1, <1>a
<1>7. StackInv'
  <2> HIDE RunFacts
  <2>1. a.module # None => a.module \in static_roots' \ all_values
    BY <1>6
  <2> QED BY <1>5, <1>6, <1>b, <2>1, StackPush
<1> QED BY <1>3, <1>5, <1>7

LEMMA ImportGrows ==
  ASSUME RunInv, NEW v \in Value, NEW m \in VM, NEW g \in Pool,
         Import(v, m, g)
  PROVE  Grows /\ StackInv' /\ TypeOK'
<1> USE RunFacts
<1>1. /\ Allocate(v, "module", {}, None, {g}, m)
      /\ NewPool(g, m, None)
      /\ Push([vm |-> m, frame |-> g, fun |-> None, args |-> {},
                module |-> v, external |-> TRUE])
      /\ m \notin vms /\ vms' = vms \cup {m}
      /\ global_frame' = [global_frame EXCEPT ![m] = g]
      /\ static_roots' = static_roots \cup {v}
      /\ UNCHANGED <<slots, popped_frames, rawRoots, gcVars>>
  BY DEF Import, Running
<1>b. TypeOK /\ HeapClosed /\ StackInv
  BY DEF RunInv, Static, StackInv
<1>a. PICK a \in Activation :
        /\ a.vm = m /\ a.frame = g /\ a.fun = None /\ a.args = {}
        /\ a.module = v
        /\ Push(a)
  <2> DEFINE a == [vm |-> m, frame |-> g, fun |-> None, args |-> {},
                   module |-> v, external |-> TRUE]
  <2>1. a \in Activation
    BY <1>1 DEF Activation
  <2> QED BY <1>1, <2>1
<1>2. /\ stack_frames' \in Seq(Activation) /\ stack_frames' # <<>>
      /\ \A i \in 1 .. Depth' :
           \/ i \in 1 .. Depth /\ stack_frames'[i] = stack_frames[i]
           \/ stack_frames'[i] = a
  BY <1>a, PushedActivations
<1>3. TypeOK'
  BY <1>1, <1>2 DEF RunInv, TypeOK, Allocate, NewPool, gcVars, rawRoots, Kind
<1>4. NewPools = {g}
  BY <1>1 DEF NewPools, NewPool
<1>5. Grows
  BY <1>1, <1>2, <1>4, <1>a
     DEF RunInv, TypeOK, HeapClosed, ValuesClosed, Allocate, NewPool, Grows
<1>6. v # None /\ home'[v] = m /\ v \in static_roots' \ all_values
  BY <1>1, AddressAssumption DEF Allocate, RunInv, TypeOK
<1>7. StackInv'
  BY <1>1, <1>5, <1>6, <1>a, <1>b, StackPush
<1> QED BY <1>3, <1>5, <1>7

LEMMA CallGrows ==
  ASSUME RunInv, NEW f \in Value, NEW as \in SUBSET Value, NEW p \in Pool,
         NEW ext \in BOOLEAN, Call(f, as, p, ext)
  PROVE  Grows /\ StackInv' /\ TypeOK'
<1> USE RunFacts
<1>1. /\ f \in all_values /\ kind[f] = "fun" /\ as \subseteq all_values
      /\ NewPool(p, home[f], f)
      /\ slots' = [slots EXCEPT ![p] = as]
      /\ Push([vm |-> home[f], frame |-> p, fun |-> f, args |-> as,
                module |-> None, external |-> ext])
      /\ UNCHANGED <<valueVars, popped_frames, vmVars, static_roots, rawRoots,
                     gcVars>>
  BY DEF Call, Running
<1>2. home[f] \in vms /\ home[f] \in VM
  BY <1>1 DEF RunInv, TypeOK, Static, Homes, HeapClosed, ValuesClosed
<1>b. TypeOK /\ HeapClosed /\ StackInv
  BY DEF RunInv, Static, StackInv
<1>a. PICK a \in Activation :
        /\ a.vm = home[f] /\ a.frame = p /\ a.fun = f /\ a.args = as
        /\ a.module = None
        /\ Push(a)
  <2> DEFINE a == [vm |-> home[f], frame |-> p, fun |-> f, args |-> as,
                   module |-> None, external |-> ext]
  <2>1. a \in Activation
    BY <1>1, <1>2 DEF Activation
  <2> QED BY <1>1, <2>1
<1>3. /\ stack_frames' \in Seq(Activation) /\ stack_frames' # <<>>
      /\ \A i \in 1 .. Depth' :
           \/ i \in 1 .. Depth /\ stack_frames'[i] = stack_frames[i]
           \/ stack_frames'[i] = a
  BY <1>a, PushedActivations
<1>4. TypeOK'
  BY <1>1, <1>2, <1>3
     DEF RunInv, TypeOK, NewPool, gcVars, valueVars, vmVars, rawRoots
<1>5. NewPools = {p}
  BY <1>1 DEF NewPools, NewPool
<1>6. Grows
  BY <1>1, <1>2, <1>3, <1>5, <1>a, ZenonT(60)
     DEF RunInv, TypeOK, HeapClosed, ValuesClosed, NewPool, valueVars,
         vmVars, Grows
<1>7. f # None /\ home'[f] = home[f]
  BY <1>1, AddressAssumption DEF valueVars
<1>8. StackInv'
  BY <1>1, <1>6, <1>7, <1>a, <1>b, StackPush
<1> QED BY <1>4, <1>6, <1>8

\* A step that pops an activation and stores at most an allocated value in a
\* register, or takes a static root away.
LEMMA PopGrows ==
  ASSUME RunInv, Depth > 1, Pop,
         UNCHANGED <<valueVars, live_pools, vm_owner, pool_owner, vmVars,
                     rawRoots, gcVars>>,
         static_roots' \subseteq static_roots,
         \A i \in 1 .. Depth - 1 : stack_frames[i].module \in static_roots
                                   => stack_frames[i].module \in static_roots',
         slots' \in [Pool -> SUBSET Value],
         \A p \in live_pools : slots'[p] \subseteq slots[p] \cup all_values,
         \A p \in Pool \ live_pools : slots'[p] = {}
  PROVE  Grows /\ StackInv' /\ TypeOK'
<1>1. stack_frames \in Seq(Activation)
      /\ TypeOK /\ HeapClosed /\ StackInv
  BY DEF RunInv, TypeOK, Static, StackInv
<1>2. /\ Depth \in Nat
      /\ Top.frame \in live_pools /\ Top.frame \in Pool
  BY RunFacts
<1>3. /\ stack_frames' \in Seq(Activation)
      /\ Depth' = Depth - 1
      /\ \A i \in 1 .. Depth' : stack_frames'[i] = stack_frames[i]
  BY <1>1, PopStack
<1>4. stack_frames' # <<>>
  BY <1>2, <1>3 DEF Depth
<1>5. /\ popped_frames' \in [Pool -> Nat]
      /\ \A p \in Pool :
           popped_frames'[p] > 0 =>
             popped_frames[p] > 0 \/ p \in live_pools \ Globals
  BY <1>2 DEF Pop, RunInv, TypeOK
<1>6. TypeOK'
  BY <1>3, <1>4, <1>5
     DEF RunInv, TypeOK, valueVars, vmVars, rawRoots, gcVars
<1>7. \A i \in 1 .. Depth' : i \in 1 .. Depth
  BY <1>2, <1>3
<1>8. Grows
  BY <1>3, <1>5, <1>7
     DEF RunInv, TypeOK, HeapClosed, ValuesClosed, valueVars, vmVars, Grows,
         NewPools
<1>9. StackInv'
  BY <1>1, <1>8, StackPop
<1> QED BY <1>6, <1>8, <1>9

LEMMA ReturnsGrow ==
  ASSUME RunInv, NEW v,
         Return(v) \/ PopFrame \/ EndImport \/ Unwind
  PROVE  Grows /\ StackInv' /\ TypeOK'
<1>1. slots \in [Pool -> SUBSET Value] /\ live_pools \subseteq Pool
      /\ all_values \subseteq Value /\ static_roots \subseteq all_values
  BY DEF RunInv, TypeOK, HeapClosed
<1>2. /\ Registers \subseteq all_values /\ OwnedPools \subseteq live_pools
      /\ Depth \in Nat \ {0} /\ Top = stack_frames[Depth]
      /\ \A p \in Pool \ live_pools : slots[p] = {}
  BY RunFacts, TopFacts DEF RunInv
<1>3. Depth > 1 /\ Pop
  BY DEF Return, PopFrame, EndImport, Unwind
<1>4. Depth - 1 \in 1 .. Depth
  BY <1>2, <1>3
<1> DEFINE q == stack_frames[Depth - 1].frame
<1>5. q \in live_pools
  BY <1>2, <1>4, OwnedCases
<1>6. CASE PopFrame \/ Unwind
  <2>1. /\ UNCHANGED <<valueVars, live_pools, vm_owner, pool_owner, vmVars,
                       rawRoots, gcVars>>
        /\ static_roots' = static_roots /\ slots' = slots
    BY <1>6 DEF PopFrame, Unwind, Running, poolVars
  <2> QED BY <1>1, <1>2, <1>3, <2>1, PopGrows
<1>7. CASE Return(v) \/ EndImport
  <2>1. /\ UNCHANGED <<valueVars, live_pools, vm_owner, pool_owner, vmVars,
                       rawRoots, gcVars>>
        /\ static_roots' \subseteq static_roots
        /\ \A i \in 1 .. Depth - 1 : stack_frames[i].module \in static_roots
                                     => stack_frames[i].module \in static_roots'
    BY <1>7 DEF Return, EndImport, Running
  <2>2. PICK w \in all_values : slots' = [slots EXCEPT ![q] = @ \cup {w}]
    <3>1. CASE Return(v)
      BY <1>2, <3>1 DEF Return
    <3>2. CASE EndImport
      <4>1. Top.module \in all_values
        BY <1>2, <3>2, ImportsAllocated DEF EndImport, RunInv, Static
      <4> QED BY <3>2, <4>1 DEF EndImport
    <3> QED BY <1>7, <3>1, <3>2
  <2> HIDE DEF q
  <2>3. /\ slots' \in [Pool -> SUBSET Value]
        /\ \A p \in live_pools : slots'[p] \subseteq slots[p] \cup all_values
        /\ \A p \in Pool \ live_pools : slots'[p] = {}
    BY <1>1, <1>2, <1>5, <2>2
  <2> QED BY <1>3, <2>1, <2>3, PopGrows
<1> QED BY <1>6, <1>7

\* The program does not run during a collection.
LEMMA MutatorRuns ==
  ASSUME MutatorStep
  PROVE  phase = "run" /\ UNCHANGED gcVars
<1>1. ASSUME NEW v, NEW c
      PROVE  /\ CreateFun(v) => Running
             /\ Append_(c, v) \/ Remove(c, v) \/ SetAttr(c, v) => Running
             /\ Load(v) \/ Overwrite(v) \/ Return(v) => Running
             /\ AddConverter(v) \/ Raise(v) \/ NewIterator(v, c) => Running
  BY DEF CreateFun, Append_, Remove, SetAttr, Load, Overwrite, Return,
         AddConverter, Raise, NewIterator
<1>2. ASSUME NEW v, NEW x, NEW y, NEW z
      PROVE  /\ NewList(v, x) \/ BuildClass(v, x) => Running
             /\ NewObject(v, x, y) \/ Import(v, x, y) => Running
             /\ Call(v, x, y, z) => Running
  BY DEF NewList, BuildClass, NewObject, Import, Call
<1>3. PopFrame \/ EndImport \/ Unwind \/ Catch => Running
  BY DEF PopFrame, EndImport, Unwind, Catch
<1>4. Running
  BY <1>1, <1>2, <1>3 DEF MutatorStep
<1> QED BY <1>4 DEF Running

\* A step of the program makes the heap grow.
LEMMA MutatorGrows ==
  ASSUME RunInv, MutatorStep
  PROVE  Grows /\ TypeOK' /\ StackInv'
<1>1. ASSUME Grows, UNCHANGED rootVars
      PROVE  StackInv'
  BY <1>1, StackSame DEF RunInv, Static, StackInv
<1>2. CASE PopFrame \/ EndImport \/ Unwind
  BY <1>2, ReturnsGrow
<1>3. CASE Catch
  BY <1>1, <1>3, StoresGrow
<1>4. ASSUME NEW v \in Value,
             \/ \E rs \in SUBSET Value : NewList(v, rs)
             \/ \E c \in Value : NewIterator(v, c)
             \/ CreateFun(v)
             \/ \E c \in Value, p \in Pool : NewObject(v, c, p)
             \/ Raise(v)
      PROVE  Grows /\ TypeOK' /\ StackInv'
  BY <1>1, <1>4, NewListGrows, NewIteratorGrows, CreateFunGrows,
     NewObjectGrows, RaiseGrows
<1>5. ASSUME NEW v \in Value,
             \/ \E c \in Value : Append_(c, v) \/ Remove(c, v) \/ SetAttr(c, v)
             \/ Load(v) \/ Overwrite(v) \/ AddConverter(v)
      PROVE  Grows /\ TypeOK' /\ StackInv'
  BY <1>1, <1>5, StoresGrow
<1>6. ASSUME NEW v \in Value,
             \/ \E p \in Pool : BuildClass(v, p)
             \/ \E m \in VM, g \in Pool : Import(v, m, g)
             \/ Return(v)
             \/ \E as \in SUBSET Value, p \in Pool, ext \in BOOLEAN :
                  Call(v, as, p, ext)
      PROVE  Grows /\ TypeOK' /\ StackInv'
  BY <1>6, BuildClassGrows, ImportGrows, ReturnsGrow, CallGrows
<1> QED BY <1>2, <1>3, <1>4, <1>5, <1>6 DEF MutatorStep

\* Every step of the program keeps the heap closed.
LEMMA MutatorKeeps ==
  ASSUME IInv, MutatorStep
  PROVE  IInv'
<1>1. phase = "run" /\ UNCHANGED gcVars
  BY MutatorRuns
<1>2. RunInv
  BY <1>1 DEF IInv, ByPhase, RunInv
<1>3. Grows /\ TypeOK' /\ StackInv'
  BY <1>2, MutatorGrows
<1>4. /\ HeapClosed' /\ Homes' /\ GlobalsOwned' /\ FreshPools' /\ Listed'
  BY <1>2, <1>3, GrowsKeepsHeap DEF RunInv, Static
<1>5. ByPhase'
  <2>1. phase' = "run" /\ gray' = gray /\ marked' = marked
    BY <1>1 DEF gcVars
  <2>2. gray = {} /\ marked \subseteq Pool
    BY <1>1 DEF IInv, ByPhase
  <2> QED BY <1>4, <2>1, <2>2 DEF ByPhase
<1>6. Finite'
  <2>1. ASSUME NEW v, NEW c
        PROVE  /\ CreateFun(v) => all_values' = all_values \cup {v}
               /\ Append_(c, v) \/ Remove(c, v) \/ SetAttr(c, v) =>
                    all_values' = all_values
               /\ Load(v) \/ Overwrite(v) \/ Return(v) \/ AddConverter(v) =>
                    all_values' = all_values
               /\ Raise(v) \/ NewIterator(v, c) =>
                    all_values' = all_values \cup {v}
    BY DEF CreateFun, Append_, Remove, SetAttr, Load, Overwrite, Return,
           AddConverter, Raise, NewIterator, Allocate, valueVars
  <2>2. ASSUME NEW v, NEW x, NEW y, NEW z
        PROVE  /\ NewList(v, x) \/ BuildClass(v, x) =>
                    all_values' = all_values \cup {v}
               /\ NewObject(v, x, y) \/ Import(v, x, y) =>
                    all_values' = all_values \cup {v}
               /\ Call(v, x, y, z) => all_values' = all_values
    BY DEF NewList, BuildClass, NewObject, Import, Call, Allocate, valueVars
  <2>3. PopFrame \/ EndImport \/ Unwind \/ Catch => all_values' = all_values
    BY DEF PopFrame, EndImport, Unwind, Catch, valueVars
  <2>4. all_values' = all_values \/ \E v : all_values' = all_values \cup {v}
    BY <2>1, <2>2, <2>3 DEF MutatorStep
  <2> QED BY <2>4, FS_AddElement DEF IInv, Finite
<1> QED BY <1>3, <1>4, <1>5, <1>6 DEF IInv, Static, StackInv

-----------------------------------------------------------------------------
(* The collector: marking. *)

\* While the program waits, the stack and the heap stay as they are.
LEMMA StaticSame ==
  ASSUME Static, UNCHANGED mutatorVars
  PROVE  Static' /\ OwnedPools' = OwnedPools
<1>1. /\ UNCHANGED <<all_values, kind, home, pools, live_pools, slots,
                     vm_owner, popped_frames, vms, global_frame,
                     stack_frames, static_roots>>
      /\ Depth' = Depth
  BY DEF mutatorVars, valueVars, poolVars, vmVars, rootVars, Depth
<1>2. Globals' = Globals
  BY <1>1 DEF Globals
<1>3. OwnedPools' = OwnedPools
  BY <1>1, <1>2 DEF OwnedPools
<1> QED
  BY <1>1, <1>2, <1>3
     DEF Static, Homes, GlobalsOwned, FreshPools, Listed, Chain, Runs,
         Imports, StackInduction

LEMMA HeapSame ==
  ASSUME HeapClosed, Static, UNCHANGED mutatorVars
  PROVE  HeapClosed'
<1>1. /\ UNCHANGED <<all_values, refs, home, pools, live_pools, slots,
                     vm_owner, vms, global_frame, stack_frames,
                     static_roots>>
      /\ Depth' = Depth
  BY DEF mutatorVars, valueVars, poolVars, vmVars, rootVars, Depth
<1>2. OwnedPools' = OwnedPools
  BY StaticSame
<1> QED
  BY <1>1, <1>2
     DEF HeapClosed, ValuesClosed, PoolsClosed, VMsClosed, StackClosed

LEMMA TypeSame ==
  ASSUME TypeOK, UNCHANGED mutatorVars,
         phase' \in {"run", "mark", "sweepPools", "sweepVMs"},
         marked' \subseteq Value \cup Pool \cup VM,
         gray' \subseteq Value \cup Pool \cup VM
  PROVE  TypeOK'
BY DEF TypeOK, mutatorVars, valueVars, poolVars, vmVars, rootVars, rawRoots

LEMMA StartKeeps ==
  ASSUME IInv, StartCollection
  PROVE  IInv'
<1>1. /\ phase = "run" /\ phase' = "mark" /\ marked \subseteq Pool
      /\ marked' = marked \cup {Main} /\ gray' = {Main} \ marked
      /\ UNCHANGED mutatorVars
      /\ HeapClosed /\ Static /\ TypeOK /\ Finite /\ Main \in vms
  BY DEF StartCollection, IInv, ByPhase, Static, GlobalsOwned
<1>2. Static' /\ HeapClosed' /\ Finite'
  BY <1>1, StaticSame, HeapSame DEF Finite, mutatorVars, valueVars
<1>3. Main \in VM /\ Main \notin Pool /\ Main \notin Value
  BY AddressAssumption
<1>4. TypeOK'
  BY <1>1, <1>3, TypeSame
<1>5. gray' = {Main} /\ marked' \cap Value = {} /\ marked' \cap VM = {Main}
  BY <1>1, <1>3, AddressAssumption
<1>6. Main \in vms'
  BY <1>1 DEF mutatorVars, vmVars
<1>7. Marking'
  BY <1>1, <1>3, <1>5, <1>6 DEF Marking
<1> QED BY <1>1, <1>2, <1>4, <1>7 DEF IInv, ByPhase

\* The frames of a VM are owned.
LEMMA FramesOwned ==
  ASSUME NEW m \in vms
  PROVE  FramesOf(m) \subseteq OwnedPools
BY DEF FramesOf, OwnedPools, Globals

\* Owned pools are pools.
LEMMA OwnedInPool ==
  ASSUME TypeOK, GlobalsOwned
  PROVE  OwnedPools \subseteq Pool
<1>1. \A i \in 1 .. Depth : stack_frames[i].frame \in Pool
  BY TopFacts
<1>2. \A m \in vms : global_frame[m] \in Pool
  BY DEF GlobalsOwned
<1>3. \A v \in all_values : pools[v] \subseteq Pool
  BY DEF TypeOK
<1> QED BY <1>1, <1>2, <1>3, OwnedCases

\* What a call frame holds is allocated.
LEMMA CallFramesClosed ==
  ASSUME HeapClosed, NEW m
  PROVE  CallFrameValues(m) \subseteq all_values
BY DEF CallFrameValues, HeapClosed, StackClosed

\* Scanning o, whose targets are allocated: o becomes black (a value or a VM
\* with its targets marked and its pools pending, or a scanned pool) and
\* what was black stays black.
LEMMA ShadeKeeps ==
  ASSUME IInv, phase = "mark", NEW o \in gray,
         NEW vs \in SUBSET all_values, NEW ps \in SUBSET OwnedPools,
         NEW ms \in SUBSET vms,
         Shade(o, vs, ps, ms), UNCHANGED <<phase, mutatorVars>>,
         o \in Value => refs[o] \subseteq vs /\ home[o] \in ms \cup {None}
                        /\ pools[o] \subseteq ps,
         o \in Pool => slots[o] \subseteq vs /\ vm_owner[o] \in ms,
         o \in VM => CallFrameValues(o) \subseteq vs /\ FramesOf(o) \subseteq ps
                     /\ (o = Main => static_roots \subseteq vs)
  PROVE  IInv'
<1>1. HeapClosed /\ Static /\ TypeOK /\ Finite /\ Marking
  BY DEF IInv, ByPhase
<1>2. Static' /\ HeapClosed' /\ Finite' /\ OwnedPools' = OwnedPools
  BY <1>1, StaticSame, HeapSame DEF Finite, mutatorVars, valueVars
<1>3. /\ marked' = marked \cup vs \cup ps \cup ms
      /\ gray' = (gray \ {o}) \cup ((vs \cup ms) \ marked) \cup ps
  BY DEF Shade
<1>4. /\ all_values \subseteq Value /\ vms \subseteq VM
      /\ OwnedPools \subseteq Pool
      /\ marked \subseteq Value \cup Pool \cup VM
      /\ gray \subseteq Value \cup Pool \cup VM
  BY <1>1, OwnedAllocated DEF TypeOK
<1>5. TypeOK'
  BY <1>1, <1>3, <1>4, TypeSame DEF TypeOK
<1>6. Value \cap Pool = {} /\ Value \cap VM = {} /\ Pool \cap VM = {}
  BY AddressAssumption
<1>7. /\ Main \in marked /\ marked \cap Value \subseteq all_values
      /\ marked \cap VM \subseteq vms /\ gray \subseteq marked
      /\ gray \cap Pool \subseteq OwnedPools
  BY <1>1 DEF Marking
<1>8. /\ UNCHANGED <<all_values, refs, home, pools, slots, vm_owner, vms,
                     static_roots>>
      /\ \A m : CallFrameValues(m)' = CallFrameValues(m)
                 /\ FramesOf(m)' = FramesOf(m)
  BY DEF mutatorVars, valueVars, poolVars, vmVars, rootVars, CallFrameValues,
         FramesOf, Depth
<1>9. ASSUME NEW p \in Pool, p \in gray \/ Scanned(p)
      PROVE  p \in gray' \/ Scanned(p)'
  <2>1. CASE Scanned(p)
    BY <1>3, <1>8, <2>1 DEF Scanned
  <2>2. CASE p \in gray /\ p # o
    BY <1>3, <2>2
  <2>3. CASE p = o
    BY <1>3, <1>7, <1>8, <2>3 DEF Scanned
  <2> QED BY <1>9, <2>1, <2>2, <2>3
<1>10. ASSUME NEW v \in (marked' \cap Value) \ gray'
       PROVE  /\ refs'[v] \subseteq marked'
              /\ home'[v] \in marked' \cup {None}
              /\ \A p \in pools'[v] : p \in gray' \/ Scanned(p)'
  <2>1. CASE v = o
    BY <1>3, <1>8, <2>1
  <2>2. CASE v # o
    <3>1. v \in (marked \cap Value) \ gray
      BY <1>3, <1>4, <1>6, <2>2
    <3>2. /\ refs[v] \subseteq marked /\ home[v] \in marked \cup {None}
          /\ \A p \in pools[v] : p \in gray \/ Scanned(p)
      BY <1>1, <3>1 DEF Marking
    <3>3. pools[v] \subseteq Pool
      BY <1>1 DEF TypeOK
    <3> QED BY <1>3, <1>8, <1>9, <3>2, <3>3
  <2> QED BY <2>1, <2>2
<1>11. ASSUME NEW m \in (marked' \cap VM) \ gray'
       PROVE  /\ CallFrameValues(m)' \subseteq marked'
              /\ m = Main => static_roots' \subseteq marked'
              /\ \A p \in FramesOf(m)' : p \in gray' \/ Scanned(p)'
  <2>1. CASE m = o
    BY <1>3, <1>8, <2>1
  <2>2. CASE m # o
    <3>1. m \in (marked \cap VM) \ gray
      BY <1>3, <1>4, <1>6, <2>2
    <3>2. /\ CallFrameValues(m) \subseteq marked
          /\ m = Main => static_roots \subseteq marked
          /\ \A p \in FramesOf(m) : p \in gray \/ Scanned(p)
      BY <1>1, <3>1 DEF Marking
    <3>3. FramesOf(m) \subseteq Pool
      BY <1>4, <1>7, <3>1, FramesOwned
    <3> QED BY <1>3, <1>8, <1>9, <3>2, <3>3
  <2> QED BY <2>1, <2>2
<1>12. /\ Main \in marked' /\ marked' \cap Value \subseteq all_values'
       /\ marked' \cap VM \subseteq vms' /\ gray' \subseteq marked'
       /\ gray' \cap Pool \subseteq OwnedPools'
  BY <1>2, <1>3, <1>4, <1>6, <1>7, <1>8
<1>13. Marking'
  BY <1>10, <1>11, <1>12 DEF Marking
<1>14. phase' = "mark"
  OBVIOUS
<1> QED BY <1>2, <1>5, <1>13, <1>14 DEF IInv, ByPhase

LEMMA ScanKeeps ==
  ASSUME IInv, \/ \E v \in Value : ScanValue(v)
               \/ \E p \in Pool : ScanPool(p)
               \/ \E m \in VM : ScanVM(m)
  PROVE  IInv'
<1>1. phase = "mark"
  BY DEF ScanValue, ScanPool, ScanVM
<1>2. HeapClosed /\ Static /\ TypeOK /\ Marking
  BY <1>1 DEF IInv, ByPhase
<1>3. Value \cap Pool = {} /\ Value \cap VM = {} /\ Pool \cap VM = {}
  BY AddressAssumption
<1>4. /\ gray \subseteq marked /\ marked \cap Value \subseteq all_values
      /\ marked \cap VM \subseteq vms /\ gray \cap Pool \subseteq OwnedPools
  BY <1>2 DEF Marking
<1>5. ASSUME NEW v \in Value, ScanValue(v)
      PROVE  IInv'
  <2> DEFINE ms == {home[v]} \ {None}
  <2>1. v \in gray /\ Shade(v, refs[v], pools[v], ms)
        /\ UNCHANGED <<phase, mutatorVars>>
    BY <1>5 DEF ScanValue
  <2>2. v \in all_values
    BY <1>4, <2>1
  <2>3. /\ refs[v] \in SUBSET all_values /\ pools[v] \in SUBSET OwnedPools
        /\ ms \in SUBSET vms /\ home[v] \in ms \cup {None}
    BY <1>2, <2>2, OwnedCases DEF HeapClosed, ValuesClosed
  <2>4. v \notin Pool /\ v \notin VM
    BY <1>3
  <2> HIDE DEF ms
  <2> QED BY <1>1, <2>1, <2>3, <2>4, ShadeKeeps
<1>6. ASSUME NEW p \in Pool, ScanPool(p)
      PROVE  IInv'
  <2> DEFINE ms == {vm_owner[p]} \ {None}
  <2>1. p \in gray /\ Shade(p, slots[p], {}, ms)
        /\ UNCHANGED <<phase, mutatorVars>>
    BY <1>6 DEF ScanPool
  <2>2. p \in OwnedPools
    BY <1>4, <2>1
  <2>3. slots[p] \in SUBSET all_values /\ vm_owner[p] \in vms
    BY <1>2, <2>2 DEF HeapClosed, PoolsClosed
  <2>4. vm_owner[p] \in ms /\ ms \in SUBSET vms
    BY <1>2, <2>3, AddressAssumption DEF TypeOK
  <2>5. p \notin Value /\ p \notin VM /\ {} \in SUBSET OwnedPools
    BY <1>3
  <2> HIDE DEF ms
  <2> QED BY <1>1, <2>1, <2>3, <2>4, <2>5, ShadeKeeps
<1>7. ASSUME NEW m \in VM, ScanVM(m)
      PROVE  IInv'
  <2> DEFINE vs == CallFrameValues(m)
                     \cup (IF m = Main THEN static_roots ELSE {})
  <2>1. m \in gray /\ Shade(m, vs, FramesOf(m), {})
        /\ UNCHANGED <<phase, mutatorVars>>
    BY <1>7 DEF ScanVM
  <2>2. m \in vms
    BY <1>4, <2>1
  <2>3. CallFrameValues(m) \subseteq all_values /\ static_roots \subseteq all_values
    BY <1>2, CallFramesClosed DEF HeapClosed
  <2>4. vs \in SUBSET all_values /\ FramesOf(m) \in SUBSET OwnedPools
    BY <2>2, <2>3, FramesOwned
  <2>5. m \notin Value /\ m \notin Pool /\ {} \in SUBSET vms
    BY <1>3
  <2>6. CallFrameValues(m) \subseteq vs /\ (m = Main => static_roots \subseteq vs)
    OBVIOUS
  <2> HIDE DEF vs
  <2> QED BY <1>1, <2>1, <2>4, <2>5, <2>6, ShadeKeeps
<1> QED BY <1>5, <1>6, <1>7

-----------------------------------------------------------------------------
(* The collector: sweeping. *)

\* If the marked VMs know what they call, every VM on the stack is marked.
LEMMA StackMarked ==
  ASSUME TypeOK, Chain, Imports, StackInduction, Main \in marked,
         \A f \in static_roots : home[f] \in marked \cup {None},
         \A m \in marked \cap VM : \A f \in CallFrameValues(m) :
           home[f] \in marked \cup {None}
  PROVE  \A i \in 1 .. Depth :
           /\ stack_frames[i].vm \in marked
           /\ stack_frames[i].fun # None =>
                stack_frames[i].fun \in CallFrameValues(stack_frames[i].vm)
<1> DEFINE S == marked \cap VM
<1>1. Depth \in 1 .. Depth /\ \A i \in 1 .. Depth : stack_frames[i].vm \in VM
  BY TopFacts
<1>2. Main \in S
  BY AddressAssumption
<1>3. ASSUME NEW i \in 2 .. Depth, stack_frames[i - 1].vm \in S
      PROVE  stack_frames[i].vm \in S
  <2>1. i \in 1 .. Depth /\ i > 1
    BY <1>1
  <2>2. CASE stack_frames[i].vm = stack_frames[i - 1].vm
    BY <1>3, <2>2
  <2>3. CASE Runs(stack_frames[i], stack_frames[i].fun)
    <3>1. stack_frames[i].fun \in CallFrameValues(stack_frames[i - 1].vm)
      BY <2>1, <2>3 DEF CallFrameValues, Runs
    <3>2. home[stack_frames[i].fun] \in marked \cup {None}
      BY <1>3, <3>1
    <3> QED BY <1>1, <2>1, <2>3, <3>2, AddressAssumption DEF Runs
  <2>4. CASE Runs(stack_frames[i], stack_frames[i].module)
    <3>1. home[stack_frames[i].module] \in marked \cup {None}
      BY <2>1, <2>4 DEF Imports, Runs
    <3> QED BY <1>1, <2>1, <2>4, <3>1, AddressAssumption DEF Runs
  <2> QED BY <2>2, <2>3, <2>4 DEF Chain
<1>4. \A i \in 1 .. Depth : stack_frames[i].vm \in S
  BY <1>1, <1>2, <1>3 DEF StackInduction
<1>5. \A i \in 1 .. Depth :
        stack_frames[i].fun # None =>
          stack_frames[i].fun \in CallFrameValues(stack_frames[i].vm)
  BY DEF CallFrameValues
<1> QED BY <1>4, <1>5

\* What the first part of the sweep leaves.
LEMMA SweepValuesKeeps ==
  ASSUME IInv, SweepValues
  PROVE  IInv'
<1>1. /\ phase = "mark" /\ gray = {} /\ phase' = "sweepPools"
      /\ all_values' = all_values \cap marked
      /\ marked' = marked \ all_values
      /\ kind' = [v \in Value |-> IF v \in Garbage THEN None ELSE kind[v]]
      /\ refs' = [v \in Value |-> IF v \in Garbage THEN {} ELSE refs[v]]
      /\ iterates' = [v \in Value |->
                         IF v \in Garbage THEN None ELSE iterates[v]]
      /\ pools' = [v \in Value |-> IF v \in Garbage THEN {} ELSE pools[v]]
      /\ home' = [v \in Value |-> IF v \in Garbage THEN None ELSE home[v]]
      /\ UNCHANGED <<gray, live_pools, slots, vm_owner, pool_owner, vms,
                     global_frame, stack_frames, static_roots, converters,
                     in_flight>>
  BY DEF SweepValues, poolVars, vmVars, rootVars, rawRoots
<1>2. HeapClosed /\ Static /\ TypeOK /\ Finite /\ Marking
  BY <1>1 DEF IInv, ByPhase
<1>3. Value \cap Pool = {} /\ Value \cap VM = {} /\ Pool \cap VM = {}
      /\ None \notin Value /\ None \notin Pool /\ None \notin VM
  BY AddressAssumption
<1>4. /\ Main \in marked /\ Main \in VM
      /\ marked \cap Value \subseteq all_values
      /\ marked \cap VM \subseteq vms
      /\ \A v \in marked \cap Value :
           /\ refs[v] \subseteq marked
           /\ home[v] \in marked \cup {None}
           /\ \A p \in pools[v] : Scanned(p)
      /\ \A m \in marked \cap VM :
           /\ CallFrameValues(m) \subseteq marked
           /\ m = Main => static_roots \subseteq marked
           /\ \A p \in FramesOf(m) : Scanned(p)
  BY <1>1, <1>2, AddressAssumption DEF Marking
<1>5. all_values \subseteq Value /\ all_values' \subseteq marked \cap Value
      /\ \A v \in all_values' :
           /\ refs'[v] = refs[v] /\ home'[v] = home[v]
           /\ pools'[v] = pools[v] /\ kind'[v] = kind[v]
  BY <1>1, <1>2 DEF TypeOK, Garbage
<1>6. Depth' = Depth /\ Globals' = Globals
      /\ \A m : CallFrameValues(m)' = CallFrameValues(m)
                 /\ FramesOf(m)' = FramesOf(m)
  BY <1>1 DEF Depth, Globals, CallFrameValues, FramesOf
<1>7. marked \cap VM = marked' \cap VM
  BY <1>1, <1>3, <1>5

<1>10. /\ popped_frames' \in [Pool -> Nat]
       /\ \A p \in Pool :
            popped_frames'[p] > 0 =>
              \/ popped_frames[p] > 0
              \/ p \notin Globals /\ \E v \in all_values : p \in pools[v]
  <2> DEFINE holders(p) == {v \in Garbage : p \in pools[v]}
  <2>1. \A p \in Pool : IsFiniteSet(holders(p))
    BY <1>2, FS_Subset DEF Garbage, Finite
  <2>3. popped_frames' = [p \in Pool |->
          IF p \in Globals THEN popped_frames[p]
          ELSE popped_frames[p] + Cardinality(holders(p))]
    BY DEF SweepValues
  <2>4. \A p \in Pool : holders(p) # {} =>
          \E v \in all_values : p \in pools[v]
    BY DEF Garbage
  <2>5. popped_frames \in [Pool -> Nat]
    BY <1>2 DEF TypeOK
  <2> DEFINE count(p) == Cardinality(holders(p))
  <2>6. ASSUME NEW p \in Pool
        PROVE  count(p) \in Nat /\ (count(p) > 0 => holders(p) # {})
    <3>1. IsFiniteSet(holders(p))
      BY <2>1
    <3>2. count(p) \in Nat
      BY <3>1, FS_CardinalityType
    <3>3. holders(p) = {} => count(p) = 0
      BY FS_EmptySet
    <3> HIDE DEF count
    <3> QED BY <3>2, <3>3
  <2>7. popped_frames' = [p \in Pool |->
          IF p \in Globals THEN popped_frames[p]
          ELSE popped_frames[p] + count(p)]
    BY <2>3
  <2> HIDE DEF holders, count
  <2>8. popped_frames' \in [Pool -> Nat]
    BY <2>5, <2>6, <2>7
  <2>9. ASSUME NEW p \in Pool, popped_frames'[p] > 0
        PROVE  \/ popped_frames[p] > 0
               \/ p \notin Globals /\ holders(p) # {}
    <3>1. CASE p \in Globals
      BY <2>7, <2>9, <3>1
    <3>2. CASE p \notin Globals
      <4>1. popped_frames'[p] = popped_frames[p] + count(p)
        BY <2>7, <3>2
      <4>2. popped_frames[p] \in Nat /\ count(p) \in Nat
        BY <2>5, <2>6
      <4> QED BY <2>6, <2>9, <3>2, <4>1, <4>2
    <3> QED BY <3>1, <3>2
  <2> QED BY <2>4, <2>8, <2>9

<1>11. TypeOK'
  <2>1. marked' \subseteq Value \cup Pool \cup VM
    BY <1>1, <1>2 DEF TypeOK
  <2> QED BY <1>1, <1>2, <1>10, <2>1 DEF TypeOK
<1>12. Finite'
  BY <1>1, <1>2, FS_Subset DEF Finite
<1>13. \A i \in 1 .. Depth :
         /\ stack_frames[i].vm \in marked
         /\ stack_frames[i].fun # None => stack_frames[i].fun \in all_values'
         /\ stack_frames[i].module # None =>
              stack_frames[i].module \in all_values'
  <2>1. \A m \in marked \cap VM : \A f \in CallFrameValues(m) :
          f \in all_values' /\ home[f] \in marked \cup {None}
    BY <1>1, <1>2, <1>4, <1>5, CallFramesClosed
  <2>2. \A i \in 1 .. Depth : stack_frames[i].vm \in VM
    BY <1>2, TopFacts
  <2>3. \A f \in static_roots : f \in all_values' /\ home[f] \in marked \cup {None}
    BY <1>1, <1>2, <1>4, <1>5 DEF HeapClosed
  <2> QED BY <1>2, <1>4, <2>1, <2>2, <2>3, StackMarked DEF Static, Imports
<1>14. Static'
  <2>1. Homes'
    BY <1>1, <1>2, <1>5 DEF Static, Homes
  <2>2. GlobalsOwned' /\ FreshPools' /\ Imports' /\ StackInduction'
    BY <1>1, <1>2, <1>6
       DEF Static, GlobalsOwned, FreshPools, Imports, StackInduction
  <2>3. Listed'
    BY <1>1, <1>2, <1>6, <1>10
       DEF Static, Listed, HeapClosed, ValuesClosed
  <2>4. Chain'
    <3>1. \A i \in 2 .. Depth : i \in 1 .. Depth
      BY <1>2, TopFacts
    <3>2. \A i \in 1 .. Depth :
            /\ Runs(stack_frames[i], stack_frames[i].fun) =>
                 Runs(stack_frames[i], stack_frames[i].fun)'
            /\ Runs(stack_frames[i], stack_frames[i].module) =>
                 Runs(stack_frames[i], stack_frames[i].module)'
      BY <1>1, <1>5, <1>13 DEF Runs
    <3> QED BY <1>1, <1>2, <1>6, <3>1, <3>2 DEF Static, Chain
  <2> QED BY <2>1, <2>2, <2>3, <2>4 DEF Static
<1>15. ASSUME NEW p \in OwnedPools, Scanned(p)
       PROVE  Kept(p)'
  <2>1. /\ p \in live_pools /\ p \in Pool
        /\ slots[p] \subseteq all_values /\ vm_owner[p] \in vms
    BY <1>2, OwnedAllocated DEF HeapClosed, PoolsClosed, TypeOK
  <2>2. p \in marked /\ slots[p] \subseteq marked /\ vm_owner[p] \in marked
    BY <1>15 DEF Scanned
  <2>3. vm_owner[p] \in VM /\ p \notin all_values
    BY <1>2, <1>3, <2>1 DEF TypeOK
  <2>4. p \in marked' /\ slots'[p] \subseteq all_values'
        /\ vm_owner'[p] \in marked' /\ p \in live_pools'
    BY <1>1, <1>7, <2>1, <2>2, <2>3
  <2> QED BY <2>4 DEF Kept
<1>16. Sweeping'
  <2>1. /\ gray' = {} /\ marked' \cap Value = {} /\ Main \in marked'
        /\ marked' \cap VM \subseteq vms'
    BY <1>1, <1>3, <1>4, <1>7
  <2>2. ASSUME NEW v \in all_values'
        PROVE  /\ refs'[v] \subseteq all_values'
               /\ home'[v] \in marked' \cup {None}
               /\ \A p \in pools'[v] : Kept(p)'
    <3>1. v \in all_values /\ v \in marked \cap Value
      BY <1>1, <1>5
    <3>2. refs[v] \subseteq all_values
      BY <1>2, <3>1 DEF HeapClosed, ValuesClosed
    <3>3. home[v] \in VM \cup {None}
      BY <1>2, <3>1 DEF TypeOK
    <3>4. pools[v] \subseteq OwnedPools
      BY <3>1, OwnedCases
    <3> QED BY <1>1, <1>4, <1>5, <1>7, <1>15, <3>1, <3>2, <3>3, <3>4
  <2>3. ASSUME NEW m \in marked' \cap VM
        PROVE  /\ CallFrameValues(m)' \subseteq all_values'
               /\ \A p \in FramesOf(m)' : Kept(p)'
    <3>1. m \in marked \cap VM /\ m \in vms
      BY <1>4, <1>7
    <3> QED BY <1>1, <1>2, <1>4, <1>6, <1>15, <3>1, CallFramesClosed,
               FramesOwned
  <2>4. static_roots' \subseteq all_values' /\ VMsClosed'
    BY <1>1, <1>2, <1>4 DEF HeapClosed, VMsClosed
  <2> QED BY <2>1, <2>2, <2>3, <2>4 DEF Sweeping
<1> QED BY <1>1, <1>11, <1>12, <1>14, <1>16 DEF IInv, ByPhase

LEMMA SweepPoolsKeeps ==
  ASSUME IInv, SweepPools
  PROVE  IInv'
<1> DEFINE keep  == {p \in Pool : popped_frames[p] > 0 /\ p \in marked}
           freed == {p \in Pool : popped_frames[p] > 0 /\ p \notin marked}
<1>1. phase = "sweepPools"
  BY DEF SweepPools
<1>2. Sweeping /\ Static /\ TypeOK /\ Finite
  BY <1>1 DEF IInv, ByPhase
<1>3. Value \cap Pool = {} /\ Value \cap VM = {} /\ Pool \cap VM = {}
      /\ None \notin Value /\ None \notin Pool /\ None \notin VM
  BY AddressAssumption
<1>4. /\ phase' = "sweepVMs"
      /\ live_pools' = live_pools \ freed
      /\ marked' = marked \ (keep \cup freed)
      /\ popped_frames' = [p \in Pool |-> IF p \in keep THEN 1 ELSE 0]
      /\ slots' = [p \in Pool |-> IF p \in freed THEN {} ELSE slots[p]]
      /\ vm_owner' = [p \in Pool |-> IF p \in freed THEN None ELSE vm_owner[p]]
      /\ pool_owner' = [p \in Pool |->
                           IF p \in freed THEN None ELSE pool_owner[p]]
      /\ UNCHANGED <<gray, all_values, kind, refs, iterates, pools, home, vms,
                     global_frame, stack_frames, static_roots, converters,
                     in_flight>>
  <2>1. \A p \in Pool : Dedupe(popped_frames)[p] =
                           IF popped_frames[p] > 0 THEN 1 ELSE 0
    BY DEF Dedupe
  <2>2. keep = {p \in Pool : Dedupe(popped_frames)[p] > 0 /\ p \in marked}
    BY <2>1
  <2>3. freed = {p \in Pool :
          Dedupe(popped_frames)[p] > IF p \in marked THEN 1 ELSE 0}
    BY <2>1
  <2> HIDE DEF keep, freed
  <2> QED BY <2>2, <2>3
          DEF SweepPools, valueVars, vmVars, rootVars, rawRoots
<1>5. /\ keep \subseteq Pool /\ freed \subseteq Pool
      /\ freed \cap Globals = {} /\ freed \cap marked = {}
      /\ keep \cap freed = {}
      /\ keep \subseteq live_pools \ Globals
  BY <1>2 DEF Static, Listed
<1> HIDE DEF keep, freed
<1>6. Depth' = Depth /\ Globals' = Globals
      /\ \A m : CallFrameValues(m)' = CallFrameValues(m)
                 /\ FramesOf(m)' = FramesOf(m)
  BY <1>4 DEF Depth, Globals, CallFrameValues, FramesOf
<1>7. marked' \cap VM = marked \cap VM /\ marked' \subseteq marked
  BY <1>3, <1>4, <1>5
<1>8. TypeOK'
  <2>1. popped_frames' \in [Pool -> Nat]
    BY <1>4
  <2>2. /\ live_pools' \subseteq Pool /\ marked' \subseteq Value \cup Pool \cup VM
        /\ slots' \in [Pool -> SUBSET Value]
        /\ vm_owner' \in [Pool -> VM \cup {None}]
        /\ pool_owner' \in [Pool -> Value \cup {None}]
    BY <1>2, <1>4, <1>7 DEF TypeOK
  <2> QED BY <1>2, <1>4, <2>1, <2>2 DEF TypeOK
<1>9. Static'
  <2>1. Homes' /\ Chain' /\ Imports' /\ StackInduction'
    BY <1>2, <1>4, <1>6 DEF Static, Homes, Chain, Imports, Runs, StackInduction
  <2>2. GlobalsOwned'
    BY <1>2, <1>4, <1>5 DEF Static, GlobalsOwned, Globals
  <2>3. FreshPools'
    BY <1>2, <1>4 DEF Static, FreshPools
  <2>4. Listed'
    BY <1>4, <1>5, <1>6 DEF Listed
  <2> QED BY <2>1, <2>2, <2>3, <2>4 DEF Static
<1>10. ASSUME NEW p \in Pool, Kept(p)
       PROVE  Kept(p)'
  <2>1. /\ p \in live_pools /\ slots[p] \subseteq all_values
        /\ vm_owner[p] \in marked /\ p \in marked
    BY <1>1, <1>10 DEF Kept
  <2>2. vm_owner[p] \in VM
    BY <1>2, <1>3, <2>1 DEF TypeOK
  <2>3. p \notin freed
    BY <1>5, <2>1
  <2>4. vm_owner'[p] \in marked'
    BY <1>4, <1>7, <2>1, <2>2, <2>3
  <2> QED BY <1>4, <2>1, <2>3, <2>4 DEF Kept
<1>11. Sweeping'
  <2>1. /\ gray' = {} /\ marked' \cap Value = {} /\ Main \in marked'
        /\ marked' \cap VM \subseteq vms' /\ static_roots' \subseteq all_values'
    BY <1>2, <1>4, <1>7, AddressAssumption DEF Sweeping
  <2>2. ASSUME NEW v \in all_values'
        PROVE  /\ refs'[v] \subseteq all_values'
               /\ home'[v] \in marked' \cup {None}
               /\ \A p \in pools'[v] : Kept(p)'
    <3>1. v \in all_values /\ pools[v] \subseteq Pool
          /\ home[v] \in VM \cup {None}
      BY <1>2, <1>4 DEF TypeOK
    <3>2. /\ refs[v] \subseteq all_values /\ home[v] \in marked \cup {None}
          /\ \A p \in pools[v] : Kept(p)
      BY <1>2, <3>1 DEF Sweeping
    <3> QED BY <1>4, <1>7, <1>10, <3>1, <3>2
  <2>3. ASSUME NEW m \in marked' \cap VM
        PROVE  /\ CallFrameValues(m)' \subseteq all_values'
               /\ \A p \in FramesOf(m)' : Kept(p)'
    <3>1. m \in marked \cap VM /\ m \in vms
      BY <1>2, <1>7 DEF Sweeping
    <3>2. FramesOf(m) \subseteq Pool
      BY <1>2, <3>1, FramesOwned, OwnedInPool DEF Static
    <3> QED BY <1>2, <1>4, <1>6, <1>10, <3>1, <3>2 DEF Sweeping
  <2>4. VMsClosed'
    BY <1>2, <1>4, <1>5 DEF Sweeping, VMsClosed, Globals
  <2> QED BY <2>1, <2>2, <2>3, <2>4 DEF Sweeping
<1>12. Finite'
  BY <1>2, <1>4 DEF Finite
<1> QED BY <1>4, <1>8, <1>9, <1>11, <1>12 DEF IInv, ByPhase

LEMMA SweepVMsKeeps ==
  ASSUME IInv, SweepVMs
  PROVE  IInv'
<1> DEFINE dead  == vms \ marked
           freed == UNION {FramesOf(m) : m \in dead}
<1>1. /\ phase = "sweepVMs" /\ phase' = "run"
      /\ vms' = vms \ dead
      /\ global_frame' = [m \in VM |->
                             IF m \in dead THEN None ELSE global_frame[m]]
      /\ live_pools' = live_pools \ freed
      /\ marked' = (marked \ vms) \ freed
      /\ slots' = [p \in Pool |-> IF p \in freed THEN {} ELSE slots[p]]
      /\ vm_owner' = [p \in Pool |-> IF p \in freed THEN None ELSE vm_owner[p]]
      /\ pool_owner' = [p \in Pool |->
                           IF p \in freed THEN None ELSE pool_owner[p]]
      /\ UNCHANGED <<gray, all_values, kind, refs, iterates, pools, home,
                     popped_frames, stack_frames, static_roots, converters,
                     in_flight>>
  BY DEF SweepVMs, valueVars, rootVars, rawRoots
<1>2. Sweeping /\ Static /\ TypeOK /\ Finite
  BY <1>1 DEF IInv, ByPhase
<1>3. Value \cap Pool = {} /\ Value \cap VM = {} /\ Pool \cap VM = {}
      /\ None \notin Value /\ None \notin Pool /\ None \notin VM /\ Main \in VM
  BY AddressAssumption
<1>4. /\ gray = {} /\ marked \cap Value = {} /\ Main \in marked
      /\ marked \cap VM \subseteq vms /\ vms \subseteq VM
      /\ static_roots \subseteq all_values /\ VMsClosed
      /\ marked \subseteq Value \cup Pool \cup VM
      /\ \A v \in all_values :
           /\ refs[v] \subseteq all_values
           /\ home[v] \in marked \cup {None}
           /\ \A p \in pools[v] : Kept(p)
      /\ \A m \in marked \cap VM :
           /\ CallFrameValues(m) \subseteq all_values
           /\ \A p \in FramesOf(m) : Kept(p)
  BY <1>2 DEF Sweeping, TypeOK
<1>5. vms' = marked \cap VM
  BY <1>1, <1>4
<1>6. \A i \in 1 .. Depth :
        /\ stack_frames[i].vm \in marked \cap VM
        /\ stack_frames[i].fun \in all_values \cup {None}
  <2>1. \A m \in marked \cap VM : \A f \in CallFrameValues(m) :
          f \in all_values /\ home[f] \in marked \cup {None}
    BY <1>4
  <2>2. \A i \in 1 .. Depth : stack_frames[i].vm \in VM
    BY <1>2, TopFacts
  <2>3. \A f \in static_roots : home[f] \in marked \cup {None}
    BY <1>4
  <2> QED BY <1>2, <1>4, <2>1, <2>2, <2>3, StackMarked DEF Static
<1>7. \A p \in freed : \E m \in dead : p = global_frame[m] /\ vm_owner[p] = m
  <2>1. \A m \in dead : FramesOf(m) = {global_frame[m]}
    BY <1>6 DEF FramesOf
  <2>2. \A m \in dead : vm_owner[global_frame[m]] = m
    BY <1>2 DEF Static, GlobalsOwned
  <2> QED BY <2>1, <2>2
<1>8. freed \subseteq Globals /\ freed \subseteq Pool
  BY <1>2, <1>7 DEF Globals, Static, GlobalsOwned
<1> HIDE DEF freed
<1>9. \A p \in Pool : vm_owner[p] \in marked => p \notin freed
  BY <1>7
<1>10. ASSUME NEW p \in Pool, Kept(p)
       PROVE  /\ p \in live_pools' /\ slots'[p] \subseteq all_values'
              /\ vm_owner'[p] \in vms'
  <2>1. /\ p \in live_pools /\ slots[p] \subseteq all_values
        /\ vm_owner[p] \in marked
    BY <1>10 DEF Kept
  <2>2. vm_owner[p] \in VM /\ p \notin freed
    BY <1>2, <1>3, <1>9, <2>1 DEF TypeOK
  <2> QED BY <1>1, <1>5, <2>1, <2>2
<1>11. Depth' = Depth
  BY <1>1 DEF Depth
<1>12. \A m \in vms' : /\ global_frame'[m] = global_frame[m]
                       /\ m \in marked \cap VM /\ m \in vms
                       /\ global_frame[m] \in Pool
                       /\ vm_owner[global_frame[m]] = m
  BY <1>1, <1>2, <1>4, <1>5 DEF Static, GlobalsOwned
<1>13. \A m \in vms' : Kept(global_frame[m])
  BY <1>4, <1>12 DEF FramesOf
<1>14. TypeOK'
  <2>1. /\ live_pools' \subseteq Pool /\ marked' \subseteq Value \cup Pool \cup VM
        /\ slots' \in [Pool -> SUBSET Value]
        /\ vm_owner' \in [Pool -> VM \cup {None}]
        /\ pool_owner' \in [Pool -> Value \cup {None}]
        /\ global_frame' \in [VM -> Pool \cup {None}]
        /\ vms' \subseteq VM
    BY <1>1, <1>2 DEF TypeOK
  <2> QED BY <1>1, <1>2, <2>1 DEF TypeOK
<1>15. Static'
  <2>1. Homes' /\ Chain' /\ Imports' /\ StackInduction'
    BY <1>1, <1>2, <1>11 DEF Static, Homes, Chain, Imports, Runs, StackInduction
  <2>2. GlobalsOwned'
    BY <1>1, <1>3, <1>4, <1>5, <1>9, <1>12 DEF GlobalsOwned
  <2>3. FreshPools'
    BY <1>1, <1>2 DEF Static, FreshPools
  <2>4. Globals' \subseteq Globals
    BY <1>12 DEF Globals
  <2>5. Listed'
    BY <1>1, <1>2, <1>8, <2>4 DEF Static, Listed
  <2> QED BY <2>1, <2>2, <2>3, <2>5 DEF Static
<1>16. HeapClosed'
  <2>1. ValuesClosed'
    <3>1. ASSUME NEW v \in all_values
          PROVE  home[v] \in VM \cup {None} /\ pools[v] \subseteq Pool
      BY <1>2 DEF TypeOK
    <3> QED BY <1>1, <1>4, <1>5, <1>10, <3>1 DEF ValuesClosed
  <2>2. PoolsClosed'
    <3>1. ASSUME NEW p \in OwnedPools'
          PROVE  Kept(p) /\ p \in Pool
      <4>1. CASE \E m \in vms' : p = global_frame'[m]
        BY <1>12, <1>13, <4>1
      <4>2. CASE \E i \in 1 .. Depth' : p = stack_frames'[i].frame
        <5>1. PICK i \in 1 .. Depth : p = stack_frames[i].frame
          BY <1>1, <1>11, <4>2
        <5>2. p \in FramesOf(stack_frames[i].vm) /\ p \in Pool
          BY <1>2, <5>1, TopFacts DEF FramesOf
        <5> QED BY <1>4, <1>6, <5>2
      <4>3. CASE \E v \in all_values' : p \in pools'[v]
        BY <1>1, <1>2, <1>4, <4>3 DEF TypeOK
      <4> QED BY <3>1, <4>1, <4>2, <4>3, OwnedCasesNext
    <3> QED BY <1>10, <3>1 DEF PoolsClosed
  <2>3. VMsClosed'
    BY <1>10, <1>12, <1>13 DEF VMsClosed
  <2>4. StackClosed'
    <3>1. ASSUME NEW i \in 1 .. Depth
          PROVE  /\ stack_frames[i].frame \in live_pools'
                 /\ stack_frames[i].vm \in vms'
                 /\ stack_frames[i].fun \in all_values' \cup {None}
                 /\ stack_frames[i].args \subseteq all_values'
      <4>1. /\ stack_frames[i].frame \in FramesOf(stack_frames[i].vm)
            /\ stack_frames[i].args \subseteq
                 CallFrameValues(stack_frames[i].vm)
        BY DEF FramesOf, CallFrameValues
      <4>2. stack_frames[i].frame \in Pool
        BY <1>2, TopFacts
      <4> QED BY <1>1, <1>4, <1>5, <1>6, <1>10, <4>1, <4>2
    <3> QED BY <1>1, <1>11, <3>1 DEF StackClosed
  <2> QED BY <1>1, <1>4, <2>1, <2>2, <2>3, <2>4 DEF HeapClosed
<1>17. gray' = {} /\ marked' \subseteq Pool
  BY <1>1, <1>4
<1>18. Finite'
  BY <1>1, <1>2 DEF Finite
<1> QED BY <1>1, <1>14, <1>15, <1>16, <1>17, <1>18 DEF IInv, ByPhase

-----------------------------------------------------------------------------
(* The theorems. *)

LEMMA InitInv == Init => IInv
<1> SUFFICES ASSUME Init PROVE IInv
  OBVIOUS
<1> DEFINE act == [vm |-> Main, frame |-> MainPool, fun |-> None,
                   args |-> {}, module |-> None, external |-> TRUE]
<1>1. act \in Activation /\ stack_frames = <<act>> /\ act.vm = Main
      /\ act.frame = MainPool /\ act.fun = None /\ act.args = {}
      /\ act.module = None
  BY AddressAssumption DEF Init, Activation
<1> HIDE DEF act
<1>2. /\ stack_frames \in Seq(Activation) /\ stack_frames # <<>>
      /\ Depth = 1 /\ stack_frames[1] = act
  BY <1>1 DEF Depth
<1>3. TypeOK
  BY <1>2, AddressAssumption DEF Init, TypeOK
<1>4. OwnedPools = {MainPool}
  <2>1. \A i \in 1 .. Depth : i = 1
    BY <1>2
  <2>2. Globals = {MainPool}
    BY AddressAssumption DEF Init, Globals
  <2> QED BY <1>1, <1>2, <2>1, <2>2 DEF OwnedPools, Init
<1>5. HeapClosed
  <2>1. ValuesClosed /\ VMsClosed
    BY AddressAssumption DEF Init, ValuesClosed, VMsClosed
  <2>2. PoolsClosed
    BY <1>4, AddressAssumption DEF Init, PoolsClosed
  <2>3. StackClosed
    <3>1. \A i \in 1 .. Depth : stack_frames[i] = act
      BY <1>2
    <3> QED BY <1>1, <3>1, AddressAssumption DEF Init, StackClosed
  <2> QED BY <2>1, <2>2, <2>3 DEF HeapClosed, Init
<1>6. Static
  <2>1. Homes /\ GlobalsOwned /\ FreshPools /\ Listed
    BY AddressAssumption
       DEF Init, Homes, GlobalsOwned, FreshPools, Listed
  <2>2. Chain /\ Imports
    BY <1>1, <1>2 DEF Chain, Imports
  <2>3. StackInduction
    <3>1. \A d \in 1 .. Depth : \A i \in 1 .. d : stack_frames[i].vm = Main
      BY <1>1, <1>2
    <3> QED BY <3>1 DEF StackInduction
  <2> QED BY <2>1, <2>2, <2>3 DEF Static
<1>7. ByPhase
  BY <1>5 DEF Init, ByPhase
<1>8. Finite
  BY FS_EmptySet DEF Init, Finite
<1> QED BY <1>3, <1>6, <1>7, <1>8 DEF IInv

LEMMA StutterInv == IInv /\ UNCHANGED vars => IInv'
<1> SUFFICES ASSUME IInv, UNCHANGED vars PROVE IInv'
  OBVIOUS
<1>1. UNCHANGED mutatorVars /\ phase' = phase /\ marked' = marked
      /\ gray' = gray
  BY DEF vars, mutatorVars, gcVars
<1>2. Static' /\ OwnedPools' = OwnedPools
  BY <1>1, StaticSame DEF IInv
<1>3. HeapClosed => HeapClosed'
  BY <1>1, HeapSame DEF IInv
<1>4. TypeOK'
  BY <1>1, TypeSame DEF IInv, TypeOK
<1>5. Finite'
  BY <1>1 DEF IInv, Finite, mutatorVars, valueVars
<1>6. /\ UNCHANGED <<all_values, refs, home, pools, slots, vm_owner, vms,
                     live_pools, global_frame, static_roots>>
      /\ \A m : CallFrameValues(m)' = CallFrameValues(m)
                 /\ FramesOf(m)' = FramesOf(m)
  BY <1>1 DEF mutatorVars, valueVars, poolVars, vmVars, rootVars,
     CallFrameValues, FramesOf, Depth
<1>7. Marking => Marking'
  BY <1>1, <1>2, <1>6 DEF Marking, Scanned
<1>8. Sweeping => Sweeping'
  BY <1>1, <1>6 DEF Sweeping, Kept, VMsClosed
<1> QED BY <1>1, <1>2, <1>3, <1>4, <1>5, <1>7, <1>8 DEF IInv, ByPhase

LEMMA NextInv == IInv /\ [Next]_vars => IInv'
<1>1. IInv /\ MutatorStep => IInv'
  BY MutatorKeeps
<1>2. IInv /\ CollectorStep => IInv'
  BY StartKeeps, ScanKeeps, SweepValuesKeeps, SweepPoolsKeeps, SweepVMsKeeps
     DEF CollectorStep
<1> QED BY <1>1, <1>2, StutterInv DEF Next

\* The inductive invariant holds in every state of every program: between
\* collections the heap is closed, during one the colours are consistent.
THEOREM Invariance == Spec => []IInv
<1>1. Init => IInv
  BY InitInv
<1>2. IInv /\ [Next]_vars => IInv'
  BY NextInv
<1> QED BY <1>1, <1>2, PTL DEF Spec

\* Every variable keeps its type.
THEOREM TypeCorrect == Spec => []TypeOK
<1>1. IInv => TypeOK
  BY DEF IInv
<1> QED BY <1>1, Invariance, PTL

\* TracingGC::sweep frees nothing that the heap, the stack or a static root
\* still points to through a pointer that is traced.
THEOREM NoDangling == Spec => []NoDanglingPointer
<1>1. IInv => NoDanglingPointer
  BY DEF IInv, ByPhase, HeapClosed, ValuesClosed, PoolsClosed, VMsClosed,
         StackClosed, NoDanglingPointer
<1> QED BY <1>1, Invariance, PTL

\* The sweep never deletes an interpreter that executes or waits for a call.
THEOREM ExecutingAlive == Spec => []ExecutingVMsAlive
<1>1. IInv => ExecutingVMsAlive
  <2> SUFFICES ASSUME IInv PROVE ExecutingVMsAlive
    OBVIOUS
  <2>1. TypeOK /\ Static
    BY DEF IInv
  <2>2. CASE phase \in {"run", "mark"}
    BY <2>2 DEF IInv, ByPhase, HeapClosed, StackClosed, ExecutingVMsAlive
  <2>3. CASE phase \in {"sweepPools", "sweepVMs"}
    <3>1. Sweeping
      BY <2>3 DEF IInv, ByPhase
    <3>2. \A m \in marked \cap VM : \A f \in CallFrameValues(m) :
            home[f] \in marked \cup {None}
      BY <3>1 DEF Sweeping
    <3>2a. \A f \in static_roots : home[f] \in marked \cup {None}
      BY <3>1 DEF Sweeping
    <3>3. \A i \in 1 .. Depth : stack_frames[i].vm \in marked
      BY <2>1, <3>1, <3>2, <3>2a, StackMarked DEF Sweeping, Static
    <3>4. \A i \in 1 .. Depth : stack_frames[i].vm \in VM
      BY <2>1, TopFacts
    <3> QED BY <3>1, <3>3, <3>4 DEF Sweeping, ExecutingVMsAlive
  <2> QED BY <2>1, <2>2, <2>3 DEF TypeOK
<1> QED BY <1>1, Invariance, PTL

\* What the sweep and the destructors look up in popped_frames is allocated,
\* and no global frame is ever listed, which its VM would delete again.
THEOREM PoppedAllocated == Spec => []PoppedFramesAllocated
<1>1. IInv => PoppedFramesAllocated
  BY DEF IInv, ByPhase, Static, Listed, HeapClosed, ValuesClosed, Garbage,
         PoppedFramesAllocated
<1> QED BY <1>1, Invariance, PTL

-----------------------------------------------------------------------------
(* No pool is lost. *)

\* In no phase of a collection.
Accounted ==
  \A p \in live_pools : p \in OwnedPools \/ popped_frames[p] > 0

\* What was owned is still owned or is listed, what was listed still is, and
\* what is allocated now is owned.
Accounts ==
  /\ \A p \in OwnedPools : p \in OwnedPools' \/ popped_frames'[p] > 0
  /\ \A p \in Pool : popped_frames[p] > 0 => popped_frames'[p] > 0
  /\ live_pools' \subseteq live_pools \cup OwnedPools'

\* Then no pool is lost by the step.
LEMMA AccountsKeep ==
  ASSUME TypeOK, Accounted, Accounts
  PROVE  Accounted'
BY DEF Accounted, Accounts, TypeOK

\* Nobody gives a pool up.
LEMMA KeptAccounts ==
  ASSUME vms \subseteq vms',
         \A m \in vms : global_frame'[m] = global_frame[m],
         Depth <= Depth', Depth \in Nat, Depth' \in Nat,
         \A i \in 1 .. Depth : stack_frames'[i] = stack_frames[i],
         all_values \subseteq all_values',
         \A v \in all_values : pools'[v] = pools[v],
         popped_frames' = popped_frames,
         live_pools' \subseteq live_pools \cup OwnedPools'
  PROVE  Accounts
<1>1. ASSUME NEW p \in OwnedPools
      PROVE  p \in OwnedPools'
  <2>1. CASE \E m \in vms : p = global_frame[m]
    BY <2>1, OwnedCasesNext
  <2>2. CASE \E i \in 1 .. Depth : p = stack_frames[i].frame
    BY <2>2, OwnedCasesNext
  <2>3. CASE \E v \in all_values : p \in pools[v]
    BY <2>3, OwnedCasesNext
  <2> QED BY <1>1, <2>1, <2>2, <2>3, OwnedCases
<1> QED BY <1>1 DEF Accounts

\* A step that allocates at most a value, and that pushes nothing.
LEMMA ValueAccounts ==
  ASSUME TypeOK, UNCHANGED <<vms, global_frame, stack_frames, popped_frames>>,
         \/ UNCHANGED <<all_values, pools>>
         \/ \E v, k, rs, it, ps, m : Allocate(v, k, rs, it, ps, m),
         live_pools' \subseteq live_pools \cup OwnedPools'
  PROVE  Accounts
<1>1. /\ all_values \subseteq all_values'
      /\ \A v \in all_values : pools'[v] = pools[v]
  BY DEF Allocate, TypeOK
<1>2. Depth' = Depth /\ Depth \in Nat
  BY DEF Depth, TypeOK
<1> QED BY <1>1, <1>2, KeptAccounts

\* Popping a frame lists it, unless it is a global one.
LEMMA PopAccounts ==
  ASSUME TypeOK, Static, Depth > 1, Pop,
         UNCHANGED <<all_values, pools, vms, global_frame, live_pools>>
  PROVE  Accounts
<1>1. /\ popped_frames \in [Pool -> Nat] /\ Top.frame \in Pool
      /\ Depth \in Nat /\ Top = stack_frames[Depth]
  BY TopFacts DEF TypeOK
<1>2. /\ Depth' = Depth - 1
      /\ \A i \in 1 .. Depth' : stack_frames'[i] = stack_frames[i]
  BY PopStack DEF TypeOK
<1>3. popped_frames' = IF Top.frame \in Globals THEN popped_frames
                       ELSE [popped_frames EXCEPT ![Top.frame] = @ + 1]
  BY DEF Pop
<1>4. \A p \in Pool : popped_frames[p] > 0 => popped_frames'[p] > 0
  BY <1>1, <1>3
<1>5. ASSUME NEW p \in OwnedPools
      PROVE  p \in OwnedPools' \/ popped_frames'[p] > 0
  <2>1. CASE \E m \in vms : p = global_frame[m]
    BY <2>1, OwnedCasesNext
  <2>2. CASE \E v \in all_values : p \in pools[v]
    BY <2>2, OwnedCasesNext
  <2>3. ASSUME NEW i \in 1 .. Depth, p = stack_frames[i].frame
        PROVE  p \in OwnedPools' \/ popped_frames'[p] > 0
    <3>1. CASE i = Depth /\ p \in Globals
      BY <2>1, <3>1 DEF Globals
    <3>2. CASE i = Depth /\ p \notin Globals
      BY <1>1, <1>3, <2>3, <3>2
    <3>3. CASE i # Depth
      <4>1. i \in 1 .. Depth'
        BY <1>1, <1>2, <3>3
      <4> QED BY <1>2, <2>3, <4>1, OwnedCasesNext
    <3> QED BY <3>1, <3>2, <3>3
  <2> QED BY <1>5, <2>1, <2>2, <2>3, OwnedCases
<1> QED BY <1>4, <1>5 DEF Accounts

\* A push leaves everything else on the stack.
LEMMA PushAccounts ==
  ASSUME TypeOK, NEW a \in Activation, Push(a),
         vms \subseteq vms', \A m \in vms : global_frame'[m] = global_frame[m],
         \/ UNCHANGED <<all_values, pools>>
         \/ \E v, k, rs, it, ps, m : Allocate(v, k, rs, it, ps, m),
         popped_frames' = popped_frames,
         live_pools' \subseteq live_pools \cup OwnedPools'
  PROVE  Accounts
<1>1. /\ all_values \subseteq all_values'
      /\ \A v \in all_values : pools'[v] = pools[v]
  BY DEF Allocate, TypeOK
<1>2. stack_frames \in Seq(Activation) /\ Depth \in Nat
  BY DEF TypeOK, Depth
<1>3. Depth' = Depth + 1
      /\ \A i \in 1 .. Depth : stack_frames'[i] = stack_frames[i]
  BY <1>2, PushStack
<1> QED BY <1>1, <1>2, <1>3, KeptAccounts

\* No step of the program loses a pool.
LEMMA MutatorAccounts ==
  ASSUME IInv, MutatorStep
  PROVE  Accounts
<1>1. TypeOK /\ Static /\ RunInv
  BY MutatorRuns DEF IInv, ByPhase, RunInv
<1>2. TypeOK'
  BY <1>1, MutatorGrows
<1>3. CASE PopFrame \/ EndImport \/ Unwind
  <2>1. Depth > 1 /\ Pop /\ UNCHANGED <<all_values, pools, vms, global_frame, live_pools>>
    BY <1>3 DEF PopFrame, EndImport, Unwind, valueVars, vmVars, poolVars
  <2> QED BY <1>1, <2>1, PopAccounts
<1>4. ASSUME NEW v \in Value, Return(v)
      PROVE  Accounts
  <2>1. Depth > 1 /\ Pop /\ UNCHANGED <<all_values, pools, vms, global_frame, live_pools>>
    BY <1>4 DEF Return, valueVars, vmVars
  <2> QED BY <1>1, <2>1, PopAccounts
<1>5. ASSUME \/ Catch
             \/ \E v \in Value : \/ \E c \in Value : Append_(c, v) \/ Remove(c, v) \/ SetAttr(c, v)
                                 \/ Load(v) \/ Overwrite(v) \/ AddConverter(v)
      PROVE  Accounts
  <2>1. UNCHANGED <<all_values, pools, vms, global_frame, stack_frames, popped_frames, live_pools>>
    BY <1>5 DEF Catch, Append_, Remove, SetAttr, Load, Overwrite, AddConverter,
       valueVars, vmVars, poolVars, rootVars
  <2> QED BY <1>1, <2>1, ValueAccounts
<1>6. ASSUME NEW v \in Value,
             \/ \E rs \in SUBSET Value : NewList(v, rs)
             \/ \E c \in Value : NewIterator(v, c)
             \/ CreateFun(v) \/ Raise(v)
      PROVE  Accounts
  <2>1. \E w, k, rs, it, ps, m : Allocate(w, k, rs, it, ps, m)
    BY <1>6 DEF NewList, NewIterator, CreateFun, Raise
  <2>2. UNCHANGED <<vms, global_frame, stack_frames, popped_frames, live_pools>>
    BY <1>6 DEF NewList, NewIterator, CreateFun, Raise, vmVars, poolVars, rootVars
  <2> QED BY <1>1, <2>1, <2>2, ValueAccounts
<1>7. ASSUME NEW v \in Value, NEW c \in Value, NEW p \in Pool, NewObject(v, c, p)
      PROVE  Accounts
  <2>1. Allocate(v, "object", {c}, None, {p}, None)
        /\ live_pools' = live_pools \cup {p}
        /\ UNCHANGED <<vms, global_frame, stack_frames, popped_frames>>
    BY <1>7 DEF NewObject, vmVars, rootVars
  <2>2. v \in all_values' /\ p \in pools'[v]
    BY <1>1, <2>1 DEF Allocate, TypeOK
  <2>3. live_pools' \subseteq live_pools \cup OwnedPools'
    BY <2>1, <2>2, OwnedCasesNext
  <2> QED BY <1>1, <2>1, <2>3, ValueAccounts
<1>8. ASSUME NEW v \in Value, NEW p \in Pool, BuildClass(v, p)
      PROVE  Accounts
  <2> DEFINE a == [vm |-> Top.vm, frame |-> p, fun |-> None, args |-> {},
                   module |-> None, external |-> FALSE]
  <2>1. /\ Allocate(v, "class", {}, None, {p}, None) /\ Push(a)
        /\ live_pools' = live_pools \cup {p}
        /\ UNCHANGED <<vms, global_frame, popped_frames>>
    BY <1>8 DEF BuildClass, NewPool, vmVars
  <2>2. a \in Activation
    BY <1>1, TopFacts DEF Activation
  <2> HIDE DEF a
  <2>3. v \in all_values' /\ p \in pools'[v]
    BY <1>1, <2>1 DEF Allocate, TypeOK
  <2>4. live_pools' \subseteq live_pools \cup OwnedPools'
    BY <2>1, <2>3, OwnedCasesNext
  <2> QED BY <1>1, <2>1, <2>2, <2>4, PushAccounts
<1>9. ASSUME NEW v \in Value, NEW m \in VM, NEW g \in Pool, Import(v, m, g)
      PROVE  Accounts
  <2> DEFINE a == [vm |-> m, frame |-> g, fun |-> None, args |-> {},
                   module |-> v, external |-> TRUE]
  <2>1. /\ Allocate(v, "module", {}, None, {g}, m) /\ Push(a)
        /\ live_pools' = live_pools \cup {g}
        /\ vms' = vms \cup {m} /\ m \notin vms
        /\ global_frame' = [global_frame EXCEPT ![m] = g]
        /\ UNCHANGED popped_frames
    BY <1>9 DEF Import, NewPool
  <2>2. a \in Activation
    BY DEF Activation
  <2> HIDE DEF a
  <2>3. v \in all_values' /\ g \in pools'[v]
    BY <1>1, <2>1 DEF Allocate, TypeOK
  <2>4. live_pools' \subseteq live_pools \cup OwnedPools'
    BY <2>1, <2>3, OwnedCasesNext
  <2>5. vms \subseteq vms' /\ \A n \in vms : global_frame'[n] = global_frame[n]
    BY <1>1, <2>1 DEF TypeOK
  <2> QED BY <1>1, <2>1, <2>2, <2>4, <2>5, PushAccounts
<1>10. ASSUME NEW f \in Value, NEW as \in SUBSET Value, NEW p \in Pool,
              NEW ext \in BOOLEAN, Call(f, as, p, ext)
       PROVE  Accounts
  <2> DEFINE a == [vm |-> home[f], frame |-> p, fun |-> f, args |-> as,
                   module |-> None, external |-> ext]
  <2>1. /\ Push(a) /\ kind[f] = "fun" /\ f \in Registers
        /\ live_pools' = live_pools \cup {p}
        /\ UNCHANGED <<all_values, pools, vms, global_frame, popped_frames>>
    BY <1>10 DEF Call, NewPool, valueVars, vmVars
  <2>2. a \in Activation
    <3>1. home[f] \in VM
      <4>1. f \in all_values
        BY <1>1, <2>1, RunFacts
      <4> QED BY <1>1, <2>1, <4>1
              DEF RunInv, TypeOK, Static, Homes, HeapClosed, ValuesClosed
    <3> QED BY <3>1 DEF Activation
  <2>3. a.frame = p
    OBVIOUS
  <2> HIDE DEF a
  <2>4. p \in OwnedPools'
    <3>1. stack_frames'[Depth + 1] = a /\ Depth' = Depth + 1 /\ Depth \in Nat
      BY <1>1, <2>1, <2>2, PushStack DEF TypeOK, Depth
    <3>2. Depth + 1 \in 1 .. Depth'
      BY <3>1
    <3> QED BY <2>3, <3>1, <3>2, OwnedCasesNext
  <2> QED BY <1>1, <2>1, <2>2, <2>4, PushAccounts
<1> QED BY <1>3, <1>4, <1>5, <1>6, <1>7, <1>8, <1>9, <1>10 DEF MutatorStep

\* Nor does a step that leaves the heap alone.
LEMMA WaitAccounts ==
  ASSUME Static, Accounted, UNCHANGED mutatorVars
  PROVE  Accounted'
<1>1. OwnedPools' = OwnedPools
  BY StaticSame
<1> QED BY <1>1 DEF Accounted, mutatorVars, poolVars

\* The destructors list what only garbage had.
LEMMA SweepValuesAccounts ==
  ASSUME IInv, Accounted, SweepValues
  PROVE  Accounted'
<1> DEFINE holders(p) == {v \in Garbage : p \in pools[v]}
           count(p)   == Cardinality(holders(p))
<1>1. /\ all_values' = all_values \cap marked
      /\ pools' = [v \in Value |-> IF v \in Garbage THEN {} ELSE pools[v]]
      /\ popped_frames' = [p \in Pool |->
           IF p \in Globals THEN popped_frames[p]
           ELSE popped_frames[p] + count(p)]
      /\ UNCHANGED <<live_pools, vms, global_frame, stack_frames>>
  BY DEF SweepValues, poolVars, vmVars, rootVars
<1>2. TypeOK /\ Finite
  BY DEF IInv
<1>3. ASSUME NEW p
      PROVE  count(p) \in Nat /\ (holders(p) # {} => count(p) > 0)
  <2>1. IsFiniteSet(holders(p))
    BY <1>2, FS_Subset DEF Garbage, Finite
  <2>2. count(p) \in Nat
    BY <2>1, FS_CardinalityType
  <2>3. holders(p) # {} => count(p) # 0
    BY <2>1, FS_EmptySet
  <2> HIDE DEF count
  <2> QED BY <2>2, <2>3
<1> HIDE DEF count
<1>4. SUFFICES ASSUME NEW p \in live_pools
               PROVE  p \in OwnedPools' \/ popped_frames'[p] > 0
  BY <1>1 DEF Accounted
<1>5. p \in Pool /\ popped_frames[p] \in Nat /\ all_values \subseteq Value
  BY <1>2 DEF TypeOK
<1>6. popped_frames'[p] = IF p \in Globals THEN popped_frames[p]
                          ELSE popped_frames[p] + count(p)
  BY <1>1, <1>5
<1>7. CASE p \in Globals
  BY <1>1, <1>7, OwnedCasesNext DEF Globals
<1>8. CASE \E i \in 1 .. Depth : p = stack_frames[i].frame
  <2>1. Depth' = Depth
    BY <1>1 DEF Depth
  <2> QED BY <1>1, <1>8, <2>1, OwnedCasesNext
<1>9. ASSUME p \notin Globals, NEW v \in all_values, p \in pools[v]
      PROVE  p \in OwnedPools' \/ popped_frames'[p] > 0
  <2>1. CASE v \in marked
    <3>1. v \in all_values' /\ pools'[v] = pools[v]
      BY <1>1, <1>5, <2>1 DEF Garbage
    <3> QED BY <1>9, <3>1, OwnedCasesNext
  <2>2. CASE v \notin marked
    <3>1. v \in holders(p)
      BY <1>9, <2>2 DEF Garbage
    <3>2. count(p) \in Nat /\ count(p) > 0
      BY <1>3, <3>1
    <3> QED BY <1>5, <1>6, <1>9, <3>2
  <2> QED BY <2>1, <2>2
<1>10. CASE p \notin Globals /\ popped_frames[p] > 0
  BY <1>3, <1>5, <1>6, <1>10
<1> QED BY <1>7, <1>8, <1>9, <1>10, OwnedCases DEF Accounted, Globals

\* An entry of the list either stays or is deleted.
LEMMA SweepPoolsAccounts ==
  ASSUME IInv, Accounted, SweepPools
  PROVE  Accounted'
<1> DEFINE listed == Dedupe(popped_frames)
           keep   == {p \in Pool : listed[p] > 0 /\ p \in marked}
           freed  == {p \in Pool : listed[p] > IF p \in marked THEN 1 ELSE 0}
<1>1. /\ live_pools' = live_pools \ freed
      /\ popped_frames' = [p \in Pool |-> IF p \in keep THEN 1 ELSE 0]
      /\ UNCHANGED <<all_values, pools, vms, global_frame, stack_frames>>
  BY DEF SweepPools, valueVars, vmVars, rootVars
<1>2. OwnedPools' = OwnedPools
  BY <1>1 DEF OwnedPools, Globals, Depth
<1>3. SUFFICES ASSUME NEW p \in live_pools \ freed
               PROVE  p \in OwnedPools \/ popped_frames'[p] > 0
  BY <1>1, <1>2 DEF Accounted
<1>4. p \in Pool
  BY DEF IInv, TypeOK
<1>5. ASSUME popped_frames[p] > 0
      PROVE  p \in keep
  <2>1. listed[p] = 1
    BY <1>4, <1>5 DEF Dedupe
  <2> QED BY <1>4, <2>1
<1>6. p \in keep => popped_frames'[p] = 1
  BY <1>1, <1>4
<1> QED BY <1>5, <1>6 DEF Accounted

\* A VM that dies takes its global frame with it.
LEMMA SweepVMsAccounts ==
  ASSUME Accounted, SweepVMs, TypeOK
  PROVE  Accounted'
<1> DEFINE dead  == vms \ marked
           freed == UNION {FramesOf(m) : m \in dead}
<1>1. /\ vms' = vms \ dead
      /\ global_frame' = [m \in VM |->
                             IF m \in dead THEN None ELSE global_frame[m]]
      /\ live_pools' = live_pools \ freed
      /\ UNCHANGED <<all_values, pools, popped_frames, stack_frames>>
  BY DEF SweepVMs, valueVars, rootVars
<1>2. SUFFICES ASSUME NEW p \in live_pools \ freed
               PROVE  p \in OwnedPools' \/ popped_frames[p] > 0
  BY <1>1 DEF Accounted
<1>3. ASSUME NEW m \in vms, p = global_frame[m]
      PROVE  p \in OwnedPools'
  <2>1. m \notin dead
    BY <1>3 DEF FramesOf
  <2>2. m \in vms' /\ global_frame'[m] = p
    BY <1>1, <1>3, <2>1 DEF TypeOK
  <2> QED BY <2>2, OwnedCasesNext
<1>4. CASE \E i \in 1 .. Depth : p = stack_frames[i].frame
  <2>1. Depth' = Depth
    BY <1>1 DEF Depth
  <2> QED BY <1>1, <1>4, <2>1, OwnedCasesNext
<1>5. CASE \E v \in all_values : p \in pools[v]
  BY <1>1, <1>5, OwnedCasesNext
<1> QED BY <1>3, <1>4, <1>5, OwnedCases DEF Accounted

\* No step at all loses a pool.
LEMMA AccountedStep == IInv /\ Accounted /\ [Next]_vars => Accounted'
<1> SUFFICES ASSUME IInv, Accounted, [Next]_vars
             PROVE  Accounted'
  OBVIOUS
<1>1. TypeOK /\ Static
  BY DEF IInv
<1>2. CASE MutatorStep
  BY <1>1, <1>2, MutatorAccounts, AccountsKeep
<1>3. ASSUME \/ StartCollection
             \/ \E v \in Value : ScanValue(v)
             \/ \E p \in Pool : ScanPool(p)
             \/ \E m \in VM : ScanVM(m)
      PROVE  Accounted'
  BY <1>1, <1>3, WaitAccounts DEF StartCollection, ScanValue, ScanPool, ScanVM
<1>4. CASE SweepValues
  BY <1>4, SweepValuesAccounts
<1>5. CASE SweepPools
  BY <1>5, SweepPoolsAccounts
<1>6. CASE SweepVMs
  BY <1>1, <1>6, SweepVMsAccounts
<1>7. CASE UNCHANGED vars
  BY <1>1, <1>7, WaitAccounts DEF vars, mutatorVars
<1> QED BY <1>2, <1>3, <1>4, <1>5, <1>6, <1>7 DEF Next, CollectorStep

\* No frame leaks: when the program runs, a frame that is allocated is in use
\* or waits in popped_frames for the next collection.
THEOREM NoPoolIsLost == Spec => []NoLostPool
<1>1. Init => Accounted
  <2>1. Init => Main \in vms /\ global_frame[Main] = MainPool
                /\ live_pools = {MainPool}
    BY AddressAssumption DEF Init
  <2> QED BY <2>1, OwnedCases DEF Accounted
<1>2. Accounted => NoLostPool
  BY DEF Accounted, NoLostPool
<1> QED BY <1>1, <1>2, AccountedStep, Invariance, PTL DEF Spec

-----------------------------------------------------------------------------
(* Reachability. *)

\* A set of objects that has the main VM and what its members point to.
IsClosed(S) ==
  /\ S \in SUBSET Objects /\ Main \in S
  /\ \A o \in S : PointsTo(o) \subseteq S

\* Reachable, without the set of closed sets.
LEMMA ReachableCases ==
  ASSUME NEW o
  PROVE  o \in Reachable <=> o \in Objects /\ \A S : IsClosed(S) => o \in S
BY DEF Reachable, IsClosed

\* The reachable objects are the least such set.
LEMMA ReachableLeast ==
  ASSUME NEW S, IsClosed(S)
  PROVE  Reachable \subseteq S
BY ReachableCases

\* They are such a set themselves, if there is any.
LEMMA ReachableIsClosed ==
  ASSUME NEW S, IsClosed(S)
  PROVE  IsClosed(Reachable)
<1>1. Reachable \in SUBSET Objects
  BY ReachableCases
<1>2. Main \in Reachable
  BY ReachableCases, AddressAssumption DEF Objects, IsClosed
<1>3. ASSUME NEW o \in Reachable, NEW x \in PointsTo(o)
      PROVE  x \in Reachable
  <2>1. \A C : IsClosed(C) => x \in C
    BY <1>3, ReachableCases DEF IsClosed
  <2>2. x \in Objects
    BY <2>1 DEF IsClosed
  <2> QED BY <2>1, <2>2, ReachableCases
<1> QED BY <1>1, <1>2, <1>3 DEF IsClosed

\* What is reachable changes only with what the members of a closed set point
\* to.
LEMMA ReachableSame ==
  ASSUME NEW S, IsClosed(S), \A o \in S : PointsTo(o)' = PointsTo(o)
  PROVE  Reachable' = Reachable
<1>1. PICK R : R = Reachable
  OBVIOUS
<1>2. IsClosed(R) /\ R \subseteq S
  BY <1>1, ReachableIsClosed, ReachableLeast
<1>3. \A C : IsClosed(C)' <=>
               /\ C \in SUBSET Objects /\ Main \in C
               /\ \A o \in C : PointsTo(o)' \subseteq C
  BY DEF IsClosed, Objects
<1>4. IsClosed(R)'
  BY <1>2, <1>3 DEF IsClosed
<1>5. \A o : o \in Reachable' <=>
               o \in Objects /\ \A C : IsClosed(C)' => o \in C
  BY DEF Reachable, IsClosed, Objects
<1>6. Reachable' \subseteq R
  BY <1>4, <1>5
<1>7. ASSUME NEW o \in R
      PROVE  o \in Reachable'
  <2>1. ASSUME NEW C, IsClosed(C)'
        PROVE  o \in C
    <3>1. IsClosed(C \cap R)
      <4>1. C \cap R \in SUBSET Objects /\ Main \in C \cap R
        BY <1>2, <1>3, <2>1 DEF IsClosed
      <4>2. \A x \in C \cap R : PointsTo(x) \subseteq C \cap R
        BY <1>2, <1>3, <2>1 DEF IsClosed
      <4> QED BY <4>1, <4>2 DEF IsClosed
    <3> QED BY <1>1, <1>7, <3>1, ReachableLeast
  <2> QED BY <1>2, <1>5, <1>7, <2>1 DEF IsClosed
<1> QED BY <1>1, <1>6, <1>7

\* Where each kind of object points to.
LEMMA PointsToCases ==
  /\ \A v \in Value : PointsTo(v) = refs[v] \cup pools[v] \cup ({home[v]} \ {None})
  /\ \A p \in Pool : PointsTo(p) = slots[p] \cup ({vm_owner[p]} \ {None})
  /\ \A m \in VM : PointsTo(m) = CallFrameValues(m) \cup FramesOf(m)
                     \cup (IF m = Main THEN static_roots ELSE {})
BY AddressAssumption DEF PointsTo

\* What an object points to changes only with its own pointers.
LEMMA SameValue ==
  ASSUME NEW v \in Value,
         refs'[v] = refs[v], pools'[v] = pools[v], home'[v] = home[v]
  PROVE  PointsTo(v)' = PointsTo(v)
BY DEF PointsTo

\* The same for a pool.
LEMMA SamePool ==
  ASSUME NEW p \in Pool, slots'[p] = slots[p], vm_owner'[p] = vm_owner[p]
  PROVE  PointsTo(p)' = PointsTo(p)
BY AddressAssumption DEF PointsTo

\* The same for a VM.
LEMMA SameVM ==
  ASSUME NEW m \in VM, CallFrameValues(m)' = CallFrameValues(m),
         FramesOf(m)' = FramesOf(m), static_roots' = static_roots
  PROVE  PointsTo(m)' = PointsTo(m)
<1>1. m \notin Value /\ m \notin Pool
  BY AddressAssumption
<1> QED BY <1>1 DEF PointsTo

\* Between collections, and while one marks, the allocated values, the pools
\* in use and the VMs are closed.
LEMMA HeapIsClosed ==
  ASSUME HeapClosed, Static, TypeOK
  PROVE  IsClosed(all_values \cup OwnedPools \cup vms)
<1> DEFINE S == all_values \cup OwnedPools \cup vms
<1>1. all_values \subseteq Value /\ vms \subseteq VM /\ OwnedPools \subseteq Pool
  BY OwnedInPool DEF TypeOK, Static
<1>2. S \in SUBSET Objects /\ Main \in S
  BY <1>1 DEF Objects, Static, GlobalsOwned
<1>3. ASSUME NEW v \in all_values
      PROVE  PointsTo(v) \subseteq S
  <2>1. PointsTo(v) = refs[v] \cup pools[v] \cup ({home[v]} \ {None})
    BY <1>1, <1>3, PointsToCases
  <2>2. refs[v] \subseteq all_values /\ home[v] \in vms \cup {None}
    BY <1>3 DEF HeapClosed, ValuesClosed
  <2>3. pools[v] \subseteq OwnedPools
    BY <1>3, OwnedCases
  <2> QED BY <2>1, <2>2, <2>3
<1>4. ASSUME NEW p \in OwnedPools
      PROVE  PointsTo(p) \subseteq S
  <2>1. PointsTo(p) = slots[p] \cup ({vm_owner[p]} \ {None})
    BY <1>1, <1>4, PointsToCases
  <2>2. slots[p] \subseteq all_values /\ vm_owner[p] \in vms
    BY <1>4 DEF HeapClosed, PoolsClosed
  <2> QED BY <2>1, <2>2
<1>5. ASSUME NEW m \in vms
      PROVE  PointsTo(m) \subseteq S
  <2>1. PointsTo(m) = CallFrameValues(m) \cup FramesOf(m)
                        \cup (IF m = Main THEN static_roots ELSE {})
    BY <1>1, <1>5, PointsToCases
  <2>2. CallFrameValues(m) \subseteq all_values /\ FramesOf(m) \subseteq OwnedPools
        /\ static_roots \subseteq all_values
    BY <1>5, CallFramesClosed, FramesOwned DEF HeapClosed
  <2> QED BY <2>1, <2>2
<1> QED BY <1>2, <1>3, <1>4, <1>5 DEF IsClosed

\* So all that is reachable is allocated.
LEMMA ReachableAllocated ==
  HeapClosed /\ Static /\ TypeOK => Reachable \subseteq Allocated
BY HeapIsClosed, ReachableLeast, OwnedAllocated DEF Allocated

\* While the program waits nothing becomes reachable or unreachable.
LEMMA ReachableUnchanged ==
  ASSUME UNCHANGED mutatorVars
  PROVE  Reachable' = Reachable /\ Allocated' = Allocated
<1>1. /\ UNCHANGED <<all_values, refs, home, pools, slots, vm_owner, vms,
                     live_pools, global_frame, static_roots, stack_frames>>
      /\ \A m : CallFrameValues(m)' = CallFrameValues(m)
                 /\ FramesOf(m)' = FramesOf(m)
  BY DEF mutatorVars, valueVars, poolVars, vmVars, rootVars, CallFrameValues,
         FramesOf, Depth
<1>2. \A o : PointsTo(o)' = PointsTo(o)
  BY <1>1 DEF PointsTo
<1> QED BY <1>1, <1>2 DEF Reachable, Allocated, Objects

\* Marking marks nothing that is unreachable: what is pending is reachable, so
\* is what it points to.
MarkingExact ==
  phase = "mark" => gray \subseteq Reachable /\ marked \ Pool \subseteq Reachable

\* Scanning keeps it so.
LEMMA ShadeExact ==
  ASSUME IInv, MarkingExact, phase = "mark", NEW o \in gray,
         NEW vs, NEW ps \in SUBSET Pool, NEW ms,
         vs \cup ps \cup ms \subseteq PointsTo(o),
         Shade(o, vs, ps, ms), UNCHANGED mutatorVars
  PROVE  MarkingExact'
<1>1. IsClosed(Reachable)
  BY HeapIsClosed, ReachableIsClosed DEF IInv, ByPhase
<1>2. vs \cup ps \cup ms \subseteq Reachable
  BY <1>1 DEF MarkingExact, IsClosed
<1> QED BY <1>2, ReachableUnchanged DEF Shade, MarkingExact

\* So does every step.
LEMMA MarkingStaysExact == IInv /\ MarkingExact /\ [Next]_vars => MarkingExact'
<1> SUFFICES ASSUME IInv, MarkingExact, [Next]_vars
             PROVE  MarkingExact'
  OBVIOUS
<1>1. CASE phase' # "mark"
  BY <1>1 DEF MarkingExact
<1>2. CASE MutatorStep
  BY <1>2, MutatorRuns DEF gcVars, MarkingExact
<1>3. CASE StartCollection
  <2>1. /\ marked \subseteq Pool /\ marked' = marked \cup {Main}
        /\ gray' = {Main} \ marked /\ UNCHANGED mutatorVars
    BY <1>3 DEF StartCollection, IInv, ByPhase
  <2>2. Main \in Reachable
    BY HeapIsClosed, ReachableIsClosed, <1>3
       DEF IInv, ByPhase, StartCollection, IsClosed
  <2> QED BY <2>1, <2>2, ReachableUnchanged DEF MarkingExact
<1>4. ASSUME NEW v \in Value, ScanValue(v)
      PROVE  MarkingExact'
  <2>1. /\ phase = "mark" /\ v \in gray
        /\ Shade(v, refs[v], pools[v], {home[v]} \ {None})
        /\ UNCHANGED mutatorVars
    BY <1>4 DEF ScanValue
  <2>2. pools[v] \in SUBSET Pool
    BY DEF IInv, TypeOK
  <2>3. refs[v] \cup pools[v] \cup ({home[v]} \ {None}) \subseteq PointsTo(v)
    BY PointsToCases
  <2> QED BY <2>1, <2>2, <2>3, ShadeExact
<1>5. ASSUME NEW p \in Pool, ScanPool(p)
      PROVE  MarkingExact'
  <2>1. /\ phase = "mark" /\ p \in gray
        /\ Shade(p, slots[p], {}, {vm_owner[p]} \ {None})
        /\ UNCHANGED mutatorVars
    BY <1>5 DEF ScanPool
  <2>2. {} \in SUBSET Pool
    OBVIOUS
  <2>3. slots[p] \cup {} \cup ({vm_owner[p]} \ {None}) \subseteq PointsTo(p)
    BY PointsToCases
  <2> QED BY <2>1, <2>2, <2>3, ShadeExact
<1>6. ASSUME NEW m \in VM, ScanVM(m)
      PROVE  MarkingExact'
  <2> DEFINE vs == CallFrameValues(m)
                     \cup (IF m = Main THEN static_roots ELSE {})
  <2>1. /\ phase = "mark" /\ m \in gray
        /\ Shade(m, vs, FramesOf(m), {})
        /\ UNCHANGED mutatorVars
    BY <1>6 DEF ScanVM
  <2>2. FramesOf(m) \in SUBSET Pool
    <3>1. m \in vms
      BY <2>1 DEF IInv, ByPhase, Marking
    <3> QED BY <3>1, FramesOwned, OwnedInPool DEF IInv, Static
  <2>3. vs \cup FramesOf(m) \cup {} \subseteq PointsTo(m)
    BY PointsToCases
  <2> HIDE DEF vs
  <2> QED BY <2>1, <2>2, <2>3, ShadeExact
<1>7. CASE SweepValues \/ SweepPools \/ SweepVMs
  BY <1>1, <1>7 DEF SweepValues, SweepPools, SweepVMs
<1>8. CASE UNCHANGED vars
  <2>1. UNCHANGED mutatorVars /\ UNCHANGED <<phase, marked, gray>>
    BY <1>8 DEF vars, mutatorVars, gcVars
  <2> QED BY <2>1, ReachableUnchanged DEF MarkingExact
<1> QED BY <1>2, <1>3, <1>4, <1>5, <1>6, <1>7, <1>8 DEF Next, CollectorStep

\* Every value and every VM that is marked can be reached: no cycle of values,
\* closures or modules keeps itself alive.
THEOREM MarkingIsExact == Spec => []MarksOnlyReachable
<1>1. Init => MarkingExact
  BY DEF Init, MarkingExact
<1>2. MarkingExact => MarksOnlyReachable
  BY DEF MarkingExact, MarksOnlyReachable
<1> QED BY <1>1, <1>2, MarkingStaysExact, Invariance, PTL DEF Spec

-----------------------------------------------------------------------------
(* The refinement: what each step does to the allocated and the reachable    *)
(* objects.                                                                   *)

\* The objects the first part of the sweep leaves are closed.
LEMMA MarkedIsClosed ==
  ASSUME IInv, phase = "mark", gray = {}
  PROVE  IsClosed((marked \cap (Value \cup VM)) \cup {p \in OwnedPools : Scanned(p)})
<1> DEFINE S == (marked \cap (Value \cup VM)) \cup {p \in OwnedPools : Scanned(p)}
<1>1. HeapClosed /\ Static /\ TypeOK /\ Marking
  BY DEF IInv, ByPhase
<1>2. /\ OwnedPools \subseteq Pool /\ all_values \subseteq Value
      /\ vms \subseteq VM
  BY <1>1, OwnedInPool DEF TypeOK, Static
<1>3. /\ Main \in marked /\ Main \in VM
      /\ marked \cap Value \subseteq all_values
      /\ marked \cap VM \subseteq vms
      /\ \A v \in marked \cap Value :
           /\ refs[v] \subseteq marked
           /\ home[v] \in marked \cup {None}
           /\ \A p \in pools[v] : Scanned(p)
      /\ \A m \in marked \cap VM :
           /\ CallFrameValues(m) \subseteq marked
           /\ m = Main => static_roots \subseteq marked
           /\ \A p \in FramesOf(m) : Scanned(p)
  BY <1>1, AddressAssumption DEF Marking
<1>4. S \in SUBSET Objects /\ Main \in S
  BY <1>2, <1>3 DEF Objects
<1>5. ASSUME NEW v \in marked \cap Value
      PROVE  PointsTo(v) \subseteq S
  <2>1. v \in all_values
    BY <1>3
  <2>2. refs[v] \subseteq Value /\ home[v] \in VM \cup {None}
        /\ pools[v] \subseteq OwnedPools
    BY <1>1, <2>1, OwnedCases DEF TypeOK
  <2> QED BY <1>3, <2>2, PointsToCases
<1>6. ASSUME NEW p \in OwnedPools, Scanned(p)
      PROVE  PointsTo(p) \subseteq S
  <2>1. slots[p] \subseteq Value /\ vm_owner[p] \in VM \cup {None}
    BY <1>1, <1>2 DEF TypeOK
  <2> QED BY <1>2, <1>6, <2>1, PointsToCases DEF Scanned
<1>7. ASSUME NEW m \in marked \cap VM
      PROVE  PointsTo(m) \subseteq S
  <2>1. m \in vms
    BY <1>3
  <2>2. CallFrameValues(m) \subseteq Value /\ static_roots \subseteq Value
        /\ FramesOf(m) \subseteq OwnedPools
    BY <1>1, <1>2, <2>1, CallFramesClosed, FramesOwned DEF TypeOK
  <2>3. PointsTo(m) = CallFrameValues(m) \cup FramesOf(m)
                        \cup (IF m = Main THEN static_roots ELSE {})
    BY PointsToCases
  <2> QED BY <1>3, <2>2, <2>3
<1> QED BY <1>4, <1>5, <1>6, <1>7 DEF IsClosed

\* The objects the other parts of the sweep leave.
Survivors == all_values \cup (marked \cap VM) \cup {p \in Pool : Kept(p)}

\* What survives the sweep is closed.
LEMMA SurvivorsClosed ==
  ASSUME IInv, Sweeping
  PROVE  IsClosed(Survivors)
<1>1. Static /\ TypeOK
  BY DEF IInv
<1>2. /\ all_values \subseteq Value /\ marked \cap VM \subseteq vms
      /\ vms \subseteq VM /\ Main \in VM
  BY <1>1, AddressAssumption DEF TypeOK, Sweeping
<1>3. Survivors \in SUBSET Objects /\ Main \in Survivors
  BY <1>2 DEF Survivors, Objects, Sweeping
<1>4. None \notin marked
  BY <1>1, AddressAssumption DEF TypeOK
<1>5. ASSUME NEW v \in all_values
      PROVE  PointsTo(v) \subseteq Survivors
  <2>1. /\ refs[v] \subseteq all_values /\ home[v] \in marked \cup {None}
        /\ \A p \in pools[v] : Kept(p)
    BY <1>5 DEF Sweeping
  <2>2. home[v] \in VM \cup {None} /\ pools[v] \subseteq Pool
    BY <1>1, <1>5 DEF TypeOK
  <2>3. PointsTo(v) = refs[v] \cup pools[v] \cup ({home[v]} \ {None})
    BY <1>2, <1>5, PointsToCases
  <2> QED BY <2>1, <2>2, <2>3 DEF Survivors
<1>6. ASSUME NEW p \in Pool, Kept(p)
      PROVE  PointsTo(p) \subseteq Survivors
  <2>1. slots[p] \subseteq all_values /\ vm_owner[p] \in marked
    BY <1>6 DEF Kept
  <2>2. vm_owner[p] \in VM
    BY <1>1, <1>4, <2>1 DEF TypeOK
  <2> QED BY <2>1, <2>2, PointsToCases DEF Survivors
<1>7. ASSUME NEW m \in marked \cap VM
      PROVE  PointsTo(m) \subseteq Survivors
  <2>1. /\ CallFrameValues(m) \subseteq all_values
        /\ \A p \in FramesOf(m) : Kept(p)
        /\ static_roots \subseteq all_values
    BY DEF Sweeping
  <2>2. FramesOf(m) \subseteq Pool
    BY <1>1, <1>2, FramesOwned, OwnedInPool DEF Static
  <2>3. PointsTo(m) = CallFrameValues(m) \cup FramesOf(m)
                        \cup (IF m = Main THEN static_roots ELSE {})
    BY PointsToCases
  <2> QED BY <2>1, <2>2, <2>3 DEF Survivors
<1> QED BY <1>3, <1>5, <1>6, <1>7 DEF IsClosed, Survivors

\* The program frees nothing, and can reach only what is allocated.
LEMMA MutatorMaps ==
  ASSUME IInv, IInv', MutatorStep
  PROVE  Abstract!Mutate
<1>1. phase' = "run"
  BY MutatorRuns DEF gcVars
<1>2. (Reachable \subseteq Allocated)'
  <2>1. (HeapClosed /\ Static /\ TypeOK)'
    BY <1>1 DEF IInv, ByPhase
  <2> QED BY <2>1, ReachableAllocated, PTL
<1>3. Grows
  <2>1. RunInv
    BY MutatorRuns DEF IInv, ByPhase, RunInv
  <2> QED BY <2>1, MutatorGrows
<1>4. Allocated \subseteq Allocated'
  BY <1>3 DEF Grows, Allocated
<1> QED BY <1>2, <1>4 DEF Abstract!Mutate

\* A collection that leaves a closed set as it is frees only garbage.
LEMMA CollectorFrees ==
  ASSUME NEW S, IsClosed(S), \A o \in S : PointsTo(o)' = PointsTo(o),
         Allocated' \subseteq Allocated, S \subseteq Allocated'
  PROVE  Abstract!Free
<1>1. Reachable' = Reachable /\ Reachable \subseteq S
  BY ReachableSame, ReachableLeast
<1> QED BY <1>1 DEF Abstract!Free

\* Marking is a stutter.
LEMMA WaitMaps ==
  ASSUME UNCHANGED mutatorVars
  PROVE  UNCHANGED <<Allocated, Reachable>>
BY ReachableUnchanged

\* The first part of the sweep frees the values that are not marked.
LEMMA SweepValuesMaps ==
  ASSUME IInv, SweepValues
  PROVE  Abstract!Free
<1>1. PICK S : S = (marked \cap (Value \cup VM)) \cup {p \in OwnedPools : Scanned(p)}
  OBVIOUS
<1>2. /\ phase = "mark" /\ gray = {}
      /\ all_values' = all_values \cap marked
      /\ refs' = [v \in Value |-> IF v \in Garbage THEN {} ELSE refs[v]]
      /\ pools' = [v \in Value |-> IF v \in Garbage THEN {} ELSE pools[v]]
      /\ home' = [v \in Value |-> IF v \in Garbage THEN None ELSE home[v]]
      /\ UNCHANGED <<live_pools, slots, vm_owner, vms, global_frame,
                     stack_frames, static_roots>>
  BY DEF SweepValues, poolVars, vmVars, rootVars
<1>3. HeapClosed /\ Static /\ TypeOK /\ Marking
  BY <1>2 DEF IInv, ByPhase
<1>4. IsClosed(S)
  BY <1>1, <1>2, MarkedIsClosed
<1>5. OwnedPools \subseteq Pool /\ OwnedPools \subseteq live_pools
  BY <1>3, OwnedInPool, OwnedAllocated DEF Static
<1>6. \A m : CallFrameValues(m)' = CallFrameValues(m)
              /\ FramesOf(m)' = FramesOf(m)
  BY <1>2 DEF CallFrameValues, FramesOf, Depth
<1>7. ASSUME NEW v \in marked \cap Value
      PROVE  PointsTo(v)' = PointsTo(v)
  <2>1. v \notin Garbage
    BY DEF Garbage
  <2>2. refs'[v] = refs[v] /\ pools'[v] = pools[v] /\ home'[v] = home[v]
    BY <1>2, <2>1
  <2> QED BY <2>2, SameValue, SamePool, SameVM
<1>8. ASSUME NEW p \in Pool
      PROVE  PointsTo(p)' = PointsTo(p)
  <2>1. slots'[p] = slots[p] /\ vm_owner'[p] = vm_owner[p]
    BY <1>2
  <2> QED BY <2>1, SameValue, SamePool, SameVM
<1>9. ASSUME NEW m \in VM
      PROVE  PointsTo(m)' = PointsTo(m)
  <2>1. static_roots' = static_roots
    BY <1>2
  <2> QED BY <1>6, <2>1, SameValue, SamePool, SameVM
<1>10. \A o \in S : PointsTo(o)' = PointsTo(o)
  BY <1>1, <1>5, <1>7, <1>8, <1>9
<1>11. S \subseteq Allocated'
  BY <1>1, <1>2, <1>3, <1>5 DEF Allocated, Marking
<1>12. Allocated' \subseteq Allocated
  BY <1>2 DEF Allocated
<1> QED BY <1>4, <1>10, <1>11, <1>12, CollectorFrees

\* The second part frees listed pools that are not marked.
LEMMA SweepPoolsMaps ==
  ASSUME IInv, SweepPools
  PROVE  Abstract!Free
<1> DEFINE freed == {p \in Pool : Dedupe(popped_frames)[p] > IF p \in marked THEN 1 ELSE 0}
<1>1. PICK S : S = Survivors
  OBVIOUS
<1>2. /\ phase = "sweepPools"
      /\ live_pools' = live_pools \ freed
      /\ slots' = [p \in Pool |-> IF p \in freed THEN {} ELSE slots[p]]
      /\ vm_owner' = [p \in Pool |-> IF p \in freed THEN None ELSE vm_owner[p]]
      /\ UNCHANGED <<all_values, refs, pools, home, vms, global_frame,
                     stack_frames, static_roots>>
  BY DEF SweepPools, valueVars, vmVars, rootVars
<1>3. freed \cap marked = {}
  BY DEF Dedupe
<1> HIDE DEF freed
<1>4. Sweeping /\ Static /\ TypeOK
  BY <1>2 DEF IInv, ByPhase
<1>5. IsClosed(S)
  BY <1>1, <1>4, SurvivorsClosed
<1>6. \A m : CallFrameValues(m)' = CallFrameValues(m)
              /\ FramesOf(m)' = FramesOf(m)
  BY <1>2 DEF CallFrameValues, FramesOf, Depth
<1>7. all_values \subseteq Value /\ marked \cap VM \subseteq vms
  BY <1>4 DEF TypeOK, Sweeping
<1>8. \A p \in Pool : Kept(p) => p \in live_pools /\ p \notin freed
  BY <1>2, <1>3 DEF Kept
<1>9. ASSUME NEW v \in Value
      PROVE  PointsTo(v)' = PointsTo(v)
  <2>1. refs'[v] = refs[v] /\ pools'[v] = pools[v] /\ home'[v] = home[v]
    BY <1>2
  <2> QED BY <2>1, SameValue, SamePool, SameVM
<1>10. ASSUME NEW p \in Pool, Kept(p)
       PROVE  PointsTo(p)' = PointsTo(p)
  <2>1. p \notin freed
    BY <1>8, <1>10
  <2>2. slots'[p] = slots[p] /\ vm_owner'[p] = vm_owner[p]
    BY <1>2, <2>1
  <2> QED BY <2>2, SameValue, SamePool, SameVM
<1>11. ASSUME NEW m \in VM
       PROVE  PointsTo(m)' = PointsTo(m)
  <2>1. static_roots' = static_roots
    BY <1>2
  <2> QED BY <1>6, <2>1, SameValue, SamePool, SameVM
<1>12. \A o \in S : PointsTo(o)' = PointsTo(o)
  BY <1>1, <1>7, <1>9, <1>10, <1>11 DEF Survivors
<1>13. S \subseteq Allocated'
  BY <1>1, <1>2, <1>7, <1>8 DEF Allocated, Survivors
<1>14. Allocated' \subseteq Allocated
  BY <1>2 DEF Allocated
<1> QED BY <1>5, <1>12, <1>13, <1>14, CollectorFrees

\* The last part frees the VMs that are not marked, and their frames.
LEMMA SweepVMsMaps ==
  ASSUME IInv, SweepVMs
  PROVE  Abstract!Free
<1> DEFINE dead  == vms \ marked
           freed == UNION {FramesOf(m) : m \in dead}
<1>1. PICK S : S = Survivors
  OBVIOUS
<1>2. /\ phase = "sweepVMs"
      /\ vms' = vms \ dead
      /\ global_frame' = [m \in VM |->
                             IF m \in dead THEN None ELSE global_frame[m]]
      /\ live_pools' = live_pools \ freed
      /\ slots' = [p \in Pool |-> IF p \in freed THEN {} ELSE slots[p]]
      /\ vm_owner' = [p \in Pool |-> IF p \in freed THEN None ELSE vm_owner[p]]
      /\ UNCHANGED <<all_values, refs, pools, home, stack_frames, static_roots>>
  BY DEF SweepVMs, valueVars, rootVars
<1>3. Sweeping /\ Static /\ TypeOK
  BY <1>2 DEF IInv, ByPhase
<1>4. IsClosed(S)
  BY <1>1, <1>3, SurvivorsClosed
<1>5. all_values \subseteq Value /\ marked \cap VM \subseteq vms /\ vms \subseteq VM
  BY <1>3 DEF TypeOK, Sweeping
<1>6. \A i \in 1 .. Depth : stack_frames[i].vm \in marked
  <2>1. \A m \in marked \cap VM : \A f \in CallFrameValues(m) :
          f \in all_values /\ home[f] \in marked \cup {None}
    BY <1>3 DEF Sweeping
  <2>2. Main \in marked /\ \A f \in static_roots : home[f] \in marked \cup {None}
    BY <1>3 DEF Sweeping
  <2> QED BY <1>3, <2>1, <2>2, StackMarked DEF Static
<1>7. \A p \in Pool : Kept(p) => p \in live_pools /\ p \notin freed
  <2>1. \A m \in dead : FramesOf(m) = {global_frame[m]}
    BY <1>6 DEF FramesOf
  <2>2. \A m \in dead : vm_owner[global_frame[m]] = m
    BY <1>3 DEF Static, GlobalsOwned
  <2> QED BY <2>1, <2>2 DEF Kept
<1> HIDE DEF freed
<1>8. \A m \in marked \cap VM : CallFrameValues(m)' = CallFrameValues(m)
              /\ FramesOf(m)' = FramesOf(m)
  BY <1>2, <1>5 DEF CallFrameValues, FramesOf, Depth
<1>9. ASSUME NEW v \in Value
      PROVE  PointsTo(v)' = PointsTo(v)
  <2>1. refs'[v] = refs[v] /\ pools'[v] = pools[v] /\ home'[v] = home[v]
    BY <1>2
  <2> QED BY <2>1, SameValue, SamePool, SameVM
<1>10. ASSUME NEW p \in Pool, Kept(p)
       PROVE  PointsTo(p)' = PointsTo(p)
  <2>1. p \notin freed
    BY <1>7, <1>10
  <2>2. slots'[p] = slots[p] /\ vm_owner'[p] = vm_owner[p]
    BY <1>2, <2>1
  <2> QED BY <2>2, SameValue, SamePool, SameVM
<1>11. ASSUME NEW m \in marked \cap VM
       PROVE  PointsTo(m)' = PointsTo(m)
  <2>1. static_roots' = static_roots
    BY <1>2
  <2> QED BY <1>8, <2>1, SameValue, SamePool, SameVM
<1>12. \A o \in S : PointsTo(o)' = PointsTo(o)
  BY <1>1, <1>5, <1>9, <1>10, <1>11 DEF Survivors
<1>13. S \subseteq Allocated'
  BY <1>1, <1>2, <1>5, <1>7 DEF Allocated, Survivors
<1>14. Allocated' \subseteq Allocated
  BY <1>2 DEF Allocated
<1> QED BY <1>4, <1>12, <1>13, <1>14, CollectorFrees

\* Every step of GcHeap is a step of GcAbstract or a stutter.
LEMMA StepMaps ==
  IInv /\ IInv' /\ [Next]_vars => [Abstract!Next]_<<Allocated, Reachable>>
<1> SUFFICES ASSUME IInv, IInv', [Next]_vars
             PROVE  Abstract!Next \/ UNCHANGED <<Allocated, Reachable>>
  OBVIOUS
<1>1. CASE MutatorStep
  BY <1>1, MutatorMaps DEF Abstract!Next
<1>2. ASSUME \/ StartCollection
             \/ \E v \in Value : ScanValue(v)
             \/ \E p \in Pool : ScanPool(p)
             \/ \E m \in VM : ScanVM(m)
      PROVE  UNCHANGED <<Allocated, Reachable>>
  BY <1>2, WaitMaps DEF StartCollection, ScanValue, ScanPool, ScanVM
<1>3. CASE SweepValues \/ SweepPools \/ SweepVMs
  BY <1>3, SweepValuesMaps, SweepPoolsMaps, SweepVMsMaps DEF Abstract!Next
<1>4. CASE UNCHANGED vars
  BY <1>4, WaitMaps DEF vars, mutatorVars
<1> QED BY <1>1, <1>2, <1>3, <1>4 DEF Next, CollectorStep

\* The collector implements GcAbstract: whatever the program does, what it
\* can reach is allocated, the program frees nothing, and a collection frees
\* only what is unreachable and changes nothing about what is reachable.
THEOREM CollectorImplementsAbstract == Spec => FreesOnlyGarbage
<1>1. Init /\ IInv => Abstract!Init
  BY ReachableAllocated DEF Init, IInv, ByPhase, Abstract!Init
<1>2. IInv /\ IInv' /\ [Next]_vars => [Abstract!Next]_<<Allocated, Reachable>>
  BY StepMaps
<1> QED BY <1>1, <1>2, Invariance, PTL DEF Spec, FreesOnlyGarbage, Abstract!Spec

=============================================================================
