----------------------------- MODULE GcHeapInv -----------------------------
(***************************************************************************)
(* The inductive invariant behind the safety of the collector.  Its parts  *)
(* follow a collection through its phases: while the program runs the heap *)
(* is closed; while marking, what is black points only to what is marked   *)
(* or pending; while sweeping, what survives points only to survivors.     *)
(***************************************************************************)
EXTENDS GcHeap

\* The consequent of NoDanglingPointer, in parts.
ValuesClosed ==
  \A v \in all_values :
    /\ refs[v] \subseteq all_values
    /\ pools[v] \subseteq live_pools
    /\ home[v] \in vms \cup {None}
PoolsClosed ==
  \A p \in OwnedPools : slots[p] \subseteq all_values /\ vm_owner[p] \in vms
VMsClosed == \A m \in vms : global_frame[m] \in live_pools
StackClosed ==
  \A i \in 1 .. Depth :
    /\ stack_frames[i].frame \in live_pools
    /\ stack_frames[i].vm \in vms
    /\ stack_frames[i].fun \in all_values \cup {None}
    /\ stack_frames[i].args \subseteq all_values
HeapClosed ==
  /\ ValuesClosed /\ PoolsClosed /\ VMsClosed /\ StackClosed
  /\ static_roots \subseteq all_values

\* A function knows its VM, and a global frame is owned by its VM.
Homes == \A v \in all_values : kind[v] = "fun" => home[v] # None
GlobalsOwned ==
  /\ Main \in vms
  /\ \A m \in vms : global_frame[m] \in Pool /\ vm_owner[global_frame[m]] = m

\* A pool that is not allocated is empty.
FreshPools == \A p \in Pool \ live_pools : slots[p] = {}

\* Listed frames are allocated, and are no VM's global frame.
Listed == \A p \in Pool : popped_frames[p] > 0 => p \in live_pools \ Globals

\* The VM of an activation is that of the activation below, or the home of
\* the function or module it runs.
Runs(a, f) == f # None /\ home[f] = a.vm
Chain ==
  /\ stack_frames[1].vm = Main
  /\ \A i \in 2 .. Depth :
       \/ stack_frames[i].vm = stack_frames[i - 1].vm
       \/ Runs(stack_frames[i], stack_frames[i].fun)
       \/ Runs(stack_frames[i], stack_frames[i].module)

\* A module is a static root for as long as it is being imported, and is
\* imported once.
Imports ==
  \A i \in 1 .. Depth :
    stack_frames[i].module # None =>
      /\ stack_frames[i].module \in static_roots
      /\ \A j \in 1 .. Depth :
           j # i => stack_frames[j].module # stack_frames[i].module

\* Induction along the stack, carried by the steps that push and pop: a set
\* of VMs that has the main one and, with the VM of an activation, that of
\* the next one, has the VM of every activation; for every prefix, so that a
\* pop keeps it.
StackInduction ==
  \A d \in 1 .. Depth, S \in SUBSET VM :
    /\ Main \in S
    /\ \A i \in 2 .. d :
         stack_frames[i - 1].vm \in S => stack_frames[i].vm \in S
    => \A i \in 1 .. d : stack_frames[i].vm \in S

\* A pool that has been scanned in this collection.
Scanned(p) ==
  p \in marked /\ slots[p] \subseteq marked /\ vm_owner[p] \in marked

\* Marking: black values and VMs point only to marked or pending objects.
Marking ==
  /\ Main \in marked
  /\ marked \cap Value \subseteq all_values
  /\ marked \cap VM \subseteq vms
  /\ gray \subseteq marked
  /\ gray \cap Pool \subseteq OwnedPools
  /\ \A v \in (marked \cap Value) \ gray :
       /\ refs[v] \subseteq marked
       /\ home[v] \in marked \cup {None}
       /\ \A p \in pools[v] : p \in gray \/ Scanned(p)
  /\ \A m \in (marked \cap VM) \ gray :
       /\ CallFrameValues(m) \subseteq marked
       /\ m = Main => static_roots \subseteq marked
       /\ \A p \in FramesOf(m) : p \in gray \/ Scanned(p)

\* A pool that survives the sweep.
Kept(p) ==
  /\ p \in live_pools
  /\ slots[p] \subseteq all_values
  /\ vm_owner[p] \in marked
  /\ phase = "sweepPools" => p \in marked

\* Sweeping: the surviving values and the marked VMs point only to survivors.
Sweeping ==
  /\ gray = {} /\ marked \cap Value = {}
  /\ Main \in marked
  /\ marked \cap VM \subseteq vms
  /\ \A v \in all_values :
       /\ refs[v] \subseteq all_values
       /\ home[v] \in marked \cup {None}
       /\ \A p \in pools[v] : Kept(p)
  /\ \A m \in marked \cap VM :
       /\ CallFrameValues(m) \subseteq all_values
       /\ \A p \in FramesOf(m) : Kept(p)
  /\ static_roots \subseteq all_values
  /\ VMsClosed

ByPhase ==
  /\ phase = "run" => HeapClosed /\ gray = {} /\ marked \subseteq Pool
  /\ phase = "mark" => HeapClosed /\ Marking
  /\ phase \in {"sweepPools", "sweepVMs"} => Sweeping

\* The parts that hold in every phase and that the mutator has to keep.
Static ==
  /\ Homes /\ GlobalsOwned /\ FreshPools /\ Listed
  /\ Chain /\ Imports /\ StackInduction

\* Only finitely many values are allocated, so that sweep can count.
Finite == IsFiniteSet(all_values)

IInv == TypeOK /\ Static /\ ByPhase /\ Finite
=============================================================================
