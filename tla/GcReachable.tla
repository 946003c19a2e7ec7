---------------------------- MODULE GcReachable ----------------------------
(***************************************************************************)
(* Reachability through traced pointers: the reference that the marking is *)
(* compared with, and the mapping of GcHeap to GcAbstract.                 *)
(***************************************************************************)
EXTENDS GcHeapInv

Objects == Value \cup Pool \cup VM

PointsTo(o) ==
  IF o \in Value THEN refs[o] \cup pools[o] \cup ({home[o]} \ {None})
  ELSE IF o \in Pool THEN slots[o] \cup ({vm_owner[o]} \ {None})
  ELSE CallFrameValues(o) \cup FramesOf(o)
         \cup (IF o = Main THEN static_roots ELSE {})

\* What the program can get at from the main VM: an object is reachable if it
\* is in every set that has the main VM and what its members point to.
Reachable ==
  LET Closed == {S \in SUBSET Objects :
                   Main \in S /\ \A o \in S : PointsTo(o) \subseteq S}
  IN  {o \in Objects : \A S \in Closed : o \in S}

Allocated == all_values \cup live_pools \cup vms

\* The heap as the program should see it.
Abstract == INSTANCE GcAbstract
              WITH objects <- Allocated, reachable <- Reachable

\* The collector frees only what is unreachable, the program frees nothing,
\* and what the program can reach is always allocated.
FreesOnlyGarbage == Abstract!Spec

\* Marking is exact: no value or VM that is unreachable is kept, cycles of
\* values, closures and modules included.
MarksOnlyReachable == phase = "mark" => marked \ Pool \subseteq Reachable
=============================================================================
