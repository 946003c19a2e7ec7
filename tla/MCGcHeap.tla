----------------------------- MODULE MCGcHeap -----------------------------
(* Small instances of GcHeap for TLC. *)
EXTENDS GcReachable, TLC

CONSTANTS MaxDepth, MaxRefs, MaxArgs

\* Addresses are interchangeable, but for the main VM and its global frame.
Symmetry ==
  Permutations(Value) \cup Permutations(Pool \ {MainPool})
    \cup Permutations(VM \ {Main})

\* Bounds: the depth of the stack and the values in one register file.
Bounded ==
  /\ Depth <= MaxDepth
  /\ \A v \in Value : Cardinality(refs[v]) <= MaxRefs
  /\ Cardinality({a \in (1 .. Depth) \X Value : a[2] \in stack_frames[a[1]].args}) <= MaxArgs

=============================================================================
