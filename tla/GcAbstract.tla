---------------------------- MODULE GcAbstract ----------------------------
(***************************************************************************)
(* What a garbage collected heap promises its program, with no word on how *)
(* the garbage is found (the class comment of TracingGC in vm/gc.hpp).     *)
(***************************************************************************)
VARIABLES
  objects,    \* the allocated objects
  reachable   \* those the program can get at

Init == reachable \subseteq objects

\* The program allocates and redirects pointers; it frees nothing.
Mutate == objects \subseteq objects' /\ reachable' \subseteq objects'

\* The collector frees some objects, none of which can be reached.
Free ==
  /\ objects' \subseteq objects
  /\ reachable \subseteq objects'
  /\ reachable' = reachable

Next == Mutate \/ Free

Spec == Init /\ [][Next]_<<objects, reachable>>
=============================================================================
