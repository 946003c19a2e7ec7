---------------------------- MODULE MCCallStack ----------------------------
(***************************************************************************)
(* CallStack on small instances.  Addresses are numbers here, and a new    *)
(* object gets the lowest free one: nothing depends on which address it    *)
(* is, and an address is still used again once it is free.                 *)
(***************************************************************************)
EXTENDS CallStack

CONSTANTS
  main, lib, error, stop,
  MaxDepth  \* bound: entries of stack_frames

Bounded == Len(stack_frames) <= MaxDepth

Used(f) == ~Fresh(f)
Allocated(c) == ~FreshCall(c)

LowestAddress ==
  /\ \A f, g \in Frame : g < f /\ ~Used(f) /\ Used(f)' => Used(g)
  /\ \A c, d \in CallFrame :
       d < c /\ ~Allocated(c) /\ Allocated(c)' => Allocated(d)
=============================================================================
