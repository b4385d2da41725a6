-------------------------------- MODULE MCGC ---------------------------------
(***************************************************************************)
(* Model checking KrkGC.                                                   *)
(***************************************************************************)
EXTENDS KrkGC
\* Bound of the runs about classes: references to classes only, no fields.
NoFields == \A o \in Obj : ref[o] = None
=============================================================================
