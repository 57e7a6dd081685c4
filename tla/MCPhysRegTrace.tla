--------------------------- MODULE MCPhysRegTrace ---------------------------
(* Instances of PhysRegTrace for TLC. *)
EXTENDS PhysRegTrace

(* Two integer slots, one floating-point and one vector slot.              *)
SmallFiles == [c \in AllClasses |-> IF c = "int" THEN 2 ELSE 1]
=============================================================================
