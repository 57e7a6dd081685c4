---------------------------- MODULE MCInstQueue ----------------------------
(***************************************************************************)
(* InstQueue on small programs: a producer without sources, instructions   *)
(* that read it together with another register, and instructions that read *)
(* the same register twice (and so enter its chain twice).                 *)
(***************************************************************************)
EXTENDS InstQueue

Producer == [srcs |-> <<>>, dest |-> 0]
Both == [srcs |-> <<0, 1>>, dest |-> 1]
Compare == [srcs |-> <<0, 1>>, dest |-> NoDest]
Twice == [srcs |-> <<0, 0>>, dest |-> NoDest]

ProgramShapes ==
    <<{Producer}, {Producer, Compare, Twice}, {Producer, Both, Twice},
      {Compare}>>
=============================================================================
