------------------------------ MODULE MCExMon ------------------------------
(***************************************************************************)
(* ExMon with two words in one cache block, both written, and a third in a *)
(* block of its own, which is loaded but not written; the contexts are     *)
(* interchangeable, and only safety properties are checked.                *)
(***************************************************************************)
EXTENDS ExMon, TLC

Layout == [a \in Addrs |-> IF a = "z" THEN "other" ELSE "shared"]
CPUSymmetry == Permutations(CPUs)
Writes == ("x" :> 3) @@ ("y" :> 2) @@ ("z" :> 1)
=============================================================================
