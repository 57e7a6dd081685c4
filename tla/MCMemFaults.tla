---------------------------- MODULE MCMemFaults ----------------------------
(***************************************************************************)
(* The simulations of MemFaults that TLC considers: every field of the     *)
(* cache, and the data of both sites with every protection model, fault    *)
(* type and weight of the mask that changes anything.                      *)
(***************************************************************************)
EXTENDS MemFaults

Field(f, ty, pr, m) == [site |-> "cache", field |-> f, type |-> ty, prot |-> pr, mask |-> m]

CacheSetups ==
    {Field(f, "bit_flip", "none", {0}) : f \in CacheFields \ {"data"}}
    \cup {Field("data", ty, "none", {0}) : ty \in {"bit_flip", "stuck_at_one"}}
    \cup {Field("data", "bit_flip", pr, m) :
            pr \in {"sed", "secded"}, m \in {{0}, {0, 1}}}
    \cup {Field("data", "stuck_at_zero", "secded", {0})}

DramSetups ==
    {[site |-> "mem", field |-> "data", type |-> ty, prot |-> pr, mask |-> {0}] :
        ty \in {"bit_flip", "stuck_at_one"}, pr \in {"secded", "ecc_logic_fault"}}
    \cup {[site |-> "mem", field |-> "data", type |-> "stuck_at_zero",
           prot |-> "none", mask |-> {0, 1}]}

AllSetups == CacheSetups \cup DramSetups
TwoValues == {{}, {0, 1}}
=============================================================================
