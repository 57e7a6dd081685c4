------------------------------ MODULE MCLsqFwd ------------------------------
(***************************************************************************)
(* LsqFwd on every program of four loads and stores of one or both of two  *)
(* bytes that begins with a store and ends with a load.                    *)
(***************************************************************************)
EXTENDS LsqFwd

Ops(kinds) == [kind : kinds, addr : {0}, size : {1, 2}]
              \cup [kind : kinds, addr : {1}, size : {1}]

FourOps == {<<a, b, c, d>> : a \in Ops({"store"}), b \in Ops({"load", "store"}),
                             c \in Ops({"load", "store"}), d \in Ops({"load"})}
=============================================================================
