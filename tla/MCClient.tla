------------------------------ MODULE MCClient ------------------------------
(* Instances of Client: what the callers do, and the symmetries of the runs
   that check safety only.                                                 *)
EXTENDS Client, TLC

CONSTANTS w1, w2

Every(ops) == [w \in Workers |-> ops]

(* One caller, or several that make every call.                            *)
AllOps == Every(OpKinds)
(* Calls that use the clients, next to calls that replace them.            *)
ClientOps == Every({"connect", "disconnect", "exec", "file", "forward"})

Symmetry == Permutations(Workers) \cup Permutations(Hosts)
=============================================================================
