--------------------------- MODULE MCHerdrManager ---------------------------
(* Instances of HerdrManager: what the callers do.                         *)
EXTENDS HerdrManager

CONSTANTS w1, w2

AllOps == [w \in Callers |-> OpKinds]
(* w1 runs commands while w2 rearranges the session.                       *)
SplitOps == [w \in Callers |-> IF w = w1 THEN {"run", "send"}
                               ELSE {"closeWorkspace", "createWorkspace", "cleanup"}]
=============================================================================
