------------------------------ MODULE MC_Chain ------------------------------
(* Model of the chain: genesis g, a branch g <- a1 <- a2, a competing      *)
(* block b1 at the height of a1 (kept but never promoted when second, and  *)
(* overtaken by a2 when first), and an invalid block x1 on b1.             *)
EXTENDS Chain

CONSTANTS g, a1, a2, b1, x1

MCBlocks == {a1, a2, b1, x1}
MCParent == [blk \in MCBlocks |->
               CASE blk = a1 -> g [] blk = a2 -> a1 [] blk = b1 -> g
                 [] blk = x1 -> b1]
MCInvalid == {x1}
MCWaiters == {"w1", "w2"}
MCTarget == [w \in MCWaiters |-> IF w = "w1" THEN 1 ELSE 2]
=============================================================================
