----------------------------- MODULE MC_Stratum -----------------------------
(* Two branches off genesis g: g <- a1 <- a2 and g <- b1, so the node can *)
(* move up its branch or switch from b1 to the higher a2, and a pulled    *)
(* template can share or differ in height with the served one.           *)
EXTENDS Stratum

CONSTANTS g, a1, a2, b1

MCBlocks == {a1, a2, b1}
MCParent == [blk \in MCBlocks |->
               IF blk = a2 THEN a1 ELSE g]
=============================================================================
