---------------------------- MODULE MC_TxValidate ----------------------------
(* A chain g <- a1 <- a2 with a rival b1 at the height of a1, and three    *)
(* transactions: t1 valid, t2 gas-valid but failing a rule, t3 with       *)
(* invalid gas.                                                            *)
EXTENDS TxValidate

CONSTANTS g, a1, a2, b1, t1, t2, t3

MCBlocks == {a1, a2, b1}
MCParent == [blk \in MCBlocks |->
               CASE blk \in {a1, b1} -> g [] blk = a2 -> a1]
=============================================================================
