---------------------------- MODULE MC_EstimateGas ----------------------------
(* Templates built from a few witness components and inputs: signing      *)
(* instructions with zero, one or two signing witnesses, inputs that are *)
(* P2WPKH, P2WSH or other, with a missing spend or spent output, and     *)
(* P2WSH inputs at positions with and without a signing instruction.    *)
EXTENDS EstimateGas

Sig(q, k) == [kind |-> "SignatureWitness", quorum |-> q, keys |-> k]
Raw(q, k) == [kind |-> "RawTxSigWitness", quorum |-> q, keys |-> k]
Other == [kind |-> "DataWitness", quorum |-> 0, keys |-> 0]

MCSigInsts == {<<>>, <<<<Sig(1, 1)>>>>, <<<<Raw(2, 3), Other>>>>,
               <<<<Sig(1, 1)>>, <<Sig(2, 2)>>>>}

MCInputs == [spend : BOOLEAN, output : BOOLEAN,
             script : {"p2wpkh", "p2wsh", "other"}]

\* Ordinary templates: a few hundred bytes and at most two inputs.
MCTemplates ==
    [marshalErr : BOOLEAN, baseTxSize : {250, 600}, sigInsts : MCSigInsts,
     inputs : {<<>>} \cup {<<i>> : i \in MCInputs}
              \cup {<<i, j>> : i, j \in {[spend |-> TRUE, output |-> TRUE,
                                          script |-> s] : s \in {"p2wpkh", "p2wsh"}}}]

\* Templates whose quorum is large: the client controls it.
MCLargeTemplates ==
    [marshalErr : {FALSE}, baseTxSize : {250}, sigInsts : {<<<<Sig(q, q)>>>> : q \in {3, 30}},
     inputs : {<<[spend |-> TRUE, output |-> TRUE, script |-> "p2wsh"]>>}]
=============================================================================
