-------------------------------- MODULE MC_VM --------------------------------
(* Verify calls: every program of up to three instructions over a data    *)
(* push of <<1>> or <<>>, EQUAL, DROP, FAIL, an expansion NOP, a panicking *)
(* handler and an undecodable instruction; zero or one initial argument;  *)
(* gas limits around the cost of one and two pushes; expansion reserved or *)
(* not; and a few calls with an unsupported VM version.                   *)
EXTENDS VM

MCData == {<<>>, <<1>>}
MCInsts == {[op |-> "DATA", data |-> d] : d \in MCData}
           \cup {[op |-> o, data |-> <<>>] :
                   o \in {"EQUAL", "DROP", "FAIL", "NOPX", "TRAP", "BAD"}}
MCPrograms == UNION {[1..n -> MCInsts] : n \in 0..3}
MCArgs == {<<>>} \cup {<<d>> : d \in MCData}
MCGas == {8, 17, 26, 40}
MCContexts ==
    [vmVersion : {1}, txVersion : {0, 1}, code : MCPrograms,
     args : MCArgs, gasLimit : MCGas]
    \cup [vmVersion : {2}, txVersion : {1}, code : {<<>>},
          args : MCArgs, gasLimit : MCGas]
==============================================================================
