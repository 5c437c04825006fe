------------------------------ MODULE VerifySpec -----------------------------
(***************************************************************************)
(* What a Verify call promises its caller (spec.md 4.1, 6 and 7), without *)
(* the stack, the program counter or the costs of single steps: one call  *)
(* returns exactly once (the gas budget guarantees termination), with a   *)
(* typed error and a remaining gas between 0 and the limit.  An           *)
(* unsupported VM version is rejected free of charge, running out of gas  *)
(* leaves exactly 0, a disallowed opcode is only reported when expansion   *)
(* opcodes are reserved, and success is never free: a true result was      *)
(* pushed, and pushes cost gas.  VM.tla implements it (MC_VM.cfg).         *)
(***************************************************************************)
EXTENDS Integers

CONSTANTS Contexts   \* the Verify calls: [vmVersion, txVersion, code, args, gasLimit]

VARIABLES
    ctx,      \* the call
    status,   \* "running" or "done"
    gasLeft,  \* the remaining gas returned
    err       \* the error returned

vars == <<ctx, status, gasLeft, err>>

Ok == "none"

\* The typed failures of spec.md 4.1 (Return is the FAIL opcode's error).
Failures == {"DataStackUnderflow", "RunLimitExceeded", "FalseVMResult",
             "ShortProgram", "Return", "Unexpected"}

\* What a call with context c may return.
Outcomes(c) ==
    IF c.vmVersion # 1
    THEN {[gas |-> c.gasLimit, err |-> "UnsupportedVM"]}
    ELSE {o \in [gas : 0..c.gasLimit, err : Failures] :
             o.err = "RunLimitExceeded" => o.gas = 0}
         \cup [gas : 0..c.gasLimit - 1, err : {Ok}]
         \cup (IF c.txVersion = 1
               THEN [gas : 0..c.gasLimit, err : {"DisallowedOpcode"}]
               ELSE {})

Init ==
    /\ ctx \in Contexts
    /\ status = "running"
    /\ gasLeft = 0
    /\ err = Ok

\* The call returns.
Return ==
    /\ status = "running"
    /\ status' = "done"
    /\ \E o \in Outcomes(ctx) : gasLeft' = o.gas /\ err' = o.err
    /\ UNCHANGED ctx

Spec == Init /\ [][Return]_vars /\ WF_vars(Return)
=============================================================================
