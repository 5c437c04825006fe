--------------------------------- MODULE VM ---------------------------------
(***************************************************************************)
(* The verification engine of protocol/vm/vm.go: Verify pushes the        *)
(* initial arguments, runs the program one step at a time, and checks the  *)
(* top of the data stack.  Every push and pop of a byte string costs       *)
(* 8 + len; a handler's pushes and pops may be deferred and settled by one *)
(* applyCost after the handler; applyCost clamps the budget to 0 when it   *)
(* cannot pay.                                                             *)
(*                                                                         *)
(* One Verify call is one behaviour: its context is chosen in Init, each   *)
(* initial push and each step is an action.  The byte strings are a small  *)
(* set of sequences of bytes, and the program is a sequence of decoded     *)
(* instructions (pc counts instructions, not bytes).  The opcode handlers  *)
(* live in ops.go, outside this repository; the ones used here are         *)
(* modelled from spec.md 4.1: a data push, EQUAL, DROP, FAIL, an expansion *)
(* NOP, a handler that panics, and an undecodable instruction.            *)
(***************************************************************************)
EXTENDS Integers, Sequences

CONSTANTS
    Contexts   \* the Verify calls: [vmVersion, txVersion, code, args, gasLimit]

\* The vm fields that change while it runs.  flat is a ghost: the budget
\* charged by handlers apart from stack costs.
VARIABLES
    ctx,      \* the Context and gas limit of this call
    status,   \* "args" (pushing initial arguments), "run", "done"
    argi,     \* index of the next initial argument
    pc,       \* vm.pc, as an instruction index
    vm,       \* [runLimit, deferredCost, dataStack, flat]
    gasLeft,  \* Verify's first result
    err       \* Verify's second result

vars == <<ctx, status, argi, pc, vm, gasLeft, err>>

Ok == "none"

\* AsBool: a byte string is true iff some byte is non-zero.
AsBool(b) == \E i \in 1..Len(b) : b[i] # 0

\* BoolBytes.
BoolBytes(t) == IF t THEN <<1>> ELSE <<>>

ItemCost(d) == 8 + Len(d)

\* stackCost: what a stack of items has cost to push.
RECURSIVE StackCost(_)
StackCost(s) == IF s = <<>> THEN 0 ELSE ItemCost(Head(s)) + StackCost(Tail(s))

-----------------------------------------------------------------------------
(* The vm's helpers, each returning the new vm and an error.               *)

\* An applyCost that fails without clamping the budget.
ApplyCostMutantNoClamp(v, n) ==
    IF n > v.runLimit
    THEN [vm |-> [v EXCEPT !.runLimit = @ - n], err |-> "RunLimitExceeded"]
    ELSE [vm |-> [v EXCEPT !.runLimit = @ - n], err |-> Ok]

\* applyCost(n): a positive cost decreases runLimit, a negative one
\* increases it; a cost above the budget zeroes it and fails.
ApplyCost(v, n) ==
    IF n > v.runLimit
    THEN [vm |-> [v EXCEPT !.runLimit = 0], err |-> "RunLimitExceeded"]
    ELSE [vm |-> [v EXCEPT !.runLimit = @ - n], err |-> Ok]

\* A flat charge made by a handler (tracked in the ghost field).
Charge(v, n) ==
    LET r == ApplyCost(v, n)
    IN IF r.err = Ok THEN [r EXCEPT !.vm.flat = @ + n] ELSE r

\* push(data, deferred).
Push(v, d, deferred) ==
    IF deferred
    THEN [vm |-> [v EXCEPT !.deferredCost = @ + ItemCost(d),
                           !.dataStack = Append(@, d)],
          err |-> Ok]
    ELSE LET r == ApplyCost(v, ItemCost(d))
         IN IF r.err # Ok THEN r
            ELSE [vm |-> [r.vm EXCEPT !.dataStack = Append(@, d)], err |-> Ok]

\* pop(deferred): the popped item's cost is refunded, now or deferred.
PopMutantDoubleRefund(v, deferred) ==
    IF v.dataStack = <<>>
    THEN [vm |-> v, err |-> "DataStackUnderflow", val |-> <<>>]
    ELSE LET res == v.dataStack[Len(v.dataStack)]
             rest == SubSeq(v.dataStack, 1, Len(v.dataStack) - 1)
         IN [vm |-> IF deferred
                    THEN [v EXCEPT !.dataStack = rest,
                                   !.deferredCost = @ - ItemCost(res),
                                   !.runLimit = @ + ItemCost(res)]
                    ELSE [v EXCEPT !.dataStack = rest,
                                   !.runLimit = @ + ItemCost(res)],
             err |-> Ok, val |-> res]
Pop(v, deferred) ==
    IF v.dataStack = <<>>
    THEN [vm |-> v, err |-> "DataStackUnderflow", val |-> <<>>]
    ELSE LET res == v.dataStack[Len(v.dataStack)]
             rest == SubSeq(v.dataStack, 1, Len(v.dataStack) - 1)
         IN [vm |-> IF deferred
                    THEN [v EXCEPT !.dataStack = rest,
                                   !.deferredCost = @ - ItemCost(res)]
                    ELSE [v EXCEPT !.dataStack = rest,
                                   !.runLimit = @ + ItemCost(res)],
             err |-> Ok, val |-> res]

-----------------------------------------------------------------------------
(* Opcode handlers (ops.go, modelled from spec.md).  A handler returns     *)
(* the new vm and an error, or err = "panic" when it traps.               *)

\* PUSHDATA: push the instruction's data, charged at once.
OpPushdata(v, d) == Push(v, d, FALSE)

\* EQUAL: one unit, pop two (deferred), push whether they are equal
\* (deferred).
OpEqual(v) ==
    LET r0 == Charge(v, 1)
        r1 == Pop(r0.vm, TRUE)
        r2 == Pop(r1.vm, TRUE)
    IN IF r0.err # Ok THEN r0
       ELSE IF r1.err # Ok THEN [vm |-> r1.vm, err |-> r1.err]
       ELSE IF r2.err # Ok THEN [vm |-> r2.vm, err |-> r2.err]
       ELSE Push(r2.vm, BoolBytes(r1.val = r2.val), TRUE)

\* DROP: one unit, pop one (refunded at once).
OpDrop(v) ==
    LET r0 == Charge(v, 1)
        r1 == Pop(r0.vm, FALSE)
    IN IF r0.err # Ok THEN r0 ELSE [vm |-> r1.vm, err |-> r1.err]

\* FAIL: one unit, then ErrReturn.
OpFail(v) ==
    LET r0 == Charge(v, 1)
    IN IF r0.err # Ok THEN r0 ELSE [vm |-> r0.vm, err |-> "Return"]

Handler(inst, v) ==
    CASE inst.op = "DATA"  -> OpPushdata(v, inst.data)
      [] inst.op = "EQUAL" -> OpEqual(v)
      [] inst.op = "DROP"  -> OpDrop(v)
      [] inst.op = "FAIL"  -> OpFail(v)
      [] inst.op = "TRAP"  -> [vm |-> v, err |-> "panic"]

IsExpansion(inst) == inst.op = "NOPX"

\* expansionReserved: context.TxVersion != nil && *context.TxVersion == 1
\* (a nil TxVersion is 0 here).
ExpansionReserved == ctx.txVersion = 1

-----------------------------------------------------------------------------
(* Verify.                                                                 *)

\* Verify's deferred recover: a panic becomes ErrUnexpected, and the named
\* result gasLeft, never assigned on that path, stays 0.
Recovered == [gas |-> 0, err |-> "Unexpected"]

Finish(g, e) ==
    /\ status' = "done"
    /\ gasLeft' = g
    /\ err' = e

\* The version check, before any vm exists: the whole limit comes back.
RejectVersion ==
    /\ status = "args"
    /\ ctx.vmVersion # 1
    /\ Finish(ctx.gasLimit, "UnsupportedVM")
    /\ UNCHANGED <<ctx, argi, pc, vm>>

\* Pushing initial argument argi, charged at once.
PushArg ==
    /\ status = "args"
    /\ ctx.vmVersion = 1
    /\ argi <= Len(ctx.args)
    /\ LET r == Push(vm, ctx.args[argi], FALSE) IN
          /\ vm' = r.vm
          /\ argi' = argi + 1
          /\ IF r.err = Ok THEN UNCHANGED <<status, gasLeft, err>>
             ELSE Finish(r.vm.runLimit, r.err)
    /\ UNCHANGED <<ctx, pc>>

\* All arguments pushed: run() starts at pc 0.
StartRun ==
    /\ status = "args"
    /\ ctx.vmVersion = 1
    /\ argi > Len(ctx.args)
    /\ status' = "run"
    /\ pc' = 1
    /\ UNCHANGED <<ctx, argi, vm, gasLeft, err>>

\* falseResult: the stack is empty or its top is false.
FalseResult(v) ==
    v.dataStack = <<>> \/ ~AsBool(v.dataStack[Len(v.dataStack)])

\* run() returns nil at the end of the program; Verify then checks the
\* result and returns vm.runLimit.
EndRun ==
    /\ status = "run"
    /\ pc > Len(ctx.code)
    /\ Finish(vm.runLimit, IF FalseResult(vm) THEN "FalseVMResult" ELSE Ok)
    /\ UNCHANGED <<ctx, argi, pc, vm>>

\* step() on an expansion opcode: rejected when reserved, otherwise the pc
\* moves on and one unit is charged.
StepExpansion ==
    /\ status = "run"
    /\ pc <= Len(ctx.code)
    /\ IsExpansion(ctx.code[pc])
    /\ IF ExpansionReserved
       THEN /\ Finish(vm.runLimit, "DisallowedOpcode")
            /\ UNCHANGED <<pc, vm>>
       ELSE LET r == Charge(vm, 1) IN
            /\ pc' = pc + 1
            /\ vm' = r.vm
            /\ IF r.err = Ok THEN UNCHANGED <<status, gasLeft, err>>
               ELSE Finish(r.vm.runLimit, r.err)
    /\ UNCHANGED <<ctx, argi>>

\* step() on an instruction ParseOp cannot decode.
StepBadOp ==
    /\ status = "run"
    /\ pc <= Len(ctx.code)
    /\ ctx.code[pc].op = "BAD"
    /\ Finish(vm.runLimit, "ShortProgram")
    /\ UNCHANGED <<ctx, argi, pc, vm>>

\* step() on any other opcode: deferredCost := 0, run the handler, settle
\* the deferred cost, and only then advance the pc.  A panic in the handler
\* unwinds to Verify's recover.
StepOp ==
    /\ status = "run"
    /\ pc <= Len(ctx.code)
    /\ ctx.code[pc].op \notin {"NOPX", "BAD"}
    /\ LET h == Handler(ctx.code[pc], [vm EXCEPT !.deferredCost = 0])
           s == ApplyCost(h.vm, h.vm.deferredCost)
       IN CASE h.err = "panic" ->
                 /\ Finish(Recovered.gas, Recovered.err)
                 /\ UNCHANGED <<pc, vm>>
            [] h.err # Ok ->
                 /\ vm' = h.vm
                 /\ Finish(h.vm.runLimit, h.err)
                 /\ UNCHANGED pc
            [] s.err # Ok ->
                 /\ vm' = s.vm
                 /\ Finish(s.vm.runLimit, s.err)
                 /\ UNCHANGED pc
            [] OTHER ->
                 /\ vm' = s.vm
                 /\ pc' = pc + 1
                 /\ UNCHANGED <<status, gasLeft, err>>
    /\ UNCHANGED <<ctx, argi>>

Init ==
    /\ ctx \in Contexts
    /\ status = "args"
    /\ argi = 1
    /\ pc = 0
    /\ vm = [runLimit |-> ctx.gasLimit, deferredCost |-> 0,
             dataStack |-> <<>>, flat |-> 0]
    /\ gasLeft = 0
    /\ err = Ok

Next ==
    \/ RejectVersion \/ PushArg \/ StartRun \/ EndRun
    \/ StepExpansion \/ StepBadOp \/ StepOp

\* Verify runs to completion on the calling goroutine.
Spec == Init /\ [][Next]_vars /\ WF_vars(Next)

-----------------------------------------------------------------------------
(* Properties.                                                             *)

TypeOK ==
    /\ status \in {"args", "run", "done"}
    /\ argi \in 1..Len(ctx.args) + 1
    /\ pc \in 0..Len(ctx.code) + 1
    /\ vm.runLimit \in Nat
    /\ vm.flat \in Nat
    /\ vm.dataStack \in Seq(Seq(0..255))

(***************************************************************************)
(* The engine's contract: Verify implements VerifySpec, with a call that  *)
(* has not returned mapped to "running" and nothing reported yet.  This   *)
(* covers the results of every path through Verify (the version check,    *)
(* every error of push, pop, applyCost, step and the handlers, the final  *)
(* result check) and that every call returns.                             *)
(***************************************************************************)
Contract == INSTANCE VerifySpec
    WITH status <- IF status = "done" THEN "done" ELSE "running"

VerifyRefined == Contract!Spec

\* Gas is conserved by push, pop, deferred settlement and flat charges: at
\* every step boundary, and in what a successful or false-result Verify
\* reports, the budget left is the limit minus the cost of the items on
\* the stack minus the handlers' flat charges.
GasConservation ==
    (status # "done" \/ err \in {Ok, "FalseVMResult"}) =>
        /\ vm.runLimit + StackCost(vm.dataStack) + vm.flat = ctx.gasLimit
        /\ status = "done" => gasLeft = vm.runLimit

\* spec.md 4.1: a panic during execution is reported as an "unexpected"
\* error that still carries the gas left at that point.
UnexpectedReportsGasLeft ==
    err = "Unexpected" => gasLeft = vm.runLimit
=============================================================================
