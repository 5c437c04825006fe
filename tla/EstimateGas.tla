----------------------------- MODULE EstimateGas -----------------------------
(***************************************************************************)
(* api.EstimateTxGas (api/transact.go): the gas and the fee, in neu, that *)
(* a transaction template is expected to cost, rounded up to the base     *)
(* rate.  The template comes from the client's JSON request.               *)
(*                                                                         *)
(* Go's int64 arithmetic is modelled as W-bit two's complement: every     *)
(* +, - and * of the code wraps, except the one product the code checks   *)
(* with checked.MulInt64.  The float64 division and math.Ceil are exact   *)
(* for the magnitudes below 2^53, which covers every W TLC can evaluate.  *)
(*                                                                         *)
(* A call is one step from a template to a response, so that TLC checks  *)
(* the response of every template of a small set against a reference     *)
(* computed in unbounded integers.                                         *)
(***************************************************************************)
EXTENDS Integers, Sequences, SequencesExt

CONSTANTS
    W,               \* width of the integers (64 in the code)
    StorageGasRate,  \* consensus.StorageGasRate
    VMGasRate,       \* consensus.VMGasRate
    Templates        \* the templates a client may send

VARIABLES tmpl, resp

vars == <<tmpl, resp>>

IntMin == -(2^(W-1))
IntMax == 2^(W-1) - 1
Int64 == IntMin..IntMax

\* The result of a W-bit signed operation whose exact value is x.
Wrap(x) == ((x - IntMin) % 2^W) + IntMin

\* checked.MulInt64: the product, and whether it fits.
MulChecked(a, b) == [v |-> a * b, ok |-> a * b \in Int64]

DefaultBaseRate == 100000
FlexibleGas == 1800
BaseWitnessSize == 300
BaseP2WPKHGas == 1419
BaseP2WSHGas == 738

\* The witness components that carry keys and a quorum.
Signs(w) == w.kind \in {"SignatureWitness", "RawTxSigWitness"}

\* estimateSignSize: quorum * 300 for every signing witness.
EstimateSignSize(sis) ==
    LET perWitness(a, w) == IF Signs(w) THEN Wrap(a + Wrap(w.quorum * BaseWitnessSize))
                            ELSE a
        perInst(a, si) == FoldLeft(perWitness, a, si)
    IN FoldLeft(perInst, 0, sis)

\* estimateP2WSHGas: 738 + (984 * keys - 72 * quorum - 63) per witness.
EstimateP2WSHGas(si) ==
    LET cost(w) == Wrap(BaseP2WSHGas
                        + Wrap(Wrap(Wrap(984 * w.keys) - Wrap(72 * w.quorum)) - 63))
        add(a, w) == IF Signs(w) THEN Wrap(a + cost(w)) ELSE a
    IN FoldLeft(add, 0, si)

\* An input loop that gives up on an input whose spend cannot be found.
VMGasMutantFailOnSpend(t) ==
    LET step(acc, pos) ==
          LET in == t.inputs[pos] IN
          CASE acc.fail # "none" -> acc
            [] ~in.spend -> [acc EXCEPT !.fail = "spend"]
            [] ~in.output -> acc
            [] in.script = "p2wpkh" -> [acc EXCEPT !.pk = Wrap(@ + BaseP2WPKHGas)]
            [] in.script = "p2wsh" /\ pos > Len(t.sigInsts) -> [acc EXCEPT !.fail = "panic"]
            [] in.script = "p2wsh" ->
                  [acc EXCEPT !.sh = Wrap(@ + EstimateP2WSHGas(t.sigInsts[pos]))]
            [] OTHER -> acc
    IN FoldLeftDomain(step, [pk |-> 0, sh |-> 0, fail |-> "none"], t.inputs)

(***************************************************************************)
(* The input loop: an input whose spend or spent output cannot be found   *)
(* is skipped; a P2WPKH input costs 1419; a P2WSH input costs the        *)
(* estimate of the signing instruction at the same position, and indexing *)
(* past the last instruction panics (index out of range).                  *)
(***************************************************************************)
VMGas(t) ==
    LET step(acc, pos) ==
          LET in == t.inputs[pos] IN
          CASE acc.fail # "none" -> acc
            [] ~in.spend \/ ~in.output -> acc
            [] in.script = "p2wpkh" -> [acc EXCEPT !.pk = Wrap(@ + BaseP2WPKHGas)]
            [] in.script = "p2wsh" /\ pos > Len(t.sigInsts) -> [acc EXCEPT !.fail = "panic"]
            [] in.script = "p2wsh" ->
                  [acc EXCEPT !.sh = Wrap(@ + EstimateP2WSHGas(t.sigInsts[pos]))]
            [] OTHER -> acc
    IN FoldLeftDomain(step, [pk |-> 0, sh |-> 0, fail |-> "none"], t.inputs)

\* Converting the float quotient with int64() truncates towards zero.
CeilDivMutantTrunc(x, d) ==
    IF x >= 0 THEN x \div d ELSE -((-x) \div d)

\* math.Ceil(float64(x) / d) for an integer x.
CeilDiv(x, d) ==
    IF x >= 0 THEN (x + d - 1) \div d ELSE -((-x) \div d)

(***************************************************************************)
(* EstimateTxGas: the template's size plus the signature estimate, times  *)
(* the storage rate (checked), plus the VM estimate and the flexible gas; *)
(* the fee is that total times the VM rate, rounded up to the base rate. *)
(***************************************************************************)
EstimateTxGas(t) ==
    IF t.marshalErr THEN [err |-> "MarshalText"]
    ELSE
    LET storage == MulChecked(Wrap(t.baseTxSize + EstimateSignSize(t.sigInsts)),
                              StorageGasRate)
        vm == VMGas(t)
        totalGas == Wrap(Wrap(Wrap(storage.v + vm.pk) + vm.sh) + FlexibleGas)
        estimate == Wrap(CeilDiv(Wrap(totalGas * VMGasRate), DefaultBaseRate)
                         * DefaultBaseRate)
    IN CASE ~storage.ok -> [err |-> "math"]
         [] vm.fail # "none" -> [err |-> vm.fail]
         [] OTHER ->
              [err |-> "none",
               TotalNeu |-> estimate,
               StorageNeu |-> Wrap(storage.v * VMGasRate),
               VMNeu |-> Wrap(Wrap(vm.pk + vm.sh) * VMGasRate)]

Init == tmpl \in Templates /\ resp = [err |-> "pending"]

\* The handler estimateTxGas calls EstimateTxGas on the request's template.
Estimate ==
    /\ resp.err = "pending"
    /\ resp' = EstimateTxGas(tmpl)
    /\ UNCHANGED tmpl

Spec == Init /\ [][Estimate]_vars

-----------------------------------------------------------------------------
(* The reference: the same estimate in unbounded integers, written as sums *)
(* over the template rather than as the code's loops.                      *)

RefSum(f) == LET s[i \in 0..Len(f)] == IF i = 0 THEN 0 ELSE s[i-1] + f[i]
             IN s[Len(f)]

RefSignSize(t) ==
    RefSum([i \in 1..Len(t.sigInsts) |->
              RefSum([j \in 1..Len(t.sigInsts[i]) |->
                        IF Signs(t.sigInsts[i][j])
                        THEN t.sigInsts[i][j].quorum * BaseWitnessSize ELSE 0])])

RefP2WSH(si) ==
    RefSum([j \in 1..Len(si) |->
              IF Signs(si[j]) THEN 675 + 984 * si[j].keys - 72 * si[j].quorum ELSE 0])

\* Gas of the inputs the loop counts.
RefVMGas(t) ==
    RefSum([i \in 1..Len(t.inputs) |->
              LET in == t.inputs[i] IN
              IF ~(in.spend /\ in.output) THEN 0
              ELSE IF in.script = "p2wpkh" THEN BaseP2WPKHGas
              ELSE IF in.script = "p2wsh" THEN RefP2WSH(t.sigInsts[i])
              ELSE 0])

\* The least multiple of the base rate that is not below x.
RefRoundUp(x) ==
    LET q == x \div DefaultBaseRate
        ms == {k * DefaultBaseRate : k \in q - 1..q + 1}
    IN CHOOSE m \in ms : m >= x /\ \A n \in ms : n >= x => m <= n

RefFee(t) ==
    RefRoundUp(((t.baseTxSize + RefSignSize(t)) * StorageGasRate
                + RefVMGas(t) + FlexibleGas) * VMGasRate)

-----------------------------------------------------------------------------
(* Properties *)

\* EstimateTxGas fails only on a template it cannot marshal, on the checked
\* storage product, or by panicking on an input it cannot index.
TypeOK ==
    /\ tmpl \in Templates
    /\ resp \in [err : {"pending", "MarshalText", "math", "panic"}]
                \cup [err : {"none"}, TotalNeu : Int64, StorageNeu : Int64,
                      VMNeu : Int64]

\* A successful estimate is the template's exact cost rounded up to the
\* base rate, and its storage and VM parts are the exact costs: no
\* intermediate sum or product of the code has wrapped unnoticed, and the
\* rounding neither drops nor adds a base unit.
EstimateIsRoundedCost ==
    resp.err = "none" =>
        /\ resp.TotalNeu = RefFee(tmpl)
        /\ resp.StorageNeu
              = (tmpl.baseTxSize + RefSignSize(tmpl)) * StorageGasRate * VMGasRate
        /\ resp.VMNeu = RefVMGas(tmpl) * VMGasRate

\* The handler estimateTxGas answers every request: an error of
\* EstimateTxGas becomes an error response, anything else a success
\* response; no request ends in a panic that escapes the handler.
EstimateHandlerResponds == resp.err # "panic"
=============================================================================
