------------------------------ MODULE MintTxes ------------------------------
(***************************************************************************)
(* construct_mint_txes: the amounts of the commit, the reveal and the burn *)
(* and the coins the commit spends, for one mint.  build_transaction's     *)
(* loop adds the largest coin left until the inputs cover the target and a *)
(* fee that every input raises.  All coins are the sender's, P2WPKH.       *)
(*                                                                         *)
(* Sizes are those of rust-bitcoin, in weight units, with the 72 bytes the *)
(* code reserves for a signature; fee rates are exact, in tenths of sat/vB *)
(* (f64 in the code).                                                      *)
(***************************************************************************)
EXTENDS Integers, FiniteSets, FiniteSetsExt

CONSTANTS
    Coins,    \* what the explorer shows, or estimate's dummy coin
    Values,   \* what a coin may be worth, in sat
    Rates,    \* fee rates in tenths of sat/vB
    Lengths   \* of the inscription, in bytes

ASSUME CoinsAssumption == IsFiniteSet(Coins)
ASSUME DataAssumption  == /\ Values \subseteq Nat
                          /\ Rates \subseteq Nat \ {0}
                          /\ Lengths \subseteq Nat \ {0}

VARIABLES
    value, rate, length,  \* the arguments
    utxos,                \* the coins not yet taken
    inputs,               \* the coins taken
    total,                \* total_input_value
    fee,                  \* of the commit with these inputs
    result                \* Ok with the change, 0 for none, or Err

args == <<value, rate, length>>
vars == <<args, utxos, inputs, total, fee, result>>

Ceil(n, d)  == (n + d - 1) \div d
VSize(w)    == Ceil(w, 4)
FeeFor(vsize) == Ceil(vsize * rate, 10)

DUST_VALUE_P2WPKH == 294
DUST_VALUE_P2TR   == 330

\* Version, lock time, counts and the segwit marker; an input with the
\* witness of a key; outputs to a taproot address and to the sender.
Overhead  == 42
KeyInput  == 272
TrOutput  == 172
KeyOutput == 124

CommitWeight(n, change) ==
    Overhead + n * KeyInput + TrOutput + (IF change THEN KeyOutput ELSE 0)

\* Pushes of 520 bytes and one of the rest, whose length takes 1 to 3 bytes.
Pushed(len) ==
    LET rest == len % 520
    IN  len + 3 * (len \div 520)
          + (IF rest = 0 THEN 0 ELSE IF rest <= 75 THEN 1 ELSE IF rest <= 255 THEN 2 ELSE 3)

\* build_reveal_script: key, OP_CHECKSIG, and the envelope around the data.
RevealScript(len) == 55 + Pushed(len)

RevealWeight(signature, len) ==
    LET script == RevealScript(len)
        prefix == IF script < 253 THEN 1 ELSE IF script < 65536 THEN 3 ELSE 5
    IN  Overhead + 164 + KeyOutput
          + 1 + (1 + signature) + (prefix + script) + (1 + 33)

\* build_reveal_tx: the reveal as it is signed, with 64 bytes of Schnorr
\* signature and one of its kind in the place of the 72 reserved.
SignedReveal == RevealWeight(65, length)

\* One input and an OP_RETURN of BRC20PROG.
BurnWeight == Overhead + KeyInput + 80

Postage ==
    LET sats == Ceil(100 * rate + 10, 10)
    IN  IF sats < DUST_VALUE_P2TR THEN DUST_VALUE_P2TR ELSE sats

\* total_needed, the value of the commit's output 0.
Target == Postage + FeeFor(VSize(RevealWeight(72, length)))

CalculateFee(n) == FeeFor(VSize(CommitWeight(n, FALSE)))
ChangeFee       == FeeFor(22 + 9)

TypeOK ==
    /\ value \in [Coins -> Values] /\ rate \in Rates /\ length \in Lengths
    /\ utxos \cup inputs = Coins /\ utxos \cap inputs = {}
    /\ total = MapThenSumSet(LAMBDA c : value[c], inputs)
    /\ fee = CalculateFee(Cardinality(inputs))
    /\ result.kind \in {"none", "ok", "err"} /\ result.change \in Nat

Init ==
    /\ value \in [Coins -> Values] /\ rate \in Rates /\ length \in Lengths
    /\ utxos = Coins /\ inputs = {}
    /\ total = 0 /\ fee = CalculateFee(0)
    /\ result = [kind |-> "none", change |-> 0]

Short == result.kind = "none" /\ total < Target + fee

Take(c) ==
    /\ utxos' = utxos \ {c} /\ inputs' = inputs \cup {c}
    /\ total' = total + value[c]
    /\ fee' = CalculateFee(Cardinality(inputs) + 1)
    /\ UNCHANGED <<args, result>>

\* Variant of TakeLargest: the list is sorted the other way round.
TakeSmallest ==
    /\ Short
    /\ \E c \in utxos : (\A d \in utxos : value[c] <= value[d]) /\ Take(c)

TakeLargest ==
    /\ Short
    /\ \E c \in utxos : (\A d \in utxos : value[d] <= value[c]) /\ Take(c)

InsufficientFunds ==
    /\ Short /\ utxos = {}
    /\ result' = [kind |-> "err", change |-> 0]
    /\ UNCHANGED <<args, utxos, inputs, total, fee>>

Build(change) ==
    /\ result.kind = "none" /\ total >= Target + fee
    /\ result' = [kind |-> "ok", change |-> change]
    /\ UNCHANGED <<args, utxos, inputs, total, fee>>

Excess == total - fee - Target

\* Variants of BuildTransaction: change that does not pay for itself, no
\* change at all, and change without the test against dust.
BuildWithFreeChange  == Build(IF Excess > DUST_VALUE_P2WPKH THEN Excess ELSE 0)
BuildWithoutChange   == Build(0)
BuildAlwaysWithChange == Build(Excess - ChangeFee)

BuildTransaction ==
    Build(IF Excess > DUST_VALUE_P2WPKH + ChangeFee THEN Excess - ChangeFee ELSE 0)

Terminating == result.kind # "none" /\ UNCHANGED vars

Next == TakeLargest \/ InsufficientFunds \/ BuildTransaction \/ Terminating

Spec == Init /\ [][Next]_vars

-----------------------------------------------------------------------------
Sum(coins)     == MapThenSumSet(LAMBDA c : value[c], coins)
Suffices(coins) == Sum(coins) >= Target + CalculateFee(Cardinality(coins))

\* "Insufficient funds" is true: no choice among the coins would have paid
\* for the commit, although some coins cost more to spend than they bring.
InsufficientIsTrue ==
    result.kind = "err" => \A coins \in SUBSET Coins : ~ Suffices(coins)

\* A commit spends as few coins as any that pays for itself.
FewestInputs ==
    result.kind = "ok" =>
        \A coins \in SUBSET Coins :
            Suffices(coins) => Cardinality(inputs) <= Cardinality(coins)

\* Each of the three transactions, as it is signed, pays the fee rate: the
\* commit with its change, the reveal with its Schnorr signature, and the burn
\* of the postage to an output of 1 sat.
HasChange == result.change > 0
CommitFee == total - Target - result.change
RevealFee == Target - Postage
BurnFee   == Postage - 1
EachPaysTheRate ==
    result.kind = "ok" =>
        /\ CommitFee >= FeeFor(VSize(CommitWeight(Cardinality(inputs), HasChange)))
        /\ RevealFee >= FeeFor(VSize(SignedReveal))
        /\ BurnFee >= FeeFor(VSize(BurnWeight))

\* What a commit pays beyond its rate is the rounding of its change's fee,
\* or, if it has none, not worth a change output.
NothingIsGivenAway ==
    result.kind = "ok" =>
        LET due == FeeFor(VSize(CommitWeight(Cardinality(inputs), HasChange)))
        IN  IF HasChange THEN /\ result.change > DUST_VALUE_P2WPKH
                              /\ CommitFee <= due + 1
                         ELSE CommitFee <= due + DUST_VALUE_P2WPKH + ChangeFee

\* "Insufficient funds" is no answer of eth_estimateGas, which is to say how
\* many sats a mint needs before the wallet has any: estimate selects from one
\* dummy coin (get_dummy_utxos) at 1.0 sat/vB.
EstimateAnswers == result.kind # "err"
=============================================================================
