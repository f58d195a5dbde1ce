----------------------------- MODULE Admission ------------------------------
(***************************************************************************)
(* How eth_sendRawTransaction decides, before it looks at any coin, what   *)
(* fee rate a mint pays and whether it is made at all: gas_price is the    *)
(* fee rate, 0 stands for the mempool's, ten times the mempool's is too    *)
(* much, and gas_limit sets the size.  eth_gasPrice is what a client asks  *)
(* for a price first.                                                      *)
(*                                                                         *)
(* Each look at mempool.space is a request of its own, repeated when it    *)
(* fails (MintServer has the retries), and its rate moves in between.      *)
(* Rates are in tenths of sat/vB (f64 in the code), prices in sat/vB.      *)
(***************************************************************************)
EXTENDS Inscription

CONSTANTS
    Rates,      \* what mempool.space may recommend, in tenths of sat/vB
    Prices,     \* gas prices clients choose for themselves
    GasLimits,
    Texts,      \* unpadded lengths, or Undecodable
    Limits      \* values of max_inscription_bytes

ASSUME RatesAssumption == Rates \subseteq Nat \ {0}
ASSUME InputAssumption == /\ Prices \subseteq Nat
                          /\ GasLimits \subseteq 0..Largest
                          /\ Texts \subseteq Nat \cup {Undecodable}
                          /\ Limits \subseteq (0..Largest) \ {0}

VARIABLES
    pc,        \* where the client and its one transaction are
    max,       \* ServerState.max_inscription_bytes
    mempool,   \* the rate mempool.space recommends now
    quote,     \* eth_gasPrice's answer
    seen,      \* the rate when the server last named a price: no code
    tx,        \* the transaction sent
    feeRate,   \* mint's fee_rate, in tenths
    outcome    \* mint's fate: None, refused, or to be minted with a size

vars == <<pc, max, mempool, quote, seen, tx, feeRate, outcome>>

None    == [kind |-> "none"]
TooHigh == [kind |-> "too high"]

TypeOK ==
    /\ pc \in {"idle", "asked", "price", "check", "convert", "done"}
    /\ max \in Limits /\ mempool \in Rates
    /\ quote \in Nat /\ seen \in Rates
    /\ tx \in [price : Nat, gas : GasLimits, text : Texts]
    /\ feeRate \in Nat
    /\ outcome \in {None, TooHigh, Err} \cup {Padded(n) : n \in 1..max}

Init ==
    /\ pc = "idle"
    /\ max \in Limits
    /\ mempool \in Rates
    /\ quote = 0 /\ seen = mempool
    /\ tx \in [price : {0}, gas : GasLimits, text : Texts]
    /\ feeRate = 0
    /\ outcome = None

\* fee_rate.round(), and 1 for 0.
RoundedRate(rate) ==
    LET rounded == (rate + 5) \div 10
    IN  IF rounded = 0 THEN 1 ELSE rounded

MempoolMoves ==
    /\ pc # "done"
    /\ mempool' \in Rates \ {mempool}
    /\ UNCHANGED <<pc, max, quote, seen, tx, feeRate, outcome>>

\* eth_gasPrice
GetFeeRate ==
    /\ pc = "idle"
    /\ pc' = "asked"
    /\ quote' = RoundedRate(mempool) /\ seen' = mempool
    /\ UNCHANGED <<max, mempool, tx, feeRate, outcome>>

\* The client sends a price of its own, or the one it was told.
Send(price) ==
    /\ \/ pc = "idle" /\ price \in Prices
       \/ pc = "asked" /\ price = quote
    /\ pc' = "price"
    /\ tx' = [tx EXCEPT !.price = price]
    /\ UNCHANGED <<max, mempool, quote, seen, feeRate, outcome>>

KeepPrice ==
    /\ pc = "price" /\ tx.price >= 1
    /\ pc' = "check"
    /\ feeRate' = 10 * tx.price
    /\ UNCHANGED <<max, mempool, quote, seen, tx, outcome>>

\* fee_rate < 1.0: get_mempool_fee_rate.
ReplacePrice ==
    /\ pc = "price" /\ tx.price < 1
    /\ pc' = "check"
    /\ feeRate' = mempool /\ seen' = mempool
    /\ UNCHANGED <<max, mempool, quote, tx, outcome>>

\* Variant of CheckFeeRateWarning: without the factor.
CheckAgainstMempool ==
    /\ pc = "check"
    /\ IF feeRate > mempool
          THEN pc' = "done" /\ outcome' = TooHigh
          ELSE pc' = "convert" /\ UNCHANGED outcome
    /\ UNCHANGED <<max, mempool, quote, seen, tx, feeRate>>

\* check_fee_rate_warning, with another look at the mempool.
CheckFeeRateWarning ==
    /\ pc = "check"
    /\ IF feeRate > mempool * 10
          THEN pc' = "done" /\ outcome' = TooHigh
          ELSE pc' = "convert" /\ UNCHANGED outcome
    /\ UNCHANGED <<max, mempool, quote, seen, tx, feeRate>>

ConvertToInscription ==
    /\ pc = "convert"
    /\ pc' = "done"
    /\ outcome' = Convert(tx.text, tx.gas, max)
    /\ UNCHANGED <<max, mempool, quote, seen, tx, feeRate>>

Terminating == pc = "done" /\ UNCHANGED vars

Next ==
    \/ MempoolMoves \/ GetFeeRate \/ \E price \in Prices \cup {quote} : Send(price)
    \/ KeepPrice \/ ReplacePrice \/ CheckFeeRateWarning \/ ConvertToInscription
    \/ Terminating

Spec == Init /\ [][Next]_vars

-----------------------------------------------------------------------------
(* Properties.                                                             *)

\* An inscription that is minted holds its transaction, is within
\* MAX_INSCRIPTION_BYTES, pays for more than the gas limit, and is padded no
\* further than that, whatever the gas limit's remainder.
MintedFits ==
    outcome.kind = "ok" => Fits(outcome.size, tx.text, tx.gas, max)

\* An inscription is refused only if none would be right: at every size within
\* the limit the text does not fit, or the gas limit is not paid for.
RefusalIsNecessary ==
    (outcome = Err /\ tx.text # Undecodable) =>
        \A n \in 0..max : ~ Fits(n, tx.text, tx.gas, max)

\* A price the server itself named, as the answer of eth_gasPrice or as the
\* mempool's rate in place of 0, is refused as too high only if the mempool's
\* rate has fallen since: eth_gasPrice rounds, up to ten times at the lowest
\* rate, and the check's factor leaves room for that.
OwnPriceIsAccepted ==
    (outcome = TooHigh /\ tx.price \in {0, quote}) => mempool < seen
=============================================================================
