-------------------------- MODULE Admission_proofs --------------------------
(***************************************************************************)
(* What convert_to_brc20_inscription returns for every width, transaction, *)
(* gas limit and MAX_INSCRIPTION_BYTES, and what eth_sendRawTransaction    *)
(* admits whatever the mempool's rate does meanwhile.                      *)
(***************************************************************************)
EXTENDS Admission, TLAPS

(***************************************************************************)
(* The quotient of integer division brackets its dividend.                 *)
(***************************************************************************)
LEMMA Quotient ==
    ASSUME NEW n \in Nat, NEW d \in Nat, d > 0
    PROVE  /\ n \div d \in Nat
           /\ (n \div d) * d <= n
           /\ n < (n \div d + 1) * d
  OBVIOUS

(***************************************************************************)
(* A longer inscription buys more.                                         *)
(***************************************************************************)
LEMMA BuysMore ==
    ASSUME NEW a \in Nat, NEW b \in Nat, a <= b
    PROVE  a * GasPerByte <= b * GasPerByte
<1>1. b * GasPerByte = a * GasPerByte + (b - a) * GasPerByte
  BY GasAssumption
<1>2. (b - a) * GasPerByte >= 0
  BY GasAssumption
<1>3. a * GasPerByte \in Int /\ (b - a) * GasPerByte \in Int
  BY GasAssumption
<1> QED
  BY <1>1, <1>2, <1>3

(***************************************************************************)
(* The size asked for never saturates, and it is the least that buys the   *)
(* gas: one byte less does not.                                            *)
(***************************************************************************)
LEMMA RequiredSize ==
    ASSUME NEW gas \in 0..Largest
    PROVE  /\ InscriptionBytesForGas(gas) \in Nat \ {0}
           /\ Buys(InscriptionBytesForGas(gas), gas)
           /\ (InscriptionBytesForGas(gas) - 1) * GasPerByte <= gas
<1> DEFINE q == gas \div GasPerByte
<1>1. gas \in Nat /\ gas <= Largest /\ GasPerByte \in Nat /\ GasPerByte > 1
  BY GasAssumption, LargestAssumption
<1>2. q \in Nat /\ q * GasPerByte <= gas /\ gas < (q + 1) * GasPerByte
  BY <1>1, Quotient
<1> HIDE DEF q
<1>3. q * 2 <= q * GasPerByte
  <2>1. q * GasPerByte = q * 2 + q * (GasPerByte - 2) /\ q * (GasPerByte - 2) >= 0
    BY <1>1, <1>2
  <2> QED
    BY <1>1, <1>2, <2>1
<1>4. q + 1 <= Largest
  BY <1>1, <1>2, <1>3, LargestAssumption
<1>5. InscriptionBytesForGas(gas) = q + 1
  BY <1>4, <1>2, LargestAssumption DEF InscriptionBytesForGas, SaturatingAdd, q
<1>6. (q + 1) - 1 = q
  BY <1>2
<1> QED
  BY <1>2, <1>5, <1>6 DEF Buys

(***************************************************************************)
(* An inscription that convert_to_brc20_inscription returns holds its      *)
(* text, is within the limit, pays for the gas, and is padded no further.  *)
(***************************************************************************)
THEOREM ConvertedFits ==
    ASSUME NEW text \in Nat \cup {Undecodable}, NEW gas \in 0..Largest,
           NEW limit \in 0..Largest,
           Convert(text, gas, limit) # Err
    PROVE  \E n \in 1..limit : /\ Convert(text, gas, limit) = Padded(n)
                              /\ Fits(n, text, gas, limit)
<1> DEFINE required == InscriptionBytesForGas(gas)
           n        == text + SaturatingSub(required, text)
<1>1. /\ required \in Nat \ {0} /\ Buys(required, gas)
      /\ (required - 1) * GasPerByte <= gas
  BY RequiredSize
<1>2. gas \in Nat /\ limit \in Nat
  BY LargestAssumption
<1>3. /\ required <= limit /\ text \in Nat /\ text <= limit
      /\ Convert(text, gas, limit) = Padded(n)
  <2>1. ~ (limit = 0 \/ required > limit \/ text = Undecodable \/ text > limit)
    BY DEF Convert
  <2>2. Convert(text, gas, limit) = Padded(n)
    BY <2>1 DEF Convert
  <2>3. text \in Nat
    BY <2>1
  <2>4. required <= limit /\ text <= limit
    <3> HIDE DEF required
    <3> QED
      BY <1>1, <1>2, <2>1, <2>3
  <2> QED
    BY <2>2, <2>3, <2>4
<1> HIDE DEF required
<1>4. n \in Nat /\ n <= limit /\ text <= n /\ required <= n /\ (n = text \/ n = required)
  BY <1>1, <1>2, <1>3 DEF SaturatingSub
<1> HIDE DEF n
<1>5. Buys(n, gas)
  <2>1. required * GasPerByte <= n * GasPerByte
    BY <1>1, <1>4, BuysMore
  <2>2. required * GasPerByte \in Int /\ n * GasPerByte \in Int
    BY <1>1, <1>4, GasAssumption
  <2> QED
    BY <1>1, <1>2, <2>1, <2>2 DEF Buys
<1>6. n = text \/ (n - 1) * GasPerByte <= gas
  BY <1>1, <1>4
<1>7. n \in 1..limit
  BY <1>1, <1>2, <1>4
<1> QED
  BY <1>3, <1>4, <1>5, <1>6, <1>7 DEF Fits

(***************************************************************************)
(* It refuses a text that decodes only if no size within the limit would   *)
(* be right: a limit of at least 1 is never too strict by a byte.          *)
(***************************************************************************)
THEOREM RefusedFitsNowhere ==
    ASSUME NEW text \in Nat, NEW gas \in 0..Largest,
           NEW limit \in (0..Largest) \ {0},
           Convert(text, gas, limit) = Err
    PROVE  \A n \in 0..limit : ~ Fits(n, text, gas, limit)
<1> DEFINE required == InscriptionBytesForGas(gas)
<1>1. required \in Nat \ {0} /\ (required - 1) * GasPerByte <= gas
  BY RequiredSize
<1>2. gas \in Nat /\ limit \in Nat /\ limit # 0
  BY LargestAssumption
<1>3. required > limit \/ text > limit
  <2>1. text # Undecodable
    BY TextAssumption
  <2> QED
    BY <2>1, <1>2 DEF Convert, Padded, Err
<1> HIDE DEF required
<1> SUFFICES ASSUME NEW n \in 0..limit, Fits(n, text, gas, limit)
             PROVE  FALSE
  OBVIOUS
<1>4. n \in Nat /\ text <= n /\ n <= limit /\ n * GasPerByte > gas
  BY <1>2 DEF Fits, Buys
<1>5. n <= required - 1
  BY <1>1, <1>2, <1>3, <1>4
<1>6. n * GasPerByte <= (required - 1) * GasPerByte
  <2>1. required - 1 \in Nat
    BY <1>1
  <2> QED
    BY <2>1, <1>4, <1>5, BuysMore
<1>7. n * GasPerByte \in Int /\ (required - 1) * GasPerByte \in Int
  BY <1>1, <1>4, GasAssumption
<1> QED
  BY <1>1, <1>2, <1>4, <1>6, <1>7

-----------------------------------------------------------------------------
(***************************************************************************)
(* Named prices: what the server quotes is at most the rate it has seen,   *)
(* and the rate under check is the client's price or the rate seen.        *)
(***************************************************************************)
Named ==
    /\ pc = "idle" => quote = 0
    /\ pc = "asked" => quote >= 1
    /\ pc \notin {"idle", "asked"} => quote \in {0, tx.price}
    /\ quote <= seen
    /\ pc = "check" => IF tx.price >= 1 THEN feeRate = 10 * tx.price
                                       ELSE feeRate = seen

Decided ==
    /\ outcome # None => pc = "done"
    /\ outcome \notin {None, TooHigh} => outcome = Convert(tx.text, tx.gas, max)

IInv == TypeOK /\ Named /\ Decided /\ OwnPriceIsAccepted

LEMMA OutcomesDiffer ==
    /\ None # TooHigh /\ None # Err /\ TooHigh # Err
    /\ \A n : Padded(n) \notin {None, TooHigh, Err} /\ Padded(n).size = n
  BY DEF None, TooHigh, Err, Padded

(***************************************************************************)
(* get_fee_rate rounds a rate of at least a tenth of a sat to at most ten  *)
(* times that rate.                                                        *)
(***************************************************************************)
LEMMA RoundedRateIsNear ==
    ASSUME NEW rate \in Nat \ {0}
    PROVE  RoundedRate(rate) \in Nat \ {0} /\ RoundedRate(rate) <= rate
<1>1. (rate + 5) \div 10 \in Nat /\ ((rate + 5) \div 10) * 10 <= rate + 5
  BY Quotient
<1> QED
  BY <1>1 DEF RoundedRate

LEMMA InitAdmission == Init => IInv
<1> SUFFICES ASSUME Init PROVE IInv
  OBVIOUS
<1>1. mempool \in Nat \ {0}
  BY RatesAssumption DEF Init
<1>2. TypeOK
  BY DEF Init, TypeOK
<1> QED
  BY <1>1, <1>2, OutcomesDiffer DEF Init, IInv, Named, Decided, OwnPriceIsAccepted

LEMMA StepAdmission == IInv /\ [Next]_vars => IInv'
<1> SUFFICES ASSUME IInv, [Next]_vars PROVE IInv'
  OBVIOUS
<1> USE DEF IInv, Named, Decided, OwnPriceIsAccepted
<1>0. /\ seen \in Nat \ {0} /\ mempool \in Nat \ {0} /\ quote \in Nat
      /\ tx.price \in Nat /\ feeRate \in Nat
  BY RatesAssumption DEF TypeOK
<1>1. CASE MempoolMoves
  <2>1. TypeOK' /\ outcome = None
    BY <1>1 DEF MempoolMoves, TypeOK
  <2> QED
    BY <1>1, <2>1, OutcomesDiffer DEF MempoolMoves
<1>2. CASE GetFeeRate
  <2>1. RoundedRate(mempool) \in Nat \ {0} /\ RoundedRate(mempool) <= mempool
    BY <1>0, RoundedRateIsNear
  <2>2. TypeOK' /\ outcome = None
    BY <1>2, <2>1 DEF GetFeeRate, TypeOK
  <2> QED
    BY <1>2, <1>0, <2>1, <2>2, OutcomesDiffer DEF GetFeeRate
<1>3. ASSUME NEW price \in Prices \cup {quote}, Send(price) PROVE IInv'
  <2>1. price \in Nat
    BY <1>0, InputAssumption
  <2>2. /\ TypeOK' /\ tx'.price = price /\ pc' = "price"
        /\ UNCHANGED <<mempool, quote, seen, outcome>> /\ outcome = None
    BY <1>3, <2>1 DEF Send, TypeOK
  <2>3. quote \in {0, price}
    BY <1>3 DEF Send
  <2> QED
    BY <2>2, <2>3, <1>0, OutcomesDiffer
<1>4. CASE KeepPrice
  <2>1. TypeOK' /\ outcome = None
    BY <1>4, <1>0 DEF KeepPrice, TypeOK
  <2> QED
    BY <1>4, <2>1, <1>0, OutcomesDiffer DEF KeepPrice
<1>5. CASE ReplacePrice
  <2>1. TypeOK' /\ outcome = None
    BY <1>5, <1>0 DEF ReplacePrice, TypeOK
  <2>2. quote = 0
    BY <1>5, <1>0 DEF ReplacePrice
  <2> QED
    BY <1>5, <2>1, <2>2, <1>0, OutcomesDiffer DEF ReplacePrice
<1>6. CASE CheckFeeRateWarning
  <2>1. CASE feeRate > mempool * 10
    <3>1. TypeOK' /\ outcome' = TooHigh /\ pc' = "done"
      BY <1>6, <2>1 DEF CheckFeeRateWarning, TypeOK
    <3>2. quote = tx.price \/ tx.price = 0 => mempool < seen
      BY <1>6, <2>1, <1>0 DEF CheckFeeRateWarning
    <3> QED
      BY <1>6, <3>1, <3>2, OutcomesDiffer DEF CheckFeeRateWarning
  <2>2. CASE ~ (feeRate > mempool * 10)
    <3>1. TypeOK' /\ outcome' = None /\ pc' = "convert"
      BY <1>6, <2>2 DEF CheckFeeRateWarning, TypeOK
    <3> QED
      BY <1>6, <3>1, OutcomesDiffer DEF CheckFeeRateWarning
  <2> QED
    BY <2>1, <2>2
<1>7. CASE ConvertToInscription
  <2> DEFINE converted == Convert(tx.text, tx.gas, max)
  <2>1. /\ tx.text \in Nat \cup {Undecodable} /\ tx.gas \in 0..Largest
        /\ max \in 0..Largest
    BY InputAssumption DEF TypeOK
  <2>2. converted = Err \/ \E n \in 1..max : converted = Padded(n)
    BY <2>1, ConvertedFits
  <2>3. converted \notin {None, TooHigh}
    BY <2>2, OutcomesDiffer
  <2>4. /\ outcome' = converted /\ pc' = "done"
        /\ UNCHANGED <<max, mempool, quote, seen, tx, feeRate>>
    BY <1>7 DEF ConvertToInscription
  <2> HIDE DEF converted
  <2>5. TypeOK'
    BY <2>2, <2>4 DEF TypeOK
  <2>6. Named'
    BY <1>7, <2>4 DEF ConvertToInscription
  <2>7. Decided' /\ OwnPriceIsAccepted'
    BY <2>3, <2>4 DEF converted
  <2> QED
    BY <2>5, <2>6, <2>7
<1>8. CASE Terminating \/ UNCHANGED vars
  BY <1>8 DEF Terminating, vars, TypeOK
<1> QED
  BY <1>1, <1>2, <1>3, <1>4, <1>5, <1>6, <1>7, <1>8 DEF Next

(***************************************************************************)
(* The three properties of run `admission`, for every limit, width, set of *)
(* transactions and rates.                                                 *)
(***************************************************************************)
THEOREM AdmissionIsInductive == Spec => []IInv
  BY InitAdmission, StepAdmission, PTL DEF Spec

\* A minted inscription holds its transaction and pays for its gas limit.
THEOREM MintedAlwaysFits == Spec => []MintedFits
<1>1. IInv => MintedFits
  <2> SUFFICES ASSUME IInv, outcome.kind = "ok"
               PROVE  Fits(outcome.size, tx.text, tx.gas, max)
    BY DEF MintedFits
  <2>1. outcome \notin {None, TooHigh, Err}
    <3>1. None.kind # "ok" /\ TooHigh.kind # "ok" /\ Err.kind # "ok"
      BY DEF None, TooHigh, Err
    <3> QED
      BY <3>1
  <2>2. outcome = Convert(tx.text, tx.gas, max)
    BY <2>1 DEF IInv, Decided
  <2>3. /\ tx.text \in Nat \cup {Undecodable} /\ tx.gas \in 0..Largest
        /\ max \in 0..Largest
    BY InputAssumption DEF IInv, TypeOK
  <2>4. PICK n \in 1..max : outcome = Padded(n) /\ Fits(n, tx.text, tx.gas, max)
    BY <2>1, <2>2, <2>3, ConvertedFits
  <2> QED
    BY <2>4, OutcomesDiffer
<1> QED
  BY <1>1, AdmissionIsInductive, PTL

\* No inscription is refused that could have been made.
THEOREM RefusalsAreNecessary == Spec => []RefusalIsNecessary
<1>1. IInv => RefusalIsNecessary
  <2> SUFFICES ASSUME IInv, outcome = Err, tx.text # Undecodable
               PROVE  \A n \in 0..max : ~ Fits(n, tx.text, tx.gas, max)
    BY DEF RefusalIsNecessary
  <2>1. Convert(tx.text, tx.gas, max) = Err
    BY OutcomesDiffer DEF IInv, Decided
  <2>2. /\ tx.text \in Nat /\ tx.gas \in 0..Largest
        /\ max \in (0..Largest) \ {0}
    BY InputAssumption DEF IInv, TypeOK
  <2> QED
    BY <2>1, <2>2, RefusedFitsNowhere
<1> QED
  BY <1>1, AdmissionIsInductive, PTL

\* The server's own price is refused only after the mempool's rate fell.
THEOREM OwnPricesAreAccepted == Spec => []OwnPriceIsAccepted
<1>1. IInv => OwnPriceIsAccepted
  BY DEF IInv
<1> QED
  BY <1>1, AdmissionIsInductive, PTL

\* Rates, prices, sizes and outcomes keep their types: a size that is minted is
\* one within MAX_INSCRIPTION_BYTES.
THEOREM TypeCorrect == Spec => []TypeOK
<1>1. IInv => TypeOK
  BY DEF IInv
<1> QED
  BY <1>1, AdmissionIsInductive, PTL
=============================================================================
