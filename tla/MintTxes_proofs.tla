--------------------------- MODULE MintTxes_proofs ---------------------------
(***************************************************************************)
(* What the three transactions of a mint pay, for every wallet, rate and   *)
(* length.                                                                 *)
(***************************************************************************)
EXTENDS MintTxes, FiniteSetTheorems, WellFoundedInduction, TLAPS

USE CoinsAssumption, DataAssumption

-----------------------------------------------------------------------------
(***************************************************************************)
(* Rounding up.                                                            *)
(***************************************************************************)
LEMMA CeilBounds ==
    ASSUME NEW n \in Nat
    PROVE  /\ Ceil(n, 4) \in Nat /\ 4 * Ceil(n, 4) >= n /\ 4 * Ceil(n, 4) <= n + 3
           /\ Ceil(n, 10) \in Nat /\ 10 * Ceil(n, 10) >= n /\ 10 * Ceil(n, 10) <= n + 9
  BY DEF Ceil

\* A larger size costs no less.
LEMMA FeeIsMonotonic ==
    ASSUME rate \in Nat, NEW v \in Nat, NEW w \in Nat, v <= w
    PROVE  FeeFor(v) \in Nat /\ FeeFor(w) \in Nat /\ FeeFor(v) <= FeeFor(w)
<1> DEFINE a == v * rate
           b == w * rate
<1>1. a \in Nat /\ b \in Nat /\ a <= b
  <2>1. PICK k \in Nat : w = v + k
    <3>1. w - v \in Nat /\ w = v + (w - v)
      OBVIOUS
    <3> QED
      BY <3>1
  <2>2. b = a + k * rate /\ k * rate \in Nat /\ a \in Nat
    BY <2>1
  <2> QED
    BY <2>2
<1> HIDE DEF a, b
<1>2. Ceil(a, 10) \in Nat /\ Ceil(b, 10) \in Nat /\ Ceil(a, 10) <= Ceil(b, 10)
  BY <1>1, CeilBounds
<1> QED
  BY <1>2 DEF FeeFor, a, b

LEMMA FeeType ==
    ASSUME rate \in Nat, NEW v \in Nat
    PROVE  FeeFor(v) \in Nat
<1>1. v * rate \in Nat
  OBVIOUS
<1> QED
  BY <1>1, CeilBounds DEF FeeFor

\* Rounding the fees of two parts apart costs at most one sat more than
\* rounding the fee of the whole, and never less.
LEMMA FeesAddUp ==
    ASSUME rate \in Nat, NEW v \in Nat, NEW w \in Nat
    PROVE  /\ FeeFor(v + w) <= FeeFor(v) + FeeFor(w)
           /\ FeeFor(v) + FeeFor(w) <= FeeFor(v + w) + 1
<1> DEFINE a == v * rate
           b == w * rate
<1>1. a \in Nat /\ b \in Nat /\ (v + w) * rate = a + b
  OBVIOUS
<1> HIDE DEF a, b
<1>2. /\ Ceil(a + b, 10) <= Ceil(a, 10) + Ceil(b, 10)
      /\ Ceil(a, 10) + Ceil(b, 10) <= Ceil(a + b, 10) + 1
  <2>1. a + b \in Nat
    BY <1>1
  <2>2. /\ Ceil(a, 10) \in Nat /\ 10 * Ceil(a, 10) >= a /\ 10 * Ceil(a, 10) <= a + 9
    BY <1>1, CeilBounds
  <2>3. /\ Ceil(b, 10) \in Nat /\ 10 * Ceil(b, 10) >= b /\ 10 * Ceil(b, 10) <= b + 9
    BY <1>1, CeilBounds
  <2>4. /\ Ceil(a + b, 10) \in Nat /\ 10 * Ceil(a + b, 10) >= a + b
        /\ 10 * Ceil(a + b, 10) <= a + b + 9
    BY <2>1, CeilBounds
  <2> QED
    BY <1>1, <2>2, <2>3, <2>4
<1>3. /\ FeeFor(v) = Ceil(a, 10) /\ FeeFor(w) = Ceil(b, 10)
      /\ FeeFor(v + w) = Ceil(a + b, 10)
  BY <1>1 DEF FeeFor, a, b
<1> QED
  BY <1>2, <1>3

-----------------------------------------------------------------------------
(***************************************************************************)
(* The sizes.                                                              *)
(***************************************************************************)

LEMMA VSizes ==
    ASSUME NEW w \in Nat
    PROVE  VSize(w) \in Nat /\ VSize(w + 124) = VSize(w) + 31 /\ VSize(w) <= VSize(w + 7)
  BY DEF VSize, Ceil

\* Change is a whole number of vbytes, so that only its fee is rounded.
LEMMA ChangeIsWhole ==
    ASSUME NEW n \in Nat
    PROVE  /\ VSize(CommitWeight(n, FALSE)) \in Nat
           /\ VSize(CommitWeight(n, TRUE)) = VSize(CommitWeight(n, FALSE)) + 31
<1>1. CommitWeight(n, FALSE) \in Nat /\ CommitWeight(n, TRUE) = CommitWeight(n, FALSE) + 124
  BY DEF CommitWeight, Overhead, KeyInput, TrOutput, KeyOutput
<1> QED
  BY <1>1, VSizes

\* The reveal as it is signed is no larger than the one its fee is for.
LEMMA RevealIsSmaller ==
    ASSUME NEW len \in Nat
    PROVE  /\ VSize(RevealWeight(65, len)) \in Nat /\ VSize(RevealWeight(72, len)) \in Nat
           /\ VSize(RevealWeight(65, len)) <= VSize(RevealWeight(72, len))
<1>1. RevealScript(len) \in Nat
  <2>1. len \div 520 \in Nat /\ len % 520 \in Nat
    OBVIOUS
  <2> QED
    BY <2>1 DEF RevealScript, Pushed
<1>2. RevealWeight(65, len) \in Nat /\ RevealWeight(72, len) = RevealWeight(65, len) + 7
  BY <1>1 DEF RevealWeight, Overhead, KeyOutput
<1>3. RevealWeight(72, len) \in Nat
  BY <1>2
<1> QED
  BY <1>2, <1>3, VSizes

\* The postage is worth its own burn.
LEMMA PostageBurns ==
    ASSUME rate \in Nat
    PROVE  Postage \in Nat /\ Postage - 1 >= FeeFor(VSize(BurnWeight))
<1>1. VSize(BurnWeight) = 99
  BY DEF VSize, Ceil, BurnWeight, Overhead, KeyInput
<1>2. Ceil(100 * rate + 10, 10) \in Nat /\ Ceil(100 * rate + 10, 10) - 1 >= Ceil(99 * rate, 10)
  <2>1. 100 * rate + 10 \in Nat /\ 99 * rate \in Nat
    OBVIOUS
  <2>2. /\ Ceil(100 * rate + 10, 10) \in Nat
        /\ 10 * Ceil(100 * rate + 10, 10) >= 100 * rate + 10
    BY <2>1, CeilBounds
  <2>3. Ceil(99 * rate, 10) \in Nat /\ 10 * Ceil(99 * rate, 10) <= 99 * rate + 9
    BY <2>1, CeilBounds
  <2> QED
    BY <2>2, <2>3
<1>3. FeeFor(VSize(BurnWeight)) = Ceil(99 * rate, 10)
  BY <1>1 DEF FeeFor
<1> DEFINE sats == Ceil(100 * rate + 10, 10)
<1>4. Postage = IF sats < 330 THEN 330 ELSE sats
  BY DEF Postage, DUST_VALUE_P2TR
<1> HIDE DEF sats
<1>5. sats \in Nat /\ sats - 1 >= Ceil(99 * rate, 10)
  BY <1>2 DEF sats
<1>6. 99 * rate \in Nat
  OBVIOUS
<1>7. Ceil(99 * rate, 10) \in Nat
  BY <1>6, CeilBounds
<1> QED
  BY <1>3, <1>4, <1>5, <1>7

-----------------------------------------------------------------------------
(***************************************************************************)
(* The loop: the fee it tests against is that of the inputs taken, and     *)
(* what was built keeps the amounts it was built from.                     *)
(***************************************************************************)
Loop ==
    /\ value \in [Coins -> Nat] /\ rate \in Nat /\ length \in Nat
    /\ inputs \subseteq Coins /\ utxos = Coins \ inputs
    /\ total \in Nat
    /\ fee = CalculateFee(Cardinality(inputs))

Built ==
    result.kind = "ok" =>
        /\ total >= Target + fee
        /\ result.change = IF Excess > DUST_VALUE_P2WPKH + ChangeFee
                           THEN Excess - ChangeFee ELSE 0

IInv == Loop /\ Built

LEMMA LoopTypes ==
    ASSUME Loop
    PROVE  /\ Cardinality(inputs) \in Nat /\ fee \in Nat
           /\ Postage \in Nat /\ Target \in Nat /\ ChangeFee \in Nat
           /\ Target - Postage >= FeeFor(VSize(SignedReveal))
<1>1. Cardinality(inputs) \in Nat
  BY FS_Subset, FS_CardinalityType DEF Loop
<1>2. fee \in Nat
  BY <1>1, ChangeIsWhole, FeeType DEF Loop, CalculateFee
<1>3. Postage \in Nat
  BY PostageBurns DEF Loop
<1>4. /\ FeeFor(VSize(RevealWeight(72, length))) \in Nat
      /\ FeeFor(VSize(RevealWeight(65, length))) <= FeeFor(VSize(RevealWeight(72, length)))
      /\ FeeFor(VSize(RevealWeight(65, length))) \in Nat
  BY RevealIsSmaller, FeeIsMonotonic DEF Loop
<1>5. ChangeFee \in Nat
  BY FeeType DEF ChangeFee, Loop
<1> QED
  BY <1>1, <1>2, <1>3, <1>4, <1>5 DEF Target, SignedReveal

LEMMA TakeKeeps ==
    ASSUME IInv, TakeLargest
    PROVE  IInv'
<1>1. PICK c \in utxos : Take(c)
  BY DEF TakeLargest
<1>2. c \in Coins /\ c \notin inputs /\ value[c] \in Nat
  BY <1>1 DEF IInv, Loop
<1>3. Cardinality(inputs \cup {c}) = Cardinality(inputs) + 1
  BY <1>2, FS_Subset, FS_AddElement DEF IInv, Loop
<1>4. Loop'
  BY <1>1, <1>2, <1>3
     DEF IInv, Loop, Take, args, CalculateFee, FeeFor, VSize, CommitWeight, Ceil
<1>5. result'.kind # "ok"
  BY <1>1 DEF TakeLargest, Short, Take
<1> QED
  BY <1>4, <1>5 DEF IInv, Built

LEMMA BuildKeeps ==
    ASSUME IInv, BuildTransaction
    PROVE  IInv'
<1>1. /\ UNCHANGED <<args, utxos, inputs, total, fee>>
      /\ total >= Target + fee
      /\ result'.kind = "ok"
      /\ result'.change = IF Excess > DUST_VALUE_P2WPKH + ChangeFee
                          THEN Excess - ChangeFee ELSE 0
  BY DEF BuildTransaction, Build
<1>2. Target' = Target /\ Excess' = Excess /\ ChangeFee' = ChangeFee
  BY <1>1 DEF args, Target, Excess, ChangeFee, Postage, FeeFor
<1>3. Loop'
  BY <1>1 DEF IInv, Loop, args, CalculateFee, FeeFor
<1> QED
  BY <1>1, <1>2, <1>3 DEF IInv, Built

LEMMA StepKeeps == IInv /\ [Next]_vars => IInv'
<1> SUFFICES ASSUME IInv, [Next]_vars
             PROVE  IInv'
  OBVIOUS
<1>1. CASE TakeLargest
  BY <1>1, TakeKeeps
<1>2. CASE InsufficientFunds
  <2>1. Loop'
    BY <1>2 DEF IInv, Loop, InsufficientFunds, args, CalculateFee, FeeFor
  <2>2. result'.kind # "ok"
    BY <1>2 DEF InsufficientFunds
  <2> QED
    BY <2>1, <2>2 DEF IInv, Built
<1>3. CASE BuildTransaction
  BY <1>3, BuildKeeps
<1>4. CASE UNCHANGED vars
  BY <1>4 DEF IInv, Loop, Built, vars, args, CalculateFee, FeeFor, Target, Excess,
              ChangeFee, Postage
<1> QED
  BY <1>1, <1>2, <1>3, <1>4 DEF Next, Terminating

(***************************************************************************)
(* The inductive invariant of the loop.                                    *)
(***************************************************************************)
THEOREM LoopIsInductive == Spec => []IInv
<1>1. Init => IInv
  <2> SUFFICES ASSUME Init
               PROVE  IInv
    OBVIOUS
  <2>1. Cardinality({}) = 0
    BY FS_EmptySet
  <2> QED
    BY <2>1 DEF Init, IInv, Loop, Built
<1> QED
  BY <1>1, StepKeeps, PTL DEF Spec

-----------------------------------------------------------------------------
\* What is built, in amounts.
LEMMA BuiltCommit ==
    ASSUME IInv, result.kind = "ok"
    PROVE  LET due == FeeFor(VSize(CommitWeight(Cardinality(inputs), HasChange)))
           IN  /\ CommitFee >= due
               /\ IF HasChange THEN /\ result.change > DUST_VALUE_P2WPKH
                                    /\ CommitFee <= due + 1
                               ELSE CommitFee <= due + DUST_VALUE_P2WPKH + ChangeFee
<1> DEFINE n == Cardinality(inputs)
           size == VSize(CommitWeight(n, FALSE))
<1>1. /\ n \in Nat /\ fee \in Nat /\ Target \in Nat /\ ChangeFee \in Nat
      /\ total \in Nat /\ rate \in Nat
  BY LoopTypes DEF IInv, Loop
<1>2. size \in Nat /\ VSize(CommitWeight(n, TRUE)) = size + 31 /\ fee = FeeFor(size)
  BY <1>1, ChangeIsWhole DEF IInv, Loop, CalculateFee
<1>3. ChangeFee = FeeFor(31)
  BY DEF ChangeFee
<1> HIDE DEF n, size
<1>4. /\ FeeFor(size + 31) <= fee + ChangeFee
      /\ fee + ChangeFee <= FeeFor(size + 31) + 1
      /\ FeeFor(size + 31) \in Nat
  <2>1. size + 31 \in Nat
    BY <1>2
  <2>2. FeeFor(size + 31) \in Nat
    BY <1>1, <2>1, FeeType
  <2>3. /\ FeeFor(size + 31) <= FeeFor(size) + FeeFor(31)
        /\ FeeFor(size) + FeeFor(31) <= FeeFor(size + 31) + 1
    BY <1>1, <1>2, FeesAddUp
  <2> QED
    BY <1>2, <1>3, <2>2, <2>3
<1>5. /\ total >= Target + fee
      /\ result.change = IF total - fee - Target > 294 + ChangeFee
                         THEN total - fee - Target - ChangeFee ELSE 0
  BY DEF IInv, Built, Excess, DUST_VALUE_P2WPKH
<1>6. CASE total - fee - Target > 294 + ChangeFee
  <2>1. result.change = total - fee - Target - ChangeFee /\ result.change > 294
    BY <1>1, <1>5, <1>6
  <2>2. HasChange
    BY <1>1, <2>1 DEF HasChange
  <2>3. CommitFee = fee + ChangeFee
    BY <1>1, <2>1 DEF CommitFee
  <2>4. FeeFor(VSize(CommitWeight(n, HasChange))) = FeeFor(size + 31)
    BY <1>2, <2>2 DEF HasChange, CommitWeight
  <2> QED
    BY <1>1, <1>4, <2>1, <2>2, <2>3, <2>4 DEF DUST_VALUE_P2WPKH, n
<1>7. CASE ~ (total - fee - Target > 294 + ChangeFee)
  <2>1. result.change = 0 /\ ~ HasChange
    BY <1>5, <1>7 DEF HasChange
  <2>2. CommitFee = total - Target
    BY <1>1, <2>1 DEF CommitFee
  <2>3. FeeFor(VSize(CommitWeight(n, HasChange))) = fee
    BY <1>2, <2>1 DEF size, CommitWeight
  <2> QED
    BY <1>1, <1>5, <1>7, <2>1, <2>2, <2>3 DEF DUST_VALUE_P2WPKH, n
<1> QED
  BY <1>6, <1>7

\* Commit, reveal and burn each pay the fee rate, at every rate and length,
\* whatever coins the wallet has.
THEOREM AllPayTheRate == Spec => []EachPaysTheRate
<1>1. IInv => EachPaysTheRate
  <2> SUFFICES ASSUME IInv, result.kind = "ok"
               PROVE  /\ CommitFee >= FeeFor(VSize(CommitWeight(Cardinality(inputs), HasChange)))
                      /\ RevealFee >= FeeFor(VSize(SignedReveal))
                      /\ BurnFee >= FeeFor(VSize(BurnWeight))
    BY DEF EachPaysTheRate
  <2>1. CommitFee >= FeeFor(VSize(CommitWeight(Cardinality(inputs), HasChange)))
    BY BuiltCommit
  <2>2. RevealFee >= FeeFor(VSize(SignedReveal))
    BY LoopTypes DEF IInv, RevealFee
  <2>3. BurnFee >= FeeFor(VSize(BurnWeight))
    BY PostageBurns DEF IInv, Loop, BurnFee
  <2> QED
    BY <2>1, <2>2, <2>3
<1> QED
  BY <1>1, LoopIsInductive, PTL

\* A commit never pays more than one sat of rounding beyond its rate, or, if it
\* has no change, more than dust and the fee of a change output.
THEOREM LittleIsGivenAway == Spec => []NothingIsGivenAway
<1>1. IInv => NothingIsGivenAway
  BY BuiltCommit DEF NothingIsGivenAway
<1> QED
  BY <1>1, LoopIsInductive, PTL

-----------------------------------------------------------------------------
(***************************************************************************)
(* Induction over the subsets of a finite set, stated with a set of sets   *)
(* in the place of a predicate.                                            *)
(***************************************************************************)
LEMMA SubsetInduction ==
    ASSUME NEW S, IsFiniteSet(S), NEW good,
           \A T \in SUBSET S :
               (\A U \in SUBSET T : U # T => U \in good) => T \in good
    PROVE  SUBSET S \subseteq good
<1> DEFINE bad == (SUBSET S) \ good
<1> SUFFICES ASSUME bad # {}
             PROVE  FALSE
  OBVIOUS
<1>1. IsWellFoundedOn(StrictSubsetOrdering(S), FiniteSubsetsOf(S))
  BY FS_StrictSubsetOrderingWellFounded
<1>2. bad \subseteq FiniteSubsetsOf(S)
  BY FS_FiniteSubsetsOfFinite
<1>3. PICK T \in bad : \A U \in bad : <<U, T>> \notin StrictSubsetOrdering(S)
  <2> HIDE DEF bad
  <2> QED
    BY <1>1, <1>2, WFMin
<1>4. \A U \in SUBSET T : U # T => <<U, T>> \in StrictSubsetOrdering(S)
  BY <1>3 DEF StrictSubsetOrdering
<1>5. ASSUME NEW U \in SUBSET T, U # T
      PROVE  U \in good
  <2>1. U \in SUBSET S /\ U \notin bad
    BY <1>3, <1>4, <1>5
  <2> QED
    BY <2>1
<1> QED
  BY <1>3, <1>5

(***************************************************************************)
(* The sum of a wallet's coins, as the fold of the community modules       *)
(* computes it: a function on sets that adds the values in an order that   *)
(* CHOOSE fixes.                                                           *)
(***************************************************************************)
SumOf(val, coins) == MapThenSumSet(LAMBDA c : val[c], coins)

First(coins) == CHOOSE c \in coins : TRUE
Rest(coins)  == coins \ {First(coins)}

IsFold(f, val, coins) ==
    f = [s \in SUBSET coins |-> IF s = {} THEN 0 ELSE val[First(s)] + f[Rest(s)]]

Fold(val, coins) == CHOOSE f : IsFold(f, val, coins)

LEMMA SumIsFold ==
    ASSUME NEW val, NEW coins
    PROVE  SumOf(val, coins) = Fold(val, coins)[coins]
  BY DEF SumOf, MapThenSumSet, MapThenFoldSet, Fold, IsFold, First, Rest

LEMMA RestIsLess ==
    ASSUME NEW coins, coins # {}
    PROVE  First(coins) \in coins /\ Rest(coins) \in SUBSET coins /\ Rest(coins) # coins
  BY DEF First, Rest

LEMMA FoldStep ==
    ASSUME NEW val, NEW coins, NEW f, IsFold(f, val, coins), NEW s \in SUBSET coins
    PROVE  f[s] = IF s = {} THEN 0 ELSE val[First(s)] + f[Rest(s)]
<1> DEFINE g == [t \in SUBSET coins |-> IF t = {} THEN 0 ELSE val[First(t)] + f[Rest(t)]]
<1>1. f = g
  BY DEF IsFold
<1>2. g[s] = IF s = {} THEN 0 ELSE val[First(s)] + f[Rest(s)]
  OBVIOUS
<1> HIDE DEF g
<1> QED
  BY <1>1, <1>2

\* The folds over two sets agree on the subsets of both.
LEMMA FoldsAgree ==
    ASSUME NEW val, NEW S, IsFiniteSet(S), NEW T,
           NEW f, IsFold(f, val, S), NEW g, IsFold(g, val, T)
    PROVE  \A s \in (SUBSET S) \cap (SUBSET T) : f[s] = g[s]
<1> DEFINE good == {s \in SUBSET S : s \in SUBSET T => f[s] = g[s]}
<1>1. ASSUME NEW s \in SUBSET S, \A u \in SUBSET s : u # s => u \in good
      PROVE  s \in good
  <2> SUFFICES ASSUME s \in SUBSET T
               PROVE  f[s] = g[s]
    OBVIOUS
  <2>1. s # {} => f[Rest(s)] = g[Rest(s)]
    BY <1>1, RestIsLess
  <2>2. f[s] = IF s = {} THEN 0 ELSE val[First(s)] + f[Rest(s)]
    BY FoldStep
  <2>3. g[s] = IF s = {} THEN 0 ELSE val[First(s)] + g[Rest(s)]
    BY FoldStep
  <2> QED
    BY <2>1, <2>2, <2>3
<1> HIDE DEF good
<1>2. SUBSET S \subseteq good
  BY <1>1, SubsetInduction
<1> QED
  BY <1>2 DEF good

\* There is such a function on the subsets of every finite set.
LEMMA FoldExists ==
    ASSUME NEW val, NEW S, IsFiniteSet(S)
    PROVE  \A T \in SUBSET S : IsFold(Fold(val, T), val, T)
<1> DEFINE good == {T \in SUBSET S : IsFold(Fold(val, T), val, T)}
<1>1. ASSUME NEW T \in SUBSET S, \A U \in SUBSET T : U # T => U \in good
      PROVE  T \in good
  <2> DEFINE f == [s \in SUBSET T |->
                      IF s = {} THEN 0 ELSE val[First(s)] + Fold(val, Rest(s))[Rest(s)]]
  <2>1. ASSUME NEW u \in SUBSET T, u # T
        PROVE  f[u] = Fold(val, u)[u]
    <3>1. IsFold(Fold(val, u), val, u)
      BY <1>1, <2>1
    <3>2. Fold(val, u)[u] = IF u = {} THEN 0 ELSE val[First(u)] + Fold(val, u)[Rest(u)]
      BY <3>1, FoldStep
    <3>3. CASE u = {}
      BY <3>2, <3>3
    <3>4. CASE u # {}
      <4>1. Rest(u) \in SUBSET u /\ Rest(u) \in SUBSET T /\ Rest(u) # T
        BY <2>1, <3>4, RestIsLess
      <4>2. IsFold(Fold(val, Rest(u)), val, Rest(u))
        BY <1>1, <4>1
      <4>3. IsFiniteSet(u)
        BY FS_Subset
      <4>4. Fold(val, u)[Rest(u)] = Fold(val, Rest(u))[Rest(u)]
        BY <3>1, <4>1, <4>2, <4>3, FoldsAgree
      <4>5. f[u] = val[First(u)] + Fold(val, Rest(u))[Rest(u)]
        BY <3>4
      <4> HIDE DEF f
      <4> QED
        BY <3>2, <3>4, <4>4, <4>5
    <3> QED
      BY <3>3, <3>4
  <2>2. ASSUME NEW s \in SUBSET T
        PROVE  f[s] = IF s = {} THEN 0 ELSE val[First(s)] + f[Rest(s)]
    <3>1. CASE s = {}
      BY <3>1
    <3>2. CASE s # {}
      <4>1. Rest(s) \in SUBSET T /\ Rest(s) # T
        BY <3>2, RestIsLess
      <4>2. f[Rest(s)] = Fold(val, Rest(s))[Rest(s)]
        BY <2>1, <4>1
      <4>3. f[s] = val[First(s)] + Fold(val, Rest(s))[Rest(s)]
        BY <3>2
      <4> HIDE DEF f
      <4> QED
        BY <3>2, <4>2, <4>3
    <3> QED
      BY <3>1, <3>2
  <2>3. f = [s \in SUBSET T |-> f[s]]
    OBVIOUS
  <2> HIDE DEF f
  <2>4. f = [s \in SUBSET T |-> IF s = {} THEN 0 ELSE val[First(s)] + f[Rest(s)]]
    BY <2>2, <2>3
  <2>5. IsFold(f, val, T)
    BY <2>4 DEF IsFold
  <2>6. IsFold(Fold(val, T), val, T)
    BY <2>5 DEF Fold
  <2> QED
    BY <2>6
<1> HIDE DEF good
<1>2. SUBSET S \subseteq good
  BY <1>1, SubsetInduction
<1> QED
  BY <1>2 DEF good

LEMMA SumStep ==
    ASSUME NEW val, NEW S, IsFiniteSet(S)
    PROVE  SumOf(val, S) = IF S = {} THEN 0 ELSE val[First(S)] + SumOf(val, Rest(S))
<1>1. IsFold(Fold(val, S), val, S)
  BY FoldExists
<1>2. Fold(val, S)[S] = IF S = {} THEN 0 ELSE val[First(S)] + Fold(val, S)[Rest(S)]
  BY <1>1, FoldStep
<1>3. ASSUME S # {}
      PROVE  Fold(val, S)[Rest(S)] = Fold(val, Rest(S))[Rest(S)]
  <2>1. Rest(S) \in SUBSET S
    BY <1>3, RestIsLess
  <2>2. IsFold(Fold(val, Rest(S)), val, Rest(S))
    BY <2>1, FoldExists
  <2> QED
    BY <1>1, <2>1, <2>2, FoldsAgree
<1> QED
  BY <1>2, <1>3, SumIsFold

\* A sum of amounts is an amount.
LEMMA SumType ==
    ASSUME NEW S, IsFiniteSet(S), NEW val \in [S -> Nat]
    PROVE  \A T \in SUBSET S : SumOf(val, T) \in Nat
<1> DEFINE good == {T \in SUBSET S : SumOf(val, T) \in Nat}
<1>1. ASSUME NEW T \in SUBSET S, \A U \in SUBSET T : U # T => U \in good
      PROVE  T \in good
  <2>1. IsFiniteSet(T)
    BY FS_Subset
  <2>2. SumOf(val, T) = IF T = {} THEN 0 ELSE val[First(T)] + SumOf(val, Rest(T))
    BY <2>1, SumStep
  <2>3. CASE T = {}
    BY <2>2, <2>3
  <2>4. CASE T # {}
    <3>1. First(T) \in S /\ Rest(T) \in good
      BY <1>1, <2>4, RestIsLess
    <3>2. val[First(T)] \in Nat /\ SumOf(val, Rest(T)) \in Nat
      BY <3>1
    <3> QED
      BY <2>2, <2>4, <3>2
  <2> QED
    BY <2>3, <2>4
<1> HIDE DEF good
<1>2. SUBSET S \subseteq good
  BY <1>1, SubsetInduction
<1> QED
  BY <1>2 DEF good

\* Any coin may be taken out of a sum, not only the one the fold starts with.
LEMMA SumRemove ==
    ASSUME NEW S, IsFiniteSet(S), NEW val \in [S -> Nat]
    PROVE  \A T \in SUBSET S : \A c \in T : SumOf(val, T) = val[c] + SumOf(val, T \ {c})
<1> DEFINE good == {T \in SUBSET S : \A c \in T : SumOf(val, T) = val[c] + SumOf(val, T \ {c})}
<1>1. ASSUME NEW T \in SUBSET S, \A U \in SUBSET T : U # T => U \in good
      PROVE  T \in good
  <2> SUFFICES ASSUME NEW c \in T
               PROVE  SumOf(val, T) = val[c] + SumOf(val, T \ {c})
    OBVIOUS
  <2> DEFINE d == First(T)
  <2>1. d \in T /\ Rest(T) = T \ {d}
    BY RestIsLess DEF Rest
  <2>2. IsFiniteSet(T)
    BY FS_Subset
  <2>3. SumOf(val, T) = val[d] + SumOf(val, T \ {d})
    BY <2>1, <2>2, SumStep
  <2> HIDE DEF d
  <2>4. CASE c = d
    BY <2>3, <2>4
  <2>5. CASE c # d
    <3>1. T \ {d} \in good /\ T \ {c} \in good /\ c \in T \ {d} /\ d \in T \ {c}
      BY <1>1, <2>1, <2>5
    <3>2. /\ SumOf(val, T \ {d}) = val[c] + SumOf(val, (T \ {d}) \ {c})
          /\ SumOf(val, T \ {c}) = val[d] + SumOf(val, (T \ {c}) \ {d})
      BY <3>1
    <3>3. (T \ {d}) \ {c} = (T \ {c}) \ {d}
      OBVIOUS
    <3>4. /\ val[c] \in Nat /\ val[d] \in Nat
          /\ SumOf(val, (T \ {c}) \ {d}) \in Nat
      BY <2>1, SumType
    <3> QED
      BY <2>3, <3>2, <3>3, <3>4
  <2> QED
    BY <2>4, <2>5
<1> HIDE DEF good
<1>2. SUBSET S \subseteq good
  BY <1>1, SubsetInduction
<1> QED
  BY <1>2 DEF good
-----------------------------------------------------------------------------
(***************************************************************************)
(* The choice of coins.  Adding the largest coin left keeps the inputs     *)
(* worth at least as much as any choice of as many, so a total that falls  *)
(* short shows that no choice of that many coins suffices.                 *)
(***************************************************************************)
Arguments ==
    /\ value \in [Coins -> Values] /\ rate \in Rates /\ length \in Lengths
    /\ result.kind \in {"none", "ok", "err"}
    /\ result.kind # "ok" => result.change = 0

WorthMost ==
    \A coins \in SUBSET Coins :
        Cardinality(coins) = Cardinality(inputs) => Sum(coins) <= Sum(inputs)

FewerDoNotSuffice ==
    \A coins \in SUBSET Coins :
        Cardinality(coins) < Cardinality(inputs) => ~ Suffices(coins)

Greedy ==
    /\ Arguments
    /\ total = Sum(inputs)
    /\ WorthMost
    /\ FewerDoNotSuffice
    /\ result.kind = "err" => utxos = {} /\ total < Target + fee

LEMMA SumIs ==
    ASSUME NEW coins
    PROVE  Sum(coins) = SumOf(value, coins) /\ Sum(coins)' = SumOf(value', coins)
  BY DEF Sum, SumOf, MapThenSumSet, MapThenFoldSet

LEMMA SumOfInputs == Sum(inputs)' = SumOf(value', inputs')
  BY DEF Sum, SumOf, MapThenSumSet, MapThenFoldSet

\* Sums and needs are functions of the arguments, which no step changes.
LEMMA ArgumentsStay ==
    ASSUME UNCHANGED args, NEW coins, NEW n
    PROVE  /\ SumOf(value', coins) = Sum(coins)
           /\ Target' = Target
           /\ CalculateFee(n)' = CalculateFee(n)
  BY SumIs DEF args, Target, Postage, CalculateFee, FeeFor

LEMMA WorthOfATake ==
    ASSUME Loop, WorthMost,
           NEW c \in utxos, \A d \in utxos : value[d] <= value[c],
           NEW coins \in SUBSET Coins, Cardinality(coins) = Cardinality(inputs) + 1
    PROVE  Sum(coins) <= Sum(inputs) + value[c]
<1>1. IsFiniteSet(inputs) /\ IsFiniteSet(coins)
  BY FS_Subset DEF Loop
<1>2. PICK b \in coins : b \notin inputs
  <2> SUFFICES ASSUME coins \subseteq inputs
               PROVE  FALSE
    OBVIOUS
  <2>1. Cardinality(coins) <= Cardinality(inputs)
    BY <1>1, FS_Subset
  <2> QED
    BY <1>1, <2>1, FS_CardinalityType
<1>3. Cardinality(coins \ {b}) = Cardinality(inputs)
  <2>1. Cardinality(coins \ {b}) = Cardinality(coins) - 1
    BY <1>1, <1>2, FS_RemoveElement
  <2> QED
    BY <1>1, <2>1, FS_CardinalityType
<1>4. Sum(coins \ {b}) <= Sum(inputs)
  BY <1>3 DEF WorthMost
<1>5. value[b] <= value[c] /\ value[b] \in Nat /\ value[c] \in Nat
  BY <1>2 DEF Loop
<1>6. Sum(coins) = value[b] + Sum(coins \ {b})
  BY <1>2, SumRemove, SumIs DEF Loop
<1>7. Sum(coins \ {b}) \in Nat /\ Sum(inputs) \in Nat
  BY SumType, SumIs DEF Loop
<1> QED
  BY <1>4, <1>5, <1>6, <1>7

LEMMA TakeKeepsGreedy ==
    ASSUME IInv, Greedy, TakeLargest
    PROVE  Greedy'
<1>1. PICK c \in utxos : Take(c) /\ \A d \in utxos : value[d] <= value[c]
  BY DEF TakeLargest
<1>2. c \in Coins /\ c \notin inputs /\ inputs' = inputs \cup {c} /\ inputs' \in SUBSET Coins
  BY <1>1 DEF IInv, Loop, Take
<1>3. UNCHANGED args /\ total' = total + value[c] /\ UNCHANGED result
  BY <1>1 DEF Take
<1>4. /\ Cardinality(inputs') = Cardinality(inputs) + 1
      /\ Cardinality(inputs) \in Nat
  BY <1>2, FS_Subset, FS_AddElement, FS_CardinalityType DEF IInv, Loop
<1>5. Sum(inputs)' = Sum(inputs) + value[c]
  <2>1. SumOf(value, inputs') = value[c] + SumOf(value, inputs' \ {c})
    BY <1>2, SumRemove DEF IInv, Loop
  <2>2. inputs' \ {c} = inputs
    BY <1>2
  <2>3. SumOf(value, inputs) \in Nat /\ value[c] \in Nat
    BY <1>2, SumType DEF IInv, Loop
  <2>4. SumOf(value, inputs) = Sum(inputs) /\ SumOf(value', inputs') = Sum(inputs)'
    BY SumIs, SumOfInputs
  <2> QED
    BY <1>3, <2>1, <2>2, <2>3, <2>4 DEF args
<1>6. Arguments'
  BY <1>3 DEF Greedy, Arguments, args
<1>7. (total = Sum(inputs))'
  BY <1>3, <1>5 DEF Greedy
<1>8. WorthMost'
  <2> SUFFICES ASSUME NEW coins \in SUBSET Coins, Cardinality(coins) = Cardinality(inputs')
               PROVE  Sum(coins)' <= Sum(inputs)'
    BY DEF WorthMost
  <2>1. Sum(coins) <= Sum(inputs) + value[c]
    BY <1>1, <1>4, WorthOfATake DEF IInv, Greedy
  <2>2. Sum(coins)' = Sum(coins)
    BY <1>3, ArgumentsStay, SumIs
  <2> QED
    BY <1>5, <2>1, <2>2
<1>9. FewerDoNotSuffice'
  <2> SUFFICES ASSUME NEW coins \in SUBSET Coins, Cardinality(coins) < Cardinality(inputs')
               PROVE  ~ Suffices(coins)'
    BY DEF FewerDoNotSuffice
  <2>1. Suffices(coins)' = Suffices(coins)
    BY <1>3, ArgumentsStay, SumIs DEF Suffices
  <2>2. Cardinality(coins) \in Nat
    BY FS_Subset, FS_CardinalityType
  <2>3. CASE Cardinality(coins) < Cardinality(inputs)
    BY <2>1, <2>3 DEF Greedy, FewerDoNotSuffice
  <2>4. CASE Cardinality(coins) = Cardinality(inputs)
    <3>1. total < Target + CalculateFee(Cardinality(inputs))
      BY DEF TakeLargest, Short, IInv, Loop
    <3>2. Sum(coins) <= total
      BY <2>4 DEF Greedy, WorthMost
    <3>3. Sum(coins) \in Nat /\ total \in Nat /\ Target \in Nat /\ fee \in Nat
      BY SumType, SumIs, LoopTypes DEF IInv, Loop
    <3>4. ~ Suffices(coins)
      BY <2>4, <3>1, <3>2, <3>3 DEF Suffices, IInv, Loop
    <3> QED
      BY <2>1, <3>4
  <2> QED
    BY <1>4, <2>2, <2>3, <2>4
<1>10. result'.kind # "err"
  BY <1>3 DEF TakeLargest, Short
<1> QED
  BY <1>6, <1>7, <1>8, <1>9, <1>10 DEF Greedy

\* The other steps answer, and leave the arguments and the coins alone.
LEMMA AnswerKeepsGreedy ==
    ASSUME Greedy, UNCHANGED <<args, utxos, inputs, total, fee>>, Arguments',
           result'.kind = "err" => utxos = {} /\ total < Target + fee
    PROVE  Greedy'
<1>1. \A coins, n : /\ Sum(coins)' = Sum(coins)
                    /\ CalculateFee(n)' = CalculateFee(n)
  BY ArgumentsStay, SumIs
<1>2. Target' = Target
  BY ArgumentsStay
<1>3. Sum(inputs)' = Sum(inputs)
  BY ArgumentsStay, SumIs, SumOfInputs
<1>4. WorthMost'
  BY <1>1, <1>3 DEF Greedy, WorthMost
<1>5. FewerDoNotSuffice'
  <2>1. \A coins : Suffices(coins)' = Suffices(coins)
    BY <1>1, <1>2 DEF Suffices
  <2> QED
    BY <2>1 DEF Greedy, FewerDoNotSuffice
<1> QED
  BY <1>2, <1>3, <1>4, <1>5 DEF Greedy
LEMMA StepKeepsGreedy == IInv /\ Greedy /\ [Next]_vars => Greedy'
<1> SUFFICES ASSUME IInv, Greedy, [Next]_vars
             PROVE  Greedy'
  OBVIOUS
<1>1. CASE TakeLargest
  BY <1>1, TakeKeepsGreedy
<1>2. CASE InsufficientFunds
  <2>1. Arguments'
    BY <1>2 DEF InsufficientFunds, Greedy, Arguments, args
  <2> QED
    BY <1>2, <2>1, AnswerKeepsGreedy DEF InsufficientFunds, Short
<1>3. CASE BuildTransaction
  <2>1. Arguments'
    BY <1>3 DEF BuildTransaction, Build, Greedy, Arguments, args
  <2> QED
    BY <1>3, <2>1, AnswerKeepsGreedy DEF BuildTransaction, Build
<1>4. CASE UNCHANGED vars
  <2>1. Arguments'
    BY <1>4 DEF vars, Greedy, Arguments, args
  <2> QED
    BY <1>4, <2>1, AnswerKeepsGreedy DEF vars, Greedy
<1> QED
  BY <1>1, <1>2, <1>3, <1>4 DEF Next, Terminating

\* The choice is greedy: what is taken is the most that as many coins can be
\* worth, and no fewer would have done.
THEOREM ChoiceIsGreedy == Spec => []Greedy
<1>1. Init => Greedy
  <2> SUFFICES ASSUME Init
               PROVE  Greedy
    OBVIOUS
  <2>1. Sum({}) = 0
    BY SumIs, SumStep, FS_EmptySet
  <2>2. WorthMost
    <3>1. ASSUME NEW coins \in SUBSET Coins, Cardinality(coins) = Cardinality(inputs)
          PROVE  coins = inputs
      BY <3>1, FS_EmptySet, FS_Subset DEF Init
    <3> QED
      BY <2>1, <3>1 DEF Init, WorthMost
  <2>3. FewerDoNotSuffice
    BY FS_EmptySet, FS_Subset, FS_CardinalityType DEF Init, FewerDoNotSuffice
  <2> QED
    BY <2>1, <2>2, <2>3 DEF Init, Greedy, Arguments
<1> QED
  BY <1>1, StepKeepsGreedy, LoopIsInductive, PTL DEF Spec

\* The refusal is true for every wallet, fee rate and length: with all coins
\* taken and still short, no choice among them suffices.
THEOREM RefusalIsTrue == Spec => []InsufficientIsTrue
<1>1. IInv /\ Greedy => InsufficientIsTrue
  <2> SUFFICES ASSUME IInv, Greedy, result.kind = "err", NEW coins \in SUBSET Coins
               PROVE  ~ Suffices(coins)
    BY DEF InsufficientIsTrue
  <2>1. inputs = Coins /\ total < Target + fee
    BY DEF Greedy, IInv, Loop
  <2>2. CASE coins = Coins
    <3>1. Suffices(coins) <=> total >= Target + fee
      BY <2>1, <2>2 DEF Greedy, IInv, Loop, Suffices
    <3>2. total \in Nat /\ Target \in Nat /\ fee \in Nat
      BY LoopTypes DEF IInv, Loop
    <3> QED
      BY <2>1, <3>1, <3>2
  <2>3. CASE coins # Coins
    <3>1. Cardinality(coins) < Cardinality(inputs)
      BY <2>1, <2>3, FS_Subset, FS_CardinalityType
    <3> QED
      BY <3>1 DEF Greedy, FewerDoNotSuffice
  <2> QED
    BY <2>2, <2>3
<1> QED
  BY <1>1, LoopIsInductive, ChoiceIsGreedy, PTL

\* No choice of fewer coins would have paid for the commit.
THEOREM CommitIsSmallest == Spec => []FewestInputs
<1>1. IInv /\ Greedy => FewestInputs
  BY FS_Subset, FS_CardinalityType DEF IInv, Loop, Greedy, FewerDoNotSuffice, FewestInputs
<1> QED
  BY <1>1, LoopIsInductive, ChoiceIsGreedy, PTL

\* The amounts keep their types: the running total is the sum of the coins
\* taken, and the change is never negative.
THEOREM TypeCorrect == Spec => []TypeOK
<1>1. IInv /\ Greedy => TypeOK
  <2> SUFFICES ASSUME IInv, Greedy
               PROVE  TypeOK
    OBVIOUS
  <2>1. total = MapThenSumSet(LAMBDA c : value[c], inputs)
    BY DEF Greedy, Sum
  <2>2. result.change \in Nat
    <3>1. total \in Nat /\ fee \in Nat /\ Target \in Nat /\ ChangeFee \in Nat
      BY LoopTypes DEF IInv, Loop
    <3> QED
      BY <3>1 DEF IInv, Built, Greedy, Arguments, Excess, DUST_VALUE_P2WPKH
  <2> QED
    BY <2>1, <2>2 DEF TypeOK, IInv, Loop, Greedy, Arguments
<1> QED
  BY <1>1, LoopIsInductive, ChoiceIsGreedy, PTL
=============================================================================
