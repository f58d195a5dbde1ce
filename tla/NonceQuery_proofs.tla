-------------------------- MODULE NonceQuery_proofs --------------------------
(***************************************************************************)
(* What the query of TxDatabase::get_transaction_count returns for every   *)
(* finite table and every BRC2.0 nonce.                                    *)
(***************************************************************************)
EXTENDS NonceQuery, FiniteSetTheorems, WellFoundedInduction, TLAPS

(***************************************************************************)
(* Every nonempty set of naturals has a least element.                     *)
(***************************************************************************)
LEMMA LeastNatural ==
    ASSUME NEW T \in SUBSET Nat, T # {}
    PROVE  \E x \in T : \A y \in T : x <= y
<1>1. \E x \in T : \A y \in T : <<y, x>> \notin OpToRel(<, Nat)
  BY NatLessThanWellFounded, WFMin
<1>2. \A x, y \in T : <<y, x>> \notin OpToRel(<, Nat) => ~ (y < x)
  BY DEF OpToRel
<1>3. \A x, y \in T : ~ (y < x) => x <= y
  OBVIOUS
<1> QED
  BY <1>1, <1>2, <1>3

(***************************************************************************)
(* A finite set of integers leaves out some integer from any base on: the  *)
(* table never occupies every nonce from BRC2.0's count upwards.           *)
(***************************************************************************)
LEMMA SomeFreeNonce ==
    ASSUME NEW nonces \in SUBSET Int, IsFiniteSet(nonces), NEW base \in Int
    PROVE  \E k \in Nat : base + k \notin nonces
<1> SUFFICES ASSUME \A k \in Nat : base + k \in nonces
             PROVE  FALSE
  OBVIOUS
<1> DEFINE n   == Cardinality(nonces)
           run == base..(base + n)
<1>1. n \in Nat
  BY FS_CardinalityType
<1>2. run \subseteq nonces
  <2> SUFFICES ASSUME NEW i \in run PROVE i \in nonces
    OBVIOUS
  <2>1. i - base \in Nat /\ base + (i - base) = i
    BY <1>1
  <2> QED
    BY <2>1
<1>3. Cardinality(run) = n + 1
  <2> HIDE DEF n
  <2>1. base + n \in Int /\ ~ (base > base + n) /\ (base + n) - base + 1 = n + 1
    BY <1>1
  <2> QED
    BY <2>1, FS_Interval
<1>4. Cardinality(run) <= n
  BY <1>2, FS_Subset
<1> QED
  BY <1>1, <1>3, <1>4

(***************************************************************************)
(* The query returns the first free nonce at or after BRC2.0's count: it   *)
(* is not in the table, and every nonce between the two is.                *)
(***************************************************************************)
THEOREM FirstMissingIsFirstFree ==
    ASSUME NEW nonces \in SUBSET Int, IsFiniteSet(nonces), NEW base \in Int
    PROVE  /\ FirstMissing(nonces, base) \in Int
           /\ FirstMissing(nonces, base) >= base
           /\ FirstMissing(nonces, base) \notin nonces
           /\ \A n \in base..(FirstMissing(nonces, base) - 1) : n \in nonces
<1> DEFINE T    == {k \in Nat : base + k \notin nonces}
           gaps == BeforeAGap(nonces, base)
           least == CHOOSE n \in gaps : \A m \in gaps : n <= m
<1>1. PICK k \in T : \A j \in T : k <= j
  <2>1. T # {}
    BY SomeFreeNonce
  <2> QED
    BY <2>1, LeastNatural
<1> DEFINE last == base + k - 1
<1>2. last \in Int /\ last >= base - 1 /\ last + 1 \notin nonces
  BY <1>1
<1>3. \A n \in base..last : n \in nonces
  <2> SUFFICES ASSUME NEW n \in base..last PROVE n \in nonces
    OBVIOUS
  <2>1. n - base \in Nat /\ n - base < k /\ base + (n - base) = n
    BY <1>1
  <2>2. n - base \notin T
    BY <1>1, <2>1
  <2> QED
    BY <2>1, <2>2
<1>4. last \in gaps
  <2>1. last \in AllNonces(nonces, base)
    <3>1. CASE last = base - 1
      BY <3>1 DEF AllNonces
    <3>2. CASE last # base - 1
      BY <3>2, <1>2, <1>3 DEF AllNonces
    <3> QED
      BY <3>1, <3>2
  <2>2. last + 1 \notin AllNonces(nonces, base)
    BY <1>2 DEF AllNonces
  <2> QED
    BY <1>2, <2>1, <2>2 DEF BeforeAGap
<1>5. \A m \in gaps : m \in Int /\ m >= last
  <2> SUFFICES ASSUME NEW m \in gaps PROVE m \in Int /\ m >= last
    OBVIOUS
  <2>1. m \in Int /\ m >= base - 1 /\ m + 1 \notin nonces
    BY DEF BeforeAGap, AllNonces
  <2>2. m < last => m + 1 \in base..last
    BY <1>2, <2>1
  <2> QED
    BY <1>2, <1>3, <2>1, <2>2
<1>6. least = last
  <2> HIDE DEF gaps, last
  <2>1. \A m \in gaps : last <= m
    BY <1>2, <1>5
  <2>2. \A n \in gaps : (\A m \in gaps : n <= m) => n = last
    BY <1>2, <1>4, <1>5
  <2> QED
    BY <1>4, <2>1, <2>2
<1>7. FirstMissing(nonces, base) = last + 1
  <2>1. FirstMissing(nonces, base) = 1 + least
    BY DEF FirstMissing
  <2> HIDE DEF last, least
  <2> QED
    BY <2>1, <1>2, <1>6
<1> HIDE DEF last
<1> QED
  BY <1>2, <1>3, <1>7

(***************************************************************************)
(* eth_getTransactionCount (get_nonce): the maximum it takes changes       *)
(* nothing, so it returns the first free nonce too, a natural number.      *)
(***************************************************************************)
THEOREM TransactionCountIsFirstFree ==
    ASSUME NEW nonces \in SUBSET Nat, IsFiniteSet(nonces), NEW base \in Nat
    PROVE  /\ TransactionCount(nonces, base) \in Nat
           /\ TransactionCount(nonces, base) >= base
           /\ TransactionCount(nonces, base) \notin nonces
           /\ \A n \in base..(TransactionCount(nonces, base) - 1) : n \in nonces
<1>1. nonces \in SUBSET Int /\ base \in Int
  OBVIOUS
<1>2. TransactionCount(nonces, base) = FirstMissing(nonces, base)
  BY <1>1, FirstMissingIsFirstFree DEF TransactionCount
<1> QED
  BY <1>1, <1>2, FirstMissingIsFirstFree

(***************************************************************************)
(* The count never goes back while the table and BRC2.0's count only grow. *)
(***************************************************************************)
THEOREM TransactionCountIsMonotonic ==
    ASSUME NEW nonces \in SUBSET Nat, IsFiniteSet(nonces), NEW base \in Nat,
           NEW more \in SUBSET Nat, IsFiniteSet(more), NEW later \in Nat,
           nonces \subseteq more, base <= later
    PROVE  TransactionCount(nonces, base) <= TransactionCount(more, later)
<1> DEFINE g == TransactionCount(nonces, base)
           h == TransactionCount(more, later)
<1>1. g \in Nat /\ \A n \in base..(g - 1) : n \in nonces
  BY TransactionCountIsFirstFree
<1>2. h \in Nat /\ h >= later /\ h \notin more
  BY TransactionCountIsFirstFree
<1> HIDE DEF g, h
<1>3. h < g => h \in base..(g - 1)
  BY <1>1, <1>2
<1>4. g <= h
  BY <1>1, <1>2, <1>3
<1> QED
  BY <1>4 DEF g, h
=============================================================================
