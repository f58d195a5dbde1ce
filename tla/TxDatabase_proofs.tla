-------------------------- MODULE TxDatabase_proofs --------------------------
(***************************************************************************)
(* What the table answers, for integers of every width, any accounts and   *)
(* any number of rows.                                                     *)
(***************************************************************************)
EXTENDS TxDatabase, NonceQuery_proofs

USE IMaxAssumption

\* The row of a transaction.
RowOf(x) == [sender |-> <<x[1], "lower">>, nonce |-> AsI64(x[2])]

\* The rows are those of what was inserted, and finitely many.
RowsAreMinted ==
    /\ minted \subseteq Accounts \X U64
    /\ IsFiniteSet(minted)
    /\ rows = {RowOf(x) : x \in minted}

\* Properties speak of the last reply, which nothing that changes the table
\* leaves standing.
IInv ==
    /\ TypeOK
    /\ RowsAreMinted
    /\ CountIsFirstUnused
    /\ PanicOnlyAtTheEdge

-----------------------------------------------------------------------------
(***************************************************************************)
(* The cast: in range, the identity within i64, and one to one.            *)
(***************************************************************************)
LEMMA CastIsOneToOne ==
    /\ \A u \in U64 : AsI64(u) \in I64
    /\ \A u \in U64 : u <= IMax => AsI64(u) = u
    /\ \A u, v \in U64 : AsI64(u) = AsI64(v) => u = v
  BY DEF AsI64, U64, I64

(***************************************************************************)
(* The nonces the query finds for an address are those the account has     *)
(* used, as far as they are within i64, however the address is written.    *)
(***************************************************************************)
LEMMA NoncesAreUsed ==
    ASSUME RowsAreMinted, NEW address \in Accounts \X Spellings
    PROVE  /\ NoncesOf(address) \in SUBSET Int
           /\ IsFiniteSet(NoncesOf(address))
           /\ \A n \in 0..IMax :
                 n \in NoncesOf(address) <=> <<address[1], n>> \in minted
<1> DEFINE Own == {x \in minted : x[1] = address[1]}
<1>1. \A x \in minted : x \in Accounts \X U64 /\ x = <<x[1], x[2]>> /\ x[2] \in U64
  BY DEF RowsAreMinted
<1>2. NoncesOf(address) = {AsI64(x[2]) : x \in Own}
  <2>1. \A x \in minted : /\ RowOf(x).sender = ToAsciiLowercase(address)
                                <=> x[1] = address[1]
                          /\ RowOf(x).nonce = AsI64(x[2])
    BY DEF RowOf, ToAsciiLowercase
  <2>2. ASSUME NEW n \in NoncesOf(address)
        PROVE  n \in {AsI64(x[2]) : x \in Own}
    <3>1. PICK r \in rows : r.sender = ToAsciiLowercase(address) /\ n = r.nonce
      BY <2>2 DEF NoncesOf
    <3>2. PICK x \in minted : r = RowOf(x)
      BY <3>1 DEF RowsAreMinted
    <3> QED
      BY <2>1, <3>1, <3>2
  <2>3. ASSUME NEW x \in Own
        PROVE  AsI64(x[2]) \in NoncesOf(address)
    <3>1. RowOf(x) \in rows
      BY DEF RowsAreMinted
    <3> QED
      BY <2>1, <3>1 DEF NoncesOf
  <2> QED
    BY <2>2, <2>3
<1>3. NoncesOf(address) \in SUBSET Int
  BY <1>1, <1>2, CastIsOneToOne DEF I64
<1>4. IsFiniteSet(NoncesOf(address))
  <2>1. IsFiniteSet(Own)
    BY FS_Subset DEF RowsAreMinted
  <2>2. [x \in Own |-> AsI64(x[2])] \in Surjection(Own, NoncesOf(address))
    BY <1>2 DEF Surjection
  <2> QED
    BY <2>1, <2>2, FS_Surjection
<1>5. ASSUME NEW n \in 0..IMax
      PROVE  n \in NoncesOf(address) <=> <<address[1], n>> \in minted
  <2>1. n \in U64 /\ AsI64(n) = n
    BY CastIsOneToOne DEF U64
  <2>2. ASSUME n \in NoncesOf(address)
        PROVE  <<address[1], n>> \in minted
    <3>1. PICK x \in Own : n = AsI64(x[2])
      BY <1>2, <2>2
    <3>2. x[2] = n
      BY <1>1, <2>1, <3>1, CastIsOneToOne
    <3> QED
      BY <1>1, <3>1, <3>2
  <2>3. ASSUME <<address[1], n>> \in minted
        PROVE  n \in NoncesOf(address)
    <3>1. <<address[1], n>> \in Own
      BY <2>3
    <3> QED
      BY <1>2, <2>1, <3>1
  <2> QED
    BY <2>2, <2>3
<1> QED
  BY <1>3, <1>4, <1>5

-----------------------------------------------------------------------------
(***************************************************************************)
(* What is found at or after a count within i64.                           *)
(***************************************************************************)
LEMMA FoundIsUnused ==
    ASSUME RowsAreMinted, NEW address \in Accounts \X Spellings,
           NEW b \in 0..IMax, NEW found, found = FirstMissing(NoncesOf(address), b)
    PROVE  /\ found \in Int /\ found >= b
           /\ found <= IMax => <<address[1], found>> \notin minted
           /\ \A n \in b..IMax : n < found => <<address[1], n>> \in minted
<1>1. /\ NoncesOf(address) \in SUBSET Int
      /\ IsFiniteSet(NoncesOf(address))
      /\ \A n \in 0..IMax :
            n \in NoncesOf(address) <=> <<address[1], n>> \in minted
  BY NoncesAreUsed
<1>2. /\ found \in Int /\ found >= b
      /\ found \notin NoncesOf(address)
      /\ \A n \in b..found - 1 : n \in NoncesOf(address)
  BY <1>1, FirstMissingIsFirstFree
<1> QED
  BY <1>1, <1>2

LEMMA CountIsRight ==
    ASSUME IInv, NEW address \in Accounts \X Spellings, NEW b \in U64,
           GetNonce(address, b)
    PROVE  IInv'
<1> DEFINE found == FirstMissing(NoncesOf(address), AsI64(b))
<1>1. RowsAreMinted /\ RowsAreMinted' /\ address[1] \in Accounts
  BY DEF IInv, RowsAreMinted, GetNonce
<1>2. b <= IMax => /\ b \in 0..IMax /\ AsI64(b) = b
                   /\ found \in Int /\ found >= b
                   /\ found <= IMax => <<address[1], found>> \notin minted
                   /\ \A n \in b..IMax : n < found => <<address[1], n>> \in minted
  <2> SUFFICES ASSUME b <= IMax
               PROVE  /\ b \in 0..IMax /\ AsI64(b) = b
                      /\ found \in Int /\ found >= b
                      /\ found <= IMax => <<address[1], found>> \notin minted
                      /\ \A n \in b..IMax : n < found => <<address[1], n>> \in minted
    OBVIOUS
  <2>1. b \in 0..IMax /\ AsI64(b) = b
    BY CastIsOneToOne DEF U64
  <2> HIDE DEF found
  <2>2. found = FirstMissing(NoncesOf(address), b)
    BY <2>1 DEF found
  <2> QED
    BY <1>1, <2>1, <2>2, FoundIsUnused
<1>3. CASE reply' = Panic
  BY <1>1, <1>3 DEF IInv, GetNonce, TypeOK, CountIsFirstUnused, PanicOnlyAtTheEdge, Panic
<1>4. CASE ~ Decodes(address, b) /\ reply' = Unread(address, b)
  <2>1. b <= IMax => found > IMax
    BY <1>2, <1>4 DEF Decodes, I64
  <2>2. reply'.kind = "unread" /\ reply'.account = address[1] /\ reply'.base = b
    BY <1>4 DEF Unread
  <2>3. PanicOnlyAtTheEdge'
    BY <1>2, <2>1, <2>2 DEF PanicOnlyAtTheEdge, GetNonce, U64
  <2> QED
    BY <1>1, <2>2, <2>3 DEF IInv, GetNonce, TypeOK, CountIsFirstUnused
<1>5. CASE Decodes(address, b) /\ reply' = Count(address, b)
  <2>1. found \in 0..IMax
    BY <1>5 DEF Decodes
  <2>2. /\ reply'.kind = "count" /\ reply'.account = address[1] /\ reply'.base = b
        /\ reply'.value = IF found >= b THEN found ELSE b
    BY <1>5 DEF Count
  <2>3. reply'.value \in U64
    BY <2>1, <2>2 DEF U64
  <2>4. CountIsFirstUnused'
    BY <1>2, <2>1, <2>2 DEF CountIsFirstUnused, GetNonce, U64
  <2> QED
    BY <1>1, <2>2, <2>3, <2>4 DEF IInv, GetNonce, TypeOK, PanicOnlyAtTheEdge
<1> QED
  BY <1>3, <1>4, <1>5 DEF GetNonce

LEMMA AddTxKeeps ==
    ASSUME IInv, NEW address \in Accounts \X Spellings, NEW u \in U64,
           AddTx(address, u)
    PROVE  IInv'
<1>1. CASE table = "absent"
  BY <1>1 DEF IInv, TypeOK, RowsAreMinted, CountIsFirstUnused, PanicOnlyAtTheEdge,
              AddTx, Panic
<1>2. CASE table # "absent"
  <2>1. /\ rows' = rows \cup {RowOf(<<address[1], u>>)}
        /\ minted' = minted \cup {<<address[1], u>>}
        /\ reply' = NoReply /\ table' = table
    BY <1>2 DEF AddTx, RowOf, ToAsciiLowercase
  <2>2. <<address[1], u>> \in Accounts \X U64
    OBVIOUS
  <2>3. RowsAreMinted'
    <3>1. IsFiniteSet(minted')
      BY <2>1, FS_AddElement DEF IInv, RowsAreMinted
    <3>2. rows' = {RowOf(x) : x \in minted'}
      BY <2>1 DEF IInv, RowsAreMinted
    <3> QED
      BY <2>1, <2>2, <3>1, <3>2 DEF IInv, RowsAreMinted, RowOf, AsI64
  <2>4. RowOf(<<address[1], u>>).sender \in Accounts \X {"lower"}
        /\ RowOf(<<address[1], u>>).nonce \in I64
    BY CastIsOneToOne DEF RowOf
  <2> QED
    BY <2>1, <2>3, <2>4
       DEF IInv, TypeOK, CountIsFirstUnused, PanicOnlyAtTheEdge, NoReply
<1> QED
  BY <1>1, <1>2

(***************************************************************************)
(* The inductive invariant: the table is what was inserted, and the last   *)
(* reply is right.                                                         *)
(***************************************************************************)
THEOREM TableIsInductive == Spec => []IInv
<1>1. Init => IInv
  BY FS_EmptySet DEF Init, IInv, TypeOK, RowsAreMinted, CountIsFirstUnused,
                     PanicOnlyAtTheEdge, NoReply
<1>2. IInv /\ [Next]_vars => IInv'
  <2> SUFFICES ASSUME IInv, [Next]_vars
               PROVE  IInv'
    OBVIOUS
  <2>1. CASE CreateTables
    BY <2>1 DEF IInv, TypeOK, RowsAreMinted, CountIsFirstUnused,
                PanicOnlyAtTheEdge, CreateTables, NoReply
  <2>2. CASE ClearTables
    BY <2>2, FS_EmptySet DEF IInv, TypeOK, RowsAreMinted, CountIsFirstUnused,
                             PanicOnlyAtTheEdge, ClearTables, NoReply
  <2>3. ASSUME NEW address \in Accounts \X Spellings, NEW u \in U64,
               AddTx(address, u)
        PROVE  IInv'
    BY <2>3, AddTxKeeps
  <2>4. ASSUME NEW address \in Accounts \X Spellings, NEW u \in U64,
               GetNonce(address, u)
        PROVE  IInv'
    BY <2>4, CountIsRight
  <2>5. CASE UNCHANGED vars
    BY <2>5 DEF IInv, TypeOK, RowsAreMinted, CountIsFirstUnused,
                PanicOnlyAtTheEdge, vars
  <2> QED
    BY <2>1, <2>2, <2>3, <2>4, <2>5 DEF Next
<1> QED
  BY <1>1, <1>2, PTL DEF Spec

\* The table holds signed nonces of lower-case senders, and every count that
\* get_nonce returns is a u64.
THEOREM TypeCorrect == Spec => []TypeOK
<1>1. IInv => TypeOK
  BY DEF IInv
<1> QED
  BY <1>1, TableIsInductive, PTL

\* The count of get_nonce, for a BRC2.0 count within i64, is the first nonce
\* the account has not used, for integers of any width.
THEOREM CountsAreUnused == Spec => []CountIsFirstUnused
<1>1. IInv => CountIsFirstUnused
  BY DEF IInv
<1> QED
  BY <1>1, TableIsInductive, PTL

\* The query fails to decode, for a BRC2.0 count within i64, only when every
\* nonce from there to i64::MAX is used.
THEOREM PanicsAreAtTheEdge == Spec => []PanicOnlyAtTheEdge
<1>1. IInv => PanicOnlyAtTheEdge
  BY DEF IInv
<1> QED
  BY <1>1, TableIsInductive, PTL
=============================================================================
