-------------------------- MODULE NonceUse_proofs ---------------------------
(***************************************************************************)
(* The nonces given out leave no holes, for any number of clients, sending *)
(* again or not, any number of mints, restarts and resets.                 *)
(***************************************************************************)
EXTENDS NonceUse, NonceQuery_proofs, SequenceTheorems

\* Below a nonce that was told or sent, every nonce is executed or carried by
\* a complete mint; the table has complete mints only; and what get_nonce has
\* of BRC2.0 while it reads the table may be old, but not ahead.
IInv ==
    /\ TypeOK
    /\ \A m \in recorded \cup rows : sent[m] = 3
    /\ base <= brc20Nonce
    /\ \A c \in Clients : \A n \in 0..told[c] - 1 : Covered(n)
    /\ NoHoles

\* The minter's part of a step: what is complete stays so.
LEMMA PromiseTypes ==
    ASSUME TypeOK, NEW m \in Mints,
           \/ Promise!Open(m) \/ Promise!Broadcast(m) \/ Promise!Record(m)
           \/ Promise!Abandon(m) \/ Promise!Refuse(m)
    PROVE  Promise!TypeOK'
<1> USE DEF TypeOK, Promise!TypeOK
<1>1. CASE Promise!Open(m)
  BY <1>1 DEF Promise!Open
<1>2. CASE Promise!Broadcast(m)
  BY <1>2 DEF Promise!Broadcast
<1>3. CASE Promise!Record(m)
  BY <1>3 DEF Promise!Record
<1>4. CASE Promise!Abandon(m)
  BY <1>4 DEF Promise!Abandon
<1>5. CASE Promise!Refuse(m)
  BY <1>5 DEF Promise!Refuse
<1> QED
  BY <1>1, <1>2, <1>3, <1>4, <1>5

LEMMA CompleteStays ==
    ASSUME TypeOK, NEW m \in Mints,
           \/ Promise!Open(m) \/ Promise!Broadcast(m) \/ Promise!Record(m)
           \/ Promise!Abandon(m) \/ Promise!Refuse(m)
    PROVE  /\ \A k \in Mints : sent[k] = 3 => sent'[k] = 3
           /\ \A k \in recorded' \ recorded : sent'[k] = 3
<1> USE DEF TypeOK, Promise!TypeOK
<1>1. CASE Promise!Open(m)
  BY <1>1 DEF Promise!Open
<1>2. CASE Promise!Broadcast(m)
  BY <1>2 DEF Promise!Broadcast
<1>3. CASE Promise!Record(m)
  BY <1>3 DEF Promise!Record
<1>4. CASE Promise!Abandon(m)
  BY <1>4 DEF Promise!Abandon
<1>5. CASE Promise!Refuse(m)
  BY <1>5 DEF Promise!Refuse
<1> QED
  BY <1>1, <1>2, <1>3, <1>4, <1>5

-----------------------------------------------------------------------------
(* Types.                                                                  *)

LEMMA RequestTypes ==
    /\ \A c \in Clients \cup {Nobody} : Count(c) \in Requests
    /\ \A c \in Clients \cup {Nobody}, m \in Mints : Mint(c, m) \in Requests
    /\ \A r \in Requests : [r EXCEPT !.client = Nobody] \in Requests
<1>1. \A c \in Clients \cup {Nobody} : Count(c) \in Requests
  BY DEF Requests
<1>2. \A c \in Clients \cup {Nobody}, m \in Mints : Mint(c, m) \in Requests
  BY DEF Requests
<1>3. ASSUME NEW r \in Requests
      PROVE  [r EXCEPT !.client = Nobody] \in Requests
  <2>1. CASE \E c \in Clients \cup {Nobody} : r = Count(c)
    <3>1. [r EXCEPT !.client = Nobody] = Count(Nobody)
      BY <2>1 DEF Count
    <3> QED
      BY <3>1, <1>1
  <2>2. CASE \E c \in Clients \cup {Nobody}, m \in Mints : r = Mint(c, m)
    <3>1. PICK c \in Clients \cup {Nobody}, m \in Mints : r = Mint(c, m)
      BY <2>2
    <3>2. [r EXCEPT !.client = Nobody] = Mint(Nobody, m)
      BY <3>1 DEF Mint
    <3> QED
      BY <3>2, <1>2
  <2> QED
    BY <2>1, <2>2 DEF Requests
<1> QED
  BY <1>1, <1>2, <1>3

LEMMA RequestFields ==
    /\ \A r \in Requests :
          /\ r.client \in Clients \cup {Nobody}
          /\ r.kind = "mint" => r.mint \in Mints
          /\ [r EXCEPT !.client = Nobody].client = Nobody
          /\ [r EXCEPT !.client = Nobody].kind = r.kind
          /\ r.kind = "mint" => [r EXCEPT !.client = Nobody].mint = r.mint
    /\ \A c : Count(c).client = c /\ Count(c).kind = "count"
    /\ \A c, m : Mint(c, m).client = c /\ Mint(c, m).kind = "mint"
                  /\ Mint(c, m).mint = m
<1>1. \A c : Count(c).client = c /\ Count(c).kind = "count"
  BY DEF Count
<1>2. \A c, m : Mint(c, m).client = c /\ Mint(c, m).kind = "mint"
                 /\ Mint(c, m).mint = m
  BY DEF Mint
<1>3. ASSUME NEW r \in Requests
      PROVE  /\ r.client \in Clients \cup {Nobody}
             /\ r.kind = "mint" => r.mint \in Mints
             /\ [r EXCEPT !.client = Nobody].client = Nobody
             /\ [r EXCEPT !.client = Nobody].kind = r.kind
             /\ r.kind = "mint" => [r EXCEPT !.client = Nobody].mint = r.mint
  <2>1. CASE \E c \in Clients \cup {Nobody} : r = Count(c)
    <3>1. PICK c \in Clients \cup {Nobody} : r = Count(c)
      BY <2>1
    <3>2. [r EXCEPT !.client = Nobody] = Count(Nobody)
      BY <3>1 DEF Count
    <3> QED
      BY <3>1, <3>2, <1>1
  <2>2. CASE \E c \in Clients \cup {Nobody}, m \in Mints : r = Mint(c, m)
    <3>1. PICK c \in Clients \cup {Nobody}, m \in Mints : r = Mint(c, m)
      BY <2>2
    <3>2. [r EXCEPT !.client = Nobody] = Mint(Nobody, m)
      BY <3>1 DEF Mint
    <3> QED
      BY <3>1, <3>2, <1>2
  <2> QED
    BY <2>1, <2>2 DEF Requests
<1> QED
  BY <1>1, <1>2, <1>3

LEMMA LineTypes ==
    ASSUME TypeOK
    PROVE  /\ \A r \in Requests : Append(line, r) \in Seq(Requests)
           /\ line # <<>> => Tail(line) \in Seq(Requests)
           /\ \A i \in 1..Len(line) : RemoveAt(line, i) \in Seq(Requests)
           /\ \A c \in Clients :
                 [i \in DOMAIN line |-> Without(c, line[i])] \in Seq(Requests)
           /\ <<>> \in Seq(Requests)
<1> USE DEF TypeOK
<1>1. \A i \in 1..Len(line) : RemoveAt(line, i) \in Seq(Requests)
  BY DEF RemoveAt
<1>2. ASSUME NEW c \in Clients
      PROVE  [i \in DOMAIN line |-> Without(c, line[i])] \in Seq(Requests)
  <2>1. DOMAIN line = 1..Len(line) /\ Len(line) \in Nat
    OBVIOUS
  <2>2. \A i \in DOMAIN line : line[i] \in Requests
    BY <2>1
  <2> QED
    BY <2>1, <2>2, RequestTypes DEF Without
<1> QED
  BY <1>1, <1>2

LEMMA InitType == Init => TypeOK
BY BoundsAssumption, ClientsAssumption DEF Init, TypeOK, Promise!Init, Promise!TypeOK

LEMMA NoncesAreFinite ==
    ASSUME TypeOK
    PROVE  IsFiniteSet({nonce[m] : m \in rows})
<1>1. IsFiniteSet(rows)
  BY MintsAssumption, FS_Subset DEF TypeOK
<1> DEFINE f == [m \in rows |-> nonce[m]]
           T == {nonce[m] : m \in rows}
<1>2. f \in [rows -> T] /\ \A t \in T : \E m \in rows : f[m] = t
  OBVIOUS
<1>3. f \in Surjection(rows, T)
  BY <1>2 DEF Surjection
<1> QED
  BY <1>1, <1>3, FS_Surjection

LEMMA CountTypes ==
    ASSUME TypeOK, base # -1
    PROVE  TransactionCount({nonce[m] : m \in rows}, base) \in Nat
<1>1. {nonce[m] : m \in rows} \in SUBSET Int /\ base \in Nat
  BY DEF TypeOK
<1>2. IsFiniteSet({nonce[m] : m \in rows})
  BY NoncesAreFinite
<1> QED
  BY <1>1, <1>2, FirstMissingIsFirstFree DEF TransactionCount

LEMMA StepType ==
    ASSUME TypeOK, [Next]_vars
    PROVE  TypeOK'
<1> USE ClientsAssumption
<1>1. ASSUME NEW c \in Clients, Ask(c)
      PROVE  TypeOK'
  BY <1>1, RequestTypes DEF Ask, TypeOK, server, promise, Promise!TypeOK
<1>2. ASSUME NEW c \in Clients, Send(c)
      PROVE  TypeOK'
  <2>1. told[c] \in Nat
    BY DEF TypeOK
  <2> QED
    BY <1>2, <2>1, RequestTypes
       DEF Send, Fresh, TypeOK, server, promise, Promise!TypeOK
<1>3. ASSUME NEW c \in Clients, Retry(c)
      PROVE  TypeOK'
  BY <1>3 DEF Retry, TypeOK, server, promise, Promise!TypeOK
<1>4. ASSUME NEW c \in Clients, GiveUp(c)
      PROVE  TypeOK'
  BY <1>4, LineTypes, RequestTypes
     DEF GiveUp, Without, TypeOK, server, promise, Promise!TypeOK
<1>5. ASSUME NEW c \in Clients \cup {Nobody}, GetBrc20Nonce(c)
      PROVE  TypeOK'
  BY <1>5 DEF GetBrc20Nonce, TypeOK, promise, clients, Promise!TypeOK
<1>6. ASSUME NEW c \in Clients \cup {Nobody}, GetTransactionCount(c)
      PROVE  TypeOK'
  <2>1. TransactionCount({nonce[m] : m \in rows}, base) \in Nat
    BY <1>6, CountTypes DEF GetTransactionCount
  <2> QED
    BY <1>6, <2>1, LineTypes
       DEF GetTransactionCount, AtHead, Reply, Leave, TypeOK, promise, Promise!TypeOK
<1>7. ASSUME NEW c \in Clients \cup {Nobody}, CountFails(c)
      PROVE  TypeOK'
  BY <1>7, LineTypes DEF CountFails, AtHead, Reply, Leave, TypeOK, promise, Promise!TypeOK
<1>8. ASSUME NEW c \in Clients \cup {Nobody}, NEW m \in Mints, Refuse(c, m)
      PROVE  TypeOK'
  <2>1. Promise!TypeOK'
    BY <1>8, PromiseTypes DEF Refuse, promise, TypeOK, Promise!TypeOK
  <2> QED
    BY <1>8, <2>1, LineTypes DEF Refuse, AtHead, Reply, Leave, TypeOK
<1>9. ASSUME NEW c \in Clients \cup {Nobody}, NEW m \in Mints, Open(c, m)
      PROVE  TypeOK'
  BY <1>9, PromiseTypes DEF Open, clients, TypeOK
<1>10. ASSUME NEW m \in Mints, Broadcast(m)
       PROVE  TypeOK'
  BY <1>10, PromiseTypes DEF Broadcast, clients, TypeOK
<1>11. ASSUME NEW c \in Clients \cup {Nobody}, NEW m \in Mints, Record(c, m)
       PROVE  TypeOK'
  <2>1. Promise!TypeOK'
    BY <1>11, PromiseTypes DEF Record
  <2> QED
    BY <1>11, <2>1, LineTypes DEF Record, AtHead, Reply, Leave, TypeOK
<1>12. ASSUME NEW c \in Clients \cup {Nobody}, NEW m \in Mints, Abandon(c, m)
       PROVE  TypeOK'
  <2>1. Promise!TypeOK'
    BY <1>12, PromiseTypes DEF Abandon
  <2> QED
    BY <1>12, <2>1, LineTypes DEF Abandon, AtHead, Reply, Leave, TypeOK
<1>13. ASSUME NEW i \in DOMAIN line, Drop(i)
       PROVE  TypeOK'
  BY <1>13, LineTypes DEF Drop, TypeOK, clients, promise, Promise!TypeOK
<1>14. CASE Restart
  <2>1. Promise!TypeOK'
    <3>1. CASE UNCHANGED promise
      BY <3>1 DEF TypeOK, promise, Promise!TypeOK
    <3>2. CASE \E m \in open : Promise!Abandon(m)
      BY <3>2, PromiseTypes DEF TypeOK, Promise!TypeOK
    <3> QED
      BY <1>14, <3>1, <3>2 DEF Restart
  <2> QED
    BY <1>14, <2>1, LineTypes, BoundsAssumption DEF Restart, TypeOK
<1>15. CASE Brc20Executes
  BY <1>15 DEF Brc20Executes, TypeOK, promise, clients, Promise!TypeOK
<1>16. CASE Terminating \/ UNCHANGED vars
  BY <1>16 DEF Terminating, vars, clients, server, promise, TypeOK, Promise!TypeOK
<1>17. ASSUME NEW r \in coming, Arrive(r)
       PROVE  TypeOK'
  <2>1. r \in Requests /\ late' \subseteq Mints
    BY <1>17, RequestFields DEF Arrive, TypeOK
  <2> QED
    BY <1>17, <2>1, LineTypes
       DEF Arrive, Enqueue, TypeOK, clients, server, promise, Promise!TypeOK
<1>18. ASSUME NEW r \in coming, NeverArrives(r)
       PROVE  TypeOK'
  <2>1. r \in Requests /\ r.client \in Clients \cup {Nobody}
    BY RequestFields DEF TypeOK
  <2> QED
    BY <1>18, <2>1 DEF NeverArrives, Reply, TypeOK, server, promise, Promise!TypeOK
<1> QED
  BY <1>1, <1>2, <1>3, <1>4, <1>5, <1>6, <1>7, <1>8, <1>9, <1>10, <1>11, <1>12,
     <1>13, <1>14, <1>15, <1>16, <1>17, <1>18 DEF Next, Client, Serve

\* The variables of the clients, the line, the minter and BRC2.0 keep their
\* types.
THEOREM TypeCorrect == Spec => []TypeOK
<1>1. Init => TypeOK
  BY InitType
<1>2. TypeOK /\ [Next]_vars => TypeOK'
  BY StepType
<1> QED
  BY <1>1, <1>2, PTL DEF Spec

-----------------------------------------------------------------------------
(* No holes.                                                               *)

LEMMA InitHoles == Init => IInv
<1> SUFFICES ASSUME Init
             PROVE  IInv
  OBVIOUS
<1>1. TypeOK
  BY InitType
<1> QED
  BY <1>1 DEF Init, IInv, NoHoles, Promise!Init

\* What no longer is an obstacle never is one again.
LEMMA CoverageGrows ==
    ASSUME TypeOK, TypeOK', brc20Nonce <= brc20Nonce',
           \A k \in Mints : sent[k] = 3 => sent'[k] = 3,
           \A k \in Mints : nonce[k] # -1 => nonce'[k] = nonce[k],
           NEW n \in Nat, Covered(n)
    PROVE  Covered(n)'
<1>1. CASE n < brc20Nonce
  BY <1>1 DEF TypeOK, Covered
<1>2. CASE \E m \in Mints : sent[m] = 3 /\ nonce[m] = n
  BY <1>2 DEF Covered
<1> QED
  BY <1>1, <1>2 DEF Covered

\* A step that neither tells nor sends a nonce.
LEMMA NothingTold ==
    ASSUME IInv, TypeOK', told' = told, nonce' = nonce,
           brc20Nonce <= brc20Nonce', base' <= brc20Nonce',
           \A k \in Mints : sent[k] = 3 => sent'[k] = 3,
           \A k \in recorded' \cup rows' : sent'[k] = 3
    PROVE  IInv'
<1>1. \A n \in Nat : Covered(n) => Covered(n)'
  BY CoverageGrows DEF IInv
<1>2. (\A c \in Clients : \A n \in 0..told[c] - 1 : Covered(n))'
  BY <1>1 DEF IInv, TypeOK
<1>3. NoHoles'
  BY <1>1 DEF IInv, TypeOK, NoHoles
<1> QED
  BY <1>2, <1>3 DEF IInv

LEMMA SendKeepsHoles ==
    ASSUME IInv, TypeOK', NEW c \in Clients, Send(c)
    PROVE  IInv'
<1>1. PICK m \in Fresh : nonce' = [nonce EXCEPT ![m] = told[c]]
  BY DEF Send
<1>2. /\ UNCHANGED <<told, base, rows, brc20Nonce>>
      /\ UNCHANGED <<open, sent, recorded, verdict>>
  BY DEF Send, server, promise
<1>3. /\ m \in Mints /\ nonce[m] = -1 /\ nonce'[m] = told[c]
      /\ \A k \in Mints \ {m} : nonce'[k] = nonce[k]
  BY <1>1 DEF Fresh, IInv, TypeOK
<1>4. \A n \in Nat : Covered(n) => Covered(n)'
  BY <1>2, <1>3, CoverageGrows DEF IInv, TypeOK
<1>5. (\A d \in Clients : \A n \in 0..told[d] - 1 : Covered(n))'
  BY <1>2, <1>4 DEF IInv, TypeOK
<1>6. NoHoles'
  <2> SUFFICES ASSUME NEW k \in Mints, NEW n \in 0..nonce'[k] - 1
               PROVE  Covered(n)'
    BY DEF NoHoles
  <2>1. n \in Nat
    BY DEF TypeOK
  <2>2. CASE k = m
    BY <1>3, <1>4, <2>1, <2>2 DEF IInv
  <2>3. CASE k # m
    BY <1>3, <1>4, <2>1, <2>3 DEF IInv, NoHoles
  <2> QED
    BY <2>2, <2>3
<1> QED
  BY <1>2, <1>5, <1>6 DEF IInv

\* The count's own reason: below it are BRC2.0's count and the table's rows.
LEMMA CountIsCovered ==
    ASSUME IInv, base # -1,
           NEW n \in 0..TransactionCount({nonce[m] : m \in rows}, base) - 1
    PROVE  Covered(n)
<1> DEFINE N == {nonce[m] : m \in rows}
           t == TransactionCount(N, base)
<1>1. /\ base \in Nat /\ base <= brc20Nonce /\ brc20Nonce \in Nat
      /\ N \in SUBSET Int /\ IsFiniteSet(N)
  BY NoncesAreFinite DEF IInv, TypeOK
<1>2. t \in Nat /\ \A k \in base..(t - 1) : k \in N
  <2> DEFINE f == FirstMissing(N, base)
  <2> HIDE DEF N
  <2>1. f \in Int /\ f >= base /\ \A k \in base..(f - 1) : k \in N
    BY <1>1, FirstMissingIsFirstFree
  <2>2. t = f
    BY <2>1 DEF TransactionCount
  <2> QED
    BY <1>1, <2>1, <2>2
<1>3. CASE n < base
  BY <1>1, <1>2, <1>3 DEF Covered
<1>4. CASE n >= base
  <2>1. n \in N
    BY <1>1, <1>2, <1>4
  <2>2. PICK m \in rows : nonce[m] = n
    BY <2>1
  <2>3. m \in Mints /\ sent[m] = 3
    BY DEF IInv, TypeOK
  <2> QED
    BY <2>2, <2>3 DEF Covered
<1> QED
  BY <1>1, <1>2, <1>3, <1>4

LEMMA CountKeepsHoles ==
    ASSUME IInv, TypeOK', NEW c \in Clients \cup {Nobody}, GetTransactionCount(c)
    PROVE  IInv'
<1> DEFINE t == TransactionCount({nonce[m] : m \in rows}, base)
<1>1. /\ UNCHANGED <<nonce, rows, brc20Nonce>> /\ base' = -1 /\ base # -1
      /\ UNCHANGED <<open, sent, recorded, verdict>>
      /\ told' = IF c = Nobody THEN told ELSE [told EXCEPT ![c] = t]
  BY DEF GetTransactionCount, promise
<1>2. \A n \in Nat : Covered(n)' <=> Covered(n)
  BY <1>1 DEF Covered
<1>3. \A n \in 0..t - 1 : Covered(n)
  BY <1>1, CountIsCovered
<1>4. t \in Nat
  BY <1>1, CountTypes DEF IInv
<1>5. ASSUME NEW d \in Clients, NEW n \in 0..told'[d] - 1
      PROVE  Covered(n)'
  <2>1. CASE told'[d] = told[d]
    BY <2>1, <1>2, <1>5 DEF IInv, TypeOK
  <2>2. CASE told'[d] = t
    BY <2>2, <1>2, <1>3, <1>4, <1>5
  <2> QED
    BY <1>1, <2>1, <2>2 DEF IInv, TypeOK
<1>6. NoHoles'
  <2> SUFFICES ASSUME NEW k \in Mints, NEW n \in 0..nonce[k] - 1
               PROVE  Covered(n)'
    BY <1>1 DEF NoHoles
  <2> QED
    BY <1>2 DEF IInv, TypeOK, NoHoles
<1>7. base' <= brc20Nonce'
  BY <1>1 DEF IInv, TypeOK
<1> QED
  BY <1>1, <1>5, <1>6, <1>7 DEF IInv

LEMMA StepHoles ==
    ASSUME IInv, [Next]_vars
    PROVE  IInv'
<1>1. TypeOK /\ TypeOK'
  BY StepType DEF IInv
<1>2. /\ \A k \in recorded \cup rows : sent[k] = 3
      /\ base <= brc20Nonce /\ -1 <= brc20Nonce
      /\ brc20Nonce \in Nat /\ brc20Nonce <= brc20Nonce + 1
      /\ base <= brc20Nonce + 1
  BY <1>1 DEF IInv, TypeOK
<1>3. ASSUME NEW c \in Clients, Ask(c) \/ Retry(c) \/ GiveUp(c)
      PROVE  IInv'
  BY <1>1, <1>2, <1>3, NothingTold DEF Ask, Retry, GiveUp, server, promise
<1>4. ASSUME NEW c \in Clients, Send(c)
      PROVE  IInv'
  BY <1>1, <1>4, SendKeepsHoles
<1>5. ASSUME NEW c \in Clients \cup {Nobody}, GetBrc20Nonce(c) \/ CountFails(c)
      PROVE  IInv'
  BY <1>1, <1>2, <1>5, NothingTold DEF GetBrc20Nonce, CountFails, promise, clients
<1>6. ASSUME NEW c \in Clients \cup {Nobody}, GetTransactionCount(c)
      PROVE  IInv'
  BY <1>1, <1>6, CountKeepsHoles
<1>7. ASSUME NEW c \in Clients \cup {Nobody}, NEW m \in Mints,
             Refuse(c, m) \/ Open(c, m) \/ Abandon(c, m) \/ Broadcast(m)
      PROVE  IInv'
  <2>1. UNCHANGED <<told, base, nonce, rows, brc20Nonce>>
    BY <1>7 DEF Refuse, Open, Abandon, Broadcast, clients
  <2>2. \A k \in Mints : sent[k] = 3 => sent'[k] = 3
    BY <1>1, <1>7, CompleteStays DEF Refuse, Open, Abandon, Broadcast, promise
  <2>3. \A k \in recorded' : sent'[k] = 3
    BY <1>1, <1>2, <1>7, <2>2, CompleteStays
       DEF Refuse, Open, Abandon, Broadcast, promise, TypeOK, Promise!TypeOK
  <2>4. \A k \in recorded' \cup rows' : sent'[k] = 3
    BY <1>1, <1>2, <2>1, <2>2, <2>3 DEF TypeOK
  <2> QED
    BY <1>1, <1>2, <2>1, <2>2, <2>4, NothingTold
<1>8. ASSUME NEW c \in Clients \cup {Nobody}, NEW m \in Mints, Record(c, m)
      PROVE  IInv'
  <2>1. /\ UNCHANGED <<told, base, nonce, brc20Nonce>>
        /\ rows' = rows \cup {m} /\ recorded' = recorded \cup {m}
        /\ sent' = sent /\ sent[m] = 3
    BY <1>8 DEF Record, Promise!Record
  <2> QED
    BY <1>1, <1>2, <2>1, NothingTold
<1>9. ASSUME NEW i \in DOMAIN line, Drop(i)
      PROVE  IInv'
  BY <1>1, <1>2, <1>9, NothingTold DEF Drop, clients, promise
<1>10. CASE Restart
  <2>1. UNCHANGED <<told, nonce, brc20Nonce>> /\ rows' \in {rows, {}} /\ base' = -1
    BY <1>10 DEF Restart
  <2>2. /\ \A k \in Mints : sent[k] = 3 => sent'[k] = 3
        /\ \A k \in recorded' \ recorded : sent'[k] = 3
    <3>1. CASE UNCHANGED promise
      BY <3>1 DEF promise
    <3>2. CASE \E m \in open : Promise!Abandon(m)
      BY <1>1, <3>2, CompleteStays DEF TypeOK, Promise!TypeOK
    <3> QED
      BY <1>10, <3>1, <3>2 DEF Restart
  <2>3. \A k \in recorded' \cup rows' : sent'[k] = 3
    BY <1>1, <1>2, <2>1, <2>2 DEF TypeOK, Promise!TypeOK
  <2> QED
    BY <1>1, <1>2, <2>1, <2>2, <2>3, NothingTold
<1>11. CASE Brc20Executes
  BY <1>1, <1>2, <1>11, NothingTold DEF Brc20Executes, promise, clients
<1>12. CASE Terminating \/ UNCHANGED vars
  BY <1>1, <1>2, <1>12, NothingTold DEF Terminating, vars, clients, server, promise
<1>13. ASSUME NEW r \in coming, Arrive(r) \/ NeverArrives(r)
       PROVE  IInv'
  BY <1>1, <1>2, <1>13, NothingTold DEF Arrive, NeverArrives, clients, server, promise
<1> QED
  BY <1>3, <1>4, <1>5, <1>6, <1>7, <1>8, <1>9, <1>10, <1>11, <1>12, <1>13
     DEF Next, Client, Serve

\* The inductive invariant holds throughout.
THEOREM CoverageIsInductive == Spec => []IInv
<1>1. Init => IInv
  BY InitHoles
<1>2. IInv /\ [Next]_vars => IInv'
  BY StepHoles
<1> QED
  BY <1>1, <1>2, PTL DEF Spec

\* Every nonce below one that was sent is executed or carried by a complete
\* mint, for any number of clients and mints, restarts and resets: BRC2.0 can
\* always go on to the last nonce that is complete.
THEOREM NoncesHaveNoHoles == Spec => []NoHoles
<1>1. IInv => NoHoles
  BY DEF IInv
<1> QED
  BY <1>1, CoverageIsInductive, PTL

\* BRC2.0 is never left with nothing to execute before the nonce of a recorded
\* mint is used up: that mint is complete, or a complete one fills its place.
THEOREM RecordedIsNeverStuck == Spec => []NeverStuck
<1>1. IInv => NeverStuck
  <2> SUFFICES ASSUME IInv, NEW m \in recorded, brc20Nonce <= nonce[m]
               PROVE  Executable # {}
    BY DEF NeverStuck
  <2>1. /\ m \in Mints /\ sent[m] = 3
        /\ brc20Nonce \in Nat /\ nonce[m] \in Nat \cup {-1}
    BY DEF IInv, TypeOK, Promise!TypeOK
  <2>2. CASE nonce[m] = brc20Nonce
    BY <2>1, <2>2 DEF Executable
  <2>3. CASE nonce[m] # brc20Nonce
    <3>1. brc20Nonce \in 0..nonce[m] - 1
      BY <2>1, <2>3
    <3>2. Covered(brc20Nonce)
      BY <2>1, <3>1 DEF IInv, NoHoles
    <3>3. ~ (brc20Nonce < brc20Nonce)
      BY <2>1
    <3> QED
      BY <3>2, <3>3 DEF Covered, Executable
  <2> QED
    BY <2>2, <2>3
<1> QED
  BY <1>1, CoverageIsInductive, PTL

-----------------------------------------------------------------------------
(* One client that takes turns.                                            *)

Waits(request) == request.client # Nobody

\* A mint in line that was not given up on its way there.
Timely(i) == line[i].kind = "mint" /\ line[i].mint \notin late

\* The client waits for one request at most.
OneWaits ==
    /\ \A r, q \in coming : Waits(r) /\ Waits(q) => r = q
    /\ \A r \in coming : Waits(r) =>
          /\ phase[r.client] \in {"asking", "sending"}
          /\ \A i \in DOMAIN line : ~ Waits(line[i])
    /\ \A i \in DOMAIN line : Waits(line[i]) =>
          phase[line[i].client] \in {"asking", "sending"}
    /\ \A i, j \in DOMAIN line : Waits(line[i]) /\ Waits(line[j]) => i = j

\* At most one mint in line is timely, it is not behind what the client waits
\* for, and there is none when the client has been told a nonce or sent a mint
\* that is still on its way.
TimelyInTurn ==
    /\ \A i, j \in DOMAIN line : Timely(i) /\ Timely(j) => i = j
    /\ \A i, j \in DOMAIN line : Timely(i) /\ Waits(line[j]) => i <= j
    /\ \A r \in coming : Waits(r) /\ r.kind = "mint" =>
          \A i \in DOMAIN line : ~ Timely(i)
    /\ \A c \in Clients : phase[c] = "told" => \A i \in DOMAIN line : ~ Timely(i)

\* The nonces that were told, that are on their way and that are in line with a
\* timely mint are in no row of another timely mint.
TimelyIsFree ==
    /\ RowsAreDistinct
    /\ \A c \in Clients : phase[c] = "told" =>
          \A m \in rows \ late : nonce[m] # told[c]
    /\ \A r \in coming : Waits(r) /\ r.kind = "mint" =>
          \A m \in rows \ late : nonce[m] = nonce[r.mint] => m = r.mint
    /\ \A i \in DOMAIN line : Timely(i) =>
          \A m \in rows \ late : nonce[m] = nonce[line[i].mint] => m = line[i].mint

TurnInv == TypeOK /\ OneWaits /\ TimelyInTurn /\ TimelyIsFree

\* Requests only leave, and no client is told a nonce.
LEMMA FewerInTurn ==
    ASSUME TurnInv, TypeOK', coming' \subseteq coming, late \subseteq late',
           NEW f \in [DOMAIN line' -> DOMAIN line],
           \A i \in DOMAIN line' : line'[i] = line[f[i]],
           \A i, j \in DOMAIN line' : i < j => f[i] < f[j],
           \A c \in Clients : phase'[c] = "told" => phase[c] = "told",
           \A r \in coming' : Waits(r) => phase'[r.client] \in {"asking", "sending"},
           \A i \in DOMAIN line' : Waits(line'[i]) =>
               phase'[line'[i].client] \in {"asking", "sending"}
    PROVE  OneWaits' /\ TimelyInTurn'
<1>1. /\ DOMAIN line = 1..Len(line) /\ DOMAIN line' = 1..Len(line')
      /\ Len(line) \in Nat /\ Len(line') \in Nat
      /\ \A i \in DOMAIN line' : f[i] \in DOMAIN line
  BY DEF TurnInv, TypeOK
<1>2. \A i, j \in DOMAIN line' : f[i] = f[j] => i = j
  BY <1>1
<1>3. \A i, j \in DOMAIN line' : f[i] <= f[j] => i <= j
  BY <1>1
<1>4. \A i \in DOMAIN line' : Timely(i)' => Timely(f[i])
  BY DEF Timely
<1>5. OneWaits'
  <2>1. \A i \in DOMAIN line' : Waits(line'[i]) => Waits(line[f[i]])
    OBVIOUS
  <2>2. \A i, j \in DOMAIN line' : Waits(line'[i]) /\ Waits(line'[j]) => i = j
    BY <1>1, <1>2, <2>1 DEF TurnInv, OneWaits
  <2>3. \A r \in coming' : Waits(r) => \A i \in DOMAIN line' : ~ Waits(line'[i])
    BY <1>1, <2>1 DEF TurnInv, OneWaits
  <2>4. \A r, q \in coming' : Waits(r) /\ Waits(q) => r = q
    BY DEF TurnInv, OneWaits
  <2> QED
    BY <2>2, <2>3, <2>4 DEF OneWaits
<1>6. TimelyInTurn'
  <2>1. \A i, j \in DOMAIN line' : Timely(i)' /\ Timely(j)' => i = j
    BY <1>1, <1>2, <1>4 DEF TurnInv, TimelyInTurn
  <2>2. \A i, j \in DOMAIN line' : Timely(i)' /\ Waits(line'[j]) => i <= j
    BY <1>1, <1>3, <1>4 DEF TurnInv, TimelyInTurn
  <2>3. \A r \in coming' : Waits(r) /\ r.kind = "mint" =>
            \A i \in DOMAIN line' : ~ Timely(i)'
    BY <1>1, <1>4 DEF TurnInv, TimelyInTurn
  <2>4. \A c \in Clients : phase'[c] = "told" => \A i \in DOMAIN line' : ~ Timely(i)'
    BY <1>1, <1>4 DEF TurnInv, TimelyInTurn
  <2> QED
    BY <2>1, <2>2, <2>3, <2>4 DEF TimelyInTurn
<1> QED
  BY <1>5, <1>6

\* No timely mint is recorded besides.
LEMMA FewerAreFree ==
    ASSUME TurnInv, TypeOK', coming' \subseteq coming, late \subseteq late',
           nonce' = nonce, told' = told, rows' \ late' \subseteq rows \ late,
           \A i \in DOMAIN line' : \E j \in DOMAIN line : line'[i] = line[j],
           \A c \in Clients : phase'[c] = "told" => phase[c] = "told"
    PROVE  TimelyIsFree'
<1>1. RowsAreDistinct'
  BY DEF TurnInv, TimelyIsFree, RowsAreDistinct
<1>2. (\A c \in Clients : phase[c] = "told" =>
          \A m \in rows \ late : nonce[m] # told[c])'
  BY DEF TurnInv, TimelyIsFree
<1>3. (\A r \in coming : Waits(r) /\ r.kind = "mint" =>
          \A m \in rows \ late : nonce[m] = nonce[r.mint] => m = r.mint)'
  BY DEF TurnInv, TimelyIsFree
<1>4. ASSUME NEW i \in DOMAIN line', Timely(i)', NEW m \in rows' \ late',
             nonce'[m] = nonce'[line'[i].mint]
      PROVE  m = line'[i].mint
  <2>1. PICK j \in DOMAIN line : line'[i] = line[j]
    OBVIOUS
  <2>2. Timely(j)
    BY <1>4, <2>1 DEF Timely
  <2> QED
    BY <1>4, <2>1, <2>2 DEF TurnInv, TimelyIsFree
<1> QED
  BY <1>1, <1>2, <1>3, <1>4 DEF TimelyIsFree

\* The holder leaves, and its client is not told a nonce.
LEMMA HolderLeaves ==
    ASSUME TurnInv, TypeOK', line # <<>>, Leave,
           line[1].client \in Clients \cup {Nobody},
           NEW p \in {"idle", "unsure"}, Reply(line[1].client, p),
           UNCHANGED <<coming, nonce, told, late>>
    PROVE  /\ OneWaits' /\ TimelyInTurn'
           /\ rows' \ late' \subseteq rows \ late => TurnInv'
<1> USE ClientsAssumption
<1> DEFINE f == [i \in DOMAIN line' |-> i + 1]
           d == line[1].client
<1>1. /\ line \in Seq(Requests) /\ line' = Tail(line) /\ Len(line) \in Nat
      /\ Len(line') = Len(line) - 1 /\ DOMAIN line = 1..Len(line)
      /\ DOMAIN line' = 1..Len(line') /\ 1 \in DOMAIN line
      /\ \A i \in DOMAIN line' : line'[i] = line[i + 1]
  BY DEF TurnInv, TypeOK, Leave
<1>2. /\ f \in [DOMAIN line' -> DOMAIN line]
      /\ \A i \in DOMAIN line' : line'[i] = line[f[i]]
      /\ \A i, j \in DOMAIN line' : i < j => f[i] < f[j]
  BY <1>1
<1>3. \A c \in Clients : phase'[c] = "told" => phase[c] = "told"
  BY DEF Reply, TurnInv, TypeOK
<1>4. ASSUME NEW r \in coming', Waits(r)
      PROVE  phase'[r.client] \in {"asking", "sending"}
  <2>1. d = Nobody
    BY <1>1, <1>4 DEF TurnInv, OneWaits, Waits
  <2> QED
    BY <1>4, <2>1 DEF Reply, TurnInv, OneWaits
<1>5. ASSUME NEW i \in DOMAIN line', Waits(line'[i])
      PROVE  phase'[line'[i].client] \in {"asking", "sending"}
  <2>1. i + 1 \in DOMAIN line /\ line'[i] = line[i + 1] /\ i + 1 # 1
    BY <1>1
  <2>2. d = Nobody
    BY <1>1, <1>5, <2>1 DEF TurnInv, OneWaits, Waits
  <2> QED
    BY <1>5, <2>1, <2>2 DEF Reply, TurnInv, OneWaits
<1>6. OneWaits' /\ TimelyInTurn'
  BY <1>2, <1>3, <1>4, <1>5, FewerInTurn
<1>7. ASSUME rows' \ late' \subseteq rows \ late
      PROVE  TurnInv'
  <2>1. \A i \in DOMAIN line' : \E j \in DOMAIN line : line'[i] = line[j]
    BY <1>1
  <2>2. TimelyIsFree'
    BY <1>3, <1>7, <2>1, FewerAreFree
  <2> QED
    BY <1>6, <2>2 DEF TurnInv
<1> QED
  BY <1>6, <1>7

\* The line stays, and its clients wait as before.
LEMMA LineStays ==
    ASSUME TurnInv, TypeOK', line' = line, coming' \subseteq coming,
           UNCHANGED <<nonce, rows, told, late>>,
           \A c \in Clients : phase'[c] = "told" => phase[c] = "told",
           \A r \in coming' : Waits(r) => phase'[r.client] = phase[r.client],
           \A i \in DOMAIN line : Waits(line[i]) =>
               phase'[line[i].client] = phase[line[i].client]
    PROVE  TurnInv'
<1> DEFINE f == [i \in DOMAIN line' |-> i]
<1>1. f \in [DOMAIN line' -> DOMAIN line]
  OBVIOUS
<1>2. /\ \A r \in coming' : Waits(r) => phase'[r.client] \in {"asking", "sending"}
      /\ \A i \in DOMAIN line' : Waits(line'[i]) =>
            phase'[line'[i].client] \in {"asking", "sending"}
  BY DEF TurnInv, OneWaits
<1>3. OneWaits' /\ TimelyInTurn'
  BY <1>1, <1>2, FewerInTurn
<1>4. TimelyIsFree'
  BY FewerAreFree
<1> QED
  BY <1>3, <1>4 DEF TurnInv

LEMMA NeverArrivesTakesTurns ==
    ASSUME TurnInv, TypeOK', NEW r \in coming, NeverArrives(r)
    PROVE  TurnInv'
<1> USE ClientsAssumption
<1>1. PICK p \in {"idle", "unsure"} : Reply(r.client, p)
  BY DEF NeverArrives
<1>2. /\ coming' = coming \ {r} /\ line' = line
      /\ UNCHANGED <<nonce, rows, told, late>>
  BY DEF NeverArrives, server
<1>3. \A c \in Clients : phase'[c] = "told" => phase[c] = "told"
  BY <1>1 DEF Reply, TurnInv, TypeOK
<1>4. ASSUME NEW q \in coming', Waits(q)
      PROVE  phase'[q.client] = phase[q.client]
  <2>1. r.client = Nobody
    BY <1>2, <1>4 DEF TurnInv, OneWaits, Waits
  <2> QED
    BY <1>1, <2>1 DEF Reply
<1>5. ASSUME NEW i \in DOMAIN line, Waits(line[i])
      PROVE  phase'[line[i].client] = phase[line[i].client]
  <2>1. r.client = Nobody
    BY <1>5 DEF TurnInv, OneWaits, Waits
  <2> QED
    BY <1>1, <2>1 DEF Reply
<1> QED
  BY <1>2, <1>3, <1>4, <1>5, LineStays

LEMMA RetryTakesTurns ==
    ASSUME TurnInv, TypeOK', NEW c \in Clients, Retry(c), Resenders = {}
    PROVE  TurnInv'
<1>1. /\ phase' = [phase EXCEPT ![c] = "idle"] /\ phase[c] = "unsure"
      /\ UNCHANGED <<told, coming, line, nonce, rows, late>>
  BY DEF Retry, server
<1>2. \A d \in Clients : phase'[d] = "told" => phase[d] = "told"
  BY <1>1 DEF TurnInv, TypeOK
<1>3. \A d : d # c => phase'[d] = phase[d]
  BY <1>1 DEF TurnInv, TypeOK
<1>4. /\ \A r \in coming : Waits(r) => r.client # c
      /\ \A i \in DOMAIN line : Waits(line[i]) => line[i].client # c
  BY <1>1 DEF TurnInv, OneWaits
<1> QED
  BY <1>1, <1>2, <1>3, <1>4, LineStays

LEMMA DropTakesTurns ==
    ASSUME TurnInv, TypeOK', NEW k \in DOMAIN line, Drop(k)
    PROVE  TurnInv'
<1> DEFINE f == [i \in DOMAIN line' |-> IF i < k THEN i ELSE i + 1]
<1>1. /\ UNCHANGED <<phase, told, coming, nonce, rows, late>>
      /\ line' = RemoveAt(line, k)
      /\ line \in Seq(Requests) /\ Len(line) \in Nat /\ k \in 1..Len(line)
  BY DEF Drop, clients, promise, TurnInv, TypeOK
<1>2. /\ DOMAIN line' = 1..Len(line) - 1 /\ DOMAIN line = 1..Len(line)
      /\ \A i \in DOMAIN line' : line'[i] = line[IF i < k THEN i ELSE i + 1]
  <2> DEFINE a == SubSeq(line, 1, k - 1)
             b == SubSeq(line, k + 1, Len(line))
  <2>1. /\ a \in Seq(Requests) /\ Len(a) = k - 1
        /\ \A i \in 1..k - 1 : a[i] = line[i]
    BY <1>1
  <2>2. /\ b \in Seq(Requests) /\ Len(b) = Len(line) - k
        /\ \A i \in 1..Len(line) - k : b[i] = line[k + i]
    BY <1>1
  <2>3. line' = a \o b
    BY <1>1 DEF RemoveAt
  <2> HIDE DEF a, b
  <2>4. /\ Len(line') = Len(line) - 1 /\ line' \in Seq(Requests)
        /\ \A i \in 1..Len(line) - 1 :
              line'[i] = IF i <= Len(a) THEN a[i] ELSE b[i - Len(a)]
    <3>1. /\ Len(a \o b) = Len(a) + Len(b) /\ a \o b \in Seq(Requests)
          /\ \A i \in 1..Len(a) + Len(b) :
                (a \o b)[i] = IF i <= Len(a) THEN a[i] ELSE b[i - Len(a)]
      BY <2>1, <2>2, ConcatProperties
    <3>2. Len(a) + Len(b) = Len(line) - 1
      BY <1>1, <2>1, <2>2
    <3> QED
      BY <2>3, <3>1, <3>2
  <2>5. DOMAIN line' = 1..Len(line) - 1 /\ DOMAIN line = 1..Len(line)
    BY <1>1, <2>4
  <2>6. ASSUME NEW i \in DOMAIN line'
        PROVE  line'[i] = line[IF i < k THEN i ELSE i + 1]
    <3>1. CASE i < k
      BY <1>1, <2>1, <2>4, <2>5, <3>1
    <3>2. CASE i >= k
      <4>1. i - Len(a) \in 1..Len(line) - k /\ k + (i - Len(a)) = i + 1
        BY <1>1, <2>1, <2>5, <3>2
      <4> QED
        BY <1>1, <2>1, <2>2, <2>4, <2>5, <3>2, <4>1
    <3> QED
      BY <1>1, <2>5, <3>1, <3>2
  <2> QED
    BY <2>5, <2>6
<1>3. /\ f \in [DOMAIN line' -> DOMAIN line]
      /\ \A i \in DOMAIN line' : line'[i] = line[f[i]]
      /\ \A i, j \in DOMAIN line' : i < j => f[i] < f[j]
  BY <1>1, <1>2
<1>4. /\ \A r \in coming' : Waits(r) => phase'[r.client] \in {"asking", "sending"}
      /\ \A i \in DOMAIN line' : Waits(line'[i]) =>
            phase'[line'[i].client] \in {"asking", "sending"}
  BY <1>1, <1>3 DEF TurnInv, OneWaits
<1>5. OneWaits' /\ TimelyInTurn'
  BY <1>1, <1>3, <1>4, FewerInTurn
<1>6. TimelyIsFree'
  <2>1. \A i \in DOMAIN line' : \E j \in DOMAIN line : line'[i] = line[j]
    BY <1>3
  <2> QED
    BY <1>1, <2>1, FewerAreFree
<1> QED
  BY <1>5, <1>6 DEF TurnInv

LEMMA RestartTakesTurns ==
    ASSUME TurnInv, TypeOK', Restart
    PROVE  TurnInv'
<1>1. /\ UNCHANGED <<told, nonce, late>> /\ rows' \subseteq rows
      /\ line' = <<>> /\ coming' = {}
      /\ \A c \in Clients : phase'[c] = "told" => phase[c] = "told"
  BY DEF Restart, TurnInv, TypeOK
<1>2. DOMAIN line' = {}
  BY <1>1
<1>3. OneWaits' /\ TimelyInTurn'
  BY <1>1, <1>2 DEF OneWaits, TimelyInTurn
<1>4. TimelyIsFree'
  BY <1>1, <1>2, FewerAreFree
<1> QED
  BY <1>3, <1>4 DEF TurnInv

\* A client that does not wait has no request on its way or in line.
LEMMA NobodyWaits ==
    ASSUME TurnInv, NEW c, Clients = {c}, phase[c] \in {"idle", "told"}
    PROVE  /\ \A r \in coming : ~ Waits(r)
           /\ \A i \in DOMAIN line : ~ Waits(line[i])
<1>1. /\ \A r \in coming : r \in Requests
      /\ \A i \in DOMAIN line : line[i] \in Requests
  BY DEF TurnInv, TypeOK
<1>2. /\ \A r \in coming : Waits(r) => r.client = c
      /\ \A i \in DOMAIN line : Waits(line[i]) => line[i].client = c
  BY <1>1, RequestFields DEF Waits
<1> QED
  BY <1>2 DEF TurnInv, OneWaits

LEMMA AskTakesTurns ==
    ASSUME TurnInv, TypeOK', NEW c \in Clients, Ask(c), Clients = {c}
    PROVE  TurnInv'
<1> USE ClientsAssumption
<1>1. /\ phase[c] = "idle" /\ phase' = [phase EXCEPT ![c] = "asking"]
      /\ coming' = coming \cup {Count(c)}
      /\ UNCHANGED <<told, line, nonce, rows, late>>
  BY DEF Ask, server
<1>2. /\ \A r \in coming : ~ Waits(r)
      /\ \A i \in DOMAIN line : ~ Waits(line[i])
  BY <1>1, NobodyWaits
<1>3. /\ phase'[c] = "asking"
      /\ Count(c).client = c /\ Count(c).kind = "count"
  BY <1>1, RequestFields DEF TurnInv, TypeOK
<1>4. \A r \in coming' : Waits(r) => r = Count(c)
  BY <1>1, <1>2
<1>5. OneWaits'
  BY <1>1, <1>2, <1>3, <1>4 DEF OneWaits
<1>6. TimelyInTurn'
  BY <1>1, <1>2, <1>3, <1>4 DEF TurnInv, TimelyInTurn, Timely
<1>7. TimelyIsFree'
  BY <1>1, <1>3, <1>4 DEF TurnInv, TimelyIsFree, RowsAreDistinct, Timely
<1> QED
  BY <1>5, <1>6, <1>7 DEF TurnInv

LEMMA SendTakesTurns ==
    ASSUME TurnInv, TypeOK', NEW c \in Clients, Send(c), Clients = {c}
    PROVE  TurnInv'
<1> USE ClientsAssumption
<1>1. PICK m \in Fresh : /\ nonce' = [nonce EXCEPT ![m] = told[c]]
                         /\ coming' = coming \cup {Mint(c, m)}
  BY DEF Send
<1>2. /\ phase[c] = "told" /\ phase' = [phase EXCEPT ![c] = "sending"]
      /\ UNCHANGED <<told, line, rows, late>>
  BY DEF Send, server
<1>3. /\ m \in Mints /\ nonce'[m] = told[c]
      /\ \A k \in Mints \ {m} : nonce'[k] = nonce[k]
      /\ rows \subseteq Mints
  BY <1>1 DEF Fresh, TurnInv, TypeOK
<1>4. /\ \A r \in coming : ~ Waits(r)
      /\ \A i \in DOMAIN line : ~ Waits(line[i])
  BY <1>2, NobodyWaits
<1>5. \A i \in DOMAIN line : ~ Timely(i)
  BY <1>2 DEF TurnInv, TimelyInTurn
<1>6. \A k \in rows \ late : nonce[k] # told[c]
  BY <1>2 DEF TurnInv, TimelyIsFree
<1>7. /\ phase'[c] = "sending"
      /\ Mint(c, m).client = c /\ Mint(c, m).mint = m
  BY <1>2, RequestFields DEF TurnInv, TypeOK
<1>8. \A r \in coming' : Waits(r) => r = Mint(c, m)
  BY <1>1, <1>4
<1>9. OneWaits'
  BY <1>2, <1>4, <1>7, <1>8 DEF OneWaits
<1>10. \A i \in DOMAIN line' : ~ Timely(i)' /\ ~ Waits(line'[i])
  BY <1>2, <1>4, <1>5 DEF Timely
<1>11. TimelyInTurn'
  BY <1>10 DEF TimelyInTurn
<1>12. \A k \in rows' \ late' : nonce'[k] = nonce'[m] => k = m
  BY <1>2, <1>3, <1>6
<1>13. RowsAreDistinct'
  BY <1>2, <1>3, <1>12 DEF TurnInv, TimelyIsFree, RowsAreDistinct
<1>14. TimelyIsFree'
  BY <1>7, <1>8, <1>10, <1>12, <1>13 DEF TimelyIsFree
<1> QED
  BY <1>9, <1>11, <1>14 DEF TurnInv

LEMMA GiveUpTakesTurns ==
    ASSUME TurnInv, TypeOK', NEW c \in Clients, GiveUp(c), Clients = {c}
    PROVE  TurnInv'
<1> USE ClientsAssumption
<1>1. /\ UNCHANGED <<told, nonce, rows, late>>
      /\ phase'[c] \in {"idle", "unsure"}
      /\ coming' = {Without(c, r) : r \in coming}
      /\ DOMAIN line' = DOMAIN line
      /\ \A i \in DOMAIN line : line'[i] = Without(c, line[i])
  BY DEF GiveUp, server, TurnInv, TypeOK
<1>2. ASSUME NEW r \in Requests
      PROVE  /\ ~ Waits(Without(c, r)) /\ Without(c, r).kind = r.kind
             /\ r.kind = "mint" => Without(c, r).mint = r.mint
  <2>1. r.client \in {c, Nobody}
    BY RequestFields
  <2>2. CASE r.client = c
    BY <2>2, RequestFields DEF Without, Waits
  <2>3. CASE r.client # c
    BY <2>1, <2>3 DEF Without, Waits
  <2> QED
    BY <2>2, <2>3
<1>3. /\ \A r \in coming' : ~ Waits(r)
      /\ \A i \in DOMAIN line' : ~ Waits(line'[i])
  BY <1>1, <1>2 DEF TurnInv, TypeOK
<1>4. \A i \in DOMAIN line' :
          Timely(i)' => Timely(i) /\ line'[i].mint = line[i].mint
  BY <1>1, <1>2 DEF TurnInv, TypeOK, Timely
<1>5. OneWaits'
  BY <1>3 DEF OneWaits
<1>6. TimelyInTurn'
  BY <1>1, <1>3, <1>4 DEF TurnInv, TimelyInTurn
<1>7. TimelyIsFree'
  BY <1>1, <1>3, <1>4 DEF TurnInv, TimelyIsFree, RowsAreDistinct
<1> QED
  BY <1>5, <1>6, <1>7 DEF TurnInv

LEMMA ArriveTakesTurns ==
    ASSUME TurnInv, TypeOK', NEW r \in coming, Arrive(r), NEW only, Clients = {only}
    PROVE  TurnInv'
<1> USE ClientsAssumption
<1>0. PICK n \in Nat : n = Len(line) + 1
  BY DEF TurnInv, TypeOK
<1>1. /\ coming' = coming \ {r} /\ late \subseteq late'
      /\ UNCHANGED <<phase, told, nonce, rows>>
      /\ r.kind = "mint" /\ ~ Waits(r) => r.mint \in late'
      /\ Waits(r) => late' = late
  BY DEF Arrive, clients, server, Waits
<1>2. /\ r \in Requests /\ line \in Seq(Requests) /\ line' = Append(line, r)
      /\ Len(line) \in Nat /\ DOMAIN line = 1..Len(line)
      /\ DOMAIN line' = 1..n /\ line'[n] = r
      /\ \A i \in DOMAIN line : line'[i] = line[i] /\ i \in DOMAIN line'
  BY <1>0 DEF Arrive, Enqueue, TurnInv, TypeOK
<1>3. \A i \in DOMAIN line' : i # n => i \in DOMAIN line /\ line'[i] = line[i]
  BY <1>0, <1>2
<1>4. \A i \in DOMAIN line' : Timely(i)' /\ i # n => i \in DOMAIN line /\ Timely(i)
  BY <1>1, <1>3 DEF Timely
<1>5. /\ Timely(n)' => Waits(r) /\ r.kind = "mint"
      /\ Waits(line'[n]) => Waits(r)
  BY <1>1, <1>2 DEF Timely
<1>6. Waits(r) => /\ \A q \in coming' : ~ Waits(q)
                  /\ \A i \in DOMAIN line : ~ Waits(line[i])
                  /\ phase[r.client] \in {"asking", "sending"} /\ r.client = only
  BY <1>1, <1>2, RequestFields DEF TurnInv, OneWaits, Waits
<1>7. Waits(r) /\ r.kind = "mint" => \A i \in DOMAIN line : ~ Timely(i)
  BY DEF TurnInv, TimelyInTurn
<1>8. OneWaits'
  <2>1. \A q, s \in coming' : Waits(q) /\ Waits(s) => q = s
    BY <1>1 DEF TurnInv, OneWaits
  <2>2. \A q \in coming' : Waits(q) =>
            /\ phase'[q.client] \in {"asking", "sending"}
            /\ \A i \in DOMAIN line' : ~ Waits(line'[i])
    BY <1>1, <1>3, <1>5, <1>6 DEF TurnInv, OneWaits
  <2>3. \A i \in DOMAIN line' : Waits(line'[i]) =>
            phase'[line'[i].client] \in {"asking", "sending"}
    BY <1>1, <1>2, <1>3, <1>6 DEF TurnInv, OneWaits
  <2>4. \A i, j \in DOMAIN line' : Waits(line'[i]) /\ Waits(line'[j]) => i = j
    BY <1>3, <1>5, <1>6 DEF TurnInv, OneWaits
  <2> QED
    BY <2>1, <2>2, <2>3, <2>4 DEF OneWaits
<1>9. TimelyInTurn'
  <2>1. \A i, j \in DOMAIN line' : Timely(i)' /\ Timely(j)' => i = j
    BY <1>4, <1>5, <1>7 DEF TurnInv, TimelyInTurn
  <2>2. ASSUME NEW i \in DOMAIN line', NEW j \in DOMAIN line', Timely(i)', Waits(line'[j])
        PROVE  i <= j
    <3>1. CASE j = n
      BY <1>2, <3>1
    <3>2. CASE j # n
      <4>1. j \in DOMAIN line /\ Waits(line[j])
        BY <1>3, <2>2, <3>2
      <4>2. i # n
        BY <1>5, <1>6, <2>2, <4>1
      <4> QED
        BY <1>4, <2>2, <4>1, <4>2 DEF TurnInv, TimelyInTurn
    <3> QED
      BY <3>1, <3>2
  <2>3. \A q \in coming' : Waits(q) /\ q.kind = "mint" =>
            \A i \in DOMAIN line' : ~ Timely(i)'
    BY <1>1, <1>4, <1>5, <1>6 DEF TurnInv, TimelyInTurn
  <2>4. \A c \in Clients : phase'[c] = "told" => \A i \in DOMAIN line' : ~ Timely(i)'
    BY <1>1, <1>4, <1>5, <1>6 DEF TurnInv, TimelyInTurn
  <2> QED
    BY <2>1, <2>2, <2>3, <2>4 DEF TimelyInTurn
<1>10. TimelyIsFree'
  <2>1. rows' \ late' \subseteq rows \ late
    BY <1>1
  <2>2. RowsAreDistinct'
    BY <1>1, <2>1 DEF TurnInv, TimelyIsFree, RowsAreDistinct
  <2>3. (\A c \in Clients : phase[c] = "told" =>
            \A m \in rows \ late : nonce[m] # told[c])'
    BY <1>1, <2>1 DEF TurnInv, TimelyIsFree
  <2>4. (\A q \in coming : Waits(q) /\ q.kind = "mint" =>
            \A m \in rows \ late : nonce[m] = nonce[q.mint] => m = q.mint)'
    BY <1>1, <2>1 DEF TurnInv, TimelyIsFree
  <2>5. ASSUME NEW i \in DOMAIN line', Timely(i)', NEW m \in rows' \ late',
               nonce'[m] = nonce'[line'[i].mint]
        PROVE  m = line'[i].mint
    <3>1. CASE i = n
      BY <1>1, <1>2, <1>5, <2>1, <2>5, <3>1 DEF TurnInv, TimelyIsFree
    <3>2. CASE i # n
      BY <1>1, <1>3, <1>4, <2>1, <2>5, <3>2 DEF TurnInv, TimelyIsFree
    <3> QED
      BY <3>1, <3>2
  <2> QED
    BY <2>2, <2>3, <2>4, <2>5 DEF TimelyIsFree
<1> QED
  BY <1>8, <1>9, <1>10 DEF TurnInv

\* The nonce that is told is in no row, and no timely mint is left in line.
LEMMA CountTakesTurns ==
    ASSUME TurnInv, TypeOK', NEW c \in Clients \cup {Nobody}, GetTransactionCount(c),
           NEW only, Clients = {only}
    PROVE  TurnInv'
<1> USE ClientsAssumption
<1> DEFINE N == {nonce[m] : m \in rows}
           t == TransactionCount(N, base)
<1>1. /\ line # <<>> /\ line[1] = Count(c) /\ Leave
      /\ line[1].client = c /\ line[1].kind = "count"
      /\ UNCHANGED <<coming, nonce, rows, late>> /\ base # -1 /\ Reply(c, "told")
  BY RequestFields DEF GetTransactionCount, AtHead
<1>2. CASE c = Nobody
  <2>1. told' = told /\ Reply(c, "idle")
    BY <1>1, <1>2 DEF GetTransactionCount, Reply
  <2> QED
    BY <1>1, <2>1, HolderLeaves
<1>3. CASE c # Nobody
  <2>1. /\ line \in Seq(Requests) /\ Len(line) \in Nat /\ 1 \in DOMAIN line
        /\ DOMAIN line = 1..Len(line) /\ line' = Tail(line)
        /\ DOMAIN line' = 1..Len(line) - 1
        /\ \A i \in DOMAIN line' : line'[i] = line[i + 1] /\ i + 1 \in DOMAIN line
                                   /\ i + 1 # 1 /\ ~ (i + 1 <= 1)
    BY <1>1 DEF TurnInv, TypeOK, Leave
  <2>2. Waits(line[1]) /\ ~ Timely(1)
    BY <1>1, <1>3 DEF Waits, Timely
  <2>3. /\ \A r \in coming' : ~ Waits(r)
        /\ \A i \in DOMAIN line' : ~ Waits(line'[i])
    BY <1>1, <2>1, <2>2 DEF TurnInv, OneWaits
  <2>4. \A i \in DOMAIN line' : ~ Timely(i)'
    <3>1. \A i \in DOMAIN line' : Timely(i)' => Timely(i + 1)
      BY <1>1, <2>1 DEF Timely
    <3>2. \A i \in DOMAIN line : Timely(i) => i <= 1
      BY <2>1, <2>2 DEF TurnInv, TimelyInTurn
    <3> QED
      BY <2>1, <3>1, <3>2
  <2>5. OneWaits' /\ TimelyInTurn'
    BY <2>3, <2>4 DEF OneWaits, TimelyInTurn
  <2>6. told' = [told EXCEPT ![c] = t] /\ c = only
    BY <1>3 DEF GetTransactionCount
  <2>7. told'[c] = t
    BY <2>6 DEF TurnInv, TypeOK
  <2>8. t \notin N
    <3> DEFINE g == FirstMissing(N, base)
    <3>1. N \in SUBSET Int /\ IsFiniteSet(N) /\ base \in Nat
      BY <1>1, NoncesAreFinite DEF TurnInv, TypeOK
    <3> HIDE DEF N
    <3>2. g \in Int /\ g >= base /\ g \notin N
      BY <3>1, FirstMissingIsFirstFree
    <3>3. t = g
      BY <3>2 DEF TransactionCount
    <3> QED
      BY <3>2, <3>3
  <2>9. \A m \in rows' : nonce'[m] # told'[c]
    BY <1>1, <2>7, <2>8
  <2> HIDE DEF N
  <2>10. RowsAreDistinct'
    BY <1>1 DEF TurnInv, TimelyIsFree, RowsAreDistinct
  <2>11. TimelyIsFree'
    BY <2>3, <2>4, <2>6, <2>9, <2>10 DEF TimelyIsFree
  <2> QED
    BY <2>5, <2>11 DEF TurnInv
<1> QED
  BY <1>2, <1>3

\* The row of a timely mint is the only one of its nonce, and nobody has been
\* told or has sent that nonce in the meantime.
LEMMA RecordTakesTurns ==
    ASSUME TurnInv, TypeOK', NEW c \in Clients \cup {Nobody}, NEW m \in Mints,
           Record(c, m)
    PROVE  TurnInv'
<1> USE ClientsAssumption
<1>1. /\ line # <<>> /\ line[1] = Mint(c, m) /\ Leave
      /\ line[1].client = c /\ line[1].kind = "mint" /\ line[1].mint = m
      /\ UNCHANGED <<coming, nonce, told, late>> /\ rows' = rows \cup {m}
  BY RequestFields DEF Record, AtHead
<1>2. PICK p \in {"idle", "unsure"} : Reply(c, p)
  BY DEF Record
<1>3. OneWaits' /\ TimelyInTurn'
  BY <1>1, <1>2, HolderLeaves
<1>4. CASE m \in late
  <2>1. rows' \ late' \subseteq rows \ late
    BY <1>1, <1>4
  <2> QED
    BY <1>1, <1>2, <2>1, HolderLeaves
<1>5. CASE m \notin late
  <2>1. /\ line \in Seq(Requests) /\ Len(line) \in Nat /\ 1 \in DOMAIN line
        /\ DOMAIN line = 1..Len(line) /\ line' = Tail(line)
        /\ DOMAIN line' = 1..Len(line) - 1
        /\ \A i \in DOMAIN line' : line'[i] = line[i + 1] /\ i + 1 \in DOMAIN line
                                   /\ i + 1 # 1
    BY <1>1 DEF TurnInv, TypeOK, Leave
  <2>2. Timely(1)
    BY <1>1, <1>5 DEF Timely
  <2>3. \A i \in DOMAIN line' : ~ Timely(i)'
    <3>1. \A i \in DOMAIN line' : Timely(i)' => Timely(i + 1)
      BY <1>1, <2>1 DEF Timely
    <3> QED
      BY <2>1, <2>2, <3>1 DEF TurnInv, TimelyInTurn
  <2>4. /\ \A r \in coming' : ~ (Waits(r) /\ r.kind = "mint")
        /\ \A d \in Clients : phase[d] # "told"
    BY <1>1, <2>1, <2>2 DEF TurnInv, TimelyInTurn
  <2>5. \A d \in Clients : phase'[d] # "told"
    BY <1>2, <2>4 DEF Reply, TurnInv, TypeOK
  <2>6. \A k \in rows \ late : nonce[k] = nonce[m] => k = m
    BY <1>1, <2>1, <2>2 DEF TurnInv, TimelyIsFree
  <2>7. RowsAreDistinct'
    BY <1>1, <2>6 DEF TurnInv, TimelyIsFree, RowsAreDistinct
  <2>8. TimelyIsFree'
    BY <2>3, <2>4, <2>5, <2>7 DEF TimelyIsFree
  <2> QED
    BY <1>3, <2>8 DEF TurnInv
<1> QED
  BY <1>4, <1>5

LEMMA StepTakesTurns ==
    ASSUME TurnInv, [Next]_vars, NEW only, Clients = {only}, Resenders = {}
    PROVE  TurnInv'
<1>1. TypeOK'
  BY StepType DEF TurnInv
<1>2. ASSUME NEW c \in Clients, Client(c)
      PROVE  TurnInv'
  BY <1>1, <1>2, AskTakesTurns, SendTakesTurns, RetryTakesTurns, GiveUpTakesTurns
     DEF Client
<1>3. ASSUME NEW r \in coming, Arrive(r) \/ NeverArrives(r)
      PROVE  TurnInv'
  BY <1>1, <1>3, ArriveTakesTurns, NeverArrivesTakesTurns
<1>4. ASSUME NEW c \in Clients \cup {Nobody}, GetTransactionCount(c)
      PROVE  TurnInv'
  BY <1>1, <1>4, CountTakesTurns
<1>5. ASSUME NEW c \in Clients \cup {Nobody}, CountFails(c)
      PROVE  TurnInv'
  <2>1. /\ line # <<>> /\ line[1].client = c /\ Leave
        /\ UNCHANGED <<coming, nonce, rows, told, late>> /\ Reply(c, "idle")
    BY <1>5, RequestFields DEF CountFails, AtHead
  <2> QED
    BY <1>1, <2>1, HolderLeaves
<1>6. ASSUME NEW c \in Clients \cup {Nobody}, NEW m \in Mints,
             Refuse(c, m) \/ Abandon(c, m)
      PROVE  TurnInv'
  <2>1. /\ line # <<>> /\ line[1].client = c /\ Leave
        /\ UNCHANGED <<coming, nonce, rows, told, late>>
    BY <1>6, RequestFields DEF Refuse, Abandon, AtHead
  <2>2. PICK p \in {"idle", "unsure"} : Reply(c, p)
    BY <1>6 DEF Refuse, Abandon
  <2> QED
    BY <1>1, <2>1, <2>2, HolderLeaves
<1>7. ASSUME NEW c \in Clients \cup {Nobody}, NEW m \in Mints, Record(c, m)
      PROVE  TurnInv'
  BY <1>1, <1>7, RecordTakesTurns
<1>8. ASSUME UNCHANGED <<phase, told, coming, line, nonce, rows, late>>
      PROVE  TurnInv'
  BY <1>1, <1>8, LineStays
<1>9. ASSUME NEW c \in Clients \cup {Nobody}, NEW m \in Mints, Open(c, m)
      PROVE  TurnInv'
  BY <1>8, <1>9 DEF Open, clients
<1>10. ASSUME NEW i \in DOMAIN line, Drop(i)
       PROVE  TurnInv'
  BY <1>1, <1>10, DropTakesTurns
<1>11. CASE Restart
  BY <1>1, <1>11, RestartTakesTurns
<1>12. CASE Brc20Executes \/ Terminating \/ UNCHANGED vars
  BY <1>8, <1>12 DEF Brc20Executes, Terminating, vars, clients, server
<1>13. ASSUME NEW c \in Clients \cup {Nobody}, GetBrc20Nonce(c)
       PROVE  TurnInv'
  BY <1>8, <1>13 DEF GetBrc20Nonce, clients
<1>14. ASSUME NEW m \in Mints, Broadcast(m)
       PROVE  TurnInv'
  BY <1>8, <1>14 DEF Broadcast, clients
<1> QED
  BY <1>2, <1>3, <1>4, <1>5, <1>6, <1>7, <1>9, <1>10, <1>11, <1>12, <1>13, <1>14
     DEF Next, Serve

\* A client that asks for a nonce before each transaction, and sends or asks
\* nothing before the last request is answered or given up, has two mints of
\* one nonce in the table only if it gave one of them up before it reached the
\* Mutex, however many it makes and gives up, in whatever order its requests
\* get to the Mutex, and whenever the process is restarted or reset.
THEOREM TurnsKeepRowsDistinct ==
    ASSUME NEW only, Clients = {only}, Resenders = {}
    PROVE  Spec => []RowsAreDistinct
<1>1. Init => TurnInv
  <2> SUFFICES ASSUME Init
               PROVE  TurnInv
    OBVIOUS
  <2>1. TypeOK
    BY InitType
  <2>2. coming = {} /\ DOMAIN line = {} /\ rows = {}
    BY DEF Init
  <2> QED
    BY <2>1, <2>2 DEF TurnInv, OneWaits, TimelyInTurn, TimelyIsFree, RowsAreDistinct
<1>2. TurnInv /\ [Next]_vars => TurnInv'
  BY StepTakesTurns
<1>3. TurnInv => RowsAreDistinct
  BY DEF TurnInv, TimelyIsFree
<1> QED
  BY <1>1, <1>2, <1>3, PTL DEF Spec

-----------------------------------------------------------------------------
(* The minter alone.                                                       *)

LEMMA PromiseStep ==
    /\ Promise!TypeOK /\ Promise!VerdictIsTrue /\ [Promise!Next]_Promise!vars
    => Promise!TypeOK' /\ Promise!VerdictIsTrue'
<1> SUFFICES ASSUME Promise!TypeOK, Promise!VerdictIsTrue,
                    [Promise!Next]_Promise!vars
             PROVE  Promise!TypeOK' /\ Promise!VerdictIsTrue'
  OBVIOUS
<1> USE DEF Promise!TypeOK, Promise!VerdictIsTrue
<1> DEFINE Goal == Promise!TypeOK' /\ Promise!VerdictIsTrue'
<1>1. ASSUME NEW m \in Mints, Promise!Open(m) PROVE Goal
  BY <1>1 DEF Promise!Open
<1>2. ASSUME NEW m \in Mints, Promise!Broadcast(m) PROVE Goal
  BY <1>2 DEF Promise!Broadcast
<1>3. ASSUME NEW m \in Mints, Promise!Record(m) PROVE Goal
  BY <1>3 DEF Promise!Record
<1>4. ASSUME NEW m \in Mints, Promise!Abandon(m) PROVE Goal
  BY <1>4 DEF Promise!Abandon
<1>5. ASSUME NEW m \in Mints, Promise!Refuse(m) PROVE Goal
  BY <1>5 DEF Promise!Refuse
<1>6. ASSUME UNCHANGED Promise!vars PROVE Goal
  BY <1>6 DEF Promise!vars
<1> QED
  BY <1>1, <1>2, <1>3, <1>4, <1>5, <1>6 DEF Promise!Next

\* Whoever keeps the promise of MintPromise, for any set of mints, gives true
\* verdicts: "ok" is recorded, what is recorded is out, and "err" has put
\* nothing out.
THEOREM PromiseIsTruthful == Promise!Spec => []Promise!VerdictIsTrue
<1>1. Promise!Init => Promise!TypeOK /\ Promise!VerdictIsTrue
  BY DEF Promise!Init, Promise!TypeOK, Promise!VerdictIsTrue
<1> QED
  BY <1>1, PromiseStep, PTL DEF Promise!Spec
=============================================================================
