-------------------------- MODULE MintServer_proofs --------------------------
(***************************************************************************)
(* Proofs about MintServer for every set of requests, every batch, every   *)
(* wallet and every bound.                                                 *)
(***************************************************************************)
EXTENDS MintServer, NonceQuery_proofs

USE SizeAssumption, MethodAssumption, NonceAssumption, AttemptsAssumption,
    BoundsAssumption

(***************************************************************************)
(* What a call is.                                                         *)
(***************************************************************************)
LEMMA CallsAre ==
    /\ \A t \in Tasks : \A i \in 1..Size[t] : <<t, i>> \in Calls
    /\ \A x \in Calls : /\ x = <<x[1], x[2]>>
                        /\ x[1] \in Tasks /\ x[2] \in Nat
                        /\ x[2] >= 1 /\ x[2] <= Size[x[1]]
<1>1. \A t \in Tasks : \A i \in 1..Size[t] : <<t, i>> \in Calls
  BY DEF Calls
<1>2. ASSUME NEW x \in Calls
      PROVE  x = <<x[1], x[2]>> /\ x[1] \in Tasks /\ x[2] \in 1..Size[x[1]]
  BY DEF Calls
<1>3. \A t \in Tasks : \A i \in 1..Size[t] : i \in Nat /\ i >= 1 /\ i <= Size[t]
  OBVIOUS
<1> QED
  BY <1>1, <1>2, <1>3

LEMMA CurIsCall ==
    ASSUME TypeOK, NEW t \in Tasks, idx[t] <= Size[t]
    PROVE  Cur(t) \in Calls /\ Cur(t)[1] = t /\ Cur(t)[2] = idx[t]
<1>1. idx[t] \in 1..Size[t]
  BY DEF TypeOK
<1> QED
  BY <1>1, CallsAre DEF Cur

(***************************************************************************)
(* The table is finite, so what the query returns is a nonce.              *)
(***************************************************************************)
LEMMA CallsAreFinite == IsFiniteSet(Calls)
<1> DEFINE batches == {{t} \X (1..Size[t]) : t \in Tasks}
<1>1. IsFiniteSet(batches)
  <2>1. [t \in Tasks |-> {t} \X (1..Size[t])] \in Surjection(Tasks, batches)
    BY DEF Surjection
  <2> QED
    BY <2>1, TasksAssumption, FS_Surjection
<1>2. \A b \in batches : IsFiniteSet(b)
  <2>1. ASSUME NEW t \in Tasks PROVE IsFiniteSet({t} \X (1..Size[t]))
    <3>1. IsFiniteSet({t})
      BY FS_Singleton
    <3>2. IsFiniteSet(1..Size[t])
      <4>1. Size[t] \in Int
        OBVIOUS
      <4> QED
        BY <4>1, FS_Interval
    <3> QED
      BY <3>1, <3>2, FS_Product
  <2> QED
    BY <2>1
<1> HIDE DEF batches
<1>3. IsFiniteSet(UNION batches)
  BY <1>1, <1>2, FS_UNION
<1> QED
  BY <1>3 DEF batches, Calls

LEMMA RowsGiveACount ==
    ASSUME TypeOK, NEW t \in Tasks
    PROVE  /\ {Nonce[c] : c \in rows} \in SUBSET Nat
           /\ IsFiniteSet({Nonce[c] : c \in rows})
           /\ TransactionCount({Nonce[c] : c \in rows}, base[t]) \in Nat
<1>1. rows \subseteq Calls /\ base[t] \in Nat
  BY DEF TypeOK, SendCalls
<1>2. IsFiniteSet(rows)
  BY <1>1, CallsAreFinite, FS_Subset
<1>3. IsFiniteSet({Nonce[c] : c \in rows})
  <2>1. [c \in rows |-> Nonce[c]] \in Surjection(rows, {Nonce[c] : c \in rows})
    BY DEF Surjection
  <2> QED
    BY <1>2, <2>1, FS_Surjection
<1>4. {Nonce[c] : c \in rows} \in SUBSET Nat
  BY DEF TypeOK
<1> QED
  BY <1>1, <1>3, <1>4, TransactionCountIsFirstFree

-----------------------------------------------------------------------------
(***************************************************************************)
(* The node's answers are views of the mints.                              *)
(***************************************************************************)
LEMMA NodeViews ==
    ASSUME TypeOK, NEW c \in SendCalls, NEW k \in 1..3
    PROVE  AfterSend(c, k) \subseteq [SendCalls -> 0..3]
<1>1. Survivors(c) \subseteq [SendCalls -> 0..3]
  BY DEF Survivors
<1>2. [node EXCEPT ![c] = k] \in [SendCalls -> 0..3]
  BY DEF TypeOK
<1> QED
  BY <1>1, <1>2 DEF AfterSend

LEMMA OutpointsAreTyped ==
    \A level : Unspent(level) \subseteq Outpoint
BY DEF Unspent, Created, Outpoint

(***************************************************************************)
(* The moves preserve the types of what they change.                       *)
(***************************************************************************)
LEMMA FinishType ==
    ASSUME TypeOK, NEW t \in Tasks, idx[t] <= Size[t],
           NEW r \in {"ok", "err"}, Finish(t, r)
    PROVE  /\ pc' \in [Tasks -> {"idle"} \cup Live \cup Ends]
           /\ idx' \in [Tasks -> Nat]
           /\ \A u \in Tasks : idx'[u] \in 1..(Size[u] + 1)
           /\ step' \in [Tasks -> Nat]
           /\ ahead' \in [Tasks -> SUBSET Tasks]
           /\ result' \in [Calls -> {"none", "ok", "err"}]
           /\ \A u \in Tasks \ {t} :
                 pc'[u] = pc[u] /\ idx'[u] = idx[u] /\ step'[u] = step[u]
           /\ pc'[t] = "ready"
<1>1. idx[t] + 1 \in 1..(Size[t] + 1)
  BY DEF TypeOK
<1>2. idx' \in [Tasks -> Nat] /\ \A u \in Tasks : idx'[u] \in 1..(Size[u] + 1)
  BY <1>1 DEF TypeOK, Finish
<1>3. ahead' \in [Tasks -> SUBSET Tasks]
  BY DEF TypeOK, Finish, Unlock
<1> QED
  BY <1>2, <1>3 DEF TypeOK, Finish, Goto, Live

LEMMA PanicType ==
    ASSUME TypeOK, NEW t \in Tasks, Panic(t)
    PROVE  /\ pc' \in [Tasks -> {"idle"} \cup Live \cup Ends]
           /\ ahead' \in [Tasks -> SUBSET Tasks]
           /\ \A u \in Tasks \ {t} : pc'[u] = pc[u]
           /\ pc'[t] = "panicked"
BY DEF TypeOK, Panic, Goto, Unlock, Ends

LEMMA ProceedType ==
    ASSUME TypeOK, NEW t \in Tasks, NEW p \in Live, Proceed(t, p)
    PROVE  /\ pc' \in [Tasks -> {"idle"} \cup Live \cup Ends]
           /\ step' \in [Tasks -> Nat]
           /\ \A u \in Tasks \ {t} : pc'[u] = pc[u] /\ step'[u] = step[u]
           /\ pc'[t] = p /\ step'[t] = 0
BY DEF TypeOK, Proceed, Goto

LEMMA OneMoreType ==
    ASSUME TypeOK, NEW t \in Tasks, OneMore(t)
    PROVE  /\ step' \in [Tasks -> Nat]
           /\ \A u \in Tasks \ {t} : step'[u] = step[u]
           /\ step'[t] = step[t] + 1
BY DEF TypeOK, OneMore

(***************************************************************************)
(* Type correctness, with the method of the call each task is at.          *)
(***************************************************************************)
LEMMA TypeInit == Init => TypeOK /\ AtCall
<1> SUFFICES ASSUME Init PROVE TypeOK /\ AtCall
  OBVIOUS
<1>1. \A t \in Tasks : 1 \in 1..(Size[t] + 1)
  OBVIOUS
<1>2. TypeOK
  BY <1>1 DEF Init, TypeOK
<1>3. AtCall
  BY DEF Init, AtCall, InLine, Held
<1> QED
  BY <1>2, <1>3

\* The parts of TypeOK that no task's control state belongs to.
DataOK ==
    /\ base \in [Tasks -> Nat]
    /\ answer \in [Calls -> Nat]
    /\ commit \in [SendCalls -> [ins : SUBSET Outpoint, change : BOOLEAN]]
    /\ node \in [SendCalls -> 0..3]
    /\ rows \in SUBSET SendCalls
    /\ brc20Nonce \in Nat
    /\ crashes \in Nat

LEMMA FinishKeeps ==
    ASSUME TypeOK, AtCall, NEW t \in Tasks, idx[t] <= Size[t],
           NEW r \in {"ok", "err"}, Finish(t, r), DataOK'
    PROVE  TypeOK' /\ AtCall'
<1>1. TypeOK'
  BY FinishType DEF TypeOK, DataOK
<1>2. AtCall'
  BY FinishType DEF AtCall, Cur, InLine, Held
<1> QED
  BY <1>1, <1>2

LEMMA PanicKeeps ==
    ASSUME TypeOK, AtCall, NEW t \in Tasks, Panic(t), DataOK'
    PROVE  TypeOK' /\ AtCall'
<1>1. TypeOK'
  BY PanicType DEF TypeOK, DataOK, Panic, task
<1>2. AtCall'
  BY PanicType DEF AtCall, Cur, InLine, Held, Panic, task
<1> QED
  BY <1>1, <1>2

LEMMA ProceedKeeps ==
    ASSUME TypeOK, AtCall, NEW t \in Tasks, NEW p \in Live, Proceed(t, p), DataOK',
           p # "queued", idx[t] <= Size[t],
           p = "fee" => Method[Cur(t)] \in {"send", "gasPrice"},
           p \in {"decode", "check", "test", "send", "record"}
             => Method[Cur(t)] = "send",
           p \in {"nonce", "query"} => Method[Cur(t)] = "count",
           p = "gas" => Method[Cur(t)] = "estimate",
           p = "proxy" => Method[Cur(t)] = "proxy"
    PROVE  TypeOK' /\ AtCall'
<1>1. TypeOK'
  BY ProceedType DEF TypeOK, DataOK, Proceed
<1>2. idx' = idx
  BY DEF Proceed
<1>3. AtCall'
  <2> SUFFICES ASSUME NEW u \in Tasks
               PROVE  /\ pc'[u] \in InLine \cup {"proxy"} => idx'[u] <= Size[u]
                      /\ pc'[u] = "queued" => Method[Cur(u)'] \in LockMethods
                      /\ pc'[u] = "fee" => Method[Cur(u)'] \in {"send", "gasPrice"}
                      /\ pc'[u] \in {"decode", "check", "test", "send", "record"}
                            => Method[Cur(u)'] = "send"
                      /\ pc'[u] \in {"nonce", "query"} => Method[Cur(u)'] = "count"
                      /\ pc'[u] = "gas" => Method[Cur(u)'] = "estimate"
                      /\ pc'[u] = "proxy" => Method[Cur(u)'] = "proxy"
                      /\ pc'[u] \in {"test", "send"} => step'[u] <= 2
    BY DEF AtCall
  <2>1. Cur(u)' = Cur(u)
    BY <1>2 DEF Cur
  <2>2. CASE u = t
    BY <1>2, <2>1, <2>2, ProceedType
  <2>3. CASE u # t
    BY <1>2, <2>1, <2>3, ProceedType DEF AtCall
  <2> QED
    BY <2>2, <2>3
<1> QED
  BY <1>1, <1>3

LEMMA OneMoreKeeps ==
    ASSUME TypeOK, AtCall, NEW t \in Tasks, OneMore(t), DataOK',
           pc[t] \in {"test", "send"} => step[t] < 2
    PROVE  TypeOK' /\ AtCall'
<1>1. TypeOK'
  BY OneMoreType DEF TypeOK, DataOK, OneMore
<1>2. step[t] \in Nat
  BY DEF TypeOK
<1>3. AtCall'
  BY <1>2, OneMoreType DEF AtCall, Cur, OneMore
<1> QED
  BY <1>1, <1>3

LEMMA TypeStep == TypeOK /\ AtCall /\ [Next]_vars => TypeOK' /\ AtCall'
<1> SUFFICES ASSUME TypeOK, AtCall, [Next]_vars PROVE TypeOK' /\ AtCall'
  OBVIOUS
<1> USE DEF world, memo
<1>d. DataOK
  BY DEF TypeOK, DataOK
<1>c. \A t \in Tasks : pc[t] \in InLine \cup {"proxy"} => idx[t] <= Size[t]
  BY DEF AtCall
<1>n. \A t \in Tasks : idx[t] <= Size[t] => Cur(t) \in Calls
  BY CurIsCall
<1>1. ASSUME NEW t \in Tasks, Receive(t) PROVE TypeOK' /\ AtCall'
  BY <1>1 DEF Receive, Goto, TypeOK, AtCall, task, Cur, InLine, Held, Live, Ends
<1>2. ASSUME NEW t \in Tasks, Answer(t) PROVE TypeOK' /\ AtCall'
  BY <1>2 DEF Answer, Goto, TypeOK, AtCall, task, Cur, InLine, Held, Live, Ends
<1>3. ASSUME NEW t \in Tasks, InvalidParams(t) PROVE TypeOK' /\ AtCall'
  BY <1>3, <1>d, FinishKeeps DEF InvalidParams, DataOK
<1>4. ASSUME NEW t \in Tasks, Accounts(t) PROVE TypeOK' /\ AtCall'
  BY <1>4, <1>d, FinishKeeps DEF Accounts, DataOK
<1>5. ASSUME NEW t \in Tasks, Enqueue(t) PROVE TypeOK' /\ AtCall'
  BY <1>5 DEF Enqueue, Goto, TypeOK, AtCall, task, Cur, Line, InLine, Held, Live
<1>6. ASSUME NEW t \in Tasks, Acquire(t) PROVE TypeOK' /\ AtCall'
  <2>1. Method[Cur(t)] \in LockMethods /\ idx[t] <= Size[t]
    BY <1>6 DEF Acquire, AtCall, InLine
  <2> DEFINE p == Entry[Method[Cur(t)]]
  <2>2. /\ p \in {"utxos", "nonce", "gas", "decode", "fee"}
        /\ p = "fee" => Method[Cur(t)] = "gasPrice"
        /\ p = "decode" => Method[Cur(t)] = "send"
        /\ p = "nonce" => Method[Cur(t)] = "count"
        /\ p = "gas" => Method[Cur(t)] = "estimate"
    BY <2>1 DEF LockMethods, Entry
  <2>3. Proceed(t, p) /\ DataOK'
    BY <1>6, <1>d DEF Acquire, DataOK
  <2> HIDE DEF p
  <2> QED
    BY <2>1, <2>2, <2>3, ProceedKeeps DEF Live, InLine, Held
<1>7. ASSUME NEW t \in Tasks, StartProxy(t) PROVE TypeOK' /\ AtCall'
  BY <1>7, <1>d, ProceedKeeps DEF StartProxy, DataOK, Live
<1>8. ASSUME NEW t \in Tasks, Proxy(t) PROVE TypeOK' /\ AtCall'
  BY <1>8, <1>d, <1>c, FinishKeeps, PanicKeeps DEF Proxy, DataOK, Panic, task
<1>9. ASSUME NEW t \in Tasks, Decode(t) PROVE TypeOK' /\ AtCall'
  <2>1. Method[Cur(t)] = "send" /\ idx[t] <= Size[t] /\ DataOK'
    BY <1>9, <1>d DEF Decode, AtCall, InLine, Held, DataOK
  <2> QED
    BY <1>9, <2>1, FinishKeeps, ProceedKeeps DEF Decode, Live, InLine, Held
<1>10. ASSUME NEW t \in Tasks, AttemptFails(t) PROVE TypeOK' /\ AtCall'
  BY <1>10, <1>d, OneMoreKeeps, PanicKeeps DEF AttemptFails, DataOK, Panic, task
<1>11. ASSUME NEW t \in Tasks, GetMempoolFeeRate(t) PROVE TypeOK' /\ AtCall'
  <2>1. Method[Cur(t)] \in {"send", "gasPrice"} /\ idx[t] <= Size[t] /\ DataOK'
    BY <1>11, <1>d DEF GetMempoolFeeRate, AtCall, InLine, Held, DataOK
  <2> QED
    BY <1>11, <2>1, FinishKeeps, ProceedKeeps DEF GetMempoolFeeRate, Live, InLine, Held
<1>12. ASSUME NEW t \in Tasks, CheckFeeRate(t) PROVE TypeOK' /\ AtCall'
  <2>1. Method[Cur(t)] = "send" /\ idx[t] <= Size[t] /\ DataOK'
    BY <1>12, <1>d DEF CheckFeeRate, AtCall, InLine, Held, DataOK
  <2> QED
    BY <1>12, <2>1, FinishKeeps, ProceedKeeps DEF CheckFeeRate, Live, InLine, Held
<1>13. ASSUME NEW t \in Tasks, GetBalance(t) PROVE TypeOK' /\ AtCall'
  BY <1>13, <1>d, <1>c, FinishKeeps, PanicKeeps
     DEF GetBalance, DataOK, Panic, task, InLine, Held
<1>14. ASSUME NEW t \in Tasks, ConstructMintTxes(t) PROVE TypeOK' /\ AtCall'
  <2>1. Method[Cur(t)] = "send" /\ idx[t] <= Size[t]
    BY <1>14, <1>c DEF ConstructMintTxes, InLine, Held
  <2>2. commit' \in [SendCalls -> [ins : SUBSET Outpoint, change : BOOLEAN]]
    BY <1>14, OutpointsAreTyped DEF ConstructMintTxes, TypeOK
  <2>3. DataOK'
    BY <1>14, <1>d, <2>2 DEF ConstructMintTxes, DataOK
  <2> QED
    BY <1>14, <2>1, <2>3, FinishKeeps, ProceedKeeps
       DEF ConstructMintTxes, Live, InLine, Held
<1>15. ASSUME NEW t \in Tasks, TestMempoolAccept(t) PROVE TypeOK' /\ AtCall'
  <2>1. Method[Cur(t)] = "send" /\ idx[t] <= Size[t] /\ DataOK'
    BY <1>15, <1>d DEF TestMempoolAccept, AtCall, InLine, Held, DataOK
  <2> QED
    BY <1>15, <2>1, FinishKeeps, ProceedKeeps, OneMoreKeeps
       DEF TestMempoolAccept, Live, InLine, Held
<1>16. ASSUME NEW t \in Tasks, SendRawTransaction(t) PROVE TypeOK' /\ AtCall'
  <2>1. Method[Cur(t)] = "send" /\ idx[t] <= Size[t] /\ step[t] + 1 \in 1..3
    <3>1. pc[t] = "send" /\ step[t] \in Nat
      BY <1>16 DEF SendRawTransaction, TypeOK
    <3>2. step[t] <= 2 /\ Method[Cur(t)] = "send" /\ idx[t] <= Size[t]
      BY <3>1, <1>c DEF AtCall, InLine, Held
    <3> QED
      BY <3>1, <3>2
  <2>2. node' \in [SendCalls -> 0..3]
    <3>1. Cur(t) \in SendCalls
      BY <1>n, <2>1 DEF SendCalls
    <3>2. AfterSend(Cur(t), step[t] + 1) \subseteq [SendCalls -> 0..3]
      BY <2>1, <3>1, NodeViews
    <3> QED
      BY <1>16, <3>2 DEF SendRawTransaction, TypeOK
  <2>3. DataOK'
    BY <1>16, <1>d, <2>2 DEF SendRawTransaction, DataOK, Panic, task
  <2> QED
    BY <1>16, <2>1, <2>3, PanicKeeps, ProceedKeeps, OneMoreKeeps
       DEF SendRawTransaction, Live, InLine, Held
<1>17. ASSUME NEW t \in Tasks, AddTx(t) PROVE TypeOK' /\ AtCall'
  <2>1. Cur(t) \in SendCalls /\ idx[t] <= Size[t]
    BY <1>17, <1>n DEF AddTx, AtCall, InLine, Held, SendCalls
  <2>2. DataOK'
    BY <1>17, <1>d, <2>1 DEF AddTx, DataOK, Panic, task
  <2> QED
    BY <1>17, <2>1, <2>2, FinishKeeps, PanicKeeps DEF AddTx
<1>18. ASSUME NEW t \in Tasks, GetBrc20Nonce(t) PROVE TypeOK' /\ AtCall'
  <2>1. idx[t] <= Size[t] /\ Method[Cur(t)] = "count"
    BY <1>18, <1>c DEF GetBrc20Nonce, AtCall, InLine, Held
  <2>2. DataOK'
    BY <1>18, <1>d DEF GetBrc20Nonce, DataOK
  <2> QED
    BY <1>18, <2>1, <2>2, FinishKeeps, ProceedKeeps DEF GetBrc20Nonce, Live, InLine, Held
<1>19. ASSUME NEW t \in Tasks, GetTransactionCount(t) PROVE TypeOK' /\ AtCall'
  <2>1. idx[t] <= Size[t]
    BY <1>19, <1>c DEF GetTransactionCount, InLine, Held
  <2>2. DataOK'
    BY <1>19, <1>d, RowsGiveACount DEF GetTransactionCount, DataOK, Panic, task
  <2> QED
    BY <1>19, <2>1, <2>2, FinishKeeps, PanicKeeps DEF GetTransactionCount
<1>20. ASSUME NEW t \in Tasks, EstimateGas(t) PROVE TypeOK' /\ AtCall'
  BY <1>20, <1>d, <1>c, FinishKeeps, PanicKeeps
     DEF EstimateGas, DataOK, Panic, task, InLine, Held
<1>21. ASSUME NEW t \in Tasks, Disconnect(t) PROVE TypeOK' /\ AtCall'
  <2>1. rows' \in SUBSET SendCalls
    BY <1>21, <1>n DEF Disconnect, AtCall, TypeOK, InLine, Held, SendCalls
  <2> QED
    BY <1>21, <2>1 DEF Disconnect, Goto, Unlock, TypeOK, AtCall, task, Cur,
                       InLine, Held, Live, Ends
<1>22. ASSUME Crash PROVE TypeOK' /\ AtCall'
  BY <1>22 DEF Crash, TypeOK, AtCall, task, Cur, InLine, Held, Live, Ends
<1>23. ASSUME Brc20Executes PROVE TypeOK' /\ AtCall'
  BY <1>23 DEF Brc20Executes, TypeOK, AtCall, task, Cur
<1>24. ASSUME UNCHANGED vars PROVE TypeOK' /\ AtCall'
  BY <1>24 DEF vars, TypeOK, AtCall, task, Cur
<1> QED
  BY <1>1, <1>2, <1>3, <1>4, <1>5, <1>6, <1>7, <1>8, <1>9, <1>10, <1>11, <1>12,
     <1>13, <1>14, <1>15, <1>16, <1>17, <1>18, <1>19, <1>20, <1>21, <1>22, <1>23,
     <1>24 DEF Next, Serve, Terminating

(***************************************************************************)
(* TypeOK: the variables keep their types, the number every                *)
(* eth_getTransactionCount answers among them.                             *)
(***************************************************************************)
THEOREM TypeCorrect == Spec => []TypeOK
<1> QED
  BY TypeInit, TypeStep, PTL DEF Spec

-----------------------------------------------------------------------------
(***************************************************************************)
(* The Mutex.  A task that leaves the line, whatever way, keeps it a line. *)
(***************************************************************************)
LEMMA LeavingKeepsTheLine ==
    ASSUME TypeOK, LineIsOrdered, NEW t \in Tasks, Unlock(t),
           \A u \in Tasks \ {t} : pc'[u] = pc[u],
           pc'[t] \notin InLine
    PROVE  LineIsOrdered'
<1>1. \A u \in Tasks : ahead'[u] = ahead[u] \ {t}
  BY DEF Unlock
<1>2. Held \subseteq InLine
  BY DEF InLine
<1>3. \A u \in Line' : u # t /\ u \in Line
  BY DEF Line
<1> QED
  BY <1>1, <1>2, <1>3 DEF LineIsOrdered, Line

\* A task whose place in line does not change.
LEMMA StayingKeepsTheLine ==
    ASSUME TypeOK, LineIsOrdered, NEW t \in Tasks, ahead' = ahead,
           \A u \in Tasks \ {t} : pc'[u] = pc[u],
           pc'[t] \in InLine => pc[t] \in InLine,
           pc'[t] \in Held => ahead[t] = {}
    PROVE  LineIsOrdered'
<1>1. Line' \subseteq Line
  BY DEF Line
<1> QED
  BY <1>1 DEF LineIsOrdered

LEMMA LineInit == Init => LineIsOrdered
BY DEF Init, LineIsOrdered, Line, InLine, Held

LEMMA LineStep ==
    TypeOK /\ AtCall /\ LineIsOrdered /\ [Next]_vars => LineIsOrdered'
<1> SUFFICES ASSUME TypeOK, AtCall, LineIsOrdered, [Next]_vars PROVE LineIsOrdered'
  OBVIOUS
<1> USE DEF Goto
<1>f. ASSUME NEW t \in Tasks, NEW r \in {"ok", "err"}, Finish(t, r) PROVE LineIsOrdered'
  BY <1>f, LeavingKeepsTheLine DEF Finish, TypeOK, InLine, Held
<1>p. ASSUME NEW t \in Tasks, Panic(t) PROVE LineIsOrdered'
  BY <1>p, LeavingKeepsTheLine DEF Panic, TypeOK, InLine, Held
<1>h. \A t \in Tasks : pc[t] \in Held => ahead[t] = {}
  BY DEF LineIsOrdered
<1>g. ASSUME NEW t \in Tasks, NEW p, Proceed(t, p), pc[t] \in Held PROVE LineIsOrdered'
  BY <1>g, <1>h, StayingKeepsTheLine DEF Proceed, TypeOK, InLine
<1>o. ASSUME NEW t \in Tasks, OneMore(t) PROVE LineIsOrdered'
  BY <1>o DEF OneMore, LineIsOrdered, Line
<1>1. ASSUME NEW t \in Tasks, Receive(t) \/ Answer(t) PROVE LineIsOrdered'
  BY <1>1, StayingKeepsTheLine DEF Receive, Answer, TypeOK, InLine, Held
<1>2. ASSUME NEW t \in Tasks, Enqueue(t) PROVE LineIsOrdered'
  <2>1. pc[t] = "ready" /\ t \notin Line
    BY <1>2 DEF Enqueue, Line, InLine, Held
  <2>2. /\ pc'[t] = "queued" /\ ahead'[t] = Line
        /\ \A u \in Tasks \ {t} : pc'[u] = pc[u] /\ ahead'[u] = ahead[u]
    BY <1>2 DEF Enqueue, TypeOK
  <2>3. \A u \in Line' : u = t \/ u \in Line
    BY <2>2 DEF Line
  <2>4. \A u \in Line : u # t /\ u \in Tasks
    BY <2>1 DEF Line
  <2>5. \A u \in Tasks : pc'[u] \in Held => ahead'[u] = {}
    BY <2>2, <1>h DEF Held
  <2> QED
    BY <2>2, <2>3, <2>4, <2>5 DEF LineIsOrdered
<1>3. ASSUME NEW t \in Tasks, Acquire(t) PROVE LineIsOrdered'
  BY <1>3, StayingKeepsTheLine DEF Acquire, Proceed, TypeOK, InLine
<1>4. ASSUME NEW t \in Tasks, StartProxy(t) PROVE LineIsOrdered'
  BY <1>4, StayingKeepsTheLine DEF StartProxy, Proceed, TypeOK, InLine, Held
<1>5. ASSUME NEW t \in Tasks,
             InvalidParams(t) \/ Accounts(t) \/ Proxy(t) \/ GetBalance(t)
               \/ AddTx(t) \/ GetTransactionCount(t) \/ EstimateGas(t)
      PROVE  LineIsOrdered'
  BY <1>5, <1>f, <1>p DEF InvalidParams, Accounts, Proxy, GetBalance, AddTx,
                          GetTransactionCount, EstimateGas
<1>6. ASSUME NEW t \in Tasks,
             Decode(t) \/ GetMempoolFeeRate(t) \/ CheckFeeRate(t)
               \/ ConstructMintTxes(t) \/ GetBrc20Nonce(t)
      PROVE  LineIsOrdered'
  <2>1. pc[t] \in Held
    BY <1>6 DEF Decode, GetMempoolFeeRate, CheckFeeRate, ConstructMintTxes,
                GetBrc20Nonce, Held
  <2> QED
    BY <1>6, <2>1, <1>f, <1>g DEF Decode, GetMempoolFeeRate, CheckFeeRate,
                                  ConstructMintTxes, GetBrc20Nonce
<1>7. ASSUME NEW t \in Tasks,
             AttemptFails(t) \/ TestMempoolAccept(t) \/ SendRawTransaction(t)
      PROVE  LineIsOrdered'
  <2>1. pc[t] \in Held
    BY <1>7 DEF AttemptFails, TestMempoolAccept, SendRawTransaction, Held
  <2> QED
    BY <1>7, <2>1, <1>f, <1>g, <1>p, <1>o
       DEF AttemptFails, TestMempoolAccept, SendRawTransaction
<1>8. ASSUME NEW t \in Tasks, Disconnect(t) PROVE LineIsOrdered'
  BY <1>8, LeavingKeepsTheLine DEF Disconnect, TypeOK, InLine, Held
<1>9. ASSUME Crash PROVE LineIsOrdered'
  <2>1. \A t \in Tasks : pc'[t] \notin InLine /\ pc'[t] \notin Held
    BY <1>9 DEF Crash, Live, InLine, Held
  <2> QED
    BY <2>1 DEF LineIsOrdered, Line
<1>10. ASSUME Brc20Executes \/ UNCHANGED vars PROVE LineIsOrdered'
  BY <1>10 DEF Brc20Executes, vars, LineIsOrdered, Line
<1> QED
  BY <1>1, <1>2, <1>3, <1>4, <1>5, <1>6, <1>7, <1>8, <1>9, <1>10
     DEF Next, Serve, Terminating

LEMMA OrderedMeansOneHolder == TypeOK /\ LineIsOrdered => OneHolder
BY DEF LineIsOrdered, OneHolder, Line, InLine

(***************************************************************************)
(* At most one task is inside ServerState, whatever way tasks leave it.    *)
(***************************************************************************)
THEOREM MutualExclusion == Spec => []OneHolder
<1> QED
  BY TypeInit, TypeStep, LineInit, LineStep, OrderedMeansOneHolder, PTL DEF Spec

-----------------------------------------------------------------------------
(***************************************************************************)
(* The line moves: a task that joins waits for those in line, and a task   *)
(* that leaves takes itself out of every wait.                             *)
(***************************************************************************)
LEMMA LeavingMovesTheLine ==
    ASSUME TypeOK, TheLineMoves, NEW t \in Tasks, Unlock(t),
           \A u \in Tasks \ {t} : pc'[u] = pc[u],
           pc'[t] \notin InLine
    PROVE  TheLineMoves'
<1>1. Line' = Line \ {t}
  BY DEF Line
<1> SUFFICES ASSUME NEW W \in (SUBSET Line') \ {{}}
             PROVE  \E u \in W : ahead'[u] \subseteq Line' \ W
  BY DEF TheLineMoves
<1>2. PICK u \in W : ahead[u] \subseteq Line \ W
  BY <1>1 DEF TheLineMoves
<1>3. ahead'[u] = ahead[u] \ {t}
  BY <1>1, <1>2 DEF Unlock, Line
<1> QED
  BY <1>1, <1>2, <1>3

LEMMA StayingMovesTheLine ==
    ASSUME TheLineMoves, Line' = Line, ahead' = ahead
    PROVE  TheLineMoves'
BY DEF TheLineMoves

LEMMA JoiningMovesTheLine ==
    ASSUME TypeOK, TheLineMoves, NEW t \in Tasks, Enqueue(t)
    PROVE  TheLineMoves'
<1>1. /\ t \notin Line /\ Line' = Line \cup {t}
      /\ ahead'[t] = Line /\ \A u \in Tasks \ {t} : ahead'[u] = ahead[u]
  BY DEF Enqueue, Goto, TypeOK, Line, InLine, Held
<1> SUFFICES ASSUME NEW W \in (SUBSET Line') \ {{}}
             PROVE  \E u \in W : ahead'[u] \subseteq Line' \ W
  BY DEF TheLineMoves
<1>2. CASE W = {t}
  BY <1>1, <1>2
<1>3. CASE W # {t}
  <2>1. W \ {t} \in (SUBSET Line) \ {{}}
    BY <1>1, <1>3
  <2>2. PICK u \in W \ {t} : ahead[u] \subseteq Line \ (W \ {t})
    BY <2>1 DEF TheLineMoves
  <2>3. ahead'[u] = ahead[u] /\ ahead[u] \subseteq Line' \ W
    BY <1>1, <2>1, <2>2 DEF Line
  <2> QED
    BY <2>2, <2>3
<1> QED
  BY <1>2, <1>3

\* A task that goes from one state to another, both in line or both not.
LEMMA PassingMovesTheLine ==
    ASSUME TypeOK, TheLineMoves, NEW t \in Tasks, NEW p, Goto(t, p), ahead' = ahead,
           p \in InLine <=> pc[t] \in InLine
    PROVE  TheLineMoves'
<1>1. Line' = Line
  BY DEF Goto, TypeOK, Line
<1> QED
  BY <1>1, StayingMovesTheLine

LEMMA LineMovesStep ==
    TypeOK /\ AtCall /\ TheLineMoves /\ [Next]_vars => TheLineMoves'
<1> SUFFICES ASSUME TypeOK, AtCall, TheLineMoves, [Next]_vars
             PROVE  TheLineMoves'
  OBVIOUS
<1>f. ASSUME NEW t \in Tasks, NEW r \in {"ok", "err"}, Finish(t, r)
      PROVE  TheLineMoves'
  BY <1>f, LeavingMovesTheLine DEF Finish, Goto, TypeOK, InLine, Held
<1>p. ASSUME NEW t \in Tasks, Panic(t)
      PROVE  TheLineMoves'
  BY <1>p, LeavingMovesTheLine DEF Panic, Goto, TypeOK, InLine, Held
<1>g. ASSUME NEW t \in Tasks, NEW p \in Held, Proceed(t, p), pc[t] \in InLine
      PROVE  TheLineMoves'
  BY <1>g, PassingMovesTheLine DEF Proceed, InLine
<1>o. ASSUME NEW t \in Tasks, OneMore(t)
      PROVE  TheLineMoves'
  <2>1. Line' = Line /\ ahead' = ahead
    BY <1>o DEF OneMore, Line
  <2> QED
    BY <2>1, StayingMovesTheLine
<1>1. ASSUME NEW t \in Tasks, Receive(t) \/ Answer(t)
      PROVE  TheLineMoves'
  BY <1>1, PassingMovesTheLine DEF Receive, Answer, InLine, Held
<1>2. ASSUME NEW t \in Tasks, Enqueue(t)
      PROVE  TheLineMoves'
  BY <1>2, JoiningMovesTheLine
<1>3. ASSUME NEW t \in Tasks, Acquire(t)
      PROVE  TheLineMoves'
  <2>1. Method[Cur(t)] \in LockMethods
    BY <1>3 DEF Acquire, AtCall
  <2>2. Entry[Method[Cur(t)]] \in Held
    BY <2>1 DEF Entry, LockMethods, Held
  <2> QED
    BY <1>3, <1>g, <2>2 DEF Acquire, InLine
<1>4. ASSUME NEW t \in Tasks, StartProxy(t)
      PROVE  TheLineMoves'
  BY <1>4, PassingMovesTheLine DEF StartProxy, Proceed, InLine, Held
<1>5. ASSUME NEW t \in Tasks,
             InvalidParams(t) \/ Accounts(t) \/ Proxy(t) \/ GetBalance(t)
               \/ AddTx(t) \/ GetTransactionCount(t) \/ EstimateGas(t)
      PROVE  TheLineMoves'
  BY <1>5, <1>f, <1>p DEF InvalidParams, Accounts, Proxy, GetBalance, AddTx,
                          GetTransactionCount, EstimateGas
<1>6. ASSUME NEW t \in Tasks,
             Decode(t) \/ GetMempoolFeeRate(t) \/ CheckFeeRate(t)
               \/ ConstructMintTxes(t) \/ GetBrc20Nonce(t)
      PROVE  TheLineMoves'
  BY <1>6, <1>f, <1>g DEF Decode, GetMempoolFeeRate, CheckFeeRate, ConstructMintTxes,
                          GetBrc20Nonce, InLine, Held
<1>7. ASSUME NEW t \in Tasks,
             AttemptFails(t) \/ TestMempoolAccept(t) \/ SendRawTransaction(t)
      PROVE  TheLineMoves'
  BY <1>7, <1>f, <1>g, <1>p, <1>o
     DEF AttemptFails, TestMempoolAccept, SendRawTransaction, InLine, Held
<1>8. ASSUME NEW t \in Tasks, Disconnect(t)
      PROVE  TheLineMoves'
  BY <1>8, LeavingMovesTheLine DEF Disconnect, Goto, TypeOK, InLine, Held
<1>9. ASSUME Crash
      PROVE  TheLineMoves'
  <2>1. Line' = {}
    BY <1>9 DEF Crash, Line, Live, InLine, Held
  <2> QED
    BY <2>1 DEF TheLineMoves
<1>10. ASSUME Brc20Executes \/ UNCHANGED vars
       PROVE  TheLineMoves'
  <2>1. Line' = Line /\ ahead' = ahead
    BY <1>10 DEF Brc20Executes, vars, Line
  <2> QED
    BY <2>1, StayingMovesTheLine
<1> QED
  BY <1>1, <1>2, <1>3, <1>4, <1>5, <1>6, <1>7, <1>8, <1>9, <1>10
     DEF Next, Serve, Terminating

(***************************************************************************)
(* No deadlock at the Mutex, for any number of requests: nobody waits for  *)
(* a task that has gone, nor in a circle.                                  *)
(***************************************************************************)
THEOREM NoDeadlock == Spec => []TheLineMoves
<1>1. Init => TheLineMoves
  BY DEF Init, TheLineMoves, Line, InLine, Held
<1> QED
  BY <1>1, TypeInit, TypeStep, LineMovesStep, PTL DEF Spec

-----------------------------------------------------------------------------
(***************************************************************************)
(* What a request has left to do only gets less.                           *)
(***************************************************************************)
Moved(t) == <<pc'[t], idx'[t], step'[t]>> # <<pc[t], idx[t], step[t]>>

OnlyForward == \A t \in Tasks : Moved(t) => GoesForward(t)

\* The other tasks do not move.
LEMMA OneTaskMoves ==
    ASSUME NEW t \in Tasks, GoesForward(t),
           \A u \in Tasks \ {t} : pc'[u] = pc[u] /\ idx'[u] = idx[u] /\ step'[u] = step[u]
    PROVE  OnlyForward
BY DEF OnlyForward, Moved

LEMMA NoTaskMoves ==
    ASSUME pc' = pc, idx' = idx, step' = step
    PROVE  OnlyForward
BY DEF OnlyForward, Moved

LEMMA LaterStage ==
    ASSUME TypeOK, NEW t \in Tasks, NEW p, Goto(t, p), idx' = idx,
           \A u \in Tasks \ {t} : step'[u] = step[u],
           Stage[pc[t]] < Stage[p]
    PROVE  OnlyForward
<1>1. pc'[t] = p /\ \A u \in Tasks \ {t} : pc'[u] = pc[u]
  BY DEF Goto, TypeOK
<1>2. GoesForward(t)
  BY <1>1 DEF GoesForward
<1> QED
  BY <1>1, <1>2, OneTaskMoves

LEMMA FinishGoesForward ==
    ASSUME TypeOK, NEW t \in Tasks, NEW r, Finish(t, r)
    PROVE  OnlyForward
<1>1. /\ idx'[t] = idx[t] + 1
      /\ \A u \in Tasks \ {t} : pc'[u] = pc[u] /\ idx'[u] = idx[u] /\ step'[u] = step[u]
  BY DEF Finish, Goto, TypeOK
<1> QED
  BY <1>1, OneTaskMoves DEF GoesForward

LEMMA PanicGoesForward ==
    ASSUME TypeOK, NEW t \in Tasks, Panic(t), pc[t] \in Live
    PROVE  OnlyForward
<1>1. Stage[pc[t]] < Stage["panicked"]
  BY DEF Stage, Live, InLine, Held
<1> QED
  BY <1>1, LaterStage DEF Panic, task

LEMMA ProceedGoesForward ==
    ASSUME TypeOK, NEW t \in Tasks, NEW p, Proceed(t, p), Stage[pc[t]] < Stage[p]
    PROVE  OnlyForward
<1>1. \A u \in Tasks \ {t} : step'[u] = step[u]
  BY DEF Proceed, TypeOK
<1> QED
  BY <1>1, LaterStage DEF Proceed

LEMMA OneMoreGoesForward ==
    ASSUME TypeOK, NEW t \in Tasks, OneMore(t), step[t] + 1 < Rounds(pc[t])
    PROVE  OnlyForward
<1>1. /\ step'[t] = step[t] + 1 /\ pc' = pc /\ idx' = idx
      /\ \A u \in Tasks \ {t} : step'[u] = step[u]
  BY DEF OneMore, TypeOK
<1> QED
  BY <1>1, OneTaskMoves DEF GoesForward

LEMMA StepGoesForward ==
    ASSUME TypeOK, AtCall, [Next]_vars
    PROVE  OnlyForward
<1> USE DEF Stage
<1>1. ASSUME NEW t \in Tasks,
             Receive(t) \/ Answer(t) \/ Enqueue(t)
      PROVE  OnlyForward
  BY <1>1, LaterStage DEF Receive, Answer, Enqueue, task
<1>2. ASSUME NEW t \in Tasks, Acquire(t)
      PROVE  OnlyForward
  <2>1. Method[Cur(t)] \in LockMethods /\ pc[t] = "queued"
    BY <1>2 DEF Acquire, AtCall
  <2>2. Stage[pc[t]] < Stage[Entry[Method[Cur(t)]]]
    BY <2>1 DEF Entry, LockMethods
  <2> QED
    BY <1>2, <2>2, ProceedGoesForward DEF Acquire
<1>3. ASSUME NEW t \in Tasks, StartProxy(t)
      PROVE  OnlyForward
  BY <1>3, ProceedGoesForward DEF StartProxy
<1>4. ASSUME NEW t \in Tasks,
             InvalidParams(t) \/ Accounts(t)
      PROVE  OnlyForward
  BY <1>4, FinishGoesForward DEF InvalidParams, Accounts
<1>5. ASSUME NEW t \in Tasks,
             Proxy(t) \/ AddTx(t) \/ GetTransactionCount(t) \/ EstimateGas(t)
               \/ GetBalance(t)
      PROVE  OnlyForward
  BY <1>5, FinishGoesForward, PanicGoesForward
     DEF Proxy, AddTx, GetTransactionCount, EstimateGas, GetBalance,
         Live, InLine, Held
<1>6. ASSUME NEW t \in Tasks,
             Decode(t) \/ GetMempoolFeeRate(t) \/ CheckFeeRate(t)
               \/ ConstructMintTxes(t) \/ GetBrc20Nonce(t)
      PROVE  OnlyForward
  BY <1>6, FinishGoesForward, ProceedGoesForward
     DEF Decode, GetMempoolFeeRate, CheckFeeRate, ConstructMintTxes, GetBrc20Nonce
<1>7. ASSUME NEW t \in Tasks, AttemptFails(t)
      PROVE  OnlyForward
  <2>1. CASE step[t] + 1 < MaxAttempts
    BY <1>7, <2>1, OneMoreGoesForward DEF AttemptFails, Rounds
  <2>2. CASE ~ (step[t] + 1 < MaxAttempts)
    BY <1>7, <2>2, PanicGoesForward DEF AttemptFails, Live, InLine, Held
  <2> QED
    BY <2>1, <2>2
<1>8. ASSUME NEW t \in Tasks, TestMempoolAccept(t)
      PROVE  OnlyForward
  <2>1. pc[t] = "test" /\ step[t] \in Nat
    BY <1>8 DEF TestMempoolAccept, TypeOK
  <2>2. CASE OneMore(t) /\ step[t] < 2
    BY <2>1, <2>2, OneMoreGoesForward DEF Rounds
  <2> QED
    BY <1>8, <2>1, <2>2, FinishGoesForward, ProceedGoesForward DEF TestMempoolAccept
<1>9. ASSUME NEW t \in Tasks, SendRawTransaction(t)
      PROVE  OnlyForward
  <2>1. pc[t] = "send" /\ step[t] \in Nat
    BY <1>9 DEF SendRawTransaction, TypeOK
  <2>2. CASE OneMore(t) /\ step[t] < 2
    BY <2>1, <2>2, OneMoreGoesForward DEF Rounds
  <2>3. CASE Panic(t)
    BY <2>1, <2>3, PanicGoesForward DEF Live, InLine, Held
  <2>4. CASE Proceed(t, "record")
    BY <2>1, <2>4, ProceedGoesForward
  <2> QED
    BY <1>9, <2>2, <2>3, <2>4 DEF SendRawTransaction
<1>10. ASSUME NEW t \in Tasks, Disconnect(t)
       PROVE  OnlyForward
  <2>1. Stage[pc[t]] < Stage["cancelled"]
    BY <1>10 DEF Disconnect
  <2> QED
    BY <1>10, <2>1, LaterStage DEF Disconnect, task
<1>11. ASSUME Crash
       PROVE  OnlyForward
  <2> SUFFICES ASSUME NEW t \in Tasks, pc'[t] # pc[t]
               PROVE  GoesForward(t)
    BY <1>11 DEF OnlyForward, Moved, Crash, task
  <2>1. pc[t] \in Live /\ pc'[t] = "crashed" /\ idx'[t] = idx[t]
    BY <1>11 DEF Crash, task
  <2>2. Stage[pc[t]] < Stage[pc'[t]]
    BY <2>1 DEF Live, InLine, Held
  <2> QED
    BY <2>1, <2>2 DEF GoesForward
<1>12. ASSUME Brc20Executes \/ UNCHANGED vars
       PROVE  OnlyForward
  BY <1>12, NoTaskMoves DEF Brc20Executes, vars, task
<1> QED
  BY <1>1, <1>2, <1>3, <1>4, <1>5, <1>6, <1>7, <1>8, <1>9, <1>10, <1>11, <1>12
     DEF Next, Serve, Terminating

(***************************************************************************)
(* The work of a request is bounded, for every batch and every number of   *)
(* attempts.                                                               *)
(***************************************************************************)
THEOREM RequestsGoForward == Spec => WorkIsBounded
<1>1. TypeOK /\ AtCall /\ [Next]_vars => [OnlyForward]_vars
  BY StepGoesForward
<1>2. WorkIsBounded <=> [][OnlyForward]_vars
  BY DEF WorkIsBounded, OnlyForward, Moved
<1> QED
  BY <1>1, <1>2, TypeInit, TypeStep, PTL DEF Spec

-----------------------------------------------------------------------------
(***************************************************************************)
(* The mints and their answers.                                            *)
(***************************************************************************)
MintsOK ==
    /\ Answered /\ Broadcasting /\ RecordedIsAnswered
    /\ Consistent(node) /\ TestIsNotStale
    /\ ErrMeansUntouched /\ OkMeansRecorded
    /\ RecordedSurvives /\ StrandedOnlyByFailure

\* Where a task can be while a mint of its own is out but not recorded.
Exposed == {"send", "record", "panicked", "crashed", "cancelled"}

LEMMA SendCallsAre ==
    \A x \in SendCalls : x \in Calls /\ x = <<x[1], x[2]>> /\ x[1] \in Tasks
                          /\ x[2] \in Nat /\ x[2] <= Size[x[1]]
BY CallsAre DEF SendCalls

LEMMA OtherCalls ==
    ASSUME NEW t \in Tasks, NEW x \in Calls, x # Cur(t)
    PROVE  x[1] = t => x[2] # idx[t]
BY CallsAre DEF Cur

(***************************************************************************)
(* A call that has not come to its broadcasts has not touched the network  *)
(* or the table; one that is at them is not in the table.                  *)
(***************************************************************************)
LEMMA NotYetSent ==
    ASSUME IInv, NEW t \in Tasks, Cur(t) \in SendCalls, pc[t] # "cancelled"
    PROVE  /\ Cur(t) \notin rows
           /\ pc[t] \notin Exposed => node[Cur(t)] = 0
<1>1. Cur(t)[1] = t /\ Cur(t)[2] = idx[t] /\ Cur(t) \in Calls /\ idx[t] \in Nat
  BY DEF Cur, SendCalls, IInv, TypeOK
<1>2. result[Cur(t)] = "none"
  BY <1>1 DEF IInv, Answered
<1>3. Cur(t) \notin rows
  BY <1>1, <1>2 DEF IInv, RecordedIsAnswered
<1>4. pc[t] \notin Exposed => ~ (node[Cur(t)] > 0)
  BY <1>1, <1>3 DEF IInv, StrandedOnlyByFailure, Stranded, Exposed
<1> QED
  BY <1>3, <1>4 DEF IInv, TypeOK

(***************************************************************************)
(* A task that moves within a call, away from the broadcasts.              *)
(***************************************************************************)
LEMMA MovingKeepsMints ==
    ASSUME IInv, NEW t \in Tasks, UNCHANGED <<idx, result, node, rows, commit>>,
           \A u \in Tasks \ {t} : pc'[u] = pc[u] /\ step'[u] = step[u],
           pc[t] \notin Exposed, pc'[t] \notin {"send", "record"}
    PROVE  MintsOK'
<1>1. Answered' /\ ErrMeansUntouched' /\ OkMeansRecorded' /\ RecordedSurvives'
  BY DEF IInv, Answered, ErrMeansUntouched, OkMeansRecorded, RecordedSurvives
<1>2. Consistent(node)'
  BY DEF IInv, Consistent, Created
<1>3. Broadcasting' /\ TestIsNotStale'
  BY DEF IInv, Broadcasting, TestIsNotStale, Cur, Unspent, Created, Spent
<1>4. \A x \in SendCalls : x[1] \in Tasks
  BY SendCallsAre
<1>5. RecordedIsAnswered'
  <2>1. rows \subseteq SendCalls
    BY DEF IInv, TypeOK
  <2> QED
    BY <1>4, <2>1 DEF IInv, RecordedIsAnswered, Exposed
<1>6. StrandedOnlyByFailure'
  BY <1>4 DEF IInv, StrandedOnlyByFailure, Stranded, Exposed
<1> QED
  BY <1>1, <1>2, <1>3, <1>5, <1>6 DEF MintsOK

(***************************************************************************)
(* A call that is answered before, or without, a broadcast: an error, or   *)
(* the result of another method.                                           *)
(***************************************************************************)
LEMMA AnsweringKeepsMints ==
    ASSUME IInv, NEW t \in Tasks, idx[t] <= Size[t], pc[t] \notin Exposed,
           NEW r \in {"ok", "err"}, Cur(t) \in SendCalls => r = "err",
           Finish(t, r), UNCHANGED <<node, rows, commit>>
    PROVE  MintsOK'
<1>0. TypeOK
  BY DEF IInv
<1>1. Cur(t) \in Calls /\ Cur(t)[1] = t /\ Cur(t)[2] = idx[t]
  BY <1>0, CurIsCall
<1>2. /\ \A u \in Tasks \ {t} : pc'[u] = pc[u] /\ idx'[u] = idx[u] /\ step'[u] = step[u]
      /\ pc'[t] = "ready" /\ idx'[t] = idx[t] + 1 /\ idx[t] \in Nat
  BY <1>0, FinishType DEF Finish, TypeOK
<1>3. /\ result'[Cur(t)] = r
      /\ \A x \in Calls : x # Cur(t) => result'[x] = result[x]
  BY <1>0, <1>1 DEF Finish, TypeOK
<1>4. \A x \in Calls : x[1] \in Tasks /\ x[2] \in Nat
  BY CallsAre
<1>5. \A x \in Calls : x # Cur(t) /\ x[1] = t => x[2] # idx[t]
  BY OtherCalls
<1>6. Answered'
  <2> SUFFICES ASSUME NEW x \in Calls
               PROVE  result'[x] = "none" <=> x[2] >= idx'[x[1]]
    BY DEF Answered
  <2>1. CASE x = Cur(t)
    BY <2>1, <1>1, <1>2, <1>3
  <2>2. CASE x # Cur(t) /\ x[1] = t
    BY <2>2, <1>2, <1>3, <1>4, <1>5 DEF IInv, Answered
  <2>3. CASE x[1] # t
    BY <2>3, <1>1, <1>2, <1>3, <1>4 DEF IInv, Answered
  <2> QED
    BY <2>1, <2>2, <2>3
<1>7. Cur(t) \in SendCalls => Cur(t) \notin rows /\ node[Cur(t)] = 0
  BY NotYetSent DEF Exposed
<1>8. rows \subseteq SendCalls /\ SendCalls \subseteq Calls
  BY <1>0 DEF TypeOK, SendCalls
<1>9. ErrMeansUntouched' /\ OkMeansRecorded' /\ RecordedSurvives'
  BY <1>3, <1>7, <1>8
     DEF IInv, ErrMeansUntouched, OkMeansRecorded, RecordedSurvives
<1>10. Consistent(node)'
  BY DEF IInv, Consistent, Created
<1>11. Broadcasting' /\ TestIsNotStale'
  BY <1>2 DEF IInv, Broadcasting, TestIsNotStale, Cur, Unspent, Created, Spent
<1>12. RecordedIsAnswered'
  BY <1>2, <1>3, <1>4, <1>7, <1>8 DEF IInv, RecordedIsAnswered, Exposed
<1>13. StrandedOnlyByFailure'
  BY <1>2, <1>4, <1>7, <1>8 DEF IInv, StrandedOnlyByFailure, Stranded, Exposed
<1> QED
  BY <1>6, <1>9, <1>10, <1>11, <1>12, <1>13 DEF MintsOK

(***************************************************************************)
(* Choosing the inputs of a mint that is not out changes nothing the node  *)
(* holds.                                                                  *)
(***************************************************************************)
LEMMA ChoosingKeepsTheViews ==
    ASSUME TypeOK, NEW c \in SendCalls, node[c] = 0, node' = node,
           \A d \in SendCalls \ {c} : commit'[d] = commit[d]
    PROVE  /\ Created(node)' = Created(node)
           /\ Spent(node)' = Spent(node)
           /\ Consistent(node) => Consistent(node)'
<1>1. \A d \in SendCalls : node[d] >= 1 => d # c /\ commit'[d] = commit[d]
  OBVIOUS
<1>2. {d \in SendCalls : node[d] >= 1 /\ commit'[d].change}
        = {d \in SendCalls : node[d] >= 1 /\ commit[d].change}
  BY <1>1
<1>3. Created(node)' = Created(node)
  BY <1>2 DEF Created
<1>4. {commit'[d].ins : d \in {e \in SendCalls : node[e] >= 1}}
        = {commit[d].ins : d \in {e \in SendCalls : node[e] >= 1}}
  BY <1>1
<1>5. Spent(node)' = Spent(node)
  BY <1>4 DEF Spent
<1>6. Consistent(node) => Consistent(node)'
  BY <1>1, <1>3 DEF Consistent
<1> QED
  BY <1>3, <1>5, <1>6

LEMMA ConstructKeepsMints ==
    ASSUME IInv, OneHolder, NEW t \in Tasks, ConstructMintTxes(t)
    PROVE  MintsOK'
<1>0. TypeOK /\ idx[t] <= Size[t] /\ pc[t] = "utxos"
  BY DEF IInv, AtCall, ConstructMintTxes, InLine, Held
<1>1. Cur(t) \in SendCalls
  BY <1>0, CurIsCall DEF SendCalls, ConstructMintTxes
<1>2. node[Cur(t)] = 0
  BY <1>0, <1>1, NotYetSent DEF Exposed
<1>3. CASE Finish(t, "err") /\ UNCHANGED commit
  BY <1>0, <1>3, AnsweringKeepsMints DEF ConstructMintTxes, world, Exposed
<1>4. CASE Proceed(t, "test") /\ \E ins, change :
             commit' = [commit EXCEPT ![Cur(t)] = [ins |-> ins, change |-> change]]
  <2>1. /\ UNCHANGED <<idx, result, node, rows>> /\ pc'[t] = "test"
        /\ \A u \in Tasks \ {t} : pc'[u] = pc[u] /\ step'[u] = step[u]
    BY <1>0, <1>4, ProceedType DEF ConstructMintTxes, world, Proceed, Live, InLine, Held
  <2>2. \A d \in SendCalls \ {Cur(t)} : commit'[d] = commit[d]
    BY <1>0, <1>4 DEF TypeOK
  <2>3. Created(node)' = Created(node) /\ Spent(node)' = Spent(node) /\ Consistent(node)'
    BY <1>0, <1>1, <1>2, <2>1, <2>2, ChoosingKeepsTheViews DEF IInv
  <2>4. Answered' /\ ErrMeansUntouched' /\ OkMeansRecorded' /\ RecordedSurvives'
    BY <2>1 DEF IInv, Answered, ErrMeansUntouched, OkMeansRecorded, RecordedSurvives
  <2>5. \A u \in Tasks : pc'[u] \notin {"send", "record"}
    BY <1>0, <2>1 DEF OneHolder, Held
  <2>6. Broadcasting' /\ TestIsNotStale'
    BY <2>5 DEF Broadcasting, TestIsNotStale
  <2>7. rows \subseteq SendCalls /\ \A x \in SendCalls : x[1] \in Tasks
    BY <1>0, SendCallsAre DEF TypeOK
  <2>8. RecordedIsAnswered'
    BY <1>0, <2>1, <2>7 DEF IInv, RecordedIsAnswered
  <2>9. StrandedOnlyByFailure'
    BY <1>0, <2>1, <2>7 DEF IInv, StrandedOnlyByFailure, Stranded
  <2> QED
    BY <2>3, <2>4, <2>6, <2>8, <2>9 DEF MintsOK
<1> QED
  BY <1>3, <1>4 DEF ConstructMintTxes

(***************************************************************************)
(* After the third test has succeeded, its inputs exist and are unspent.   *)
(***************************************************************************)
LEMMA TestKeepsMints ==
    ASSUME IInv, NEW t \in Tasks, TestMempoolAccept(t)
    PROVE  MintsOK'
<1>0. TypeOK /\ idx[t] <= Size[t] /\ pc[t] = "test" /\ Method[Cur(t)] = "send"
  BY DEF IInv, AtCall, TestMempoolAccept, InLine, Held
<1>1. Cur(t) \in SendCalls
  BY <1>0, CurIsCall DEF SendCalls
<1>2. CASE Finish(t, "err")
  BY <1>0, <1>2, AnsweringKeepsMints DEF TestMempoolAccept, world, memo, Exposed
<1>3. CASE OneMore(t)
  <2>1. /\ UNCHANGED <<pc, idx, result, node, rows, commit>>
        /\ \A u \in Tasks \ {t} : step'[u] = step[u]
    BY <1>0, <1>3 DEF OneMore, TestMempoolAccept, world, memo, TypeOK
  <2> QED
    BY <1>0, <2>1, MovingKeepsMints DEF Exposed
<1>4. CASE MempoolAllows(Cur(t), step[t] + 1) /\ step[t] >= 2 /\ Proceed(t, "send")
  <2>1. /\ UNCHANGED <<idx, result, node, rows, commit>>
        /\ pc'[t] = "send" /\ step'[t] = 0
        /\ \A u \in Tasks \ {t} : pc'[u] = pc[u] /\ step'[u] = step[u]
    BY <1>0, <1>4, ProceedType
       DEF TestMempoolAccept, world, memo, Proceed, Live, InLine, Held
  <2>2. Answered' /\ ErrMeansUntouched' /\ OkMeansRecorded' /\ RecordedSurvives'
    BY <2>1 DEF IInv, Answered, ErrMeansUntouched, OkMeansRecorded, RecordedSurvives
  <2>3. Consistent(node)'
    BY <2>1 DEF IInv, Consistent, Created
  <2>4. node[Cur(t)] = 0 /\ Cur(t) \notin rows
    BY <1>0, <1>1, NotYetSent DEF Exposed
  <2>5. Broadcasting'
    BY <2>1, <2>4 DEF IInv, Broadcasting, Cur
  <2>6. commit[Cur(t)].ins \subseteq Unspent(node)
    <3>1. step[t] + 1 # 1
      BY <1>0, <1>4 DEF TypeOK
    <3> QED
      BY <1>4, <3>1 DEF MempoolAllows, Unspent
  <2>7. TestIsNotStale'
    BY <2>1, <2>6 DEF IInv, TestIsNotStale, Cur, Unspent, Created, Spent
  <2>8. rows \subseteq SendCalls /\ \A x \in SendCalls : x[1] \in Tasks
    BY <1>0, SendCallsAre DEF TypeOK
  <2>9. RecordedIsAnswered'
    BY <1>0, <2>1, <2>8 DEF IInv, RecordedIsAnswered
  <2>10. StrandedOnlyByFailure'
    BY <1>0, <2>1, <2>8 DEF IInv, StrandedOnlyByFailure, Stranded
  <2> QED
    BY <2>2, <2>3, <2>5, <2>7, <2>9, <2>10 DEF MintsOK
<1> QED
  <2>1. step[t] \in Nat
    BY <1>0 DEF TypeOK
  <2> QED
    BY <1>2, <1>3, <1>4, <2>1 DEF TestMempoolAccept

(***************************************************************************)
(* A commit whose inputs are unspent replaces nothing: the only survivors  *)
(* of its broadcast are everybody.                                         *)
(***************************************************************************)
LEMMA NothingIsReplaced ==
    ASSUME TypeOK, Consistent(node), NEW c \in SendCalls, node[c] = 0,
           commit[c].ins \subseteq Unspent(node)
    PROVE  /\ Survivors(c) \subseteq {[node EXCEPT ![c] = 1]}
           /\ Consistent([node EXCEPT ![c] = 1])
<1> DEFINE after == [node EXCEPT ![c] = 1]
<1>0. /\ after \in [SendCalls -> 0..3] /\ after[c] = 1
      /\ \A d \in SendCalls \ {c} : after[d] = node[d]
      /\ node \in [SendCalls -> 0..3]
  BY DEF TypeOK
<1> HIDE DEF after
<1>1. Created(node) \subseteq Created(after)
  BY <1>0 DEF Created
<1>2. \A d \in SendCalls : after[d] >= 1 => d = c \/ node[d] >= 1
  BY <1>0
<1>3. \A d \in SendCalls : after[d] = 3 => d # c /\ node[d] = 3
  BY <1>0
<1>4. \A d \in SendCalls : node[d] >= 1 => commit[c].ins \cap commit[d].ins = {}
  BY DEF Unspent, Spent
<1>5. \A d \in SendCalls : node[d] = 3 => <<"postage", d>> \notin commit[c].ins
  BY DEF Unspent, Spent
<1>6. Consistent(after)
  <2>1. \A d \in SendCalls : after[d] >= 1 => commit[d].ins \subseteq Created(after)
    BY <1>1, <1>2 DEF Consistent, Unspent
  <2>2. ASSUME NEW d \in SendCalls, NEW e \in SendCalls, after[d] >= 1, after[e] >= 1
        PROVE  /\ d # e => commit[d].ins \cap commit[e].ins = {}
               /\ after[e] = 3 => <<"postage", e>> \notin commit[d].ins
    <3>1. CASE d = c
      BY <3>1, <2>2, <1>2, <1>3, <1>4, <1>5
    <3>2. CASE d # c /\ e = c
      BY <3>2, <2>2, <1>0, <1>2, <1>4
    <3>3. CASE d # c /\ e # c
      BY <3>3, <2>2, <1>2, <1>3 DEF Consistent
    <3> QED
      BY <3>1, <3>2, <3>3
  <2> QED
    BY <2>1, <2>2 DEF Consistent
<1>7. ASSUME NEW level \in Survivors(c) PROVE level = after
  <2>1. /\ level \in [SendCalls -> 0..3] /\ level[c] = 1
        /\ \A d \in SendCalls \ {c} : level[d] <= node[d]
    BY DEF Survivors
  <2>2. \A d \in SendCalls : after[d] <= level[d]
    <3>1. \A d \in SendCalls \ {c} : after[d] <= node[d]
      BY <1>0
    <3> QED
      BY <3>1, <1>0, <1>6 DEF Survivors
  <2>3. \A d \in SendCalls : level[d] = after[d]
    BY <1>0, <2>1, <2>2
  <2> QED
    BY <1>0, <2>1, <2>3
<1> QED
  BY <1>6, <1>7 DEF after

(***************************************************************************)
(* A broadcast adds its transaction to what the node has, and no more.     *)
(***************************************************************************)
LEMMA SendAddsOne ==
    ASSUME IInv, NEW t \in Tasks, pc[t] = "send",
           NEW level \in AfterSend(Cur(t), step[t] + 1)
    PROVE  /\ level = [node EXCEPT ![Cur(t)] = step[t] + 1]
           /\ node[Cur(t)] = step[t] /\ step[t] \in 0..2
           /\ Consistent(level)
<1> DEFINE c == Cur(t)
<1>0. TypeOK /\ Consistent(node) /\ node[c] = step[t] /\ step[t] \in 0..2
  <2>1. step[t] \in Nat /\ step[t] <= 2
    BY DEF IInv, AtCall, TypeOK
  <2> QED
    BY <2>1 DEF IInv, Broadcasting
<1>1. c \in SendCalls
  <2>1. idx[t] <= Size[t] /\ Method[c] = "send"
    BY DEF IInv, AtCall, InLine, Held
  <2> QED
    BY <2>1, <1>0, CurIsCall DEF SendCalls
<1> HIDE DEF c
<1>2. CASE step[t] = 0
  <2>1. commit[c].ins \subseteq Unspent(node)
    BY <1>2 DEF IInv, TestIsNotStale, c
  <2>2. level \in Survivors(c) /\ node[c] = 0
    BY <1>0, <1>2 DEF AfterSend, c
  <2>3. level = [node EXCEPT ![c] = 1] /\ Consistent([node EXCEPT ![c] = 1])
    BY <1>0, <1>1, <2>1, <2>2, NothingIsReplaced
  <2> QED
    BY <1>0, <1>2, <2>3 DEF c
<1>3. CASE step[t] # 0
  <2>1. /\ level = [node EXCEPT ![c] = step[t] + 1]
        /\ step[t] = 2 => <<"postage", c>> \in Unspent(node)
    BY <1>0, <1>3 DEF AfterSend, c
  <2>2. /\ level \in [SendCalls -> 0..3]
        /\ \A d \in SendCalls : d # c => level[d] = node[d]
        /\ node[c] >= 1 /\ level[c] = node[c] + 1
    BY <1>0, <1>1, <1>3, <2>1 DEF TypeOK
  <2>3. Created(node) \subseteq Created(level)
    BY <1>0, <2>2 DEF Created, TypeOK
  <2>4. \A d \in SendCalls : level[d] >= 1 => node[d] >= 1
    BY <2>2
  <2>5. \A d \in SendCalls : level[d] = 3 /\ d # c => node[d] = 3
    BY <2>2
  <2>6. level[c] = 3 => \A d \in SendCalls : node[d] >= 1 => <<"postage", c>> \notin commit[d].ins
    BY <1>0, <2>1, <2>2 DEF Unspent, Spent
  <2>7. Consistent(level)
    BY <1>0, <1>1, <2>3, <2>4, <2>5, <2>6 DEF Consistent
  <2> QED
    BY <1>0, <2>1, <2>7 DEF c
<1> QED
  BY <1>2, <1>3

LEMMA SendKeepsMints ==
    ASSUME IInv, OneHolder, NEW t \in Tasks, SendRawTransaction(t)
    PROVE  MintsOK'
<1> DEFINE c == Cur(t)
<1>0. TypeOK /\ idx[t] <= Size[t] /\ Method[c] = "send" /\ pc[t] = "send"
  BY DEF IInv, AtCall, SendRawTransaction, InLine, Held
<1>1. c \in SendCalls /\ c[1] = t /\ c[2] = idx[t]
  BY <1>0, CurIsCall DEF SendCalls
<1>2. \A u \in Tasks \ {t} : pc[u] \notin {"send", "record"}
  BY <1>0 DEF OneHolder, Held
<1>3. /\ UNCHANGED <<idx, result, commit, rows>>
      /\ \A u \in Tasks \ {t} : pc'[u] = pc[u] /\ step'[u] = step[u]
      /\ \/ pc'[t] = "send" /\ step[t] < 2 /\ step'[t] = step[t] + 1
         \/ pc'[t] = "record" /\ step[t] >= 2
         \/ pc'[t] = "panicked"
  <2>1. step[t] \in Nat
    BY <1>0 DEF TypeOK
  <2>2. CASE OneMore(t) /\ step[t] < 2 /\ UNCHANGED memo
    BY <1>0, <2>1, <2>2 DEF SendRawTransaction, OneMore, memo, TypeOK
  <2>3. CASE Proceed(t, "record") /\ step[t] >= 2 /\ UNCHANGED memo
    BY <1>0, <2>1, <2>3 DEF SendRawTransaction, Proceed, Goto, memo, TypeOK
  <2>4. CASE Panic(t)
    BY <1>0, <2>1, <2>4 DEF SendRawTransaction, Panic, Goto, task, TypeOK
  <2> QED
    BY <2>1, <2>2, <2>3, <2>4 DEF SendRawTransaction
<1>4. c \notin rows
  BY <1>0, <1>1, NotYetSent
<1> HIDE DEF c
<1>5. /\ Consistent(node)' /\ node' \in [SendCalls -> 0..3]
      /\ \A d \in SendCalls \ {c} : node'[d] = node[d]
      /\ pc'[t] # "panicked" => node'[c] = step[t] + 1
      /\ node[c] = step[t] /\ step[t] \in 0..2
  <2>0. node[c] = step[t] /\ step[t] \in 0..2 /\ Consistent(node)
    <3>1. step[t] \in Nat /\ step[t] <= 2
      BY <1>0 DEF IInv, AtCall, TypeOK
    <3> QED
      BY <1>0, <3>1 DEF IInv, Broadcasting, c
  <2>1. CASE node' \in AfterSend(Cur(t), step[t] + 1)
    <3>1. node' = [node EXCEPT ![c] = step[t] + 1] /\ Consistent(node')
      BY <1>0, <2>1, SendAddsOne DEF c
    <3>2. Consistent(node)'
      BY <1>3, <3>1 DEF Consistent, Created
    <3> QED
      BY <1>0, <1>1, <2>0, <3>1, <3>2 DEF TypeOK
  <2>2. CASE Panic(t) /\ UNCHANGED node
    <3>1. Consistent(node)'
      BY <1>3, <2>0, <2>2 DEF Consistent, Created
    <3> QED
      BY <1>0, <2>0, <2>2, <3>1 DEF Panic, Goto, TypeOK
  <2> QED
    BY <2>1, <2>2 DEF SendRawTransaction
<1>6. Answered' /\ OkMeansRecorded'
  BY <1>3 DEF IInv, Answered, OkMeansRecorded
<1>7. ErrMeansUntouched'
  <2>1. result[c] # "err"
    BY <1>0, <1>1 DEF IInv, Answered, SendCalls, TypeOK
  <2> QED
    BY <1>3, <1>5, <2>1 DEF IInv, ErrMeansUntouched
<1>8. rows \subseteq SendCalls /\ \A x \in SendCalls : x[1] \in Tasks
  BY <1>0, SendCallsAre DEF TypeOK
<1>9. RecordedSurvives'
  BY <1>3, <1>4, <1>5, <1>8 DEF IInv, RecordedSurvives
<1>10. \A u \in Tasks : Cur(u)' = Cur(u)
  BY <1>3 DEF Cur
<1>11. Broadcasting'
  BY <1>2, <1>3, <1>5, <1>10 DEF Broadcasting, c
<1>12. TestIsNotStale'
  <2>1. \A u \in Tasks : pc'[u] = "send" => step'[u] # 0
    BY <1>2, <1>3, <1>5
  <2> QED
    BY <2>1 DEF TestIsNotStale
<1>13. RecordedIsAnswered'
  BY <1>0, <1>3, <1>8 DEF IInv, RecordedIsAnswered
<1>14. StrandedOnlyByFailure'
  <2> SUFFICES ASSUME NEW x \in SendCalls, Stranded(x)'
               PROVE  /\ idx'[x[1]] = x[2]
                      /\ pc'[x[1]] \in {"send", "record", "panicked", "crashed", "cancelled"}
                      /\ pc'[x[1]] \in {"record", "cancelled"} => node'[x] = 3
    BY DEF StrandedOnlyByFailure
  <2>1. CASE x = c
    BY <1>1, <1>3, <1>5, <2>1
  <2>2. CASE x # c
    <3>1. Stranded(x)
      BY <1>3, <1>5, <2>2 DEF Stranded
    <3>2. x[1] # t
      <4>1. idx[x[1]] = x[2]
        BY <3>1 DEF IInv, StrandedOnlyByFailure
      <4>2. x[1] = t => x[2] # idx[t]
        BY <2>2, OtherCalls DEF c, SendCalls
      <4> QED
        BY <4>1, <4>2
    <3> QED
      BY <1>3, <1>5, <1>8, <2>2, <3>1, <3>2 DEF IInv, StrandedOnlyByFailure
  <2> QED
    BY <2>1, <2>2
<1> QED
  BY <1>5, <1>6, <1>7, <1>9, <1>11, <1>12, <1>13, <1>14 DEF MintsOK

(***************************************************************************)
(* The row is inserted: the mint is recorded and answered.                 *)
(***************************************************************************)
LEMMA RecordKeepsMints ==
    ASSUME IInv, OneHolder, NEW t \in Tasks, AddTx(t), Finish(t, "ok"),
           rows' = rows \cup {Cur(t)}, UNCHANGED memo
    PROVE  MintsOK'
<1> DEFINE c == Cur(t)
<1>0. TypeOK /\ idx[t] <= Size[t] /\ Method[c] = "send" /\ pc[t] = "record"
  BY DEF IInv, AtCall, AddTx, InLine, Held
<1>1. c \in SendCalls /\ c \in Calls /\ c[1] = t /\ c[2] = idx[t] /\ idx[t] \in Nat
  BY <1>0, CurIsCall DEF SendCalls, TypeOK
<1>2. /\ \A u \in Tasks \ {t} : pc'[u] = pc[u] /\ idx'[u] = idx[u] /\ step'[u] = step[u]
      /\ pc'[t] = "ready" /\ idx'[t] = idx[t] + 1
  BY <1>0, FinishType DEF Finish, TypeOK
<1>3. /\ result'[c] = "ok" /\ UNCHANGED <<node, commit>>
      /\ \A x \in Calls : x # c => result'[x] = result[x]
  BY <1>0, <1>1 DEF Finish, TypeOK, AddTx, memo
<1>4. \A x \in Calls : x[1] \in Tasks /\ x[2] \in Nat
  BY CallsAre
<1>5. \A x \in Calls : x # c /\ x[1] = t => x[2] # idx[t]
  BY OtherCalls
<1>6. node[c] = 3
  BY <1>0 DEF IInv, Broadcasting
<1>7. rows \subseteq SendCalls /\ SendCalls \subseteq Calls /\ rows' = rows \cup {c}
  BY <1>0 DEF TypeOK, SendCalls
<1> HIDE DEF c
<1>8. Answered'
  <2> SUFFICES ASSUME NEW x \in Calls
               PROVE  result'[x] = "none" <=> x[2] >= idx'[x[1]]
    BY DEF Answered
  <2>1. CASE x = c
    BY <2>1, <1>1, <1>2, <1>3
  <2>2. CASE x # c /\ x[1] = t
    BY <2>2, <1>1, <1>2, <1>3, <1>4, <1>5 DEF IInv, Answered
  <2>3. CASE x[1] # t
    BY <2>3, <1>1, <1>2, <1>3, <1>4 DEF IInv, Answered
  <2> QED
    BY <2>1, <2>2, <2>3
<1>9. ErrMeansUntouched' /\ OkMeansRecorded' /\ RecordedSurvives'
  BY <1>1, <1>3, <1>6, <1>7
     DEF IInv, ErrMeansUntouched, OkMeansRecorded, RecordedSurvives
<1>10. Consistent(node)'
  BY <1>3 DEF IInv, Consistent, Created
<1>11. Broadcasting' /\ TestIsNotStale'
  <2>1. \A u \in Tasks : pc'[u] \notin {"send", "record"}
    BY <1>0, <1>2 DEF OneHolder, Held
  <2> QED
    BY <2>1 DEF Broadcasting, TestIsNotStale
<1>12. RecordedIsAnswered'
  BY <1>0, <1>2, <1>3, <1>4, <1>7 DEF IInv, RecordedIsAnswered
<1>13. StrandedOnlyByFailure'
  <2> SUFFICES ASSUME NEW x \in SendCalls, Stranded(x)'
               PROVE  /\ idx'[x[1]] = x[2]
                      /\ pc'[x[1]] \in {"send", "record", "panicked", "crashed", "cancelled"}
                      /\ pc'[x[1]] \in {"record", "cancelled"} => node'[x] = 3
    BY DEF StrandedOnlyByFailure
  <2>1. x # c /\ Stranded(x)
    BY <1>3, <1>7 DEF Stranded
  <2>2. x[1] # t
    BY <1>5, <1>7, <2>1 DEF IInv, StrandedOnlyByFailure
  <2> QED
    BY <1>2, <1>3, <1>4, <1>7, <2>1, <2>2 DEF IInv, StrandedOnlyByFailure
<1> QED
  BY <1>8, <1>9, <1>10, <1>11, <1>12, <1>13 DEF MintsOK

(***************************************************************************)
(* A task that ends without answering its call: a panic of add_tx, or a    *)
(* dropped client, whose row may have been inserted.                       *)
(***************************************************************************)
LEMMA LeavingRecordKeepsMints ==
    ASSUME IInv, NEW t \in Tasks, pc[t] = "record",
           UNCHANGED <<idx, step, result, commit, node>>,
           \A u \in Tasks \ {t} : pc'[u] = pc[u],
           pc'[t] \in {"panicked", "cancelled"},
           \/ rows' = rows
           \/ pc'[t] = "cancelled" /\ rows' = rows \cup {Cur(t)}
    PROVE  MintsOK'
<1>0. TypeOK /\ node[Cur(t)] = 3
  BY DEF IInv, Broadcasting
<1>1. Cur(t) \in SendCalls /\ Cur(t)[1] = t /\ Cur(t)[2] = idx[t]
  <2>1. idx[t] <= Size[t] /\ Method[Cur(t)] = "send"
    BY DEF IInv, AtCall, InLine, Held
  <2> QED
    BY <1>0, <2>1, CurIsCall DEF SendCalls
<1>2. result[Cur(t)] = "none"
  BY <1>0, <1>1 DEF IInv, Answered, SendCalls, TypeOK
<1>3. rows \subseteq SendCalls /\ \A x \in SendCalls : x \in Calls /\ x[1] \in Tasks
  BY <1>0, SendCallsAre DEF TypeOK
<1>4. rows \subseteq rows' /\ rows' \subseteq rows \cup {Cur(t)}
  OBVIOUS
<1>5. Answered' /\ OkMeansRecorded'
  BY <1>4 DEF IInv, Answered, OkMeansRecorded
<1>6. ErrMeansUntouched' /\ RecordedSurvives'
  BY <1>0, <1>2, <1>3, <1>4 DEF IInv, ErrMeansUntouched, RecordedSurvives
<1>7. Consistent(node)'
  BY DEF IInv, Consistent, Created
<1>8. Broadcasting' /\ TestIsNotStale'
  BY DEF IInv, Broadcasting, TestIsNotStale, Cur, Unspent, Created, Spent
<1>9. RecordedIsAnswered'
  BY <1>0, <1>1, <1>3, <1>4 DEF IInv, RecordedIsAnswered
<1>10. StrandedOnlyByFailure'
  <2> SUFFICES ASSUME NEW x \in SendCalls, Stranded(x)'
               PROVE  /\ idx'[x[1]] = x[2]
                      /\ pc'[x[1]] \in {"send", "record", "panicked", "crashed", "cancelled"}
                      /\ pc'[x[1]] \in {"record", "cancelled"} => node'[x] = 3
    BY DEF StrandedOnlyByFailure
  <2>1. Stranded(x)
    BY <1>4 DEF Stranded
  <2>2. CASE x[1] = t
    BY <2>1, <2>2 DEF IInv, StrandedOnlyByFailure
  <2>3. CASE x[1] # t
    BY <1>3, <2>1, <2>3 DEF IInv, StrandedOnlyByFailure
  <2> QED
    BY <2>2, <2>3
<1> QED
  BY <1>5, <1>6, <1>7, <1>8, <1>9, <1>10 DEF MintsOK

LEMMA CrashKeepsMints ==
    ASSUME IInv, Crash
    PROVE  MintsOK'
<1>0. TypeOK /\ UNCHANGED <<idx, step, result, commit, node, rows>>
  BY DEF IInv, Crash, task
<1>1. /\ \A u \in Tasks : pc'[u] \notin Live
      /\ \A u \in Tasks : pc'[u] = pc[u] \/ pc'[u] = "crashed"
      /\ \A u \in Tasks : pc[u] = "cancelled" => pc'[u] = "cancelled"
  BY <1>0 DEF Crash, TypeOK, Live, InLine, Held
<1>2. Answered' /\ ErrMeansUntouched' /\ OkMeansRecorded' /\ RecordedSurvives'
  BY <1>0 DEF IInv, Answered, ErrMeansUntouched, OkMeansRecorded, RecordedSurvives
<1>3. Consistent(node)'
  BY <1>0 DEF IInv, Consistent, Created
<1>4. Broadcasting' /\ TestIsNotStale'
  BY <1>1 DEF Broadcasting, TestIsNotStale, Live, InLine, Held
<1>5. rows \subseteq SendCalls /\ \A x \in SendCalls : x[1] \in Tasks
  BY <1>0, SendCallsAre DEF TypeOK
<1>6. RecordedIsAnswered'
  BY <1>0, <1>1, <1>5 DEF IInv, RecordedIsAnswered
<1>7. StrandedOnlyByFailure'
  BY <1>0, <1>1, <1>5 DEF IInv, StrandedOnlyByFailure, Stranded
<1> QED
  BY <1>2, <1>3, <1>4, <1>6, <1>7 DEF MintsOK

LEMMA MintsInit == Init => MintsOK
<1> SUFFICES ASSUME Init PROVE MintsOK
  OBVIOUS
<1>1. \A x \in Calls : x[1] \in Tasks /\ x[2] \in Nat /\ x[2] >= 1
  BY CallsAre
<1>2. Answered
  BY <1>1 DEF Init, Answered
<1>3. Broadcasting /\ TestIsNotStale /\ Consistent(node)
  BY DEF Init, Broadcasting, TestIsNotStale, Consistent
<1>4. ErrMeansUntouched /\ OkMeansRecorded /\ RecordedSurvives
  BY DEF Init, ErrMeansUntouched, OkMeansRecorded, RecordedSurvives, SendCalls
<1>5. StrandedOnlyByFailure /\ RecordedIsAnswered
  BY DEF Init, StrandedOnlyByFailure, Stranded, RecordedIsAnswered
<1> QED
  BY <1>2, <1>3, <1>4, <1>5 DEF MintsOK

LEMMA MintsStep == IInv /\ OneHolder /\ [Next]_vars => MintsOK'
<1> SUFFICES ASSUME IInv, OneHolder, [Next]_vars PROVE MintsOK'
  OBVIOUS
<1> USE DEF world, memo, Goto
<1>0. TypeOK /\ AtCall
  BY DEF IInv
<1>c. \A t \in Tasks : pc[t] \in InLine \cup {"proxy"} => idx[t] <= Size[t]
  BY <1>0 DEF AtCall
<1>p. ASSUME NEW t \in Tasks, Panic(t), UNCHANGED <<node, rows>>, pc[t] \notin Exposed
      PROVE  MintsOK'
  BY <1>p, <1>0, MovingKeepsMints DEF Panic, task, TypeOK
<1>g. ASSUME NEW t \in Tasks, NEW q \in Live \ {"send", "record"}, Proceed(t, q),
             UNCHANGED <<node, rows, commit>>, pc[t] \notin Exposed
      PROVE  MintsOK'
  BY <1>g, <1>0, ProceedType, MovingKeepsMints DEF Proceed
<1>1. ASSUME NEW t \in Tasks, Receive(t) \/ Answer(t) \/ Enqueue(t) PROVE MintsOK'
  <2>1. /\ UNCHANGED <<idx, result, node, rows, commit, step>> /\ pc[t] \notin Exposed
        /\ pc'[t] \notin {"send", "record"}
        /\ \A u \in Tasks \ {t} : pc'[u] = pc[u]
    BY <1>0, <1>1 DEF Receive, Answer, Enqueue, task, TypeOK, Exposed
  <2> QED
    BY <2>1, MovingKeepsMints
<1>2. ASSUME NEW t \in Tasks, Acquire(t) PROVE MintsOK'
  <2>1. Method[Cur(t)] \in LockMethods
    BY <1>0, <1>2 DEF Acquire, AtCall
  <2>2. Entry[Method[Cur(t)]] \in Live \ {"send", "record"}
    BY <2>1 DEF LockMethods, Entry, Live, InLine, Held
  <2> QED
    BY <1>2, <1>g, <2>2 DEF Acquire, Exposed
<1>3. ASSUME NEW t \in Tasks, StartProxy(t) PROVE MintsOK'
  BY <1>3, <1>g DEF StartProxy, Live, Exposed
<1>4. ASSUME NEW t \in Tasks, InvalidParams(t) \/ Accounts(t) PROVE MintsOK'
  BY <1>4, AnsweringKeepsMints DEF InvalidParams, Accounts, SendCalls, Exposed
<1>5. ASSUME NEW t \in Tasks, Proxy(t) \/ EstimateGas(t) \/ GetTransactionCount(t)
      PROVE  MintsOK'
  <2>1. /\ pc[t] \in {"proxy", "gas", "query"} /\ idx[t] <= Size[t]
        /\ UNCHANGED <<node, rows>>
    BY <1>5, <1>c DEF Proxy, EstimateGas, GetTransactionCount, InLine, Held
  <2>2. Cur(t) \notin SendCalls /\ pc[t] \notin Exposed
    BY <1>0, <2>1 DEF AtCall, SendCalls, Exposed
  <2>3. CASE Panic(t)
    BY <2>1, <2>2, <2>3, <1>p
  <2>4. CASE UNCHANGED commit /\ \E r \in {"ok", "err"} : Finish(t, r)
    BY <2>1, <2>2, <2>4, AnsweringKeepsMints
  <2> QED
    BY <1>5, <2>3, <2>4 DEF Proxy, EstimateGas, GetTransactionCount
<1>6. ASSUME NEW t \in Tasks, Decode(t) \/ CheckFeeRate(t) PROVE MintsOK'
  <2>1. idx[t] <= Size[t]
    BY <1>6, <1>c DEF Decode, CheckFeeRate, InLine, Held
  <2> QED
    BY <1>6, <2>1, <1>g, AnsweringKeepsMints
       DEF Decode, CheckFeeRate, Live, InLine, Held, Exposed
<1>7. ASSUME NEW t \in Tasks, AttemptFails(t) PROVE MintsOK'
  <2>1. pc[t] \in {"fee", "check", "utxos"} /\ UNCHANGED <<node, rows>>
    BY <1>7 DEF AttemptFails
  <2>2. CASE Panic(t)
    BY <2>1, <2>2, <1>p DEF Exposed
  <2>3. CASE OneMore(t) /\ UNCHANGED memo
    BY <2>1, <2>3, <1>0, OneMoreType, MovingKeepsMints DEF OneMore, Exposed
  <2> QED
    BY <1>7, <2>2, <2>3 DEF AttemptFails
<1>8. ASSUME NEW t \in Tasks, GetMempoolFeeRate(t) PROVE MintsOK'
  <2>1. idx[t] <= Size[t]
    BY <1>8, <1>c DEF GetMempoolFeeRate, InLine, Held
  <2> QED
    BY <1>8, <2>1, <1>g, AnsweringKeepsMints
       DEF GetMempoolFeeRate, Live, InLine, Held, Exposed, SendCalls
<1>9. ASSUME NEW t \in Tasks, GetBalance(t) PROVE MintsOK'
  <2>1. pc[t] = "utxos" /\ idx[t] <= Size[t] /\ UNCHANGED <<node, rows>>
    BY <1>9, <1>c DEF GetBalance, InLine, Held
  <2>2. Cur(t) \notin SendCalls /\ pc[t] \notin Exposed
    BY <1>9, <2>1 DEF GetBalance, SendCalls, Exposed
  <2>3. CASE Panic(t)
    BY <2>1, <2>2, <2>3, <1>p
  <2>4. CASE Finish(t, "ok") /\ UNCHANGED memo
    BY <1>9, <2>1, <2>2, <2>4, AnsweringKeepsMints DEF GetBalance
  <2> QED
    BY <1>9, <2>3, <2>4 DEF GetBalance
<1>10. ASSUME NEW t \in Tasks, ConstructMintTxes(t) PROVE MintsOK'
  BY <1>10, ConstructKeepsMints
<1>11. ASSUME NEW t \in Tasks, TestMempoolAccept(t) PROVE MintsOK'
  BY <1>11, TestKeepsMints
<1>12. ASSUME NEW t \in Tasks, SendRawTransaction(t) PROVE MintsOK'
  BY <1>12, SendKeepsMints
<1>13. ASSUME NEW t \in Tasks, AddTx(t) PROVE MintsOK'
  <2>1. CASE Panic(t) /\ UNCHANGED rows
    BY <1>13, <2>1, <1>0, LeavingRecordKeepsMints DEF AddTx, Panic, task, TypeOK
  <2> QED
    BY <1>13, <2>1, RecordKeepsMints DEF AddTx
<1>14. ASSUME NEW t \in Tasks, GetBrc20Nonce(t) PROVE MintsOK'
  <2>1. idx[t] <= Size[t] /\ Cur(t) \notin SendCalls
    BY <1>14, <1>0, <1>c DEF GetBrc20Nonce, AtCall, InLine, Held, SendCalls
  <2> QED
    BY <1>14, <2>1, <1>g, AnsweringKeepsMints
       DEF GetBrc20Nonce, Live, InLine, Held, Exposed
<1>15. ASSUME NEW t \in Tasks, Disconnect(t) PROVE MintsOK'
  <2>1. /\ UNCHANGED <<idx, step, result, commit, node>> /\ pc'[t] = "cancelled"
        /\ \A u \in Tasks \ {t} : pc'[u] = pc[u]
    BY <1>15, <1>0 DEF Disconnect, task, TypeOK
  <2>2. CASE pc[t] = "record"
    BY <1>15, <2>1, <2>2, LeavingRecordKeepsMints DEF Disconnect
  <2>3. CASE pc[t] # "record"
    BY <1>15, <2>1, <2>3, MovingKeepsMints DEF Disconnect, Exposed
  <2> QED
    BY <2>2, <2>3
<1>16. ASSUME Crash PROVE MintsOK'
  BY <1>16, CrashKeepsMints
<1>17. ASSUME Brc20Executes \/ UNCHANGED vars PROVE MintsOK'
  <2>1. UNCHANGED <<pc, idx, step, result, node, rows, commit>>
    BY <1>17 DEF Brc20Executes, vars, task
  <2> QED
    BY <2>1 DEF IInv, MintsOK, Answered, Broadcasting, RecordedIsAnswered,
                Consistent, TestIsNotStale, ErrMeansUntouched, OkMeansRecorded,
                RecordedSurvives, StrandedOnlyByFailure, Stranded, Cur,
                Unspent, Created, Spent
<1> QED
  BY <1>1, <1>2, <1>3, <1>4, <1>5, <1>6, <1>7, <1>8, <1>9, <1>10, <1>11, <1>12,
     <1>13, <1>14, <1>15, <1>16, <1>17 DEF Next, Serve, Terminating

-----------------------------------------------------------------------------
(***************************************************************************)
(* The inductive invariant, and what follows from it for every answer.     *)
(***************************************************************************)
LEMMA IInvIs == IInv <=> TypeOK /\ AtCall /\ LineIsOrdered /\ MintsOK
BY DEF IInv, MintsOK

THEOREM Invariance == Spec => []IInv
<1>1. Init => IInv
  BY TypeInit, LineInit, MintsInit, IInvIs
<1>2. IInv /\ [Next]_vars => IInv'
  <2> SUFFICES ASSUME IInv, [Next]_vars
               PROVE  TypeOK' /\ AtCall' /\ LineIsOrdered' /\ MintsOK'
    BY DEF IInv, MintsOK
  <2>1. TypeOK /\ AtCall /\ LineIsOrdered
    BY DEF IInv
  <2>2. OneHolder
    BY <2>1, OrderedMeansOneHolder
  <2> QED
    BY <2>1, <2>2, TypeStep, LineStep, MintsStep
<1> QED
  BY <1>1, <1>2, PTL DEF Spec

\* eth_sendRawTransaction answered with an error has broadcast nothing and
\* recorded nothing.
THEOREM ErrorsAreClean == Spec => []ErrMeansUntouched
<1>1. IInv => ErrMeansUntouched
  BY DEF IInv
<1> QED
  BY <1>1, Invariance, PTL

\* eth_sendRawTransaction answered with a hash is in the table.
THEOREM SuccessIsRecorded == Spec => []OkMeansRecorded
<1>1. IInv => OkMeansRecorded
  BY DEF IInv
<1> QED
  BY <1>1, Invariance, PTL

\* No later mint replaces a transaction of a recorded one.
THEOREM RecordedMintsSurvive == Spec => []RecordedSurvives
<1>1. IInv => RecordedSurvives
  BY DEF IInv
<1> QED
  BY <1>1, Invariance, PTL

\* The mempool test still holds when the commit is broadcast.
THEOREM TestsAreNotStale == Spec => []TestIsNotStale
<1>1. IInv => TestIsNotStale
  BY DEF IInv
<1> QED
  BY <1>1, Invariance, PTL

\* A mint is left incomplete or unrecorded only by a panic, a crash or a
\* client that went away, and by the last one only after all its broadcasts.
THEOREM StrandingNeedsAFailure == Spec => []StrandedOnlyByFailure
<1>1. IInv => StrandedOnlyByFailure
  BY DEF IInv
<1> QED
  BY <1>1, Invariance, PTL

-----------------------------------------------------------------------------
(***************************************************************************)
(* What eth_getTransactionCount answers in the course of time.             *)
(***************************************************************************)

Stored     == {Nonce[c] : c \in rows}
CountCalls == {c \in Calls : Method[c] = "count"}

\* No answer given is beyond what the query would return now, nor beyond
\* what it will return to the task that has read BRC2.0's count.
AnswersAreCovered ==
    /\ \A t \in Tasks : pc[t] = "query" => base[t] <= brc20Nonce
    /\ \A d \in CountCalls : result[d] = "ok" =>
          /\ answer[d] <= TransactionCount(Stored, brc20Nonce)
          /\ \A t \in Tasks : pc[t] = "query" =>
                answer[d] <= TransactionCount(Stored, base[t])

LEMMA NoncesAreFinite ==
    ASSUME NEW R \in SUBSET SendCalls
    PROVE  {Nonce[c] : c \in R} \in SUBSET Nat /\ IsFiniteSet({Nonce[c] : c \in R})
<1>1. IsFiniteSet(R)
  BY CallsAreFinite, FS_Subset DEF SendCalls
<1>2. [c \in R |-> Nonce[c]] \in Surjection(R, {Nonce[c] : c \in R})
  BY DEF Surjection
<1>3. IsFiniteSet({Nonce[c] : c \in R})
  BY <1>1, <1>2, FS_Surjection
<1>4. \A c \in R : Nonce[c] \in Nat
  BY NonceAssumption
<1> QED
  BY <1>3, <1>4

\* The counts the query can return grow with the table and BRC2.0's count.
LEMMA CountsGrow ==
    ASSUME TypeOK, TypeOK', rows \subseteq rows'
    PROVE  \A b, b2 \in Nat : b <= b2 =>
              /\ TransactionCount(Stored, b) \in Nat
              /\ TransactionCount(Stored', b2) \in Nat
              /\ TransactionCount(Stored, b) <= TransactionCount(Stored', b2)
<1>1. Stored \subseteq Stored'
  BY DEF Stored
<1>2. Stored \in SUBSET Nat /\ IsFiniteSet(Stored)
  <2>1. rows \in SUBSET SendCalls
    BY DEF TypeOK
  <2> QED
    BY <2>1, NoncesAreFinite DEF Stored
<1>3. Stored' \in SUBSET Nat /\ IsFiniteSet(Stored')
  <2>1. rows' \in SUBSET SendCalls
    BY DEF TypeOK
  <2> QED
    BY <2>1, NoncesAreFinite DEF Stored
<1> HIDE DEF Stored
<1> QED
  BY <1>1, <1>2, <1>3, TransactionCountIsMonotonic, TransactionCountIsFirstFree

\* A step that answers no eth_getTransactionCount: the table and BRC2.0's
\* count may grow, and a task that starts a query has just read that count.
AnswersNoCount ==
    /\ rows \subseteq rows' /\ brc20Nonce <= brc20Nonce' /\ answer' = answer
    /\ \A d \in CountCalls : result'[d] = "ok" => result[d] = "ok"
    /\ \A t \in Tasks : pc'[t] = "query" =>
          \/ pc[t] = "query" /\ base'[t] = base[t]
          \/ base'[t] = brc20Nonce

LEMMA OtherStepsCover ==
    ASSUME TypeOK, TypeOK', AnswersAreCovered, AnswersNoCount
    PROVE  AnswersAreCovered'
<1>1. /\ brc20Nonce \in Nat /\ brc20Nonce' \in Nat
      /\ \A t \in Tasks : base[t] \in Nat
      /\ \A d \in CountCalls : answer[d] \in Nat
  BY DEF TypeOK, CountCalls
<1>2. ASSUME NEW t \in Tasks, pc'[t] = "query" PROVE base'[t] <= brc20Nonce'
  BY <1>1, <1>2 DEF AnswersAreCovered, AnswersNoCount
<1>3. ASSUME NEW d \in CountCalls, result'[d] = "ok"
      PROVE  answer'[d] <= TransactionCount(Stored', brc20Nonce')
  BY <1>1, <1>3, CountsGrow DEF AnswersAreCovered, AnswersNoCount
<1>4. ASSUME NEW d \in CountCalls, result'[d] = "ok", NEW t \in Tasks, pc'[t] = "query"
      PROVE  answer'[d] <= TransactionCount(Stored', base'[t])
  <2>1. CASE pc[t] = "query" /\ base'[t] = base[t]
    BY <1>1, <1>3, <1>4, <2>1, CountsGrow DEF AnswersAreCovered, AnswersNoCount
  <2>2. CASE base'[t] = brc20Nonce
    BY <1>1, <1>4, <2>2, CountsGrow DEF AnswersAreCovered, AnswersNoCount
  <2> QED
    BY <1>4, <2>1, <2>2 DEF AnswersNoCount
<1> QED
  BY <1>2, <1>3, <1>4 DEF AnswersAreCovered, CountCalls

\* The answer of a query becomes one of the answers given: the rest of the
\* Mutex's line is not at a query, so none has a smaller answer in hand.
LEMMA QueryCovers ==
    ASSUME TypeOK, TypeOK', AtCall, OneHolder, AnswersAreCovered,
           NEW t \in Tasks, pc[t] = "query", Finish(t, "ok"),
           rows' = rows, brc20Nonce' = brc20Nonce, base' = base,
           answer' = [answer EXCEPT ![Cur(t)] = TransactionCount(Stored, base[t])]
    PROVE  AnswersAreCovered'
<1>1. idx[t] <= Size[t] /\ Cur(t) \in Calls
  BY CurIsCall DEF AtCall, InLine, Held
<1>2. \A u \in Tasks : pc'[u] # "query"
  <2>1. pc'[t] = "ready" /\ \A u \in Tasks \ {t} : pc'[u] = pc[u]
    BY <1>1, FinishType
  <2> QED
    BY <2>1 DEF OneHolder, Held
<1>3. Stored' = Stored
  BY DEF Stored
<1>4. /\ brc20Nonce \in Nat /\ base[t] \in Nat /\ base[t] <= brc20Nonce
      /\ answer \in [Calls -> Nat] /\ result \in [Calls -> {"none", "ok", "err"}]
  BY DEF TypeOK, AnswersAreCovered
<1>5. TransactionCount(Stored, base[t]) <= TransactionCount(Stored', brc20Nonce)
  BY <1>4, CountsGrow
<1>6. ASSUME NEW d \in CountCalls, result'[d] = "ok"
      PROVE  answer'[d] <= TransactionCount(Stored', brc20Nonce')
  <2>1. d \in Calls
    BY DEF CountCalls
  <2>2. CASE d = Cur(t)
    BY <1>1, <1>4, <1>5, <2>2
  <2>3. CASE d # Cur(t)
    <3>1. result[d] = "ok" /\ answer'[d] = answer[d]
      BY <1>4, <1>6, <2>1, <2>3 DEF Finish
    <3> QED
      BY <1>3, <3>1 DEF AnswersAreCovered
  <2> QED
    BY <2>2, <2>3
<1> QED
  BY <1>2, <1>6 DEF AnswersAreCovered, CountCalls

\* The moves of a task that is at no eth_getTransactionCount query.
LEMMA FinishAnswersNoCount ==
    ASSUME TypeOK, NEW t \in Tasks, NEW r \in {"ok", "err"}, Finish(t, r),
           idx[t] <= Size[t], r = "err" \/ Method[Cur(t)] # "count",
           rows \subseteq rows', brc20Nonce' = brc20Nonce, answer' = answer, base' = base
    PROVE  AnswersNoCount
<1>1. pc'[t] = "ready" /\ \A u \in Tasks \ {t} : pc'[u] = pc[u]
  BY FinishType
<1>2. brc20Nonce <= brc20Nonce'
  BY DEF TypeOK
<1>3. \A d \in CountCalls : result'[d] = "ok" => result[d] = "ok"
  BY DEF Finish, TypeOK, CountCalls
<1> QED
  BY <1>1, <1>2, <1>3 DEF AnswersNoCount

LEMMA MovingAnswersNoCount ==
    ASSUME TypeOK, NEW t \in Tasks,
           \A u \in Tasks \ {t} : pc'[u] = pc[u],
           pc'[t] # "query" \/ pc'[t] = pc[t],
           result' = result, rows \subseteq rows', brc20Nonce' = brc20Nonce,
           answer' = answer, base' = base
    PROVE  AnswersNoCount
<1>1. brc20Nonce <= brc20Nonce'
  BY DEF TypeOK
<1> QED
  BY <1>1 DEF AnswersNoCount

LEMMA ProceedingAnswersNoCount ==
    ASSUME TypeOK, NEW t \in Tasks, NEW p \in Live \ {"query"}, Proceed(t, p),
           UNCHANGED <<rows, brc20Nonce, answer, base>>
    PROVE  AnswersNoCount
<1>1. pc'[t] = p /\ \A u \in Tasks \ {t} : pc'[u] = pc[u]
  BY ProceedType
<1> QED
  BY <1>1, MovingAnswersNoCount DEF Proceed

LEMMA OneMoreAnswersNoCount ==
    ASSUME TypeOK, NEW t \in Tasks, OneMore(t),
           UNCHANGED <<rows, brc20Nonce, answer, base>>
    PROVE  AnswersNoCount
BY MovingAnswersNoCount DEF OneMore

LEMMA PanickingAnswersNoCount ==
    ASSUME TypeOK, NEW t \in Tasks, Panic(t), UNCHANGED <<rows, brc20Nonce>>
    PROVE  AnswersNoCount
<1>1. pc'[t] = "panicked" /\ \A u \in Tasks \ {t} : pc'[u] = pc[u]
  BY PanicType
<1> QED
  BY <1>1, MovingAnswersNoCount DEF Panic, task

\* Every step either answers no eth_getTransactionCount or is the answer of
\* the query of the task that holds the Mutex.
QueryAnswered(t) ==
    /\ pc[t] = "query" /\ Finish(t, "ok")
    /\ UNCHANGED <<rows, brc20Nonce, base>>
    /\ answer' = [answer EXCEPT ![Cur(t)] = TransactionCount(Stored, base[t])]

LEMMA CountSteps ==
    ASSUME TypeOK, AtCall, [Next]_vars
    PROVE  AnswersNoCount \/ \E t \in Tasks : QueryAnswered(t)
<1> USE DEF world, memo
<1> DEFINE Goal == AnswersNoCount \/ \E t \in Tasks : QueryAnswered(t)
<1>c. \A t \in Tasks : pc[t] \in InLine \cup {"proxy"} => idx[t] <= Size[t]
  BY DEF AtCall
<1>1. ASSUME NEW t \in Tasks, Receive(t) \/ Answer(t) \/ Enqueue(t) PROVE Goal
  <2>1. /\ \A u \in Tasks \ {t} : pc'[u] = pc[u]
        /\ pc'[t] # "query"
    BY <1>1 DEF Receive, Answer, Enqueue, Goto, TypeOK
  <2>2. UNCHANGED <<result, rows, brc20Nonce, answer, base>>
    BY <1>1 DEF Receive, Answer, Enqueue, task
  <2> QED
    BY <2>1, <2>2, MovingAnswersNoCount
<1>2. ASSUME NEW t \in Tasks, InvalidParams(t) PROVE Goal
  BY <1>2, FinishAnswersNoCount DEF InvalidParams
<1>3. ASSUME NEW t \in Tasks, Accounts(t) PROVE Goal
  BY <1>3, FinishAnswersNoCount DEF Accounts
<1>4. ASSUME NEW t \in Tasks, Acquire(t) PROVE Goal
  <2>1. Method[Cur(t)] \in LockMethods
    BY <1>4 DEF Acquire, AtCall
  <2>2. Entry[Method[Cur(t)]] \in Live \ {"query"}
    BY <2>1 DEF LockMethods, Entry, Live, InLine, Held
  <2> QED
    BY <1>4, <2>2, ProceedingAnswersNoCount DEF Acquire
<1>5. ASSUME NEW t \in Tasks, StartProxy(t) PROVE Goal
  BY <1>5, ProceedingAnswersNoCount DEF StartProxy, Live
<1>6. ASSUME NEW t \in Tasks, Proxy(t) PROVE Goal
  <2>1. idx[t] <= Size[t] /\ Method[Cur(t)] = "proxy"
    BY <1>6, <1>c DEF Proxy, AtCall
  <2> QED
    BY <1>6, <2>1, FinishAnswersNoCount, PanickingAnswersNoCount DEF Proxy
<1>7. ASSUME NEW t \in Tasks, Decode(t) PROVE Goal
  <2>1. idx[t] <= Size[t]
    BY <1>7, <1>c DEF Decode, InLine, Held
  <2> QED
    BY <1>7, <2>1, FinishAnswersNoCount, ProceedingAnswersNoCount
       DEF Decode, Live, InLine, Held
<1>8. ASSUME NEW t \in Tasks, AttemptFails(t) PROVE Goal
  BY <1>8, OneMoreAnswersNoCount, PanickingAnswersNoCount DEF AttemptFails
<1>9. ASSUME NEW t \in Tasks, GetMempoolFeeRate(t) PROVE Goal
  <2>1. idx[t] <= Size[t]
    BY <1>9, <1>c DEF GetMempoolFeeRate, InLine, Held
  <2> QED
    BY <1>9, <2>1, FinishAnswersNoCount, ProceedingAnswersNoCount
       DEF GetMempoolFeeRate, Live, InLine, Held
<1>10. ASSUME NEW t \in Tasks, CheckFeeRate(t) PROVE Goal
  <2>1. idx[t] <= Size[t]
    BY <1>10, <1>c DEF CheckFeeRate, InLine, Held
  <2> QED
    BY <1>10, <2>1, FinishAnswersNoCount, ProceedingAnswersNoCount
       DEF CheckFeeRate, Live, InLine, Held
<1>11. ASSUME NEW t \in Tasks, GetBalance(t) PROVE Goal
  <2>1. idx[t] <= Size[t]
    BY <1>11, <1>c DEF GetBalance, InLine, Held
  <2> QED
    BY <1>11, <2>1, FinishAnswersNoCount, PanickingAnswersNoCount DEF GetBalance
<1>12. ASSUME NEW t \in Tasks, ConstructMintTxes(t) PROVE Goal
  <2>1. idx[t] <= Size[t]
    BY <1>12, <1>c DEF ConstructMintTxes, InLine, Held
  <2>2. UNCHANGED <<rows, brc20Nonce, answer, base>>
    BY <1>12 DEF ConstructMintTxes
  <2>3. Proceed(t, "test") \/ Finish(t, "err")
    BY <1>12 DEF ConstructMintTxes
  <2> QED
    BY <2>1, <2>2, <2>3, FinishAnswersNoCount, ProceedingAnswersNoCount
       DEF Live, InLine, Held
<1>13. ASSUME NEW t \in Tasks, TestMempoolAccept(t) PROVE Goal
  <2>1. idx[t] <= Size[t]
    BY <1>13, <1>c DEF TestMempoolAccept, InLine, Held
  <2> QED
    BY <1>13, <2>1, FinishAnswersNoCount, ProceedingAnswersNoCount,
       OneMoreAnswersNoCount DEF TestMempoolAccept, Live, InLine, Held
<1>14. ASSUME NEW t \in Tasks, SendRawTransaction(t) PROVE Goal
  <2>1. OneMore(t) \/ Proceed(t, "record") \/ Panic(t)
    BY <1>14 DEF SendRawTransaction
  <2>2. UNCHANGED <<rows, brc20Nonce, answer, base>>
    BY <1>14 DEF SendRawTransaction, Panic, task
  <2> QED
    BY <2>1, <2>2, ProceedingAnswersNoCount, OneMoreAnswersNoCount,
       PanickingAnswersNoCount DEF Live, InLine, Held
<1>15. ASSUME NEW t \in Tasks, AddTx(t) PROVE Goal
  <2>1. idx[t] <= Size[t] /\ Method[Cur(t)] = "send"
    BY <1>15, <1>c DEF AddTx, AtCall, InLine, Held
  <2> QED
    BY <1>15, <2>1, FinishAnswersNoCount, PanickingAnswersNoCount DEF AddTx
<1>16. ASSUME NEW t \in Tasks, GetBrc20Nonce(t) PROVE Goal
  <2>1. idx[t] <= Size[t]
    BY <1>16, <1>c DEF GetBrc20Nonce, InLine, Held
  <2>2. CASE Finish(t, "err") /\ UNCHANGED base
    BY <1>16, <2>1, <2>2, FinishAnswersNoCount DEF GetBrc20Nonce
  <2>3. CASE base' = [base EXCEPT ![t] = brc20Nonce] /\ Proceed(t, "query")
    <3>1. \A u \in Tasks \ {t} : pc'[u] = pc[u] /\ base'[u] = base[u]
      BY <2>3, ProceedType DEF TypeOK, Live, InLine, Held
    <3>2. base'[t] = brc20Nonce
      BY <2>3 DEF TypeOK
    <3>3. brc20Nonce <= brc20Nonce'
      BY <1>16 DEF GetBrc20Nonce, TypeOK
    <3>4. UNCHANGED <<rows, answer, result>>
      BY <1>16, <2>3 DEF GetBrc20Nonce, Proceed
    <3> QED
      BY <3>1, <3>2, <3>3, <3>4 DEF AnswersNoCount
  <2> QED
    BY <1>16, <2>2, <2>3 DEF GetBrc20Nonce
<1>17. ASSUME NEW t \in Tasks, GetTransactionCount(t) PROVE Goal
  <2>1. CASE Panic(t)
    BY <1>17, <2>1, PanickingAnswersNoCount DEF GetTransactionCount
  <2>2. CASE Finish(t, "ok") /\ ~ Panic(t)
    BY <1>17, <2>2 DEF GetTransactionCount, QueryAnswered, Stored
  <2> QED
    BY <1>17, <2>1, <2>2 DEF GetTransactionCount
<1>18. ASSUME NEW t \in Tasks, EstimateGas(t) PROVE Goal
  <2>1. idx[t] <= Size[t] /\ Method[Cur(t)] = "estimate"
    BY <1>18, <1>c DEF EstimateGas, AtCall, InLine, Held
  <2> QED
    BY <1>18, <2>1, FinishAnswersNoCount, PanickingAnswersNoCount DEF EstimateGas
<1>19. ASSUME NEW t \in Tasks, Disconnect(t) PROVE Goal
  <2>1. pc'[t] = "cancelled" /\ \A u \in Tasks \ {t} : pc'[u] = pc[u]
    BY <1>19 DEF Disconnect, Goto, TypeOK
  <2>2. rows \subseteq rows' /\ UNCHANGED <<result, brc20Nonce, answer, base>>
    BY <1>19 DEF Disconnect, task
  <2> QED
    BY <2>1, <2>2, MovingAnswersNoCount
<1>20. ASSUME Crash PROVE Goal
  <2>1. \A u \in Tasks : pc'[u] = "query" => pc[u] = "query"
    BY <1>20 DEF Crash
  <2> QED
    BY <1>20, <2>1 DEF Crash, AnswersNoCount, TypeOK, task
<1>21. ASSUME Brc20Executes PROVE Goal
  <2>1. brc20Nonce <= brc20Nonce'
    BY <1>21 DEF Brc20Executes, TypeOK
  <2> QED
    BY <1>21, <2>1 DEF Brc20Executes, AnswersNoCount, task
<1>22. ASSUME UNCHANGED vars PROVE Goal
  BY <1>22 DEF vars, task, AnswersNoCount, TypeOK
<1> QED
  BY <1>1, <1>2, <1>3, <1>4, <1>5, <1>6, <1>7, <1>8, <1>9, <1>10, <1>11, <1>12,
     <1>13, <1>14, <1>15, <1>16, <1>17, <1>18, <1>19, <1>20, <1>21, <1>22
     DEF Next, Serve, Terminating

(***************************************************************************)
(* CountNeverGoesBack: no eth_getTransactionCount returns less than one    *)
(* answered before it (get_nonce holds the Mutex over both of its reads).  *)
(***************************************************************************)
LEMMA CoverInit == Init => AnswersAreCovered
BY DEF Init, AnswersAreCovered, CountCalls

LEMMA CoverStep ==
    ASSUME TypeOK, TypeOK', AtCall, OneHolder, AnswersAreCovered, [Next]_vars
    PROVE  AnswersAreCovered'
<1>1. CASE AnswersNoCount
  BY <1>1, OtherStepsCover
<1>2. ASSUME NEW t \in Tasks, QueryAnswered(t) PROVE AnswersAreCovered'
  BY <1>2, QueryCovers DEF QueryAnswered
<1> QED
  BY <1>1, <1>2, CountSteps

\* An eth_getTransactionCount that is answered is the first free nonce of the
\* table as it is then.
LEMMA AnswerIsOfTheQuery ==
    ASSUME TypeOK, AtCall, [Next]_vars,
           NEW c \in CountCalls, result[c] = "none", result'[c] = "ok"
    PROVE  \E t \in Tasks :
              /\ pc[t] = "query" /\ c = Cur(t)
              /\ base[t] \in Nat /\ base'[t] = base[t] /\ rows' = rows
              /\ Stored \in SUBSET Nat /\ IsFiniteSet(Stored)
              /\ answer'[c] = TransactionCount(Stored, base[t])
<1>1. ~ AnswersNoCount
  BY DEF AnswersNoCount
<1>2. PICK t \in Tasks : QueryAnswered(t)
  BY <1>1, CountSteps
<1>3. c \in Calls
  BY DEF CountCalls
<1>4. c = Cur(t)
  BY <1>2, <1>3 DEF QueryAnswered, Finish, TypeOK
<1>5. answer'[c] = TransactionCount(Stored, base[t])
  BY <1>2, <1>3, <1>4 DEF QueryAnswered, TypeOK
<1>6. rows \in SUBSET SendCalls
  BY DEF TypeOK
<1>7. base[t] \in Nat /\ base'[t] = base[t] /\ rows' = rows /\ pc[t] = "query"
  BY <1>2 DEF QueryAnswered, TypeOK
<1> QED
  BY <1>4, <1>5, <1>6, <1>7, NoncesAreFinite DEF Stored

NoCountGoesBack ==
    \A c, d \in Calls :
        (/\ Method[c] = "count" /\ result[c] = "none" /\ result'[c] = "ok"
         /\ Method[d] = "count" /\ result[d] = "ok")
        => answer'[c] >= answer[d]

LEMMA AnswersGrow ==
    ASSUME TypeOK, AtCall, AnswersAreCovered, [Next]_vars
    PROVE  NoCountGoesBack
<1> SUFFICES ASSUME NEW c \in Calls, NEW d \in Calls,
                    Method[c] = "count", result[c] = "none", result'[c] = "ok",
                    Method[d] = "count", result[d] = "ok"
             PROVE  answer'[c] >= answer[d]
  BY DEF NoCountGoesBack
<1>1. c \in CountCalls /\ d \in CountCalls
  BY DEF CountCalls
<1>2. PICK t \in Tasks :
         /\ pc[t] = "query" /\ base[t] \in Nat
         /\ Stored \in SUBSET Nat /\ IsFiniteSet(Stored)
         /\ answer'[c] = TransactionCount(Stored, base[t])
  BY <1>1, AnswerIsOfTheQuery
<1>3. answer[d] <= TransactionCount(Stored, base[t]) /\ answer[d] \in Nat
  BY <1>1, <1>2 DEF AnswersAreCovered, TypeOK
<1>4. TransactionCount(Stored, base[t]) \in Nat
  BY <1>2, TransactionCountIsFirstFree
<1> QED
  BY <1>2, <1>3, <1>4

THEOREM CountsAreMonotonic == Spec => CountNeverGoesBack
<1>1. TypeOK /\ AtCall /\ OneHolder /\ AnswersAreCovered /\ [Next]_vars
        => AnswersAreCovered'
  BY TypeStep, CoverStep
<1>2. TypeOK /\ AtCall /\ AnswersAreCovered /\ [Next]_vars => [NoCountGoesBack]_vars
  BY AnswersGrow
<1>3. Spec => [](TypeOK /\ AtCall)
  BY TypeInit, TypeStep, PTL DEF Spec
<1>4. CountNeverGoesBack <=> [][NoCountGoesBack]_vars
  BY DEF CountNeverGoesBack, NoCountGoesBack
<1> QED
  BY <1>1, <1>2, <1>3, <1>4, CoverInit, MutualExclusion, PTL DEF Spec

(***************************************************************************)
(* CountIsFirstFree: the count that is answered is a nonce which no mint   *)
(* answered with a hash has used, and every nonce between BRC2.0's count   *)
(* and it is in the table (get_transaction_count's join finds the first    *)
(* gap, and add_tx has inserted every mint that was answered).             *)
(***************************************************************************)
EveryCountIsFree ==
    \A c \in Calls : Method[c] = "count" /\ result[c] = "none" /\ result'[c] = "ok" =>
      /\ \A d \in SendCalls : result[d] = "ok" => answer'[c] # Nonce[d]
      /\ \A n \in base[c[1]]..(answer'[c] - 1) : \E d \in rows : Nonce[d] = n

LEMMA AnswersAreFree ==
    ASSUME TypeOK, AtCall, OkMeansRecorded, [Next]_vars
    PROVE  EveryCountIsFree
<1> SUFFICES ASSUME NEW c \in Calls,
                    Method[c] = "count", result[c] = "none", result'[c] = "ok"
             PROVE  /\ \A d \in SendCalls : result[d] = "ok" => answer'[c] # Nonce[d]
                    /\ \A n \in base[c[1]]..(answer'[c] - 1) :
                          \E d \in rows : Nonce[d] = n
  BY DEF EveryCountIsFree
<1>1. c \in CountCalls
  BY DEF CountCalls
<1>2. PICK t \in Tasks :
         /\ c = Cur(t) /\ base[t] \in Nat
         /\ Stored \in SUBSET Nat /\ IsFiniteSet(Stored)
         /\ answer'[c] = TransactionCount(Stored, base[t])
  BY <1>1, AnswerIsOfTheQuery
<1>3. c[1] = t
  BY <1>2 DEF Cur
<1>4. /\ answer'[c] \notin Stored
      /\ \A n \in base[t]..(answer'[c] - 1) : n \in Stored
  BY <1>2, TransactionCountIsFirstFree
<1>5. ASSUME NEW d \in SendCalls, result[d] = "ok" PROVE Nonce[d] \in Stored
  BY <1>5 DEF OkMeansRecorded, Stored
<1> QED
  BY <1>3, <1>4, <1>5 DEF Stored

THEOREM CountsAreFree == Spec => CountIsFirstFree
<1>1. TypeOK /\ AtCall /\ OkMeansRecorded /\ [Next]_vars => [EveryCountIsFree]_vars
  BY AnswersAreFree
<1>2. Spec => [](TypeOK /\ AtCall)
  BY TypeInit, TypeStep, PTL DEF Spec
<1>3. CountIsFirstFree <=> [][EveryCountIsFree]_vars
  BY DEF CountIsFirstFree, EveryCountIsFree
<1> QED
  BY <1>1, <1>2, <1>3, SuccessIsRecorded, PTL DEF Spec
=============================================================================
