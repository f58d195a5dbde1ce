------------------------ MODULE MintRefinement_proofs ------------------------
(***************************************************************************)
(* MintServer implements MintPromise, for every value of the constants:    *)
(* every step of the server is a step of the abstract minter or leaves it  *)
(* as it is.                                                               *)
(***************************************************************************)
EXTENDS MintRefinement, MintServer_proofs

Broadcasts == {"send", "record"}

LEMMA OpenIs ==
    \A x : x \in Open <=> \E t \in Tasks : pc[t] \in Broadcasts /\ x = Cur(t)
BY DEF Open, Broadcasts

LEMMA RefinementInit == Init => Promise!Init
<1> SUFFICES ASSUME Init PROVE Promise!Init
  OBVIOUS
<1>1. Open = {}
  BY DEF Init, Open
<1>2. Verdicts = [c \in SendCalls |-> "none"]
  BY DEF Init, Verdicts, SendCalls
<1> QED
  BY <1>1, <1>2 DEF Init, Promise!Init

(***************************************************************************)
(* A task that moves away from the broadcasts is not seen.                 *)
(***************************************************************************)
LEMMA MovingIsHidden ==
    ASSUME NEW t \in Tasks, UNCHANGED <<idx, result, node, rows>>,
           \A u \in Tasks \ {t} : pc'[u] = pc[u],
           pc[t] \notin Broadcasts, pc'[t] \notin Broadcasts
    PROVE  UNCHANGED <<Open, node, rows, Verdicts>>
<1>1. \A u \in Tasks : /\ Cur(u)' = Cur(u)
                       /\ pc'[u] \in Broadcasts <=> pc[u] \in Broadcasts
  BY DEF Cur
<1>2. Open' = Open
  BY <1>1 DEF Open, Broadcasts
<1>3. Verdicts' = Verdicts
  BY DEF Verdicts
<1> QED
  BY <1>2, <1>3

(***************************************************************************)
(* An error is a refusal; the result of another method is not seen.        *)
(***************************************************************************)
LEMMA AnsweringRefuses ==
    ASSUME IInv, NEW t \in Tasks, idx[t] <= Size[t], pc[t] \notin Exposed,
           NEW r \in {"ok", "err"}, Cur(t) \in SendCalls => r = "err",
           Finish(t, r), UNCHANGED <<node, rows>>
    PROVE  \/ UNCHANGED <<Open, node, rows, Verdicts>>
           \/ Cur(t) \in SendCalls /\ Promise!Refuse(Cur(t))
<1>0. TypeOK /\ Cur(t) \in Calls /\ Cur(t)[1] = t /\ Cur(t)[2] = idx[t] /\ idx[t] \in Nat
  BY CurIsCall DEF IInv, TypeOK
<1>1. /\ \A u \in Tasks \ {t} : pc'[u] = pc[u] /\ idx'[u] = idx[u]
      /\ pc'[t] = "ready"
  BY <1>0, FinishType
<1>2. /\ result'[Cur(t)] = r
      /\ \A x \in Calls : x # Cur(t) => result'[x] = result[x]
  BY <1>0 DEF Finish, TypeOK
<1>3. \A u \in Tasks : /\ pc[u] \in Broadcasts => u # t
                       /\ pc'[u] \in Broadcasts => u # t
  BY <1>1 DEF Exposed, Broadcasts
<1>4. \A u \in Tasks \ {t} : Cur(u)' = Cur(u) /\ pc'[u] = pc[u]
  BY <1>1 DEF Cur
<1>5. Open' = Open
  BY <1>3, <1>4 DEF Open, Broadcasts
<1>6. CASE Cur(t) \notin SendCalls
  <2>1. \A x \in SendCalls : result'[x] = result[x]
    BY <1>2, <1>6 DEF SendCalls
  <2> QED
    BY <1>5, <2>1 DEF Verdicts
<1>7. CASE Cur(t) \in SendCalls
  <2>1. node[Cur(t)] = 0
    BY <1>7, NotYetSent DEF Exposed
  <2>2. result[Cur(t)] = "none"
    BY <1>0 DEF IInv, Answered
  <2>3. Cur(t) \notin Open
    <3> SUFFICES ASSUME NEW u \in Tasks, pc[u] \in Broadcasts, Cur(t) = Cur(u)
                 PROVE  FALSE
      BY OpenIs
    <3> QED
      BY <1>3 DEF Cur
  <2>4. Verdicts' = [Verdicts EXCEPT ![Cur(t)] = "err"]
    BY <1>2, <1>7 DEF Verdicts, SendCalls
  <2> QED
    BY <1>5, <1>7, <2>1, <2>2, <2>3, <2>4 DEF Promise!Refuse, Verdicts
<1> QED
  BY <1>6, <1>7

(***************************************************************************)
(* The one task in its broadcasts has the one mint that is open.           *)
(***************************************************************************)
LEMMA TheOpenMint ==
    ASSUME IInv, OneHolder, NEW t \in Tasks, pc[t] \in Broadcasts
    PROVE  /\ Open = {Cur(t)} /\ Cur(t) \in SendCalls
           /\ \A u \in Tasks \ {t} : pc[u] \notin Held
           /\ result[Cur(t)] = "none" /\ Cur(t) \notin rows
<1>1. \A u \in Tasks \ {t} : pc[u] \notin Held
  BY DEF OneHolder, Held, Broadcasts
<1>2. Open = {Cur(t)}
  BY <1>1 DEF Open, Broadcasts, Held
<1>3. idx[t] <= Size[t] /\ Method[Cur(t)] = "send" /\ TypeOK
  BY DEF IInv, AtCall, InLine, Held, Broadcasts
<1>4. Cur(t) \in SendCalls /\ Cur(t) \in Calls /\ Cur(t)[1] = t /\ Cur(t)[2] = idx[t]
  BY <1>3, CurIsCall DEF SendCalls
<1>5. result[Cur(t)] = "none"
  BY <1>3, <1>4 DEF IInv, Answered, TypeOK
<1>6. Cur(t) \notin rows
  BY <1>4, NotYetSent DEF Broadcasts
<1> QED
  BY <1>1, <1>2, <1>4, <1>5, <1>6

\* No task is in its broadcasts after a step of t that ends them.
LEMMA NothingOpen ==
    ASSUME NEW t \in Tasks, \A u \in Tasks \ {t} : pc[u] \notin Held /\ pc'[u] = pc[u],
           pc'[t] \notin Broadcasts
    PROVE  Open' = {}
<1>1. \A u \in Tasks : pc'[u] \notin Broadcasts
  BY DEF Broadcasts, Held
<1> QED
  BY <1>1 DEF Open, Broadcasts

\* The last successful test opens the mint.
LEMMA TestOpens ==
    ASSUME IInv, OneHolder, NEW t \in Tasks, pc[t] = "test", Cur(t) \in SendCalls,
           Proceed(t, "send"), UNCHANGED <<node, rows>>
    PROVE  Promise!Open(Cur(t))
<1>0. TypeOK /\ Cur(t)[1] = t /\ Cur(t)[2] = idx[t] /\ Cur(t) \in Calls /\ idx[t] \in Nat
  BY DEF IInv, TypeOK, Cur, SendCalls
<1>1. \A u \in Tasks \ {t} : pc[u] \notin Held /\ pc'[u] = pc[u]
  BY <1>0 DEF OneHolder, Held, Proceed, Goto, TypeOK
<1>2. pc'[t] = "send" /\ UNCHANGED <<idx, result>>
  BY <1>0 DEF Proceed, Goto, TypeOK
<1>3. Open = {}
  BY <1>1 DEF Open, Held
<1>4. Open' = {Cur(t)}
  BY <1>1, <1>2 DEF Open, Held, Cur
<1>5. node[Cur(t)] = 0 /\ Cur(t) \notin rows
  BY NotYetSent DEF Exposed
<1>6. result[Cur(t)] = "none"
  BY <1>0 DEF IInv, Answered
<1>7. Verdicts' = Verdicts /\ Verdicts[Cur(t)] = "none"
  BY <1>2, <1>6 DEF Verdicts
<1> QED
  BY <1>3, <1>4, <1>5, <1>7 DEF Promise!Open

LEMMA SendBroadcasts ==
    ASSUME IInv, OneHolder, NEW t \in Tasks, SendRawTransaction(t)
    PROVE  Promise!Broadcast(Cur(t)) \/ Promise!Abandon(Cur(t))
<1>0. TypeOK /\ pc[t] = "send" /\ step[t] \in Nat
  BY DEF IInv, TypeOK, SendRawTransaction
<1>1. /\ Open = {Cur(t)} /\ Cur(t) \in SendCalls
      /\ \A u \in Tasks \ {t} : pc[u] \notin Held
  BY <1>0, TheOpenMint DEF Broadcasts
<1>2. /\ UNCHANGED <<idx, result, rows>>
      /\ \A u \in Tasks \ {t} : pc'[u] = pc[u]
      /\ \/ pc'[t] \in Broadcasts /\ node' \in AfterSend(Cur(t), step[t] + 1)
         \/ pc'[t] = "panicked" /\ node' \in AfterSend(Cur(t), step[t] + 1)
         \/ pc'[t] = "panicked" /\ node' = node
  <2>1. CASE OneMore(t)
    BY <1>0, <2>1 DEF SendRawTransaction, OneMore, Panic, Goto, task, TypeOK, Broadcasts
  <2>2. CASE Proceed(t, "record")
    BY <1>0, <2>2 DEF SendRawTransaction, Proceed, Panic, Goto, task, TypeOK, Broadcasts
  <2>3. CASE Panic(t)
    BY <1>0, <2>3 DEF SendRawTransaction, Panic, Goto, task, TypeOK
  <2> QED
    BY <2>1, <2>2, <2>3 DEF SendRawTransaction
<1>3. Verdicts' = Verdicts
  BY <1>2 DEF Verdicts
<1>4. node' \in AfterSend(Cur(t), step[t] + 1) =>
        node' = [node EXCEPT ![Cur(t)] = @ + 1] /\ node[Cur(t)] < 3
  BY <1>0, SendAddsOne
<1>5. CASE pc'[t] \in Broadcasts /\ node' \in AfterSend(Cur(t), step[t] + 1)
  <2>1. Open' = Open
    BY <1>1, <1>2, <1>5 DEF Open, Broadcasts, Held, Cur
  <2> QED
    BY <1>1, <1>2, <1>3, <1>4, <1>5, <2>1 DEF Promise!Broadcast
<1>6. CASE pc'[t] = "panicked"
  <2>1. Open' = {}
    BY <1>1, <1>2, <1>6, NothingOpen DEF Broadcasts
  <2> QED
    BY <1>1, <1>2, <1>3, <1>4, <1>6, <2>1 DEF Promise!Abandon
<1> QED
  BY <1>2, <1>5, <1>6

LEMMA AddTxRecords ==
    ASSUME IInv, OneHolder, NEW t \in Tasks, AddTx(t)
    PROVE  Promise!Record(Cur(t)) \/ Promise!Abandon(Cur(t))
<1>0. TypeOK /\ pc[t] = "record" /\ node' = node
  BY DEF IInv, AddTx
<1>1. /\ Open = {Cur(t)} /\ Cur(t) \in SendCalls
      /\ \A u \in Tasks \ {t} : pc[u] \notin Held
  BY <1>0, TheOpenMint DEF Broadcasts
<1>2. node[Cur(t)] = 3
  BY <1>0 DEF IInv, Broadcasting
<1>3. CASE Panic(t) /\ UNCHANGED rows
  <2>1. /\ UNCHANGED result /\ pc'[t] = "panicked"
        /\ \A u \in Tasks \ {t} : pc'[u] = pc[u]
    BY <1>0, <1>3 DEF Panic, Goto, task, TypeOK
  <2>2. Open' = {} /\ Verdicts' = Verdicts
    BY <1>1, <2>1, NothingOpen DEF Broadcasts, Verdicts
  <2> QED
    BY <1>0, <1>1, <1>3, <2>2 DEF Promise!Abandon
<1>4. CASE Finish(t, "ok") /\ rows' = rows \cup {Cur(t)}
  <2>1. /\ result' = [result EXCEPT ![Cur(t)] = "ok"] /\ pc'[t] = "ready"
        /\ \A u \in Tasks \ {t} : pc'[u] = pc[u]
    BY <1>0, <1>4 DEF Finish, Goto, TypeOK
  <2>2. Open' = {}
    BY <1>1, <2>1, NothingOpen DEF Broadcasts
  <2>3. Verdicts' = [Verdicts EXCEPT ![Cur(t)] = "ok"]
    BY <1>0, <1>1, <2>1 DEF Verdicts, SendCalls, TypeOK
  <2> QED
    BY <1>0, <1>1, <1>2, <1>4, <2>2, <2>3 DEF Promise!Record
<1> QED
  BY <1>3, <1>4 DEF AddTx

LEMMA DisconnectEnds ==
    ASSUME IInv, OneHolder, NEW t \in Tasks, Disconnect(t)
    PROVE  \/ UNCHANGED <<Open, node, rows, Verdicts>>
           \/ /\ Cur(t) \in SendCalls
              /\ Promise!Record(Cur(t)) \/ Promise!Abandon(Cur(t))
<1>0. /\ UNCHANGED <<idx, result, node>> /\ pc'[t] = "cancelled"
      /\ \A u \in Tasks \ {t} : pc'[u] = pc[u]
  BY DEF IInv, TypeOK, Disconnect, Goto, task
<1>1. CASE pc[t] = "record"
  <2>1. /\ Open = {Cur(t)} /\ Cur(t) \in SendCalls
        /\ \A u \in Tasks \ {t} : pc[u] \notin Held
    BY <1>1, TheOpenMint DEF Broadcasts
  <2>2. node[Cur(t)] = 3
    BY <1>1 DEF IInv, Broadcasting
  <2>3. Open' = {} /\ Verdicts' = Verdicts
    BY <1>0, <2>1, NothingOpen DEF Broadcasts, Verdicts
  <2>4. rows' = rows \cup {Cur(t)} \/ rows' = rows
    BY DEF Disconnect
  <2> QED
    BY <1>0, <2>1, <2>2, <2>3, <2>4 DEF Promise!Record, Promise!Abandon
<1>2. CASE pc[t] # "record"
  <2>1. pc[t] \notin Broadcasts /\ rows' = rows
    BY <1>2 DEF Disconnect, Broadcasts
  <2> QED
    BY <1>0, <2>1, MovingIsHidden DEF Broadcasts
<1> QED
  BY <1>1, <1>2

LEMMA CrashAbandons ==
    ASSUME IInv, OneHolder, Crash
    PROVE  \/ UNCHANGED <<Open, node, rows, Verdicts>>
           \/ \E c \in SendCalls : Promise!Abandon(c)
<1>1. \A t \in Tasks : pc'[t] \notin Broadcasts
  BY DEF Crash, IInv, TypeOK, Live, InLine, Held, Broadcasts
<1>2. Open' = {} /\ Verdicts' = Verdicts /\ node' = node /\ rows' = rows
  BY <1>1 DEF Open, Broadcasts, Crash, task, Verdicts
<1>3. CASE Open = {}
  BY <1>2, <1>3
<1>4. CASE Open # {}
  <2>1. PICK t \in Tasks : pc[t] \in Broadcasts
    BY <1>4, OpenIs
  <2>2. Cur(t) \in Open /\ Cur(t) \in SendCalls
    BY <2>1, TheOpenMint
  <2>3. Promise!Abandon(Cur(t))
    BY <1>2, <2>2 DEF Promise!Abandon
  <2> QED
    BY <2>2, <2>3
<1> QED
  BY <1>3, <1>4

LEMMA RefinementStep ==
    IInv /\ OneHolder /\ [Next]_vars => [Promise!Next]_(Promise!vars)
<1> SUFFICES ASSUME IInv, OneHolder, [Next]_vars
             PROVE  Promise!Next \/ UNCHANGED <<Open, node, rows, Verdicts>>
  BY DEF Promise!vars
<1> USE DEF world, memo, Goto
<1>0. TypeOK /\ AtCall
  BY DEF IInv
<1>c. \A t \in Tasks : pc[t] \in InLine \cup {"proxy"} => idx[t] <= Size[t]
  BY <1>0 DEF AtCall
<1>n. \A c \in SendCalls :
        (\/ Promise!Open(c) \/ Promise!Broadcast(c) \/ Promise!Record(c)
         \/ Promise!Abandon(c) \/ Promise!Refuse(c)) => Promise!Next
  BY DEF Promise!Next
<1>a. ASSUME NEW t \in Tasks, idx[t] <= Size[t], pc[t] \notin Exposed,
             NEW r \in {"ok", "err"}, Cur(t) \in SendCalls => r = "err",
             Finish(t, r), UNCHANGED <<node, rows>>
      PROVE  Promise!Next \/ UNCHANGED <<Open, node, rows, Verdicts>>
  BY <1>a, <1>n, AnsweringRefuses
<1>p. ASSUME NEW t \in Tasks, Panic(t), UNCHANGED <<node, rows>>, pc[t] \notin Exposed
      PROVE  UNCHANGED <<Open, node, rows, Verdicts>>
  <2>1. /\ UNCHANGED <<idx, result>> /\ pc'[t] = "panicked"
        /\ \A u \in Tasks \ {t} : pc'[u] = pc[u]
    BY <1>p, <1>0 DEF Panic, task, TypeOK
  <2> QED
    BY <1>p, <2>1, MovingIsHidden DEF Broadcasts, Exposed
<1>g. ASSUME NEW t \in Tasks, NEW q \in Live \ Broadcasts, Proceed(t, q),
             UNCHANGED <<node, rows>>, pc[t] \notin Exposed
      PROVE  UNCHANGED <<Open, node, rows, Verdicts>>
  <2>1. /\ UNCHANGED <<idx, result>> /\ pc'[t] = q
        /\ \A u \in Tasks \ {t} : pc'[u] = pc[u]
    BY <1>g, <1>0 DEF Proceed, TypeOK
  <2> QED
    BY <1>g, <2>1, MovingIsHidden DEF Broadcasts, Exposed
<1>o. ASSUME NEW t \in Tasks, OneMore(t), UNCHANGED <<node, rows>>
      PROVE  UNCHANGED <<Open, node, rows, Verdicts>>
  BY <1>o DEF OneMore, Open, Cur, Verdicts
<1>1. ASSUME NEW t \in Tasks, Receive(t) \/ Answer(t) \/ Enqueue(t)
      PROVE  UNCHANGED <<Open, node, rows, Verdicts>>
  <2>1. /\ UNCHANGED <<idx, result, node, rows>>
        /\ pc[t] \notin Broadcasts /\ pc'[t] \notin Broadcasts
        /\ \A u \in Tasks \ {t} : pc'[u] = pc[u]
    BY <1>0, <1>1 DEF Receive, Answer, Enqueue, task, TypeOK, Broadcasts
  <2> QED
    BY <2>1, MovingIsHidden
<1>2. ASSUME NEW t \in Tasks, Acquire(t)
      PROVE  UNCHANGED <<Open, node, rows, Verdicts>>
  <2>1. Method[Cur(t)] \in LockMethods
    BY <1>0, <1>2 DEF Acquire, AtCall
  <2>2. Entry[Method[Cur(t)]] \in Live \ Broadcasts
    BY <2>1 DEF LockMethods, Entry, Live, InLine, Held, Broadcasts
  <2> QED
    BY <1>2, <1>g, <2>2 DEF Acquire, Exposed
<1>3. ASSUME NEW t \in Tasks, StartProxy(t)
      PROVE  UNCHANGED <<Open, node, rows, Verdicts>>
  BY <1>3, <1>g DEF StartProxy, Live, Exposed, Broadcasts
<1>4. ASSUME NEW t \in Tasks, InvalidParams(t) \/ Accounts(t)
      PROVE  Promise!Next \/ UNCHANGED <<Open, node, rows, Verdicts>>
  BY <1>4, <1>a DEF InvalidParams, Accounts, SendCalls, Exposed
<1>5. ASSUME NEW t \in Tasks,
             Proxy(t) \/ EstimateGas(t) \/ GetTransactionCount(t) \/ GetBalance(t)
      PROVE  Promise!Next \/ UNCHANGED <<Open, node, rows, Verdicts>>
  <2>1. /\ pc[t] \in {"proxy", "gas", "query", "utxos"} /\ idx[t] <= Size[t]
        /\ UNCHANGED <<node, rows>>
        /\ pc[t] = "utxos" => Method[Cur(t)] = "balance"
    BY <1>5, <1>c DEF Proxy, EstimateGas, GetTransactionCount, GetBalance, InLine, Held
  <2>2. Cur(t) \notin SendCalls /\ pc[t] \notin Exposed
    BY <1>0, <2>1 DEF AtCall, SendCalls, Exposed
  <2> QED
    BY <1>5, <2>1, <2>2, <1>a, <1>p
       DEF Proxy, EstimateGas, GetTransactionCount, GetBalance
<1>6. ASSUME NEW t \in Tasks,
             \/ Decode(t) \/ CheckFeeRate(t) \/ GetMempoolFeeRate(t)
             \/ ConstructMintTxes(t) \/ GetBrc20Nonce(t)
      PROVE  Promise!Next \/ UNCHANGED <<Open, node, rows, Verdicts>>
  <2>1. /\ pc[t] \in {"decode", "check", "utxos", "fee", "nonce"}
        /\ UNCHANGED <<node, rows>>
        /\ \/ \E q \in Live \ Broadcasts : Proceed(t, q)
           \/ Finish(t, "err")
           \/ Finish(t, "ok") /\ Method[Cur(t)] # "send"
    BY <1>6 DEF Decode, CheckFeeRate, GetMempoolFeeRate, ConstructMintTxes,
                GetBrc20Nonce, Live, InLine, Held, Broadcasts
  <2>2. idx[t] <= Size[t] /\ pc[t] \notin Exposed
    BY <1>c, <2>1 DEF InLine, Held, Exposed
  <2> QED
    BY <2>1, <2>2, <1>a, <1>g DEF SendCalls
<1>7. ASSUME NEW t \in Tasks, AttemptFails(t)
      PROVE  UNCHANGED <<Open, node, rows, Verdicts>>
  BY <1>7, <1>o, <1>p DEF AttemptFails, Exposed
<1>8. ASSUME NEW t \in Tasks, TestMempoolAccept(t)
      PROVE  Promise!Next \/ UNCHANGED <<Open, node, rows, Verdicts>>
  <2>1. /\ pc[t] = "test" /\ idx[t] <= Size[t] /\ Method[Cur(t)] = "send"
        /\ UNCHANGED <<node, rows>>
    BY <1>0, <1>8 DEF TestMempoolAccept, AtCall, InLine, Held
  <2>2. Cur(t) \in SendCalls
    BY <1>0, <2>1, CurIsCall DEF SendCalls
  <2> QED
    BY <1>8, <2>1, <2>2, <1>a, <1>n, <1>o, TestOpens DEF TestMempoolAccept, Exposed
<1>9. ASSUME NEW t \in Tasks, SendRawTransaction(t) \/ AddTx(t) PROVE Promise!Next
  <2>1. pc[t] \in Broadcasts
    BY <1>9 DEF SendRawTransaction, AddTx, Broadcasts
  <2>2. Cur(t) \in SendCalls
    BY <2>1, TheOpenMint
  <2> QED
    BY <1>9, <2>2, <1>n, SendBroadcasts, AddTxRecords
<1>10. ASSUME NEW t \in Tasks, Disconnect(t)
       PROVE  Promise!Next \/ UNCHANGED <<Open, node, rows, Verdicts>>
  BY <1>10, <1>n, DisconnectEnds
<1>11. ASSUME Crash PROVE Promise!Next \/ UNCHANGED <<Open, node, rows, Verdicts>>
  BY <1>11, <1>n, CrashAbandons
<1>12. ASSUME Brc20Executes \/ UNCHANGED vars
       PROVE  UNCHANGED <<Open, node, rows, Verdicts>>
  BY <1>12 DEF Brc20Executes, vars, task, Open, Cur, Verdicts
<1> QED
  BY <1>1, <1>2, <1>3, <1>4, <1>5, <1>6, <1>7, <1>8, <1>9, <1>10, <1>11, <1>12
     DEF Next, Serve, Terminating

(***************************************************************************)
(* The server keeps the promise of the abstract minter.                    *)
(***************************************************************************)
THEOREM Refinement == Spec => KeepsMintPromise
<1> QED
  BY RefinementInit, RefinementStep, Invariance, MutualExclusion, PTL
     DEF Spec, KeepsMintPromise, Promise!Spec
=============================================================================
