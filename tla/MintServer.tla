----------------------------- MODULE MintServer -----------------------------
(***************************************************************************)
(* The JSON-RPC server of brc20-command-minter: one task per HTTP request  *)
(* (handler), the calls of a batch one after the other (handle_single_     *)
(* request), the tokio Mutex around ServerState, the minter's retries,     *)
(* mempool tests and three broadcasts, and the row added to SQLite.        *)
(*                                                                         *)
(* Outside the program, and modelled from its calls: the Bitcoin node      *)
(* (node), the mempool.space explorer (any earlier view of the node) and   *)
(* the BRC2.0 indexer (brc20Nonce).                                        *)
(*                                                                         *)
(* Amounts, fees and scripts are abstracted to the outpoints a mint spends *)
(* and whether its commit transaction has a change output.                 *)
(***************************************************************************)
EXTENDS NonceQuery, FiniteSets

CONSTANTS
    Tasks,        \* one HTTP request each
    Size,         \* Size[t]: the number of JSON-RPC calls in t's body
    Method,       \* Method[c]: the method of call c
    Nonce,        \* Nonce[c]: the nonce of the transaction that c sends
    Coins,        \* the outputs the wallet owns before the first mint
    MaxAttempts,  \* MAX_ATTEMPTS, 5 in the code
    MaxNonce,     \* bound: the BRC2.0 nonce of the sender stops here
    MaxCrashes    \* bound: how often the process dies

Calls     == UNION {{t} \X (1..Size[t]) : t \in Tasks}
SendCalls == {c \in Calls : Method[c] = "send"}

LockMethods  == {"balance", "count", "estimate", "send", "gasPrice"}
ParamMethods == {"count", "estimate", "send"}
Methods      == LockMethods \cup {"accounts", "proxy"}

ASSUME TasksAssumption    == IsFiniteSet(Tasks)
ASSUME SizeAssumption     == Size \in [Tasks -> Nat]
ASSUME MethodAssumption   == Method \in [Calls -> Methods]
ASSUME NonceAssumption    == Nonce \in [SendCalls -> Nat]
ASSUME AttemptsAssumption == MaxAttempts \in Nat \ {0}
ASSUME BoundsAssumption   == MaxNonce \in Nat /\ MaxCrashes \in Nat

VARIABLES
    pc,          \* where the task of each request is
    idx,         \* the call of its batch the task is at
    step,        \* failed attempts of the retry loop, or tests or broadcasts done
    ahead,       \* the Mutex: the tasks in line in front of each task
    result,      \* the JSON-RPC outcome of each call
    base,        \* get_nonce's brc20_nonce, kept across the database query
    answer,      \* the number each eth_getTransactionCount call returns
    commit,      \* what the commit transaction of each mint spends
    node,        \* how many of a mint's three transactions the node accepted
    rows,        \* the transactions table: the mints recorded in it
    brc20Nonce,  \* the sender's transaction count according to BRC2.0
    crashes

task == <<idx, step, result, base, answer, commit>>
vars == <<pc, ahead, task, node, rows, brc20Nonce, crashes>>

\* A task holds the lock in every state a locked call can be suspended in.
Held   == {"decode", "fee", "check", "utxos", "test", "send", "record",
           "nonce", "query", "gas"}
InLine == Held \cup {"queued"}
Live   == InLine \cup {"ready", "proxy"}
Ends   == {"answered", "refused", "panicked", "cancelled", "crashed"}

Cur(t) == <<t, idx[t]>>
Line   == {t \in Tasks : pc[t] \in InLine}

Outpoint == ({"coin"} \X Coins) \cup ({"change", "postage"} \X SendCalls)

TypeOK ==
    /\ pc \in [Tasks -> {"idle"} \cup Live \cup Ends]
    /\ idx \in [Tasks -> Nat]
    /\ \A t \in Tasks : idx[t] \in 1..(Size[t] + 1)
    /\ step \in [Tasks -> Nat]
    /\ ahead \in [Tasks -> SUBSET Tasks]
    /\ result \in [Calls -> {"none", "ok", "err"}]
    /\ base \in [Tasks -> Nat]
    /\ answer \in [Calls -> Nat]
    /\ commit \in [SendCalls -> [ins : SUBSET Outpoint, change : BOOLEAN]]
    /\ node \in [SendCalls -> 0..3]
    /\ rows \in SUBSET SendCalls
    /\ brc20Nonce \in Nat
    /\ crashes \in Nat

Init ==
    /\ pc = [t \in Tasks |-> "idle"]
    /\ idx = [t \in Tasks |-> 1]
    /\ step = [t \in Tasks |-> 0]
    /\ ahead = [t \in Tasks |-> {}]
    /\ result = [c \in Calls |-> "none"]
    /\ base = [t \in Tasks |-> 0]
    /\ answer = [c \in Calls |-> 0]
    /\ commit = [c \in SendCalls |-> [ins |-> {}, change |-> FALSE]]
    /\ node = [c \in SendCalls |-> 0]
    /\ rows = {}
    /\ brc20Nonce = 0
    /\ crashes = 0

-----------------------------------------------------------------------------
(* The Bitcoin node.  level[c] says how many of the transactions commit,   *)
(* reveal and burn (send_to_op_return) of mint c are in a view of the      *)
(* chain and mempool.  The reveal spends an output only it can spend.      *)

Created(level) ==
    ({"coin"} \X Coins)
      \cup {<<"change", c>> : c \in {d \in SendCalls : level[d] >= 1 /\ commit[d].change}}
      \cup {<<"postage", c>> : c \in {d \in SendCalls : level[d] >= 2}}

Spent(level) ==
    (UNION {commit[c].ins : c \in {d \in SendCalls : level[d] >= 1}})
      \cup {<<"postage", c>> : c \in {d \in SendCalls : level[d] = 3}}

Unspent(level) == Created(level) \ Spent(level)

\* No output is spent twice and every spent output exists.
Consistent(level) ==
    /\ \A c \in SendCalls :
          level[c] >= 1 => commit[c].ins \subseteq Created(level)
    /\ \A c, d \in SendCalls :
          (level[c] >= 1 /\ level[d] >= 1) =>
             /\ c # d => commit[c].ins \cap commit[d].ins = {}
             /\ level[d] = 3 => <<"postage", d>> \notin commit[c].ins

\* The views without the transactions that c's commit replaces (every commit
\* signals RBF) and their descendants: none, or the one that drops the least.
Survivors(c) ==
    LET with == {level \in [SendCalls -> 0..3] :
                    /\ level[c] = 1
                    /\ \A d \in SendCalls \ {c} : level[d] <= node[d]
                    /\ Consistent(level)}
    IN  {level \in with : \A l \in with : \A d \in SendCalls : l[d] <= level[d]}

\* testmempoolaccept of the first k transactions of c can succeed: a single
\* transaction may replace others, a package of several may not.
MempoolAllows(c, k) ==
    /\ commit[c].ins \subseteq Created(node)
    /\ commit[c].ins \cap Spent(node) # {} => k = 1 /\ Survivors(c) # {}

\* What the node holds after it accepted transaction k of c.
AfterSend(c, k) ==
    IF k = 1 THEN Survivors(c)
    ELSE IF node[c] = k - 1 /\ (k = 3 => <<"postage", c>> \in Unspent(node))
    THEN {[node EXCEPT ![c] = k]}
    ELSE {}

\* mempool.space may lag: it shows some prefix of what the node has accepted.
ExplorerViews == {level \in [SendCalls -> 0..3] :
                     \A c \in SendCalls : level[c] <= node[c]}

-----------------------------------------------------------------------------
(* How an action moves the task of request t.                              *)

Goto(t, p) == pc' = [pc EXCEPT ![t] = p]

\* The guard of the Mutex is dropped: t is no longer in front of anyone.
Unlock(t) == ahead' = [u \in Tasks |-> ahead[u] \ {t}]

\* handle_single_request returns, and the handler's loop goes on.
Finish(t, r) ==
    /\ result' = [result EXCEPT ![Cur(t)] = r]
    /\ idx' = [idx EXCEPT ![t] = @ + 1]
    /\ step' = [step EXCEPT ![t] = 0]
    /\ Goto(t, "ready")
    /\ Unlock(t)

\* Variant of Panic: a lock that stays locked after a panic.
PanicWithoutUnlock(t) ==
    /\ Goto(t, "panicked")
    /\ UNCHANGED <<ahead, task>>

\* A panic unwinds the task: the guard is dropped (a tokio Mutex has no
\* poisoning), the client gets no answer and the process goes on.
Panic(t) ==
    /\ Goto(t, "panicked")
    /\ Unlock(t)
    /\ UNCHANGED task

\* The next await or step of the same call.
Proceed(t, p) ==
    /\ Goto(t, p)
    /\ step' = [step EXCEPT ![t] = 0]
    /\ UNCHANGED <<idx, result, ahead>>

OneMore(t) ==
    /\ step' = [step EXCEPT ![t] = @ + 1]
    /\ UNCHANGED <<pc, idx, result, ahead>>

world == <<node, rows, brc20Nonce, crashes>>
memo  == <<base, answer, commit>>

-----------------------------------------------------------------------------
(* handler: authentication, the body, the batch.                           *)

Receive(t) ==
    /\ pc[t] = "idle"
    /\ Goto(t, "ready") \/ Goto(t, "refused")
    /\ UNCHANGED <<ahead, task, world>>

Answer(t) ==
    /\ pc[t] = "ready" /\ idx[t] > Size[t]
    /\ Goto(t, "answered")
    /\ UNCHANGED <<ahead, task, world>>

(* handle_single_request: the match on the method.                         *)

InvalidParams(t) ==
    /\ pc[t] = "ready" /\ idx[t] <= Size[t]
    /\ Method[Cur(t)] \in ParamMethods
    /\ Finish(t, "err")
    /\ UNCHANGED <<memo, world>>

Accounts(t) ==
    /\ pc[t] = "ready" /\ idx[t] <= Size[t]
    /\ Method[Cur(t)] = "accounts"
    /\ Finish(t, "ok")
    /\ UNCHANGED <<memo, world>>

\* Variant of Enqueue: a lock that is free to all waiting once it is dropped.
EnqueueBehindHolder(t) ==
    /\ pc[t] = "ready" /\ idx[t] <= Size[t]
    /\ Method[Cur(t)] \in LockMethods
    /\ Goto(t, "queued")
    /\ ahead' = [ahead EXCEPT ![t] = {u \in Line : pc[u] \in Held}]
    /\ UNCHANGED <<task, world>>

\* server.lock(): the Mutex is fair, the task goes to the end of the line.
Enqueue(t) ==
    /\ pc[t] = "ready" /\ idx[t] <= Size[t]
    /\ Method[Cur(t)] \in LockMethods
    /\ Goto(t, "queued")
    /\ ahead' = [ahead EXCEPT ![t] = Line]
    /\ UNCHANGED <<task, world>>

Entry == [balance |-> "utxos", count |-> "nonce", estimate |-> "gas",
          send |-> "decode", gasPrice |-> "fee"]

Acquire(t) ==
    /\ pc[t] = "queued" /\ ahead[t] = {}
    /\ Proceed(t, Entry[Method[Cur(t)]])
    /\ UNCHANGED <<memo, world>>

\* Every other method goes to the BRC2.0 node, without the lock.
StartProxy(t) ==
    /\ pc[t] = "ready" /\ idx[t] <= Size[t]
    /\ Method[Cur(t)] = "proxy"
    /\ Proceed(t, "proxy")
    /\ UNCHANGED <<memo, world>>

\* response.bytes().await.unwrap() panics when the body breaks off.
Proxy(t) ==
    /\ pc[t] = "proxy"
    /\ \/ \E r \in {"ok", "err"} : Finish(t, r) /\ UNCHANGED memo
       \/ Panic(t)
    /\ UNCHANGED world

-----------------------------------------------------------------------------
(* eth_sendRawTransaction: ServerState::mint up to Minter::mint.           *)

\* Hex, RLP, chain id, signature and sender address, then gas_price: below
\* 1 it is replaced by the mempool's rate.
Decode(t) ==
    /\ pc[t] = "decode"
    /\ \/ Finish(t, "err")
       \/ Proceed(t, "fee")
       \/ Proceed(t, "check")
    /\ UNCHANGED <<memo, world>>

\* Variant of AttemptFails: the loops run over 0..=MAX_ATTEMPTS.
AttemptOnceMore(t) ==
    /\ pc[t] \in {"fee", "check", "utxos"}
    /\ IF step[t] + 1 <= MaxAttempts THEN OneMore(t) /\ UNCHANGED memo
                                     ELSE Panic(t)
    /\ UNCHANGED world

\* The loops of get_mempool_fee_rate and get_utxos: a failed attempt is
\* followed by another one, the last one by a panic.
AttemptFails(t) ==
    /\ pc[t] \in {"fee", "check", "utxos"}
    /\ IF step[t] + 1 < MaxAttempts THEN OneMore(t) /\ UNCHANGED memo
                                    ELSE Panic(t)
    /\ UNCHANGED world

GetMempoolFeeRate(t) ==
    /\ pc[t] = "fee"
    /\ IF Method[Cur(t)] = "gasPrice" THEN Finish(t, "ok")
                                      ELSE Proceed(t, "check")
    /\ UNCHANGED <<memo, world>>

\* check_fee_rate_warning, then convert_to_brc20_inscription: the rate is
\* ten times the mempool's, the inscription is too long, or neither.
CheckFeeRate(t) ==
    /\ pc[t] = "check"
    /\ Finish(t, "err") \/ Proceed(t, "utxos")
    /\ UNCHANGED <<memo, world>>

-----------------------------------------------------------------------------
(* Minter::get_balance and Minter::mint.                                   *)

\* The sum of the values may overflow, a panic.
GetBalance(t) ==
    /\ pc[t] = "utxos" /\ Method[Cur(t)] = "balance"
    /\ \/ Finish(t, "ok") /\ UNCHANGED memo
       \/ Panic(t)
    /\ UNCHANGED world

\* construct_mint_txes selects among the outputs of the explorer's view, or
\* finds the funds insufficient.
ConstructMintTxes(t) ==
    /\ pc[t] = "utxos" /\ Method[Cur(t)] = "send"
    /\ \/ /\ \E ins \in (UNION {SUBSET Unspent(view) : view \in ExplorerViews}) \ {{}},
               change \in BOOLEAN :
              commit' = [commit EXCEPT ![Cur(t)] = [ins |-> ins, change |-> change]]
          /\ Proceed(t, "test")
       \/ Finish(t, "err") /\ UNCHANGED commit
    /\ UNCHANGED <<base, answer, world>>

\* Variant of TestMempoolAccept: only the commit is tested.
TestCommitOnly(t) ==
    /\ pc[t] = "test"
    /\ \/ MempoolAllows(Cur(t), 1) /\ Proceed(t, "send")
       \/ Finish(t, "err")
    /\ UNCHANGED <<memo, world>>

\* testmempoolaccept of the commit, then of commit and reveal, then of all
\* three.  The node may refuse for reasons of its own, or not answer.
TestMempoolAccept(t) ==
    /\ pc[t] = "test"
    /\ \/ /\ MempoolAllows(Cur(t), step[t] + 1)
          /\ IF step[t] < 2 THEN OneMore(t) ELSE Proceed(t, "send")
       \/ Finish(t, "err")
    /\ UNCHANGED <<memo, world>>

\* Variants of SendRawTransaction: a failed broadcast is returned as an error,
\* is ignored, or the loop over the transactions runs once too often.
SendOrReturnError(t) ==
    /\ pc[t] = "send"
    /\ \/ /\ node' \in AfterSend(Cur(t), step[t] + 1)
          /\ IF step[t] < 2 THEN OneMore(t) ELSE Proceed(t, "record")
       \/ Finish(t, "err") /\ UNCHANGED node
    /\ UNCHANGED <<memo, rows, brc20Nonce, crashes>>

SendAndIgnoreErrors(t) ==
    /\ pc[t] = "send"
    /\ node' \in AfterSend(Cur(t), step[t] + 1) \cup {node}
    /\ IF step[t] < 2 THEN OneMore(t) ELSE Proceed(t, "record")
    /\ UNCHANGED <<memo, rows, brc20Nonce, crashes>>

SendOneTooMany(t) ==
    /\ pc[t] = "send"
    /\ node' \in AfterSend(Cur(t), step[t] + 1)
    /\ IF step[t] < 3 THEN OneMore(t) ELSE Proceed(t, "record")
    /\ UNCHANGED <<memo, rows, brc20Nonce, crashes>>

\* sendrawtransaction of the commit, the reveal and the burn, with no await
\* between them.  The node may accept a transaction and its answer get lost.
SendRawTransaction(t) ==
    /\ pc[t] = "send"
    /\ \/ /\ node' \in AfterSend(Cur(t), step[t] + 1)
          /\ \/ /\ IF step[t] < 2 THEN OneMore(t) ELSE Proceed(t, "record")
                /\ UNCHANGED memo
             \/ Panic(t)
       \/ Panic(t) /\ UNCHANGED node
    /\ UNCHANGED <<rows, brc20Nonce, crashes>>

\* Variant of AddTx: a failed INSERT is only logged.
AddTxBestEffort(t) ==
    /\ pc[t] = "record"
    /\ rows' = rows \cup {Cur(t)} \/ UNCHANGED rows
    /\ Finish(t, "ok")
    /\ UNCHANGED <<memo, node, brc20Nonce, crashes>>

\* TxDatabase::add_tx, which panics if the INSERT fails.
AddTx(t) ==
    /\ pc[t] = "record"
    /\ \/ rows' = rows \cup {Cur(t)} /\ Finish(t, "ok") /\ UNCHANGED memo
       \/ Panic(t) /\ UNCHANGED rows
    /\ UNCHANGED <<node, brc20Nonce, crashes>>

-----------------------------------------------------------------------------
(* eth_getTransactionCount and eth_estimateGas.                            *)

\* Variant of GetBrc20Nonce: the lock is dropped before the table is read.
GetBrc20NonceUnlocked(t) ==
    /\ pc[t] = "nonce"
    /\ Goto(t, "query") /\ Unlock(t)
    /\ base' = [base EXCEPT ![t] = brc20Nonce]
    /\ UNCHANGED <<idx, step, result, answer, commit, world>>

GetBrc20Nonce(t) ==
    /\ pc[t] = "nonce"
    /\ \/ base' = [base EXCEPT ![t] = brc20Nonce] /\ Proceed(t, "query")
       \/ Finish(t, "err") /\ UNCHANGED base
    /\ UNCHANGED <<answer, commit, world>>

GetTransactionCount(t) ==
    /\ pc[t] = "query"
    /\ \/ /\ answer' = [answer EXCEPT ![Cur(t)] =
                           TransactionCount({Nonce[c] : c \in rows}, base[t])]
          /\ Finish(t, "ok")
          /\ UNCHANGED <<base, commit>>
       \/ Panic(t)
    /\ UNCHANGED world

\* generate_dummy_signed_tx panics for a call without `to` or data.
EstimateGas(t) ==
    /\ pc[t] = "gas"
    /\ \/ \E r \in {"ok", "err"} : Finish(t, r) /\ UNCHANGED memo
       \/ Panic(t)
    /\ UNCHANGED world

-----------------------------------------------------------------------------
(* What the program does not decide.                                       *)

\* Variant of Disconnect: with an await between the broadcasts, the future
\* may be dropped there too.
DisconnectAnywhere(t) ==
    /\ pc[t] \in InLine \cup {"proxy"}
    /\ Goto(t, "cancelled")
    /\ Unlock(t)
    /\ UNCHANGED <<task, node, rows, brc20Nonce, crashes>>

\* The client goes away: the future of the handler is dropped at its await.
\* In add_tx the INSERT may have reached the database.
Disconnect(t) ==
    /\ pc[t] \in {"queued", "fee", "check", "utxos", "record", "nonce",
                  "query", "gas", "proxy"}
    /\ Goto(t, "cancelled")
    /\ Unlock(t)
    /\ \/ pc[t] = "record" /\ rows' = rows \cup {Cur(t)}
       \/ UNCHANGED rows
    /\ UNCHANGED <<task, node, brc20Nonce, crashes>>

\* The process dies and is started again: the table and the outside stay.
Crash ==
    /\ crashes < MaxCrashes
    /\ crashes' = crashes + 1
    /\ pc' = [t \in Tasks |-> IF pc[t] \in Live THEN "crashed" ELSE pc[t]]
    /\ ahead' = [t \in Tasks |-> {}]
    /\ UNCHANGED <<task, node, rows, brc20Nonce>>

\* BRC2.0 executes the next transaction of the sender.
Brc20Executes ==
    /\ brc20Nonce < MaxNonce
    /\ brc20Nonce' = brc20Nonce + 1
    /\ UNCHANGED <<pc, ahead, task, node, rows, crashes>>

\* Every request has ended; there is nothing left to do.
Terminating ==
    /\ \A t \in Tasks : pc[t] \in Ends
    /\ UNCHANGED vars

Serve(t) ==
    \/ Answer(t) \/ InvalidParams(t) \/ Accounts(t) \/ Enqueue(t) \/ Acquire(t)
    \/ StartProxy(t) \/ Proxy(t) \/ Decode(t) \/ AttemptFails(t)
    \/ GetMempoolFeeRate(t) \/ CheckFeeRate(t) \/ GetBalance(t)
    \/ ConstructMintTxes(t) \/ TestMempoolAccept(t) \/ SendRawTransaction(t)
    \/ AddTx(t) \/ GetBrc20Nonce(t) \/ GetTransactionCount(t) \/ EstimateGas(t)

Next ==
    \/ \E t \in Tasks : Receive(t) \/ Serve(t) \/ Disconnect(t)
    \/ Crash \/ Brc20Executes \/ Terminating

Spec == Init /\ [][Next]_vars

\* The runtime polls every task that can go on, and every request the server
\* makes of another program is answered or fails.
FairSpec == Spec /\ \A t \in Tasks : WF_vars(Serve(t))

-----------------------------------------------------------------------------
(* Properties.                                                             *)

\* At most one task is inside ServerState: the Mutex is handed over in the
\* order of arrival whatever way its holder leaves (return, panic, drop).
OneHolder ==
    \A t, u \in Tasks : pc[t] \in Held /\ pc[u] \in Held => t = u

\* When the first broadcast comes, what testmempoolaccept said of the commit
\* is still true: its inputs exist and nothing the node has spends them.
\* (mint: the tests at 666-690 and the send at 692 see the same mempool.)
TestIsNotStale ==
    \A t \in Tasks : pc[t] = "send" /\ step[t] = 0 =>
        commit[Cur(t)].ins \subseteq Unspent(node)

\* An eth_sendRawTransaction answered with an error has put nothing on the
\* Bitcoin network: the client may send it again.
ErrMeansUntouched ==
    \A c \in SendCalls : result[c] = "err" => node[c] = 0 /\ c \notin rows

\* One answered with a hash is in the transactions table.
OkMeansRecorded ==
    \A c \in SendCalls : result[c] = "ok" => c \in rows

\* All three transactions of a recorded mint are with the node, and no later
\* mint replaced them, however old the explorer's view it was built from.
RecordedSurvives ==
    \A c \in rows : node[c] = 3

\* A mint whose chain is incomplete, or complete but not recorded, is being
\* broadcast or recorded now, or its task ended without an answer; one that
\* a client merely dropped (cancelled) has all three transactions out.
Stranded(c) == node[c] > 0 /\ c \notin rows
StrandedOnlyByFailure ==
    \A c \in SendCalls : Stranded(c) =>
        /\ idx[c[1]] = c[2]
        /\ pc[c[1]] \in {"send", "record", "panicked", "crashed", "cancelled"}
        /\ pc[c[1]] \in {"record", "cancelled"} => node[c] = 3

\* eth_getTransactionCount never returns less than it has returned before,
\* to whichever client: the BRC2.0 nonce and the table are read in one
\* critical section, and both only grow.
CountNeverGoesBack ==
    [][\A c, d \in Calls :
         (/\ Method[c] = "count" /\ result[c] = "none" /\ result'[c] = "ok"
          /\ Method[d] = "count" /\ result[d] = "ok")
         => answer'[c] >= answer[d]]_vars

\* eth_getTransactionCount returns a nonce that no transaction answered
\* before uses, with no free nonce between BRC2.0's count and it.
CountIsFirstFree ==
    [][\A c \in Calls : Method[c] = "count" /\ result[c] = "none" /\ result'[c] = "ok" =>
         /\ \A d \in SendCalls : result[d] = "ok" => answer'[c] # Nonce[d]
         /\ \A n \in base[c[1]]..(answer'[c] - 1) : \E d \in rows : Nonce[d] = n]_vars

\* Every request that is taken up ends: no panic, dropped client or
\* exhausted retry leaves the Mutex locked for those behind.
EveryRequestEnds ==
    \A t \in Tasks : pc[t] = "ready" ~> pc[t] \in Ends

\* Nobody at the Mutex waits for a task that has left it, and no tasks wait for
\* each other: among any tasks in line, one waits for none of them, and only
\* for others in line.  Some task in line can go on, whichever way the tasks
\* before it left: an answer, a panic, a dropped client, a restart.
TheLineMoves ==
    \A W \in (SUBSET Line) \ {{}} : \E t \in W : ahead[t] \subseteq Line \ W

\* A request does a bounded amount of work: each of its steps leads to the next
\* call of its batch, to a later stage of the same call or to an end, or is one
\* more attempt, test or broadcast, and of those there are MAX_ATTEMPTS, or
\* three.  Nothing is started over, whatever failed.
Stage == [idle |-> 0, ready |-> 1, queued |-> 2, proxy |-> 2, decode |-> 3,
          gas |-> 3, nonce |-> 3, query |-> 4, fee |-> 4, check |-> 5,
          utxos |-> 6, test |-> 7, send |-> 8, record |-> 9,
          answered |-> 10, refused |-> 10, panicked |-> 10,
          cancelled |-> 10, crashed |-> 10]

Rounds(stage) == IF stage \in {"test", "send"} THEN 3 ELSE MaxAttempts

GoesForward(t) ==
    \/ idx'[t] = idx[t] + 1
    \/ idx'[t] = idx[t] /\ Stage[pc[t]] < Stage[pc'[t]]
    \/ /\ idx'[t] = idx[t] /\ pc'[t] = pc[t]
       /\ step'[t] = step[t] + 1 /\ step'[t] < Rounds(pc[t])

WorkIsBounded ==
    [][\A t \in Tasks :
         <<pc'[t], idx'[t], step'[t]>> # <<pc[t], idx[t], step[t]>>
         => GoesForward(t)]_vars

-----------------------------------------------------------------------------
(* What makes these invariants inductive.                                  *)

\* The line is a line: a holder has nobody in front of it, and of two tasks
\* in line one is in front of the other.
LineIsOrdered ==
    /\ \A t \in Tasks : pc[t] \in Held => ahead[t] = {}
    /\ \A t, u \in Line : t # u => t \in ahead[u] \/ u \in ahead[t]

\* A task in a call is at a call of its batch, of the right method.
AtCall ==
    \A t \in Tasks :
        /\ pc[t] \in InLine \cup {"proxy"} => idx[t] <= Size[t]
        /\ pc[t] = "queued" => Method[Cur(t)] \in LockMethods
        /\ pc[t] = "fee" => Method[Cur(t)] \in {"send", "gasPrice"}
        /\ pc[t] \in {"decode", "check", "test", "send", "record"}
              => Method[Cur(t)] = "send"
        /\ pc[t] \in {"nonce", "query"} => Method[Cur(t)] = "count"
        /\ pc[t] = "gas" => Method[Cur(t)] = "estimate"
        /\ pc[t] = "proxy" => Method[Cur(t)] = "proxy"
        /\ pc[t] \in {"test", "send"} => step[t] <= 2

\* The calls a task has behind it are those that have a result.
Answered ==
    \A x \in Calls : result[x] = "none" <=> x[2] >= idx[x[1]]

\* The broadcasts of a task count what the node has of its mint.
Broadcasting ==
    \A t \in Tasks :
        /\ pc[t] = "send"   => node[Cur(t)] = step[t]
        /\ pc[t] = "record" => node[Cur(t)] = 3

\* A recorded mint was answered, unless its client went away.
RecordedIsAnswered ==
    \A x \in rows : \/ result[x] = "ok"
                    \/ idx[x[1]] = x[2] /\ pc[x[1]] = "cancelled"

IInv ==
    /\ TypeOK /\ AtCall /\ LineIsOrdered
    /\ Answered /\ Broadcasting /\ RecordedIsAnswered
    /\ Consistent(node) /\ TestIsNotStale
    /\ ErrMeansUntouched /\ OkMeansRecorded
    /\ RecordedSurvives /\ StrandedOnlyByFailure
=============================================================================
