# A verification of brc20-command-minter-rs

TLA+ models of the server in `src/src/core`, the TLC runs that check them and
the theorems TLAPS proves about them. Line numbers below are of the files in
`src/src/core`.

## The system

The program is a JSON-RPC server for one EVM address and one Bitcoin wallet.
A client sends a signed EVM transaction; the server inscribes it on Bitcoin with
three transactions (commit, reveal, and a *burn* that sends the reveal's output
to `OP_RETURN`) and records it in SQLite, so that the next nonce can be told
although BRC2.0 has not executed the transaction yet.

| Component | State | Operations | Talks to |
|---|---|---|---|
| Handler, dispatch (`server.rs` 385-595) | the call of the batch each task is at, the responses so far | authenticate and parse; one call after the other; answer at the end | clients; BRC2.0 for methods it does not know |
| `Arc<Mutex<ServerState>>` | the line of waiting tasks | `lock().await`; released by return, panic, or a dropped future | all tasks |
| `ServerState` (99-276) | none of its own between calls | `mint`, `get_nonce`, `estimate_fee`, `get_balance`, `get_fee_rate` | minter, database, BRC2.0 |
| `Minter` (`minter.rs`) | keys; no memory of what it minted | fee rate and UTXOs with retries; build, test and broadcast three transactions | mempool.space, Bitcoin Core |
| `TxDatabase` (`database.rs`) | table `transactions` | `create_tables`, `clear_tables`, `add_tx`, `get_transaction_count` | SQLite |
| Inscription (`transaction.rs`) | none | `convert_to_brc20_inscription`, `generate_dummy_signed_tx` | - |
| Start, reset, configuration (`server.rs` 278-383, `main.rs`, `config.rs`) | the token and the size limit, read once | `Config::default`; bind policy, authentication; `reset` drops the table | SQLite's files, which processes share |
| Clients and BRC2.0 (not the program) | the nonce a client was told; the account's count of executed transactions | ask, send, give up, retry; execute in the order of nonces | the server; the Bitcoin network |

What is hard about it:

- Requests run concurrently and meet at one lock, which is held over network
  calls, retries with sleeps, and the three broadcasts. It is left by return, by
  an early `Err`, by a panic (there are many `expect`s) and by cancellation.
- Three stores have to agree: the Bitcoin network, the table, and what the
  clients have been told. There is no log and no recovery: a mint that fails
  between two broadcasts is lost, with the secret that could spend its commit.
- The wallet's outputs come from a block explorer that lags behind the node the
  transactions are sent to, and every input signals RBF, so a mint built from an
  old view could replace an earlier mint.
- The next nonce is computed by a query over nonces that the clients chose, in
  any order, with gaps, stored as `i64` and used as `u64`.
- A client may give up on a request that stays in line, or that has yet to get
  there, ask again and send again; BRC2.0 executes nonces in order and waits at a
  gap for ever.
- The mempool's rate is looked at up to three times for one transaction, and moves.
- Servers, resets and restarts share a file, and each start creates the table.

The hazards are listed, each at its line and with the properties that watch it,
in `PROJECT.json`.

## The modules

| Module | What it is |
|---|---|
| `MintServer` | the server: handler tasks, lock, minter, table, and the node, explorer and BRC2.0 around them |
| `MintPromise` | what the minter promises, abstractly |
| `MintRefinement` | `MintServer` implements `MintPromise`: the mapping |
| `NonceQuery` | the SQL query and `get_nonce`'s maximum as operators on sets |
| `TxDatabase` | the table with integers of their real signedness, address spelling and resets |
| `MintTxes` | the coins, sizes, fees and amounts of one mint's three transactions |
| `Inscription` | the size of an inscription, and what makes one right |
| `Admission` | the fee rate and the size of one mint, or its refusal, while the mempool's rate moves |
| `NonceUse` | composition: clients, the line at the Mutex, `MintPromise`, `NonceQuery`, restarts and BRC2.0 |
| `Deployment` | processes from `main` to serving or to the end of `--reset`, on shared files |
| `MCMintServer`, `MCNonceUse`, `MCDeployment`, `*.cfg` | instances for TLC |
| `NonceQuery_proofs`, `MintServer_proofs`, `MintRefinement_proofs`, `TxDatabase_proofs`, `MintTxes_proofs`, `Admission_proofs`, `NonceUse_proofs`, `Deployment_proofs` | theorems and proofs |

Next to some definitions stands a *variant* of it (`Variant of AddTx: a failed
INSERT is only logged`). A variant is the code with a plausible mistake. It is
used by no specification; put in the place of the original it makes TLC report
the property named with it in `PROJECT.json`, which shows that the property
depends on that piece of code.

### MintServer

A *task* is one HTTP request. `pc[t]` is where it is suspended or what it does
next; `idx[t]` the call of its batch; a *call* is a pair of task and index.

| `pc` | the code |
|---|---|
| `idle`, `ready` | before the handler; in its loop, 442 |
| `queued` | in `server.lock().await` |
| `proxy` | the request to the BRC2.0 node, 574-594, without the lock |
| `decode`, `fee`, `check` | `mint` 173-211; `get_mempool_fee_rate` for a gas price below 1 or for `eth_gasPrice`; `check_fee_rate_warning` and the inscription, 222-240 |
| `utxos` | `get_utxos` and what follows it without an await: the balance or `construct_mint_txes` |
| `test`, `send` | the three `testmempoolaccept` and the three `sendrawtransaction`; `step[t]` counts those done |
| `record` | `add_tx` |
| `nonce`, `query` | the two reads of `get_nonce` |
| `gas` | `estimate_fee` |
| `answered`, `refused`, `panicked`, `cancelled`, `crashed` | how the request ended |

- The lock is `ahead[t]`, the set of tasks in front of `t`: a task joins behind
  everybody in line (`Enqueue`), gets the lock when nobody is in front
  (`Acquire`), and is removed from all these sets however it leaves (`Unlock`).
  Tokio's Mutex is a FIFO and has no poisoning.
- `Finish` is the return of `handle_single_request`, `Panic` an unwinding,
  `Disconnect` a dropped future. A future is dropped only at an await: the tests
  and broadcasts are made by a blocking client, so no `Disconnect` there.
- `AttemptFails` is one turn of a retry loop, the last of which panics. The sum in
  `GetBalance` may overflow, which panics too.
- `node[c]` counts how many of mint `c`'s transactions the Bitcoin node has;
  `commit[c]` is what the commit spends and whether it has change. Outpoints
  are the wallet's first coins, changes of commits, and postages of reveals.
  `ConstructMintTxes` takes any non-empty set of outputs that are unspent in
  some earlier view of the node (`ExplorerViews`), which is a superset of what
  the selection by value can take; it may also find the funds insufficient.
- `SendRawTransaction` may succeed, fail, or succeed with its answer lost. If
  the commit conflicts with others these are replaced with their descendants
  (`Survivors`).
- `Crash` ends every request at once; the table and the network stay. The
  restart is not a step of its own, as requests not yet received may come next.

All sends have the one sender the server accepts, so the table is a set of
calls and `Nonce[c]` the nonce of each.
There is no reset in `MintServer`: what it says of the table holds between resets,
which are in `TxDatabase`, `NonceUse` and `Deployment`.

### MintPromise and MintRefinement

The abstract minter has a mint `open` at a time. It broadcasts in order,
records after the third, or is abandoned, and then its caller gets no answer.
Refusals come only for mints that have broadcast nothing. In the server a mint
is open from its last successful mempool test until its row is inserted or its
task ends. `KeepsMintPromise` says that each step of the server is a step of the
abstract minter or changes none of its variables; so the server makes one mint
at a time, never takes back a broadcast, never changes an answer, and answers
neither too early nor untruthfully.

### NonceQuery and TxDatabase

`BeforeAGap` is the left join with its WHERE clause, `FirstMissing` the ORDER BY
and LIMIT, `TransactionCount` the maximum `get_nonce` takes. `TxDatabase` uses
them with integers of one width, `IMax` the largest signed one: nonces are cast with `as i64`, and a sum beyond
the range becomes a REAL in SQLite that does not decode (`Unread`, a panic).
`minted` is not in the code: it holds what was inserted, as unsigned numbers
and plain accounts, for the properties to compare with.

### MintTxes

One `construct_mint_txes`, or one `estimate`: `TakeLargest` is a turn of
`build_transaction`'s loop (258-274), `InsufficientFunds` and `BuildTransaction`
its two ends. Amounts are in sat and sizes in weight units, computed from the
same parts as the code's dummy transactions (`CommitWeight`, `RevealWeight`); a
fee rate is a number of tenths of a sat/vB, where the code has an `f64`, so the
rounding of floating point is left out and `ceil` is exact. `utxos` and `inputs`
are sets: the code sorts a list and pops its last element, which is any coin of
the largest value. Counts of inputs and outputs are taken to fit one byte
(fewer than 253 coins). `SignedReveal` is the reveal that is signed and
broadcast, with a signature of 65 bytes (minter.rs 352-435). In `MintServer` the
choice is any set of coins, which includes this one.

### Inscription and Admission

`Convert` is `convert_to_brc20_inscription` (transaction.rs 53-97): the size the gas
limit asks for, the two comparisons with the limit, and the padding, with the
arithmetic saturating at `Largest`. The signed transaction is the length of its
JSON text, or `Undecodable`. `Fits` says which sizes are right, and knows nothing of
how `Convert` gets there: the limit holds, the text is in it, the size times
12000 exceeds the gas limit (the code's `+ 1`), and one space less would not.

`Admission` is `mint` from the sender's check to the first look at a coin
(server.rs 213-240), after an optional `eth_gasPrice` (267-275). `pc` is the place
in `mint`; `MempoolMoves` changes the rate at any await. `feeRate` and the rates
are in tenths of a sat/vB. `seen` is not in the code: it holds the rate the server
saw when it last named a price, for `OwnPriceIsAccepted` to compare with. Decoding
and the sender, which do not depend on rates, are in `MintServer`, as are the
retries of each look.

### NonceUse

`line` is the queue at the Mutex with its holder first; a request is a count or a
mint, with its client or `Nobody` once that gave up. A request is first in `coming`: the
handler awaits its body (server.rs 400) and serves the calls before it in its batch
(441-457), and only then joins the line (`Arrive`), in whatever order that happens and
whether its client still waits or not; or it never does (`NeverArrives`: no body, a
panic in the batch, a dropped task). `GetBrc20Nonce` and
`GetTransactionCount` are the two reads of `get_nonce`; `Open`, `Broadcast`,
`Record`, `Abandon` and `Refuse` are the actions of `MintPromise`, which
`MintServer` implements, with the client and the table added. `phase[c]` is what a
client does: it is `unsure` when a mint ended without an answer it saw, and then
asks for a nonce again, or, if it is one of `Resenders`, sends the same
transaction once more. `GiveUp` leaves the request where it is (the server may not
notice for long); `NeverArrives` and `Drop` remove it when the server does. `Restart` empties
`coming` and the line, abandons the open mint, and may go through `--reset`. `late` is
not in the code: it holds the mints that reached the Mutex after their client had given
them up.

### Deployment

`pc[p]` is where a process is: `config` (`Config::default`, main.rs), `policy`
(`validate_bind_policy`), `state` and `tables` (`ServerState::new`), then `bind` and
`serving`, or `clear` for `--reset`. Each step may fail, in a panic:
`ConfigureFails` (a variable is missing or invalid), `RefuseToBind` (an address that is
none, or that the policy refuses), `NewServerStateFails` (a key, a node or a database),
`ClearFails`, `BindFails` (the port, the CORS origin); and `Kill` is a signal at any time.
`Gone` is what they have in common. `env[p]` has only what decides something: texts are `Unset`, `Blank` or a
name. `files`, `tables` and `rows` are SQLite's. A mint is its broadcast and its
row here. `answered` and `cut` are not in the code: the mints that clients were
told of since the last reset, and the processes whose table a reset dropped.

## The runs

| Run | Instance | Checks |
|---|---|---|
| `mint` | 2 requests, one a batch of 2 mints; 2 coins; 2 attempts; 1 crash | `TypeOK`, `OneHolder`, `TestIsNotStale`, `ErrMeansUntouched`, `OkMeansRecorded`, `RecordedSurvives`, `StrandedOnlyByFailure`, `IInv`, `KeepsMintPromise` |
| `count` | 3 requests: count-mint-count, mint, count; 1 coin; 1 attempt; BRC2.0's nonce moves once | `CountNeverGoesBack`, `CountIsFirstFree` |
| `live` | 3 requests with all methods; 1 coin; 2 attempts; 1 crash | `TheLineMoves`, `EveryRequestEnds`, `WorkIsBounded` |
| `database` | 2 accounts, integers from -4 to 3 (signed) and to 7 (unsigned), 4 rows, any number of resets | `TypeOK`, `CountIsFirstUnused`, `PanicOnlyAtTheEdge` |
| `choice` | all wallets of 4 coins with 8 values, 5 fee rates from 0.5 to 7 sat/vB, 2 lengths | `TypeOK`, `InsufficientIsTrue`, `FewestInputs`, `EachPaysTheRate`, `NothingIsGivenAway` |
| `estimate` | one coin of 100000 sat, 1 sat/vB, inscriptions of 200, 10000, 395412 and 397217 bytes | `EstimateAnswers`, violated |
| `admission` | 7 rates from 0.1 to 20 sat/vB, moving at will; 4 prices, 13 gas limits, 4 texts, 4 limits; 3 gas a byte, integers to 31 | `TypeOK`, `MintedFits`, `RefusalIsNecessary`, `OwnPriceIsAccepted` |
| `turns` | 1 client that never resends, 3 mints, 4 requests under way or in line, 1 restart | `TypeOK`, `RowsAreDistinct` |
| `executes` | 2 clients, one a resender, 2 mints, 3 requests under way or in line, 2 restarts; fairness of BRC2.0 | `NoHoles`, `NeverStuck`, `RecordedIsExecuted` |
| `access` | 1 process run any number of times, 2 arguments, 3 kinds of address, 4 of token, 3 of `ALLOW_REMOTE_BIND`; every header | `TypeOK`, `EveryCallIsAllowed` |
| `files` | 3 processes, servers or resets, on 2 files; 2 mints | `AnsweredSurvive`, `TableMissingOnlyAfterReset` |
| `path` | 1 process, 2 files, `DB_PATH` set or not | `ResetIsForTheNamedFile`, violated |

What they show. `mint`: the three package tests are what keeps a stale explorer
from hurting. A commit that conflicts with an earlier one passes the first test,
which allows a replacement, and fails the second, which does not (packages may
not replace); as the lock is held and there is no await, nothing changes before
the first broadcast (`TestIsNotStale`), and so no recorded mint is ever replaced
(`RecordedSurvives`). An error answer means nothing was broadcast, so retrying is
safe; a hash means the row is there. A mint that is out but unrecorded is never
answered (`StrandedOnlyByFailure`): its task panicked, crashed or was dropped.
`count`: although BRC2.0's count and the table are read at different times, no
client is told less than another before it, because both reads are made under
the lock. `live`: whatever way requests end, one of those at the lock waits for none
of the others (`TheLineMoves`), each step of a request is progress (`WorkIsBounded`),
and each one taken up ends (`EveryRequestEnds`). `database`: the casts are harmless for every count within `i64`, and
the query panics only for an account that has used every nonce up to 2^63 - 1.
`choice`: taking the largest coins first finds funds whenever any choice would,
and with the fewest inputs. This is not so of every
order, as a coin of 50 sat costs more than it brings: the order in which the
list is sorted matters (`TakeSmallest`). Rounding the change's fee apart from the
rest never underpays, never takes the change below dust, and costs at most one
sat. At each of the rates, below and above the one at which the postage leaves its
minimum of 330 sat, the postage pays for the burn.

`admission`: the byte added for the remainder always pays for the gas limit, no
padding is wasted, and the limit refuses exactly what cannot be minted, sizes
equal to it included. (The test at transaction.rs:121 speaks of 1_000_001 bytes;
the code's `+ 1` makes it 1_000_002, which is refused all the same.)
`eth_gasPrice` may answer ten times the rate, 1 for 0.1 sat/vB, and the factor of ten
in the check is just enough not to refuse it; a price the server named is refused
only when the rate has fallen since.

`turns` and `executes` ask whether what the server is for works out:
clients use its counts, and BRC2.0 executes what they sent. A client that asks
before it sends does not get the nonce of a mint it gave up on in line, because its count
waits behind that mint (`RowsAreDistinct`; with a lock that lets a task
overtake, it fails). It may get the nonce of one it gave up *before* that joined the
line, say the second call of a batch whose first is still served: the count goes first,
the nonce is free, and then both mints are made and recorded. `RowsAreDistinct` leaves
out these mints, `late`, and says that nothing else makes two rows; with them it is
violated. The code has no defence against them, as `mint` looks at no table; nor
against two clients of one account, or a client that sends a transaction again, which is
why `turns` has one client and `executes` two. Even then no nonce is
sent above an unfilled one (`NoHoles`), because a row is written after the third
broadcast only; BRC2.0 always has a complete mint to execute until the nonce of a
recorded one is used up (`NeverStuck`), so in the end it is (`RecordedIsExecuted`).

`access` and `files`: the configuration, the bind policy and the header check
agree on what is a token; starting or resetting beside a running server takes no
answered mint from the table, except the reset of that table; a server without its
table was cut off by a reset, and the next start creates it again.

`estimate` is a disagreement of the code with its README ("Estimates the total
sats required for a transaction ... so you can fund the Bitcoin wallet before
sending the transaction"): `estimate` selects from a single dummy coin of 100000
sat (minter.rs 635-657), so from 395413 bytes on `eth_estimateGas` answers
"Insufficient funds". Up to 397217 bytes the reveal weighs no more than the 400000
units Bitcoin Core relays, and the server mints it; larger ones cannot be sent to a node
with Core's own limits, whatever `MAX_INSCRIPTION_BYTES` is.

`path` is another: the README names `DB_PATH` and `DATABASE_URL`, the program reads
the second only (config.rs 11, 84). With `DB_PATH` set, `--reset` clears the table of
the default file.

Bounds. `MaxAttempts` is 5 in the code; 2 has a first, a repeated and a last
failure, and no attempt depends on how many went before. Three mints from two
coins are enough for a mint to spend the change and the postage of an earlier
one and to conflict with both of the others. One crash is enough because the
program keeps no state that a second one would find different: crashed requests
do not resume. `MaxNonce` 1 lets BRC2.0's count move between the two reads of a
count. `IMax` 3 gives 8 unsigned nonces, 4 on each side of the sign, and four
rows can fill the signed half. The values of `choice` lie below the cost of an
input, at and around dust, around one target, and above several; four coins make
wallets with and without a spare one; 200 and 1040 bytes are less than and
exactly two pushes. In `admission` a byte costs 3 gas, so that the gas limits have
every remainder; the texts and
limits meet each other below, at and above. (The numbers end at 31. No sum of a
quotient and 1 reaches that, as none reaches 2^64 in the code: `saturating_add` never
saturates.) In `turns` three mints are a first one, one that
is given up, and one that follows, and four requests are two given-up ones, their
holder and what the client waits for. In `executes` two mints are two of one nonce, or one above
the other; with two restarts both can be cut off, or one of them and a reset follow. Three processes are two servers and a reset on one file, or a server on
another. The proofs below hold for all the constants of these modules, but `TurnsKeepRowsDistinct`, which is about one client.

Fairness. `FairSpec` has weak fairness of `Serve(t)` for each task: the Tokio
runtime polls a task that can go on, and whatever the server asks of another
program is answered or fails in time. The second half is an assumption about the
outside, as the HTTP client is used with no timeout (a peer that keeps a connection
open for ever would hold the lock for ever). There is no fairness for `Receive`, `Disconnect`, `Crash`
or `Brc20Executes` in `MintServer`. The FIFO of the lock makes weak fairness enough.

`NonceUse` has weak fairness of `Brc20Executes` only: the BRC2.0 node goes on
indexing blocks. It needs none of the server, as a recorded mint is already out.

Deadlock is checked in every run; `Terminating` lets the server rest when every
request has ended. A `Deployment` can always run a process again.

## The proofs

Of `MintServer`, for any finite set of requests, any batches, coins and bounds
(`TasksAssumption`, `SizeAssumption`, `MethodAssumption`, `NonceAssumption`,
`AttemptsAssumption`, `BoundsAssumption`):

| Theorem | States |
|---|---|
| `TypeCorrect` | `Spec => []TypeOK` |
| `MutualExclusion` | `Spec => []OneHolder` |
| `Invariance` | `Spec => []IInv` |
| `TestsAreNotStale`, `ErrorsAreClean`, `SuccessIsRecorded`, `RecordedMintsSurvive`, `StrandingNeedsAFailure` | the invariants of run `mint` |
| `NoDeadlock`, `RequestsGoForward` | `TheLineMoves` and `WorkIsBounded`, of run `live` |
| `CountsAreMonotonic`, `CountsAreFree` | the action properties of run `count` |
| `Refinement` | `Spec => KeepsMintPromise` |
| `PromiseIsTruthful` | the abstract minter's answers are true (in `NonceUse_proofs`) |
| `FirstMissingIsFirstFree`, `TransactionCountIsFirstFree`, `TransactionCountIsMonotonic` | the query, for every finite table |

Of the other modules:

| Theorem | States | Assumes of the constants |
|---|---|---|
| `ConvertedFits`, `RefusedFitsNowhere` | what `Convert` returns `Fits`, and where it refuses nothing does | `GasAssumption`, `LargestAssumption`, `TextAssumption`; so for 12000 gas a byte and `u64` |
| `AdmissionIsInductive`, `MintedAlwaysFits`, `RefusalsAreNecessary`, `OwnPricesAreAccepted`, `TypeCorrect` | the invariants of run `admission` | rates of at least 0.1 sat/vB, a limit above 0 (config.rs 103) |
| `TypeCorrect` (of `NonceUse`), `CoverageIsInductive`, `NoncesHaveNoHoles`, `RecordedIsNeverStuck` | `NoHoles`, `NeverStuck` | finitely many mints; any clients and resenders |
| `TurnsKeepRowsDistinct` | `RowsAreDistinct`, i.e. but for the mints in `late` | one client, which does not resend |
| `TableIsInductive`, `TypeCorrect` (of `TxDatabase`), `CountsAreUnused`, `PanicsAreAtTheEdge` | the invariants of run `database` | integers of any width, any accounts |
| `LoopIsInductive`, `AllPayTheRate`, `LittleIsGivenAway`, `ChoiceIsGreedy`, `RefusalIsTrue`, `CommitIsSmallest`, `TypeCorrect` | the invariants of run `choice` | finitely many coins, positive rates |
| `DeploymentIsInductive`, `CallsAreAllowed`, `AnswersSurvive`, `OnlyAResetTakesTheTable`, `TypeCorrect` | the invariants of runs `access` and `files` | any processes, environments, tokens, files and mints |

The argument, in order:

1. *Types.* `AtCall` says which method a task at each `pc` executes, and goes
   with `TypeOK` (`TypeStep`). Lemmas per move (`Finish`, `Panic`, `Proceed`,
   `OneMore`) carry most actions.
2. *The lock.* `OneHolder` is not inductive: it does not say who is next.
   `LineIsOrdered` does: a holder has nobody in front, and of two tasks in line
   one is in front of the other. Leaving and staying keep the line a line
   (`LeavingKeepsTheLine`, `StayingKeepsTheLine`), and two holders would each be
   in front of the other.
3. *The mints.* `IInv` adds that calls are answered in order (`Answered`), that
   a task's `step` is the node's count of its mint (`Broadcasting`), that a
   recorded mint is answered or its client gone (`RecordedIsAnswered`), and that
   the node never has an output spent twice (`Consistent`). `NothingIsReplaced`
   is the heart: since the tested commit conflicts with nothing, the only state
   the node can be in after the broadcast is the one before it with one
   transaction more. The other steps move no mint (`MovingKeepsMints`).
4. *The counts.* `AnswersAreCovered`: no answer given exceeds what the query
   would return now, nor what it will return to the task that has read BRC2.0's
   count already. A step that answers no count keeps this because the query is
   monotonic; a step that does keeps it because no other task is between its
   two reads (step 2).
5. *Refinement.* Each action maps to a step of `MintPromise` or a stutter, from
   `IInv` and `OneHolder` (only one mint is open).

6. *Inscription.* From the defining property of `\div` (`Quotient`), the quotient
   plus one is the least number of bytes that buys more than the gas limit
   (`BuysMore`, `RequiredSize`); the sum never saturates. `Admission`'s invariant
   adds that a price the server named is at most ten times `seen` (`Named`;
   `RoundedRateIsNear` has the rounding), and what each outcome was decided from.
7. *Holes.* Being `Covered` is never lost (`CoverageGrows`): BRC2.0's count and a
   complete mint's three transactions stay. `NoHoles` is not inductive, as it does not
   know what a client was told; the invariant adds that everything below `told` is covered, and
   that `base` is not ahead of BRC2.0. `CountIsCovered` has it for a new count, from
   `FirstMissingIsFirstFree`, because a row is a complete mint.
8. *Turns.* `OneWaits` says that the client waits for one request at most, on its way or
   in line. A mint in line is `Timely` if it was not given up on its way. `TimelyInTurn`
   says that at most one is, not behind what the client waits for, and none when the
   client has been told a nonce or its own mint is on the way; `TimelyIsFree`, that the
   nonces that were told, sent, or are in line with the timely mint are in no other
   row that counts. A count is told a free nonce, and it is behind the timely mint, if
   there is one, so that this is out before. The steps by which requests only leave
   (`FewerInTurn`, `FewerAreFree`: `Leave`, `Drop`, `NeverArrives`, `Restart`) are one argument: what
   stays keeps its order.
9. *Deployment.* `Admitted` carries the bind policy's decision from where it was made
   to where the header is checked, as `env` is read once; the two properties of the
   table are inductive with `tables \subseteq files` and the place in the start.

10. *The table.* `RowsAreMinted`: the rows are the image of what was inserted, under
   lower case and the cast. As the cast is one to one and is the identity within
   `i64` (`CastIsOneToOne`), the query's nonces are the account's (`NoncesAreUsed`),
   and `FirstMissingIsFirstFree` does the rest. Properties are about the last reply,
   which no step that changes the table leaves standing.
11. *Amounts.* `Built` keeps what a commit was built from, `Loop` that the fee tested
   is that of the inputs taken. The rest is rounding: two fees rounded apart cost
   at most one sat more than together and never less (`FeesAddUp`), a change output is
   a whole number of vbytes (`ChangeIsWhole`), the signed reveal is no larger than the
   one its fee is for (`RevealIsSmaller`), and the postage is worth its own burn
   (`PostageBurns`).

12. *Sums over coins.* The community modules define a sum by a recursion over the
   set. The induction theorems of the library take an operator, which the provers
   cannot instantiate; `SubsetInduction` is induction over the subsets of a
   finite set with a set in the operator's place, from the well-foundedness of
   inclusion. With it a fold exists (`FoldExists`) and is unique (`FoldsAgree`), so
   that one coin more is its value more (`SumStep`). `Greedy` is the invariant of the
   loop: no other coins, as many as were taken, are worth more (`WorthMost`), and
   no fewer would have met the target (`FewerDoNotSuffice`). A turn keeps it as the
   coin taken is one of the largest left (`TakeKeepsGreedy`): of `n + 1` coins that are
   not all taken, one not taken is worth no more than the coin of the turn, and the
   other `n` no more than what was taken before. With all coins taken there is
   nothing else to choose, which is `InsufficientIsTrue`.
13. *Progress.* Fairness cannot be reasoned about here, but what it is applied to
   can. In any set of requests in line some request has nobody of the set in front
   of it (`TheLineMoves`): who joins has everybody in front and nobody behind, who
   leaves is taken out of every wait, and a set without it is a set as before.
   Each step of a request goes up in a lexicographic order of call, stage and
   attempt (`StepGoesForward`), which is finite. `EveryRequestEnds` is what weak
   fairness makes of the two. Likewise `NeverStuck`, with weak fairness of
   `Brc20Executes`, is what `RecordedIsExecuted` takes: `Brc20Executes` can be
   taken until BRC2.0's count has passed the mint, and each time raises it. It follows
   from the invariant of step 7, as BRC2.0's count is either the mint's nonce or one
   below it, which is covered.

TLC's part. Every invariant and every action property of a passing run is a
theorem (`RowsAreDistinct` for one client that does not resend: it is false for two). The two liveness properties, `EveryRequestEnds` and `RecordedIsExecuted`,
are only model-checked: the prover knows neither ENABLED nor fairness, and the last
step from the theorems of 13 needs both.

## What is assumed of the outside

- The wallet's key is used by this server only.
- Bitcoin Core keeps what it accepted (no eviction, no reorganisation that drops
  it), refuses a package test in which a transaction would replace another, and
  accepts a replacement by a single transaction or not as it likes.
- mempool.space shows some set of first transactions of each mint, never one the
  node has not accepted.
- BRC2.0's count does not go back, i.e. there is no reorganisation of what it
  executed.
- One instance of the server mints for an EVM address, as its documentation asks.
  (`Deployment` has several on a file, for what concerns the table.)
- In `NonceUse`: clients send the nonce they were told, and one that takes turns
  makes no request before the last was answered or given up. Nothing is assumed of when
  and in what order requests reach the lock. BRC2.0 keeps a mint with a later
  nonce until its turn, ignores one with an earlier nonce, and executes every
  complete mint in its turn, whatever its gas limit and chain.
- In `Deployment`: nobody but the program removes a file or a table.

## What is not modelled

- The contents of JSON (`rpc_utils.rs`): types for serde, with no state. That a
  parameter is missing or malformed is a choice of `MintServer`.
- CORS and logging: they change no state the program keeps.
- Keys, scripts and signatures as cryptography; `MintTxes` has their sizes.
- Floating point: rates are tenths of a sat/vB, and `ceil` and `round` are exact.
- The other variables of the configuration: each is one way for a start to end
  (`Deployment`'s `ConfigureFails`), or a constant.

## Plan

What is left:

1. Values in `MintServer`: mints that select by `MintTxes` among the outputs of
   earlier ones, so that a wallet that runs out of funds is reached. `MintServer`
   covers this by letting funds be insufficient at any time.
2. `Refinement` of `NonceUse` by the server with its handlers, so that `NoHoles`
   carries over as a theorem; now `MintPromise` is what the two have in common.
