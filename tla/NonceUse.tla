------------------------------ MODULE NonceUse ------------------------------
(***************************************************************************)
(* What the server is for: clients of one EVM account ask it for a nonce   *)
(* (eth_getTransactionCount), send a transaction with it, may get no       *)
(* answer, and try again, while BRC2.0 executes complete mints in the      *)
(* order of their nonces.                                                  *)
(*                                                                         *)
(* Composed of the minter as MintPromise has it, the query of NonceQuery,  *)
(* and the line of requests at the Mutex around ServerState, which a       *)
(* request joins some time after it was made.  Clients and BRC2.0 are      *)
(* outside the program.                                                    *)
(***************************************************************************)
EXTENDS NonceQuery, Sequences, SequencesExt

CONSTANTS
    Clients,
    Resenders,    \* clients that send a transaction again if not answered
    Mints,        \* the attempts at a mint: a bound on sends
    MaxRestarts,  \* bound: how often the process ends
    MaxLine,      \* bound: how many requests are under way or in line
    Nobody        \* the client of a request that was given up

ASSUME ClientsAssumption == Resenders \subseteq Clients /\ Nobody \notin Clients
ASSUME MintsAssumption   == IsFiniteSet(Mints)
ASSUME BoundsAssumption  == MaxRestarts \in Nat /\ MaxLine \in Nat

VARIABLES
    phase,        \* of each client: what it waits for or does next
    told,         \* the nonce each client was last told
    coming,       \* the requests made that have not reached the Mutex
    line,         \* the requests at the Mutex, its holder first
    base,         \* get_nonce's brc20_nonce while the table is read, or -1
    open, sent, recorded, verdict,  \* the minter
    nonce,        \* the nonce each mint was sent with, or -1
    rows,         \* the mints in the table: recorded and not reset
    brc20Nonce,   \* the account's transaction count according to BRC2.0
    restarts,
    late          \* mints given up before they reached the Mutex: no code

promise == <<open, sent, recorded, verdict>>
clients == <<phase, told>>
server  == <<base, promise, rows>>
vars == <<clients, coming, line, server, nonce, brc20Nonce, restarts, late>>

Promise == INSTANCE MintPromise

Fresh     == {m \in Mints : nonce[m] = -1}
Count(c)  == [kind |-> "count", client |-> c]
Mint(c, m) == [kind |-> "mint", client |-> c, mint |-> m]

Requests == {Count(c) : c \in Clients \cup {Nobody}}
              \cup {Mint(c, m) : c \in Clients \cup {Nobody}, m \in Mints}

TypeOK ==
    /\ phase \in [Clients -> {"idle", "asking", "told", "sending", "unsure"}]
    /\ told \in [Clients -> Nat]
    /\ coming \subseteq Requests
    /\ line \in Seq(Requests)
    /\ base \in Nat \cup {-1}
    /\ Promise!TypeOK
    /\ nonce \in [Mints -> Nat \cup {-1}]
    /\ rows \in SUBSET Mints
    /\ brc20Nonce \in Nat
    /\ restarts \in 0..MaxRestarts
    /\ late \subseteq Mints

Init ==
    /\ phase = [c \in Clients |-> "idle"]
    /\ told = [c \in Clients |-> 0]
    /\ coming = {}
    /\ line = <<>>
    /\ base = -1
    /\ Promise!Init
    /\ nonce = [m \in Mints |-> -1]
    /\ rows = {}
    /\ brc20Nonce = 0
    /\ restarts = 0
    /\ late = {}

\* Variant of Enqueue: a lock that may let a task overtake those in line.
EnqueueUnfairly(request) ==
    \E i \in 1..Len(line) + 1 :
        /\ i = 1 => line = <<>>
        /\ line' = InsertAt(line, i, request)

\* A task joins behind all those in line.
Enqueue(request) == line' = Append(line, request)

\* The client of a request sees it end, unless it has given up.
Reply(c, p) == phase' = IF c = Nobody THEN phase ELSE [phase EXCEPT ![c] = p]

\* The request when client c no longer waits for it.
Without(c, request) ==
    IF request.client = c THEN [request EXCEPT !.client = Nobody] ELSE request

-----------------------------------------------------------------------------
(* Clients.                                                                *)

Room == Cardinality(coming) + Len(line) < MaxLine

Ask(c) ==
    /\ phase[c] = "idle" /\ Fresh # {} /\ Room
    /\ phase' = [phase EXCEPT ![c] = "asking"]
    /\ coming' = coming \cup {Count(c)}
    /\ UNCHANGED <<told, line, server, nonce, brc20Nonce, restarts, late>>

\* eth_sendRawTransaction with the nonce told.
Send(c) ==
    /\ phase[c] = "told" /\ Room
    /\ \E m \in Fresh :
          /\ nonce' = [nonce EXCEPT ![m] = told[c]]
          /\ coming' = coming \cup {Mint(c, m)}
    /\ phase' = [phase EXCEPT ![c] = "sending"]
    /\ UNCHANGED <<told, line, server, brc20Nonce, restarts, late>>

\* A client without an answer asks for a nonce again, or sends the same
\* transaction again.
Retry(c) ==
    /\ phase[c] = "unsure"
    /\ phase' = [phase EXCEPT ![c] = IF c \in Resenders THEN "told" ELSE "idle"]
    /\ UNCHANGED <<told, coming, line, server, nonce, brc20Nonce, restarts, late>>

\* A timeout of the client: its request goes on, on its way or in line.  (Of
\* the counts given up on the way, which tell nobody, one stands for all.)
GiveUp(c) ==
    /\ phase[c] \in {"asking", "sending"}
    /\ phase' = [phase EXCEPT ![c] = IF @ = "asking" THEN "idle" ELSE "unsure"]
    /\ coming' = {Without(c, request) : request \in coming}
    /\ line' = [i \in DOMAIN line |-> Without(c, line[i])]
    /\ UNCHANGED <<told, server, nonce, brc20Nonce, restarts, late>>

-----------------------------------------------------------------------------
(* On the way to the Mutex: the handler awaits the body of the request and *)
(* serves the calls before this one in its batch, so that requests get     *)
(* there in any order, also those that are given up.                       *)

Arrive(request) ==
    /\ coming' = coming \ {request}
    /\ Enqueue(request)
    /\ late' = IF request.kind = "mint" /\ request.client = Nobody
               THEN late \cup {request.mint} ELSE late
    /\ UNCHANGED <<clients, server, nonce, brc20Nonce, restarts>>

\* The body does not come, an earlier call of the batch panics, or the task is
\* dropped with the connection.
NeverArrives(request) ==
    /\ coming' = coming \ {request}
    /\ Reply(request.client, IF request.kind = "count" THEN "idle" ELSE "unsure")
    /\ UNCHANGED <<told, line, server, nonce, brc20Nonce, restarts, late>>

-----------------------------------------------------------------------------
(* The server, one request at a time.                                      *)

\* The holder of the Mutex.
AtHead(request) == line # <<>> /\ line[1] = request

\* The guard is dropped: the next in line has the lock.
Leave == line' = Tail(line)

GetBrc20Nonce(c) ==
    /\ AtHead(Count(c)) /\ base = -1
    /\ base' = brc20Nonce
    /\ UNCHANGED <<clients, coming, line, promise, nonce, rows, brc20Nonce, restarts, late>>

\* Variant of GetTransactionCount: the table is not asked.
CountOfBrc20(c) ==
    /\ AtHead(Count(c)) /\ base # -1
    /\ told' = IF c = Nobody THEN told ELSE [told EXCEPT ![c] = base]
    /\ Reply(c, "told") /\ Leave /\ base' = -1
    /\ UNCHANGED <<coming, promise, nonce, rows, brc20Nonce, restarts, late>>

GetTransactionCount(c) ==
    /\ AtHead(Count(c)) /\ base # -1
    /\ told' = IF c = Nobody THEN told
               ELSE [told EXCEPT ![c] =
                        TransactionCount({nonce[m] : m \in rows}, base)]
    /\ Reply(c, "told") /\ Leave /\ base' = -1
    /\ UNCHANGED <<coming, promise, nonce, rows, brc20Nonce, restarts, late>>

\* BRC2.0 is not reached (an error), or the query panics.
CountFails(c) ==
    /\ AtHead(Count(c))
    /\ Reply(c, "idle") /\ Leave /\ base' = -1
    /\ UNCHANGED <<told, coming, promise, nonce, rows, brc20Nonce, restarts, late>>

\* An error or a panic before the first broadcast.  The client is told, or is
\* not and does not know.
Refuse(c, m) ==
    /\ AtHead(Mint(c, m))
    /\ \/ Promise!Refuse(m) /\ Reply(c, "idle")
       \/ m \notin open /\ Reply(c, "unsure") /\ UNCHANGED promise
    /\ Leave
    /\ UNCHANGED <<told, coming, base, nonce, rows, brc20Nonce, restarts, late>>

Open(c, m) ==
    /\ AtHead(Mint(c, m))
    /\ Promise!Open(m)
    /\ UNCHANGED <<clients, coming, line, base, nonce, rows, brc20Nonce, restarts, late>>

\* Variant of Broadcast: off by one in the transactions that are left.
BroadcastOneTooMany(m) ==
    /\ m \in open /\ sent[m] <= 3
    /\ sent' = [sent EXCEPT ![m] = @ + 1]
    /\ UNCHANGED <<open, recorded, verdict>>
    /\ UNCHANGED <<clients, coming, line, base, nonce, rows, brc20Nonce, restarts, late>>

Broadcast(m) ==
    /\ Promise!Broadcast(m)
    /\ UNCHANGED <<clients, coming, line, base, nonce, rows, brc20Nonce, restarts, late>>

\* Variant of Record: the row is written before the last broadcast.
RecordEarly(c, m) ==
    /\ AtHead(Mint(c, m)) /\ m \in open /\ sent[m] = 2
    /\ recorded' = recorded \cup {m} /\ rows' = rows \cup {m}
    /\ sent' = [sent EXCEPT ![m] = 3] \/ sent' = sent
    /\ open' = {} /\ verdict' = [verdict EXCEPT ![m] = "ok"]
    /\ Reply(c, "idle") /\ Leave
    /\ UNCHANGED <<told, coming, base, nonce, brc20Nonce, restarts, late>>

\* The row is there.  The client is told the hash, or has gone away.
Record(c, m) ==
    /\ AtHead(Mint(c, m))
    /\ Promise!Record(m)
    /\ rows' = rows \cup {m}
    /\ IF verdict'[m] = "ok" THEN Reply(c, "idle") ELSE Reply(c, "unsure")
    /\ Leave
    /\ UNCHANGED <<told, coming, base, nonce, brc20Nonce, restarts, late>>

\* A panic at a broadcast or the insertion.
Abandon(c, m) ==
    /\ AtHead(Mint(c, m))
    /\ Promise!Abandon(m)
    /\ Reply(c, "unsure") /\ Leave
    /\ UNCHANGED <<told, coming, base, nonce, rows, brc20Nonce, restarts, late>>

-----------------------------------------------------------------------------
(* What the program does not decide.                                       *)

\* A waiting request whose client has gone is dropped when the server notices.
Drop(i) ==
    /\ i \in 2..Len(line) /\ line[i].client = Nobody
    /\ line' = RemoveAt(line, i)
    /\ UNCHANGED <<clients, coming, base, promise, nonce, rows, brc20Nonce, restarts, late>>

\* The process ends, is perhaps run with --reset, and is started again.
Restart ==
    /\ restarts < MaxRestarts
    /\ restarts' = restarts + 1
    /\ rows' \in {rows, {}}
    /\ coming' = {} /\ line' = <<>> /\ base' = -1
    /\ \/ open = {} /\ UNCHANGED promise
       \/ \E m \in open : Promise!Abandon(m)
    /\ phase' = [c \in Clients |-> CASE phase[c] = "asking"  -> "idle"
                                     [] phase[c] = "sending" -> "unsure"
                                     [] OTHER -> phase[c]]
    /\ UNCHANGED <<told, nonce, brc20Nonce, late>>

Executable == {m \in Mints : sent[m] = 3 /\ nonce[m] = brc20Nonce}

\* BRC2.0 executes a complete mint with the account's next nonce; one with a
\* later nonce waits, and one with an earlier nonce is never executed.
Brc20Executes ==
    /\ Executable # {}
    /\ brc20Nonce' = brc20Nonce + 1
    /\ UNCHANGED <<clients, coming, line, base, promise, nonce, rows, restarts, late>>

Client(c) == Ask(c) \/ Send(c) \/ Retry(c) \/ GiveUp(c)

Serve ==
    \/ \E c \in Clients \cup {Nobody} :
          \/ GetBrc20Nonce(c) \/ GetTransactionCount(c) \/ CountFails(c)
          \/ \E m \in Mints : Refuse(c, m) \/ Open(c, m) \/ Record(c, m) \/ Abandon(c, m)
    \/ \E m \in Mints : Broadcast(m)

\* Every attempt is used up and the clients have stopped.
Terminating ==
    /\ coming = {} /\ line = <<>> /\ Executable = {}
    /\ \A c \in Clients : phase[c] \in {"idle", "told"} /\ Fresh = {}
    /\ UNCHANGED vars

Next ==
    \/ \E c \in Clients : Client(c)
    \/ \E request \in coming : Arrive(request) \/ NeverArrives(request)
    \/ Serve \/ \E i \in DOMAIN line : Drop(i)
    \/ Restart \/ Brc20Executes \/ Terminating

Spec == Init /\ [][Next]_vars

\* BRC2.0 keeps executing what it can.
FairSpec == Spec /\ WF_vars(Brc20Executes)

-----------------------------------------------------------------------------
(* Properties.                                                             *)

\* A client that asks for a nonce before each transaction, and whose requests
\* are answered or given up one after the other, has two mints of one nonce in
\* the table only if it gave one of them up before that reached the Mutex.  One
\* that it gives up in line is safe: get_nonce waits behind it, and then sees
\* its row, or the nonce is free.  The server cannot know of one that is late,
\* and does not look for its nonce in the table.  Restarts and --reset in
\* between.  (A mint that was not recorded may be made and paid for again.)
RowsAreDistinct ==
    \A m1, m2 \in rows \ late : nonce[m1] = nonce[m2] => m1 = m2

\* The nonce n is no obstacle to those after it.
Covered(n) ==
    n < brc20Nonce \/ \E m \in Mints : sent[m] = 3 /\ nonce[m] = n

\* No client is ever told, or sends, a nonce that leaves a hole below it which
\* no complete mint fills, whatever mints failed, panicked or were sent twice:
\* get_nonce counts mints that are out with all three transactions only.
NoHoles ==
    \A m \in Mints : \A n \in 0..nonce[m] - 1 : Covered(n)

\* As long as the nonce of a recorded mint is not used up, BRC2.0 has a complete
\* mint to execute: that mint or one in front of it.
NeverStuck ==
    \A m \in recorded : brc20Nonce <= nonce[m] => Executable # {}

\* A mint in the table, which no later count gives out again, is executed or
\* another of its nonce is: the account never gets stuck behind a row.
RecordedIsExecuted ==
    \A m \in Mints : m \in recorded ~> brc20Nonce > nonce[m]
=============================================================================
