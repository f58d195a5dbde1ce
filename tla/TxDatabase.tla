----------------------------- MODULE TxDatabase -----------------------------
(***************************************************************************)
(* The SQLite table behind TxDatabase and ServerState::get_nonce, with the *)
(* integers as wide as they are: nonces are unsigned in the server (u64)   *)
(* and signed in the table (i64), of one width; SQLite turns an integer    *)
(* sum that overflows into a REAL, which does not decode as i64.           *)
(*                                                                         *)
(* A process may drop the table (`reset`) while another serves.            *)
(***************************************************************************)
EXTENDS NonceQuery, FiniteSets

CONSTANTS
    Accounts,  \* EVM addresses
    IMax,      \* i64::MAX
    MaxRows    \* bound: rows inserted between two resets

ASSUME IMaxAssumption == IMax \in Nat
ASSUME RowsAssumption == MaxRows \in Nat

VARIABLES
    table,   \* does the table exist
    rows,    \* its rows: sender and signed nonce
    minted,  \* what was inserted since the table was created: no code
    reply    \* the outcome of the last operation

vars == <<table, rows, minted, reply>>

U64  == 0..(2 * IMax + 1)
I64  == (-IMax - 1)..IMax

\* An address is written with a checksum (mixed case) or in lower case.
Spellings == {"checksum", "lower"}
ToAsciiLowercase(address) == <<address[1], "lower">>

\* Variant of AsI64: no conversion.
AsIs(u) == u

\* `as i64`
AsI64(u) == IF u <= IMax THEN u ELSE u - 2 * (IMax + 1)

NoReply == [kind |-> "none"]
Panic   == [kind |-> "panic"]
Unread(address, brc20Nonce) ==
    [kind |-> "unread", account |-> address[1], base |-> brc20Nonce]

TypeOK ==
    /\ table \in {"absent", "present"}
    /\ \A r \in rows : r.sender \in Accounts \X {"lower"} /\ r.nonce \in I64
    /\ reply.kind \in {"none", "panic", "unread", "count"}
    /\ reply.kind = "count" => reply.value \in U64

Init ==
    /\ table = "absent"
    /\ rows = {} /\ minted = {}
    /\ reply = NoReply

\* CREATE TABLE IF NOT EXISTS: a start keeps what is there.
CreateTables ==
    /\ table' = "present" /\ reply' = NoReply
    /\ UNCHANGED <<rows, minted>>

\* DROP TABLE IF EXISTS
ClearTables ==
    /\ table' = "absent" /\ reply' = NoReply
    /\ rows' = {} /\ minted' = {}

\* Variant of AddTx: the sender as it was given.
AddTxAsSpelt(address, nonce) ==
    /\ table = "present"
    /\ Cardinality(minted) < MaxRows
    /\ rows' = rows \cup {[sender |-> address, nonce |-> AsI64(nonce)]}
    /\ minted' = minted \cup {<<address[1], nonce>>}
    /\ reply' = NoReply
    /\ UNCHANGED table

AddTx(address, nonce) ==
    IF table = "absent" THEN
        /\ reply' = Panic
        /\ UNCHANGED <<table, rows, minted>>
    ELSE
        /\ Cardinality(minted) < MaxRows
        /\ rows' = rows \cup {[sender |-> ToAsciiLowercase(address),
                               nonce |-> AsI64(nonce)]}
        /\ minted' = minted \cup {<<address[1], nonce>>}
        /\ reply' = NoReply
        /\ UNCHANGED table

\* SELECT nonce FROM transactions WHERE eth_sender = ?
NoncesOf(address) ==
    {r.nonce : r \in {s \in rows : s.sender = ToAsciiLowercase(address)}}

\* get_transaction_count does not panic: its result is of type i64 and not
\* negative.  (The smallest i64 minus 1 panics in a debug build; in a release
\* build it wraps to the largest, whose successor is a REAL.)
Decodes(address, brc20Nonce) ==
    /\ AsI64(brc20Nonce) - 1 \in I64
    /\ FirstMissing(NoncesOf(address), AsI64(brc20Nonce)) \in 0..IMax

Count(address, brc20Nonce) ==
    LET found == FirstMissing(NoncesOf(address), AsI64(brc20Nonce))
    IN  [kind |-> "count", account |-> address[1], base |-> brc20Nonce,
         value |-> IF found >= brc20Nonce THEN found ELSE brc20Nonce]

\* get_nonce, with the BRC2.0 count it has been told.
GetNonce(address, brc20Nonce) ==
    /\ reply' = CASE table = "absent" -> Panic
                  [] ~ Decodes(address, brc20Nonce) -> Unread(address, brc20Nonce)
                  [] OTHER -> Count(address, brc20Nonce)
    /\ UNCHANGED <<table, rows, minted>>

Next ==
    \/ CreateTables \/ ClearTables
    \/ \E address \in Accounts \X Spellings, nonce \in U64 :
          AddTx(address, nonce) \/ GetNonce(address, nonce)

Spec == Init /\ [][Next]_vars

-----------------------------------------------------------------------------
\* A count is the first nonce at or after BRC2.0's that no mint of the same
\* account has used, however the address is written, and whatever nonces the
\* transactions carried, those beyond i64 among them.  BRC2.0's own count is
\* taken to be within i64.
CountIsFirstUnused ==
    (reply.kind = "count" /\ reply.base <= IMax) =>
        /\ reply.value >= reply.base
        /\ <<reply.account, reply.value>> \notin minted
        /\ \A n \in reply.base..(reply.value - 1) : <<reply.account, n>> \in minted

\* While the table is there, eth_getTransactionCount with a BRC2.0 count
\* within i64 panics only when the account has no nonce left in i64.
PanicOnlyAtTheEdge ==
    (reply.kind = "unread" /\ reply.base <= IMax) =>
        \A n \in reply.base..IMax : <<reply.account, n>> \in minted
=============================================================================
