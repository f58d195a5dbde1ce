----------------------------- MODULE NonceQuery -----------------------------
(***************************************************************************)
(* The SQL query behind eth_getTransactionCount                            *)
(* (TxDatabase::get_transaction_count) and the maximum ServerState::get_   *)
(* nonce takes of its answer and the count BRC2.0 reports.  Nonces are     *)
(* unbounded here; the widths of the machine integers are in TxDatabase.   *)
(***************************************************************************)
EXTENDS Integers

\* WITH AllNonces (nonce) AS (SELECT nonce ... UNION SELECT brc20_nonce - 1)
AllNonces(nonces, base) == nonces \cup {base - 1}

\* Variant of BeforeAGap: without the lower bound.
BeforeAnyGap(nonces, base) ==
    {n \in AllNonces(nonces, base) : n + 1 \notin AllNonces(nonces, base)}

\* The rows t1 of the left join: no row t2 with t1.nonce + 1 = t2.nonce,
\* and t1.nonce >= brc20_nonce - 1.
BeforeAGap(nonces, base) ==
    {n \in AllNonces(nonces, base) :
        n >= base - 1 /\ n + 1 \notin AllNonces(nonces, base)}

\* Variant of FirstMissing: MAX(nonce) + 1.
AfterTheLast(nonces, base) ==
    1 + (CHOOSE n \in AllNonces(nonces, base) :
            \A m \in AllNonces(nonces, base) : n >= m)

\* ORDER BY t1.nonce LIMIT 1, and the column t1.nonce + 1.
FirstMissing(nonces, base) ==
    1 + (CHOOSE n \in BeforeAGap(nonces, base) :
            \A m \in BeforeAGap(nonces, base) : n <= m)

\* get_nonce: std::cmp::max(database_nonce, brc20_nonce).
TransactionCount(nonces, base) ==
    IF FirstMissing(nonces, base) >= base THEN FirstMissing(nonces, base)
                                          ELSE base
=============================================================================
