---------------------------- MODULE MintPromise -----------------------------
(***************************************************************************)
(* What the minter promises to the callers of eth_sendRawTransaction, with *)
(* no lock, task, table query or mempool test in sight: mints are made one *)
(* at a time, each broadcasts commit, reveal and burn in this order and is *)
(* recorded when all three are out, an answer is final, an error says that *)
(* nothing was broadcast, and what was broadcast stays so.  A mint may be  *)
(* abandoned half way, but then its caller gets no answer.                 *)
(***************************************************************************)
EXTENDS Naturals

CONSTANT Mints

VARIABLES
    open,      \* the mint being made: empty or a singleton
    sent,      \* how many of the three transactions of each mint are out
    recorded,  \* the mints in the table
    verdict    \* what the caller of each mint is told

vars == <<open, sent, recorded, verdict>>

TypeOK ==
    /\ open \in SUBSET Mints
    /\ sent \in [Mints -> 0..3]
    /\ recorded \in SUBSET Mints
    /\ verdict \in [Mints -> {"none", "ok", "err"}]

Init ==
    /\ open = {}
    /\ sent = [m \in Mints |-> 0]
    /\ recorded = {}
    /\ verdict = [m \in Mints |-> "none"]

Open(m) ==
    /\ open = {} /\ sent[m] = 0 /\ m \notin recorded /\ verdict[m] = "none"
    /\ open' = {m}
    /\ UNCHANGED <<sent, recorded, verdict>>

Broadcast(m) ==
    /\ m \in open /\ sent[m] < 3
    /\ sent' = [sent EXCEPT ![m] = @ + 1]
    /\ UNCHANGED <<open, recorded, verdict>>

\* The caller may have gone away and is not told.
Record(m) ==
    /\ m \in open /\ sent[m] = 3
    /\ recorded' = recorded \cup {m}
    /\ open' = {}
    /\ verdict' = [verdict EXCEPT ![m] = "ok"] \/ verdict' = verdict
    /\ UNCHANGED sent

\* A failed broadcast, a failed insertion or a crash; the last transaction
\* may have got out.
Abandon(m) ==
    /\ m \in open
    /\ open' = {}
    /\ \/ sent[m] < 3 /\ sent' = [sent EXCEPT ![m] = @ + 1]
       \/ sent' = sent
    /\ UNCHANGED <<recorded, verdict>>

Refuse(m) ==
    /\ m \notin open /\ sent[m] = 0 /\ verdict[m] = "none"
    /\ verdict' = [verdict EXCEPT ![m] = "err"]
    /\ UNCHANGED <<open, sent, recorded>>

Next == \E m \in Mints :
    Open(m) \/ Broadcast(m) \/ Record(m) \/ Abandon(m) \/ Refuse(m)

Spec == Init /\ [][Next]_vars

-----------------------------------------------------------------------------
\* What a caller may conclude from an answer, and an operator from the table.
VerdictIsTrue ==
    /\ \A m \in recorded : sent[m] = 3
    /\ \A m \in Mints : verdict[m] = "ok" => m \in recorded
    /\ \A m \in Mints : verdict[m] = "err" => sent[m] = 0 /\ m \notin open
=============================================================================
