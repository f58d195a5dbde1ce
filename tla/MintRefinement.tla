--------------------------- MODULE MintRefinement ---------------------------
(***************************************************************************)
(* MintServer implements MintPromise.  A mint is open from the moment its  *)
(* last mempool test succeeded until its row is inserted or its task ends. *)
(***************************************************************************)
EXTENDS MintServer

Open     == {Cur(t) : t \in {u \in Tasks : pc[u] \in {"send", "record"}}}
Verdicts == [c \in SendCalls |-> result[c]]

Promise == INSTANCE MintPromise WITH
    Mints <- SendCalls, open <- Open, sent <- node, recorded <- rows,
    verdict <- Verdicts

\* Every behaviour of the server is one the abstract minter allows: see
\* MintPromise for what that rules out.
KeepsMintPromise == Promise!Spec
=============================================================================
