---------------------------- MODULE MCMintServer ----------------------------
(***************************************************************************)
(* Instances of MintServer for TLC.  Each traffic is a function from the   *)
(* tasks to the methods in their batch; eth_sendRawTransaction is given    *)
(* with its nonce.                                                         *)
(***************************************************************************)
EXTENDS MintRefinement, Sequences, TLC

CONSTANTS t1, t2, t3

Send(n)  == [method |-> "send", nonce |-> n]
Call(m)  == [method |-> m, nonce |-> 0]

SizeOf(traffic)   == [t \in DOMAIN traffic |-> Len(traffic[t])]
CallsOf(traffic)  == UNION {{t} \X DOMAIN traffic[t] : t \in DOMAIN traffic}
MethodOf(traffic) == [x \in CallsOf(traffic) |-> traffic[x[1]][x[2]].method]
NonceOf(traffic)  == [x \in {y \in CallsOf(traffic) :
                                traffic[y[1]][y[2]].method = "send"} |->
                        traffic[x[1]][x[2]].nonce]

-----------------------------------------------------------------------------
\* Two clients mint at once; the second has two mints in its batch.
MintTraffic == (t1 :> <<Send(0)>>) @@ (t2 :> <<Send(1), Send(2)>>)

\* Counts before, between and after two mints, the second of which leaves
\* the nonce 1 free for the first.
CountTraffic == (t1 :> <<Call("count"), Send(1), Call("count")>>)
             @@ (t2 :> <<Send(0)>>) @@ (t3 :> <<Call("count")>>)

\* All methods, so that every way through the lock meets every other.
MixedTraffic == (t1 :> <<Send(0), Call("accounts")>>)
             @@ (t2 :> <<Call("gasPrice"), Call("proxy")>>)
             @@ (t3 :> <<Call("balance"), Call("estimate")>>)

MintSize   == SizeOf(MintTraffic)
MintMethod == MethodOf(MintTraffic)
MintNonce  == NonceOf(MintTraffic)

CountSize   == SizeOf(CountTraffic)
CountMethod == MethodOf(CountTraffic)
CountNonce  == NonceOf(CountTraffic)

MixedSize   == SizeOf(MixedTraffic)
MixedMethod == MethodOf(MixedTraffic)
MixedNonce  == NonceOf(MixedTraffic)
=============================================================================
