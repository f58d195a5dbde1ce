-------------------------- MODULE Deployment_proofs -------------------------
(***************************************************************************)
(* Who may call, and what becomes of the table, for any number of          *)
(* processes, environments and databases.                                  *)
(***************************************************************************)
EXTENDS Deployment, TLAPS

\* A server on its way or serving has passed the policy, and has let through
\* what its token lets.
Admitted(p) ==
    /\ pc[p] \in {"state", "tables"} =>
          env[p].argument = "--reset" \/ MayBind(env[p])
    /\ pc[p] \in {"bind", "serving"} => MayBind(env[p])
    /\ pc[p] = "tables" => Db(p) \in files
    /\ pc[p] # "serving" => accepted[p] = {}
    /\ \A header \in accepted[p] :
          RpcAuthToken(env[p]) # None => header = <<"Bearer", RpcAuthToken(env[p])>>

IInv ==
    /\ TypeOK
    /\ \A p \in Processes : Admitted(p)
    /\ AnsweredSurvive
    /\ TableMissingOnlyAfterReset

LEMMA DbTypes ==
    ASSUME TypeOK
    PROVE  \A p \in Processes : env[p] \in Environments /\ Db(p) \in Databases
BY EnvironmentsAssumption, DatabasesAssumption DEF TypeOK, Db, DbUrl

\* The inductive invariant gives the properties.
LEMMA InvariantAllows == IInv => EveryCallIsAllowed
<1> SUFFICES ASSUME IInv, NEW p \in Processes, NEW header \in accepted[p]
             PROVE  IF env[p].token \in Tokens
                    THEN header = <<"Bearer", env[p].token>>
                    ELSE env[p].address = "loopback" \/ env[p].allow = "yes"
  BY DEF EveryCallIsAllowed
<1>1. pc[p] = "serving" /\ MayBind(env[p])
  BY DEF IInv, Admitted
<1>2. env[p].token \in {Unset, Blank} \cup Tokens
  BY EnvironmentsAssumption DEF IInv, TypeOK
<1>3. CASE env[p].token \in Tokens
  BY <1>3, TokensAssumption DEF IInv, Admitted, RpcAuthToken
<1>4. CASE env[p].token \notin Tokens
  BY <1>1, <1>2, <1>4 DEF MayBind, RpcAuthToken, AllowRemoteBind
<1> QED
  BY <1>3, <1>4

LEMMA InitDeployment == Init => IInv
BY DEF Init, IInv, TypeOK, Starting, Admitted, AnsweredSurvive,
       TableMissingOnlyAfterReset, Created

\* A step of one process that leaves the table and the answers alone.
LEMMA OneMoves ==
    ASSUME IInv, TypeOK', NEW p \in Processes, Admitted(p)',
           \A q \in Processes \ {p} : /\ pc'[q] = pc[q] /\ env'[q] = env[q]
                                      /\ accepted'[q] = accepted[q]
                                      /\ q \in cut => q \in cut',
           tables' = tables, rows' = rows, answered' = answered,
           files \subseteq files',
           pc'[p] \in Created => pc[p] \in Created /\ env'[p] = env[p],
           pc'[p] \in Created /\ p \in cut => p \in cut'
    PROVE  IInv'
<1>1. \A q \in Processes : Admitted(q)'
  BY DEF IInv, Admitted, Db
<1>2. AnsweredSurvive'
  BY DEF IInv, AnsweredSurvive
<1>3. TableMissingOnlyAfterReset'
  BY DEF IInv, TableMissingOnlyAfterReset, Db
<1> QED
  BY <1>1, <1>2, <1>3 DEF IInv

LEMMA RunKeeps ==
    ASSUME IInv, NEW p \in Processes, Run(p)
    PROVE  IInv'
<1>1. TypeOK'
  BY DEF IInv, TypeOK, Run, Go, mints, Starting
<1>2. pc'[p] = "config" /\ accepted'[p] = {}
  BY DEF IInv, TypeOK, Run, Go, Admitted
<1>3. Admitted(p)'
  BY <1>2 DEF Admitted
<1> QED
  BY <1>1, <1>2, <1>3, OneMoves DEF IInv, TypeOK, Run, Go, mints, Created

LEMMA ConfigureKeeps ==
    ASSUME IInv, NEW p \in Processes, Configure(p)
    PROVE  IInv'
<1>1. TypeOK'
  BY DEF IInv, TypeOK, Configure, Go, mints, Starting
<1>2. /\ pc'[p] \in {"state", "policy"} /\ accepted'[p] = {} /\ env'[p] = env[p]
      /\ pc'[p] = "state" => env[p].argument = "--reset"
  BY DEF IInv, TypeOK, Configure, Go, Admitted
<1>3. Admitted(p)'
  BY <1>2 DEF Admitted
<1> QED
  BY <1>1, <1>2, <1>3, OneMoves DEF IInv, TypeOK, Configure, Go, mints, Created

LEMMA PolicyKeeps ==
    ASSUME IInv, NEW p \in Processes, ValidateBindPolicy(p)
    PROVE  IInv'
<1>1. TypeOK'
  BY DEF IInv, TypeOK, ValidateBindPolicy, Go, mints, Starting
<1>2. pc'[p] = "state" /\ accepted'[p] = {} /\ env'[p] = env[p] /\ MayBind(env[p])
  BY DEF IInv, TypeOK, ValidateBindPolicy, Go, Admitted, MayBind
<1>3. Admitted(p)'
  BY <1>2 DEF Admitted
<1> QED
  BY <1>1, <1>2, <1>3, OneMoves DEF IInv, TypeOK, ValidateBindPolicy, Go, mints, Created

LEMMA NewStateKeeps ==
    ASSUME IInv, NEW p \in Processes, NewServerState(p)
    PROVE  IInv'
<1>1. TypeOK'
  BY DbTypes DEF IInv, TypeOK, NewServerState, Go, mints, Starting
<1>2. /\ pc[p] = "state" /\ pc'[p] = "tables" /\ accepted'[p] = {} /\ env' = env
      /\ Db(p) \in files'
  BY DEF IInv, TypeOK, NewServerState, Go, Admitted
<1>3. Admitted(p)'
  BY <1>2 DEF IInv, Admitted, Db
<1> QED
  BY <1>1, <1>2, <1>3, OneMoves DEF IInv, TypeOK, NewServerState, Go, mints, Created

LEMMA BindKeeps ==
    ASSUME IInv, NEW p \in Processes, Bind(p)
    PROVE  IInv'
<1>1. TypeOK'
  BY DEF IInv, TypeOK, Bind, Go, mints, Starting
<1>2. /\ pc[p] = "bind" /\ pc'[p] = "serving" /\ accepted[p] = {}
      /\ UNCHANGED <<env, accepted, cut>>
  BY DEF IInv, TypeOK, Bind, Go, Admitted
<1>3. Admitted(p)'
  BY <1>2 DEF IInv, Admitted
<1> QED
  BY <1>1, <1>2, <1>3, OneMoves DEF IInv, TypeOK, Bind, Go, mints, Created

LEMMA CreateKeeps ==
    ASSUME IInv, NEW p \in Processes, CreateTables(p)
    PROVE  IInv'
<1>1. Db(p) \in Databases
  BY DbTypes DEF IInv
<1>2. /\ pc[p] = "tables" /\ pc' = [pc EXCEPT ![p] = WithTables(p)]
      /\ tables' = tables \cup {Db(p)}
      /\ UNCHANGED <<env, files, rows, sending, used, answered, accepted, cut>>
  BY DEF CreateTables, Go, mints
<1>3. WithTables(p) \in {"clear", "bind"}
      /\ (WithTables(p) = "bind" => env[p].argument # "--reset")
  BY DEF WithTables
<1>4. Db(p) \in files
  BY <1>2 DEF IInv, Admitted
<1>5. TypeOK'
  BY <1>1, <1>2, <1>3, <1>4 DEF IInv, TypeOK, Starting
<1>6. \A q \in Processes : Admitted(q)'
  BY <1>2, <1>3 DEF IInv, TypeOK, Admitted, Db
<1>7. AnsweredSurvive'
  BY <1>2 DEF IInv, AnsweredSurvive
<1>8. TableMissingOnlyAfterReset'
  BY <1>2 DEF IInv, TypeOK, TableMissingOnlyAfterReset, Db, Created
<1> QED
  BY <1>5, <1>6, <1>7, <1>8 DEF IInv

LEMMA ClearKeeps ==
    ASSUME IInv, NEW p \in Processes, ClearTables(p)
    PROVE  IInv'
<1>1. Db(p) \in Databases
  BY DbTypes DEF IInv
<1>2. /\ pc[p] = "clear" /\ pc' = [pc EXCEPT ![p] = "off"]
      /\ tables' = tables \ {Db(p)} /\ rows' = [rows EXCEPT ![Db(p)] = {}]
      /\ answered' = [answered EXCEPT ![Db(p)] = {}]
      /\ cut' = (cut \cup {q \in Processes : pc[q] \in Created /\ Db(q) = Db(p)}) \ {p}
      /\ UNCHANGED <<env, files, sending, used, accepted>>
  BY DEF ClearTables, Go
<1>3. TypeOK'
  BY <1>1, <1>2 DEF IInv, TypeOK
<1>4. \A q \in Processes : Admitted(q)'
  BY <1>2 DEF IInv, TypeOK, Admitted, Db
<1>5. AnsweredSurvive'
  BY <1>1, <1>2 DEF IInv, TypeOK, AnsweredSurvive
<1>6. TableMissingOnlyAfterReset'
  BY <1>2 DEF IInv, TypeOK, TableMissingOnlyAfterReset, Db, Created
<1> QED
  BY <1>3, <1>4, <1>5, <1>6 DEF IInv

LEMMA AuthKeeps ==
    ASSUME IInv, NEW p \in Processes, NEW header \in Headers, CheckRpcAuth(p, header)
    PROVE  IInv'
<1>1. TypeOK'
  BY DEF IInv, TypeOK, CheckRpcAuth, mints
<1>2. Admitted(p)'
  BY DEF IInv, TypeOK, CheckRpcAuth, Admitted
<1> QED
  BY <1>1, <1>2, OneMoves DEF IInv, TypeOK, CheckRpcAuth, mints

LEMMA BroadcastKeeps ==
    ASSUME IInv, NEW p \in Processes, NEW m \in Mints, Broadcast(p, m)
    PROVE  IInv'
<1>1. TypeOK'
  BY DEF IInv, TypeOK, Broadcast
<1>2. Admitted(p)'
  BY DEF IInv, Broadcast, Admitted, Db
<1> QED
  BY <1>1, <1>2, OneMoves DEF IInv, Broadcast

LEMMA AddTxKeeps ==
    ASSUME IInv, NEW p \in Processes, NEW m \in Mints, AddTx(p, m)
    PROVE  IInv'
<1>1. Db(p) \in Databases
  BY DbTypes DEF IInv
<1>2. TypeOK'
  BY <1>1 DEF IInv, TypeOK, AddTx
<1>3. \A q \in Processes : Admitted(q)'
  BY DEF IInv, AddTx, Admitted, Db
<1>4. AnsweredSurvive'
  BY <1>1 DEF IInv, TypeOK, AnsweredSurvive, AddTx
<1>5. TableMissingOnlyAfterReset'
  BY DEF IInv, TableMissingOnlyAfterReset, Db, AddTx
<1> QED
  BY <1>2, <1>3, <1>4, <1>5 DEF IInv

LEMMA GoneKeeps ==
    ASSUME IInv, NEW p \in Processes, Gone(p)
    PROVE  IInv'
<1>1. TypeOK'
  BY DEF IInv, TypeOK, Gone
<1>2. pc'[p] = "off" /\ accepted'[p] = {}
  BY DEF IInv, TypeOK, Gone
<1>3. Admitted(p)'
  BY <1>2 DEF Admitted
<1> QED
  BY <1>1, <1>2, <1>3, OneMoves DEF IInv, TypeOK, Gone, Created

\* The inductive invariant holds throughout.
THEOREM DeploymentIsInductive == Spec => []IInv
<1>1. Init => IInv
  BY InitDeployment
<1>2. IInv /\ UNCHANGED vars => IInv'
  BY DEF IInv, vars, mints, TypeOK, Admitted, Db, AnsweredSurvive,
         TableMissingOnlyAfterReset
<1>3. IInv /\ Next => IInv'
  BY RunKeeps, ConfigureKeeps, PolicyKeeps, NewStateKeeps, CreateKeeps, ClearKeeps,
     BindKeeps, AuthKeeps, BroadcastKeeps, AddTxKeeps, GoneKeeps
     DEF Next, ConfigureFails, RefuseToBind, NewServerStateFails, ClearFails, BindFails, Kill
<1>4. IInv /\ [Next]_vars => IInv'
  BY <1>2, <1>3
<1> QED
  BY <1>1, <1>4, PTL DEF Spec

\* Whatever the environments, a request is served for the token that was given,
\* or for the machine itself, or because the operator allowed it.
THEOREM CallsAreAllowed == Spec => []EveryCallIsAllowed
BY DeploymentIsInductive, InvariantAllows, PTL

\* For any number of processes on any files, an answered mint stays in the
\* table until a --reset for that file.
THEOREM AnswersSurvive == Spec => []AnsweredSurvive
<1>1. IInv => AnsweredSurvive
  BY DEF IInv
<1> QED
  BY <1>1, DeploymentIsInductive, PTL

\* Nothing but a --reset takes the table from a server.
THEOREM OnlyAResetTakesTheTable == Spec => []TableMissingOnlyAfterReset
<1>1. IInv => TableMissingOnlyAfterReset
  BY DEF IInv
<1> QED
  BY <1>1, DeploymentIsInductive, PTL

\* Processes, files and tables keep their types: a table is in a file that
\* exists.
THEOREM TypeCorrect == Spec => []TypeOK
<1>1. IInv => TypeOK
  BY DEF IInv
<1> QED
  BY <1>1, DeploymentIsInductive, PTL
=============================================================================
