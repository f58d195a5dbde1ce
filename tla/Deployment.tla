----------------------------- MODULE Deployment -----------------------------
(***************************************************************************)
(* Processes of the program on one machine: each reads its environment,    *)
(* then either starts a server or, with --reset, drops the table, ends or  *)
(* dies at any time, and may be run again.  They share SQLite files.  A    *)
(* mint is its broadcast and its row here; MintServer has the rest.        *)
(***************************************************************************)
EXTENDS FiniteSets

CONSTANTS
    Processes,
    Environments,  \* what a process may be run with
    Tokens,        \* texts of RPC_AUTH_TOKEN that are not blank
    Databases,     \* SQLite files
    Default,       \* sqlite://brc20_minter.db
    Mints,         \* the attempts at a mint: a bound
    Unset, Blank, None

ASSUME DatabasesAssumption == Default \in Databases /\ Unset \notin Databases
ASSUME TokensAssumption    == {Unset, Blank, None} \cap Tokens = {} /\ Blank # None
ASSUME EnvironmentsAssumption ==
    Environments \subseteq
        [argument    : {"start", "--reset"},
         address     : {"loopback", "public", "malformed"},
         token       : {Unset, Blank} \cup Tokens,
         allow       : {"unset", "yes", "no"},
         databaseUrl : {Unset} \cup Databases,
         dbPath      : {Unset} \cup Databases]

VARIABLES
    pc,        \* where each process is
    env,       \* what it was run with
    files,     \* the SQLite files that exist
    tables,    \* the files with a table
    rows,      \* the mints in each file's table
    sending,   \* the mint each process has broadcast and not recorded
    used,      \* the mints that were broadcast
    accepted,  \* the Authorization headers each process let through
    answered,  \* of each file: mints answered with a hash, no reset since
    cut        \* processes whose table a reset dropped: no code

mints == <<sending, used, answered>>
vars == <<pc, env, files, tables, rows, mints, accepted, cut>>

Headers == {None} \cup ({"Bearer"} \X (Tokens \cup {Blank}))

-----------------------------------------------------------------------------
(* Config::default.                                                        *)

\* Variant of RpcAuthToken: a blank value is not filtered out.
AnyAuthToken(e) == IF e.token = Unset THEN None ELSE e.token

\* Trimmed, and none if nothing is left.
RpcAuthToken(e) == IF e.token \in {Unset, Blank} THEN None ELSE e.token

\* Variant of AllowRemoteBind: any value will do.
AllowIfSet(e) == e.allow # "unset"

\* One of 1, true, yes, on, in any case; any other value is no.
AllowRemoteBind(e) == e.allow = "yes"

\* Variant of DbUrl: no default.
DbUrlAsGiven(e) == e.databaseUrl

DbUrl(e) == IF e.databaseUrl = Unset THEN Default ELSE e.databaseUrl

Db(p) == DbUrl(env[p])

-----------------------------------------------------------------------------
Starting == {"config", "policy", "state", "tables", "bind", "clear"}
Created  == {"bind", "clear", "serving"}

TypeOK ==
    /\ pc \in [Processes -> Starting \cup {"off", "serving"}]
    /\ env \in [Processes -> Environments]
    /\ files \subseteq Databases /\ tables \subseteq files
    /\ rows \in [Databases -> SUBSET Mints]
    /\ sending \in [Processes -> SUBSET Mints] /\ used \subseteq Mints
    /\ accepted \in [Processes -> SUBSET Headers]
    /\ answered \in [Databases -> SUBSET Mints]
    /\ cut \subseteq Processes

Init ==
    /\ pc = [p \in Processes |-> "off"]
    /\ env \in [Processes -> Environments]
    /\ files = {} /\ tables = {}
    /\ rows = [d \in Databases |-> {}]
    /\ sending = [p \in Processes |-> {}] /\ used = {}
    /\ accepted = [p \in Processes |-> {}]
    /\ answered = [d \in Databases |-> {}]
    /\ cut = {}

Go(p, from, to) == pc[p] = from /\ pc' = [pc EXCEPT ![p] = to]

\* The process is gone, with the row it had not inserted.
Gone(p) ==
    /\ pc' = [pc EXCEPT ![p] = "off"]
    /\ sending' = [sending EXCEPT ![p] = {}]
    /\ accepted' = [accepted EXCEPT ![p] = {}]
    /\ cut' = cut \ {p}
    /\ UNCHANGED <<env, files, tables, rows, used, answered>>

Run(p) ==
    /\ Go(p, "off", "config")
    /\ \E e \in Environments : env' = [env EXCEPT ![p] = e]
    /\ UNCHANGED <<files, tables, rows, mints, accepted, cut>>

\* main: every variable is there and valid.
Configure(p) ==
    /\ Go(p, "config", IF env[p].argument = "--reset" THEN "state" ELSE "policy")
    /\ UNCHANGED <<env, files, tables, rows, mints, accepted, cut>>

\* Config::default panics: another variable is missing or invalid.
ConfigureFails(p) == pc[p] = "config" /\ Gone(p)

\* The bind policy lets a server with the environment e be built.
MayBind(e) ==
    \/ e.address = "loopback"
    \/ e.address = "public" /\ (RpcAuthToken(e) # None \/ AllowRemoteBind(e))

ValidateBindPolicy(p) ==
    /\ MayBind(env[p])
    /\ Go(p, "policy", "state")
    /\ UNCHANGED <<env, files, tables, rows, mints, accepted, cut>>

\* start panics: the address does not parse, or may not be bound to.
RefuseToBind(p) == pc[p] = "policy" /\ ~ MayBind(env[p]) /\ Gone(p)

WithTables(p) == IF env[p].argument = "--reset" THEN "clear" ELSE "bind"

\* Variant of NewServerState: the table is created with the file only.
NewServerStateOnce(p) ==
    /\ Go(p, "state", IF Db(p) \in files THEN WithTables(p) ELSE "tables")
    /\ files' = files \cup {Db(p)}
    /\ UNCHANGED <<env, tables, rows, mints, accepted, cut>>

\* ServerState::new, up to the connection to the database.
NewServerState(p) ==
    /\ Go(p, "state", "tables")
    /\ files' = files \cup {Db(p)}
    /\ UNCHANGED <<env, tables, rows, mints, accepted, cut>>

\* ServerState::new panics: a key or a URL is invalid, BRC2.0 is not reached, the
\* database cannot be opened or written.
NewServerStateFails(p) == pc[p] \in {"state", "tables"} /\ Gone(p)

\* Variant of CreateTables: the table is made anew.
CreateTablesAfresh(p) ==
    /\ Go(p, "tables", WithTables(p))
    /\ tables' = tables \cup {Db(p)}
    /\ rows' = [rows EXCEPT ![Db(p)] = {}]
    /\ UNCHANGED <<env, files, mints, accepted, cut>>

\* CREATE TABLE IF NOT EXISTS
CreateTables(p) ==
    /\ Go(p, "tables", WithTables(p))
    /\ tables' = tables \cup {Db(p)}
    /\ UNCHANGED <<env, files, rows, mints, accepted, cut>>

\* reset: DROP TABLE IF EXISTS, whoever else uses it.
ClearTables(p) ==
    /\ Go(p, "clear", "off")
    /\ tables' = tables \ {Db(p)}
    /\ rows' = [rows EXCEPT ![Db(p)] = {}]
    /\ answered' = [answered EXCEPT ![Db(p)] = {}]
    /\ cut' = (cut \cup {q \in Processes : pc[q] \in Created /\ Db(q) = Db(p)}) \ {p}
    /\ UNCHANGED <<env, files, sending, used, accepted>>

\* The table cannot be dropped: clear_tables panics.
ClearFails(p) == pc[p] = "clear" /\ Gone(p)

Bind(p) ==
    /\ Go(p, "bind", "serving")
    /\ UNCHANGED <<env, files, tables, rows, mints, accepted, cut>>

\* start panics: the port is taken, or CORS_ALLOW_ORIGIN is no header value.
BindFails(p) == pc[p] = "bind" /\ Gone(p)

\* Without a token every request is let through; with one, those with exactly
\* this header.
CheckRpcAuth(p, header) ==
    /\ pc[p] = "serving"
    /\ RpcAuthToken(env[p]) # None => header = <<"Bearer", RpcAuthToken(env[p])>>
    /\ accepted' = [accepted EXCEPT ![p] = @ \cup {header}]
    /\ UNCHANGED <<pc, env, files, tables, rows, mints, cut>>

\* An accepted request mints; the Mutex lets one at a time.
Broadcast(p, m) ==
    /\ pc[p] = "serving" /\ accepted[p] # {}
    /\ sending[p] = {} /\ m \notin used
    /\ sending' = [sending EXCEPT ![p] = {m}]
    /\ used' = used \cup {m}
    /\ UNCHANGED <<pc, env, files, tables, rows, accepted, answered, cut>>

\* Without the table the insertion panics, and the task with it: no answer.
AddTx(p, m) ==
    /\ m \in sending[p]
    /\ sending' = [sending EXCEPT ![p] = {}]
    /\ IF Db(p) \in tables
       THEN /\ rows' = [rows EXCEPT ![Db(p)] = @ \cup {m}]
            /\ answered' = [answered EXCEPT ![Db(p)] = @ \cup {m}]
       ELSE UNCHANGED <<rows, answered>>
    /\ UNCHANGED <<pc, env, files, tables, used, accepted, cut>>

\* From outside: the process is stopped, or dies.
Kill(p) == pc[p] # "off" /\ Gone(p)

Next ==
    \E p \in Processes :
        \/ Run(p) \/ Configure(p) \/ ConfigureFails(p)
        \/ ValidateBindPolicy(p) \/ RefuseToBind(p)
        \/ NewServerState(p) \/ CreateTables(p) \/ NewServerStateFails(p)
        \/ ClearTables(p) \/ ClearFails(p) \/ Bind(p) \/ BindFails(p)
        \/ \E header \in Headers : CheckRpcAuth(p, header)
        \/ \E m \in Mints : Broadcast(p, m) \/ AddTx(p, m)
        \/ Kill(p)

Spec == Init /\ [][Next]_vars

-----------------------------------------------------------------------------
(* Properties.                                                             *)

\* Where a token is given, a request is served for that token only; where
\* none is, blank ones being none, for the machine itself or because the
\* operator said so: reading, policy and check agree, whatever was reset,
\* restarted or run beside.
EveryCallIsAllowed ==
    \A p \in Processes : \A header \in accepted[p] :
        IF env[p].token \in Tokens
        THEN header = <<"Bearer", env[p].token>>
        ELSE env[p].address = "loopback" \/ env[p].allow = "yes"

\* An answered mint stays in the table until a --reset for that table, through
\* the end of its process and the start of any number of others beside it.
AnsweredSurvive ==
    \A d \in Databases : answered[d] \subseteq rows[d]

\* A server misses its table, and loses the mints it broadcasts, only if a
\* --reset ran since it looked; the next start has it again.
TableMissingOnlyAfterReset ==
    \A p \in Processes :
        pc[p] \in Created /\ Db(p) \notin tables => p \in cut

\* README.md:40 names DB_PATH and DATABASE_URL for the URL of the database.
\* The program reads DATABASE_URL alone: with DB_PATH, a --reset is for the
\* table of the default file.
ResetIsForTheNamedFile ==
    \A p \in Processes :
        pc[p] = "clear" /\ env[p].databaseUrl = Unset /\ env[p].dbPath # Unset =>
            Db(p) = env[p].dbPath
=============================================================================
