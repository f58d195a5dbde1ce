---------------------------- MODULE MCDeployment ----------------------------
(***************************************************************************)
(* Environments of Deployment for TLC.                                     *)
(***************************************************************************)
EXTENDS Deployment, TLC

CONSTANT d1

\* Everything that bears on who may call.
AccessEnvironments ==
    [argument : {"start", "--reset"}, address : {"loopback", "public", "malformed"},
     token : {Unset, Blank} \cup Tokens, allow : {"unset", "yes", "no"},
     databaseUrl : {Unset}, dbPath : {Unset}]

\* Servers and resets on two files.
FileEnvironments ==
    [argument : {"start", "--reset"}, address : {"loopback"}, token : {Unset},
     allow : {"unset"}, databaseUrl : {Unset, d1}, dbPath : {Unset}]

\* DB_PATH is set.
PathEnvironments ==
    [argument : {"start", "--reset"}, address : {"loopback"}, token : {Unset},
     allow : {"unset"}, databaseUrl : {Unset, d1}, dbPath : {Unset, d1}]

Symmetry == Permutations(Mints) \cup Permutations(Processes)
=============================================================================
