----------------------------- MODULE MCLocalApi -----------------------------
(* Small instances of LocalApi for TLC.                                     *)
EXTENDS LocalApi, TLC

CONSTANTS mutation, project, handoff, session, retirement, query, snapshot

KindOf ==
    (mutation :> "Mutation") @@ (project :> "Project") @@ (handoff :> "Project") @@
    (session :> "Session") @@ (retirement :> "Retirement") @@
    (query :> "Ordinary") @@ (snapshot :> "Snapshot")

Observer(selections, faults, expiries, commits, prompts) ==
    [role |-> "observer", commands |-> {}, attempts |-> 1, calls |-> selections,
     faults |-> faults, expiries |-> expiries, commits |-> commits, prompts |-> prompts]

Commander(commands, attempts, calls, faults, expiries) ==
    [role |-> "commander", commands |-> commands, attempts |-> attempts, calls |-> calls,
     faults |-> faults, expiries |-> expiries, commits |-> 0, prompts |-> 0]

(* Every pair of commands; every command with a fault or an expired        *)
(* deadline; two calls of some commands, two of one kind, with a fault;    *)
(* a project command and what continues it, four calls in all.             *)
Commanders ==
    {Commander(Commands, 2, 2, 0, 0), Commander(Commands, 2, 1, 1, 0),
     Commander(Commands, 2, 1, 0, 1), Commander({mutation}, 1, 2, 1, 0),
     Commander({mutation, project, handoff, query}, 2, 2, 1, 0),
     Commander({project, mutation}, 2, 4, 0, 0), Commander({project}, 2, 4, 1, 0)}

(* A selection, an expired deadline, or a fault, with a commit and a       *)
(* prompt (or one of them); two commits and a prompt.                      *)
Observers ==
    {Observer(1, 0, 0, 1, 1), Observer(0, 0, 1, 1, 1), Observer(0, 1, 0, 1, 0),
     Observer(0, 1, 0, 0, 1), Observer(0, 0, 0, 2, 1)}

Frontends == Commanders \cup Observers

FewObservers ==
    {Observer(1, 0, 0, 1, 1), Observer(0, 0, 1, 1, 1), Observer(0, 1, 0, 1, 0),
     Observer(0, 1, 0, 0, 1)}
=============================================================================
