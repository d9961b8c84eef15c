-------------------------- MODULE MCProjectDispatch --------------------------
(* Instances of the project workflow for TLC.                              *)
EXTENDS ProjectDispatch

CONSTANTS a1, a2, o1, o2, o3, r1, r2

Command(k, f, a) == [kind |-> k, force |-> f, agent |-> a]

ResourceCommand(k, f, new, old) ==
    [kind |-> k, force |-> f, agent |-> None, resource |-> new, old |-> old]

BaseView ==
    [head |-> 0, lifecycle |-> "Open", archived |-> FALSE, claimable |-> TRUE,
     active_human |-> TRUE, available |-> Agents, assignment |-> None,
     resources |-> {r1}, primary |-> r1, ended |-> {}, dispatched |-> 0, accepted |-> 0]

Serving(phase) == [id |-> Before, agent |-> a1, phase |-> phase]

(* Every shape a project at rest has: closed, archived, open, assigned     *)
(* with an input waiting, blocked, and a close that was left half way.     *)
RestingViews ==
    {[BaseView EXCEPT !.lifecycle = "Closed", !.accepted = 1],
     [BaseView EXCEPT !.lifecycle = "Closed", !.archived = TRUE],
     BaseView,
     [BaseView EXCEPT !.assignment = Serving("Runnable"), !.accepted = 1],
     [BaseView EXCEPT !.assignment = Serving("Blocked")],
     [BaseView EXCEPT !.lifecycle = "Closing", !.assignment = Serving("Runnable")]}

AllCommands ==
    {Command("Activate", FALSE, a2), Command("Open", FALSE, None),
     Command("Unarchive", FALSE, None), Command("Dispatch", FALSE, None),
     Command("Retire", FALSE, a1), Command("Retire", TRUE, a1),
     Command("Retire", FALSE, a2),
     Command("Close", FALSE, None), Command("Close", TRUE, None),
     Command("Archive", FALSE, None), Command("Handoff", FALSE, a2),
     Command("Handoff", TRUE, a2),
     ResourceCommand("AddResource", TRUE, r2, None),
     ResourceCommand("RemoveResource", FALSE, None, r1),
     ResourceCommand("ReplaceResource", FALSE, r2, r1),
     ResourceCommand("SetPrimaryResource", FALSE, r2, None)}

(* Projects with an input waiting, assigned or about to be.                *)
WaitingViews ==
    {[BaseView EXCEPT !.assignment = Serving("Runnable"), !.accepted = 1],
     [BaseView EXCEPT !.accepted = 1]}

DispatchCommands ==
    {Command("Activate", FALSE, a2), Command("Dispatch", FALSE, None),
     Command("Close", FALSE, None)}
=============================================================================
