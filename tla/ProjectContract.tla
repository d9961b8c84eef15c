-------------------------- MODULE ProjectContract ---------------------------
(***************************************************************************)
(* What the project workflow promises its clients, without saying how: a   *)
(* project serves one accepted command at a time; only that command moves  *)
(* the project, along the transitions of its kind; it is reported complete *)
(* only when the project is what the client asked for, refused only when   *)
(* it leaves nothing half made, and a report is never changed.             *)
(***************************************************************************)
CONSTANTS Ops, Commands, None

VARIABLES command,    \* the command accepted under each operation, or None
          outcome,    \* "none", "live", "Completed" or "Rejected"
          opened,     \* the operations that found the project closed
          lifecycle, archived,
          assignment, \* None or [id, agent, phase]
          available,  \* agents not retired
          resources, primary

vars == <<command, outcome, opened, lifecycle, archived, assignment, available,
          resources, primary>>

Init ==
    /\ command = [op \in Ops |-> None]
    /\ outcome = [op \in Ops |-> "none"]
    /\ opened = [op \in Ops |-> FALSE]
    /\ lifecycle \in {"Open", "Closing", "Closed"}
    /\ archived \in BOOLEAN

By(op, kinds) == outcome[op] = "live" /\ command[op].kind \in kinds

Activates == {"Activate", "Handoff"}
Closes == {"Close", "Archive"}

Owns(op) == assignment # None /\ assignment.id = op

(* A client's command is accepted when no other one is live.               *)
Begin(op, c) ==
    /\ \A other \in Ops : outcome[other] # "live"
    /\ outcome[op] = "none"
    /\ outcome' = [outcome EXCEPT ![op] = "live"]
    /\ command' = [command EXCEPT ![op] = c]
    /\ UNCHANGED <<opened, lifecycle, archived, assignment, available, resources, primary>>

(* An activation that finds the project closed is the one to close it      *)
(* again if it fails.                                                      *)
FindClosed(op) ==
    /\ By(op, Activates) /\ lifecycle = "Closed"
    /\ opened' = [opened EXCEPT ![op] = TRUE]
    /\ UNCHANGED <<command, outcome, lifecycle, archived, assignment, available, resources, primary>>

MoveLifecycle(op) ==
    /\ \/ /\ lifecycle = "Closed" /\ lifecycle' = "Open" /\ ~archived
          /\ By(op, {"Open"}) \/ (By(op, Activates) /\ opened[op])
       \/ /\ lifecycle = "Open" /\ lifecycle' = "Closing"
          /\ By(op, Closes) \/ (By(op, Activates) /\ opened[op] /\ assignment = None)
       \/ /\ lifecycle = "Closing" /\ lifecycle' = "Closed" /\ assignment = None
          /\ By(op, Closes) \/ (By(op, Activates) /\ opened[op])
    /\ UNCHANGED <<command, outcome, opened, archived, assignment, available, resources, primary>>

MoveArchive(op) ==
    /\ lifecycle = "Closed" /\ assignment = None
    /\ \/ By(op, {"Archive"}) /\ ~archived /\ archived'
       \/ By(op, {"Unarchive"}) /\ archived /\ ~archived'
    /\ UNCHANGED <<command, outcome, opened, lifecycle, assignment, available, resources, primary>>

(* An activation may give up its own assignment until it is reported, also *)
(* one that is runnable already.                                           *)
MoveAssignment(op) ==
    /\ \/ /\ By(op, Activates) /\ lifecycle = "Open" /\ assignment = None
          /\ assignment' = [id |-> op, agent |-> command[op].agent, phase |-> "Configuring"]
       \/ /\ By(op, Activates) /\ lifecycle = "Open"
          /\ Owns(op) /\ assignment.phase = "Configuring"
          /\ assignment' = [assignment EXCEPT !.phase = "Runnable"]
       \/ /\ By(op, {"Handoff", "Retire"}) /\ assignment # None
          /\ assignment' = [assignment EXCEPT !.phase = "Blocked"]
       \/ /\ assignment # None
          /\ \/ By(op, Closes) /\ lifecycle = "Closing"
             \/ By(op, {"Handoff", "Retire"})
             \/ By(op, {"Activate"}) /\ Owns(op)
          /\ assignment' = None
    /\ UNCHANGED <<command, outcome, opened, lifecycle, archived, available, resources, primary>>

RetireAgent(op) ==
    /\ By(op, {"Retire"})
    /\ assignment # None => assignment.agent # command[op].agent
    /\ available' = available \ {command[op].agent}
    /\ UNCHANGED <<command, outcome, opened, lifecycle, archived, assignment, resources, primary>>

MoveResources(op) ==
    /\ ~archived /\ lifecycle # "Closing"
    /\ By(op, {"AddResource", "RemoveResource", "ReplaceResource", "SetPrimaryResource"})
    /\ LET c == command[op]
       IN /\ resources' = (IF c.kind \in {"RemoveResource", "ReplaceResource"}
                           THEN resources \ {c.old} ELSE resources)
                          \cup (IF c.kind \in {"AddResource", "ReplaceResource"}
                                THEN {c.resource} ELSE {})
          /\ primary' # primary =>
                \/ primary' = c.resource
                \/ c.kind = "RemoveResource" /\ primary = c.old
          /\ primary' \in resources' \cup {None}
    /\ UNCHANGED <<command, outcome, opened, lifecycle, archived, assignment, available>>

(* What each kind of command asked for.                                    *)
Goal(op) ==
    LET c == command[op]
    IN CASE c.kind \in Activates -> Owns(op) /\ assignment.phase = "Runnable"
         [] c.kind = "Dispatch" -> assignment # None /\ assignment.phase = "Runnable"
         [] c.kind = "Open" -> lifecycle = "Open"
         [] c.kind = "Close" -> lifecycle = "Closed" /\ assignment = None
         [] c.kind = "Archive" -> archived /\ assignment = None
         [] c.kind = "Unarchive" -> ~archived
         [] c.kind \in {"AddResource", "ReplaceResource"} -> c.resource \in resources
         [] c.kind = "RemoveResource" -> c.old \notin resources
         [] c.kind = "SetPrimaryResource" -> primary = c.resource
         [] c.kind = "Retire" -> c.agent \notin available

(* Nothing half made: no assignment still being configured, no project     *)
(* left open by an activation that did not keep it.                        *)
Clean(op) ==
    /\ ~(Owns(op) /\ assignment.phase = "Configuring")
    /\ By(op, {"Activate"}) /\ opened[op] /\ lifecycle # "Closed" => Owns(op)

Report(op, result) ==
    /\ outcome[op] = "live"
    /\ result = "Completed" => Goal(op)
    /\ result = "Rejected" => Clean(op)
    /\ outcome' = [outcome EXCEPT ![op] = result]
    /\ UNCHANGED <<command, opened, lifecycle, archived, assignment, available, resources, primary>>

Next ==
    \E op \in Ops :
       \/ \E c \in Commands : Begin(op, c)
       \/ FindClosed(op) \/ MoveLifecycle(op) \/ MoveArchive(op)
       \/ MoveAssignment(op) \/ RetireAgent(op) \/ MoveResources(op)
       \/ \E result \in {"Completed", "Rejected"} : Report(op, result)

Spec == Init /\ [][Next]_vars
=============================================================================
