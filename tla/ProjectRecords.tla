--------------------------- MODULE ProjectRecords ---------------------------
(***************************************************************************)
(* The two durable records a project command works on, as operators:       *)
(*                                                                         *)
(*  - the saga row of the command (hq-projects workflow.rs) and the store's *)
(*    rule for replacing it (hq-store database/project_saga.rs), which      *)
(*    only lets a row advance;                                             *)
(*  - the canonical project (the reduced view of the project's facts) and   *)
(*    the decision whether a proposed mutation commits (hq-projects         *)
(*    canonical.rs), a compare-and-swap on the project's head.             *)
(*                                                                         *)
(* An assignment is named by the operation that configures it              *)
(* (derived_assignment), so assignment ids are members of Ops; Before is   *)
(* the operation of an assignment older than every modelled command.       *)
(***************************************************************************)
EXTENDS Naturals, FiniteSets

CONSTANTS Ops, Agents, Before, None

(* ProjectCommandStage with the numbers encode_stage gives the stages.     *)
StageNumber ==
    [Accepted |-> 1, ValidatingResources |-> 4, Opening |-> 5,
     ConfiguringAssignment |-> 6, StartingRuntime |-> 7,
     ValidatingLaunchDirectory |-> 8, MakingRunnable |-> 9,
     DispatchingInputs |-> 10, AssessingRelease |-> 11,
     QuiescingRuntime |-> 12, EndingAssignment |-> 13, Closing |-> 14,
     UpdatingProject |-> 15, IdentifyingResource |-> 19,
     Compensating |-> 21, Complete |-> 23]

Stages == DOMAIN StageNumber

(* SagaEffectState; the error an effect carries is left out.               *)
Effects == {"NotStarted", "Pending", "Accepted", "Rejected", "Uncertain"}

Live == {"Running", "Queued", "Reconcilable"}
Terminal == {"Completed", "Rejected"}

-----------------------------------------------------------------------------
(* The saga store.                                                         *)

state_advances(old, new) ==
    \/ /\ old.tag \in {"Queued", "Reconcilable"}
       /\ new.tag \in Live
       /\ StageNumber[new.stage] >= StageNumber[old.stage]
    \/ /\ old.tag = "Running"
       /\ new.tag \in {"Queued", "Running"}
       /\ StageNumber[new.stage] >= StageNumber[old.stage]
    \/ old.tag \in Live /\ new.tag \in Terminal
    \/ old.tag = "Running" /\ new.tag = "Reconcilable"
    \/ old.tag \in Terminal /\ new.tag = old.tag

(* Mutant: an unknown effect can no longer become known.                   *)
effect_stays_unknown(old, new) ==
    \/ old = "NotStarted"
    \/ old = "Pending" /\ new # "NotStarted"
    \/ old \in {"Uncertain", "Accepted", "Rejected"} /\ new = old

effect_advances(old, new) ==
    \/ old = "NotStarted"
    \/ old = "Pending" /\ new # "NotStarted"
    \/ old = "Uncertain" /\ new \in {"Uncertain", "Accepted", "Rejected"}
    \/ old \in {"Accepted", "Rejected"} /\ new = old

optional_advances(old, new) == old = None \/ new = old

(* The guard of replace: a row that fails it leaves the stored one as it   *)
(* is, and the workflow gets SagaStoreError::Conflict.                     *)
replace_accepts(old, new) ==
    /\ state_advances(old, new)
    /\ effect_advances(old.runtime_effect, new.runtime_effect)
    /\ effect_advances(old.dispatch_effect, new.dispatch_effect)
    /\ effect_advances(old.resource_effect, new.resource_effect)
    /\ optional_advances(old.runtime_operation, new.runtime_operation)
    /\ old.runtime_session => new.runtime_session
    /\ old.opened_by_workflow => new.opened_by_workflow
    /\ old.failure => new.failure

(* An operation without a row.                                             *)
NoRow == [tag |-> "absent"]

(* ProjectSagaRecord::from_request: the row a command starts with.         *)
from_request(command, head) ==
    [command |-> command, expected_head |-> head,
     tag |-> "Running", stage |-> "Accepted",
     runtime_operation |-> None, runtime_effect |-> "NotStarted",
     dispatch_effect |-> "NotStarted", resource_effect |-> "NotStarted",
     runtime_session |-> FALSE, opened_by_workflow |-> FALSE,
     failure |-> FALSE, pending |-> None]

-----------------------------------------------------------------------------
(* The canonical project.                                                  *)

(* CanonicalProjectMutation: the action, the head it expects, and what its *)
(* payload says: the assignment it names, whether it was forced (for an    *)
(* added resource: made primary), and the runtime observation it reports.  *)
Mutation(act, head, assignment, agent, forced, runtime) ==
    [act |-> act, head |-> head, assignment |-> assignment, agent |-> agent,
     forced |-> forced, runtime |-> runtime]

(* The mutations of the project's resources name what they add and drop.   *)
ResourceMutation(act, head, forced, resource, old) ==
    [act |-> act, head |-> head, assignment |-> None, agent |-> None,
     forced |-> forced, runtime |-> None, resource |-> resource, old |-> old]

ResourceActs == {"AddResource", "RemoveResource", "ReplaceResource", "SetPrimaryResource"}

(* can_mutate_resources and resource_payload.  Whether another project     *)
(* claims an added path is part of `claimable'.                            *)
resource_payload(view, m) ==
    /\ ~view.archived /\ view.lifecycle # "Closing"
    /\ \/ /\ m.act = "AddResource"
          /\ m.resource \notin view.resources
          /\ view.lifecycle = "Closed" \/ view.claimable
       \/ /\ m.act = "RemoveResource"
          /\ m.old \in view.resources
          /\ view.assignment = None \/ m.forced
       \/ /\ m.act = "ReplaceResource"
          /\ m.old \in view.resources /\ m.resource \notin view.resources \ {m.old}
          /\ view.lifecycle = "Closed" \/ view.claimable
       \/ /\ m.act = "SetPrimaryResource"
          /\ m.resource \in view.resources /\ view.primary # m.resource

Names(view, id) == view.assignment # None /\ view.assignment.id = id

(* build_plan and payload: whether the mutation is one the view admits.    *)
build_plan(view, m) ==
    /\ view.head = m.head
    /\ view.active_human
    /\ \/ /\ m.act = "Open"
          /\ view.lifecycle = "Closed" /\ ~view.archived /\ view.claimable
       \/ /\ m.act = "Configure"
          /\ view.lifecycle = "Open" /\ view.claimable
          /\ view.assignment = None /\ m.agent \in view.available
       \/ /\ m.act = "MakeRunnable"
          /\ view.lifecycle = "Open" /\ view.claimable
          /\ m.agent \in view.available
          /\ Names(view, m.assignment) /\ view.assignment.phase = "Configuring"
       \/ m.act \in {"EndAssignment", "BlockAssignment"}
          /\ Names(view, m.assignment)
       \/ m.act = "BeginClosing" /\ view.lifecycle = "Open"
       \/ /\ m.act = "FinishClosing"
          /\ view.lifecycle = "Closing" /\ view.assignment = None
       \/ /\ m.act = "Archive"
          /\ view.lifecycle = "Closed" /\ ~view.archived
          /\ view.assignment = None
       \/ m.act \in ResourceActs /\ resource_payload(view, m)
       \/ m.act = "Unarchive" /\ view.lifecycle = "Closed" /\ view.archived
       \/ /\ m.act = "RetireAgent"
          /\ m.agent \in view.available
          /\ (view.assignment # None => view.assignment.agent # m.agent)
       \/ /\ m.act = "RecordDispatch"
          /\ view.lifecycle = "Open" /\ view.claimable
          /\ Names(view, m.assignment) /\ view.assignment.phase = "Runnable"

(* The resources after the mutation's fact is reduced: the primary one     *)
(* follows a replacement, and another takes the place of a removed one.    *)
ReducedResources(view, m) ==
    CASE m.act = "AddResource" ->
           [view EXCEPT !.resources = @ \cup {m.resource},
                        !.primary = IF m.forced THEN m.resource ELSE @]
      [] m.act = "RemoveResource" ->
           LET left == view.resources \ {m.old}
           IN [view EXCEPT !.resources = left,
                           !.primary = CASE @ # m.old -> @
                                         [] @ = m.old /\ left = {} -> None
                                         [] OTHER -> CHOOSE r \in left : TRUE]
      [] m.act = "ReplaceResource" ->
           [view EXCEPT !.resources = (@ \ {m.old}) \cup {m.resource},
                        !.primary = IF @ = m.old THEN m.resource ELSE @]
      [] m.act = "SetPrimaryResource" -> [view EXCEPT !.primary = m.resource]

(* The view after the mutation's fact is reduced (hq-reducer project.rs).  *)
(* A retirement is a fact of the agent and leaves the project head alone.  *)
Reduced(view, m) ==
    LET moved == [view EXCEPT !.head = @ + 1]
        none  == [moved EXCEPT !.assignment = None]
    IN CASE m.act = "Open" -> [moved EXCEPT !.lifecycle = "Open"]
         [] m.act = "Configure" ->
              [moved EXCEPT !.assignment =
                 [id |-> m.assignment, agent |-> m.agent, phase |-> "Configuring"]]
         [] m.act = "MakeRunnable" -> [moved EXCEPT !.assignment.phase = "Runnable"]
         [] m.act = "BlockAssignment" -> [moved EXCEPT !.assignment.phase = "Blocked"]
         [] m.act = "EndAssignment" ->
              [none EXCEPT !.ended = @ \cup {[id |-> m.assignment,
                 forced |-> m.forced, runtime |-> m.runtime]}]
         [] m.act = "BeginClosing" -> [moved EXCEPT !.lifecycle = "Closing"]
         [] m.act = "FinishClosing" -> [moved EXCEPT !.lifecycle = "Closed"]
         [] m.act = "Archive" -> [moved EXCEPT !.archived = TRUE]
         [] m.act = "Unarchive" -> [moved EXCEPT !.archived = FALSE]
         [] m.act \in ResourceActs -> ReducedResources(moved, m)
         [] m.act = "RetireAgent" -> [view EXCEPT !.available = @ \ {m.agent}]
         [] m.act = "RecordDispatch" -> [moved EXCEPT !.dispatched = @ + 1]

(* Mutant: a stop without an answer is reported as a success.              *)
UnknownIsSuccess(effect) ==
    CASE effect = "NotStarted" -> None
      [] effect = "Rejected" -> "Failed"
      [] OTHER -> "Succeeded"

(* close_runtime_observation: what an assignment end reports of the stop.  *)
Observation(effect) ==
    CASE effect = "NotStarted" -> None
      [] effect = "Accepted" -> "Succeeded"
      [] effect = "Rejected" -> "Failed"
      [] effect = "Uncertain" -> "Uncertain"
=============================================================================
