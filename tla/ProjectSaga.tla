----------------------------- MODULE ProjectSaga -----------------------------
(***************************************************************************)
(* ProjectWorkflowManager (hq-projects workflow.rs): the commands of one   *)
(* existing project, each a saga whose row is persisted around every       *)
(* external effect and every canonical mutation, so that a crash or a lost *)
(* answer can be repaired by running the row again.                        *)
(*                                                                         *)
(* One worker runs at a time (the project component holds it behind a      *)
(* mutex).  `w' is its volatile state: the row in memory, the snapshot     *)
(* this advance read, the reply of the last call and `at', the place in    *)
(* the advance.  A step is one persisted row, one external call or one     *)
(* canonical transaction; between any two of them a port or the store may  *)
(* answer with an error (Interrupt) or the process may die (Restart).      *)
(***************************************************************************)
EXTENDS ProjectRecords

CONSTANTS Commands,     \* the commands clients may issue
          InitialViews, \* canonical projects a behaviour may start from
          MaxFaults,    \* interruptions and unknown answers
          MaxForeign,   \* canonical changes made by other parts of the node
          MaxInputs,    \* inputs accepted into the project
          MaxAttempts   \* RuntimeRecoveryPolicy::max_attempts

VARIABLES sagas,    \* the saga rows (durable)
          view,     \* the canonical project (durable)
          receipts, \* the last mutation decided for each operation (durable)
          episodes, \* runtime recovery episodes (durable)
          ledger,   \* the harness's delivery records (durable)
          running,  \* the worker of each agent: the assignment it serves
          stops,    \* hints of workers that ended by themselves, not yet taken
          w,        \* the workflow worker
          faults, foreign

vars == <<sagas, view, receipts, episodes, ledger, running, stops, w, faults, foreign>>

Inputs == 1..MaxInputs
Assignments == Ops \cup {Before}

Idle == [op |-> None, rec |-> None, at |-> "idle", snap |-> None,
         reply |-> None, done |-> None, replay |-> FALSE, rounds |-> 0]

Loaded(op, r) == [Idle EXCEPT !.op = op, !.rec = r, !.at = "run"]

(* A worker serves the assignment the initial project has, if any.         *)
Init ==
    /\ view \in InitialViews
    /\ sagas = [op \in Ops |-> NoRow]
    /\ receipts = [op \in Ops |-> None]
    /\ episodes = [e \in Assignments \X Inputs |-> None]
    /\ ledger = [d \in Agents \X Inputs |-> None]
    /\ running = [a \in Agents |->
                    IF view.assignment # None /\ view.assignment.agent = a
                    THEN view.assignment.id ELSE None]
    /\ stops = {}
    /\ w = Idle
    /\ faults = 0
    /\ foreign = 0

rec == w.rec
kind == w.rec.command.kind
force == w.rec.command.force
agent == w.rec.command.agent
At(place) == w.at = place
AtStage(place, stage) == w.at = place /\ w.rec.stage = stage

Activates == {"Activate", "Handoff"}
Closes == {"Close", "Archive"}
Identifies == {"AddResource", "ReplaceResource"}
Direct == {"Open"} \cup ResourceActs

Running(r, stage) == [r EXCEPT !.tag = "Running", !.stage = stage]
Rejected(r) == [r EXCEPT !.tag = "Rejected", !.stage = "Complete"]
Completed(r) == [r EXCEPT !.tag = "Completed", !.stage = "Complete"]
Queued(r) == [r EXCEPT !.tag = "Queued"]
Reconcilable(r) == [r EXCEPT !.tag = "Reconcilable"]

(* persist: the store accepts the row, or the run ends with an error.      *)
persist(r, next) ==
    IF replace_accepts(sagas[w.op], r)
    THEN sagas' = [sagas EXCEPT ![w.op] = r] /\ w' = next
    ELSE sagas' = sagas /\ w' = Idle

Save(r, at) == persist(r, [w EXCEPT !.rec = r, !.at = at])

(* The last persist of an advance: run goes on while the row is Running.   *)
EndAdvance(r) ==
    persist(r, IF r.tag = "Running" THEN Loaded(w.op, r) ELSE Idle)

(* An advance that returns an error: the row stays as it was persisted.    *)
Fail == sagas' = sagas /\ w' = Idle

(* compensate: the cause is retained and the stage persisted before any    *)
(* undo; a runtime this command started is stopped first.                  *)
compensate(r) ==
    Save([Running(r, "Compensating") EXCEPT !.failure = TRUE],
         IF r.runtime_session THEN "call" ELSE "undo")

(* mutate: the exact mutation is persisted before it is attempted.         *)
mutate(r, m) ==
    LET q == [r EXCEPT !.pending = m]
    IN persist(q, [w EXCEPT !.rec = q, !.at = "commit", !.done = m])

external == <<view, receipts, episodes, ledger, running, stops, faults, foreign>>

-----------------------------------------------------------------------------
(* Commands and repair.                                                    *)

(* Mutant: only a row that is Running keeps other commands out.            *)
busy_while_running == \E op \in Ops : sagas[op].tag = "Running"

project_is_busy == \E op \in Ops : sagas[op].tag \in Live

(* control: begin inserts the row unless the project has a live one.  The  *)
(* client read the head it expects from the current project.               *)
Control(op, command) ==
    /\ w = Idle
    /\ sagas[op] = NoRow
    /\ ~project_is_busy
    /\ LET r == from_request(command, view.head)
       IN /\ sagas' = [sagas EXCEPT ![op] = r]
          /\ w' = Loaded(op, r)
    /\ UNCHANGED external

(* repair and a client's repeated command load a live row: on a control    *)
(* signal, a revision of the store or a start of the component, and at no  *)
(* time of its own.                                                        *)
Resume(op) ==
    /\ w = Idle
    /\ sagas[op].tag \in Live
    /\ w' = Loaded(op, sagas[op])
    /\ UNCHANGED <<sagas, external>>

-----------------------------------------------------------------------------
(* The first advance of a command: its preconditions.                      *)

Assigned(v) == v.assignment # None

(* Mutant: an activation no longer asks whether the project is assigned.   *)
accept_assigned(v) ==
    ~v.archived /\ v.claimable /\ agent \in v.available /\ v.lifecycle # "Closing"

accept_activation(v) ==
    /\ ~v.archived /\ v.claimable /\ agent \in v.available
    /\ v.lifecycle # "Closing" /\ ~Assigned(v)

accept_handoff(v) ==
    /\ ~v.archived /\ v.lifecycle = "Open" /\ v.claimable
    /\ Assigned(v)
    /\ v.assignment.agent # agent
    /\ v.assignment.phase = "Blocked" => force
    /\ agent \in v.available

accept_retirement(v) ==
    /\ agent \in v.available
    /\ (Assigned(v) /\ v.assignment.agent = agent) =>
          v.lifecycle = "Open" /\ (v.assignment.phase = "Blocked" => force)

accept_close(v) ==
    /\ ~v.archived
    /\ v.lifecycle = "Closed" => kind = "Archive"

(* direct_precondition_error: Open and the mutations of resources.         *)
accept_direct(v) ==
    LET c == rec.command
    IN /\ ~v.archived /\ v.lifecycle # "Closing"
       /\ kind = "Open" => v.lifecycle = "Closed" /\ v.claimable
       /\ kind = "AddResource" => c.resource \notin v.resources
       /\ kind = "RemoveResource" => c.old \in v.resources /\ (Assigned(v) => force)
       /\ kind = "ReplaceResource" =>
             c.old \in v.resources /\ c.resource \notin v.resources \ {c.old}
       /\ kind = "SetPrimaryResource" => c.resource \in v.resources

Accepts(v) ==
    /\ v.head = rec.expected_head
    /\ v.active_human
    /\ kind = "Activate" => accept_activation(v)
    /\ kind = "Handoff" => accept_handoff(v)
    /\ kind = "Retire" => accept_retirement(v)
    /\ kind \in Closes => accept_close(v)
    /\ kind \in Direct => accept_direct(v)

FirstStage(v) ==
    CASE kind \in {"Activate", "Open"} -> "ValidatingResources"
      [] kind = "Handoff" -> "QuiescingRuntime"
      [] kind = "Retire" -> IF Assigned(v) /\ v.assignment.agent = agent
                            THEN "QuiescingRuntime" ELSE "UpdatingProject"
      [] kind \in Closes -> IF v.lifecycle = "Closed"
                            THEN "UpdatingProject" ELSE "AssessingRelease"
      [] kind \in Identifies -> "IdentifyingResource"
      [] kind \in {"Unarchive", "RemoveResource", "SetPrimaryResource"} -> "UpdatingProject"

AcceptCommand ==
    /\ AtStage("run", "Accepted")
    /\ rec.pending = None /\ kind # "Dispatch"
    /\ EndAdvance(IF Accepts(view) THEN Running(rec, FirstStage(view))
                  ELSE Rejected(rec))
    /\ UNCHANGED external

-----------------------------------------------------------------------------
(* External effects: the effect is Pending in the row before the call, and *)
(* the answer is persisted after it.                                       *)

(* The operation a runtime effect is performed under.                      *)
RuntimeOperation ==
    CASE rec.stage = "StartingRuntime" -> "runtime"
      [] kind \in Closes -> "close-runtime"
      [] OTHER -> "assignment-quiescence"

Calling(r) == [w EXCEPT !.rec = r, !.at = "call", !.snap = view]

BeginResourceEffect ==
    /\ \/ AtStage("run", "ValidatingResources")
       \/ AtStage("run", "AssessingRelease")
       \/ AtStage("run", "IdentifyingResource")
    /\ rec.pending = None
    /\ IF rec.resource_effect = "NotStarted"
       THEN LET r == [rec EXCEPT !.resource_effect = "Pending"]
            IN persist(r, Calling(r))
       ELSE w' = Calling(rec) /\ UNCHANGED sagas
    /\ UNCHANGED external

BeginRuntimeEffect ==
    /\ \/ AtStage("run", "StartingRuntime")
       \/ AtStage("run", "QuiescingRuntime") /\ Assigned(view)
          /\ (kind \in Closes => view.lifecycle = "Closing")
    /\ rec.pending = None
    /\ LET r == [rec EXCEPT !.runtime_operation = RuntimeOperation,
                            !.runtime_effect = IF @ = "NotStarted"
                                               THEN "Pending" ELSE @]
       IN IF rec.runtime_effect = "NotStarted"
          THEN persist(r, Calling(r))
          ELSE w' = Calling(r) /\ UNCHANGED sagas
    /\ UNCHANGED external

(* A quiescence with nothing to stop: a close goes on, a handoff is        *)
(* rejected, a retirement fails as corrupt.                                *)
NothingToQuiesce ==
    /\ AtStage("run", "QuiescingRuntime")
    /\ rec.pending = None
    /\ ~Assigned(view) \/ (kind \in Closes /\ view.lifecycle # "Closing")
    /\ IF kind = "Retire" THEN Fail
       ELSE EndAdvance(IF kind \in Closes /\ view.lifecycle = "Closing"
                       THEN Running(rec, "Closing") ELSE Rejected(rec))
    /\ UNCHANGED external

BeginLaunchValidation ==
    /\ AtStage("run", "ValidatingLaunchDirectory")
    /\ rec.pending = None
    /\ w' = Calling(rec)
    /\ UNCHANGED <<sagas, external>>

(* An answer; an unknown one is a fault.                                   *)
Answer(reply) ==
    /\ w' = [w EXCEPT !.at = "reply", !.reply = reply]
    /\ reply = "Uncertain" => faults < MaxFaults
    /\ faults' = faults + (IF reply = "Uncertain" THEN 1 ELSE 0)

(* validate_resources, identify_resource, validate_launch_directory and    *)
(* assess_release observe the file system and change nothing.              *)
ObserveResources ==
    /\ \/ /\ \/ AtStage("call", "ValidatingResources")
             \/ AtStage("call", "ValidatingLaunchDirectory")
          /\ \E reply \in {"Healthy", "Bad", "Uncertain"} : Answer(reply)
       \/ /\ AtStage("call", "IdentifyingResource")
          /\ \E reply \in {"Healthy", "Bad", "Rejected", "Uncertain"} : Answer(reply)
       \/ /\ AtStage("call", "AssessingRelease")
          /\ \E reply \in {"Clear", "Changed", "Rejected", "Uncertain"}
                   \cup (IF force THEN {} ELSE {"ForceRequired"}) : Answer(reply)
    /\ UNCHANGED <<sagas, view, receipts, episodes, ledger, running, stops, foreign>>

(* start_or_resume.  The supervisor answers a launch for an agent that has *)
(* a worker with an error, be it the one of this command's own lost start, *)
(* and the workflow takes every error for an unknown answer.  A session    *)
(* other than the one to resume is such an error too (HarnessRegistry).    *)
StartRuntime ==
    /\ AtStage("call", "StartingRuntime")
    /\ LET started == [running EXCEPT ![agent] = w.op]
       IN IF running[agent] # None
          THEN /\ w' = [w EXCEPT !.at = "reply", !.reply = "Uncertain"]
               /\ UNCHANGED <<running, faults>>
          ELSE \/ Answer("Accepted") /\ running' = started
               \/ Answer("Rejected") /\ UNCHANGED running
               \/ Answer("Uncertain") /\ running' \in {running, started}
    /\ UNCHANGED <<sagas, view, receipts, episodes, ledger, stops, foreign>>

(* stop: of the assigned agent's worker, or of this command's own.  With   *)
(* no worker of the agent the supervisor answers with an error, which ends *)
(* the advance.  Refusals and unknown answers are the port's to give.      *)
StopRuntime ==
    /\ \/ AtStage("call", "QuiescingRuntime")
       \/ AtStage("call", "Compensating")
    /\ LET a == IF rec.stage = "Compensating" THEN agent
                ELSE w.snap.assignment.agent
           stopped == [running EXCEPT ![a] = None]
       IN IF running[a] = None
          THEN Fail /\ UNCHANGED <<running, faults>>
          ELSE \/ Answer("Accepted") /\ running' = stopped
               \/ Answer("Rejected") /\ UNCHANGED running
               \/ Answer("Uncertain") /\ running' \in {running, stopped}
    /\ UNCHANGED <<sagas, view, receipts, episodes, ledger, stops, foreign>>

-----------------------------------------------------------------------------
(* Answers.                                                                *)

Unknown == w.reply = "Uncertain"

ResourcesValidated ==
    /\ AtStage("reply", "ValidatingResources")
    /\ LET accepted == [rec EXCEPT !.resource_effect = "Accepted"]
       IN \/ w.reply = "Healthy" /\ kind = "Open" /\ Save(accepted, "then")
          \/ w.reply = "Healthy" /\ kind # "Open" /\ EndAdvance(Running(accepted, "Opening"))
          \/ w.reply = "Bad" /\ kind = "Open" /\ EndAdvance(Rejected(rec))
          \/ w.reply = "Bad" /\ kind # "Open" /\ compensate(rec)
          \/ Unknown /\ EndAdvance(
                 Reconcilable([rec EXCEPT !.resource_effect = "Uncertain"]))
    /\ UNCHANGED external

(* The commands that add a path: the effect's acceptance is persisted with *)
(* the pending mutation.                                                   *)
ResourceIdentified ==
    /\ AtStage("reply", "IdentifyingResource")
    /\ LET c == rec.command
       IN \/ /\ w.reply = "Healthy"
             /\ mutate([rec EXCEPT !.resource_effect = "Accepted"],
                       ResourceMutation(kind, w.snap.head, force, c.resource, c.old))
          \/ w.reply = "Bad" /\ EndAdvance(Rejected(rec))
          \/ w.reply = "Rejected" /\ EndAdvance(
                 Rejected([rec EXCEPT !.resource_effect = "Rejected"]))
          \/ Unknown /\ EndAdvance(
                 Reconcilable([rec EXCEPT !.resource_effect = "Uncertain"]))
    /\ UNCHANGED external

ReleaseAssessed ==
    /\ AtStage("reply", "AssessingRelease")
    /\ LET known(effect) == [rec EXCEPT !.resource_effect = effect]
       IN \/ w.reply = "Clear" /\ Save(known("Accepted"), "then")
          \/ w.reply \in {"Rejected", "Uncertain"} /\ force /\ Save(known(w.reply), "then")
          \/ Unknown /\ ~force /\ EndAdvance(Reconcilable(known("Uncertain")))
          \/ w.reply = "Rejected" /\ ~force /\ EndAdvance(Rejected(rec))
          \/ w.reply \in {"Changed", "ForceRequired"} /\ EndAdvance(Rejected(rec))
    /\ UNCHANGED external

RuntimeStarted ==
    /\ AtStage("reply", "StartingRuntime")
    /\ \/ /\ w.reply = "Accepted"
          /\ EndAdvance(Running([rec EXCEPT !.runtime_session = TRUE,
                                            !.runtime_effect = "Accepted"],
                                "ValidatingLaunchDirectory"))
       \/ w.reply = "Rejected" /\ compensate(rec)
       \/ Unknown /\ EndAdvance(
              Reconcilable([rec EXCEPT !.runtime_effect = "Uncertain"]))
    /\ UNCHANGED external

LaunchDirectoryValidated ==
    /\ AtStage("reply", "ValidatingLaunchDirectory")
    /\ \/ w.reply = "Healthy" /\ EndAdvance(Running(rec, "MakingRunnable"))
       \/ w.reply = "Bad" /\ compensate(rec)
       \/ Unknown /\ EndAdvance(Reconcilable(rec))
    /\ UNCHANGED external

graceful == w.reply # "Accepted" /\ ~force

(* observe_assignment_stop: a handoff or a retirement goes on whatever the *)
(* answer, and blocks the assignment if it was not the one it needed.      *)
AssignmentStopped ==
    /\ AtStage("reply", "QuiescingRuntime") /\ kind \notin Closes
    /\ Save([rec EXCEPT !.runtime_effect = w.reply,
                        !.failure = @ \/ graceful], "then")
    /\ UNCHANGED external

(* quiesce_close_runtime.                                                  *)
CloseQuiesced ==
    /\ AtStage("reply", "QuiescingRuntime") /\ kind \in Closes
    /\ LET observed == [rec EXCEPT !.runtime_effect = w.reply]
       IN \/ ~graceful /\ Save(observed, "then")
          \/ graceful /\ Unknown /\ EndAdvance(Reconcilable(observed))
          \/ graceful /\ ~Unknown /\ EndAdvance(Rejected(rec))
    /\ UNCHANGED external

CompensationStopped ==
    /\ AtStage("reply", "Compensating")
    /\ IF Unknown THEN EndAdvance(Reconcilable(rec))
       ELSE w' = [w EXCEPT !.at = "undo"] /\ UNCHANGED sagas
    /\ UNCHANGED external

Propose(v, act, assignment, a, forced, runtime) ==
    mutate(rec, Mutation(act, v.head, assignment, a, forced, runtime))

(* What follows an effect that was just persisted, in the same advance.    *)
begin_or_resume_closing ==
    /\ AtStage("then", "AssessingRelease")
    /\ IF w.snap.lifecycle = "Closing"
       THEN EndAdvance(Running(rec, "QuiescingRuntime"))
       ELSE Propose(w.snap, "BeginClosing", None, None, FALSE, None)
    /\ UNCHANGED external

AfterStop ==
    /\ AtStage("then", "QuiescingRuntime")
    /\ IF kind \in Closes
       THEN Propose(w.snap, "EndAssignment", w.snap.assignment.id, None,
                    rec.runtime_effect # "Accepted", Observation(rec.runtime_effect))
       ELSE EndAdvance(Running(rec, "EndingAssignment"))
    /\ UNCHANGED external

ProposeOpen ==
    /\ AtStage("then", "ValidatingResources") \/ AtStage("then", "Opening")
    /\ Propose(w.snap, "Open", None, None, FALSE, None)
    /\ UNCHANGED external

-----------------------------------------------------------------------------
(* Canonical mutations: the stages whose advance proposes one, or finds it *)
(* made.                                                                   *)

Advances(stage) == AtStage("run", stage) /\ rec.pending = None

AdvanceOpening ==
    /\ Advances("Opening")
    /\ IF view.lifecycle # "Closed"
       THEN EndAdvance(Running(rec, "ConfiguringAssignment"))
       ELSE LET r == [rec EXCEPT !.opened_by_workflow = TRUE]
            IN persist(r, [w EXCEPT !.rec = r, !.at = "then", !.snap = view])
    /\ UNCHANGED external

AdvanceConfiguring ==
    /\ Advances("ConfiguringAssignment")
    /\ IF Assigned(view)
       THEN EndAdvance(IF Names(view, w.op) THEN Running(rec, "StartingRuntime")
                       ELSE Rejected(rec))
       ELSE Propose(view, "Configure", w.op, agent, FALSE, None)
    /\ UNCHANGED external

AdvanceMakingRunnable ==
    /\ Advances("MakingRunnable")
    /\ IF Names(view, w.op) /\ view.assignment.phase = "Runnable"
       THEN EndAdvance(Running(rec, "DispatchingInputs"))
       ELSE Propose(view, "MakeRunnable", w.op, agent, FALSE, None)
    /\ UNCHANGED external

(* commit_handoff_resolution and commit_retirement_assignment.             *)
commit_assignment_resolution ==
    /\ Advances("EndingAssignment")
    /\ \/ ~Assigned(view) /\ Fail
       \/ /\ Assigned(view) /\ rec.failure
          /\ Propose(view, "BlockAssignment", view.assignment.id, None, FALSE, None)
       \/ /\ Assigned(view) /\ ~rec.failure
          /\ Propose(view, "EndAssignment", view.assignment.id, None,
                     force /\ rec.runtime_effect # "Accepted",
                     Observation(rec.runtime_effect))
    /\ UNCHANGED external

AdvanceClosing ==
    /\ Advances("Closing")
    /\ Propose(view, "FinishClosing", None, None, force, Observation(rec.runtime_effect))
    /\ UNCHANGED external

(* The mutation that ends a command.                                       *)
AdvanceUpdating ==
    /\ Advances("UpdatingProject")
    /\ LET c == rec.command
       IN \/ kind = "Retire" /\ Propose(view, "RetireAgent", None, agent, FALSE, None)
          \/ /\ kind \in {"Archive", "Unarchive"}
             /\ Propose(view, kind, None, None, FALSE, None)
          \/ /\ kind \in ResourceActs
             /\ mutate(rec, ResourceMutation(kind, view.head, force, c.resource, c.old))
    /\ UNCHANGED external

(* A row whose mutation is still pending is replayed before anything else. *)
Replay ==
    /\ At("run")
    /\ rec.pending # None
    /\ rec.stage # "Compensating"
    /\ w' = [w EXCEPT !.at = "commit", !.done = rec.pending, !.replay = TRUE]
    /\ UNCHANGED <<sagas, external>>

(* A loaded row that was compensating compensates again from the start.    *)
Recompensate ==
    /\ AtStage("run", "Compensating")
    /\ compensate(rec)
    /\ UNCHANGED external

(* Mutant: one round fewer.                                                *)
ThreeRounds == 3

(* One of at most four rounds of compensation: what is left to undo.       *)
MaxRounds == 4

Undo ==
    /\ AtStage("undo", "Compensating")
    /\ LET v == view
           reopened == rec.opened_by_workflow /\ v.lifecycle # "Closed"
           Round(act, assignment) ==
               LET m == Mutation(act, v.head, assignment, None, FALSE, None)
                   q == [rec EXCEPT !.pending = m]
               IN persist(q, [w EXCEPT !.rec = q, !.at = "commit", !.done = m,
                                       !.rounds = @ + 1])
       IN IF w.rounds = MaxRounds THEN Fail
          ELSE \/ /\ ~Assigned(v) /\ ~reopened
                  /\ EndAdvance(Rejected(rec))
               \/ /\ rec.pending # None /\ (Assigned(v) \/ reopened)
                  /\ w' = [w EXCEPT !.at = "commit", !.done = rec.pending,
                                    !.rounds = @ + 1]
                  /\ UNCHANGED sagas
               \/ /\ rec.pending = None /\ Assigned(v)
                  /\ Round("EndAssignment", v.assignment.id)
               \/ /\ rec.pending = None /\ ~Assigned(v) /\ reopened
                  /\ Round(IF v.lifecycle = "Open" THEN "BeginClosing"
                           ELSE "FinishClosing", None)
    /\ UNCHANGED external

(* canonical.mutate: one transaction decides the mutation, once for each   *)
(* mutation (command id and digest), and keeps the outcome as its receipt. *)
Decided(m) == receipts[w.op] # None /\ receipts[w.op].m = m

Decide(m) ==
    LET outcome == IF build_plan(view, m) THEN "Committed" ELSE "Rejected"
    IN IF Decided(m) THEN UNCHANGED <<view, receipts>>
       ELSE /\ receipts' = [receipts EXCEPT ![w.op] = [m |-> m, outcome |-> outcome]]
            /\ view' = IF outcome = "Committed" THEN Reduced(view, m) ELSE view

Commit ==
    /\ At("commit")
    /\ \/ /\ Decide(w.done)
          /\ w' = [w EXCEPT !.at = "finish", !.reply = receipts'[w.op].outcome]
          /\ UNCHANGED faults
       \/ /\ faults < MaxFaults
          /\ Decide(w.done) \/ UNCHANGED <<view, receipts>>
          /\ w' = [w EXCEPT !.at = "finish", !.reply = "Uncertain"]
          /\ faults' = faults + 1
    /\ UNCHANGED <<sagas, episodes, ledger, running, stops, foreign>>

(* A recovery episode of this project that the canonical project no longer *)
(* justifies: its assignment is not the runnable one, or its input is not  *)
(* pending.                                                                *)
Active(e) == episodes[e] # None
             /\ episodes[e].state \in {"Waiting", "Attempting", "Blocked", "Ready"}

Eligible(e) ==
    /\ view.lifecycle = "Open" /\ ~view.archived /\ view.claimable
    /\ Names(view, e[1]) /\ view.assignment.phase = "Runnable"
    /\ e[2] > view.dispatched /\ e[2] <= view.accepted

StaleEpisodes == {e \in Assignments \X Inputs : Active(e) /\ ~Eligible(e)}

Set(e, state) == [episodes EXCEPT ![e].state = state, ![e].due = FALSE]

cancel_stale_recovery ==
    episodes' = [e \in Assignments \X Inputs |->
                   IF e \in StaleEpisodes
                   THEN [episodes[e] EXCEPT !.state = "Cancelled", !.due = FALSE]
                   ELSE episodes[e]]

Releases == {"EndAssignment", "BlockAssignment", "BeginClosing",
             "FinishClosing", "Archive"}

(* finish_canonical_attempt: recovery follows the committed fact, and a    *)
(* definite outcome clears the pending mutation.                           *)
Finish ==
    /\ At("finish")
    /\ LET committed == w.reply = "Committed"
           act == w.done.act
           e == <<w.done.assignment, view.dispatched>>
       IN \/ /\ committed /\ act = "RecordDispatch"
             /\ episodes' = IF Active(e) THEN Set(e, "Completed") ELSE episodes
          \/ committed /\ act \in Releases /\ cancel_stale_recovery
          \/ /\ committed => act \notin Releases \cup {"RecordDispatch"}
             /\ UNCHANGED episodes
    /\ IF w.reply = "Uncertain"
       THEN w' = [w EXCEPT !.at = "after"] /\ UNCHANGED sagas
       ELSE Save([rec EXCEPT !.pending = None], "after")
    /\ UNCHANGED <<view, receipts, ledger, running, stops, faults, foreign>>

(* What a committed mutation leads to, by command and mutation.            *)
NextStage(act) ==
    CASE act = "Open" /\ kind \in Activates -> "ConfiguringAssignment"
      [] act = "Configure" -> "StartingRuntime"
      [] act \in {"MakeRunnable", "RecordDispatch"} -> "DispatchingInputs"
      [] act = "BeginClosing" -> "QuiescingRuntime"
      [] act = "EndAssignment" /\ kind \in Closes -> "Closing"
      [] act = "EndAssignment" /\ kind = "Handoff" -> "ValidatingResources"
      [] act = "EndAssignment" /\ kind = "Retire" -> "UpdatingProject"
      [] act = "FinishClosing" /\ kind = "Archive" -> "UpdatingProject"
      [] OTHER -> "Complete"

(* finish_handoff_mutation forgets the stop, so that the start can use the *)
(* row's runtime effect.                                                   *)
Continued(act) ==
    CASE kind = "Handoff" /\ act = "EndAssignment" ->
           [rec EXCEPT !.runtime_operation = None,
                       !.runtime_effect = "NotStarted",
                       !.runtime_session = FALSE]
      [] act = "RecordDispatch" /\ ~w.replay ->
           [rec EXCEPT !.dispatch_effect = "Accepted"]
      [] OTHER -> rec

(* The stages of an activation that a replayed mutation leaves for another *)
(* advance, which finds the mutation made.                                 *)
Reentered == {"Opening", "ConfiguringAssignment", "MakingRunnable"}

MutationCommitted ==
    /\ At("after") /\ w.reply = "Committed"
    /\ LET act == w.done.act
           next == NextStage(act)
           again == rec.stage \in Reentered /\ w.replay
       IN IF rec.stage = "Compensating"
          THEN w' = [w EXCEPT !.at = "undo"] /\ UNCHANGED sagas
          ELSE EndAdvance(CASE act = "BlockAssignment" -> Rejected(rec)
                            [] again -> Running(rec, rec.stage)
                            [] ~again /\ next = "Complete" -> Completed(rec)
                            [] OTHER -> Running(Continued(act), next))
    /\ UNCHANGED external

(* An activation compensates for a refusal while it brings the assignment  *)
(* up, and for a refused replay at every later stage too.                  *)
Compensates ==
    {"ConfiguringAssignment", "MakingRunnable"}
    \cup (IF w.replay /\ kind \in Activates THEN {"DispatchingInputs"} ELSE {})

MutationRejected ==
    /\ At("after") /\ w.reply = "Rejected"
    /\ IF rec.stage \in Compensates
       THEN compensate(rec)
       ELSE EndAdvance(IF rec.stage = "Compensating" THEN Reconcilable(rec)
                       ELSE Rejected(rec))
    /\ UNCHANGED external

MutationUnknown ==
    /\ At("after") /\ w.reply = "Uncertain"
    /\ EndAdvance(Reconcilable(rec))
    /\ UNCHANGED external
=============================================================================
