--------------------------- MODULE ProjectDispatch ---------------------------
(***************************************************************************)
(* The rest of the project workflow and the whole of it as one machine:    *)
(* the dispatch of pending inputs (advance_dispatch), with the recovery     *)
(* episode that bounds how often one input may try to get its runtime       *)
(* ready (hq-projects recovery_execution.rs, hq-store project_recovery.rs), *)
(* and the delivery ledger of the harness the input goes to, by what        *)
(* advance_dispatch may learn of it.                                       *)
(***************************************************************************)
EXTENDS ProjectSaga

-----------------------------------------------------------------------------
(* Dispatch: the pending inputs go to the runnable assignment in order,    *)
(* each under one recovery episode that bounds the attempts to get its     *)
(* runtime ready.                                                          *)

Dispatching ==
    /\ At("run") /\ rec.pending = None
    /\ rec.stage = "DispatchingInputs" \/ (rec.stage = "Accepted" /\ kind = "Dispatch")

(* The snapshot this advance works from is read before stale recovery is   *)
(* cancelled, which reads the project again.                               *)
ReadProject ==
    /\ Dispatching
    /\ w' = [w EXCEPT !.at = "stale", !.snap = view]
    /\ UNCHANGED <<sagas, external>>

CancelStale ==
    /\ At("stale")
    /\ cancel_stale_recovery
    /\ w' = [w EXCEPT !.at = "select"]
    /\ UNCHANGED <<sagas, view, receipts, ledger, running, stops, faults, foreign>>

IsRunnable(v) ==
    /\ Assigned(v) /\ v.assignment.phase = "Runnable"
    /\ v.lifecycle = "Open" /\ v.claimable

NextInput(v) == v.dispatched + 1    \* the first pending input
HasInput(v) == v.dispatched < v.accepted

Episode == <<w.snap.assignment.id, NextInput(w.snap)>>
Delivery == <<w.snap.assignment.agent, NextInput(w.snap)>>

(* same_project_delivery: the retained row is of this operation and        *)
(* assignment.                                                             *)
same_project_delivery ==
    /\ ledger[Delivery] # None
    /\ ledger[Delivery].op = w.op
    /\ ledger[Delivery].assignment = w.snap.assignment.id

delivery_accepted == same_project_delivery /\ ledger[Delivery].state = "Accepted"

(* The target of the next input, or the end of the dispatch.  An input the *)
(* harness already accepted under this operation needs no runtime.         *)
SelectInput ==
    /\ At("select")
    /\ LET v == w.snap
           to(at) == w' = [w EXCEPT !.at = at] /\ UNCHANGED sagas
       IN IF rec.stage = "Accepted"
          THEN EndAdvance(IF Accepts(v) THEN Running(rec, "DispatchingInputs")
                          ELSE Rejected(rec))
          ELSE \/ ~IsRunnable(v) /\ EndAdvance(Rejected(rec))
               \/ IsRunnable(v) /\ ~HasInput(v) /\ EndAdvance(Completed(rec))
               \/ /\ IsRunnable(v) /\ HasInput(v) /\ delivery_accepted
                  /\ to("deliver")
               \/ /\ IsRunnable(v) /\ HasInput(v) /\ ~delivery_accepted
                  /\ IF v.active_human /\ ~v.archived THEN to("prepare")
                     ELSE EndAdvance(Rejected(rec))
    /\ UNCHANGED external

(* prepare_dispatch_runtime: the launch directory is validated first, and  *)
(* the harness must be there to ask.                                       *)
Prepare ==
    /\ At("prepare")
    /\ \/ w' = [w EXCEPT !.at = "admit"] /\ UNCHANGED <<sagas, faults>>
       \/ EndAdvance(Rejected(rec)) /\ UNCHANGED faults
       \/ /\ faults < MaxFaults
          /\ faults' = faults + 1
          /\ EndAdvance(Reconcilable(rec))
    /\ UNCHANGED <<view, receipts, episodes, ledger, running, stops, foreign>>

-----------------------------------------------------------------------------
(* Recovery: admit takes one due attempt of the input's episode.           *)

Waiting(op) == [op |-> op, state |-> "Waiting", due |-> TRUE, attempts |-> 0]

compare_exchange(e, record) == episodes' = [episodes EXCEPT ![e] = record]

(* Mutant: a cancelled episode is opened again, with a new budget.         *)
ReopenEpisode ==
    /\ At("admit")
    /\ episodes[Episode] # None => episodes[Episode].state = "Cancelled"
    /\ IF \E e \in DOMAIN episodes : Active(e)
       THEN Fail /\ UNCHANGED episodes
       ELSE compare_exchange(Episode, Waiting(w.op)) /\ UNCHANGED <<sagas, w>>
    /\ UNCHANGED <<view, receipts, ledger, running, stops, faults, foreign>>

OpenEpisode ==
    /\ At("admit") /\ episodes[Episode] = None
    /\ IF \E e \in DOMAIN episodes : Active(e)
       THEN Fail /\ UNCHANGED episodes
       ELSE compare_exchange(Episode, Waiting(w.op)) /\ UNCHANGED <<sagas, w>>
    /\ UNCHANGED <<view, receipts, ledger, running, stops, faults, foreign>>

exhausted(e) == e.attempts >= MaxAttempts

(* An episode belongs to the command that opened it; no deadline, or one   *)
(* that has not come, leaves the command queued.                           *)
admit ==
    /\ At("admit") /\ episodes[Episode] # None
    /\ LET e == episodes[Episode]
           retained == IF rec.tag = "Running" THEN EndAdvance(Queued(rec)) ELSE Fail
       IN \/ e.op # w.op /\ Fail /\ UNCHANGED episodes
          \/ e.op = w.op /\ ~e.due /\ retained /\ UNCHANGED episodes
          \/ /\ e.op = w.op /\ e.due /\ exhausted(e)
             /\ compare_exchange(Episode, [e EXCEPT !.state = "Blocked", !.due = FALSE])
             /\ retained
          \/ /\ e.op = w.op /\ e.due /\ ~exhausted(e)
             /\ compare_exchange(Episode, [e EXCEPT !.state = "Attempting", !.due = FALSE,
                                                    !.attempts = @ + 1])
             /\ w' = [w EXCEPT !.at = "ready"] /\ UNCHANGED sagas
    /\ UNCHANGED <<view, receipts, ledger, running, stops, faults, foreign>>

(* after_failure: a transient failure waits for its deadline while         *)
(* attempts are left, any other blocks.                                    *)
after_failure(e) ==
    {[e EXCEPT !.state = "Blocked", !.due = FALSE]} \cup
    (IF ~exhausted(e) THEN {[e EXCEPT !.state = "Waiting", !.due = FALSE]} ELSE {})

EnsureReady ==
    /\ At("ready")
    /\ \/ /\ running' = [running EXCEPT ![w.snap.assignment.agent] = w.snap.assignment.id]
          /\ w' = [w EXCEPT !.at = "resumed"]
          /\ UNCHANGED <<episodes, faults>>
       \/ /\ faults < MaxFaults
          /\ faults' = faults + 1
          /\ \E e \in after_failure(episodes[Episode]) : compare_exchange(Episode, e)
          /\ w' = [w EXCEPT !.at = "failed"]
          /\ UNCHANGED running
    /\ UNCHANGED <<sagas, view, receipts, ledger, stops, foreign>>

ReadinessFailed ==
    /\ At("failed")
    /\ EndAdvance(Reconcilable(rec))
    /\ UNCHANGED external

ready ==
    /\ At("resumed")
    /\ compare_exchange(Episode, [episodes[Episode] EXCEPT !.state = "Ready"])
    /\ w' = [w EXCEPT !.at = "recheck"]
    /\ UNCHANGED <<sagas, view, receipts, ledger, running, stops, faults, foreign>>

(* The project is read again after the runtime was resumed: the queue      *)
(* confers no right to deliver.  The head may have moved.                  *)
Recheck ==
    /\ At("recheck")
    /\ IF /\ view.active_human /\ ~view.archived
          /\ view.lifecycle = "Open" /\ view.claimable
          /\ view.assignment = w.snap.assignment /\ view.resources = w.snap.resources
          /\ HasInput(view) /\ NextInput(view) = NextInput(w.snap)
       THEN w' = [w EXCEPT !.at = "deliver", !.snap = view] /\ UNCHANGED episodes
       ELSE w' = [w EXCEPT !.at = "changed"] /\ episodes' = Set(Episode, "Cancelled")
    /\ UNCHANGED <<sagas, view, receipts, ledger, running, stops, faults, foreign>>

TargetChanged ==
    /\ At("changed")
    /\ EndAdvance(Rejected(rec))
    /\ UNCHANGED external

-----------------------------------------------------------------------------
(* Delivery: the harness keeps one record for each agent and input, and    *)
(* answers from it.  Only deliver moves a project's record: a worker that  *)
(* is resumed or woken leaves it alone.                                    *)

(* supervisor.deliver: what the record may become.  Without a worker of    *)
(* the assignment it stays; with one, the provider decides, or the call    *)
(* fails before or after the record says uncertain.                        *)
Verdicts(row, serving) ==
    IF ~serving \/ row.state \in {"Accepted", "Rejected"} THEN {row.state}
    ELSE {"Accepted", "Rejected"}
         \cup (IF faults < MaxFaults THEN {row.state, "Uncertain"} ELSE {})

(* Mutant: a delivery of unknown outcome counts as accepted.               *)
AnsweredOptimistically(state) ==
    CASE state = "Pending" -> "Queued"
      [] state = "Uncertain" -> "Accepted"
      [] OTHER -> state

Answered(state) == IF state = "Pending" THEN "Queued" ELSE state

Deliver ==
    /\ At("deliver")
    /\ LET d == Delivery
           id == w.snap.assignment.id
           row == IF ledger[d] # None THEN ledger[d]
                  ELSE [op |-> w.op, assignment |-> id, state |-> "Pending"]
       IN IF ledger[d] # None /\ ~same_project_delivery
          THEN /\ w' = [w EXCEPT !.at = "delivered", !.reply = "Rejected"]
               /\ UNCHANGED <<ledger, faults>>
          ELSE \E state \in Verdicts(row, running[d[1]] = id) :
                 /\ ledger' = [ledger EXCEPT ![d] = [row EXCEPT !.state = state]]
                 /\ w' = [w EXCEPT !.at = "delivered", !.reply = Answered(state)]
                 /\ faults' = faults + (IF running[d[1]] = id
                                           /\ state \in {"Pending", "Uncertain"}
                                        THEN 1 ELSE 0)
    /\ UNCHANGED <<sagas, view, receipts, episodes, running, stops, foreign>>

Delivered ==
    /\ At("delivered")
    /\ LET effect(to) == IF rec.dispatch_effect = "NotStarted" THEN to
                         ELSE rec.dispatch_effect
       IN \/ /\ w.reply = "Accepted"
             /\ mutate(rec, Mutation("RecordDispatch", w.snap.head,
                                     w.snap.assignment.id, None, FALSE, None))
          \/ /\ w.reply = "Queued"
             /\ EndAdvance(Queued([rec EXCEPT !.dispatch_effect = effect("Pending")]))
          \/ w.reply = "Rejected" /\ EndAdvance(Rejected(rec))
          \/ /\ w.reply = "Uncertain"
             /\ EndAdvance(Reconcilable([rec EXCEPT !.dispatch_effect =
                    IF @ = "Accepted" THEN @ ELSE "Uncertain"]))
    /\ UNCHANGED external

-----------------------------------------------------------------------------
(* Recovery outside of an advance.                                         *)

(* The deadline of a waiting, attempting or ready episode comes.           *)
Tick(e) ==
    /\ Active(e) /\ ~episodes[e].due /\ episodes[e].state # "Blocked"
    /\ episodes' = [episodes EXCEPT ![e].due = TRUE]
    /\ UNCHANGED <<sagas, view, receipts, ledger, running, stops, w, faults, foreign>>

(* An agent's worker ends by itself.  The hint of it goes through a        *)
(* bounded channel and may be lost.                                        *)
RuntimeDies(a) ==
    /\ faults < MaxFaults /\ faults' = faults + 1
    /\ running[a] # None
    /\ running' = [running EXCEPT ![a] = None]
    /\ stops' \in {stops, stops \cup {running[a]}}
    /\ UNCHANGED <<sagas, view, receipts, episodes, ledger, w, foreign>>

(* The episodes a worker that served this assignment was ready for.        *)
ReadyFor(id) ==
    {e \in Assignments \X Inputs :
        /\ e[1] = id
        /\ episodes[e] # None /\ episodes[e].state = "Ready"
        /\ \A a \in Agents : running[a] # id}

(* A hint fails the episode its worker was ready for, if it still is.      *)
runtime_stopped(id) ==
    /\ w = Idle
    /\ id \in stops /\ stops' = stops \ {id}
    /\ IF ReadyFor(id) = {} THEN UNCHANGED episodes
       ELSE \E e \in ReadyFor(id) :
              IF Eligible(e)
              THEN \E failed \in after_failure(episodes[e]) : compare_exchange(e, failed)
              ELSE cancel_stale_recovery
    /\ UNCHANGED <<sagas, view, receipts, ledger, running, w, faults, foreign>>

(* retry_project_runtime: a human resets the blocked episode of the first  *)
(* pending input, while its command is live.                               *)
retry_project_runtime(e) ==
    /\ faults < MaxFaults /\ faults' = faults + 1
    /\ w = Idle
    /\ episodes[e] # None /\ episodes[e].state = "Blocked"
    /\ sagas[episodes[e].op].tag \in Live
    /\ view.active_human /\ Eligible(e) /\ e[2] = NextInput(view)
    /\ compare_exchange(e, Waiting(episodes[e].op))
    /\ UNCHANGED <<sagas, view, receipts, ledger, running, stops, w, foreign>>

(* repair_due, on the timer: a due episode whose command is over is        *)
(* cancelled, one whose command is live runs it.                           *)
RepairDue(e) ==
    /\ w = Idle
    /\ Active(e) /\ episodes[e].due
    /\ LET op == episodes[e].op
       IN \/ /\ sagas[op].tag \in Terminal
             /\ episodes' = Set(e, "Cancelled") /\ UNCHANGED w
          \/ /\ sagas[op].tag \in Live
             /\ w' = Loaded(op, sagas[op]) /\ UNCHANGED episodes
    /\ UNCHANGED <<sagas, view, receipts, ledger, running, stops, faults, foreign>>

-----------------------------------------------------------------------------
(* Everything else.                                                        *)

(* Other parts of the node change the canonical project: inputs arrive,    *)
(* outputs are recorded, a claim is contested or freed, an agent or the    *)
(* human becomes (un)available.                                            *)
Elsewhere ==
    /\ foreign < MaxForeign /\ foreign' = foreign + 1
    /\ \/ /\ view.accepted < MaxInputs
          /\ view' = [view EXCEPT !.accepted = @ + 1, !.head = @ + 1]
       \/ view' = [view EXCEPT !.head = @ + 1]
       \/ view' = [view EXCEPT !.claimable = ~@]
       \/ view' = [view EXCEPT !.active_human = ~@]
    /\ UNCHANGED <<sagas, receipts, episodes, ledger, running, stops, w, faults>>

(* A port or the store answers with an error: the run is over, the process *)
(* and its workers go on.                                                  *)
Interrupt ==
    /\ w # Idle
    /\ faults < MaxFaults /\ faults' = faults + 1
    /\ w' = Idle
    /\ UNCHANGED <<sagas, view, receipts, episodes, ledger, running, stops, foreign>>

(* The process dies, and with it the supervisor's table of workers and the *)
(* hints.                                                                  *)
Restart ==
    /\ faults < MaxFaults /\ faults' = faults + 1
    /\ w' = Idle
    /\ running' = [a \in Agents |-> None]
    /\ stops' = {}
    /\ UNCHANGED <<sagas, view, receipts, episodes, ledger, foreign>>

WorkerStep ==
    \/ AcceptCommand \/ BeginResourceEffect \/ BeginRuntimeEffect
    \/ NothingToQuiesce \/ BeginLaunchValidation
    \/ ObserveResources \/ StartRuntime \/ StopRuntime
    \/ ResourcesValidated \/ ResourceIdentified \/ ReleaseAssessed \/ RuntimeStarted
    \/ LaunchDirectoryValidated \/ AssignmentStopped \/ CloseQuiesced
    \/ CompensationStopped \/ begin_or_resume_closing \/ AfterStop \/ ProposeOpen
    \/ AdvanceOpening \/ AdvanceConfiguring \/ AdvanceMakingRunnable
    \/ commit_assignment_resolution \/ AdvanceClosing \/ AdvanceUpdating
    \/ Replay \/ Recompensate \/ Undo
    \/ Commit \/ Finish \/ MutationCommitted \/ MutationRejected \/ MutationUnknown
    \/ ReadProject \/ CancelStale \/ SelectInput \/ Prepare
    \/ OpenEpisode \/ admit \/ EnsureReady \/ ReadinessFailed \/ ready
    \/ Recheck \/ TargetChanged \/ Deliver \/ Delivered

Next ==
    \/ WorkerStep
    \/ \E op \in Ops : Resume(op) \/ \E command \in Commands : Control(op, command)
    \/ \E e \in Assignments \X Inputs :
          Tick(e) \/ retry_project_runtime(e) \/ RepairDue(e)
    \/ \E a \in Agents : RuntimeDies(a)
    \/ \E id \in Assignments : runtime_stopped(id)
    \/ Elsewhere \/ Interrupt \/ Restart

Spec == Init /\ [][Next]_vars

(* The worker thread runs, clocks advance and the timer's repair_due runs. *)
(* A live row without a due episode is run again only when a signal comes  *)
(* (Resume), which nothing here guarantees.                                *)
Fairness ==
    /\ WF_vars(WorkerStep)
    /\ \A e \in Assignments \X Inputs : WF_vars(Tick(e)) /\ WF_vars(RepairDue(e))

FairSpec == Spec /\ Fairness

-----------------------------------------------------------------------------
Started(op) == sagas[op].tag # "absent"

(* The workflow implements the contract its clients rely on, whatever is   *)
(* lost, interrupted or changed elsewhere.                                 *)
Contract == INSTANCE ProjectContract
    WITH command <- [op \in Ops |-> IF Started(op) THEN sagas[op].command ELSE None],
         outcome <- [op \in Ops |-> CASE ~Started(op) -> "none"
                                      [] sagas[op].tag \in Live -> "live"
                                      [] OTHER -> sagas[op].tag],
         opened <- [op \in Ops |-> Started(op) /\ sagas[op].opened_by_workflow],
         lifecycle <- view.lifecycle, archived <- view.archived,
         assignment <- view.assignment, available <- view.available,
         resources <- view.resources, primary <- view.primary

KeepsContract == Contract!Spec

(* An assignment end that reports a successful stop is truthful: no worker *)
(* serves the ended assignment, then or later (EndAssignment's runtime     *)
(* observation, close_runtime_observation).                                *)
TruthfulEnds ==
    \A fact \in view.ended : fact.runtime = "Succeeded" =>
        \A a \in Agents : running[a] # fact.id

(* Compensation never runs out of rounds with work left (workflow.rs       *)
(* answers InvariantViolation there).                                      *)
CompensationFits == At("undo") => w.rounds < MaxRounds

(* An input recorded as dispatched was accepted by some agent's runtime.   *)
RecordedMeansAccepted ==
    \A i \in 1..view.dispatched :
        \E a \in Agents : ledger[<<a, i>>] # None /\ ledger[<<a, i>>].state = "Accepted"

(* Only a human's retry gives an input's recovery its attempts back: no    *)
(* restart, no repeated or new command does (project_recovery_operation,   *)
(* "a new client command cannot reset an existing input budget").          *)
RestartKeepsBudget ==
    [][\A e \in Assignments \X Inputs :
          episodes[e] # None =>
             \/ episodes'[e].attempts >= episodes[e].attempts
             \/ episodes[e].state = "Blocked" /\ sagas[episodes[e].op].tag \in Live]_vars

(* The project never serves two live commands (project_saga begin and      *)
(* replace: a live row excludes a new one, a reported row never lives      *)
(* again).                                                                 *)
IsLive(op) == sagas[op].tag \in Live

OneLiveCommand == \A p, q \in Ops : IsLive(p) /\ IsLive(q) => p = q

Settled(op) == sagas[op].tag \in Terminal

(* A command that stays live is run again and again: signals, revisions or *)
(* restarts keep coming (run_project_reconciliation).                      *)
KeepsBeingRun(op) == []<>(~IsLive(op)) \/ []<><<Resume(op)>>_vars

(* A stop that finds no worker of the agent is an error on every run       *)
(* (supervisor.stop), and so is a start that finds one (launch).           *)
RuntimeGone(op) ==
    /\ IsLive(op)
    /\ \/ /\ sagas[op].stage = "QuiescingRuntime"
          /\ Assigned(view) /\ running[view.assignment.agent] = None
       \/ /\ sagas[op].stage = "Compensating" /\ sagas[op].runtime_session
          /\ running[sagas[op].command.agent] = None

RuntimeKept(op) ==
    /\ IsLive(op) /\ sagas[op].stage = "StartingRuntime"
    /\ running[sagas[op].command.agent] # None

(* What else a live command may wait for: the human (inactive, or to retry *)
(* a blocked recovery), an input whose recovery was cancelled or belongs   *)
(* to an earlier command and is not opened again, a project head other     *)
(* than the one at which its compensation was refused, since a refusal is  *)
(* kept and answered again, or a path that is identified as it was before  *)
(* the interruption, since the row keeps the first answer.                 *)
Waits(op) ==
    \/ ~view.active_human
    \/ \E e \in Assignments \X Inputs :
          /\ episodes[e] # None
          /\ episodes[e].op # op \/ episodes[e].state \in {"Blocked", "Cancelled"}
    \/ /\ IsLive(op) /\ sagas[op].stage = "Compensating"
       /\ receipts[op] # None /\ receipts[op].outcome = "Rejected"
    \/ /\ IsLive(op) /\ sagas[op].stage = "IdentifyingResource"
       /\ sagas[op].resource_effect = "Accepted" /\ sagas[op].pending = None

(* Every activation, dispatch, open, unforced close, archive, unarchive    *)
(* and resource mutation that keeps being run is reported in the end, or   *)
(* waits in one of these ways again and again, however it is interrupted   *)
(* or left without an answer (run goes on with a row until                 *)
(* terminal_outcome has one).                                              *)
EveryCommandSettles ==
    \A op \in Ops :
        KeepsBeingRun(op) =>
           ((/\ Started(op)
             /\ sagas[op].command.kind \notin {"Handoff", "Retire"}
             /\ sagas[op].command.kind = "Close" => ~sagas[op].command.force)
               ~> (Settled(op) \/ Waits(op) \/ RuntimeGone(op) \/ RuntimeKept(op)))

(* docs/rust/application-services.md on handoff: "After the old end        *)
(* commits, handoff reuses the ordinary resource, configure, ... path."    *)
HandoffSettles ==
    \A op \in Ops :
        KeepsBeingRun(op) =>
           ((Started(op) /\ sagas[op].command.kind = "Handoff")
               ~> (Settled(op) \/ Waits(op)))
=============================================================================
