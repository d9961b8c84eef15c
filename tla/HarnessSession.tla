--------------------------- MODULE HarnessSession ---------------------------
(***************************************************************************)
(* The managed-session half of the provider-neutral harness supervisor     *)
(* (hq-harness supervisor.rs) for one named agent: the durable lease and   *)
(* operation ledger of hq-store, the in-memory worker map behind its mutex,*)
(* the provider processes that launches open, and the threads that call    *)
(* the supervisor.                                                         *)
(*                                                                         *)
(* A controller is a local request running control_session on a blocking   *)
(* task of its own, so the same operation may be replayed by two of them   *)
(* at once.  The project workflow is one thread (its worker is behind a    *)
(* mutex): it launches, resumes and stops.  The event pump is one thread.  *)
(* A step is one store transaction, one provider call or one critical      *)
(* section of the workers mutex: what lies between two of them is where    *)
(* another thread, the clock or a crash can come in.                       *)
(***************************************************************************)
EXTENDS Naturals, FiniteSets

CONSTANTS
  None,
  Controllers,     \* threads that run control_session
  Project,         \* the project workflow's thread
  Pump,            \* the event task's thread
  Ops,             \* durable session operations
  Kind,            \* what each operation asks for: start, resume or stop
  LeaseDuration,   \* config.lease_duration
  MaxClock, MaxTokens, MaxSessions, MaxFaults   \* bounds of the instance

Threads == Controllers \cup {Project, Pump}

ASSUME SizesAssumption ==
  /\ LeaseDuration \in Nat \ {0}
  /\ MaxClock \in Nat /\ MaxTokens \in Nat /\ MaxSessions \in Nat /\ MaxFaults \in Nat
ASSUME KindAssumption == Kind \in [Ops -> {"start", "resume", "stop"}]
ASSUME ThreadsAssumption ==
  Project \notin Controllers /\ Pump \notin Controllers /\ Project # Pump
ASSUME NoneAssumption ==
  /\ None \notin Threads /\ None \notin Nat /\ None \notin Ops
  /\ None \notin [token : Nat, expires : Nat] /\ None \notin [token : Nat, session : Nat]

VARIABLES
  lease,       \* durable: None, or the agent's [token, expires] row
  ready,       \* durable: the session last acknowledged ready
  operation,   \* durable: the operation ledger
  now,         \* the injected wall clock
  worker,      \* the agent's entry of the workers map: None or [token, session]
  lock,        \* the thread that holds the workers mutex, or None
  procs,       \* live provider processes, and the operation that opened each
  tokens,      \* owner tokens issued so far
  sessions,    \* provider sessions created so far; 0 is one saved by an earlier run
  faults,      \* failures injected so far
  pc, loc      \* where each thread is, and its local values

durable == <<lease, ready, operation>>
world == <<now, tokens, sessions, faults>>
memory == <<worker, lock, procs>>
vars == <<durable, world, memory, pc, loc>>

-----------------------------------------------------------------------------
(* Records *)

Terminal == {"ready", "stopped", "rejected"}

\* A ledger entry is a state with the session it is about.  A thread keeps between its
\* steps the operation it serves, the session it resumes (None: start a new one), the
\* worker it opened or took out of the map, the ledger entry it will record, whether
\* its stop saw the worker in the map, and whether it is in ensure_resumed.
State(s) == [state |-> s, session |-> None]
Ready(s) == [state |-> "ready", session |-> s]
Nothing == [op |-> None, target |-> None, token |-> None, session |-> None,
            result |-> State("uncertain"), seen |-> FALSE, ensure |-> FALSE]

-----------------------------------------------------------------------------
(* The store's transactions *)

\* Mutant: the deadline is compared a whole lease too late.
ClaimHeldShort(token) ==
  lease # None /\ lease.token # token /\ lease.expires > now + LeaseDuration

\* claim_lease, for a token at the present time: refused while another token's
\* deadline is ahead, and to a live owner whose new deadline would be earlier.
ClaimHeld(token) == lease # None /\ lease.token # token /\ lease.expires > now
ClaimConflict(token) ==
  lease # None /\ lease.token = token /\ now + LeaseDuration < lease.expires
RenewRefused(token) == ClaimHeld(token) \/ ClaimConflict(token)
ClaimLease(token) == lease' = [token |-> token, expires |-> now + LeaseDuration]

\* Mutant: the release ignores whose row it deletes.
ReleaseLeaseAny(token) == lease' = None

\* release_lease deletes only the row of the exact token.
Owns(token) == lease # None /\ lease.token = token
ReleaseLease(token) == lease' = IF Owns(token) THEN None ELSE lease

\* set_session_operation_state: an equal state is accepted, a terminal one absorbs,
\* and otherwise the rank must rise.
Rank(s) == CASE s = "absent" -> 0 [] s = "prepared" -> 1 [] s = "uncertain" -> 2
             [] OTHER -> 3
SetAllowed(o, entry) ==
  /\ operation[o].state # "absent"
  /\ \/ operation[o] = entry
     \/ Rank(entry.state) > Rank(operation[o].state) /\ operation[o].state \notin Terminal
SetOperation(o, entry) ==
  operation' = IF SetAllowed(o, entry) THEN [operation EXCEPT ![o] = entry] ELSE operation

-----------------------------------------------------------------------------
(* Control flow of a thread *)

Go(t, step) == pc' = [pc EXCEPT ![t] = step]
Keep(t, l) == loc' = [loc EXCEPT ![t] = l]
Finish(t) == Go(t, "idle") /\ Keep(t, Nothing)
Fault == faults < MaxFaults /\ faults' = faults + 1
NoFault == faults' = faults

\* control_session goes on to record an outcome; the project and the pump have none.
Settle(t, l, entry) ==
  IF l.op = None THEN Finish(t)
  ELSE Go(t, "settle") /\ Keep(t, [l EXCEPT !.result = entry])

Init ==
  /\ lease = None /\ ready = None
  /\ operation = [o \in Ops |-> State("absent")]
  /\ now = 0 /\ tokens = 0 /\ sessions = 0 /\ faults = 0
  /\ worker = None /\ lock = None /\ procs = {}
  /\ pc = [t \in Threads |-> "idle"] /\ loc = [t \in Threads |-> Nothing]

-----------------------------------------------------------------------------
(* control_session *)

\* The operation is queued: an equal record that is already there stays as it is.
QueueOperation(c, o) ==
  /\ pc[c] = "idle"
  /\ operation' = IF operation[o].state = "absent"
                    THEN [operation EXCEPT ![o] = State("prepared")] ELSE operation
  /\ Go(c, "load")
  /\ Keep(c, [Nothing EXCEPT !.op = o, !.target = IF Kind[o] = "resume" THEN 0 ELSE None])
  /\ UNCHANGED <<lease, ready, world, memory>>

\* The retained record decides: a terminal one is the answer, an uncertain one is
\* observed, a prepared one is performed.
LoadOperation(c) ==
  /\ pc[c] = "load"
  /\ LET state == operation[loc[c].op].state
     IN IF state \in Terminal THEN Finish(c)
        ELSE Go(c, IF state = "uncertain" THEN "observe" ELSE "mark") /\ UNCHANGED loc
  /\ UNCHANGED <<durable, world, memory>>

\* observe_uncertain_session_operation reads the worker map, and nothing else, to
\* settle what an earlier call left uncertain.
ObserveUncertain(c) ==
  /\ pc[c] = "observe" /\ lock = None
  /\ LET l == loc[c]
         kind == Kind[l.op]
     IN CASE kind = "start" /\ worker # None -> Settle(c, l, Ready(worker.session))
          [] kind = "resume" /\ worker # None /\ (worker # None => worker.session = l.target)
               -> Settle(c, l, Ready(l.target))
          [] kind = "stop" /\ worker = None -> Settle(c, l, State("stopped"))
          [] kind = "stop" /\ worker # None ->
               Go(c, "remove") /\ Keep(c, [l EXCEPT !.seen = TRUE])
          [] OTHER -> Finish(c)
  /\ UNCHANGED <<durable, world, memory>>

\* Mutant: the provider boundary is crossed first and recorded with the outcome.
MarkUncertainLater(c) ==
  /\ pc[c] = "mark"
  /\ Go(c, IF Kind[loc[c].op] = "stop" THEN "remove" ELSE "enter") /\ UNCHANGED loc
  /\ UNCHANGED <<durable, world, memory>>

\* Uncertain is recorded before the provider boundary is crossed.  Another replay
\* may have recorded it first, which the store accepts, or have finished, which it
\* does not.
MarkUncertain(c) ==
  /\ pc[c] = "mark"
  /\ LET o == loc[c].op
     IN /\ SetOperation(o, State("uncertain"))
        /\ IF SetAllowed(o, State("uncertain"))
           THEN Go(c, IF Kind[o] = "stop" THEN "remove" ELSE "enter") /\ UNCHANGED loc
           ELSE Finish(c)
  /\ UNCHANGED <<lease, ready, world, memory>>

\* The outcome is recorded.  The store refuses it when another replay recorded a
\* different one.
SettleOperation(c) ==
  /\ pc[c] = "settle"
  /\ SetOperation(loc[c].op, loc[c].result)
  /\ Finish(c)
  /\ UNCHANGED <<lease, ready, world, memory>>

-----------------------------------------------------------------------------
(* launch, recover, ensure_resumed *)

\* launch takes the workers mutex and keeps it until the session is open.
EnterLaunch(t) ==
  /\ pc[t] = "enter" /\ lock = None
  /\ tokens < MaxTokens /\ (loc[t].target = None => sessions < MaxSessions)
  /\ lock' = t
  /\ Go(t, "claim")
  /\ UNCHANGED <<durable, world, worker, procs, loc>>

\* launch_owned: the map has no worker of this agent, and a fresh token claims the
\* lease.  Both refusals are OwnershipConflict, which control_session takes for a
\* definitive rejection.
ClaimForLaunch(t) ==
  /\ pc[t] = "claim"
  /\ LET token == tokens + 1
     IN IF worker # None \/ ClaimHeld(token)
        THEN /\ lock' = None /\ Settle(t, loc[t], State("rejected"))
             /\ UNCHANGED <<lease, tokens>>
        ELSE /\ ClaimLease(token) /\ tokens' = token
             /\ Go(t, "open") /\ Keep(t, [loc[t] EXCEPT !.token = token])
             /\ UNCHANGED lock
  /\ UNCHANGED <<ready, operation, now, sessions, faults, worker, procs>>

\* The map already holds max_workers workers of other agents.
MapFull(t) ==
  /\ pc[t] = "claim" /\ worker = None /\ Fault
  /\ lock' = None /\ Settle(t, loc[t], State("rejected"))
  /\ UNCHANGED <<durable, now, tokens, sessions, worker, procs>>

\* The provider acknowledges a new session, or the exact one asked for.
OpenSession(t) ==
  /\ pc[t] = "open"
  /\ LET fresh == loc[t].target = None
         session == IF fresh THEN sessions + 1 ELSE loc[t].target
     IN /\ sessions' = IF fresh THEN sessions + 1 ELSE sessions
        /\ procs' = procs \cup {[token |-> loc[t].token, session |-> session,
                                 by |-> loc[t].op]}
        /\ Keep(t, [loc[t] EXCEPT !.session = session])
  /\ Go(t, "commit")
  /\ UNCHANGED <<durable, now, tokens, faults, worker, lock>>

\* The provider refuses to open, for good or for now; so does, for a resume, the
\* interruption of the turns the previous owner left running.
OpenFails(t) ==
  /\ pc[t] = "open" /\ Fault
  /\ \E outcome \in {"rejected", "uncertain"} :
       Keep(t, [loc[t] EXCEPT !.result = State(outcome)])
  /\ Go(t, "unclaim")
  /\ UNCHANGED <<durable, now, tokens, sessions, memory>>

\* The claim of a launch that did not open is released, as best it can be.
ReleaseClaim(t) ==
  /\ pc[t] = "unclaim"
  /\ \/ ReleaseLease(loc[t].token) /\ NoFault
     \/ Fault /\ UNCHANGED lease
  /\ lock' = None
  /\ IF loc[t].result.state = "rejected" THEN Settle(t, loc[t], State("rejected"))
     ELSE Finish(t)
  /\ UNCHANGED <<ready, operation, now, tokens, sessions, worker, procs>>

\* SetReadySession cites the token; then the worker enters the map.  A controller's
\* resume goes on to wake the agent, and ensure_resumed to renew under the mutex.
CommitReady(t) ==
  /\ pc[t] = "commit"
  /\ Owns(loc[t].token)
  /\ ready' = loc[t].session
  /\ worker' = [token |-> loc[t].token, session |-> loc[t].session]
  /\ IF loc[t].ensure THEN Go(t, "renew") /\ UNCHANGED <<lock, loc>>
     ELSE /\ lock' = None
          /\ IF loc[t].op # None /\ loc[t].target # None
             THEN Go(t, "wake") /\ UNCHANGED loc
             ELSE Settle(t, loc[t], Ready(loc[t].session))
  /\ UNCHANGED <<lease, operation, world, procs>>

\* Mutant: the error path leaks the open session.
CommitFailsLeaks(t) ==
  /\ pc[t] = "commit" /\ Fault
  /\ lock' = None
  /\ Finish(t)
  /\ UNCHANGED <<durable, now, tokens, sessions, worker, procs>>

\* Past the open, an error drops the session, which stops its process, and returns:
\* nothing releases the claim.  A token that lost the lease is such an error.
CommitFails(t) ==
  /\ pc[t] = "commit" /\ IF Owns(loc[t].token) THEN Fault ELSE NoFault
  /\ procs' = {p \in procs : p.token # loc[t].token}
  /\ lock' = None
  /\ Finish(t)
  /\ UNCHANGED <<durable, now, tokens, sessions, worker>>

\* ensure_resumed renews before it reports readiness, and reports failure when it
\* cannot; the worker stays in the map either way.
RenewReady(t) ==
  /\ pc[t] = "renew"
  /\ \/ ~RenewRefused(loc[t].token) /\ ClaimLease(loc[t].token) /\ NoFault
     \/ RenewRefused(loc[t].token) /\ UNCHANGED lease /\ NoFault
     \/ Fault /\ UNCHANGED lease
  /\ lock' = None
  /\ Finish(t)
  /\ UNCHANGED <<ready, operation, now, tokens, sessions, worker, procs>>

\* recover wakes the worker it launched, if it is still there; a failure stops the
\* agent's worker, whichever it is by then.  (No direct delivery exists to replay:
\* every delivery of the node belongs to a project, which wake_agent leaves alone.)
WakeRecovered(c) ==
  /\ pc[c] = "wake" /\ lock = None
  /\ \/ worker # None /\ NoFault /\ Settle(c, loc[c], Ready(loc[c].session))
     \/ worker = None /\ NoFault /\ Go(c, "remove") /\ UNCHANGED loc
     \/ Fault /\ Go(c, "remove") /\ UNCHANGED loc
  /\ UNCHANGED <<durable, now, tokens, sessions, memory>>

-----------------------------------------------------------------------------
(* stop and stop_worker *)

\* The thread serves a stop operation, rather than a failed recovery, the project or
\* the pump.
Stops(t) == loc[t].op # None /\ (loc[t].op # None => Kind[loc[t].op] = "stop")

\* stop takes the worker out of the map.  With none there it fails: a stop operation
\* takes that for its outcome, unless it had just observed the worker.
RemoveWorker(t) ==
  /\ pc[t] = "remove" /\ lock = None
  /\ IF worker # None
     THEN /\ Go(t, "teardown")
          /\ Keep(t, [loc[t] EXCEPT !.token = worker.token, !.session = worker.session])
     ELSE IF Stops(t) /\ ~loc[t].seen THEN Settle(t, loc[t], State("stopped"))
     ELSE Finish(t)
  /\ worker' = None
  /\ UNCHANGED <<durable, world, lock, procs>>

\* stop_worker, outside the mutex: intake is stopped, values are drained, the session
\* drains and is forced to stop.
TeardownWorker(t) ==
  /\ pc[t] = "teardown"
  /\ procs' = {p \in procs : p.token # loc[t].token}
  /\ Go(t, "release")
  /\ UNCHANGED <<durable, world, worker, lock, loc>>

\* The exact lease is released last.  A stop operation is recorded stopped only when
\* nothing of the teardown failed.
ReleaseWorker(t) ==
  /\ pc[t] = "release"
  /\ ReleaseLease(loc[t].token)
  /\ IF Stops(t) /\ Owns(loc[t].token)
     THEN \/ Settle(t, loc[t], State("stopped")) /\ NoFault
          \/ Fault /\ Finish(t)
     ELSE Finish(t) /\ NoFault
  /\ UNCHANGED <<ready, operation, now, tokens, sessions, memory>>

-----------------------------------------------------------------------------
(* The project workflow and the event pump *)

\* start_or_resume launches; the project asks for a new session or for a known one.
ProjectLaunch ==
  /\ pc[Project] = "idle"
  /\ \E target \in {None} \cup 0 .. sessions :
       Keep(Project, [Nothing EXCEPT !.target = target])
  /\ Go(Project, "enter")
  /\ UNCHANGED <<durable, world, memory>>

\* ensure_resumed of the worker in the map: a mismatched session is an error, and the
\* matching one is renewed.  With no worker it launches under the same mutex.
ProjectEnsure ==
  /\ pc[Project] = "idle" /\ lock = None
  /\ \E target \in 0 .. sessions :
       IF worker # None
       THEN /\ worker.session = target
            /\ ~RenewRefused(worker.token) /\ ClaimLease(worker.token)
            /\ UNCHANGED <<lock, pc, loc>>
       ELSE /\ tokens < MaxTokens
            /\ lock' = Project /\ Go(Project, "claim")
            /\ Keep(Project, [Nothing EXCEPT !.target = target, !.ensure = TRUE])
            /\ UNCHANGED lease
  /\ UNCHANGED <<ready, operation, world, worker, procs>>

ProjectStop ==
  /\ pc[Project] = "idle"
  /\ Go(Project, "remove")
  /\ UNCHANGED <<durable, world, memory, loc>>

\* poll_events: every pass renews the worker's lease first; a lease that cannot be
\* renewed, a closed stream or a provider failure takes the worker out of the map.
PumpPass ==
  /\ pc[Pump] = "idle" /\ lock = None /\ worker # None
  /\ LET Take == /\ worker' = None /\ Go(Pump, "teardown")
                 /\ Keep(Pump, [Nothing EXCEPT !.token = worker.token,
                                               !.session = worker.session])
     IN \/ /\ ~RenewRefused(worker.token) /\ ClaimLease(worker.token)
           /\ NoFault /\ UNCHANGED <<worker, pc, loc>>
        \/ /\ ~RenewRefused(worker.token) /\ ClaimLease(worker.token)
           /\ Fault /\ Take
        \/ RenewRefused(worker.token) /\ UNCHANGED lease /\ NoFault /\ Take
        \/ UNCHANGED lease /\ Fault /\ Take
  /\ UNCHANGED <<ready, operation, now, tokens, sessions, lock, procs>>

-----------------------------------------------------------------------------
(* Failures and time *)

\* A store call of control_session or of the claim fails: the call returns an error
\* and the durable state is what it was.
StoreFails(t) ==
  /\ pc[t] \in {"load", "mark", "settle", "claim"} /\ Fault
  /\ lock' = IF pc[t] = "claim" THEN None ELSE lock
  /\ Finish(t)
  /\ UNCHANGED <<durable, now, tokens, sessions, worker, procs>>

\* The final release cannot reach the store: the lease stays until it expires.
ReleaseFails(t) ==
  /\ pc[t] = "release" /\ Fault
  /\ Finish(t)
  /\ UNCHANGED <<durable, now, tokens, sessions, memory>>

\* The node dies and starts again: memory is gone, and its children's pipes with it.
Crash ==
  /\ Fault
  /\ worker' = None /\ lock' = None /\ procs' = {}
  /\ pc' = [t \in Threads |-> "idle"] /\ loc' = [t \in Threads |-> Nothing]
  /\ UNCHANGED <<durable, now, tokens, sessions>>

Advance ==
  /\ now < MaxClock /\ now' = now + 1
  /\ UNCHANGED <<durable, tokens, sessions, faults, memory, pc, loc>>

\* The wall clock is stepped back.
StepBack ==
  /\ now > 0 /\ Fault /\ now' = now - 1
  /\ UNCHANGED <<durable, tokens, sessions, memory, pc, loc>>

-----------------------------------------------------------------------------
ControllerStep(c) ==
  \/ LoadOperation(c) \/ ObserveUncertain(c) \/ MarkUncertain(c) \/ SettleOperation(c)
  \/ WakeRecovered(c)
LaunchStep(t) ==
  \/ EnterLaunch(t) \/ ClaimForLaunch(t) \/ MapFull(t) \/ OpenSession(t)
  \/ OpenFails(t) \/ ReleaseClaim(t) \/ CommitReady(t) \/ CommitFails(t) \/ RenewReady(t)
StopStep(t) == RemoveWorker(t) \/ TeardownWorker(t) \/ ReleaseWorker(t)
Failure(t) == StoreFails(t) \/ ReleaseFails(t)
ProjectCall == ProjectLaunch \/ ProjectEnsure \/ ProjectStop
Time == Advance \/ StepBack

\* Every step but the project's next call and a crash.
Progress ==
  \/ \E c \in Controllers, o \in Ops : QueueOperation(c, o)
  \/ \E c \in Controllers : ControllerStep(c)
  \/ \E t \in Threads : LaunchStep(t) \/ StopStep(t) \/ Failure(t)
  \/ PumpPass \/ Time

Next == Progress \/ ProjectCall \/ Crash

Spec == Init /\ [][Next]_vars

-----------------------------------------------------------------------------
(* Properties *)

\* A worker in the map owns the durable lease, expired or not, and the durable ready
\* session is its session: launches are serialised by the mutex, and a teardown that
\* ends late releases its own token and never its successor's.
WorkerOwnsLease ==
  worker # None => Owns(worker.token) /\ ready = worker.session

\* Every live provider process is in somebody's hands: in the map, or of a thread
\* that is about to put it there or to stop it.  No error path of launch_owned and
\* no race of two stops loses one.
NoOrphanProcess ==
  \A p \in procs :
    \/ worker = [token |-> p.token, session |-> p.session]
    \/ \E t \in Threads : pc[t] \in {"commit", "teardown"} /\ loc[t].token = p.token

\* What an operation opened, its ledger knew of before: a crash never leaves a
\* session behind a record that still says no provider call was made.
RecordedBeforeOpened ==
  \A p \in procs : p.by # None => operation[p.by].state \notin {"absent", "prepared"}

\* Two processes of the agent are alive together only while the lease of the older
\* one had expired (or was lost) when the younger one claimed: a lease in force keeps
\* every launch out until its owner has been torn down.
NoTakeoverInForce ==
  [][\A p \in procs : Owns(p.token) /\ lease.expires > now /\ p \in procs'
       => lease' = None \/ lease'.token = p.token]_vars

=============================================================================
