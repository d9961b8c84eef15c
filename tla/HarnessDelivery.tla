--------------------------- MODULE HarnessDelivery ---------------------------
(***************************************************************************)
(* Durable delivery of project inputs to the managed session of one agent: *)
(* HarnessSupervisor::deliver and reconcile_delivery over the delivery     *)
(* ledger, composed with the session lifecycle of HarnessSession, which    *)
(* launches, stops, loses and replaces the worker meanwhile.               *)
(*                                                                         *)
(* The project thread is the only deliverer.  It holds the workers mutex   *)
(* from the renewal of the lease to the end of reconcile_delivery.  The    *)
(* provider records what it accepted by submission identity; its answer to *)
(* a submission may be lost after the acceptance.                          *)
(***************************************************************************)
EXTENDS HarnessSession

CONSTANT Subs    \* submissions, each bound to the saved session 0

ASSUME TaskAssumption ==
  None \notin [sub : Subs,
               step : {"load", "lock", "mark", "lookup", "submit", "accept", "reject"},
               state : {"none", "pending", "uncertain", "accepted", "rejected"}]

VARIABLES
  delivery,    \* durable: each submission's ledger row, "none" when there is none
  accepts,     \* the provider: how often it accepted each submission
  task         \* the project's deliver call: None or [sub, step, state]

ledger == <<delivery, accepts>>
dvars == <<vars, ledger, task>>

DeliveryInit ==
  /\ Init
  /\ delivery = [s \in Subs |-> "none"] /\ accepts = [s \in Subs |-> 0]
  /\ task = None

-----------------------------------------------------------------------------
(* The ledger's transactions *)

DeliveryRank(row) == CASE row = "none" -> 0 [] row = "pending" -> 1
                       [] row = "uncertain" -> 2 [] OTHER -> 3

\* set_delivery_state cites the worker's token; a terminal row only repeats itself,
\* and no row goes down in rank.
SetDeliveryAllowed(s, row) ==
  /\ Owns(worker.token)
  /\ delivery[s] \in {"accepted", "rejected"} => row = delivery[s]
  /\ DeliveryRank(row) >= DeliveryRank(delivery[s])

-----------------------------------------------------------------------------
(* deliver *)

To(step) == task' = [task EXCEPT !.step = step]

\* The call returns, and gives the mutex back if it had it.
Return == task' = None /\ lock' = IF lock = Project THEN None ELSE lock

session == <<ready, operation, now, tokens, sessions, worker, procs, pc, loc>>

\* The exact input is made durable; an equal row, in whatever state, stays.
QueueDelivery(s) ==
  /\ task = None /\ pc[Project] = "idle"
  /\ delivery' = IF delivery[s] = "none" THEN [delivery EXCEPT ![s] = "pending"]
                 ELSE delivery
  /\ task' = [sub |-> s, step |-> "load", state |-> "none"]
  /\ UNCHANGED <<vars, accepts>>

LoadDelivery ==
  /\ task # None /\ task.step = "load"
  /\ task' = [task EXCEPT !.step = "lock", !.state = delivery[task.sub]]
  /\ UNCHANGED <<vars, ledger>>

\* Mutant: a worker of another session is taken for the bound one.
BeginReconcileAnySession ==
  /\ task # None /\ task.step = "lock" /\ lock = None /\ worker # None
  /\ ClaimLease(worker.token)
  /\ IF task.state \in {"accepted", "rejected"} THEN Return
     ELSE lock' = Project /\ To(IF task.state = "uncertain" THEN "lookup" ELSE "mark")
  /\ UNCHANGED <<session, faults, ledger>>

\* With the mutex: no worker, no renewal, a worker of another session, or a row that
\* is already decided ends the call.
BeginReconcile ==
  /\ task # None /\ task.step = "lock" /\ lock = None
  /\ IF worker = None \/ (worker # None => RenewRefused(worker.token))
     THEN Return /\ UNCHANGED lease
     ELSE /\ ClaimLease(worker.token)
          /\ IF worker.session # 0 \/ task.state \in {"accepted", "rejected"} THEN Return
             ELSE /\ lock' = Project
                  /\ To(IF task.state = "uncertain" THEN "lookup" ELSE "mark")
  /\ UNCHANGED <<session, faults, ledger>>

\* Uncertain is durable before the provider is called.
MarkDelivery ==
  /\ task # None /\ task.step = "mark"
  /\ IF SetDeliveryAllowed(task.sub, "uncertain")
     THEN delivery' = [delivery EXCEPT ![task.sub] = "uncertain"] /\ To("submit") /\ UNCHANGED lock
     ELSE Return /\ UNCHANGED delivery
  /\ UNCHANGED <<session, lease, faults, accepts>>

\* Mutant: an uncertain row is submitted again without a lookup.
LookupSkipped ==
  /\ task # None /\ task.step = "lookup"
  /\ To("submit")
  /\ UNCHANGED <<vars, ledger>>

\* An uncertain row is looked up by its exact identity before it is submitted again.
LookupSubmission ==
  /\ task # None /\ task.step = "lookup"
  /\ To(IF accepts[task.sub] > 0 THEN "accept" ELSE "submit")
  /\ UNCHANGED <<vars, ledger>>

SubmitAccepted ==
  /\ task # None /\ task.step = "submit"
  /\ accepts' = [accepts EXCEPT ![task.sub] = @ + 1]
  /\ To("accept")
  /\ UNCHANGED <<vars, delivery>>

\* Mutant: a lost answer is taken for a rejection.
SubmitLostRejects ==
  /\ task # None /\ task.step = "submit" /\ Fault
  /\ \E n \in {0, 1} : accepts' = [accepts EXCEPT ![task.sub] = @ + n]
  /\ To("reject")
  /\ UNCHANGED <<session, lease, lock, delivery>>

\* The outcome is uncertain, or the call fails, after or before the acceptance; a
\* temporary refusal (backpressure) is the second case.
SubmitUncertain ==
  /\ task # None /\ task.step = "submit" /\ Fault
  /\ \E n \in {0, 1} : accepts' = [accepts EXCEPT ![task.sub] = @ + n]
  /\ Return
  /\ UNCHANGED <<session, lease, delivery>>

SubmitRejected ==
  /\ task # None /\ task.step = "submit" /\ Fault
  /\ To("reject")
  /\ UNCHANGED <<session, lease, lock, ledger>>

\* The provider's verdict is recorded.
RecordVerdict ==
  /\ task # None /\ task.step \in {"accept", "reject"}
  /\ LET row == IF task.step = "accept" THEN "accepted" ELSE "rejected"
     IN delivery' = IF SetDeliveryAllowed(task.sub, row)
                    THEN [delivery EXCEPT ![task.sub] = row] ELSE delivery
  /\ Return
  /\ UNCHANGED <<session, lease, faults, accepts>>

\* A store or provider call of the delivery fails, and the call returns its error.
DeliveryFails ==
  /\ task # None /\ task.step # "submit" /\ Fault
  /\ Return
  /\ UNCHANGED <<session, lease, ledger>>

DeliveryStep ==
  \/ LoadDelivery \/ BeginReconcile \/ MarkDelivery \/ LookupSubmission
  \/ SubmitAccepted \/ SubmitUncertain \/ SubmitRejected \/ RecordVerdict \/ DeliveryFails

DeliveryNext ==
  \/ \E s \in Subs : QueueDelivery(s)
  \/ DeliveryStep
  \/ Progress /\ UNCHANGED <<ledger, task>>
  \/ task = None /\ ProjectCall /\ UNCHANGED <<ledger, task>>
  \/ Crash /\ task' = None /\ UNCHANGED ledger

DeliverySpec == DeliveryInit /\ [][DeliveryNext]_dvars

-----------------------------------------------------------------------------
(* Properties *)

\* The provider accepts a submission at most once, whatever answers are lost, whenever
\* the node dies and however often the worker is replaced between two attempts.
SubmittedOnce == \A s \in Subs : accepts[s] <= 1

\* A recorded verdict is the provider's: accepted rows were accepted, and a row that
\* says rejected, which is never tried again, was not.
VerdictsAreTrue ==
  \A s \in Subs : /\ delivery[s] = "accepted" => accepts[s] > 0
                 /\ delivery[s] = "rejected" => accepts[s] = 0

\* While the deliverer is past the renewal, the worker it submits to stays in the map
\* and owns the lease: no stop, pump pass or launch replaces it under the mutex.
DelivererKeepsWorker ==
  task # None /\ lock = Project => worker # None /\ Owns(worker.token) /\ worker.session = 0

=============================================================================
