----------------------- MODULE HarnessDelivery_proofs -----------------------
(***************************************************************************)
(* Proofs about HarnessDelivery for any number of submissions, controllers *)
(* and failures.  The session half is HarnessSession_proofs: its invariant *)
(* holds of the composition too, since a delivery renews only the lease of *)
(* the worker in the map.                                                  *)
(*                                                                         *)
(* The argument: the deliverer holds the workers mutex from the renewal to *)
(* the verdict, so the worker it submits to stays; uncertain is durable    *)
(* before the provider is called, so a row that is not yet uncertain was   *)
(* never submitted; and an uncertain row is submitted only after a lookup  *)
(* under the same mutex found that it was not accepted.                    *)
(***************************************************************************)
EXTENDS HarnessDelivery, HarnessSession_proofs

Rows == {"none", "pending", "uncertain", "accepted", "rejected"}
Reconciling == {"mark", "lookup", "submit", "accept", "reject"}
Task == [sub : Subs, step : {"load", "lock"} \cup Reconciling, state : Rows]

DeliveryTypeOK ==
  /\ delivery \in [Subs -> Rows]
  /\ accepts \in [Subs -> Nat]
  /\ task \in Task \cup {None}

\* The project thread is in a deliver call, in a call of the session half, or in
\* neither, and has the mutex only from the renewal or the launch on.
DelivererInv ==
  /\ task # None => pc[Project] = "idle"
  /\ task # None /\ task.step \in Reconciling => lock = Project
  /\ lock = Project =>
       pc[Project] \in Launching \/ (task # None /\ task.step \in Reconciling)

\* What the deliverer has loaded is still what the ledger says, and what the ledger
\* and the deliverer's step say of the provider is true.
Before(s) == delivery[s] \in {"none", "pending"}
SubmissionInv ==
  /\ \A s \in Subs : Before(s) => accepts[s] = 0
  /\ task # None =>
       /\ task.step = "lock" => task.state = delivery[task.sub]
       /\ task.step = "mark" => Before(task.sub)
       /\ task.step \in {"lookup", "submit", "accept", "reject"}
            => delivery[task.sub] = "uncertain"
       /\ task.step \in {"submit", "reject"} => accepts[task.sub] = 0
       /\ task.step = "accept" => accepts[task.sub] > 0

DInv ==
  /\ IInv /\ DeliveryTypeOK /\ DelivererInv /\ SubmissionInv
  /\ SubmittedOnce /\ VerdictsAreTrue /\ DelivererKeepsWorker

\* What the deliver call relies on when another thread, the clock or the pump takes a
\* step: while the project is in no call of the session half, nobody else gives or
\* takes its mutex, and while it has the mutex nobody changes the map.
Undisturbed ==
  /\ pc[Project] = "idle" =>
       /\ pc'[Project] = "idle" /\ (lock' = Project <=> lock = Project)
       /\ lock = Project => worker' = worker
  /\ lock' = Project =>
       pc'[Project] \in Launching \/ (lock = Project /\ pc[Project] \notin Launching)

LEMMA FrameUndisturbed ==
  ASSUME IInv, NEW t \in Threads, Frame(t)
  PROVE  Undisturbed
<1>1. Project \in Threads /\ None # Project /\ "idle" \notin Launching
  BY NoneAssumption DEF Threads, Launching
<1>2. pc[t] \in Launching => lock = t
  BY DEF IInv, MutexInv
<1>3. CASE t = Project
  BY <1>1, <1>2, <1>3 DEF Frame, Undisturbed
<1>4. CASE t # Project
  BY <1>1, <1>2, <1>4 DEF Frame, Moves, Undisturbed
<1> QED
  BY <1>3, <1>4

LEMMA ProgressUndisturbed ==
  ASSUME IInv, Progress
  PROVE  Undisturbed
<1>1. CASE \E c \in Controllers, o \in Ops : QueueOperation(c, o)
  BY <1>1, ThreadsAssumption, TypesApart
     DEF IInv, QueueOperation, Go, memory, Undisturbed, Threads
<1>2. ASSUME NEW c \in Controllers, ControllerStep(c) PROVE Undisturbed
  BY <1>2, CallStep, FrameUndisturbed DEF Threads
<1>3. ASSUME NEW t \in Threads, LaunchStep(t) \/ StopStep(t) \/ Failure(t)
      PROVE  Undisturbed
  BY <1>3, CallStep, FrameUndisturbed
<1>4. CASE PumpPass
  <2>1. pc'[Project] = pc[Project] /\ lock' = lock /\ lock = None
    BY <1>4, ThreadsAssumption, TypesApart DEF IInv, PumpPass, Go, Threads
  <2> QED
    BY <2>1, NoneAssumption DEF Undisturbed, Threads
<1>5. CASE Time
  BY <1>5 DEF Time, Advance, StepBack, memory, Undisturbed
<1> QED
  BY <1>1, <1>2, <1>3, <1>4, <1>5 DEF Progress

\* The deliverer takes or returns the mutex, and renews the worker's lease or not.
LEMMA MutexStep ==
  ASSUME IInv, UNCHANGED session, pc[Project] = "idle",
         lease' = lease \/ (worker # None /\ ClaimLease(worker.token)),
         lock' = lock \/ (lock \in {None, Project} /\ lock' \in {None, Project})
  PROVE  IInv'
<1>1. \/ lease' = lease
      \/ worker # None /\ lease' \in Lease /\ lease' # None /\ lease'.token = worker.token
  BY TypesApart, ClaimedRow DEF IInv
<1>2. TypeOK'
  BY <1>1 DEF IInv, TypeOK, session
<1>3. MutexInv'
  <2> SUFFICES ASSUME NEW t \in Threads, pc[t] \in Launching
               PROVE  lock' = t
    BY DEF MutexInv, session
  <2>1. lock = t /\ t # Project /\ t # None
    BY NoneAssumption DEF IInv, MutexInv, Launching
  <2> QED
    BY <2>1
<1>4. TokenInv'
  BY <1>1 DEF IInv, TokenInv, session
<1>5. HolderInv'
  BY <1>1 DEF IInv, HolderInv, Owns, session
<1>6. WorkerOwnsLease'
  BY <1>1 DEF IInv, WorkerOwnsLease, Owns, session
<1>7. NoOrphanProcess' /\ OpenedInv' /\ SessionInv'
  BY DEF IInv, NoOrphanProcess, OpenedInv, SessionInv, session
<1>8. LedgerInv' /\ RecordedBeforeOpened'
  BY DEF IInv, LedgerInv, Recorded, RecordedBeforeOpened, session
<1> QED
  BY <1>2, <1>3, <1>4, <1>5, <1>6, <1>7, <1>8 DEF IInv

LEMMA TaskFields ==
  ASSUME DeliveryTypeOK, task # None
  PROVE  /\ task \in Task /\ task.sub \in Subs /\ task.state \in Rows
         /\ task.step \in {"load", "lock"} \cup Reconciling
         /\ delivery[task.sub] \in Rows /\ accepts[task.sub] \in Nat
BY DEF DeliveryTypeOK, Task

LEMMA TaskNotNone == \A k \in Task : k # None
<1>1. Task = [sub : Subs,
              step : {"load", "lock", "mark", "lookup", "submit", "accept", "reject"},
              state : {"none", "pending", "uncertain", "accepted", "rejected"}]
  <2>1. {"load", "lock"} \cup Reconciling
          = {"load", "lock", "mark", "lookup", "submit", "accept", "reject"}
    BY DEF Reconciling
  <2> QED
    BY <2>1 DEF Task, Rows
<1> QED
  BY <1>1, TaskAssumption

\* To changes the step of the deliver call and nothing else of it.
LEMMA ToStep ==
  ASSUME DeliveryTypeOK, task # None, NEW s \in {"load", "lock"} \cup Reconciling, To(s)
  PROVE  /\ task' \in Task /\ task' # None
         /\ task'.step = s /\ task'.sub = task.sub /\ task'.state = task.state
<1>1. task' \in Task /\ task'.step = s /\ task'.sub = task.sub /\ task'.state = task.state
  BY TaskFields DEF To, Task
<1> QED
  BY <1>1, TaskNotNone

-----------------------------------------------------------------------------
(* The steps of a deliver call *)

\* The session half moves, and the deliver call does not.
LEMMA SessionStep ==
  ASSUME DInv, IInv', Undisturbed, UNCHANGED <<ledger, task>>
  PROVE  DInv'
<1>1. DeliveryTypeOK' /\ SubmissionInv' /\ SubmittedOnce' /\ VerdictsAreTrue'
  BY DEF DInv, DeliveryTypeOK, SubmissionInv, Before, SubmittedOnce, VerdictsAreTrue, ledger
<1>2. task # None /\ task.step \in Reconciling => lock' = Project
  BY DEF DInv, DelivererInv, Undisturbed
<1>3. DelivererInv'
  <2>1. lock' = Project => pc'[Project] \in Launching \/ (task # None /\ task.step \in Reconciling)
    BY DEF DInv, DelivererInv, Undisturbed
  <2> QED
    BY <1>2, <2>1 DEF DInv, DelivererInv, Undisturbed
<1>4. DelivererKeepsWorker'
  BY DEF DInv, DelivererInv, DelivererKeepsWorker, Undisturbed, IInv, WorkerOwnsLease
<1> QED
  BY <1>1, <1>3, <1>4 DEF DInv

\* The call returns: what it leaves behind in the ledger decides.
LEMMA ReturnStep ==
  ASSUME DInv, task # None, Return, UNCHANGED session,
         lease' = lease \/ (worker # None /\ ClaimLease(worker.token)),
         delivery' \in [Subs -> Rows], accepts' \in [Subs -> Nat],
         SubmittedOnce', VerdictsAreTrue', (\A s \in Subs : Before(s) => accepts[s] = 0)'
  PROVE  DInv'
<1>1. pc[Project] = "idle" /\ pc' = pc
  BY DEF DInv, DelivererInv, session
<1>2. /\ task' = None /\ lock' # Project
      /\ lock' = lock \/ (lock = Project /\ lock' = None)
  BY NoneAssumption DEF Return, Threads
<1>3. IInv'
  BY <1>1, <1>2, MutexStep DEF DInv
<1>4. DeliveryTypeOK' /\ SubmissionInv'
  BY <1>2 DEF DeliveryTypeOK, SubmissionInv
<1>5. DelivererInv' /\ DelivererKeepsWorker'
  BY <1>2 DEF DelivererInv, DelivererKeepsWorker
<1> QED
  BY <1>3, <1>4, <1>5 DEF DInv

\* A call that returns and writes nothing.
LEMMA ReturnOnly ==
  ASSUME DInv, task # None, Return, UNCHANGED <<session, ledger>>,
         lease' = lease \/ (worker # None /\ ClaimLease(worker.token))
  PROVE  DInv'
<1>1. delivery' \in [Subs -> Rows] /\ accepts' \in [Subs -> Nat]
      /\ SubmittedOnce' /\ VerdictsAreTrue'
      /\ (\A s \in Subs : Before(s) => accepts[s] = 0)'
  BY DEF DInv, DeliveryTypeOK, SubmissionInv, Before, SubmittedOnce, VerdictsAreTrue, ledger
<1> QED
  BY <1>1, ReturnStep

LEMMA QueueDeliveryStep ==
  ASSUME DInv, NEW s \in Subs, QueueDelivery(s)
  PROVE  DInv'
<1>1. IInv'
  BY TimeStep, TypesApart DEF DInv, IInv, QueueDelivery, vars, durable, world, memory
<1>2. /\ task = None /\ pc[Project] = "idle" /\ UNCHANGED <<pc, lock, accepts>>
      /\ task' = [sub |-> s, step |-> "load", state |-> "none"]
  BY DEF QueueDelivery, vars, memory
<1>3. task' \in Task /\ task'.step = "load"
  BY <1>2 DEF Task, Rows
<1>4. lock # Project
  BY <1>2 DEF DInv, DelivererInv, Launching
<1>5. /\ delivery' \in [Subs -> Rows]
      /\ \A u \in Subs : delivery'[u] = delivery[u] \/ (Before(u) /\ delivery'[u] = "pending")
  BY DEF DInv, DeliveryTypeOK, QueueDelivery, Rows, Before
<1>6. DeliveryTypeOK'
  BY <1>2, <1>3, <1>5 DEF DInv, DeliveryTypeOK
<1>7. DelivererInv' /\ DelivererKeepsWorker'
  BY <1>2, <1>3, <1>4 DEF DelivererInv, DelivererKeepsWorker, Reconciling
<1>8. SubmissionInv' /\ SubmittedOnce' /\ VerdictsAreTrue'
  BY <1>2, <1>3, <1>5 DEF DInv, SubmissionInv, Before, SubmittedOnce, VerdictsAreTrue
<1> QED
  BY <1>1, <1>6, <1>7, <1>8 DEF DInv

LEMMA LoadDeliveryStep ==
  ASSUME DInv, LoadDelivery
  PROVE  DInv'
<1>1. IInv'
  BY TimeStep, TypesApart DEF DInv, IInv, LoadDelivery, vars, durable, world, memory
<1>2. /\ task # None /\ task.step = "load" /\ UNCHANGED <<pc, lock, delivery, accepts>>
      /\ task' = [task EXCEPT !.step = "lock", !.state = delivery[task.sub]]
  BY DEF LoadDelivery, vars, memory, ledger
<1>3. task \in Task /\ delivery[task.sub] \in Rows
  BY <1>2, TaskFields DEF DInv
<1>4. task' \in Task /\ task'.step = "lock" /\ task'.sub = task.sub
      /\ task'.state = delivery[task.sub]
  BY <1>2, <1>3 DEF Task
<1>5. DeliveryTypeOK' /\ SubmittedOnce' /\ VerdictsAreTrue'
  BY <1>2, <1>4 DEF DInv, DeliveryTypeOK, SubmittedOnce, VerdictsAreTrue
<1>6. DelivererInv' /\ DelivererKeepsWorker'
  BY <1>2, <1>4 DEF DInv, DelivererInv, DelivererKeepsWorker, Reconciling, Launching
<1>7. SubmissionInv'
  BY <1>2, <1>4 DEF DInv, SubmissionInv, Before
<1> QED
  BY <1>1, <1>5, <1>6, <1>7 DEF DInv

LEMMA BeginStep ==
  ASSUME DInv, BeginReconcile
  PROVE  DInv'
<1>1. /\ task # None /\ task.step = "lock" /\ lock = None
      /\ UNCHANGED <<session, delivery, accepts>>
  BY DEF BeginReconcile, ledger
<1>2. CASE Return /\ UNCHANGED lease
  BY <1>1, <1>2, ReturnOnly DEF ledger
<1>3. CASE worker # None /\ ClaimLease(worker.token) /\ Return
  BY <1>1, <1>3, ReturnOnly DEF ledger
<1>4. CASE /\ worker # None /\ ClaimLease(worker.token) /\ worker.session = 0
           /\ task.state \notin {"accepted", "rejected"} /\ lock' = Project
           /\ To(IF task.state = "uncertain" THEN "lookup" ELSE "mark")
  <2>1. IInv'
    BY <1>1, <1>4, MutexStep DEF DInv, DelivererInv
  <2>2. /\ task' \in Task /\ task' # None /\ task'.sub = task.sub
        /\ task'.step = IF task.state = "uncertain" THEN "lookup" ELSE "mark"
    BY <1>1, <1>4, ToStep DEF DInv, Reconciling
  <2>3. task.state = delivery[task.sub] /\ task.state \in Rows /\ task.sub \in Subs
    BY <1>1, TaskFields DEF DInv, SubmissionInv
  <2>4. DeliveryTypeOK' /\ SubmittedOnce' /\ VerdictsAreTrue'
    BY <1>1, <2>2 DEF DInv, DeliveryTypeOK, SubmittedOnce, VerdictsAreTrue
  <2>5. SubmissionInv'
    BY <1>1, <1>4, <2>2, <2>3 DEF DInv, SubmissionInv, Before, Rows
  <2>6. DelivererInv'
    BY <1>1, <1>4, <2>2 DEF DInv, DelivererInv, Reconciling, session
  <2>7. DelivererKeepsWorker'
    BY <1>1, <1>4, <2>1 DEF DelivererKeepsWorker, IInv, WorkerOwnsLease, session
  <2> QED
    BY <2>1, <2>4, <2>5, <2>6, <2>7 DEF DInv
<1> QED
  BY <1>2, <1>3, <1>4 DEF BeginReconcile

\* The steps that only change where the deliver call is, under the mutex.
LEMMA ToOnly ==
  ASSUME DInv, task # None, task.step \in Reconciling, UNCHANGED <<session, lease, lock>>,
         task' \in Task, task' # None, task'.step \in Reconciling,
         delivery' \in [Subs -> Rows], accepts' \in [Subs -> Nat],
         SubmissionInv', SubmittedOnce', VerdictsAreTrue'
  PROVE  DInv'
<1>1. IInv'
  BY MutexStep DEF DInv, DelivererInv
<1>2. DeliveryTypeOK' /\ DelivererInv'
  BY DEF DInv, DeliveryTypeOK, DelivererInv, session
<1>3. DelivererKeepsWorker'
  BY DEF DInv, DelivererKeepsWorker, Owns, session
<1> QED
  BY <1>1, <1>2, <1>3 DEF DInv

LEMMA MarkDeliveryStep ==
  ASSUME DInv, MarkDelivery
  PROVE  DInv'
<1>1. /\ task # None /\ task.step = "mark"
      /\ UNCHANGED <<session, lease, accepts>>
  BY DEF MarkDelivery
<1>2. CASE Return /\ UNCHANGED delivery
  BY <1>1, <1>2, ReturnOnly DEF ledger
<1>3. CASE /\ delivery' = [delivery EXCEPT ![task.sub] = "uncertain"]
           /\ To("submit") /\ UNCHANGED lock
  <2>1. /\ task.sub \in Subs /\ task' \in Task /\ task' # None
        /\ task'.sub = task.sub /\ task'.step = "submit"
    BY <1>1, <1>3, TaskFields, ToStep DEF DInv, Reconciling
  <2>2. /\ delivery' \in [Subs -> Rows] /\ delivery'[task.sub] = "uncertain"
        /\ \A s \in Subs \ {task.sub} : delivery'[s] = delivery[s]
    BY <1>3, <2>1 DEF DInv, DeliveryTypeOK, Rows
  <2>3. accepts[task.sub] = 0
    BY <1>1, <2>1 DEF DInv, SubmissionInv
  <2>4. SubmissionInv'
    BY <1>1, <2>1, <2>2, <2>3 DEF DInv, SubmissionInv, Before
  <2>5. SubmittedOnce' /\ VerdictsAreTrue'
    BY <1>1, <2>2 DEF DInv, SubmittedOnce, VerdictsAreTrue
  <2> QED
    BY <1>1, <1>3, <2>1, <2>2, <2>4, <2>5, ToOnly DEF DInv, DeliveryTypeOK, Reconciling
<1> QED
  BY <1>2, <1>3 DEF MarkDelivery

LEMMA LookupStep ==
  ASSUME DInv, LookupSubmission
  PROVE  DInv'
<1>1. /\ task # None /\ task.step = "lookup"
      /\ UNCHANGED <<session, lease, lock, delivery, accepts>>
  BY DEF LookupSubmission, vars, durable, world, memory, session, ledger
<1>2. /\ task.sub \in Subs /\ accepts[task.sub] \in Nat /\ task' \in Task /\ task' # None
      /\ task'.sub = task.sub
      /\ task'.step = IF accepts[task.sub] > 0 THEN "accept" ELSE "submit"
  BY <1>1, TaskFields, ToStep DEF DInv, LookupSubmission, Reconciling
<1>3. SubmissionInv' /\ SubmittedOnce' /\ VerdictsAreTrue'
  BY <1>1, <1>2 DEF DInv, SubmissionInv, Before, SubmittedOnce, VerdictsAreTrue
<1> QED
  BY <1>1, <1>2, <1>3, ToOnly DEF DInv, DeliveryTypeOK, Reconciling

\* A submission that the provider accepted, n times, or did not.
LEMMA Accepting ==
  ASSUME DInv, task # None, task.step = "submit", NEW n \in {0, 1},
         accepts' = [accepts EXCEPT ![task.sub] = @ + n], UNCHANGED delivery
  PROVE  /\ task.sub \in Subs /\ accepts' \in [Subs -> Nat] /\ accepts'[task.sub] = n
         /\ SubmittedOnce' /\ VerdictsAreTrue'
         /\ (\A s \in Subs : Before(s) => accepts[s] = 0)'
<1>1. task.sub \in Subs /\ accepts[task.sub] = 0 /\ delivery[task.sub] = "uncertain"
  BY TaskFields DEF DInv, SubmissionInv
<1>2. /\ accepts' \in [Subs -> Nat] /\ accepts'[task.sub] = n
      /\ \A s \in Subs \ {task.sub} : accepts'[s] = accepts[s]
  BY <1>1 DEF DInv, DeliveryTypeOK
<1>3. SubmittedOnce' /\ VerdictsAreTrue'
  BY <1>1, <1>2 DEF DInv, SubmittedOnce, VerdictsAreTrue
<1>4. (\A s \in Subs : Before(s) => accepts[s] = 0)'
  BY <1>1, <1>2 DEF DInv, SubmissionInv, Before
<1> QED
  BY <1>1, <1>2, <1>3, <1>4

LEMMA SubmitStep ==
  ASSUME DInv, SubmitAccepted \/ SubmitUncertain \/ SubmitRejected
  PROVE  DInv'
<1>1. task # None /\ task.step = "submit" /\ UNCHANGED <<session, lease, delivery>>
  BY DEF SubmitAccepted, SubmitUncertain, SubmitRejected, vars, durable, world, memory,
         session, ledger
<1>2. CASE SubmitAccepted
  <2>1. accepts' = [accepts EXCEPT ![task.sub] = @ + 1] /\ UNCHANGED lock
    BY <1>2 DEF SubmitAccepted, vars, memory
  <2>2. /\ task' \in Task /\ task' # None /\ task'.sub = task.sub /\ task'.step = "accept"
    BY <1>1, <1>2, ToStep DEF DInv, SubmitAccepted, Reconciling
  <2>3. SubmissionInv'
    BY <1>1, <2>1, <2>2, Accepting DEF DInv, SubmissionInv
  <2> QED
    BY <1>1, <2>1, <2>2, <2>3, Accepting, ToOnly DEF DInv, DeliveryTypeOK, Reconciling
<1>3. CASE SubmitUncertain
  <2>1. PICK n \in {0, 1} : accepts' = [accepts EXCEPT ![task.sub] = @ + n]
    BY <1>3 DEF SubmitUncertain
  <2> QED
    BY <1>1, <1>3, <2>1, Accepting, ReturnStep DEF DInv, DeliveryTypeOK, SubmitUncertain
<1>4. CASE SubmitRejected
  <2>1. UNCHANGED <<accepts, lock>>
    BY <1>4 DEF SubmitRejected, ledger
  <2>2. /\ task' \in Task /\ task' # None /\ task'.sub = task.sub /\ task'.step = "reject"
    BY <1>1, <1>4, ToStep DEF DInv, SubmitRejected, Reconciling
  <2>3. SubmissionInv' /\ SubmittedOnce' /\ VerdictsAreTrue'
    BY <1>1, <2>1, <2>2 DEF DInv, SubmissionInv, Before, SubmittedOnce, VerdictsAreTrue
  <2> QED
    BY <1>1, <2>1, <2>2, <2>3, ToOnly DEF DInv, DeliveryTypeOK, Reconciling
<1> QED
  BY <1>2, <1>3, <1>4

LEMMA VerdictStep ==
  ASSUME DInv, RecordVerdict
  PROVE  DInv'
<1> DEFINE row == IF task.step = "accept" THEN "accepted" ELSE "rejected"
<1>1. /\ task # None /\ task.step \in {"accept", "reject"} /\ Return
      /\ UNCHANGED <<session, lease, accepts>>
      /\ delivery' = [delivery EXCEPT ![task.sub] = row] \/ delivery' = delivery
  BY DEF RecordVerdict
<1>2. /\ task.sub \in Subs /\ row \in {"accepted", "rejected"}
      /\ row = "accepted" => accepts[task.sub] > 0
      /\ row = "rejected" => accepts[task.sub] = 0
  BY <1>1, TaskFields DEF DInv, SubmissionInv
<1> HIDE DEF row
<1>3. /\ delivery' \in [Subs -> Rows]
      /\ delivery'[task.sub] \in {row, delivery[task.sub]}
      /\ \A s \in Subs \ {task.sub} : delivery'[s] = delivery[s]
  BY <1>1, <1>2 DEF DInv, DeliveryTypeOK, Rows
<1>4. SubmittedOnce' /\ VerdictsAreTrue'
  BY <1>1, <1>2, <1>3 DEF DInv, SubmittedOnce, VerdictsAreTrue
<1>5. (\A s \in Subs : Before(s) => accepts[s] = 0)'
  BY <1>1, <1>2, <1>3 DEF DInv, SubmissionInv, Before
<1> QED
  BY <1>1, <1>3, <1>4, <1>5, ReturnStep DEF DInv, DeliveryTypeOK

LEMMA DeliveryStepInv ==
  ASSUME DInv, DeliveryStep
  PROVE  DInv'
<1>1. CASE DeliveryFails
  BY <1>1, ReturnOnly DEF DeliveryFails
<1> QED
  BY <1>1, LoadDeliveryStep, BeginStep, MarkDeliveryStep, LookupStep, SubmitStep, VerdictStep
     DEF DeliveryStep

LEMMA DeliveryNextInv ==
  ASSUME DInv, [DeliveryNext]_dvars
  PROVE  DInv'
<1>1. CASE UNCHANGED dvars
  <2>1. IInv'
    BY <1>1, NextStep DEF DInv, dvars
  <2>2. Undisturbed
    BY <1>1 DEF dvars, vars, memory, Undisturbed
  <2> QED
    BY <1>1, <2>1, <2>2, SessionStep DEF dvars
<1>2. CASE Progress /\ UNCHANGED <<ledger, task>>
  BY <1>2, ProgressStep, ProgressUndisturbed, SessionStep DEF DInv
<1>3. CASE task = None /\ ProjectCall /\ UNCHANGED <<ledger, task>>
  <2>1. IInv'
    BY <1>3, NextStep DEF DInv, Next
  <2>2. pc[Project] = "idle" /\ lock # Project
    BY <1>3 DEF DInv, DelivererInv, ProjectCall, ProjectLaunch, ProjectEnsure, ProjectStop,
                Launching
  <2>3. lock' = Project => pc'[Project] \in Launching
    BY <1>3, <2>2, TypesApart
       DEF DInv, IInv, ProjectCall, ProjectLaunch, ProjectEnsure, ProjectStop, Go, memory,
           Threads, Launching
  <2>4. DelivererInv' /\ DelivererKeepsWorker'
    BY <1>3, <2>3 DEF DelivererInv, DelivererKeepsWorker
  <2>5. DeliveryTypeOK' /\ SubmissionInv' /\ SubmittedOnce' /\ VerdictsAreTrue'
    BY <1>3 DEF DInv, DeliveryTypeOK, SubmissionInv, Before, SubmittedOnce, VerdictsAreTrue,
                ledger
  <2> QED
    BY <2>1, <2>4, <2>5 DEF DInv
<1>4. CASE Crash /\ task' = None /\ UNCHANGED ledger
  <2>1. IInv'
    BY <1>4, CrashStep DEF DInv
  <2>2. lock' # Project
    BY <1>4, NoneAssumption DEF Crash, Threads
  <2>3. DelivererInv' /\ DelivererKeepsWorker'
    BY <1>4, <2>2 DEF DelivererInv, DelivererKeepsWorker
  <2>4. DeliveryTypeOK' /\ SubmissionInv' /\ SubmittedOnce' /\ VerdictsAreTrue'
    BY <1>4 DEF DInv, DeliveryTypeOK, SubmissionInv, Before, SubmittedOnce, VerdictsAreTrue,
                ledger
  <2> QED
    BY <2>1, <2>3, <2>4 DEF DInv
<1> QED
  BY <1>1, <1>2, <1>3, <1>4, QueueDeliveryStep, DeliveryStepInv DEF DeliveryNext

LEMMA DeliveryInitInv == DeliveryInit => DInv
<1> SUFFICES ASSUME DeliveryInit PROVE DInv
  OBVIOUS
<1>1. IInv
  BY InitIInv DEF DeliveryInit
<1>2. DeliveryTypeOK /\ SubmissionInv /\ SubmittedOnce /\ VerdictsAreTrue
  BY DEF DeliveryInit, DeliveryTypeOK, Rows, SubmissionInv, SubmittedOnce, VerdictsAreTrue
<1>3. DelivererInv /\ DelivererKeepsWorker
  BY NoneAssumption DEF DeliveryInit, Init, DelivererInv, DelivererKeepsWorker, Threads
<1> QED
  BY <1>1, <1>2, <1>3 DEF DInv

\* A delivery renews the lease of the worker that owns it, and of no other.
LEMMA DeliveryKeepsLease ==
  ASSUME DInv, [DeliveryNext]_dvars
  PROVE  KeepsLease
<1>1. ASSUME UNCHANGED lease PROVE KeepsLease
  BY <1>1 DEF KeepsLease
<1>2. CASE DeliveryStep
  <2>1. lease' = lease \/ (worker # None /\ ClaimLease(worker.token))
    BY <1>2 DEF DeliveryStep, LoadDelivery, BeginReconcile, MarkDelivery, LookupSubmission,
                SubmitAccepted, SubmitUncertain, SubmitRejected, RecordVerdict,
                DeliveryFails, vars, durable
  <2>2. CASE worker # None /\ ClaimLease(worker.token)
    BY <2>2, TypesApart, ClaimedRow DEF DInv, IInv, WorkerOwnsLease, Owns, KeepsLease
  <2> QED
    BY <1>1, <2>1, <2>2
<1>3. CASE [Next]_vars
  BY <1>3, LeaseStep DEF DInv
<1>4. CASE \E s \in Subs : QueueDelivery(s)
  BY <1>1, <1>4 DEF QueueDelivery, vars, durable
<1> QED
  BY <1>2, <1>3, <1>4 DEF DeliveryNext, Next, dvars

-----------------------------------------------------------------------------
(* Theorems *)

\* Every reachable state of the composition of sessions and deliveries satisfies the
\* inductive invariant.
THEOREM DeliveryInvariant == DeliverySpec => []DInv
BY DeliveryInitInv, DeliveryNextInv, PTL DEF DeliverySpec

\* The provider accepts a submission at most once: reconcile_delivery marks before it
\* submits and looks up before it submits again.
THEOREM SubmittedAtMostOnce == DeliverySpec => []SubmittedOnce
<1>1. DInv => SubmittedOnce
  BY DEF DInv
<1> QED
  BY <1>1, DeliveryInvariant, PTL

\* What set_delivery_state records for good is what the provider did.
THEOREM RecordedVerdictsAreTrue == DeliverySpec => []VerdictsAreTrue
<1>1. DInv => VerdictsAreTrue
  BY DEF DInv
<1> QED
  BY <1>1, DeliveryInvariant, PTL

\* While deliver holds the workers mutex, no stop, pump pass or launch replaces the
\* worker it submits to.
THEOREM WorkerStaysWhileDelivering == DeliverySpec => []DelivererKeepsWorker
<1>1. DInv => DelivererKeepsWorker
  BY DEF DInv
<1> QED
  BY <1>1, DeliveryInvariant, PTL

\* The session half keeps its promises while deliveries renew the lease and hold the
\* mutex: the worker in the map owns the lease, no process is lost, and the ledger
\* knows of every provider call.
THEOREM SessionsKeptByDelivery ==
  DeliverySpec => [](WorkerOwnsLease /\ NoOrphanProcess /\ RecordedBeforeOpened)
<1>1. DInv => WorkerOwnsLease /\ NoOrphanProcess /\ RecordedBeforeOpened
  BY DEF DInv, IInv
<1> QED
  BY <1>1, DeliveryInvariant, PTL

\* Neither a launch nor a delivery takes a lease in force from its owner.
THEOREM NoTakeoverWhileDelivering == DeliverySpec => NoTakeoverInForce
<1>1. ASSUME DInv, [DeliveryNext]_dvars
      PROVE  [\A p \in procs : Owns(p.token) /\ lease.expires > now /\ p \in procs'
                 => lease' = None \/ lease'.token = p.token]_vars
  BY <1>1, DeliveryKeepsLease DEF KeepsLease, Owns
<1> QED
  BY <1>1, DeliveryInvariant, PTL DEF DeliverySpec, NoTakeoverInForce
=============================================================================
