----------------------- MODULE HarnessSession_proofs ------------------------
(***************************************************************************)
(* Proofs about HarnessSession for any number of controllers, operations,  *)
(* leases, sessions and failures: the steps of stop, of the pump and of the*)
(* environment, and the theorems.  The invariant and the argument are in   *)
(* HarnessSession_inv, the steps of a launch in HarnessSession_launch.     *)
(***************************************************************************)
EXTENDS HarnessSession_launch

(* Renewals, stops and the pump *)

\* ensure_resumed renews the token of the worker it has just put in the map.
LEMMA RenewStep ==
  ASSUME IInv, NEW t \in Threads, RenewReady(t)
  PROVE  IInv' /\ Frame(t)
<1>1. lock = t /\ \A u \in Threads \ {t} : pc[u] \notin Launching
  BY OneLaunch DEF RenewReady, Launching
<1>2. Moves(t) /\ pc'[t] = "idle"
  BY FinishMoves DEF IInv, RenewReady
<1>3. /\ lease' = lease \/ ClaimLease(loc[t].token)
      /\ pc[t] = "renew" /\ UNCHANGED <<ready, operation, now, tokens, sessions, worker, procs>>
  BY DEF RenewReady
<1>4. /\ worker # None /\ worker.token = loc[t].token
      /\ loc[t].token \in Nat /\ worker.token <= tokens
  BY <1>3, TypesApart DEF IInv, HolderInv, TokenInv
<1>5. \/ lease' = lease
      \/ lease' \in Lease /\ lease' # None /\ lease'.token = worker.token
  <2>1. CASE ClaimLease(loc[t].token)
    BY <1>4, <2>1, ClaimedRow DEF IInv
  <2> QED
    BY <1>3, <2>1
<1>6. TypeOK'
  BY ZenonT(60), <1>2, <1>3, <1>5 DEF IInv, TypeOK, Moves, ThreadsOK
<1>7. MutexInv' /\ TokenInv'
  BY <1>1, <1>2, <1>3, <1>4, <1>5
     DEF IInv, MutexInv, TokenInv, Moves, Launching, Holding, Claimed, Removed
<1>8. HolderInv'
  BY <1>1, <1>2, <1>3 DEF IInv, HolderInv, Moves, Owns, Holding, Claimed, Removed, Launching
<1>9. WorkerOwnsLease'
  BY <1>3, <1>5 DEF IInv, WorkerOwnsLease, Owns
<1>10. NoOrphanProcess' /\ OpenedInv' /\ SessionInv'
  BY <1>2, <1>3 DEF IInv, NoOrphanProcess, OpenedInv, SessionInv, Moves
<1>11. LedgerInv' /\ RecordedBeforeOpened'
  BY SMTT(60), <1>2, <1>3, LedgerUnmoved, ProcessesKnown DEF Launching
<1>12. Frame(t)
  BY <1>2, <1>3, <1>4, <1>5, RenewReady(t)
     DEF IInv, WorkerOwnsLease, Owns, Frame, KeepsLease, Launching, RenewReady
<1> QED
  BY <1>6, <1>7, <1>8, <1>9, <1>10, <1>11, <1>12 DEF IInv

\* A thread takes the worker out of the map, whatever becomes of the renewal before.
Takes(t) ==
  /\ Moves(t) /\ lock = None /\ worker # None /\ worker' = None
  /\ pc[t] \notin Launching \cup Removed
  /\ pc'[t] = "teardown" /\ loc'[t].token = worker.token
  /\ lease' = lease \/ lease' \in Lease
  /\ lease' # None => lease'.token <= tokens
  /\ UNCHANGED <<ready, operation, now, tokens, sessions, procs, lock>>

\* The token passes from the map to the thread that stops the worker.
LEMMA TakeStep ==
  ASSUME IInv, NEW t \in Threads, Takes(t)
  PROVE  IInv'
<1>1. worker.token \in Nat /\ worker.session \in Nat /\ worker.token <= tokens
      /\ worker = [token |-> worker.token, session |-> worker.session]
  BY TypesApart DEF IInv, TokenInv, Takes, Worker
<1>2. TypeOK'
  BY ZenonT(60) DEF IInv, TypeOK, Moves, ThreadsOK, Takes
<1>3. MutexInv'
  BY DEF IInv, MutexInv, Moves, Takes, Launching
<1>4. TokenInv'
  BY <1>1 DEF IInv, TokenInv, Moves, Takes, Holding, Claimed, Removed
<1>5. HolderInv'
  <2>1. \A u \in Threads \ {t} : pc'[u] \notin Claimed \cup {"renew"}
    BY NoneAssumption DEF IInv, MutexInv, Moves, Takes, Claimed, Launching
  <2>2. \A u \in Threads \ {t} : pc'[u] \in Holding => loc'[u].token # loc'[t].token
    BY <2>1 DEF IInv, HolderInv, Moves, Takes, Holding
  <2>3. \A u, v \in Threads \ {t} :
          u # v /\ pc'[u] \in Holding /\ pc'[v] \in Holding => loc'[u].token # loc'[v].token
    BY DEF IInv, HolderInv, Moves, Takes
  <2>4. worker' = None /\ pc'[t] = "teardown"
    BY DEF Takes
  <2> QED
    BY <2>1, <2>2, <2>3, <2>4 DEF HolderInv, Claimed
<1>6. WorkerOwnsLease' /\ SessionInv'
  BY DEF IInv, WorkerOwnsLease, SessionInv, Moves, Takes
<1>7. OpenedInv'
  BY DEF IInv, OpenedInv, Moves, Takes
<1>8. NoOrphanProcess'
  <2> SUFFICES ASSUME NEW p \in procs
               PROVE  \E u \in Threads :
                           pc'[u] \in {"commit", "teardown"} /\ loc'[u].token = p.token
    BY DEF NoOrphanProcess, Takes
  <2>1. CASE worker = [token |-> p.token, session |-> p.session]
    BY <2>1 DEF Takes
  <2>2. CASE \E u \in Threads : pc[u] \in {"commit", "teardown"} /\ loc[u].token = p.token
    BY <2>2 DEF Takes, Moves, Launching, Removed
  <2> QED
    BY SMTT(60), <2>1, <2>2 DEF IInv, NoOrphanProcess
<1>9. LedgerInv' /\ RecordedBeforeOpened'
  BY LedgerUnmoved, ProcessesKnown DEF Launching, Takes
<1> QED
  BY SMTT(60), <1>2, <1>3, <1>4, <1>5, <1>6, <1>7, <1>8, <1>9 DEF IInv

LEMMA RemoveStep ==
  ASSUME IInv, NEW t \in Threads, RemoveWorker(t)
  PROVE  IInv' /\ Frame(t)
<1>1. UNCHANGED <<lease, ready, operation, now, tokens, sessions, lock, procs>>
      /\ pc[t] = "remove" /\ worker' = None /\ lock = None
  BY SMTT(60) DEF RemoveWorker, durable, world
<1>2. CASE worker # None
  <2> DEFINE l == [loc[t] EXCEPT !.token = worker.token, !.session = worker.session]
  <2>1. loc[t] \in Local /\ worker.token \in Nat /\ worker.session \in Nat
    BY SMTT(60), <1>2, TypesApart DEF IInv
  <2>2. l \in Local /\ l.token = worker.token
    BY ZenonT(60), <2>1, TakenLocal
  <2> HIDE DEF l
  <2>3. Moves(t) /\ pc'[t] = "teardown" /\ loc'[t] = l
    BY <1>2, <2>2, KeepMoves DEF IInv, RemoveWorker, Steps, l
  <2> QED
    BY SMTT(60), <1>1, <1>2, <2>2, <2>3, TakeStep
       DEF Takes, Frame, KeepsLease, Launching, Removed, IInv, TokenInv
<1>3. CASE worker = None
  <2>1. Moves(t) /\ pc'[t] \in {"idle", "settle"}
    BY <1>3, RecordTypes, FinishMoves, SettleMoves DEF IInv, RemoveWorker, Outcomes
  <2> QED
    BY <1>1, <1>3, <2>1, SameLedger, QuietStep DEF Frame, KeepsLease, Launching, IInv, Quiet
<1> QED
  BY <1>2, <1>3

LEMMA TeardownStep ==
  ASSUME IInv, NEW t \in Threads, TeardownWorker(t)
  PROVE  IInv' /\ Frame(t)
<1>1. Moves(t) /\ pc'[t] = "release" /\ loc'[t] = loc[t]
  BY SMTT(60), GoMoves DEF IInv, TeardownWorker, Steps
<1>2. /\ procs' = {p \in procs : p.token # loc[t].token} /\ pc[t] = "teardown"
      /\ UNCHANGED <<lease, ready, operation, now, tokens, sessions, worker, lock>>
  BY SMTT(60) DEF TeardownWorker, durable, world
<1>3. TypeOK'
  BY ZenonT(60), <1>1, <1>2 DEF IInv, TypeOK, Moves, ThreadsOK
<1>4. MutexInv' /\ TokenInv'
  BY SMTT(60), <1>1, <1>2
     DEF IInv, MutexInv, TokenInv, Moves, Launching, Holding, Claimed, Removed
<1>5. HolderInv'
  BY <1>1, <1>2 DEF IInv, HolderInv, Moves, Owns, Holding, Claimed, Removed
<1>6. WorkerOwnsLease' /\ OpenedInv' /\ SessionInv'
  BY <1>1, <1>2 DEF IInv, WorkerOwnsLease, Owns, OpenedInv, SessionInv, Moves
<1>7. NoOrphanProcess'
  BY SMTT(60), <1>1, <1>2 DEF IInv, NoOrphanProcess, Moves
<1>8. LedgerInv' /\ RecordedBeforeOpened'
  BY SMTT(60), <1>1, <1>2, LedgerUnmoved, ProcessesKnown DEF Launching
<1>9. Frame(t)
  BY <1>1, <1>2 DEF Frame, KeepsLease, Launching
<1> QED
  BY <1>3, <1>4, <1>5, <1>6, <1>7, <1>8, <1>9 DEF IInv

\* A late release finds its own token or leaves the row of a successor alone.
LEMMA ReleaseStep ==
  ASSUME IInv, NEW t \in Threads, ReleaseWorker(t)
  PROVE  IInv' /\ Frame(t)
<1>1. Moves(t) /\ pc'[t] \in {"idle", "settle"}
  BY SMTT(60), RecordTypes, FinishMoves, SettleMoves DEF IInv, ReleaseWorker, Outcomes
<1>2. /\ lease' = IF Owns(loc[t].token) THEN None ELSE lease
      /\ pc[t] = "release"
      /\ UNCHANGED <<ready, operation, now, tokens, sessions, worker, lock, procs>>
  BY DEF ReleaseWorker, ReleaseLease, memory
<1>3. TypeOK'
  BY ZenonT(60), <1>1, <1>2 DEF IInv, TypeOK, Moves, ThreadsOK
<1>4. MutexInv' /\ TokenInv'
  BY SMTT(60), <1>1, <1>2
     DEF IInv, MutexInv, TokenInv, Moves, Launching, Holding, Claimed, Removed
<1>5. HolderInv'
  BY SMTT(60), <1>1, <1>2 DEF IInv, HolderInv, Moves, Owns, Holding, Claimed, Removed
<1>6. WorkerOwnsLease'
  BY SMTT(60), <1>2 DEF IInv, WorkerOwnsLease, HolderInv, Owns, Removed
<1>7. NoOrphanProcess'
  BY SMTT(60), <1>1, <1>2 DEF IInv, NoOrphanProcess, Moves
<1>8. OpenedInv' /\ SessionInv'
  BY SMTT(60), <1>1, <1>2 DEF IInv, OpenedInv, SessionInv, Moves
<1>9. LedgerInv' /\ RecordedBeforeOpened'
  BY SMTT(60), <1>1, <1>2, LedgerUnmoved, ProcessesKnown DEF Launching
<1>10. Frame(t)
  BY <1>1, <1>2 DEF Frame, KeepsLease, Launching
<1> QED
  BY SMTT(60), <1>3, <1>4, <1>5, <1>6, <1>7, <1>8, <1>9, <1>10 DEF IInv

\* Whoever renews the lease of the worker in the map leaves everything else alone.
LEMMA RenewalStep ==
  ASSUME IInv, worker # None, ClaimLease(worker.token),
         UNCHANGED <<ready, operation, now, tokens, sessions, worker, lock, procs, pc, loc>>
  PROVE  IInv'
<1>1. lease' \in Lease /\ lease' # None /\ lease'.token = worker.token
  BY SMTT(60), TypesApart, ClaimedRow DEF IInv
<1>2. TypeOK' /\ MutexInv' /\ TokenInv'
  BY ZenonT(60), <1>1 DEF IInv, TypeOK, MutexInv, TokenInv
<1>3. HolderInv' /\ WorkerOwnsLease'
  BY SMTT(60), <1>1 DEF IInv, HolderInv, WorkerOwnsLease, Owns
<1>4. NoOrphanProcess' /\ OpenedInv' /\ SessionInv' /\ LedgerInv' /\ RecordedBeforeOpened'
  BY DEF IInv, NoOrphanProcess, OpenedInv, SessionInv, LedgerInv, Recorded,
         RecordedBeforeOpened
<1> QED
  BY <1>2, <1>3, <1>4 DEF IInv

LEMMA EnsureStep ==
  ASSUME IInv, ProjectEnsure
  PROVE  IInv'
<1>1. Project \in Threads /\ pc[Project] = "idle" /\ lock = None
      /\ UNCHANGED <<ready, operation, now, tokens, sessions, worker, procs>>
  BY DEF Threads, ProjectEnsure, world
<1>2. CASE worker # None
  BY <1>1, <1>2, RenewalStep DEF ProjectEnsure
<1>3. CASE worker = None
  <2>1. PICK target \in 0 .. sessions :
          /\ lock' = Project /\ Go(Project, "claim")
          /\ Keep(Project, [Nothing EXCEPT !.target = target, !.ensure = TRUE])
          /\ UNCHANGED lease
    BY ZenonT(60), <1>3 DEF ProjectEnsure
  <2> DEFINE l == [Nothing EXCEPT !.target = target, !.ensure = TRUE]
  <2>2. l \in Local /\ l.op = None
    <3>1. target \in Nat
      BY TypesApart DEF IInv
    <3> QED
      BY ZenonT(60), <3>1, RecordTypes DEF Local
  <2> HIDE DEF l
  <2>3. Moves(Project) /\ pc'[Project] = "claim" /\ loc'[Project] = l
    BY <1>1, <2>1, <2>2, KeepMoves DEF IInv, Steps, l
  <2> QED
    BY SMTT(60), <1>1, <2>1, <2>2, <2>3, SameLedger, QuietStep DEF IInv, Quiet
<1> QED
  BY <1>2, <1>3

LEMMA PumpStep ==
  ASSUME IInv, PumpPass
  PROVE  IInv'
<1>1. Pump \in Threads /\ pc[Pump] = "idle" /\ worker # None /\ lock = None
      /\ UNCHANGED <<ready, operation, now, tokens, sessions, lock, procs>>
  BY DEF Threads, PumpPass
<1>2. worker.token \in Nat /\ worker.session \in Nat /\ worker.token <= tokens
  BY <1>1, TypesApart DEF IInv, TokenInv
<1>3. lease' = lease \/ ClaimLease(worker.token)
  BY DEF PumpPass
<1>4. /\ lease' = lease \/ lease' \in Lease
      /\ lease' # None => lease'.token <= tokens
  BY <1>2, <1>3, ClaimedRow DEF IInv, TokenInv
<1> DEFINE l == [Nothing EXCEPT !.token = worker.token, !.session = worker.session]
<1>5. CASE ClaimLease(worker.token) /\ UNCHANGED <<worker, pc, loc>>
  BY <1>1, <1>5, RenewalStep
<1>6. CASE worker' = None /\ Go(Pump, "teardown") /\ Keep(Pump, l)
  <2>1. l \in Local /\ l.token = worker.token
    BY ZenonT(60), <1>2, RecordTypes, TakenLocal
  <2> HIDE DEF l
  <2>2. Moves(Pump) /\ pc'[Pump] = "teardown" /\ loc'[Pump] = l
    BY <1>1, <1>6, <2>1, KeepMoves DEF IInv, Steps
  <2> QED
    BY <1>1, <1>4, <1>6, <2>1, <2>2, TakeStep DEF Takes, Launching, Removed
<1> QED
  BY <1>5, <1>6 DEF PumpPass

LEMMA CrashStep ==
  ASSUME IInv, Crash
  PROVE  IInv'
<1>1. /\ worker' = None /\ procs' = {} /\ UNCHANGED <<lease, ready, operation, now, tokens, sessions>>
      /\ pc' \in [Threads -> Steps] /\ loc' \in [Threads -> Local]
      /\ \A t \in Threads : pc'[t] = "idle"
  BY SMTT(60), RecordTypes DEF Crash, durable, Steps
<1>2. TypeOK' /\ MutexInv' /\ TokenInv' /\ HolderInv' /\ WorkerOwnsLease'
  BY ZenonT(60), <1>1 DEF IInv, TypeOK, MutexInv, TokenInv, HolderInv, WorkerOwnsLease,
              Launching, Holding, Claimed, Removed
<1>3. NoOrphanProcess' /\ OpenedInv' /\ SessionInv' /\ LedgerInv' /\ RecordedBeforeOpened'
  BY <1>1 DEF NoOrphanProcess, OpenedInv, SessionInv, LedgerInv, RecordedBeforeOpened,
              Launching
<1> QED
  BY <1>2, <1>3 DEF IInv

LEMMA TimeStep ==
  ASSUME IInv, now' \in Nat,
         UNCHANGED <<lease, ready, operation, tokens, sessions, worker, lock, procs, pc, loc>>
  PROVE  IInv'
<1>1. TypeOK' /\ MutexInv' /\ TokenInv' /\ HolderInv' /\ WorkerOwnsLease'
  BY ZenonT(60) DEF IInv, TypeOK, MutexInv, TokenInv, HolderInv, WorkerOwnsLease, Owns
<1>2. NoOrphanProcess' /\ OpenedInv' /\ SessionInv' /\ LedgerInv' /\ RecordedBeforeOpened'
  BY DEF IInv, NoOrphanProcess, OpenedInv, SessionInv, LedgerInv, Recorded,
         RecordedBeforeOpened
<1> QED
  BY SMTT(60), <1>1, <1>2 DEF IInv

LEMMA InitIInv == Init => IInv
<1> SUFFICES ASSUME Init PROVE IInv
  OBVIOUS
<1>1. TypeOK
  <2>1. State("absent") \in Entries({"absent", "prepared"} \cup Outcomes)
    BY DEF State, Entries
  <2> QED
    BY <2>1, RecordTypes DEF Init, TypeOK, Steps
<1>2. MutexInv /\ TokenInv /\ HolderInv /\ WorkerOwnsLease
  BY DEF Init, MutexInv, TokenInv, HolderInv, WorkerOwnsLease,
         Launching, Holding, Claimed, Removed
<1>3. NoOrphanProcess /\ OpenedInv /\ SessionInv /\ LedgerInv /\ RecordedBeforeOpened
  BY DEF Init, NoOrphanProcess, OpenedInv, SessionInv, LedgerInv, RecordedBeforeOpened,
         Launching
<1> QED
  BY <1>1, <1>2, <1>3 DEF IInv

\* The steps of a thread within a call of the supervisor.
LEMMA CallStep ==
  ASSUME IInv, NEW t \in Threads,
         ControllerStep(t) \/ LaunchStep(t) \/ StopStep(t) \/ Failure(t)
  PROVE  IInv' /\ Frame(t)
<1>1. CASE ControllerStep(t)
  BY SMTT(60), <1>1, LoadStep, ObserveStep, MarkStep, SettleStep, WakeStep
     DEF ControllerStep
<1>2. CASE LaunchStep(t)
  BY SMTT(60), <1>2, EnterStep, ClaimStep, MapFullStep, OpenStep, OpenFailsStep, ReleaseClaimStep,
     CommitReadyStep, CommitFailsStep, RenewStep DEF LaunchStep
<1>3. CASE StopStep(t)
  BY SMTT(60), <1>3, RemoveStep, TeardownStep, ReleaseStep DEF StopStep
<1> QED
  BY <1>1, <1>2, <1>3, FailureStep

LEMMA ProgressStep ==
  ASSUME IInv, Progress
  PROVE  IInv'
<1>1. ASSUME NEW c \in Controllers, ControllerStep(c) PROVE IInv'
  BY <1>1, CallStep DEF Threads
<1>2. ASSUME NEW t \in Threads, LaunchStep(t) \/ StopStep(t) \/ Failure(t) PROVE IInv'
  BY SMTT(60), <1>2, CallStep
<1>3. ASSUME Time PROVE IInv'
  BY <1>3, TimeStep, TypesApart
     DEF IInv, Time, Advance, StepBack, durable, memory
<1> QED
  BY SMTT(60), <1>1, <1>2, <1>3, QueueStep, PumpStep DEF Progress

LEMMA NextStep ==
  ASSUME IInv, [Next]_vars
  PROVE  IInv'
<1>1. CASE UNCHANGED vars
  BY <1>1, TimeStep, TypesApart DEF IInv, vars, durable, world, memory
<1>2. CASE ProjectCall
  BY <1>2, ProjectLaunchStep, EnsureStep, ProjectStopStep DEF ProjectCall
<1> QED
  BY SMTT(60), <1>1, <1>2, ProgressStep, CrashStep DEF Next

\* No step takes a lease in force from its owner: a launch claims past an expired one
\* only, with a token nobody had, and every renewal is of the worker in the map, which
\* owns the lease already.
LEMMA LeaseStep ==
  ASSUME IInv, [Next]_vars
  PROVE  KeepsLease
<1>1. ASSUME UNCHANGED lease PROVE KeepsLease
  BY <1>1 DEF KeepsLease
<1>2. ASSUME worker # None, ClaimLease(worker.token) PROVE KeepsLease
  BY <1>2, TypesApart, ClaimedRow DEF IInv, WorkerOwnsLease, Owns, KeepsLease
<1>3. CASE \E c \in Controllers, o \in Ops : QueueOperation(c, o)
  BY SMTT(60), <1>1, <1>3 DEF QueueOperation
<1>4. ASSUME NEW c \in Controllers, ControllerStep(c) PROVE KeepsLease
  BY SMTT(60), <1>4, CallStep DEF Threads, Frame
<1>5. ASSUME NEW t \in Threads, LaunchStep(t) \/ StopStep(t) \/ Failure(t)
      PROVE  KeepsLease
  BY <1>5, CallStep DEF Frame
<1>6. CASE PumpPass
  BY SMTT(60), <1>1, <1>2, <1>6 DEF PumpPass
<1>7. CASE ProjectCall
  BY ZenonT(60), <1>1, <1>2, <1>7
     DEF ProjectCall, ProjectLaunch, ProjectEnsure, ProjectStop, durable
<1>8. CASE Time \/ Crash \/ UNCHANGED vars
  BY <1>1, <1>8 DEF Time, Advance, StepBack, Crash, vars, durable
<1> QED
  BY <1>3, <1>4, <1>5, <1>6, <1>7, <1>8 DEF Next, Progress

-----------------------------------------------------------------------------
(* Theorems *)

\* Every reachable state of the supervisor satisfies the inductive invariant.
THEOREM HarnessInvariant == Spec => []IInv
BY InitIInv, NextStep, PTL DEF Spec

\* Whatever launches, stops, pump passes, failures and crashes interleave, the worker
\* in the map owns the durable lease and its session is the durable ready one.
THEOREM WorkerOwnsLeaseAlways == Spec => []WorkerOwnsLease
<1>1. IInv => WorkerOwnsLease
  BY DEF IInv
<1> QED
  BY <1>1, HarnessInvariant, PTL

\* No error path of launch_owned and no race of two stops loses a provider process.
THEOREM NoOrphanProcessAlways == Spec => []NoOrphanProcess
<1>1. IInv => NoOrphanProcess
  BY DEF IInv
<1> QED
  BY <1>1, HarnessInvariant, PTL

\* The ledger knows of every provider call that an operation made.
THEOREM RecordedBeforeOpenedAlways == Spec => []RecordedBeforeOpened
<1>1. IInv => RecordedBeforeOpened
  BY DEF IInv
<1> QED
  BY <1>1, HarnessInvariant, PTL

\* A lease in force keeps every launch out until its owner has been torn down.
THEOREM NoTakeoverInForceAlways == Spec => NoTakeoverInForce
<1>1. ASSUME IInv, [Next]_vars
      PROVE  [\A p \in procs : Owns(p.token) /\ lease.expires > now /\ p \in procs'
                 => lease' = None \/ lease'.token = p.token]_vars
  BY <1>1, LeaseStep DEF KeepsLease, Owns
<1> QED
  BY <1>1, HarnessInvariant, PTL DEF Spec, NoTakeoverInForce
=============================================================================
