----------------------- MODULE HarnessSession_launch ------------------------
(***************************************************************************)
(* The steps of launch_owned, from the claim of a lease to the session that*)
(* is recorded ready, keep the invariant of HarnessSession_inv.            *)
(***************************************************************************)
EXTENDS HarnessSession_inv

\* The ledger part of the invariant, where the ledger is not written.
LEMMA LedgerUnmoved ==
  ASSUME IInv, NEW t \in Threads, Moves(t), UNCHANGED operation,
         \/ pc'[t] \notin {"enter"} \cup Launching
         \/ pc[t] \in Launching /\ loc'[t].op = loc[t].op
  PROVE  LedgerInv'
BY DEF IInv, LedgerInv, Recorded, Moves

LEMMA ProcessesKnown ==
  ASSUME IInv, UNCHANGED operation, procs' \subseteq procs
  PROVE  RecordedBeforeOpened'
BY DEF IInv, RecordedBeforeOpened

\* The mutex admits one launch at a time.
LEMMA OneLaunch ==
  ASSUME IInv, NEW t \in Threads, pc[t] \in Launching
  PROVE  lock = t /\ \A u \in Threads \ {t} : pc[u] \notin Launching
BY DEF IInv, MutexInv

\* The fresh token is above every other, so no thread and no process has it.
LEMMA ClaimStep ==
  ASSUME IInv, NEW t \in Threads, ClaimForLaunch(t)
  PROVE  IInv' /\ Frame(t)
<1>1. lock = t /\ \A u \in Threads \ {t} : pc[u] \notin Launching
  BY OneLaunch DEF ClaimForLaunch, Launching
<1>2. CASE worker # None \/ ClaimHeld(tokens + 1)
  <2>1. Moves(t) /\ pc'[t] \in {"idle", "settle"}
    BY <1>2, RecordTypes, SettleMoves DEF IInv, ClaimForLaunch, Outcomes
  <2> QED
    BY SMTT(60), <1>1, <1>2, <2>1, SameLedger, QuietStep
       DEF Frame, KeepsLease, Launching, IInv, Quiet, ClaimForLaunch
<1>3. CASE ~(worker # None \/ ClaimHeld(tokens + 1))
  <2> DEFINE l == [loc[t] EXCEPT !.token = tokens + 1]
  <2>1. l \in Local /\ l.token = tokens + 1 /\ l.op = loc[t].op /\ tokens + 1 \in Nat
    <3>1. loc[t] \in Local /\ tokens + 1 \in Nat
      BY TypesApart DEF IInv
    <3> QED
      BY ZenonT(60), <3>1, LocalEdits
  <2> HIDE DEF l
  <2>2. Moves(t) /\ pc'[t] = "open" /\ loc'[t] = l
    BY <1>3, <2>1, KeepMoves DEF IInv, ClaimForLaunch, Steps, l
  <2>3. /\ lease' = [token |-> tokens + 1, expires |-> now + LeaseDuration]
        /\ tokens' = tokens + 1 /\ worker = None
        /\ UNCHANGED <<ready, operation, now, sessions, worker, procs, lock>>
    BY <1>3 DEF ClaimForLaunch, ClaimLease
  <2>4. lease' \in Lease /\ lease' # None /\ lease'.token = tokens + 1
    BY <2>3, TypesApart, SizesAssumption, NoneAssumption DEF IInv, Lease
  <2>5. TypeOK'
    BY ZenonT(60), <2>1, <2>2, <2>3, <2>4 DEF IInv, TypeOK, Moves, ThreadsOK
  <2>6. MutexInv'
    BY <1>1, <2>2, <2>3 DEF IInv, MutexInv, Moves
  <2>7. TokenInv'
    BY SMTT(60), <2>1, <2>2, <2>3, <2>4, TypesApart DEF IInv, TokenInv, Moves, Process
  <2>8. HolderInv'
    BY <1>1, <2>1, <2>2, <2>3, <2>4, TypesApart
       DEF IInv, TokenInv, HolderInv, Moves, Owns, Holding, Claimed, Removed, Launching
  <2>9. WorkerOwnsLease' /\ NoOrphanProcess'
    BY <2>2, <2>3, ProcessesKnown
       DEF IInv, WorkerOwnsLease, NoOrphanProcess, Moves, ClaimForLaunch
  <2>10. OpenedInv' /\ SessionInv'
    BY <1>1, <2>1, <2>2, <2>3, TypesApart
       DEF IInv, TokenInv, OpenedInv, SessionInv, Moves, Process
  <2>11. LedgerInv' /\ RecordedBeforeOpened'
    BY SMTT(60), <2>1, <2>2, <2>3, LedgerUnmoved, ProcessesKnown
       DEF ClaimForLaunch, Launching
  <2>12. Frame(t)
    BY <1>3, <2>2, <2>3, <2>4, TypesApart
       DEF IInv, TokenInv, Frame, KeepsLease, ClaimForLaunch, ClaimHeld, Launching
  <2> QED
    BY <2>5, <2>6, <2>7, <2>8, <2>9, <2>10, <2>11, <2>12 DEF IInv
<1> QED
  BY <1>2, <1>3

\* The process opened is in the hands of the launch, under its token.
LEMMA OpenStep ==
  ASSUME IInv, NEW t \in Threads, OpenSession(t)
  PROVE  IInv' /\ Frame(t)
<1> DEFINE session == IF loc[t].target = None THEN sessions + 1 ELSE loc[t].target
           l == [loc[t] EXCEPT !.session = session]
           new == [token |-> loc[t].token, session |-> session, by |-> loc[t].op]
<1>1. lock = t /\ \A u \in Threads \ {t} : pc[u] \notin Launching
  BY OneLaunch DEF OpenSession, Launching
<1>2. /\ session \in Nat /\ loc[t].token \in Nat /\ loc[t].token <= tokens
      /\ loc[t].op \in Ops \cup {None}
  BY TypesApart DEF IInv, Local, TokenInv, Holding, Claimed, OpenSession
<1>3. procs' = procs \cup {new} /\ sessions' \in Nat
      /\ UNCHANGED <<lease, ready, operation, now, tokens, worker, lock>>
  BY TypesApart DEF IInv, OpenSession, durable
<1> HIDE DEF session
<1>4. l \in Local /\ l.token = loc[t].token /\ l.session = session /\ l.op = loc[t].op
  BY ZenonT(60), <1>2, TypesApart, LocalEdits DEF IInv
<1>5. new \in Process /\ new.token = loc[t].token /\ new.session = session
      /\ new.by = loc[t].op
  BY <1>2 DEF Process
<1> HIDE DEF l, new
<1>6. Moves(t) /\ pc'[t] = "commit" /\ loc'[t] = l
  BY <1>4, KeepMoves DEF IInv, OpenSession, Steps, l, session
<1>7. TypeOK'
  BY ZenonT(60), <1>3, <1>5, <1>6 DEF IInv, TypeOK, Moves, ThreadsOK
<1>8. MutexInv'
  BY <1>1, <1>3, <1>6 DEF IInv, MutexInv, Moves
<1>9. TokenInv'
  BY SMTT(60), <1>2, <1>3, <1>4, <1>5, <1>6 DEF IInv, TokenInv, Moves
<1>10. HolderInv'
  BY <1>3, <1>4, <1>6, OpenSession(t)
     DEF IInv, HolderInv, Moves, Owns, Holding, Claimed, Removed, OpenSession
<1>11. WorkerOwnsLease'
  BY <1>3 DEF IInv, WorkerOwnsLease, Owns
<1>12. NoOrphanProcess'
  BY SMTT(60), <1>3, <1>4, <1>5, <1>6 DEF IInv, NoOrphanProcess, Moves, OpenSession
<1>13. OpenedInv' /\ SessionInv'
  BY <1>1, <1>2, <1>3, <1>4, <1>5, <1>6
     DEF IInv, OpenedInv, SessionInv, Moves, OpenSession, Launching
<1>14. LedgerInv'
  BY <1>3, <1>4, <1>6, LedgerUnmoved DEF OpenSession, Launching
<1>15. RecordedBeforeOpened'
  BY <1>3, <1>5 DEF IInv, RecordedBeforeOpened, LedgerInv, Recorded, OpenSession, Launching
<1>16. Frame(t)
  BY <1>3, <1>6 DEF Frame, KeepsLease, OpenSession, Launching
<1> QED
  BY SMTT(60), <1>7, <1>8, <1>9, <1>10, <1>11, <1>12, <1>13, <1>14, <1>15, <1>16
     DEF IInv

LEMMA OpenFailsStep ==
  ASSUME IInv, NEW t \in Threads, OpenFails(t)
  PROVE  IInv' /\ Frame(t)
<1>1. PICK outcome \in {"rejected", "uncertain"} :
        Keep(t, [loc[t] EXCEPT !.result = State(outcome)])
  BY DEF OpenFails
<1> DEFINE l == [loc[t] EXCEPT !.result = State(outcome)]
<1>2. l \in Local /\ l.token = loc[t].token /\ l.op = loc[t].op
  <2>1. loc[t] \in Local /\ State(outcome) \in Entries(Outcomes)
    BY TypesApart, RecordTypes DEF IInv, Outcomes
  <2> QED
    BY ZenonT(60), <2>1, LocalEdits
<1> HIDE DEF l
<1>3. Moves(t) /\ pc'[t] = "unclaim" /\ loc'[t] = l
  BY <1>1, <1>2, KeepMoves DEF IInv, OpenFails, Steps, l
<1>4. pc[t] = "open"
      /\ UNCHANGED <<lease, ready, operation, now, tokens, sessions, worker, lock, procs>>
  BY DEF OpenFails, durable, memory
<1>5. TypeOK'
  BY SMTT(60), <1>3, <1>4 DEF IInv, TypeOK, Moves, ThreadsOK
<1>6. MutexInv' /\ TokenInv'
  BY <1>2, <1>3, <1>4
     DEF IInv, MutexInv, TokenInv, Moves, Launching, Holding, Claimed, Removed
<1>7. HolderInv'
  BY SMTT(60), <1>2, <1>3, <1>4
     DEF IInv, HolderInv, Moves, Owns, Holding, Claimed, Removed
<1>8. WorkerOwnsLease' /\ NoOrphanProcess' /\ OpenedInv' /\ SessionInv'
  BY <1>3, <1>4
     DEF IInv, WorkerOwnsLease, Owns, NoOrphanProcess, OpenedInv, SessionInv, Moves
<1>9. LedgerInv' /\ RecordedBeforeOpened'
  BY <1>2, <1>3, <1>4, LedgerUnmoved, ProcessesKnown DEF Launching
<1>10. Frame(t)
  BY <1>3, <1>4 DEF Frame, KeepsLease, Launching
<1> QED
  BY <1>5, <1>6, <1>7, <1>8, <1>9, <1>10 DEF IInv

\* The only claim there can be is the launch's own.
LEMMA ReleaseClaimStep ==
  ASSUME IInv, NEW t \in Threads, ReleaseClaim(t)
  PROVE  IInv' /\ Frame(t)
<1>1. lock = t /\ \A u \in Threads \ {t} : pc[u] \notin Launching
  BY SMTT(60), OneLaunch DEF ReleaseClaim, Launching
<1>2. Moves(t) /\ pc'[t] \in {"idle", "settle"}
  BY SMTT(60), RecordTypes, SettleMoves, FinishMoves DEF IInv, ReleaseClaim, Outcomes
<1>3. /\ lease' \in {lease, None} /\ lock' = None /\ worker = None /\ pc[t] = "unclaim"
      /\ UNCHANGED <<ready, operation, now, tokens, sessions, worker, procs>>
  BY DEF IInv, HolderInv, Claimed, ReleaseClaim, ReleaseLease
<1>4. TypeOK'
  BY ZenonT(60), <1>2, <1>3 DEF IInv, TypeOK, Moves, ThreadsOK
<1>5. MutexInv' /\ TokenInv'
  BY SMTT(60), <1>1, <1>2, <1>3
     DEF IInv, MutexInv, TokenInv, Moves, Launching, Holding, Claimed, Removed
<1>6. HolderInv'
  BY SMTT(60), <1>1, <1>2, <1>3
     DEF IInv, HolderInv, Moves, Owns, Holding, Claimed, Removed, Launching
<1>7. WorkerOwnsLease' /\ NoOrphanProcess' /\ OpenedInv' /\ SessionInv'
  BY <1>2, <1>3
     DEF IInv, WorkerOwnsLease, Owns, NoOrphanProcess, OpenedInv, SessionInv, Moves
<1>8. LedgerInv' /\ RecordedBeforeOpened'
  BY <1>2, <1>3, LedgerUnmoved, ProcessesKnown DEF Launching
<1>9. Frame(t)
  BY <1>2, <1>3 DEF Frame, KeepsLease, Launching
<1> QED
  BY SMTT(60), <1>4, <1>5, <1>6, <1>7, <1>8, <1>9 DEF IInv

\* The token passes from the launch to the map.
LEMMA CommitReadyStep ==
  ASSUME IInv, NEW t \in Threads, CommitReady(t)
  PROVE  IInv' /\ Frame(t)
<1>1. lock = t /\ \A u \in Threads \ {t} : pc[u] \notin Launching
  BY SMTT(60), OneLaunch DEF CommitReady, Launching
<1>2. loc[t].token \in Nat /\ loc[t].token <= tokens /\ loc[t].session \in Nat
  BY SMTT(60) DEF IInv, TokenInv, SessionInv, CommitReady, Holding, Claimed
<1>3. /\ worker' = [token |-> loc[t].token, session |-> loc[t].session]
      /\ ready' = loc[t].session /\ Owns(loc[t].token) /\ pc[t] = "commit"
      /\ UNCHANGED <<lease, operation, now, tokens, sessions, procs>>
  BY SMTT(60) DEF CommitReady, world
<1>4. worker' \in Worker /\ worker' # None /\ worker'.token = loc[t].token
      /\ worker'.session = loc[t].session
  BY <1>2, <1>3, NoneAssumption DEF Worker
<1>5. /\ Moves(t) /\ pc'[t] \in {"idle", "settle", "wake", "renew"}
      /\ pc'[t] = "renew" => loc'[t] = loc[t] /\ lock' = lock
      /\ lock' # None => lock' = lock /\ pc'[t] = "renew"
  <2>1. Ready(loc[t].session) \in Entries(Outcomes)
    BY SMTT(60), <1>2, RecordTypes
  <2>2. CASE loc[t].ensure
    BY SMTT(60), <2>2, GoMoves DEF IInv, CommitReady, Steps
  <2>3. CASE ~loc[t].ensure
    <3>1. lock' = None
          /\ \/ Go(t, "wake") /\ UNCHANGED loc
             \/ Settle(t, loc[t], Ready(loc[t].session))
      BY SMTT(60), <2>3 DEF CommitReady
    <3>2. Moves(t) /\ pc'[t] \in {"idle", "settle", "wake"}
      BY SMTT(60), <2>1, <3>1, GoMoves, SettleMoves DEF IInv, Steps
    <3> QED
      BY SMTT(60), <3>1, <3>2
  <2> QED
    BY <2>2, <2>3
<1>6. TypeOK'
  BY ZenonT(60), <1>3, <1>4, <1>5 DEF IInv, TypeOK, Moves, ThreadsOK
<1>7. MutexInv' /\ TokenInv'
  BY SMTT(60), <1>1, <1>2, <1>3, <1>4, <1>5
     DEF IInv, MutexInv, TokenInv, Moves, Launching, Holding, Claimed, Removed
<1>8. HolderInv'
  <2>1. \A u \in Threads \ {t} : pc'[u] \notin Launching
    BY SMTT(60), <1>1, <1>5 DEF Moves
  <2>2. \A u \in Threads \ {t} : pc'[u] \in Removed => worker'.token # loc'[u].token
    BY SMTT(60), <1>3, <1>4, <1>5 DEF IInv, HolderInv, Moves, Holding, Claimed
  <2>3. \A u, v \in Threads \ {t} :
          u # v /\ pc'[u] \in Holding /\ pc'[v] \in Holding => loc'[u].token # loc'[v].token
    BY SMTT(60), <1>5 DEF IInv, HolderInv, Moves
  <2> QED
    BY <1>4, <1>5, <2>1, <2>2, <2>3 DEF HolderInv, Holding, Claimed, Removed, Launching
<1>9. WorkerOwnsLease'
  BY SMTT(60), <1>3, <1>4 DEF WorkerOwnsLease, Owns
<1>10. NoOrphanProcess'
  <2> SUFFICES ASSUME NEW p \in procs, worker' # [token |-> p.token, session |-> p.session]
               PROVE  \E u \in Threads :
                           pc'[u] \in {"commit", "teardown"} /\ loc'[u].token = p.token
    BY ZenonT(60), <1>3 DEF NoOrphanProcess
  <2>1. worker = None
    BY SMTT(60), <1>3 DEF IInv, HolderInv, Claimed
  <2>2. p.token # loc[t].token
    BY SMTT(60), <1>3 DEF IInv, OpenedInv
  <2>3. PICK u \in Threads : pc[u] \in {"commit", "teardown"} /\ loc[u].token = p.token
    BY SMTT(60), <2>1, NoneAssumption, TypesApart DEF IInv, NoOrphanProcess, Process
  <2> QED
    BY SMTT(60), <2>2, <2>3, <1>5 DEF Moves
<1>11. OpenedInv' /\ SessionInv'
  BY SMTT(60), <1>3, <1>5 DEF IInv, OpenedInv, SessionInv, Moves
<1>12. LedgerInv' /\ RecordedBeforeOpened'
  BY SMTT(60), <1>3, <1>5, LedgerUnmoved, ProcessesKnown DEF Launching
<1>13. Frame(t)
  BY <1>3, <1>5 DEF Frame, KeepsLease, Launching
<1> QED
  BY SMTT(60), <1>6, <1>7, <1>8, <1>9, <1>10, <1>11, <1>12, <1>13 DEF IInv

\* The error path stops the process of its own token, which nobody else has.
LEMMA CommitFailsStep ==
  ASSUME IInv, NEW t \in Threads, CommitFails(t)
  PROVE  IInv' /\ Frame(t)
<1>1. lock = t /\ \A u \in Threads \ {t} : pc[u] \notin Launching
  BY SMTT(60), OneLaunch DEF CommitFails, Launching
<1>2. Moves(t) /\ pc'[t] = "idle"
  BY FinishMoves DEF IInv, CommitFails
<1>3. /\ procs' = {p \in procs : p.token # loc[t].token} /\ pc[t] = "commit"
      /\ UNCHANGED <<lease, ready, operation, now, tokens, sessions, worker>>
  BY SMTT(60) DEF CommitFails, durable
<1>4. TypeOK'
  BY ZenonT(60), <1>2, <1>3 DEF IInv, TypeOK, Moves, ThreadsOK
<1>5. MutexInv' /\ TokenInv'
  BY SMTT(60), <1>1, <1>2, <1>3
     DEF IInv, MutexInv, TokenInv, Moves, Launching, Holding, Claimed, Removed
<1>6. HolderInv'
  BY SMTT(60), <1>2, <1>3 DEF IInv, HolderInv, Moves, Owns, Holding, Claimed, Removed
<1>7. WorkerOwnsLease' /\ OpenedInv' /\ SessionInv'
  BY SMTT(60), <1>2, <1>3 DEF IInv, WorkerOwnsLease, Owns, OpenedInv, SessionInv, Moves
<1>8. NoOrphanProcess'
  BY SMTT(60), <1>2, <1>3 DEF IInv, NoOrphanProcess, Moves
<1>9. LedgerInv' /\ RecordedBeforeOpened'
  BY SMTT(60), <1>2, <1>3, LedgerUnmoved, ProcessesKnown DEF Launching
<1>10. Frame(t)
  BY <1>2, <1>3, CommitFails(t) DEF Frame, KeepsLease, Launching, CommitFails
<1> QED
  BY SMTT(60), <1>4, <1>5, <1>6, <1>7, <1>8, <1>9, <1>10 DEF IInv
=============================================================================
