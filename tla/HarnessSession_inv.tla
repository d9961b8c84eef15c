------------------------- MODULE HarnessSession_inv -------------------------
(***************************************************************************)
(* The inductive invariant of HarnessSession, what the other threads can   *)
(* rely on when one takes a step, and the steps that leave the worker, the *)
(* lease and the processes alone.                                          *)
(*                                                                         *)
(* The argument: a token belongs to one holder at a time, the launch that  *)
(* claimed it, the map, or the stop that took it out of the map, and while *)
(* a launch holds one it holds the workers mutex and the map has no        *)
(* worker.  So nobody but the owner of a token renews or releases it.      *)
(***************************************************************************)
EXTENDS HarnessSession, TLAPS

Steps == {"idle", "load", "observe", "mark", "settle", "enter", "claim", "open",
          "unclaim", "commit", "renew", "wake", "remove", "teardown", "release"}
Outcomes == {"uncertain", "ready", "stopped", "rejected"}
Entries(states) == [state : states, session : Nat \cup {None}]
Lease == [token : Nat, expires : Nat]
Worker == [token : Nat, session : Nat]
Process == [token : Nat, session : Nat, by : Ops \cup {None}]
Local == [op : Ops \cup {None}, target : Nat \cup {None}, token : Nat \cup {None},
          session : Nat \cup {None}, result : Entries(Outcomes),
          seen : BOOLEAN, ensure : BOOLEAN]

TypeOK ==
  /\ lease \in Lease \cup {None}
  /\ operation \in [Ops -> Entries({"absent", "prepared"} \cup Outcomes)]
  /\ now \in Nat /\ tokens \in Nat /\ sessions \in Nat
  /\ worker \in Worker \cup {None}
  /\ procs \subseteq Process
  /\ pc \in [Threads -> Steps]
  /\ loc \in [Threads -> Local]

\* The steps of launch_owned, which hold the mutex, and the steps at which a thread
\* is the one holder of a token.
Launching == {"claim", "open", "unclaim", "commit", "renew"}
Claimed == {"open", "unclaim", "commit"}
Removed == {"teardown", "release"}
Holding == Claimed \cup Removed

MutexInv == \A t \in Threads : pc[t] \in Launching => lock = t

TokenInv ==
  /\ lease # None => lease.token <= tokens
  /\ worker # None => worker.token <= tokens
  /\ \A p \in procs : p.token <= tokens
  /\ \A t \in Threads :
       pc[t] \in Holding \cup {"renew"} => loc[t].token \in Nat /\ loc[t].token <= tokens

HolderInv ==
  \A t \in Threads :
    /\ pc[t] \in Claimed => worker = None /\ Owns(loc[t].token)
    /\ pc[t] = "renew" => worker # None /\ worker.token = loc[t].token
    /\ pc[t] \in Removed /\ worker # None => worker.token # loc[t].token
    /\ \A u \in Threads :
         u # t /\ pc[t] \in Holding /\ pc[u] \in Holding => loc[u].token # loc[t].token

\* A claimed token has no process before the open, and the one it opened after it.
OpenedInv ==
  \A t \in Threads, p \in procs :
    /\ pc[t] = "open" => p.token # loc[t].token
    /\ pc[t] = "commit" /\ p.token = loc[t].token => p.session = loc[t].session
SessionInv == \A t \in Threads : pc[t] = "commit" => loc[t].session \in Nat

Recorded(o) == operation[o].state \notin {"absent", "prepared"}
LedgerInv ==
  \A t \in Threads :
    pc[t] \in {"enter"} \cup Launching /\ loc[t].op # None => Recorded(loc[t].op)

IInv ==
  /\ TypeOK /\ MutexInv /\ TokenInv /\ HolderInv /\ WorkerOwnsLease
  /\ OpenedInv /\ SessionInv /\ NoOrphanProcess /\ LedgerInv /\ RecordedBeforeOpened

-----------------------------------------------------------------------------
(* Steps of one thread *)

\* A step of thread t: the other threads stay where they are.
ThreadsOK == pc \in [Threads -> Steps] /\ loc \in [Threads -> Local]
Moves(t) ==
  /\ ThreadsOK'
  /\ \A u \in Threads \ {t} : pc'[u] = pc[u] /\ loc'[u] = loc[u]

\* Nothing that was recorded is forgotten.
RecordedNext(o) == operation'[o].state \notin {"absent", "prepared"}
LedgerKept == \A o \in Ops : Recorded(o) => RecordedNext(o)

\* A lease in force stays with its owner, or is given up.
KeepsLease ==
  lease # None /\ lease.expires > now => lease' = None \/ lease'.token = lease.token

\* What the other threads can rely on when t takes a step: the workers mutex passes
\* only from nobody to a launch and from a launch to nobody, and the map changes only
\* in the hands of whoever holds the mutex.
Frame(t) ==
  /\ Moves(t) /\ KeepsLease
  /\ pc[t] # "idle"
  /\ \/ lock' = lock /\ (pc[t] \in Launching => pc'[t] \in Launching)
     \/ lock = None /\ lock' = t /\ pc'[t] \in Launching
     \/ lock' = None /\ pc[t] \in Launching
  /\ worker' = worker \/ lock = None \/ pc[t] \in Launching

\* The records of the module have their types.
LEMMA RecordTypes ==
  /\ Nothing \in Local /\ Nothing.op = None
  /\ \A s \in Outcomes : State(s) \in Entries(Outcomes)
  /\ \A n \in Nat \cup {None} : Ready(n) \in Entries(Outcomes)
BY DEF Nothing, Local, Entries, Outcomes, State, Ready

\* What the edits of a thread's local values leave alone.
LEMMA LocalEdits ==
  ASSUME NEW l \in Local
  PROVE  /\ \A e \in Entries(Outcomes) : [l EXCEPT !.result = e] \in Local
         /\ \A e \in Entries(Outcomes) : [l EXCEPT !.result = e].token = l.token
         /\ \A e \in Entries(Outcomes) : [l EXCEPT !.result = e].op = l.op
         /\ \A n \in Nat : [l EXCEPT !.token = n] \in Local
         /\ \A n \in Nat : [l EXCEPT !.token = n].token = n
         /\ \A n \in Nat : [l EXCEPT !.token = n].op = l.op
         /\ \A n \in Nat : [l EXCEPT !.session = n] \in Local
         /\ \A n \in Nat : [l EXCEPT !.session = n].token = l.token
         /\ \A n \in Nat : [l EXCEPT !.session = n].session = n
         /\ \A n \in Nat : [l EXCEPT !.session = n].op = l.op
         /\ [l EXCEPT !.seen = TRUE] \in Local
BY ZenonT(60) DEF Local

\* What a thread keeps of the worker it takes out of the map.
LEMMA TakenLocal ==
  ASSUME NEW l \in Local, NEW m \in Nat, NEW n \in Nat
  PROVE  LET k == [l EXCEPT !.token = m, !.session = n] IN k \in Local /\ k.token = m
BY ZenonT(60) DEF Local

\* The row that claim_lease writes.
LEMMA ClaimedRow ==
  ASSUME TypeOK, NEW n \in Nat, ClaimLease(n)
  PROVE  lease' \in Lease /\ lease' # None /\ lease'.token = n
<1>1. now + LeaseDuration \in Nat
  BY SizesAssumption DEF TypeOK
<1> QED
  BY <1>1, NoneAssumption DEF ClaimLease, Lease

\* The type invariant, one fact at a time.
LEMMA TypesApart ==
  ASSUME TypeOK
  PROVE  /\ pc \in [Threads -> Steps] /\ loc \in [Threads -> Local]
         /\ now \in Nat /\ tokens \in Nat /\ sessions \in Nat
         /\ lease # None => lease \in Lease /\ lease.token \in Nat /\ lease.expires \in Nat
         /\ worker # None => worker \in Worker /\ worker.token \in Nat /\ worker.session \in Nat
         /\ procs \subseteq Process
         /\ operation \in [Ops -> Entries({"absent", "prepared"} \cup Outcomes)]
BY DEF TypeOK, Lease, Worker

\* The ways a step leaves its thread: at rest, with an outcome to record, or elsewhere.
LEMMA FinishMoves ==
  ASSUME TypeOK, NEW t \in Threads, Finish(t)
  PROVE  Moves(t) /\ pc'[t] = "idle"
BY TypesApart, RecordTypes DEF Finish, Go, Keep, Moves, ThreadsOK, Steps

LEMMA SettleMoves ==
  ASSUME TypeOK, NEW t \in Threads, NEW e \in Entries(Outcomes), Settle(t, loc[t], e)
  PROVE  Moves(t) /\ pc'[t] \in {"idle", "settle"}
<1>1. CASE loc[t].op = None
  BY <1>1, FinishMoves DEF Settle
<1>2. CASE loc[t].op # None
  <2>1. [loc[t] EXCEPT !.result = e] \in Local
    BY ZenonT(60), TypesApart, LocalEdits
  <2> QED
    BY <1>2, <2>1, TypesApart DEF Settle, Go, Keep, Moves, ThreadsOK, Steps
<1> QED
  BY <1>1, <1>2

LEMMA GoMoves ==
  ASSUME TypeOK, NEW t \in Threads, NEW s \in Steps, Go(t, s), UNCHANGED loc
  PROVE  Moves(t) /\ pc'[t] = s /\ loc'[t] = loc[t]
BY TypesApart DEF Go, Moves, ThreadsOK

LEMMA KeepMoves ==
  ASSUME TypeOK, NEW t \in Threads, NEW s \in Steps, NEW l \in Local, Go(t, s), Keep(t, l)
  PROVE  Moves(t) /\ pc'[t] = s /\ loc'[t] = l
BY TypesApart DEF Go, Keep, Moves, ThreadsOK

\* set_session_operation_state never takes back that a call was recorded.
LEMMA SetKeepsLedger ==
  ASSUME TypeOK, NEW o, NEW e \in Entries(Outcomes), SetOperation(o, e)
  PROVE  /\ operation' \in [Ops -> Entries({"absent", "prepared"} \cup Outcomes)]
         /\ LedgerKept
         /\ SetAllowed(o, e) /\ o \in Ops => RecordedNext(o)
<1>1. e \in Entries({"absent", "prepared"} \cup Outcomes)
      /\ e.state \notin {"absent", "prepared"}
  BY DEF Entries, Outcomes
<1> QED
  BY ZenonT(60), <1>1, TypesApart DEF SetOperation, LedgerKept, Recorded, RecordedNext

\* A step that leaves the leases, the map and the processes alone: t rests, or waits
\* for something, or has just taken the mutex.
Quiet(t) ==
  /\ Moves(t) /\ LedgerKept
  /\ pc'[t] \notin {"open", "unclaim", "commit", "renew", "teardown", "release"}
  /\ pc[t] \notin {"commit", "teardown"}
  /\ lock' = lock \/ lock \in {t, None}
  /\ pc'[t] = "claim" => lock' = t
  /\ pc'[t] \in {"enter", "claim"} /\ loc'[t].op # None => RecordedNext(loc'[t].op)
  /\ operation' \in [Ops -> Entries({"absent", "prepared"} \cup Outcomes)]
  /\ UNCHANGED <<lease, ready, worker, tokens, procs, now, sessions>>

\* A quiet step keeps the invariant: nobody else loses the mutex, a token or a process.
LEMMA QuietStep ==
  ASSUME IInv, NEW t \in Threads, Quiet(t)
  PROVE  IInv'
<1> USE DEF IInv
<1>1. TypeOK'
  BY ZenonT(60) DEF TypeOK, Quiet, Moves, ThreadsOK
<1>2. MutexInv'
  BY NoneAssumption DEF MutexInv, Quiet, Moves, Launching
<1>3. TokenInv'
  BY DEF TokenInv, Quiet, Moves, Holding, Claimed, Removed
<1>4. HolderInv'
  BY DEF HolderInv, Quiet, Moves, Holding, Claimed, Removed, Owns
<1>5. WorkerOwnsLease'
  BY DEF WorkerOwnsLease, Owns, Quiet
<1>6. OpenedInv' /\ SessionInv'
  BY DEF OpenedInv, SessionInv, Quiet, Moves
<1>7. NoOrphanProcess'
  BY DEF NoOrphanProcess, Quiet, Moves
<1>8. LedgerInv'
  <2> SUFFICES ASSUME NEW u \in Threads,
                      pc'[u] \in {"enter"} \cup Launching, loc'[u].op # None
               PROVE  RecordedNext(loc'[u].op)
    BY DEF LedgerInv, Recorded, RecordedNext
  <2>1. CASE u = t
    BY <2>1 DEF Quiet, Launching
  <2>2. CASE u # t
    <3>1. loc'[u] = loc[u] /\ loc[u].op \in Ops /\ Recorded(loc[u].op)
      BY <2>2, TypesApart DEF LedgerInv, Quiet, Moves, Local
    <3> QED
      BY <3>1 DEF Quiet, LedgerKept
  <2> QED
    BY <2>1, <2>2
<1>9. RecordedBeforeOpened'
  BY TypesApart DEF RecordedBeforeOpened, LedgerKept, Recorded, RecordedNext, Quiet, Process
<1> QED
  BY <1>1, <1>2, <1>3, <1>4, <1>5, <1>6, <1>7, <1>8, <1>9

\* An untouched ledger is a kept one.
LEMMA SameLedger ==
  ASSUME TypeOK, UNCHANGED operation
  PROVE  LedgerKept /\ operation' \in [Ops -> Entries({"absent", "prepared"} \cup Outcomes)]
BY DEF LedgerKept, Recorded, RecordedNext, TypeOK

-----------------------------------------------------------------------------
(* control_session, and the calls of the project that only change where a thread is *)

LEMMA QueueStep ==
  ASSUME IInv, NEW c \in Controllers, NEW o \in Ops, QueueOperation(c, o)
  PROVE  IInv'
<1> DEFINE l == [Nothing EXCEPT !.op = o, !.target = IF Kind[o] = "resume" THEN 0 ELSE None]
<1>1. c \in Threads /\ l \in Local
  BY ZenonT(60), RecordTypes DEF Threads, Local
<1> HIDE DEF l
<1>2. Moves(c) /\ pc'[c] = "load"
  BY <1>1, KeepMoves DEF IInv, QueueOperation, Steps, l
<1>3. State("prepared") \in Entries({"absent", "prepared"} \cup Outcomes)
      /\ State("prepared").state = "prepared"
  BY DEF State, Entries
<1>4. LedgerKept /\ operation' \in [Ops -> Entries({"absent", "prepared"} \cup Outcomes)]
  BY SMTT(60), <1>3, TypesApart
     DEF IInv, QueueOperation, LedgerKept, Recorded, RecordedNext
<1> QED
  BY SMTT(60), <1>1, <1>2, <1>4, QuietStep DEF Quiet, QueueOperation, world, memory

LEMMA LoadStep ==
  ASSUME IInv, NEW c \in Threads, LoadOperation(c)
  PROVE  IInv' /\ Frame(c)
<1>1. Moves(c) /\ pc'[c] \in {"idle", "observe", "mark"}
  BY FinishMoves, GoMoves DEF IInv, LoadOperation, Steps
<1> QED
  BY SMTT(60), <1>1, SameLedger, QuietStep
     DEF Frame, KeepsLease, Launching, IInv, Quiet, LoadOperation, durable, world, memory

LEMMA ObserveStep ==
  ASSUME IInv, NEW c \in Threads, ObserveUncertain(c)
  PROVE  IInv' /\ Frame(c)
<1> DEFINE l == loc[c]
<1>1. l \in Local /\ l.target \in Nat \cup {None}
  BY TypesApart DEF IInv, Local
<1>2. worker # None => Ready(worker.session) \in Entries(Outcomes)
  BY TypesApart, RecordTypes DEF IInv
<1>3. Ready(l.target) \in Entries(Outcomes) /\ State("stopped") \in Entries(Outcomes)
  BY ZenonT(60), <1>1, RecordTypes DEF Outcomes
<1>4. [l EXCEPT !.seen = TRUE] \in Local
  BY <1>1, LocalEdits
<1>5. \/ worker # None /\ Settle(c, l, Ready(worker.session))
      \/ Settle(c, l, Ready(l.target))
      \/ Settle(c, l, State("stopped"))
      \/ Go(c, "remove") /\ Keep(c, [l EXCEPT !.seen = TRUE])
      \/ Finish(c)
  BY DEF ObserveUncertain
<1>6. Moves(c) /\ pc'[c] \in {"idle", "settle", "remove"}
  BY <1>2, <1>3, <1>4, <1>5, SettleMoves, KeepMoves, FinishMoves DEF IInv, Steps
<1> QED
  BY <1>6, SameLedger, QuietStep
     DEF Frame, KeepsLease, Launching, IInv, Quiet, ObserveUncertain, durable, world, memory

LEMMA MarkStep ==
  ASSUME IInv, NEW c \in Threads, MarkUncertain(c)
  PROVE  IInv' /\ Frame(c)
<1>1. State("uncertain") \in Entries(Outcomes)
  BY RecordTypes DEF Outcomes
<1>2. /\ LedgerKept /\ operation' \in [Ops -> Entries({"absent", "prepared"} \cup Outcomes)]
      /\ SetAllowed(loc[c].op, State("uncertain")) /\ loc[c].op \in Ops
           => RecordedNext(loc[c].op)
  BY ZenonT(60), <1>1, SetKeepsLedger DEF IInv, MarkUncertain
<1>3. CASE SetAllowed(loc[c].op, State("uncertain"))
  <2>1. Moves(c) /\ pc'[c] \in {"enter", "remove"} /\ loc'[c] = loc[c]
    BY <1>3, GoMoves DEF IInv, MarkUncertain, Steps
  <2>2. loc[c].op \in Ops \cup {None}
    BY SMTT(60), TypesApart DEF IInv, Local
  <2> QED
    BY SMTT(60), <1>2, <1>3, <2>1, <2>2, QuietStep
       DEF Frame, KeepsLease, Launching, Quiet, MarkUncertain, world, memory
<1>4. CASE ~SetAllowed(loc[c].op, State("uncertain"))
  <2>1. Moves(c) /\ pc'[c] = "idle"
    BY <1>4, FinishMoves DEF IInv, MarkUncertain
  <2> QED
    BY SMTT(60), <1>2, <2>1, QuietStep
       DEF Frame, KeepsLease, Launching, Quiet, MarkUncertain, world, memory
<1> QED
  BY <1>3, <1>4

LEMMA SettleStep ==
  ASSUME IInv, NEW c \in Threads, SettleOperation(c)
  PROVE  IInv' /\ Frame(c)
<1>1. loc[c].result \in Entries(Outcomes)
  BY TypesApart DEF IInv, Local
<1>2. LedgerKept /\ operation' \in [Ops -> Entries({"absent", "prepared"} \cup Outcomes)]
  BY ZenonT(60), <1>1, SetKeepsLedger DEF IInv, SettleOperation
<1>3. Moves(c) /\ pc'[c] = "idle"
  BY FinishMoves DEF IInv, SettleOperation
<1> QED
  BY SMTT(60), <1>2, <1>3, QuietStep
     DEF Frame, KeepsLease, Launching, Quiet, SettleOperation, world, memory

LEMMA WakeStep ==
  ASSUME IInv, NEW c \in Threads, WakeRecovered(c)
  PROVE  IInv' /\ Frame(c)
<1>1. Ready(loc[c].session) \in Entries(Outcomes)
  BY ZenonT(60), TypesApart, RecordTypes DEF IInv, Local
<1>2. Moves(c) /\ pc'[c] \in {"idle", "settle", "remove"}
  BY <1>1, SettleMoves, GoMoves DEF IInv, WakeRecovered, Steps
<1> QED
  BY SMTT(60), <1>2, SameLedger, QuietStep
     DEF Frame, KeepsLease, Launching, IInv, Quiet, WakeRecovered, durable, memory

LEMMA EnterStep ==
  ASSUME IInv, NEW t \in Threads, EnterLaunch(t)
  PROVE  IInv' /\ Frame(t)
<1>1. Moves(t) /\ pc'[t] = "claim" /\ loc'[t] = loc[t]
  BY GoMoves DEF IInv, EnterLaunch, Steps
<1>2. loc[t].op # None => RecordedNext(loc[t].op)
  BY SMTT(60) DEF IInv, LedgerInv, Recorded, RecordedNext, EnterLaunch, durable
<1> QED
  BY ZenonT(60), <1>1, <1>2, SameLedger, QuietStep
     DEF Frame, KeepsLease, Launching, IInv, Quiet, EnterLaunch, durable, world

LEMMA MapFullStep ==
  ASSUME IInv, NEW t \in Threads, MapFull(t)
  PROVE  IInv' /\ Frame(t)
<1>1. Moves(t) /\ pc'[t] \in {"idle", "settle"}
  BY RecordTypes, SettleMoves DEF IInv, MapFull, Outcomes
<1>2. lock = t
  BY DEF IInv, MutexInv, MapFull, Launching
<1> QED
  BY SMTT(60), <1>1, <1>2, SameLedger, QuietStep
     DEF Frame, KeepsLease, Launching, IInv, Quiet, MapFull, durable

LEMMA ProjectLaunchStep ==
  ASSUME IInv, ProjectLaunch
  PROVE  IInv'
<1>1. Project \in Threads
  BY DEF Threads
<1>2. PICK target \in {None} \cup 0 .. sessions :
        Keep(Project, [Nothing EXCEPT !.target = target])
  BY DEF ProjectLaunch
<1> DEFINE l == [Nothing EXCEPT !.target = target]
<1>3. l \in Local /\ l.op = None
  BY RecordTypes, TypesApart DEF Local, IInv
<1> HIDE DEF l
<1>4. Moves(Project) /\ pc'[Project] = "enter" /\ loc'[Project] = l
  BY SMTT(60), <1>1, <1>2, <1>3, KeepMoves DEF IInv, ProjectLaunch, Steps, l
<1> QED
  BY ZenonT(60), <1>1, <1>3, <1>4, SameLedger, QuietStep
     DEF IInv, Quiet, ProjectLaunch, durable, world, memory

LEMMA ProjectStopStep ==
  ASSUME IInv, ProjectStop
  PROVE  IInv'
<1>1. Project \in Threads
  BY DEF Threads
<1>2. Moves(Project) /\ pc'[Project] = "remove"
  BY SMTT(60), <1>1, GoMoves DEF IInv, ProjectStop, Steps
<1> QED
  BY <1>1, <1>2, SameLedger, QuietStep DEF IInv, Quiet, ProjectStop, durable, world, memory

LEMMA FailureStep ==
  ASSUME IInv, NEW t \in Threads, Failure(t)
  PROVE  IInv' /\ Frame(t)
<1>1. Moves(t) /\ pc'[t] = "idle"
  BY FinishMoves DEF IInv, Failure, StoreFails, ReleaseFails
<1>2. pc[t] = "claim" => lock = t
  BY DEF IInv, MutexInv, Launching
<1> QED
  BY SMTT(60), <1>1, <1>2, SameLedger, QuietStep
     DEF Frame, KeepsLease, Launching, IInv, Quiet, Failure, StoreFails, ReleaseFails,
         durable, memory
=============================================================================
