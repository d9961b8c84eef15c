----------------------- MODULE ProjectDispatch_proofs -----------------------
(***************************************************************************)
(* What the saga store's rule gives for every set of operations, agents,   *)
(* commands and faults: a project serves one command at a time, and what   *)
(* was reported of a command stays.                                        *)
(*                                                                         *)
(* The argument: every step but Control writes at most the row of the      *)
(* worker's operation, and only through persist, so that each row is       *)
(* either as it was or one its predecessor admits (RowsAdvance).  A row    *)
(* that is live was then live before, and Control looks at all of them.    *)
(***************************************************************************)
EXTENDS ProjectDispatch, TLAPS

RowsAdvance ==
    \A op \in Ops : sagas'[op] = sagas[op] \/ replace_accepts(sagas[op], sagas'[op])

Rows == sagas = [op \in Ops |-> sagas[op]]

WritesRows == Rows' /\ RowsAdvance

(* Every way an action ends its write of the row (persist, and what is     *)
(* built on it) keeps the rows a function and advances them.               *)
LEMMA UnchangedRows ==
    ASSUME Rows, sagas' = sagas PROVE WritesRows
BY DEF WritesRows, Rows, RowsAdvance

LEMMA PersistWrites ==
    ASSUME NEW r, NEW next, Rows, persist(r, next) PROVE WritesRows
BY DEF persist, WritesRows, Rows, RowsAdvance

LEMMA EndWrites ==
    ASSUME NEW r, Rows, EndAdvance(r) PROVE WritesRows
BY PersistWrites DEF EndAdvance

LEMMA SaveWrites ==
    ASSUME NEW r, NEW at, Rows, Save(r, at) PROVE WritesRows
BY PersistWrites DEF Save

LEMMA FailWrites ==
    ASSUME Rows, Fail PROVE WritesRows
BY UnchangedRows DEF Fail

LEMMA CompensateWrites ==
    ASSUME NEW r, Rows, compensate(r) PROVE WritesRows
BY SaveWrites DEF compensate

LEMMA MutateWrites ==
    ASSUME NEW r, NEW m, Rows, mutate(r, m) PROVE WritesRows
BY PersistWrites DEF mutate

LEMMA ProposeWrites ==
    ASSUME NEW v, NEW act, NEW id, NEW a, NEW forced, NEW runtime,
           Rows, Propose(v, act, id, a, forced, runtime)
    PROVE  WritesRows
BY SMTT(60), MutateWrites DEF Propose

(* Each step of an advance leaves the rows alone or writes its own row     *)
(* through persist.                                                        *)
LEMMA WorkerWrites ==
    ASSUME Rows, WorkerStep PROVE WritesRows
<1>1. CASE AcceptCommand
  BY <1>1, EndWrites DEF AcceptCommand
<1>2. CASE BeginResourceEffect
  BY <1>2, PersistWrites, UnchangedRows DEF BeginResourceEffect
<1>3. CASE BeginRuntimeEffect
  BY <1>3, PersistWrites, UnchangedRows DEF BeginRuntimeEffect
<1>4. CASE NothingToQuiesce
  BY <1>4, EndWrites, FailWrites DEF NothingToQuiesce
<1>5. CASE BeginLaunchValidation
  BY <1>5, UnchangedRows DEF BeginLaunchValidation
<1>6. CASE ObserveResources
  BY <1>6, UnchangedRows DEF ObserveResources
<1>7. CASE StartRuntime
  BY <1>7, UnchangedRows DEF StartRuntime
<1>8. CASE StopRuntime
  BY <1>8, FailWrites, UnchangedRows DEF StopRuntime
<1>9. CASE ResourcesValidated
  BY <1>9, EndWrites, SaveWrites, CompensateWrites DEF ResourcesValidated
<1>10. CASE ResourceIdentified
  BY <1>10, EndWrites, MutateWrites DEF ResourceIdentified
<1>11. CASE ReleaseAssessed
  BY <1>11, EndWrites, SaveWrites DEF ReleaseAssessed
<1>12. CASE RuntimeStarted
  BY <1>12, EndWrites, CompensateWrites DEF RuntimeStarted
<1>13. CASE LaunchDirectoryValidated
  BY <1>13, EndWrites, CompensateWrites DEF LaunchDirectoryValidated
<1>14. CASE AssignmentStopped
  BY <1>14, SaveWrites DEF AssignmentStopped
<1>15. CASE CloseQuiesced
  BY <1>15, EndWrites, SaveWrites DEF CloseQuiesced
<1>16. CASE CompensationStopped
  BY <1>16, EndWrites, UnchangedRows DEF CompensationStopped
<1>17. CASE begin_or_resume_closing
  BY <1>17, EndWrites, ProposeWrites DEF begin_or_resume_closing
<1>18. CASE AfterStop
  BY <1>18, EndWrites, ProposeWrites DEF AfterStop
<1>19. CASE ProposeOpen
  BY <1>19, ProposeWrites DEF ProposeOpen
<1>20. CASE AdvanceOpening
  BY <1>20, EndWrites, PersistWrites DEF AdvanceOpening
<1>21. CASE AdvanceConfiguring
  BY <1>21, EndWrites, ProposeWrites DEF AdvanceConfiguring
<1>22. CASE AdvanceMakingRunnable
  BY <1>22, EndWrites, ProposeWrites DEF AdvanceMakingRunnable
<1>23. CASE commit_assignment_resolution
  BY <1>23, FailWrites, ProposeWrites DEF commit_assignment_resolution
<1>24. CASE AdvanceClosing
  BY <1>24, ProposeWrites DEF AdvanceClosing
<1>25. CASE AdvanceUpdating
  BY <1>25, ProposeWrites, MutateWrites DEF AdvanceUpdating
<1>26. CASE Replay
  BY <1>26, UnchangedRows DEF Replay
<1>27. CASE Recompensate
  BY <1>27, CompensateWrites DEF Recompensate
<1>28. CASE Undo
  BY <1>28, EndWrites, PersistWrites, FailWrites, UnchangedRows DEF Undo
<1>29. CASE Commit
  BY <1>29, UnchangedRows DEF Commit
<1>30. CASE Finish
  BY <1>30, SaveWrites, UnchangedRows DEF Finish
<1>31. CASE MutationCommitted
  BY <1>31, EndWrites, UnchangedRows DEF MutationCommitted
<1>32. CASE MutationRejected
  BY <1>32, EndWrites, CompensateWrites DEF MutationRejected
<1>33. CASE MutationUnknown
  BY <1>33, EndWrites DEF MutationUnknown
<1>34. CASE ReadProject
  BY <1>34, UnchangedRows DEF ReadProject
<1>35. CASE CancelStale
  BY <1>35, UnchangedRows DEF CancelStale
<1>36. CASE SelectInput
  BY <1>36, EndWrites, UnchangedRows DEF SelectInput
<1>37. CASE Prepare
  BY <1>37, EndWrites, UnchangedRows DEF Prepare
<1>38. CASE OpenEpisode
  BY <1>38, FailWrites, UnchangedRows DEF OpenEpisode
<1>39. CASE admit
  BY <1>39, EndWrites, FailWrites, UnchangedRows DEF admit
<1>40. CASE EnsureReady
  BY <1>40, UnchangedRows DEF EnsureReady
<1>41. CASE ReadinessFailed
  BY <1>41, EndWrites DEF ReadinessFailed
<1>42. CASE ready
  BY <1>42, UnchangedRows DEF ready
<1>43. CASE Recheck
  BY <1>43, UnchangedRows DEF Recheck
<1>44. CASE TargetChanged
  BY SMTT(60), <1>44, EndWrites DEF TargetChanged
<1>45. CASE Deliver
  BY <1>45, UnchangedRows DEF Deliver
<1>46. CASE Delivered
  BY <1>46, EndWrites, MutateWrites DEF Delivered
<1> QED
  BY SMTT(60), <1>1, <1>2, <1>3, <1>4, <1>5, <1>6, <1>7, <1>8, <1>9, <1>10, <1>11,
     <1>12, <1>13, <1>14, <1>15, <1>16, <1>17, <1>18, <1>19, <1>20, <1>21,
     <1>22, <1>23, <1>24, <1>25, <1>26, <1>27, <1>28, <1>29, <1>30, <1>31,
     <1>32, <1>33, <1>34, <1>35, <1>36, <1>37, <1>38, <1>39, <1>40, <1>41,
     <1>42, <1>43, <1>44, <1>45, <1>46 DEF WorkerStep

(* So does every step but the acceptance of a command.                     *)
LEMMA NextWrites ==
    ASSUME Rows, [Next]_vars,
           ~ \E op \in Ops, command \in Commands : Control(op, command)
    PROVE  WritesRows
<1>1. CASE WorkerStep
  BY <1>1, WorkerWrites
<1>2. ASSUME NEW op \in Ops, Resume(op) PROVE WritesRows
  BY <1>2, UnchangedRows DEF Resume
<1>3. ASSUME NEW e \in Assignments \X Inputs,
             Tick(e) \/ retry_project_runtime(e) \/ RepairDue(e)
      PROVE  WritesRows
  BY <1>3, UnchangedRows DEF Tick, retry_project_runtime, RepairDue
<1>4. ASSUME NEW a \in Agents, RuntimeDies(a) PROVE WritesRows
  BY <1>4, UnchangedRows DEF RuntimeDies
<1>5. ASSUME NEW id \in Assignments, runtime_stopped(id) PROVE WritesRows
  BY <1>5, UnchangedRows DEF runtime_stopped
<1>6. CASE Elsewhere \/ Interrupt \/ Restart
  BY <1>6, UnchangedRows DEF Elsewhere, Interrupt, Restart
<1>7. CASE UNCHANGED vars
  BY <1>7, UnchangedRows DEF vars
<1> QED
  BY <1>1, <1>2, <1>3, <1>4, <1>5, <1>6, <1>7 DEF Next

(* The store's rule never revives a row, and never changes a report.       *)
LEMMA LiveBefore ==
    ASSUME NEW old, NEW new, replace_accepts(old, new), new.tag \in Live
    PROVE  old.tag \in Live
BY DEF replace_accepts, state_advances, Live, Terminal

LEMMA ReportStays ==
    ASSUME NEW old, NEW new, replace_accepts(old, new), old.tag \in Terminal
    PROVE  new.tag = old.tag
BY DEF replace_accepts, state_advances, Live, Terminal

-----------------------------------------------------------------------------
(* The inductive invariant: OneLiveCommand needs only that the rows are    *)
(* the rows of Ops.                                                        *)
IInv == Rows /\ OneLiveCommand

LEMMA InitIInv == Init => IInv
BY DEF Init, IInv, Rows, OneLiveCommand, IsLive, NoRow, Live

LEMMA NextIInv == IInv /\ [Next]_vars => IInv'
<1> SUFFICES ASSUME IInv, [Next]_vars PROVE IInv'
  OBVIOUS
<1>1. CASE \E op \in Ops, command \in Commands : Control(op, command)
  <2>1. PICK op \in Ops, command \in Commands : Control(op, command)
    BY <1>1
  <2>2. Rows'
    BY <2>1 DEF Control, IInv, Rows
  <2>3. \A p \in Ops : IsLive(p)' => p = op
    BY <2>1 DEF Control, project_is_busy, IsLive, IInv, Rows
  <2> QED
    BY <2>2, <2>3 DEF IInv, OneLiveCommand, IsLive
<1>2. CASE ~ \E op \in Ops, command \in Commands : Control(op, command)
  <2>1. WritesRows
    BY <1>2, NextWrites DEF IInv
  <2>2. \A p \in Ops : IsLive(p)' => IsLive(p)
    BY <2>1, LiveBefore DEF WritesRows, RowsAdvance, IsLive
  <2> QED
    BY <2>1, <2>2 DEF IInv, OneLiveCommand, WritesRows
<1> QED
  BY <1>1, <1>2

(* The project never serves two live commands: begin refuses a command     *)
(* while a row is live (project_is_busy), and replace revives none         *)
(* (state_advances).                                                       *)
THEOREM ProjectServesOneCommand == Spec => []OneLiveCommand
<1>1. IInv => OneLiveCommand
  BY DEF IInv
<1> QED
  BY InitIInv, NextIInv, <1>1, PTL DEF Spec

(* What a row says of a command that was reported is never changed, by no  *)
(* crash, retry or late answer; and every other change of a row is one the *)
(* store's rule admits, so that an accepted effect stays accepted, a       *)
(* session once started is never forgotten and the cause of a compensation *)
(* is kept (project_saga.rs replace).                                      *)
RowsOnlyAdvance ==
    \A op \in Ops :
       \/ sagas'[op] = sagas[op]
       \/ sagas[op] = NoRow
       \/ /\ replace_accepts(sagas[op], sagas'[op])
          /\ sagas[op].tag \in Terminal => sagas'[op].tag = sagas[op].tag

THEOREM ReportsAreFinal == Spec => [][RowsOnlyAdvance]_vars
<1>1. IInv /\ [Next]_vars => [RowsOnlyAdvance]_vars
  <2> SUFFICES ASSUME IInv, [Next]_vars PROVE RowsOnlyAdvance
    OBVIOUS
  <2>1. CASE \E op \in Ops, command \in Commands : Control(op, command)
    BY <2>1 DEF Control, RowsOnlyAdvance, IInv, Rows
  <2>2. CASE ~ \E op \in Ops, command \in Commands : Control(op, command)
    BY <2>2, NextWrites, ReportStays DEF IInv, WritesRows, RowsAdvance, RowsOnlyAdvance
  <2> QED
    BY <2>1, <2>2
<1> QED
  BY InitIInv, NextIInv, <1>1, PTL DEF Spec
=============================================================================
