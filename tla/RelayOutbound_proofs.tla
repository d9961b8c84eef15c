------------------------ MODULE RelayOutbound_proofs ------------------------
(***************************************************************************)
(* Proofs about RelayOutbound for any number of relays, lineages, wrappers *)
(* and failures.                                                           *)
(***************************************************************************)
EXTENDS RelayOutbound, TLAPS

(***************************************************************************)
(* The inductive invariant.  Beyond the types: a worker with an intent in  *)
(* hand is inside its page and has a wrapper sealed for that intent; past  *)
(* ensure_prepared that wrapper is the durable one; an answer on its way   *)
(* back is true; and a worker about to send has recorded the attempt.      *)
(***************************************************************************)
Durable(w) == minted[w] /= None /\ prepared[minted[w]] = w

HandInv ==
    \A r \in Relays :
        /\ pc[r] \in {"prepare", "attempt", "send"} =>
              draft[r] /= None /\ page[r].cur <= page[r].end
        /\ pc[r] = "prepare" => minted[draft[r]] = page[r].cur
        /\ pc[r] \in {"attempt", "send"} => Durable(draft[r])
        /\ pc[r] = "send" => /\ attempt[r][draft[r]] /= None
                             /\ attempt[r][draft[r]].disposition = "uncertain"

PreparedInv == \A l \in Lineages : prepared[l] /= None => minted[prepared[l]] = l

AnswersInv ==
    \A r \in Relays : \A i \in 1..Len(replies[r]) :
        Positive(replies[r][i].verdict) => replies[r][i].wrapper \in retained[r]

RowsInv == /\ PreparedInv
           /\ AnswersInv
           /\ OneWrapperPerLineage
           /\ EverySendIsRecorded
           /\ AcceptedIsRetained

IInv == TypeOK /\ HandInv /\ RowsInv

-----------------------------------------------------------------------------
(* The types of the variables that most steps are about, one by one. *)
LEMMA FunctionTypes ==
    ASSUME TypeOK
    PROVE  /\ pc \in [Relays -> Steps] /\ page \in [Relays -> Pages]
           /\ draft \in [Relays -> Wrappers \cup {None}]
           /\ prepared \in [Lineages -> Wrappers \cup {None}]
           /\ minted \in [Wrappers -> Lineages \cup {None}]
           /\ retained \in [Relays -> SUBSET Wrappers]
BY DEF TypeOK

LEMMA RowFunctionTypes ==
    ASSUME TypeOK
    PROVE  /\ attempt \in [Relays -> [Wrappers -> Row \cup {None}]]
           /\ inflight \in [Relays -> [Wrappers -> Row \cup {None}]]
           /\ now \in Clock
BY DEF TypeOK

LEMMA QueueFunctionTypes ==
    ASSUME TypeOK
    PROVE  /\ wire \in [Relays -> Seq(Wrappers)]
           /\ replies \in [Relays -> Seq(Replies)]
BY DEF TypeOK

(* None is neither a row nor a lineage. *)
LEMMA NotNone ==
    /\ \A row \in Row : row /= None
    /\ \A l \in Lineages : l /= None
<1>1. \A row \in Row : row /= None
  BY NoneAssumption DEF Row, Clock
<1>2. \A l \in Lineages : l \in Nat
  BY SizesAssumption DEF Lineages
<1> QED
  BY <1>1, <1>2, NoneAssumption

(* An intent inside its page is a lineage. *)
LEMMA IntentInPage ==
    ASSUME TypeOK, NEW r \in Relays, page[r].cur <= page[r].end
    PROVE  page[r].cur \in Lineages
<1>1. page[r] \in Pages
  BY FunctionTypes
<1>2. page[r].cur \in 1..(NumLineages + 1) /\ page[r].end \in 0..NumLineages
  BY <1>1 DEF Pages
<1> QED
  BY <1>2, SizesAssumption DEF Lineages

(* A worker with a wrapper in hand has a lineage and a wrapper. *)
LEMMA InHand ==
    ASSUME TypeOK, HandInv, NEW r \in Relays,
           pc[r] \in {"prepare", "attempt", "send"}
    PROVE  /\ draft[r] \in Wrappers
           /\ page[r].cur <= page[r].end
           /\ page[r].cur \in Lineages
BY FunctionTypes, IntentInPage DEF HandInv

(* Deadlines stay on the clock, and the earlier of two deadlines is one. *)
LEMMA DeadlineTypes ==
    ASSUME now \in Clock
    PROVE  /\ \A delay \in Delays : Later(delay) \in Clock
           /\ \A a, b \in Clock \cup {None} : Earliest(a, b) \in Clock \cup {None}
BY SizesAssumption, NoneAssumption DEF Clock, Later, Earliest

(* The rows that publish_outbound and handle_ok offer are rows. *)
LEMMA RowTypes ==
    ASSUME now \in Clock, NEW delay \in Delays
    PROVE  /\ \A prior \in Row \cup {None} :
                 (prior /= None => prior.attempts < MaxAttempts) =>
                     UncertainRow(prior, delay) \in Row
           /\ \A prior \in Row, verdict \in Verdicts :
                 AnsweredRow(prior, verdict, delay) \in Row
<1>1. Later(delay) \in Clock
  BY DeadlineTypes
<1>2. ASSUME NEW prior \in Row \cup {None},
             prior /= None => prior.attempts < MaxAttempts
      PROVE  UncertainRow(prior, delay) \in Row
  BY <1>1, <1>2, SizesAssumption
  DEF UncertainRow, Row, AttemptRow, Dispositions
<1>3. ASSUME NEW prior \in Row, NEW verdict \in Verdicts
      PROVE  AnsweredRow(prior, verdict, delay) \in Row
  BY Zenon, <1>1, <1>3
  DEF AnsweredRow, Row, AttemptRow, Dispositions, Verdicts, Positive
<1> QED
  BY <1>2, <1>3

(* A nonempty queue has a head in its type and a tail that is a queue. *)
LEMMA QueueTypes ==
    ASSUME NEW S, NEW q \in Seq(S), q /= <<>>
    PROVE  Head(q) \in S /\ Tail(q) \in Seq(S)
OBVIOUS

(* An answer moves the oldest frame of the wire to the queue of answers. *)
LEMMA ReplyTypes ==
    ASSUME TypeOK, NEW r \in Relays, NEW verdict \in Verdicts, Reply(r, verdict)
    PROVE  /\ wire' \in [Relays -> Seq(Wrappers)]
           /\ replies' \in [Relays -> Seq(Replies)]
           /\ Head(wire[r]) \in Wrappers
<1>1. Head(wire[r]) \in Wrappers /\ Tail(wire[r]) \in Seq(Wrappers)
  BY QueueTypes DEF TypeOK, Reply
<1>2. [wrapper |-> Head(wire[r]), verdict |-> verdict] \in Replies
  BY <1>1 DEF Replies
<1>3. wire' \in [Relays -> Seq(Wrappers)]
  BY <1>1 DEF TypeOK, Reply
<1>4. replies' \in [Relays -> Seq(Replies)]
  BY <1>2 DEF TypeOK, Reply
<1> QED
  BY <1>1, <1>3, <1>4

(* Inside its page, a worker that goes on to the next intent stays in it. *)
LEMMA NextIntentTypes ==
    ASSUME TypeOK, NEW r \in Relays, page[r].cur <= page[r].end, NextIntent(r)
    PROVE  page' \in [Relays -> Pages] /\ pc' \in [Relays -> Steps]
<1>1. page[r] \in Pages
  BY DEF TypeOK
<1>2. [page[r] EXCEPT !.cur = page[r].cur + 1] \in Pages
  <2>1. /\ page[r].cur \in 1..(NumLineages + 1)
        /\ page[r].end \in 0..NumLineages
    BY <1>1 DEF Pages
  <2>2. page[r].cur + 1 \in 1..(NumLineages + 1)
    BY <2>1, SizesAssumption
  <2> QED
    BY <1>1, <2>2 DEF Pages
<1>3. page' = [page EXCEPT ![r] = [page[r] EXCEPT !.cur = page[r].cur + 1]]
  BY DEF NextIntent
<1>4. page' \in [Relays -> Pages]
  BY <1>2, <1>3 DEF TypeOK
<1> QED
  BY <1>4 DEF TypeOK, NextIntent, Go, Steps

(* What the end of a worker, or of its connection, resets is well typed. *)
LEMMA DisconnectTypes ==
    ASSUME TypeOK, NEW r \in Relays, Disconnected(r)
    PROVE  /\ conn' \in [Relays -> BOOLEAN]
           /\ draft' \in [Relays -> Wrappers \cup {None}]
           /\ inflight' \in [Relays -> [Wrappers -> Row \cup {None}]]
           /\ wire' \in [Relays -> Seq(Wrappers)]
           /\ replies' \in [Relays -> Seq(Replies)]
BY DEF TypeOK, Disconnected, NoneInflight

(* A failure counts towards its bound. *)
LEMMA FaultTypes == TypeOK /\ Fault => faults' \in 0..MaxFaults
<1> SUFFICES ASSUME faults \in 0..MaxFaults, Fault
             PROVE  faults' \in 0..MaxFaults
  BY DEF TypeOK
<1> QED
  BY SizesAssumption DEF Fault

(* Every step of the session workers keeps the variables in their types. *)
LEMMA TypeStep == TypeOK /\ HandInv /\ [Next]_vars => TypeOK'
<1> SUFFICES ASSUME TypeOK, HandInv, [Next]_vars
             PROVE  TypeOK'
  OBVIOUS
<1> USE DEF durable, world, worker, network
<1>1. CASE UNCHANGED vars
  BY <1>1 DEF TypeOK, vars
<1>2. ASSUME NEW r \in Relays, WorkerStep(r)
      PROVE  TypeOK'
  <2>1. CASE StartTick(r)
    <3>1. inflight' \in [Relays -> [Wrappers -> Row \cup {None}]]
      <4>1. NoneInflight \in [Wrappers -> Row \cup {None}]
        BY DEF NoneInflight
      <4> QED
        BY <2>1, <4>1, RowFunctionTypes DEF StartTick
    <3>2. pc' \in [Relays -> Steps]
      BY SMTT(60), <2>1, FunctionTypes DEF StartTick, Go, Steps
    <3> QED
      BY <2>1, <3>1, <3>2 DEF TypeOK, StartTick
  <2>2. CASE LoadPage(r)
    <3> DEFINE first == page[r].next
               end == IF first + PageItems <= queued THEN first + PageItems
                      ELSE queued
               more == end = first + PageItems
               loaded == [next |-> IF more THEN end ELSE 0, cur |-> first + 1,
                          end |-> end, more |-> more]
    <3>1. first \in 0..NumLineages /\ queued \in 0..NumLineages
      BY FunctionTypes DEF Pages, TypeOK
    <3>2. end \in 0..NumLineages /\ first + 1 \in 1..(NumLineages + 1)
      BY <3>1, SizesAssumption
    <3>3. loaded \in Pages
      <4> HIDE DEF end, first
      <4> QED
        BY <3>1, <3>2, SizesAssumption DEF Pages
    <3>4. page' = [page EXCEPT ![r] = loaded] /\ again' = [again EXCEPT ![r] = more]
      BY SMTT(60), <2>2 DEF LoadPage
    <3>5. page' \in [Relays -> Pages] /\ pc' \in [Relays -> Steps]
      BY SMTT(60), <2>2, <3>3, <3>4, FunctionTypes DEF LoadPage, Go, Steps
    <3>6. /\ outRetry' \in [Relays -> Clock \cup {None}]
          /\ again' \in [Relays -> BOOLEAN]
      BY <2>2, <3>4 DEF TypeOK, LoadPage
    <3> QED
      BY <2>2, <3>5, <3>6 DEF TypeOK, LoadPage
  <2>3. CASE FinishPage(r)
    <3>1. Earliest(deadline[r], outRetry[r]) \in Clock \cup {None}
      BY Zenon, DeadlineTypes DEF TypeOK
    <3> QED
      BY <2>3, <3>1 DEF TypeOK, FinishPage, Go, Steps
  <2>4. CASE SkipIntent(r)
    BY <2>4, NextIntentTypes DEF TypeOK, SkipIntent
  <2>5. ASSUME NEW delay \in Delays, Unroutable(r, delay)
        PROVE  TypeOK'
    BY Zenon, <2>5, DeadlineTypes DEF TypeOK, Unroutable, TolerateLocalRetry, Go, Steps
  <2>6. CASE ReusePrepared(r)
    <3>1. page[r].cur \in Lineages
      BY SMTT(60), <2>6, IntentInPage DEF ReusePrepared, Routed
    <3> QED
      BY SMTT(60), <2>6, <3>1 DEF TypeOK, ReusePrepared, Routed, Go, Steps
  <2>7. ASSUME NEW w \in Wrappers, SealWrapper(r, w)
        PROVE  TypeOK'
    <3>1. page[r].cur \in Lineages
      BY <2>7, IntentInPage DEF SealWrapper, Routed
    <3> QED
      BY SMTT(60), <2>7, <3>1 DEF TypeOK, SealWrapper, Routed, Go, Steps
  <2>8. CASE ApplyPrepare(r)
    <3>1. page[r].cur \in Lineages /\ draft[r] \in Wrappers
      BY <2>8, InHand DEF ApplyPrepare
    <3>2. CASE prepared[page[r].cur] = None
      BY Zenon, <2>8, <3>1, <3>2 DEF TypeOK, ApplyPrepare, Go, Steps
    <3>3. CASE prepared[page[r].cur] /= None
      <4>1. prepared[page[r].cur] \in Wrappers
        BY SMTT(60), <3>1, <3>3 DEF TypeOK
      <4> QED
        BY ZenonT(60), <2>8, <3>3, <4>1 DEF TypeOK, ApplyPrepare, Go, Steps
    <3> QED
      BY <3>2, <3>3
  <2>9. CASE SkipAttempt(r)
    <3>1. draft[r] \in Wrappers /\ page[r].cur <= page[r].end
      BY <2>9 DEF TypeOK, HandInv, SkipAttempt
    <3>2. attempt[r][draft[r]] \in Row \cup {None}
      BY <3>1 DEF TypeOK
    <3>3. outRetry' \in [Relays -> Clock \cup {None}]
      <4>1. CASE AttemptDue(attempt[r][draft[r]], now)
        BY <2>9, <4>1 DEF TypeOK, SkipAttempt
      <4>2. CASE ~AttemptDue(attempt[r][draft[r]], now)
        <5>1. attempt[r][draft[r]].retry \in Clock \cup {None}
          BY <3>2, <4>2 DEF AttemptDue, Row, AttemptRow
        <5>2. Earliest(outRetry[r], attempt[r][draft[r]].retry)
                 \in Clock \cup {None}
          BY Zenon, <5>1, DeadlineTypes DEF TypeOK
        <5> QED
          BY <2>9, <4>2, <5>2 DEF TypeOK, SkipAttempt
      <4> QED
        BY <4>1, <4>2
    <3>4. page' \in [Relays -> Pages] /\ pc' \in [Relays -> Steps]
      BY <2>9, <3>1, NextIntentTypes DEF SkipAttempt
    <3> QED
      BY SMTT(60), <2>9, <3>3, <3>4 DEF TypeOK, SkipAttempt
  <2>10. ASSUME NEW delay \in Delays, RecordAttempt(r, delay)
         PROVE  TypeOK'
    <3> DEFINE prior == attempt[r][draft[r]]
               row == UncertainRow(prior, delay)
    <3>1. draft[r] \in Wrappers /\ prior \in Row \cup {None}
      <4>1. draft[r] \in Wrappers
        BY <2>10, FunctionTypes DEF HandInv, RecordAttempt
      <4> QED
        BY <4>1, RowFunctionTypes
    <3>2. row \in Row
      <4>1. prior /= None => prior.attempts < MaxAttempts
        BY <2>10 DEF RecordAttempt
      <4> QED
        BY <3>1, <4>1, RowTypes, RowFunctionTypes
    <3>3. CASE PutAttemptOk(prior, row)
      <4>1. attempt' = [attempt EXCEPT ![r][draft[r]] = row]
        BY <2>10, <3>3 DEF RecordAttempt
      <4>2. attempt' \in [Relays -> [Wrappers -> Row \cup {None}]]
        BY <3>1, <3>2, <4>1 DEF TypeOK
      <4> QED
        BY Zenon, <2>10, <3>3, <4>2 DEF TypeOK, RecordAttempt, Go, Steps
    <3>4. CASE ~PutAttemptOk(prior, row)
      <4>1. Fail(r) /\ UNCHANGED attempt
        BY SMTT(60), <2>10, <3>4 DEF RecordAttempt
      <4> QED
        BY Zenon, <2>10, <4>1, DisconnectTypes DEF TypeOK, RecordAttempt, Fail, Go, Steps
    <3> QED
      BY <3>3, <3>4
  <2>11. CASE SendEvent(r)
    <3>1. /\ draft[r] \in Wrappers /\ page[r].cur <= page[r].end
          /\ attempt[r][draft[r]] \in Row
      BY <2>11 DEF TypeOK, HandInv, SendEvent
    <3>2. Earliest(outRetry[r], attempt[r][draft[r]].retry) \in Clock \cup {None}
      <4>1. attempt[r][draft[r]].retry \in Clock \cup {None}
        BY <3>1 DEF Row, AttemptRow
      <4> QED
        BY Zenon, <4>1, DeadlineTypes DEF TypeOK
    <3>3. page' \in [Relays -> Pages] /\ pc' \in [Relays -> Steps]
      BY <2>11, <3>1, NextIntentTypes DEF SendEvent
    <3>4. wire' \in [Relays -> Seq(Wrappers)]
      BY <2>11, <3>1, QueueFunctionTypes DEF SendEvent
    <3>5. inflight' \in [Relays -> [Wrappers -> Row \cup {None}]]
      BY <2>11, <3>1, RowFunctionTypes DEF SendEvent
    <3> QED
      BY SMTT(60), <2>11, <3>2, <3>3, <3>4, <3>5 DEF TypeOK, SendEvent
  <2>12. ASSUME NEW delay \in Delays, HandleOk(r, delay)
         PROVE  TypeOK'
    <3> DEFINE ok == Head(replies[r])
               w == ok.wrapper
               prior == IF inflight[r][w] /= None THEN inflight[r][w]
                        ELSE attempt[r][w]
               row == AnsweredRow(prior, ok.verdict, delay)
    <3>1. w \in Wrappers /\ ok.verdict \in Verdicts
      <4>1. ok \in Replies
        BY <2>12, QueueTypes, QueueFunctionTypes DEF HandleOk
      <4> QED
        BY SMTT(60), <4>1 DEF Replies
    <3>2. prior \in Row \cup {None}
      BY <3>1, RowFunctionTypes
    <3>3. again' \in [Relays -> BOOLEAN]
      <4>1. again' = [again EXCEPT ![r] = TRUE]
        BY Zenon, <2>12 DEF HandleOk
      <4>2. again \in [Relays -> BOOLEAN]
        BY DEF TypeOK
      <4> QED
        BY <4>1, <4>2
    <3>4. CASE prior = None \/ PutAttemptOk(attempt[r][w], row)
      <4>1. attempt' \in [Relays -> [Wrappers -> Row \cup {None}]]
        <5>1. CASE prior = None
          BY SMTT(60), <2>12, <5>1, RowFunctionTypes DEF HandleOk
        <5>2. CASE prior /= None
          <6>1. row \in Row
            BY <3>1, <3>2, <5>2, RowTypes, RowFunctionTypes
          <6>2. attempt' = [attempt EXCEPT ![r][w] = row]
            BY Zenon, <2>12, <3>4, <5>2 DEF HandleOk
          <6> QED
            BY SMTT(60), <3>1, <6>1, <6>2, RowFunctionTypes
        <5> QED
          BY SMTT(60), <5>1, <5>2
      <4>2. inflight' \in [Relays -> [Wrappers -> Row \cup {None}]]
        <5>1. inflight' = [inflight EXCEPT ![r][w] = None]
          BY Zenon, <2>12, <3>4 DEF HandleOk
        <5> QED
          BY <3>1, <5>1, RowFunctionTypes
      <4>3. replies' \in [Relays -> Seq(Replies)]
        <5>1. replies' = [replies EXCEPT ![r] = Tail(@)]
          BY ZenonT(60), <2>12, <3>4 DEF HandleOk
        <5>2. Tail(replies[r]) \in Seq(Replies)
          BY <2>12, QueueTypes, QueueFunctionTypes DEF HandleOk
        <5> QED
          BY <5>1, <5>2, QueueFunctionTypes
      <4>4. pc' \in [Relays -> Steps]
        BY ZenonT(60), <2>12, <3>4 DEF TypeOK, HandleOk, Go, Steps
      <4> QED
        BY Zenon, <2>12, <3>3, <3>4, <4>1, <4>2, <4>3, <4>4 DEF TypeOK, HandleOk
    <3>5. CASE ~(prior = None \/ PutAttemptOk(attempt[r][w], row))
      <4>1. Fail(r) /\ UNCHANGED attempt
        BY <2>12, <3>5 DEF HandleOk
      <4> QED
        BY Zenon, <2>12, <3>3, <4>1, DisconnectTypes DEF TypeOK, HandleOk, Fail, Go, Steps
    <3> QED
      BY Zenon, <3>4, <3>5
  <2>13. CASE EndTick(r)
    BY <2>13 DEF TypeOK, EndTick, Go, Steps
  <2>14. CASE Awake(r)
    BY SMTT(60), <2>14 DEF TypeOK, Awake, Go, Steps
  <2>15. CASE Respawn(r)
    <3>1. NoPage \in Pages
      BY SMTT(60), SizesAssumption DEF NoPage, Pages
    <3> QED
      BY <2>15, <3>1 DEF TypeOK, Respawn, WakeAll, Go, Steps
  <2> QED
    BY <1>2, <2>1, <2>2, <2>3, <2>4, <2>5, <2>6, <2>7, <2>8, <2>9, <2>10,
       <2>11, <2>12, <2>13, <2>14, <2>15 DEF WorkerStep
<1>3. ASSUME NEW r \in Relays, RelayAccepts(r)
      PROVE  TypeOK'
  <2>1. PICK verdict \in Verdicts : Reply(r, verdict)
    BY <1>3 DEF RelayAccepts, Verdicts
  <2>2. /\ wire' \in [Relays -> Seq(Wrappers)]
        /\ replies' \in [Relays -> Seq(Replies)]
        /\ Head(wire[r]) \in Wrappers
    BY <2>1, ReplyTypes
  <2> QED
    BY <1>3, <2>2 DEF TypeOK, RelayAccepts, Reply
<1>4. ASSUME NEW r \in Relays, Failure(r)
      PROVE  TypeOK'
  <2>1. CASE ConnectFails(r)
    BY SMTT(60), <2>1, FaultTypes DEF TypeOK, ConnectFails, Go, Steps
  <2>2. CASE LoseConnection(r)
    BY SMTT(60), <2>2, FaultTypes, DisconnectTypes DEF TypeOK, LoseConnection, Go, Steps
  <2>3. ASSUME NEW delay \in Delays, StoreUnavailable(r, delay)
        PROVE  TypeOK'
    <3>1. Earliest(deadline[r], Later(delay)) \in Clock \cup {None}
      BY Zenon, DeadlineTypes DEF TypeOK
    <3> QED
      BY SMTT(60), <2>3, <3>1, FaultTypes
      DEF TypeOK, StoreUnavailable, TolerateLocalRetry, Go, Steps
  <2>4. ASSUME NEW failure \in Failures, RelayRefuses(r, failure)
        PROVE  TypeOK'
    <3>1. /\ wire' \in [Relays -> Seq(Wrappers)]
          /\ replies' \in [Relays -> Seq(Replies)]
      BY Zenon, <2>4, ReplyTypes DEF RelayRefuses, Verdicts
    <3> QED
      BY SMTT(60), <2>4, <3>1, FaultTypes DEF TypeOK, RelayRefuses, Reply
  <2> QED
    BY SMTT(60), <1>4, <2>1, <2>2, <2>3, <2>4 DEF Failure
<1>5. CASE Environment
  <2>1. CASE Enqueue
    <3>1. queued' \in 0..NumLineages
      <4>1. queued \in 0..NumLineages
        BY SMTT(60) DEF TypeOK
      <4> QED
        BY <2>1, <4>1, SizesAssumption DEF Enqueue
    <3> QED
      BY <2>1, <3>1 DEF TypeOK, Enqueue, WakeAll
  <2>2. CASE AdvanceClock
    <3>1. now' \in Clock
      BY SMTT(60), <2>2, RowFunctionTypes, SizesAssumption DEF AdvanceClock, Clock
    <3> QED
      BY <2>2, <3>1 DEF TypeOK, AdvanceClock
  <2>3. CASE StepClockBack
    <3>1. now' \in Clock
      BY SMTT(60), <2>3, RowFunctionTypes, SizesAssumption DEF StepClockBack, Clock
    <3> QED
      BY <2>3, <3>1, FaultTypes DEF TypeOK, StepClockBack
  <2>4. CASE Crash
    <3>1. NoPage \in Pages /\ NoneInflight \in [Wrappers -> Row \cup {None}]
      BY SMTT(60), SizesAssumption DEF NoPage, Pages, NoneInflight
    <3> QED
      BY <2>4, <3>1, FaultTypes DEF TypeOK, Crash, Steps
  <2>5. ASSUME NEW l \in Lineages, NEW relays \in SUBSET Relays,
               VerifyRoute(l, relays)
        PROVE  TypeOK'
    BY SMTT(60), <2>5 DEF TypeOK, VerifyRoute, WakeAll
  <2>6. ASSUME NEW l \in Lineages, LoseRoute(l)
        PROVE  TypeOK'
    BY <2>6, FaultTypes DEF TypeOK, LoseRoute, WakeAll
  <2> QED
    BY <1>5, <2>1, <2>2, <2>3, <2>4, <2>5, <2>6 DEF Environment
<1> QED
  BY <1>1, <1>2, <1>3, <1>4, <1>5 DEF Next

-----------------------------------------------------------------------------
(* Where the frames of a shortened or lengthened queue come from. *)
LEMMA TailElements ==
    ASSUME NEW S, NEW q \in Seq(S), q /= <<>>
    PROVE  \A i \in 1..Len(Tail(q)) :
              i + 1 \in 1..Len(q) /\ Tail(q)[i] = q[i + 1]
OBVIOUS

LEMMA AppendElements ==
    ASSUME NEW S, NEW q \in Seq(S), NEW x \in S
    PROVE  \A i \in 1..Len(Append(q, x)) :
              \/ i \in 1..Len(q) /\ Append(q, x)[i] = q[i]
              \/ Append(q, x)[i] = x
BY SMTT(60)

(***************************************************************************)
(* A step that leaves the rows and the relays alone, and at most loses     *)
(* what connections carry, keeps all that is said about rows and frames.   *)
(***************************************************************************)
LEMMA LossKeepsRows ==
    ASSUME TypeOK, RowsInv,
           UNCHANGED <<prepared, minted, attempt, retained>>,
           \A r \in Relays : /\ wire'[r] \in {wire[r], <<>>}
                             /\ replies'[r] \in {replies[r], <<>>}
    PROVE  RowsInv'
<1>1. \A r \in Relays, w \in Wrappers : OnWire(r, w)' => OnWire(r, w)
  BY DEF OnWire
<1>2. \A r \in Relays, w \in Wrappers : Answered(r, w)' => Answered(r, w)
  BY DEF Answered
<1>3. PreparedInv'
  BY SMTT(60) DEF RowsInv, PreparedInv
<1>4. AnswersInv'
  <2> SUFFICES ASSUME NEW r \in Relays, NEW i \in 1..Len(replies'[r]),
                      Positive(replies'[r][i].verdict)
               PROVE  replies'[r][i].wrapper \in retained[r]
    BY DEF AnswersInv
  <2>1. replies'[r] = replies[r]
    OBVIOUS
  <2> QED
    BY <2>1 DEF RowsInv, AnswersInv
<1>5. OneWrapperPerLineage'
  BY <1>1 DEF RowsInv, OneWrapperPerLineage
<1>6. EverySendIsRecorded'
  BY <1>1, <1>2 DEF RowsInv, EverySendIsRecorded
<1>7. AcceptedIsRetained'
  BY DEF RowsInv, AcceptedIsRetained
<1> QED
  BY <1>3, <1>4, <1>5, <1>6, <1>7 DEF RowsInv

-----------------------------------------------------------------------------
(***************************************************************************)
(* What is said of rows and frames is inductive: one step for each action  *)
(* that changes rows, frames or relays; the others at most lose frames.    *)
(***************************************************************************)
LEMMA RowsStep == IInv /\ [Next]_vars => RowsInv'
<1> SUFFICES ASSUME IInv, [Next]_vars
             PROVE  RowsInv'
  OBVIOUS
<1>t. TypeOK /\ HandInv /\ RowsInv
  BY DEF IInv
<1>f. /\ prepared \in [Lineages -> Wrappers \cup {None}]
      /\ minted \in [Wrappers -> Lineages \cup {None}]
      /\ retained \in [Relays -> SUBSET Wrappers]
  BY <1>t, FunctionTypes
<1>a. /\ attempt \in [Relays -> [Wrappers -> Row \cup {None}]]
      /\ inflight \in [Relays -> [Wrappers -> Row \cup {None}]]
  BY <1>t, RowFunctionTypes
<1>q. /\ wire \in [Relays -> Seq(Wrappers)]
      /\ replies \in [Relays -> Seq(Replies)]
  BY <1>t, QueueFunctionTypes
<1> USE DEF durable, world, worker, network
<1>1. CASE UNCHANGED vars
  BY <1>1, <1>t, LossKeepsRows DEF vars
<1>2. ASSUME NEW r \in Relays, WorkerStep(r)
      PROVE  RowsInv'
  <2>1. CASE \/ StartTick(r) \/ LoadPage(r) \/ FinishPage(r) \/ SkipIntent(r)
             \/ \E delay \in Delays : Unroutable(r, delay)
             \/ ReusePrepared(r) \/ SkipAttempt(r)
             \/ EndTick(r) \/ Awake(r) \/ Respawn(r)
    <3>1. UNCHANGED <<prepared, minted, attempt, retained, wire, replies>>
      BY Zenon, <2>1 DEF StartTick, LoadPage, FinishPage, SkipIntent, Unroutable,
                  TolerateLocalRetry, ReusePrepared, SkipAttempt, EndTick,
                  Awake, Respawn
    <3> QED
      BY <1>t, <3>1, LossKeepsRows
  <2>2. ASSUME NEW w \in Wrappers, SealWrapper(r, w)
        PROVE  RowsInv'
    <3>1. /\ minted' = [minted EXCEPT ![w] = page[r].cur]
          /\ UNCHANGED <<prepared, attempt, retained, wire, replies>>
      BY Zenon, <2>2 DEF SealWrapper
    <3>2. /\ \A l \in Lineages : prepared[l] /= w
          /\ \A q \in Relays : w \notin retained[q]
      BY Zenon, <2>2 DEF SealWrapper, Fresh
    <3>3. \A q \in Relays : ~OnWire(q, w)
      BY <1>t, <1>f, <3>2, NotNone DEF RowsInv, OneWrapperPerLineage
    <3>4. PreparedInv'
      BY SMTT(60), <1>t, <1>f, <3>1, <3>2 DEF RowsInv, PreparedInv
    <3>5. OneWrapperPerLineage'
      <4>1. \A v \in Wrappers \ {w} : minted'[v] = minted[v]
        BY <1>f, <3>1
      <4>2. \A q \in Relays, v \in Wrappers : OnWire(q, v)' => OnWire(q, v) /\ v /= w
        BY <3>1, <3>3 DEF OnWire
      <4> QED
        BY <1>t, <3>1, <3>2, <4>1, <4>2 DEF RowsInv, OneWrapperPerLineage
    <3> QED
      BY Zenon, <1>t, <3>1, <3>4, <3>5
      DEF RowsInv, AnswersInv, EverySendIsRecorded, AcceptedIsRetained,
          OnWire, Answered
  <2>3. CASE ApplyPrepare(r)
    <3> DEFINE l == page[r].cur
    <3>1. /\ l \in Lineages /\ draft[r] \in Wrappers /\ minted[draft[r]] = l
          /\ UNCHANGED <<minted, attempt, retained, wire, replies>>
      BY Zenon, <1>t, <2>3, InHand DEF HandInv, ApplyPrepare
    <3>2. CASE prepared[l] = None
      <4>1. prepared' = [prepared EXCEPT ![l] = draft[r]]
        BY SMTT(60), <2>3, <3>2 DEF ApplyPrepare
      <4>2. PreparedInv'
        BY SMTT(60), <1>t, <1>f, <3>1, <4>1 DEF RowsInv, PreparedInv
      <4>3. OneWrapperPerLineage'
        <5>1. \A v \in Wrappers : minted[v] /= None /\ prepared[minted[v]] = v =>
                 prepared'[minted[v]] = v
          BY <1>f, <3>1, <3>2, <4>1, NoneAssumption
        <5>2. \A q \in Relays, v \in Wrappers : OnWire(q, v)' => OnWire(q, v)
          BY SMTT(60), <3>1 DEF OnWire
        <5> QED
          BY <1>t, <3>1, <5>1, <5>2 DEF RowsInv, OneWrapperPerLineage
      <4> QED
        BY Zenon, <1>t, <3>1, <4>2, <4>3
        DEF RowsInv, AnswersInv, EverySendIsRecorded, AcceptedIsRetained,
            OnWire, Answered
    <3>3. CASE prepared[l] /= None
      BY SMTT(60), <1>t, <2>3, <3>1, <3>3, LossKeepsRows DEF ApplyPrepare
    <3> QED
      BY <3>2, <3>3
  <2>4. ASSUME NEW delay \in Delays, RecordAttempt(r, delay)
        PROVE  RowsInv'
    <3> DEFINE w == draft[r]
               row == UncertainRow(attempt[r][w], delay)
    <3>1. w \in Wrappers /\ UNCHANGED <<prepared, minted, retained>>
      BY <1>t, <2>4, InHand DEF RecordAttempt
    <3>2. CASE PutAttemptOk(attempt[r][w], row)
      <4>1. /\ attempt' = [attempt EXCEPT ![r][w] = row]
            /\ UNCHANGED <<wire, replies>>
        BY SMTT(60), <2>4, <3>2 DEF RecordAttempt
      <4>2. row \in Row /\ row /= None /\ row.disposition = "uncertain"
        <5>1. row \in Row
          <6>1. attempt[r][w] \in Row \cup {None}
            BY <1>a, <3>1
          <6>2. attempt[r][w] /= None => attempt[r][w].attempts < MaxAttempts
            BY <2>4 DEF RecordAttempt
          <6> QED
            BY <1>t, <6>1, <6>2, RowTypes, RowFunctionTypes
        <5>2. row /= None
          BY <5>1, NotNone
        <5> QED
          BY SMTT(60), <5>1, <5>2 DEF UncertainRow
      <4> HIDE DEF row
      <4>a. \A q \in Relays, v \in Wrappers :
               \/ attempt'[q][v] = attempt[q][v]
               \/ q = r /\ v = w /\ attempt'[q][v] = row
        BY <1>a, <3>1, <4>1
      <4>3. EverySendIsRecorded'
        BY SMTT(60), <1>t, <3>1, <4>1, <4>2, <4>a
        DEF RowsInv, EverySendIsRecorded, OnWire, Answered
      <4>4. AcceptedIsRetained'
        BY <1>t, <3>1, <4>2, <4>a DEF RowsInv, AcceptedIsRetained, Accepted
      <4> QED
        BY SMTT(60), <1>t, <3>1, <4>1, <4>3, <4>4
        DEF RowsInv, PreparedInv, AnswersInv, OneWrapperPerLineage, OnWire
    <3>3. CASE ~PutAttemptOk(attempt[r][w], row)
      <4>1. Fail(r) /\ UNCHANGED attempt
        BY <2>4, <3>3 DEF RecordAttempt
      <4>2. \A q \in Relays : /\ wire'[q] \in {wire[q], <<>>}
                              /\ replies'[q] \in {replies[q], <<>>}
        BY <1>q, <4>1 DEF Fail, Disconnected
      <4>3. UNCHANGED <<prepared, minted, attempt, retained>>
        BY Zenon, <3>1, <4>1
      <4> QED
        BY Zenon, <1>t, <4>2, <4>3, LossKeepsRows
    <3> QED
      BY <3>2, <3>3
  <2>5. CASE SendEvent(r)
    <3> DEFINE w == draft[r]
    <3>1. /\ w \in Wrappers /\ Durable(w) /\ attempt[r][w] /= None
          /\ UNCHANGED <<prepared, minted, attempt, retained, replies>>
      BY SMTT(60), <1>t, <2>5, InHand DEF HandInv, SendEvent
    <3>2. wire' = [wire EXCEPT ![r] = Append(wire[r], w)]
      BY SMTT(60), <2>5 DEF SendEvent
    <3>3. \A q \in Relays, v \in Wrappers :
             OnWire(q, v)' => OnWire(q, v) \/ (q = r /\ v = w)
      <4>1. \A q \in Relays : q /= r => wire'[q] = wire[q]
        BY <1>q, <3>2
      <4>2. wire[r] \in Seq(Wrappers) /\ wire'[r] = Append(wire[r], w)
        BY SMTT(60), <1>q, <3>2
      <4>3. \A i \in 1..Len(wire'[r]) :
               \/ i \in 1..Len(wire[r]) /\ wire'[r][i] = wire[r][i]
               \/ wire'[r][i] = w
        BY SMTT(60), <3>1, <4>2, AppendElements
      <4> QED
        BY Zenon, <4>1, <4>3 DEF OnWire
    <3>4. OneWrapperPerLineage'
      BY SMTT(60), <1>t, <3>1, <3>3 DEF RowsInv, OneWrapperPerLineage, Durable
    <3>5. EverySendIsRecorded'
      BY SMTT(60), <1>t, <3>1, <3>3 DEF RowsInv, EverySendIsRecorded, Answered
    <3> QED
      BY Zenon, <1>t, <3>1, <3>4, <3>5
      DEF RowsInv, PreparedInv, AnswersInv, AcceptedIsRetained
  <2>6. ASSUME NEW delay \in Delays, HandleOk(r, delay)
        PROVE  RowsInv'
    <3> DEFINE ok == Head(replies[r])
               w == ok.wrapper
               prior == IF inflight[r][w] /= None THEN inflight[r][w]
                        ELSE attempt[r][w]
               row == AnsweredRow(prior, ok.verdict, delay)
    <3>1. /\ replies[r] /= <<>> /\ replies[r] \in Seq(Replies)
          /\ UNCHANGED <<prepared, minted, retained>>
      BY <1>q, <2>6 DEF HandleOk
    <3>2. ok \in Replies /\ ok = replies[r][1] /\ 1 \in 1..Len(replies[r])
      BY <3>1, QueueTypes
    <3>3. w \in Wrappers /\ ok.verdict \in Verdicts
      BY <3>2 DEF Replies
    <3>4. Positive(ok.verdict) => w \in retained[r]
      BY <1>t, <3>2 DEF RowsInv, AnswersInv
    <3>5. CASE prior = None \/ PutAttemptOk(attempt[r][w], row)
      <4>1. /\ replies' = [replies EXCEPT ![r] = Tail(replies[r])]
            /\ UNCHANGED wire
            /\ attempt' = IF prior = None THEN attempt
                          ELSE [attempt EXCEPT ![r][w] = row]
        BY Zenon, <2>6, <3>5 DEF HandleOk
      <4> HIDE DEF row, prior, w, ok
      <4>a. \A q \in Relays : \A i \in 1..Len(replies'[q]) :
               \E j \in 1..Len(replies[q]) : replies'[q][i] = replies[q][j]
        <5> SUFFICES ASSUME NEW q \in Relays, NEW i \in 1..Len(replies'[q])
                     PROVE  \E j \in 1..Len(replies[q]) :
                                replies'[q][i] = replies[q][j]
          BY SMTT(60)
        <5>1. CASE q /= r
          BY <1>q, <4>1, <5>1
        <5>2. CASE q = r
          <6>1. replies'[r] = Tail(replies[r])
            BY <1>q, <4>1
          <6>2. i + 1 \in 1..Len(replies[r]) /\ replies'[r][i] = replies[r][i + 1]
            BY <3>1, <5>2, <6>1, TailElements
          <6> QED
            BY <5>2, <6>2
        <5> QED
          BY <5>1, <5>2
      <4>2. AnswersInv'
        BY Zenon, <1>t, <3>1, <4>a DEF RowsInv, AnswersInv
      <4>3. \A q \in Relays, v \in Wrappers : Answered(q, v)' => Answered(q, v)
        BY SMTT(60), <4>a DEF Answered
      <4>4. prior /= None => row \in Row /\ row /= None
                             /\ (Accepted(row) => w \in retained[r])
        <5> SUFFICES ASSUME prior /= None
                     PROVE  /\ row \in Row /\ row /= None
                            /\ Accepted(row) => w \in retained[r]
          OBVIOUS
        <5>1. prior \in Row
          BY <1>a, <3>3 DEF prior
        <5>2. row \in Row
          BY <1>t, <3>3, <5>1, RowTypes, RowFunctionTypes DEF row
        <5>3. row /= None
          BY <5>2, NotNone
        <5>4. ~Positive(ok.verdict) => row.disposition = "rejected"
          BY <5>1 DEF AnsweredRow, Row, AttemptRow, row
        <5> QED
          BY <3>4, <5>2, <5>3, <5>4 DEF Accepted
      <4>5. \A q \in Relays, v \in Wrappers :
               \/ attempt'[q][v] = attempt[q][v]
               \/ q = r /\ v = w /\ prior /= None /\ attempt'[q][v] = row
        BY SMTT(60), <1>a, <3>3, <4>1
      <4>6. EverySendIsRecorded'
        <5>1. \A q \in Relays, v \in Wrappers :
                 attempt[q][v] /= None => attempt'[q][v] /= None
          BY <4>4, <4>5
        <5>2. \A q \in Relays, v \in Wrappers : OnWire(q, v)' => OnWire(q, v)
          BY SMTT(60), <4>1 DEF OnWire
        <5> QED
          BY Zenon, <1>t, <3>1, <4>3, <5>1, <5>2 DEF RowsInv, EverySendIsRecorded
      <4>7. AcceptedIsRetained'
        BY SMTT(60), <1>t, <3>1, <4>4, <4>5 DEF RowsInv, AcceptedIsRetained
      <4> QED
        BY <1>t, <3>1, <4>1, <4>2, <4>6, <4>7
        DEF RowsInv, PreparedInv, OneWrapperPerLineage, OnWire
    <3>6. CASE ~(prior = None \/ PutAttemptOk(attempt[r][w], row))
      <4>1. Fail(r) /\ UNCHANGED attempt
        BY <2>6, <3>6 DEF HandleOk
      <4>2. \A q \in Relays : /\ wire'[q] \in {wire[q], <<>>}
                              /\ replies'[q] \in {replies[q], <<>>}
        BY <1>q, <4>1 DEF Fail, Disconnected
      <4>3. UNCHANGED <<prepared, minted, attempt, retained>>
        BY Zenon, <3>1, <4>1
      <4> QED
        BY Zenon, <1>t, <4>2, <4>3, LossKeepsRows
    <3> QED
      BY ZenonT(60), <3>5, <3>6
  <2> QED
    BY <1>2, <2>1, <2>2, <2>3, <2>4, <2>5, <2>6 DEF WorkerStep
<1>3. ASSUME NEW r \in Relays, NEW verdict \in Verdicts, Reply(r, verdict),
             \/ UNCHANGED retained /\ ~Positive(verdict)
             \/ retained' = [retained EXCEPT ![r] = @ \cup {Head(wire[r])}]
      PROVE  RowsInv'
  <2> DEFINE w == Head(wire[r])
             answer == [wrapper |-> w, verdict |-> verdict]
  <2>1. /\ wire[r] \in Seq(Wrappers) /\ wire[r] /= <<>> /\ w \in Wrappers
        /\ w = wire[r][1] /\ 1 \in 1..Len(wire[r])
    BY <1>q, <1>3, QueueTypes DEF Reply
  <2>2. /\ wire' = [wire EXCEPT ![r] = Tail(wire[r])]
        /\ replies' = [replies EXCEPT ![r] = Append(replies[r], answer)]
        /\ UNCHANGED <<prepared, minted, attempt>>
    BY SMTT(60), <1>3 DEF Reply
  <2>3. answer \in Replies /\ answer.wrapper = w /\ answer.verdict = verdict
    BY <2>1 DEF Replies
  <2>4. OnWire(r, w)
    BY <2>1 DEF OnWire
  <2>5. \A q \in Relays, v \in Wrappers : OnWire(q, v)' => OnWire(q, v)
    <3>1. \A q \in Relays : q /= r => wire'[q] = wire[q]
      BY <1>q, <2>2
    <3>2. wire'[r] = Tail(wire[r])
      BY <1>q, <2>2
    <3>3. \A i \in 1..Len(wire'[r]) :
             i + 1 \in 1..Len(wire[r]) /\ wire'[r][i] = wire[r][i + 1]
      BY <2>1, <3>2, TailElements
    <3> QED
      BY <3>1, <3>3 DEF OnWire
  <2>d. \A q \in Relays : q /= r => replies'[q] = replies[q]
    BY <1>q, <2>2
  <2>e. \A i \in 1..Len(replies'[r]) :
           \/ i \in 1..Len(replies[r]) /\ replies'[r][i] = replies[r][i]
           \/ replies'[r][i] = answer
    <3>1. replies'[r] = Append(replies[r], answer) /\ replies[r] \in Seq(Replies)
      BY SMTT(60), <1>q, <2>2
    <3> HIDE DEF answer
    <3> QED
      BY <2>3, <3>1, AppendElements
  <2>6. \A q \in Relays, v \in Wrappers :
           Answered(q, v)' => Answered(q, v) \/ (q = r /\ v = w)
    <3> HIDE DEF answer
    <3> QED
      BY <2>3, <2>d, <2>e DEF Answered
  <2>a. \/ retained' = retained /\ ~Positive(verdict)
        \/ retained' = [retained EXCEPT ![r] = retained[r] \cup {w}]
    BY <1>3
  <2> HIDE DEF w
  <2>c. /\ \A q \in Relays : \/ retained'[q] = retained[q]
                             \/ q = r /\ retained'[q] = retained[q] \cup {w}
        /\ Positive(verdict) => w \in retained'[r]
    BY SMTT(60), <1>f, <2>a
  <2>7. \A q \in Relays, v \in Wrappers :
           v \in retained'[q] => v \in retained[q] \/ (q = r /\ v = w)
    <3> SUFFICES ASSUME NEW q \in Relays, NEW v \in Wrappers, v \in retained'[q]
                 PROVE  v \in retained[q] \/ (q = r /\ v = w)
      OBVIOUS
    <3>1. \/ retained'[q] = retained[q]
          \/ q = r /\ retained'[q] = retained[q] \cup {w}
      BY <2>c
    <3> QED
      BY SMTT(60), <3>1
  <2>8. \A q \in Relays : retained[q] \subseteq retained'[q]
    BY SMTT(60), <2>c
  <2>9. AnswersInv'
    <3> SUFFICES ASSUME NEW q \in Relays, NEW i \in 1..Len(replies'[q]),
                        Positive(replies'[q][i].verdict)
                 PROVE  replies'[q][i].wrapper \in retained'[q]
      BY SMTT(60) DEF AnswersInv, Positive
    <3>1. CASE i \in 1..Len(replies[q]) /\ replies'[q][i] = replies[q][i]
      BY SMTT(60), <1>t, <2>8, <3>1 DEF RowsInv, AnswersInv
    <3>2. CASE q = r /\ replies'[q][i] = answer
      BY SMTT(60), <2>3, <2>c, <3>2
    <3> QED
      BY <2>d, <2>e, <3>1, <3>2
  <2>10. OneWrapperPerLineage'
    BY <1>t, <2>2, <2>4, <2>5, <2>7 DEF RowsInv, OneWrapperPerLineage
  <2>11. EverySendIsRecorded'
    BY Zenon, <1>t, <2>1, <2>2, <2>4, <2>5, <2>6, <2>7 DEF RowsInv, EverySendIsRecorded
  <2>12. PreparedInv' /\ AcceptedIsRetained'
    BY Zenon, <1>t, <2>2, <2>8 DEF RowsInv, PreparedInv, AcceptedIsRetained
  <2> QED
    BY SMTT(60), <2>9, <2>10, <2>11, <2>12 DEF RowsInv
<1>4. ASSUME NEW r \in Relays, RelayAccepts(r)
      PROVE  RowsInv'
  BY Zenon, <1>3, <1>4 DEF RelayAccepts, Verdicts
<1>5. ASSUME NEW r \in Relays, Failure(r)
      PROVE  RowsInv'
  <2>1. ASSUME NEW failure \in Failures, RelayRefuses(r, failure)
        PROVE  RowsInv'
    <3>1. failure \in Verdicts /\ ~Positive(failure)
      BY SMTT(60) DEF Verdicts, Failures, Positive
    <3> QED
      BY <1>3, <2>1, <3>1 DEF RelayRefuses
  <2>2. CASE \/ ConnectFails(r) \/ LoseConnection(r)
             \/ \E delay \in Delays : StoreUnavailable(r, delay)
    <3>1. UNCHANGED <<prepared, minted, attempt, retained>>
      BY Zenon, <2>2 DEF ConnectFails, LoseConnection, StoreUnavailable,
                  TolerateLocalRetry
    <3>2. UNCHANGED <<wire, replies>> \/ Disconnected(r)
      BY Zenon, <2>2 DEF ConnectFails, LoseConnection, StoreUnavailable,
                  TolerateLocalRetry
    <3>3. \A q \in Relays : /\ wire'[q] \in {wire[q], <<>>}
                            /\ replies'[q] \in {replies[q], <<>>}
      BY <1>q, <3>2 DEF Disconnected
    <3> QED
      BY <1>t, <3>1, <3>3, LossKeepsRows
  <2> QED
    BY <1>5, <2>1, <2>2 DEF Failure
<1>6. CASE Environment
  <2>1. UNCHANGED <<prepared, minted, attempt, retained>>
    BY SMTT(60), <1>6 DEF Environment, Enqueue, AdvanceClock, StepClockBack, Crash,
                VerifyRoute, LoseRoute
  <2>2. \/ UNCHANGED <<wire, replies>>
        \/ \A r \in Relays : wire'[r] = <<>> /\ replies'[r] = <<>>
    BY <1>6 DEF Environment, Enqueue, AdvanceClock, StepClockBack, Crash,
                VerifyRoute, LoseRoute
  <2> QED
    BY SMTT(60), <1>t, <2>1, <2>2, LossKeepsRows
<1> QED
  BY <1>1, <1>2, <1>4, <1>5, <1>6 DEF Next

(***************************************************************************)
(* What a worker has in hand survives the steps of the others: no other    *)
(* worker seals its wrapper again, prepares over it or writes its rows.    *)
(***************************************************************************)
LEMMA HandStep == IInv /\ [Next]_vars => HandInv'
<1> SUFFICES ASSUME IInv, [Next]_vars
             PROVE  HandInv'
  OBVIOUS
<1>t. TypeOK /\ HandInv /\ RowsInv
  BY DEF IInv
<1> USE DEF durable, world, worker, network
<1>f. /\ pc \in [Relays -> Steps] /\ page \in [Relays -> Pages]
      /\ draft \in [Relays -> Wrappers \cup {None}]
      /\ attempt \in [Relays -> [Wrappers -> Row \cup {None}]]
      /\ prepared \in [Lineages -> Wrappers \cup {None}]
      /\ minted \in [Wrappers -> Lineages \cup {None}]
  BY <1>t, FunctionTypes, RowFunctionTypes
<1> DEFINE Kept(r) == /\ pc'[r] = pc[r] /\ page'[r] = page[r]
                      /\ draft'[r] = draft[r] /\ attempt'[r] = attempt[r]
           Idle(r) == pc'[r] \notin {"prepare", "attempt", "send"}
<1>0. ASSUME UNCHANGED <<prepared, minted>>,
             \A r \in Relays : Kept(r) \/ Idle(r)
      PROVE  HandInv'
  <2> SUFFICES ASSUME NEW r \in Relays
               PROVE  HandInv!(r)'
    BY ZenonT(60) DEF HandInv
  <2>1. CASE Kept(r)
    BY SMTT(60), <1>t, <1>0, <2>1 DEF HandInv, Durable
  <2>2. CASE Idle(r)
    BY <2>2
  <2> QED
    BY Zenon, <1>0, <2>1, <2>2
<1>1. CASE UNCHANGED vars
  BY Zenon, <1>0, <1>1 DEF vars
<1>2. ASSUME NEW r \in Relays, WorkerStep(r)
      PROVE  HandInv'
  <2>1. CASE \/ StartTick(r) \/ LoadPage(r) \/ FinishPage(r) \/ SkipIntent(r)
             \/ \E delay \in Delays : Unroutable(r, delay)
             \/ SkipAttempt(r) \/ SendEvent(r)
             \/ EndTick(r) \/ Awake(r) \/ Respawn(r)
    <3>1. UNCHANGED <<prepared, minted, attempt>>
      BY ZenonT(60), <2>1 DEF StartTick, LoadPage, FinishPage, SkipIntent, Unroutable,
                  TolerateLocalRetry, SkipAttempt, SendEvent,
                  EndTick, Awake, Respawn
    <3>2. \E step \in {"page", "intent", "frames", "tick", "wait"} : Go(r, step)
      BY SMTT(60), <2>1 DEF StartTick, LoadPage, FinishPage, SkipIntent, Unroutable,
                  TolerateLocalRetry, SkipAttempt, SendEvent,
                  EndTick, Awake, Respawn, NextIntent
    <3>3. \/ UNCHANGED page
          \/ \E p : page' = [page EXCEPT ![r] = p]
      BY SMTT(60), <2>1 DEF StartTick, LoadPage, FinishPage, SkipIntent, Unroutable,
                  TolerateLocalRetry, SkipAttempt, SendEvent,
                  EndTick, Awake, Respawn, NextIntent
    <3>4. UNCHANGED draft \/ draft' = [draft EXCEPT ![r] = None]
      BY <2>1 DEF StartTick, LoadPage, FinishPage, SkipIntent, Unroutable,
                  TolerateLocalRetry, SkipAttempt, SendEvent,
                  EndTick, Awake, Respawn, NextIntent
    <3>5. Idle(r) /\ \A q \in Relays \ {r} : Kept(q)
      BY <1>f, <3>1, <3>2, <3>3, <3>4 DEF Go
    <3> QED
      BY Zenon, <1>0, <3>1, <3>5
  <2>a. ASSUME NEW delay \in Delays, HandleOk(r, delay)
        PROVE  HandInv'
    <3>1. UNCHANGED <<prepared, minted, page>>
      BY Zenon, <2>a DEF HandleOk
    <3>2. /\ \E step \in {"frames", "tick", "failed"} : Go(r, step)
          /\ \A q \in Relays \ {r} : draft'[q] = draft[q]
      <4>1. UNCHANGED draft \/ draft' = [draft EXCEPT ![r] = None]
        BY Zenon, <2>a DEF HandleOk, Fail, Disconnected
      <4>2. \E step \in {"frames", "tick", "failed"} : Go(r, step)
        BY Zenon, <2>a DEF HandleOk, Fail
      <4> QED
        BY <1>f, <4>1, <4>2
    <3>3. \A q \in Relays \ {r} : attempt'[q] = attempt[q]
      <4>1. attempt' = attempt \/ \E f : attempt' = [attempt EXCEPT ![r] = f]
        BY Zenon, <2>a DEF HandleOk
      <4> QED
        BY <1>f, <4>1
    <3>4. Idle(r) /\ \A q \in Relays \ {r} : pc'[q] = pc[q]
      BY <1>f, <3>2 DEF Go
    <3> QED
      BY Zenon, <1>0, <3>1, <3>2, <3>3, <3>4
  <2>2. CASE ReusePrepared(r)
    <3> DEFINE l == page[r].cur
    <3>1. l \in Lineages /\ prepared[l] \in Wrappers
      BY Zenon, <1>t, <1>f, <2>2, IntentInPage DEF ReusePrepared, Routed
    <3>2. minted[prepared[l]] = l /\ l /= None
      BY Zenon, <1>t, <3>1, NotNone, NoneAssumption DEF RowsInv, PreparedInv
    <3>3. /\ draft' = [draft EXCEPT ![r] = prepared[l]]
          /\ pc' = [pc EXCEPT ![r] = "attempt"]
          /\ UNCHANGED <<prepared, minted, page, attempt>>
          /\ page[r].cur <= page[r].end
      BY <2>2 DEF ReusePrepared, Routed, Go
    <3>4. prepared[l] /= None
      BY SMTT(60), <3>1, NoneAssumption
    <3> QED
      BY ZenonT(60), <1>t, <1>f, <3>1, <3>2, <3>3, <3>4 DEF HandInv, Durable
  <2>3. ASSUME NEW w \in Wrappers, SealWrapper(r, w)
        PROVE  HandInv'
    <3>1. /\ draft' = [draft EXCEPT ![r] = w]
          /\ minted' = [minted EXCEPT ![w] = page[r].cur]
          /\ pc' = [pc EXCEPT ![r] = "prepare"]
          /\ UNCHANGED <<prepared, page, attempt>>
          /\ page[r].cur <= page[r].end
          /\ \A q \in Relays : draft[q] /= w
      BY Zenon, <2>3 DEF SealWrapper, Routed, Fresh, Go
    <3>2. w /= None
      BY NoneAssumption
    <3>3. \A q \in Relays \ {r} : draft[q] /= None =>
             draft'[q] = draft[q] /\ minted'[draft[q]] = minted[draft[q]]
      BY SMTT(60), <1>f, <3>1
    <3> SUFFICES ASSUME NEW q \in Relays
                 PROVE  HandInv!(q)'
      BY Zenon DEF HandInv
    <3>4. CASE q = r
      <4>1. draft'[r] = w /\ minted'[w] = page[r].cur /\ pc'[r] = "prepare"
        BY SMTT(60), <1>f, <3>1
      <4>2. page' = page /\ page[r].cur <= page[r].end
        BY <3>1
      <4>3. pc'[q] = "prepare" /\ draft'[q] /= None
            /\ minted'[draft'[q]] = page'[q].cur /\ page'[q].cur <= page'[q].end
        BY <3>2, <3>4, <4>1, <4>2
      <4> QED
        BY Zenon, <4>3
    <3>5. CASE q /= r
      <4>1. HandInv!(q)
        BY Zenon, <1>t DEF HandInv
      <4>2. /\ pc'[q] = pc[q] /\ page'[q] = page[q] /\ attempt'[q] = attempt[q]
            /\ draft'[q] = draft[q]
        BY <1>f, <3>1, <3>5
      <4>3. draft[q] /= None => minted'[draft[q]] = minted[draft[q]]
        BY SMTT(60), <3>3, <3>5
      <4>4. draft[q] /= None /\ Durable(draft[q]) => Durable(draft[q])'
        BY <3>1, <4>2, <4>3 DEF Durable
      <4> QED
        BY Zenon, <4>1, <4>2, <4>3, <4>4
    <3> QED
      BY <3>4, <3>5
  <2>4. CASE ApplyPrepare(r)
    <3> DEFINE l == page[r].cur
    <3>1. /\ l \in Lineages /\ draft[r] \in Wrappers /\ minted[draft[r]] = l
          /\ page[r].cur <= page[r].end /\ l /= None
          /\ pc' = [pc EXCEPT ![r] = "attempt"]
          /\ UNCHANGED <<minted, attempt, page>>
      BY Zenon, <1>t, <2>4, InHand, NotNone DEF HandInv, ApplyPrepare, Go
    <3>2. CASE prepared[l] = None
      <4>1. prepared' = [prepared EXCEPT ![l] = draft[r]] /\ UNCHANGED draft
        BY Zenon, <2>4, <3>2 DEF ApplyPrepare
      <4>2. \A q \in Relays : draft[q] /= None /\ Durable(draft[q]) =>
               prepared'[minted[draft[q]]] = draft[q]
        BY <1>f, <3>1, <3>2, <4>1 DEF Durable
      <4>3. prepared'[minted[draft[r]]] = draft[r]
        BY <1>f, <3>1, <4>1
      <4> QED
        <5> SUFFICES ASSUME NEW q \in Relays
                     PROVE  HandInv!(q)'
          BY ZenonT(60) DEF HandInv
        <5>1. CASE q = r
          BY <1>f, <3>1, <4>1, <4>3, <5>1, NoneAssumption DEF Durable
        <5>2. CASE q /= r
          BY Zenon, <1>t, <1>f, <3>1, <4>1, <4>2, <5>2 DEF HandInv, Durable
        <5> QED
          BY Zenon, <5>1, <5>2
    <3>3. CASE prepared[l] /= None
      <4>1. /\ draft' = [draft EXCEPT ![r] = prepared[l]] /\ UNCHANGED prepared
        BY Zenon, <2>4, <3>3 DEF ApplyPrepare
      <4>2. prepared[l] \in Wrappers /\ minted[prepared[l]] = l
        BY SMTT(60), <1>t, <1>f, <3>1, <3>3 DEF RowsInv, PreparedInv
      <4> QED
        BY Zenon, <1>t, <1>f, <3>1, <3>3, <4>1, <4>2 DEF HandInv, Durable
    <3> QED
      BY <3>2, <3>3
  <2>5. ASSUME NEW delay \in Delays, RecordAttempt(r, delay)
        PROVE  HandInv'
    <3> DEFINE w == draft[r]
               row == UncertainRow(attempt[r][w], delay)
    <3>1. w \in Wrappers /\ UNCHANGED <<prepared, minted, page>>
      BY SMTT(60), <1>t, <2>5, InHand DEF RecordAttempt
    <3>2. CASE PutAttemptOk(attempt[r][w], row)
      <4>1. /\ attempt' = [attempt EXCEPT ![r][w] = row]
            /\ pc' = [pc EXCEPT ![r] = "send"] /\ pc[r] = "attempt"
            /\ UNCHANGED draft
        BY <2>5, <3>2 DEF RecordAttempt, Go
      <4>2. row \in Row
        <5>1. attempt[r][w] \in Row \cup {None}
          BY SMTT(60), <1>f, <3>1
        <5>2. attempt[r][w] /= None => attempt[r][w].attempts < MaxAttempts
          BY <2>5 DEF RecordAttempt
        <5> QED
          BY <1>t, <5>1, <5>2, RowTypes, RowFunctionTypes
      <4>3. row /= None
        BY <4>2, NotNone
      <4>4. row.disposition = "uncertain"
        BY SMTT(60) DEF UncertainRow
      <4>5. attempt'[r][w] = row /\ \A q \in Relays \ {r} : attempt'[q] = attempt[q]
        BY SMTT(60), <1>f, <3>1, <4>1
      <4> HIDE DEF row
      <4> SUFFICES ASSUME NEW q \in Relays
                   PROVE  HandInv!(q)'
        BY Zenon DEF HandInv
      <4>6. CASE q = r
        BY Zenon, <1>t, <1>f, <3>1, <4>1, <4>3, <4>4, <4>5, <4>6 DEF HandInv, Durable
      <4>7. CASE q /= r
        BY Zenon, <1>t, <1>f, <3>1, <4>1, <4>5, <4>7 DEF HandInv, Durable
      <4> QED
        BY <4>6, <4>7
    <3>3. CASE ~PutAttemptOk(attempt[r][w], row)
      <4>1. Fail(r) /\ UNCHANGED attempt
        BY <2>5, <3>3 DEF RecordAttempt
      <4>2. pc'[r] = "failed"
        BY <1>f, <4>1 DEF Fail, Go
      <4>3. \A q \in Relays \ {r} : pc'[q] = pc[q] /\ draft'[q] = draft[q]
        BY <1>f, <4>1 DEF Fail, Go, Disconnected
      <4> QED
        BY Zenon, <1>0, <3>1, <4>1, <4>2, <4>3
    <3> QED
      BY <3>2, <3>3
  <2> QED
    BY <1>2, <2>1, <2>a, <2>2, <2>3, <2>4, <2>5 DEF WorkerStep
<1>3. ASSUME NEW r \in Relays, RelayAccepts(r) \/ Failure(r)
      PROVE  HandInv'
  <2>1. CASE \/ RelayAccepts(r)
             \/ \E failure \in Failures : RelayRefuses(r, failure)
    <3>1. UNCHANGED <<prepared, minted, attempt, pc, page, draft>>
      BY Zenon, <2>1 DEF RelayAccepts, RelayRefuses, Reply
    <3> QED
      BY <1>0, <3>1
  <2>2. CASE \/ ConnectFails(r) \/ LoseConnection(r)
             \/ \E delay \in Delays : StoreUnavailable(r, delay)
    <3>1. UNCHANGED <<prepared, minted, attempt, page>>
      BY ZenonT(60), <2>2 DEF ConnectFails, LoseConnection, StoreUnavailable,
                  TolerateLocalRetry
    <3>2. /\ Idle(r)
          /\ \A q \in Relays \ {r} : pc'[q] = pc[q] /\ draft'[q] = draft[q]
      BY <1>f, <2>2 DEF ConnectFails, LoseConnection, StoreUnavailable,
                  TolerateLocalRetry, Disconnected, Go
    <3> QED
      BY <1>0, <3>1, <3>2
  <2> QED
    BY SMTT(60), <1>3, <2>1, <2>2 DEF Failure
<1>4. CASE Environment
  <2>1. UNCHANGED <<prepared, minted, attempt>>
    BY SMTT(60), <1>4 DEF Environment, Enqueue, AdvanceClock, StepClockBack, Crash,
                VerifyRoute, LoseRoute
  <2>2. \/ UNCHANGED <<pc, page, draft>>
        \/ \A r \in Relays : pc'[r] = "tick"
    BY <1>4 DEF Environment, Enqueue, AdvanceClock, StepClockBack, Crash,
                VerifyRoute, LoseRoute
  <2>3. CASE UNCHANGED <<pc, page, draft>>
    BY <1>0, <2>1, <2>3
  <2>4. CASE \A r \in Relays : pc'[r] = "tick"
    BY <1>0, <2>1, <2>4
  <2> QED
    BY SMTT(60), <2>2, <2>3, <2>4
<1> QED
  BY <1>1, <1>2, <1>3, <1>4 DEF Next

-----------------------------------------------------------------------------
LEMMA InitIInv == Init => IInv
<1> SUFFICES ASSUME Init
             PROVE  IInv
  OBVIOUS
<1>1. TypeOK
  <2>1. NoPage \in Pages
    BY SizesAssumption DEF NoPage, Pages
  <2>2. /\ queued \in 0..NumLineages /\ now \in Clock /\ faults \in 0..MaxFaults
    BY SizesAssumption DEF Init, Clock
  <2>3. /\ wire \in [Relays -> Seq(Wrappers)]
        /\ replies \in [Relays -> Seq(Replies)]
    BY DEF Init
  <2>4. /\ attempt \in [Relays -> [Wrappers -> Row \cup {None}]]
        /\ inflight \in [Relays -> [Wrappers -> Row \cup {None}]]
    BY DEF Init, NoneInflight
  <2>5. /\ route \in [Lineages -> (SUBSET Relays) \cup {None}]
        /\ page \in [Relays -> Pages] /\ pc \in [Relays -> Steps]
    BY <2>1 DEF Init, Steps
  <2> QED
    BY Zenon, <2>2, <2>3, <2>4, <2>5 DEF Init, TypeOK
<1>2. \A r \in Relays : pc[r] = "tick" /\ wire[r] = <<>> /\ replies[r] = <<>>
                        /\ retained[r] = {}
  BY DEF Init
<1>3. \A r \in Relays, w \in Wrappers : ~OnWire(r, w) /\ ~Answered(r, w)
  BY SMTT(60), <1>2 DEF OnWire, Answered
<1>4. HandInv
  BY <1>2 DEF HandInv
<1>5. PreparedInv /\ AnswersInv /\ AcceptedIsRetained
  <2>1. PreparedInv
    BY DEF Init, PreparedInv
  <2>2. AnswersInv
    BY <1>2 DEF AnswersInv
  <2>3. \A r \in Relays, w \in Wrappers : attempt[r][w] = None
    BY DEF Init
  <2>4. AcceptedIsRetained
    BY <2>3 DEF AcceptedIsRetained, Accepted
  <2> QED
    BY <2>1, <2>2, <2>4
<1>6. OneWrapperPerLineage /\ EverySendIsRecorded
  BY Zenon, <1>2, <1>3 DEF OneWrapperPerLineage, EverySendIsRecorded
<1> QED
  BY <1>1, <1>4, <1>5, <1>6 DEF IInv, RowsInv

(***************************************************************************)
(* The inductive invariant of the publishing workers: types, what a worker *)
(* has in hand, and what rows, frames and relays say of each other.        *)
(***************************************************************************)
THEOREM PublishingInvariant == Spec => []IInv
<1>1. IInv /\ [Next]_vars => IInv'
  BY TypeStep, HandStep, RowsStep DEF IInv
<1> QED
  BY <1>1, InitIInv, PTL DEF Spec

(* Every variable of the publishing workers keeps its type. *)
THEOREM TypeCorrect == Spec => []TypeOK
BY PublishingInvariant, PTL DEF IInv

(***************************************************************************)
(* However many relays race in ensure_prepared and wherever the node       *)
(* crashes, only a lineage's one durable wrapper is ever published.        *)
(***************************************************************************)
THEOREM OneWrapper == Spec => []OneWrapperPerLineage
<1>1. IInv => OneWrapperPerLineage
  BY DEF IInv, RowsInv
<1> QED
  BY <1>1, PublishingInvariant, PTL

(***************************************************************************)
(* The uncertainty is durable first: whatever is on a wire, answered or    *)
(* stored by a relay has its attempt row.                                  *)
(***************************************************************************)
THEOREM SendsAreRecorded == Spec => []EverySendIsRecorded
<1>1. IInv => EverySendIsRecorded
  BY DEF IInv, RowsInv
<1> QED
  BY <1>1, PublishingInvariant, PTL

(* An attempt row says accepted only when the relay has stored the wrapper. *)
THEOREM AcceptanceIsTrue == Spec => []AcceptedIsRetained
<1>1. IInv => AcceptedIsRetained
  BY DEF IInv, RowsInv
<1> QED
  BY <1>1, PublishingInvariant, PTL

(* What put_attempt stores over a row never goes back and never follows an *)
(* acceptance.                                                             *)
LEMMA PutAttemptAdvances ==
    ASSUME NEW stored \in Row, NEW row \in Row, PutAttemptOk(stored, row),
           stored /= None
    PROVE  /\ row.attempts >= stored.attempts
           /\ row.last >= stored.last
           /\ stored.disposition = "accepted" => row = stored
<1>1. stored.attempts \in Nat /\ stored.last \in Nat
  BY SizesAssumption DEF Row, AttemptRow, Clock
<1> QED
  BY SMTT(60), <1>1 DEF PutAttemptOk

(* Only the two Attempt transactions write attempt rows. *)
LEMMA AttemptWriters ==
    ASSUME [Next]_vars
    PROVE  \/ UNCHANGED attempt
           \/ \E r \in Relays, delay \in Delays : RecordAttempt(r, delay)
           \/ \E r \in Relays, delay \in Delays : HandleOk(r, delay)
<1> USE DEF durable
<1>1. CASE UNCHANGED vars
  BY <1>1 DEF vars
<1>2. ASSUME NEW r \in Relays, WorkerStep(r),
             \A delay \in Delays : ~RecordAttempt(r, delay) /\ ~HandleOk(r, delay)
      PROVE  UNCHANGED attempt
  BY Zenon, <1>2 DEF WorkerStep, StartTick, LoadPage, FinishPage, SkipIntent,
              Unroutable, TolerateLocalRetry, ReusePrepared, SealWrapper,
              ApplyPrepare, SkipAttempt, SendEvent, EndTick, Awake, Respawn
<1>3. ASSUME NEW r \in Relays, RelayAccepts(r) \/ Failure(r)
      PROVE  UNCHANGED attempt
  BY Zenon, <1>3 DEF Failure, RelayAccepts, RelayRefuses, Reply, ConnectFails,
              LoseConnection, StoreUnavailable, TolerateLocalRetry
<1>4. CASE Environment
  BY <1>4 DEF Environment, Enqueue, AdvanceClock, StepClockBack, Crash,
              VerifyRoute, LoseRoute
<1> QED
  BY <1>1, <1>2, <1>3, <1>4 DEF Next

LEMMA AdvanceStep == IInv /\ [Next]_vars => RowsAdvance
<1> SUFFICES ASSUME IInv, [Next]_vars
             PROVE  RowsAdvance
  OBVIOUS
<1>t. attempt \in [Relays -> [Wrappers -> Row \cup {None}]]
  BY DEF IInv, TypeOK
<1>0. \A row \in Row : /\ row /= None
                       /\ row.attempts >= row.attempts /\ row.last >= row.last
  <2>1. \A row \in Row : row.attempts \in Nat /\ row.last \in Nat
    BY SizesAssumption DEF Row, AttemptRow, Clock
  <2> QED
    BY <2>1, NotNone
<1>1. ASSUME NEW r \in Relays, NEW w \in Wrappers, NEW row \in Row,
             PutAttemptOk(attempt[r][w], row),
             attempt' = [attempt EXCEPT ![r][w] = row]
      PROVE  RowsAdvance
  <2> SUFFICES ASSUME NEW q \in Relays, NEW v \in Wrappers,
                      attempt[q][v] /= None
               PROVE  /\ attempt'[q][v] /= None
                      /\ attempt'[q][v].attempts >= attempt[q][v].attempts
                      /\ attempt'[q][v].last >= attempt[q][v].last
                      /\ Accepted(attempt[q][v]) => attempt'[q][v] = attempt[q][v]
    BY Zenon DEF RowsAdvance
  <2>1. attempt[q][v] \in Row
    BY SMTT(60), <1>t
  <2>2. CASE q = r /\ v = w
    <3>1. attempt'[q][v] = row
      BY SMTT(60), <1>t, <1>1, <2>2
    <3> QED
      BY <1>0, <1>1, <2>1, <2>2, <3>1, PutAttemptAdvances DEF Accepted
  <2>3. CASE ~(q = r /\ v = w)
    <3>1. attempt'[q][v] = attempt[q][v]
      BY SMTT(60), <1>t, <1>1, <2>3
    <3> QED
      BY <1>0, <2>1, <3>1
  <2> QED
    BY Zenon, <2>2, <2>3
<1>2. CASE UNCHANGED attempt
  <2>1. \A q \in Relays, v \in Wrappers : attempt[q][v] \in Row \cup {None}
    BY <1>t
  <2> QED
    BY <1>0, <1>2, <2>1 DEF RowsAdvance
<1>3. ASSUME NEW r \in Relays, NEW delay \in Delays, RecordAttempt(r, delay)
      PROVE  RowsAdvance
  <2> DEFINE w == draft[r]
             row == UncertainRow(attempt[r][w], delay)
  <2>1. w \in Wrappers
    BY <1>3, InHand DEF IInv, RecordAttempt
  <2>2. row \in Row
    <3>1. attempt[r][w] \in Row \cup {None} /\ now \in Clock
      BY SMTT(60), <1>t, <2>1, RowFunctionTypes DEF IInv
    <3>2. attempt[r][w] /= None => attempt[r][w].attempts < MaxAttempts
      BY SMTT(60), <1>3 DEF RecordAttempt
    <3> QED
      BY Zenon, <3>1, <3>2, RowTypes
  <2>3. \/ UNCHANGED attempt
        \/ /\ PutAttemptOk(attempt[r][w], row)
           /\ attempt' = [attempt EXCEPT ![r][w] = row]
    BY <1>3 DEF RecordAttempt
  <2> HIDE DEF w, row
  <2> QED
    BY SMTT(60), <1>1, <1>2, <2>1, <2>2, <2>3
<1>4. ASSUME NEW r \in Relays, NEW delay \in Delays, HandleOk(r, delay)
      PROVE  RowsAdvance
  <2> DEFINE ok == Head(replies[r])
             w == ok.wrapper
             prior == IF inflight[r][w] /= None THEN inflight[r][w]
                      ELSE attempt[r][w]
             row == AnsweredRow(prior, ok.verdict, delay)
  <2>1. ok \in Replies
    BY Zenon, <1>4, QueueTypes, QueueFunctionTypes DEF IInv, HandleOk
  <2>2. w \in Wrappers /\ ok.verdict \in Verdicts
    BY <2>1 DEF Replies
  <2>3. prior \in Row \cup {None}
    BY Zenon, <2>2, RowFunctionTypes DEF IInv
  <2>4. prior /= None => row \in Row
    BY Zenon, <2>2, <2>3, RowTypes, RowFunctionTypes DEF IInv
  <2>5. \/ UNCHANGED attempt
        \/ /\ prior /= None /\ PutAttemptOk(attempt[r][w], row)
           /\ attempt' = [attempt EXCEPT ![r][w] = row]
    BY Zenon, <1>4 DEF HandleOk
  <2> HIDE DEF ok, w, prior, row
  <2> QED
    BY <1>1, <1>2, <2>2, <2>4, <2>5
<1> QED
  BY <1>2, <1>3, <1>4, AttemptWriters

(***************************************************************************)
(* No transaction moves an attempt row back, and acceptance is final, for  *)
(* every interleaving of sends, answers, failures and clock adjustments.   *)
(***************************************************************************)
THEOREM RowsNeverGoBack == Spec => AttemptsOnlyAdvance
<1>1. IInv /\ [Next]_vars => [RowsAdvance]_vars
  BY SMTT(60), AdvanceStep
<1> QED
  BY <1>1, PublishingInvariant, PTL DEF Spec, AttemptsOnlyAdvance

(* Only SendEvent lengthens a wire, and its worker has just recorded an    *)
(* uncertain attempt.                                                      *)
LEMMA SendStep == IInv /\ [Next]_vars => SendsUnaccepted
<1> SUFFICES ASSUME IInv, [Next]_vars, NEW r \in Relays, NEW w \in Wrappers,
                    wire'[r] = Append(wire[r], w)
             PROVE  ~Accepted(attempt[r][w])
  BY DEF SendsUnaccepted
<1>t. wire \in [Relays -> Seq(Wrappers)]
  BY Zenon DEF IInv, TypeOK
<1>1. /\ wire'[r] /= wire[r]
      /\ wire'[r] /= <<>>
      /\ wire[r] /= <<>> => wire'[r] /= Tail(wire[r])
  BY SMTT(60), <1>t
<1>2. \E q \in Relays : SendEvent(q)
  <2> USE DEF network
  <2>1. ASSUME NEW q \in Relays, WorkerStep(q)
        PROVE  SendEvent(q) \/ UNCHANGED wire \/ Disconnected(q)
    <3>1. ASSUME NEW delay \in Delays, HandleOk(q, delay) \/ RecordAttempt(q, delay)
          PROVE  UNCHANGED wire \/ Disconnected(q)
      BY Zenon, <3>1 DEF HandleOk, RecordAttempt, Fail
    <3> QED
      BY Zenon, <2>1, <3>1
      DEF WorkerStep, StartTick, LoadPage, FinishPage, SkipIntent, Unroutable,
          TolerateLocalRetry, ReusePrepared, SealWrapper, ApplyPrepare,
          SkipAttempt, EndTick, Awake, Respawn
  <2>2. ASSUME NEW q \in Relays, RelayAccepts(q) \/ Failure(q)
        PROVE  \/ UNCHANGED wire
               \/ Disconnected(q)
               \/ wire[q] /= <<>> /\ wire' = [wire EXCEPT ![q] = Tail(@)]
    BY ZenonT(60), <2>2 DEF Failure, RelayAccepts, RelayRefuses, Reply, ConnectFails,
                LoseConnection, StoreUnavailable, TolerateLocalRetry
  <2>3. ASSUME Environment
        PROVE  UNCHANGED wire \/ wire' = [p \in Relays |-> <<>>]
    BY <2>3 DEF Environment, Enqueue, AdvanceClock, StepClockBack, Crash,
                VerifyRoute, LoseRoute
  <2>4. \A q \in Relays : ~Disconnected(q)
    BY Zenon, <1>t, <1>1 DEF Disconnected
  <2>5. \A q \in Relays :
           ~(wire[q] /= <<>> /\ wire' = [wire EXCEPT ![q] = Tail(@)])
    BY Zenon, <1>t, <1>1
  <2>6. ~UNCHANGED wire /\ wire' /= [p \in Relays |-> <<>>]
    BY <1>1
  <2> QED
    BY <2>1, <2>2, <2>3, <2>4, <2>5, <2>6 DEF Next, vars
<1>3. PICK q \in Relays : SendEvent(q)
  BY SMTT(60), <1>2
<1>4. q = r
  BY SMTT(60), <1>t, <1>1, <1>3 DEF SendEvent
<1>5. wire'[r] = Append(wire[r], draft[r]) /\ draft[r] \in Wrappers
  BY SMTT(60), <1>t, <1>3, <1>4, InHand DEF SendEvent, IInv
<1>6. w = draft[r]
  <2>1. \A s \in Seq(Wrappers), v \in Wrappers : Append(s, v)[Len(s) + 1] = v
    OBVIOUS
  <2> QED
    <3>1. wire[r] \in Seq(Wrappers)
      BY <1>t
    <3>2. Append(wire[r], w) = Append(wire[r], draft[r])
      BY <1>5
    <3> QED
      BY ZenonT(60), <1>5, <2>1, <3>1, <3>2
<1> QED
  BY SMTT(60), <1>3, <1>4, <1>6 DEF SendEvent, IInv, HandInv, Accepted

(* A wrapper that a relay has accepted is never sent to that relay again. *)
THEOREM NoSendAfterAcceptance == Spec => AcceptedNeverResent
<1>1. IInv /\ [Next]_vars => [SendsUnaccepted]_vars
  BY SendStep
<1> QED
  BY <1>1, PublishingInvariant, PTL DEF Spec, AcceptedNeverResent
=============================================================================
