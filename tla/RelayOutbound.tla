---------------------------- MODULE RelayOutbound ----------------------------
(***************************************************************************)
(* Publishing: the outbound half of hq-relay's RelaySession, one session   *)
(* worker for each enabled relay, over the durable outbox shared by all.   *)
(*                                                                         *)
(* A worker repeats session.tick(): connect, publish one page of queued    *)
(* intents, handle the received frames, and then go on at once or wait for *)
(* a wake, a frame or a deadline.  Publishing one intent resolves its      *)
(* route, reuses or prepares its one wrapper, records the attempt, and     *)
(* only then sends the EVENT frame.  The steps of one worker interleave    *)
(* with the other workers, with the relays, with lost connections, failed  *)
(* store requests, a wall clock that may be stepped back, and with crashes *)
(* of the node, which keep only the durable rows.                          *)
(*                                                                         *)
(* The policies are write-only without authentication: catch-up and the    *)
(* authentication handshake have modules of their own.                     *)
(***************************************************************************)
EXTENDS RelayStore, Sequences

CONSTANTS
    Relays,        \* enabled relay URLs
    NumLineages,   \* queued (fact, recipient) lineages, in revision order
    Wrappers,      \* prepared wrappers that fresh randomness can produce
    PageItems,     \* config.state_page_items
    MaxAttempts,   \* u32::MAX, where attempts saturate
    MaxClock,      \* u64::MAX, where deadlines saturate
    Delays,        \* the results retry_delay can have
    MaxFaults,     \* bound on failures, refusals and clock adjustments
    ClockSteps     \* may the wall clock be stepped back

ASSUME SizesAssumption ==
    /\ NumLineages \in Nat
    /\ PageItems \in Nat \ {0}
    /\ MaxAttempts \in Nat \ {0}
    /\ MaxClock \in Nat
    /\ Delays \subseteq Nat \ {0}
    /\ MaxFaults \in Nat
    /\ ClockSteps \in BOOLEAN

ASSUME NoneAssumption ==
    /\ None \notin Wrappers
    /\ None \notin Nat
    /\ \A relays \in SUBSET Relays : relays /= None
    /\ \A row \in AttemptRow(1..MaxAttempts, 0..MaxClock) : row /= None

Lineages == 1..NumLineages
Clock == 0..MaxClock
Row == AttemptRow(1..MaxAttempts, Clock)
Verdicts == {"ok", "duplicate"} \cup Failures

VARIABLES
    queued,      \* durable: number of outbox intents
    prepared,    \* durable: lineage -> its wrapper, or None
    attempt,     \* durable: relay -> wrapper -> row, or None
    route,       \* lineage -> the verified relays of its recipient, or None
    minted,      \* wrapper -> the lineage it was sealed for, or None
    now,         \* wall clock
    faults,      \* failures so far
    pc,          \* relay -> what its worker does next
    conn,        \* relay -> is the connection open
    page,        \* relay -> outbound_query and the page being published
    draft,       \* relay -> the wrapper in hand
    inflight,    \* relay -> wrapper -> row sent on this connection, or None
    outRetry,    \* relay -> outbound_retry_at
    deadline,    \* relay -> progress.retry_at_millis
    again,       \* relay -> progress.immediate_work
    wake,        \* relay -> a byte waits on the wake socket
    wire,        \* relay -> EVENT frames under way to the relay
    replies,     \* relay -> OK frames under way to the worker
    retained     \* relay -> wrappers the relay has stored

durable == <<queued, prepared, attempt>>
world == <<route, minted, now, faults>>
worker == <<pc, conn, page, draft, inflight, outRetry, deadline, again, wake>>
network == <<wire, replies, retained>>
vars == <<durable, world, worker, network>>

Steps == {"tick", "page", "intent", "prepare", "attempt", "send", "frames",
          "wait", "backoff", "failed"}

Publishing == {"page", "intent", "prepare", "attempt"}

(***************************************************************************)
(* Small helpers.                                                          *)
(***************************************************************************)
(* Mutant: the deadline is added without saturation. *)
LaterUnsaturated(delay) == now + delay

Later(delay) == IF now + delay > MaxClock THEN MaxClock ELSE now + delay

Earliest(a, b) == IF a = None THEN b
                  ELSE IF b = None THEN a
                  ELSE IF a <= b THEN a ELSE b

NoPage == [next |-> 0, cur |-> 1, end |-> 0, more |-> FALSE]

NoneInflight == [w \in Wrappers |-> None]

Fault == faults < MaxFaults /\ faults' = faults + 1

Go(r, step) == pc' = [pc EXCEPT ![r] = step]

(* The intent in hand is done with: on to the next of the page. *)
NextIntent(r) == /\ Go(r, "intent")
                 /\ page' = [page EXCEPT ![r].cur = @ + 1]

Init ==
    /\ queued = 0
    /\ prepared = [l \in Lineages |-> None]
    /\ attempt = [r \in Relays |-> [w \in Wrappers |-> None]]
    /\ route = [l \in Lineages |-> None]
    /\ minted = [w \in Wrappers |-> None]
    /\ now = 0
    /\ faults = 0
    /\ pc = [r \in Relays |-> "tick"]
    /\ conn = [r \in Relays |-> FALSE]
    /\ page = [r \in Relays |-> NoPage]
    /\ draft = [r \in Relays |-> None]
    /\ inflight = [r \in Relays |-> NoneInflight]
    /\ outRetry = [r \in Relays |-> None]
    /\ deadline = [r \in Relays |-> None]
    /\ again = [r \in Relays |-> FALSE]
    /\ wake = [r \in Relays |-> TRUE]
    /\ wire = [r \in Relays |-> <<>>]
    /\ replies = [r \in Relays |-> <<>>]
    /\ retained = [r \in Relays |-> {}]

-----------------------------------------------------------------------------
(***************************************************************************)
(* The environment: canonical ingest queues intents, verified authority    *)
(* facts make routes known or unknown, and the wall clock moves.  A commit *)
(* wakes every worker through the relay manager.                           *)
(***************************************************************************)
WakeAll == wake' = [r \in Relays |-> TRUE]

Enqueue ==
    /\ queued < NumLineages
    /\ queued' = queued + 1
    /\ WakeAll
    /\ UNCHANGED <<prepared, attempt, world, network, pc, conn, page, draft,
                   inflight, outRetry, deadline, again>>

VerifyRoute(l, relays) ==
    /\ route[l] = None
    /\ route' = [route EXCEPT ![l] = relays]
    /\ WakeAll
    /\ UNCHANGED <<durable, minted, now, faults, network, pc, conn, page,
                   draft, inflight, outRetry, deadline, again>>

LoseRoute(l) ==
    /\ Fault
    /\ route[l] /= None
    /\ route' = [route EXCEPT ![l] = None]
    /\ WakeAll
    /\ UNCHANGED <<durable, minted, now, network, pc, conn, page, draft,
                   inflight, outRetry, deadline, again>>

AdvanceClock ==
    /\ now < MaxClock
    /\ now' = now + 1
    /\ UNCHANGED <<durable, route, minted, faults, worker, network>>

StepClockBack ==
    /\ ClockSteps /\ Fault
    /\ now' \in {t \in Clock : t < now}
    /\ UNCHANGED <<durable, route, minted, worker, network>>

-----------------------------------------------------------------------------
(***************************************************************************)
(* tick, first part: ensure_connected, with the progress of the new tick   *)
(* empty.  A new connection forgets what was in flight on the old one.     *)
(***************************************************************************)
StartTick(r) ==
    /\ pc[r] = "tick"
    /\ Go(r, "page")
    /\ conn' = [conn EXCEPT ![r] = TRUE]
    /\ inflight' = [inflight EXCEPT ![r] = IF conn[r] THEN @ ELSE NoneInflight]
    /\ deadline' = [deadline EXCEPT ![r] = None]
    /\ again' = [again EXCEPT ![r] = FALSE]
    /\ UNCHANGED <<durable, world, network, page, draft, outRetry, wake>>

ConnectFails(r) ==
    /\ Fault
    /\ pc[r] = "tick" /\ ~conn[r]
    /\ Go(r, "backoff")
    /\ UNCHANGED <<durable, route, minted, now, network, conn, page, draft,
                   inflight, outRetry, deadline, again, wake>>

(***************************************************************************)
(* publish_outbound: load the page after the last position.  A full page   *)
(* has a successor, which the query keeps for the next tick; a short one   *)
(* sends the query back to the start.                                      *)
(***************************************************************************)
LoadPage(r) ==
    LET first == page[r].next
        end == IF first + PageItems <= queued THEN first + PageItems
               ELSE queued
        more == end = first + PageItems
    IN /\ pc[r] = "page"
       /\ Go(r, "intent")
       /\ page' = [page EXCEPT ![r] =
             [next |-> IF more THEN end ELSE 0, cur |-> first + 1,
              end |-> end, more |-> more]]
       /\ outRetry' = [outRetry EXCEPT ![r] = IF first = 0 THEN None ELSE @]
       /\ again' = [again EXCEPT ![r] = more]
       /\ UNCHANGED <<durable, world, network, conn, draft, inflight,
                      deadline, wake>>

(* The last intent of the page is done: retain the deadline of a full pass. *)
FinishPage(r) ==
    /\ pc[r] = "intent" /\ page[r].cur > page[r].end
    /\ Go(r, "frames")
    /\ deadline' = [deadline EXCEPT ![r] =
          IF page[r].more THEN @ ELSE Earliest(@, outRetry[r])]
    /\ UNCHANGED <<durable, world, network, conn, page, draft, inflight,
                   outRetry, again, wake>>

(* Mutant: a tolerated failure leaves no deadline to retry at. *)
TolerateWithoutRetry(r, delay) ==
    /\ Go(r, "frames")
    /\ draft' = [draft EXCEPT ![r] = None]
    /\ UNCHANGED <<durable, route, minted, now, network, conn, page,
                   inflight, again, wake, deadline>>

(***************************************************************************)
(* An unavailable port gives up the rest of the page; the tick tolerates   *)
(* it and retains a local retry deadline.  resolve answers Unavailable     *)
(* when the recipient has no single verified route.                        *)
(***************************************************************************)
TolerateLocalRetry(r, delay) ==
    /\ Go(r, "frames")
    /\ deadline' = [deadline EXCEPT ![r] = Earliest(@, Later(delay))]
    /\ draft' = [draft EXCEPT ![r] = None]
    /\ UNCHANGED <<durable, route, minted, now, network, conn, page,
                   inflight, again, wake>>

Unroutable(r, delay) ==
    /\ pc[r] = "intent" /\ page[r].cur <= page[r].end
    /\ route[page[r].cur] = None
    /\ TolerateLocalRetry(r, delay)
    /\ UNCHANGED <<faults, outRetry>>

StoreUnavailable(r, delay) ==
    /\ Fault
    /\ pc[r] \in Publishing
    /\ pc[r] = "intent" => page[r].cur <= page[r].end
    /\ TolerateLocalRetry(r, delay)
    /\ outRetry' = [outRetry EXCEPT ![r] =
          IF pc[r] = "page" /\ page[r].next = 0 THEN None ELSE @]

(* The recipient's route does not use this relay. *)
SkipIntent(r) ==
    /\ pc[r] = "intent" /\ page[r].cur <= page[r].end
    /\ route[page[r].cur] /= None /\ r \notin route[page[r].cur]
    /\ NextIntent(r)
    /\ UNCHANGED <<durable, world, network, conn, draft, inflight, outRetry,
                   deadline, again, wake>>

-----------------------------------------------------------------------------
(***************************************************************************)
(* ensure_prepared, first part: reuse the lineage's wrapper, or seal a new *)
(* one under fresh randomness.                                             *)
(***************************************************************************)
Routed(r) == /\ pc[r] = "intent" /\ page[r].cur <= page[r].end
             /\ route[page[r].cur] /= None /\ r \in route[page[r].cur]

Fresh(w) == /\ \A l \in Lineages : prepared[l] /= w
            /\ \A r \in Relays : draft[r] /= w /\ w \notin retained[r]

ReusePrepared(r) ==
    /\ Routed(r)
    /\ prepared[page[r].cur] /= None
    /\ draft' = [draft EXCEPT ![r] = prepared[page[r].cur]]
    /\ Go(r, "attempt")
    /\ UNCHANGED <<durable, world, network, conn, page, inflight, outRetry,
                   deadline, again, wake>>

SealWrapper(r, w) ==
    /\ Routed(r)
    /\ prepared[page[r].cur] = None
    /\ Fresh(w)
    /\ draft' = [draft EXCEPT ![r] = w]
    /\ minted' = [minted EXCEPT ![w] = page[r].cur]
    /\ Go(r, "prepare")
    /\ UNCHANGED <<durable, route, now, faults, network, conn, page,
                   inflight, outRetry, deadline, again, wake>>

(* Mutant: after a conflict the worker publishes the wrapper it sealed. *)
ApplyPrepareKeepsDraft(r) ==
    LET l == page[r].cur IN
    /\ pc[r] = "prepare"
    /\ prepared' = [prepared EXCEPT ![l] = IF @ = None THEN draft[r] ELSE @]
    /\ Go(r, "attempt")
    /\ UNCHANGED <<queued, attempt, world, network, conn, page, draft,
                   inflight, outRetry, deadline, again, wake>>

(***************************************************************************)
(* ensure_prepared, second part: the Prepare transaction.  When another    *)
(* worker prepared the lineage since, the transaction reports a conflict   *)
(* and the stored wrapper is used instead.                                 *)
(***************************************************************************)
ApplyPrepare(r) ==
    LET l == page[r].cur IN
    /\ pc[r] = "prepare"
    /\ IF prepared[l] = None
       THEN prepared' = [prepared EXCEPT ![l] = draft[r]] /\ UNCHANGED draft
       ELSE draft' = [draft EXCEPT ![r] = prepared[l]] /\ UNCHANGED prepared
    /\ Go(r, "attempt")
    /\ UNCHANGED <<queued, attempt, world, network, conn, page, inflight,
                   outRetry, deadline, again, wake>>

(***************************************************************************)
(* The worker ends with an error; the manager sees its completion and      *)
(* starts a new session, signalling every worker as it does after each     *)
(* round.  Closing the connection loses what it carried.                   *)
(***************************************************************************)
Disconnected(r) ==
    /\ conn' = [conn EXCEPT ![r] = FALSE]
    /\ inflight' = [inflight EXCEPT ![r] = NoneInflight]
    /\ draft' = [draft EXCEPT ![r] = None]
    /\ wire' = [wire EXCEPT ![r] = <<>>]
    /\ replies' = [replies EXCEPT ![r] = <<>>]

Fail(r) == Go(r, "failed") /\ Disconnected(r)

Respawn(r) ==
    /\ pc[r] = "failed"
    /\ Go(r, "tick")
    /\ page' = [page EXCEPT ![r] = NoPage]
    /\ outRetry' = [outRetry EXCEPT ![r] = None]
    /\ deadline' = [deadline EXCEPT ![r] = None]
    /\ again' = [again EXCEPT ![r] = FALSE]
    /\ WakeAll
    /\ UNCHANGED <<durable, world, network, conn, draft, inflight>>

(* Mutant: an accepted attempt is sent all the same. *)
SkipAttemptSends(r) ==
    LET prior == attempt[r][draft[r]] IN
    /\ pc[r] = "attempt"
    /\ prior /= None /\ prior.disposition = "accepted"
    /\ Go(r, "send")
    /\ UNCHANGED <<durable, world, network, conn, page, draft, inflight,
                   outRetry, deadline, again, wake>>

(***************************************************************************)
(* The attempt is not due yet, is settled, or has used up its counter.     *)
(***************************************************************************)
SkipAttempt(r) ==
    LET prior == attempt[r][draft[r]]
        due == AttemptDue(prior, now)
    IN /\ pc[r] = "attempt"
       /\ due => prior /= None /\ prior.attempts = MaxAttempts
       /\ outRetry' = [outRetry EXCEPT ![r] =
             IF due THEN @ ELSE Earliest(@, prior.retry)]
       /\ draft' = [draft EXCEPT ![r] = None]
       /\ NextIntent(r)
       /\ UNCHANGED <<durable, world, network, conn, inflight, deadline,
                      again, wake>>

(***************************************************************************)
(* The Attempt transaction makes the uncertainty durable before the frame  *)
(* is sent.                                                                *)
(***************************************************************************)
UncertainRow(prior, delay) ==
    [attempts |-> IF prior = None THEN 1 ELSE prior.attempts + 1,
     disposition |-> "uncertain", failure |-> None, last |-> now,
     retry |-> Later(delay)]

(* Mutant: the frame is sent before the attempt is recorded. *)
RecordAttemptSendsFirst(r, delay) ==
    /\ pc[r] = "attempt"
    /\ AttemptDue(attempt[r][draft[r]], now)
    /\ wire' = [wire EXCEPT ![r] = Append(@, draft[r])]
    /\ Go(r, "send")
    /\ UNCHANGED <<durable, world, conn, page, draft, inflight, outRetry,
                   deadline, again, wake, replies, retained>>

RecordAttempt(r, delay) ==
    LET w == draft[r]
        prior == attempt[r][w]
        row == UncertainRow(prior, delay)
    IN /\ pc[r] = "attempt"
       /\ AttemptDue(prior, now)
       /\ prior /= None => prior.attempts < MaxAttempts
       /\ IF PutAttemptOk(prior, row)
          THEN /\ attempt' = [attempt EXCEPT ![r][w] = row]
               /\ Go(r, "send")
               /\ UNCHANGED <<conn, inflight, draft, wire, replies>>
          ELSE Fail(r) /\ UNCHANGED attempt
       /\ UNCHANGED <<queued, prepared, world, page, outRetry, deadline,
                      again, wake, retained>>

SendEvent(r) ==
    LET w == draft[r] IN
    /\ pc[r] = "send"
    /\ wire' = [wire EXCEPT ![r] = Append(@, w)]
    /\ inflight' = [inflight EXCEPT ![r][w] = attempt[r][w]]
    /\ outRetry' = [outRetry EXCEPT ![r] = Earliest(@, attempt[r][w].retry)]
    /\ draft' = [draft EXCEPT ![r] = None]
    /\ NextIntent(r)
    /\ UNCHANGED <<durable, world, conn, deadline, again, wake, replies,
                   retained>>

-----------------------------------------------------------------------------
(***************************************************************************)
(* A relay stores the wrapper and acknowledges it, once as new and then as *)
(* a duplicate, or refuses it.                                             *)
(***************************************************************************)
Reply(r, verdict) ==
    /\ wire[r] /= <<>>
    /\ wire' = [wire EXCEPT ![r] = Tail(@)]
    /\ replies' = [replies EXCEPT ![r] =
          Append(@, [wrapper |-> Head(wire[r]), verdict |-> verdict])]
    /\ UNCHANGED <<durable, route, minted, now, worker>>

RelayAccepts(r) ==
    /\ Reply(r, IF Head(wire[r]) \in retained[r] THEN "duplicate" ELSE "ok")
    /\ retained' = [retained EXCEPT ![r] = @ \cup {Head(wire[r])}]
    /\ UNCHANGED faults

RelayRefuses(r, failure) ==
    /\ Fault
    /\ Reply(r, failure)
    /\ UNCHANGED retained

-----------------------------------------------------------------------------
(***************************************************************************)
(* handle_ok for a published event: the row sent on this connection, or    *)
(* else the stored one, takes the answer.  A duplicate counts as accepted; *)
(* an answer to an unknown event is ignored; an answer that the Attempt    *)
(* transaction refuses ends the worker.                                    *)
(***************************************************************************)
Positive(verdict) == verdict \in {"ok", "duplicate"}

(* Mutant: a rate limit counts as acceptance. *)
AnsweredRowLenient(prior, verdict, delay) ==
    IF verdict /= "permanent"
    THEN [prior EXCEPT !.disposition = "accepted", !.failure = None,
                       !.retry = None]
    ELSE [prior EXCEPT !.disposition = "rejected", !.failure = verdict,
                       !.retry = None]

AnsweredRow(prior, verdict, delay) ==
    IF Positive(verdict)
    THEN [prior EXCEPT !.disposition = "accepted", !.failure = None,
                       !.retry = None]
    ELSE [prior EXCEPT !.disposition = "rejected", !.failure = verdict,
                       !.retry = IF verdict = "permanent" THEN None
                                 ELSE Later(delay)]

HandleOk(r, delay) ==
    LET ok == Head(replies[r])
        w == ok.wrapper
        prior == IF inflight[r][w] /= None THEN inflight[r][w]
                 ELSE attempt[r][w]
        row == AnsweredRow(prior, ok.verdict, delay)
    IN /\ pc[r] = "frames" /\ replies[r] /= <<>>
       /\ IF prior = None \/ PutAttemptOk(attempt[r][w], row)
          THEN /\ attempt' = IF prior = None THEN attempt
                             ELSE [attempt EXCEPT ![r][w] = row]
               /\ inflight' = [inflight EXCEPT ![r][w] = None]
               /\ replies' = [replies EXCEPT ![r] = Tail(@)]
               /\ \E step \in {"frames", "tick"} : Go(r, step)
               /\ UNCHANGED <<conn, draft, wire>>
          ELSE Fail(r) /\ UNCHANGED attempt
       /\ again' = [again EXCEPT ![r] = TRUE]
       /\ UNCHANGED <<queued, prepared, world, page, outRetry, deadline,
                      wake, retained>>

(***************************************************************************)
(* No frame is pending: go on at once when there is more work, else wait   *)
(* for a wake, a frame, or the retained deadline.  The deadline is waited  *)
(* for as a monotonic duration, so it may end at any value of the clock.   *)
(***************************************************************************)
EndTick(r) ==
    /\ pc[r] = "frames" /\ replies[r] = <<>>
    /\ Go(r, IF again[r] THEN "tick" ELSE "wait")
    /\ UNCHANGED <<durable, world, network, conn, page, draft, inflight,
                   outRetry, deadline, again, wake>>

Awake(r) ==
    /\ \/ pc[r] = "backoff"
       \/ pc[r] = "wait" /\ (wake[r] \/ replies[r] /= <<>> \/ deadline[r] /= None)
    /\ Go(r, "tick")
    /\ wake' = [wake EXCEPT ![r] = FALSE]
    /\ UNCHANGED <<durable, world, network, conn, page, draft, inflight,
                   outRetry, deadline, again>>

(* The connection breaks; the worker closes it and backs off. *)
LoseConnection(r) ==
    /\ Fault
    /\ pc[r] \in {"send", "frames", "wait"}
    /\ Disconnected(r)
    /\ Go(r, "backoff")
    /\ UNCHANGED <<durable, route, minted, now, page, outRetry, deadline,
                   again, wake, retained>>

(* The node stops at any point and starts again from its durable rows. *)
Crash ==
    /\ Fault
    /\ pc' = [r \in Relays |-> "tick"]
    /\ conn' = [r \in Relays |-> FALSE]
    /\ page' = [r \in Relays |-> NoPage]
    /\ draft' = [r \in Relays |-> None]
    /\ inflight' = [r \in Relays |-> NoneInflight]
    /\ outRetry' = [r \in Relays |-> None]
    /\ deadline' = [r \in Relays |-> None]
    /\ again' = [r \in Relays |-> FALSE]
    /\ wake' = [r \in Relays |-> TRUE]
    /\ wire' = [r \in Relays |-> <<>>]
    /\ replies' = [r \in Relays |-> <<>>]
    /\ UNCHANGED <<durable, route, minted, now, retained>>

-----------------------------------------------------------------------------
WorkerStep(r) ==
    \/ StartTick(r) \/ LoadPage(r) \/ FinishPage(r) \/ SkipIntent(r)
    \/ \E delay \in Delays : Unroutable(r, delay)
    \/ ReusePrepared(r)
    \/ \E w \in Wrappers : SealWrapper(r, w)
    \/ ApplyPrepare(r) \/ SkipAttempt(r)
    \/ \E delay \in Delays : RecordAttempt(r, delay)
    \/ SendEvent(r)
    \/ \E delay \in Delays : HandleOk(r, delay)
    \/ EndTick(r) \/ Awake(r) \/ Respawn(r)

Failure(r) ==
    \/ ConnectFails(r) \/ LoseConnection(r)
    \/ \E delay \in Delays : StoreUnavailable(r, delay)
    \/ \E failure \in Failures : RelayRefuses(r, failure)

Environment ==
    \/ Enqueue \/ AdvanceClock \/ StepClockBack \/ Crash
    \/ \E l \in Lineages : \/ \E relays \in SUBSET Relays : VerifyRoute(l, relays)
                           \/ LoseRoute(l)

Next == \/ \E r \in Relays : WorkerStep(r) \/ RelayAccepts(r) \/ Failure(r)
        \/ Environment

Spec == Init /\ [][Next]_vars

(***************************************************************************)
(* A worker thread runs, a connected relay answers, and time passes.       *)
(* Nothing is assumed of failures, which MaxFaults bounds.                 *)
(***************************************************************************)
Fairness == /\ \A r \in Relays : WF_vars(WorkerStep(r)) /\ WF_vars(RelayAccepts(r))
            /\ WF_vars(AdvanceClock)

FairSpec == Spec /\ Fairness

-----------------------------------------------------------------------------
Pages == [next : 0..NumLineages, cur : 1..(NumLineages + 1),
          end : 0..NumLineages, more : BOOLEAN]

Replies == [wrapper : Wrappers, verdict : Verdicts]

(* Every variable of the publishing workers has its type. *)
TypeOK ==
    /\ queued \in 0..NumLineages
    /\ prepared \in [Lineages -> Wrappers \cup {None}]
    /\ attempt \in [Relays -> [Wrappers -> Row \cup {None}]]
    /\ route \in [Lineages -> (SUBSET Relays) \cup {None}]
    /\ minted \in [Wrappers -> Lineages \cup {None}]
    /\ now \in Clock
    /\ faults \in 0..MaxFaults
    /\ pc \in [Relays -> Steps]
    /\ conn \in [Relays -> BOOLEAN]
    /\ page \in [Relays -> Pages]
    /\ draft \in [Relays -> Wrappers \cup {None}]
    /\ inflight \in [Relays -> [Wrappers -> Row \cup {None}]]
    /\ outRetry \in [Relays -> Clock \cup {None}]
    /\ deadline \in [Relays -> Clock \cup {None}]
    /\ again \in [Relays -> BOOLEAN]
    /\ wake \in [Relays -> BOOLEAN]
    /\ wire \in [Relays -> Seq(Wrappers)]
    /\ replies \in [Relays -> Seq(Replies)]
    /\ retained \in [Relays -> SUBSET Wrappers]

OnWire(r, w) == \E i \in 1..Len(wire[r]) : wire[r][i] = w

Answered(r, w) == \E i \in 1..Len(replies[r]) : replies[r][i].wrapper = w

Accepted(row) == row /= None /\ row.disposition = "accepted"

(***************************************************************************)
(* Whatever races two workers run in ensure_prepared, and however often    *)
(* the node crashes, every copy of a lineage on any wire or at any relay   *)
(* is the one durable wrapper of that lineage: no retry seals it again.    *)
(***************************************************************************)
OneWrapperPerLineage ==
    \A r \in Relays, w \in Wrappers :
        OnWire(r, w) \/ w \in retained[r] =>
            minted[w] /= None /\ prepared[minted[w]] = w

(***************************************************************************)
(* publish_outbound makes the uncertainty durable before it sends: what is *)
(* on the wire, answered or stored by a relay has an attempt row, at every *)
(* point at which the node may crash.                                      *)
(***************************************************************************)
EverySendIsRecorded ==
    \A r \in Relays, w \in Wrappers :
        OnWire(r, w) \/ Answered(r, w) \/ w \in retained[r] =>
            attempt[r][w] /= None

(***************************************************************************)
(* An attempt row says accepted only when that relay has the wrapper: no   *)
(* late, reordered or repeated OK is credited to the wrong wrapper.        *)
(***************************************************************************)
AcceptedIsRetained ==
    \A r \in Relays, w \in Wrappers :
        Accepted(attempt[r][w]) => w \in retained[r]

(***************************************************************************)
(* The Attempt transaction of publish_outbound is never refused, so no     *)
(* retry ends the session: a due row is not settled, and under a monotonic *)
(* clock its last attempt is not in the future.                            *)
(***************************************************************************)
PublishNeverConflicts ==
    \A r \in Relays, delay \in Delays :
        pc[r] = "attempt" =>
            LET prior == attempt[r][draft[r]] IN
            AttemptDue(prior, now) => PutAttemptOk(prior, UncertainRow(prior, delay))

RowsAdvance ==
    \A r \in Relays, w \in Wrappers :
        LET old == attempt[r][w] new == attempt'[r][w] IN
        old /= None => /\ new /= None
                       /\ new.attempts >= old.attempts
                       /\ new.last >= old.last
                       /\ Accepted(old) => new = old

(***************************************************************************)
(* No transaction moves an attempt row back in attempts or in time, and an *)
(* accepted row is final, whatever answers come late.                      *)
(***************************************************************************)
AttemptsOnlyAdvance == [][RowsAdvance]_vars

SendsUnaccepted ==
    \A r \in Relays, w \in Wrappers :
        wire'[r] = Append(wire[r], w) => ~Accepted(attempt[r][w])

(***************************************************************************)
(* A wrapper that a relay has accepted is never sent to that relay again,  *)
(* not even by a worker that decided to send before the answer came.       *)
(***************************************************************************)
AcceptedNeverResent == [][SendsUnaccepted]_vars

Settled(l, r) ==
    /\ prepared[l] /= None
    /\ LET row == attempt[r][prepared[l]] IN
       /\ row /= None
       /\ \/ row.disposition = "accepted"
          \/ row.failure = "permanent"
          \/ row.attempts = MaxAttempts

Ready(l, r) == l <= queued /\ route[l] /= None /\ r \in route[l]

(***************************************************************************)
(* "The same session publishes ready outbox jobs" (docs/nostr.md): as long *)
(* as every queued intent has a route, a queued intent is in the end       *)
(* accepted or permanently rejected by each relay of its recipient's       *)
(* route, or has used up its attempt counter.  Whatever fails, a worker    *)
(* that rests has nothing left to publish or a deadline to retry           *)
(* (publish_outbound, tick).                                               *)
(***************************************************************************)
RoutedIntentsSettle ==
    \A l \in Lineages, r \in Relays :
        Ready(l, r) ~> \/ Settled(l, r)
                      \/ \E k \in 1..queued : route[k] = None
=============================================================================
