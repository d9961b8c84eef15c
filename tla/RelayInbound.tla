---------------------------- MODULE RelayInbound ----------------------------
(***************************************************************************)
(* How retained and live wrappers reach the canonical store: the readable  *)
(* half of one relay session per relay, with the durable catch-up cursors, *)
(* inbound claims, staging and quarantine they share.                      *)
(*                                                                         *)
(* A session opens a live subscription, then pages backward through what   *)
(* the relay retains.  Every wrapper is opened and ingested in one store   *)
(* transaction and claimed, staged or quarantined in the next, so other    *)
(* sessions, a lost connection or a crash may come between the two.  One   *)
(* session, the staging owner, also retries staged input.                  *)
(*                                                                         *)
(* Outer identifiers are numbers, which is how (created_at, id) is         *)
(* ordered.  A wrapper stands for its logical identity too: a sender sends *)
(* one wrapper for one lineage (RelayOutbound!OneWrapperPerLineage).       *)
(***************************************************************************)
EXTENDS RelayStore, FiniteSets, Sequences, SequencesExt

CONSTANTS
    Relays,           \* enabled readable relays
    StagingOwner,     \* the first of them, whose session recovers staging
    NumWrappers,      \* wrappers addressed to this installation
    Histories,        \* what the relays and the store may hold at the start
    Kind,             \* what opening and verifying each of them yields
    PageItems,        \* retained_page_items
    StagePageItems,   \* state_page_items
    BufferItems,      \* live_buffer_items
    StagingItems,     \* MAX_RELAY_STAGING_ITEMS
    QuarantineItems,  \* MAX_RELAY_QUARANTINE_ITEMS
    MillisPerSecond,  \* a cursor is in milliseconds, created_at in seconds
    TimestampRange,   \* RANDOMIZED_TIMESTAMP_RANGE_SECONDS
    OverlapSafety,    \* TIMESTAMP_OVERLAP_SAFETY_SECONDS
    PublishLag,       \* seconds from sealing a wrapper to its publication
    Delays,           \* retry delays after capping and jitter
    MaxClock,         \* the clock stops here
    MaxAttempts,      \* u32::MAX
    MaxGeneration,    \* policy generations
    MaxAhead,         \* how far the start of a scan may be ahead of the clock
    MaxFaults         \* failures of the store, the network and the process

Wrappers == 1..NumWrappers
Kinds == {"good", "invalid", "unopenable"}

ASSUME InboundAssumption ==
    /\ StagingOwner \in Relays
    /\ NumWrappers \in Nat
    /\ Kind \in [Wrappers -> Kinds]
    /\ Histories \subseteq
          [created : [Wrappers -> 0..(MaxClock \div MillisPerSecond) \cup {None}],
           claims : SUBSET Wrappers, covered : 0..MaxClock \cup {None},
           policy : 1..MaxGeneration, now : 0..MaxClock]
    /\ \A h \in Histories, w \in Wrappers :
          w \in h.claims => Kind[w] = "good" /\ h.created[w] /= None
    /\ {PageItems, StagePageItems, MillisPerSecond, MaxGeneration} \subseteq Nat \ {0}
    /\ {BufferItems, StagingItems, QuarantineItems} \subseteq Nat
    /\ {TimestampRange, OverlapSafety, PublishLag} \subseteq Nat
    /\ {MaxAttempts, MaxFaults, MaxAhead} \subseteq Nat
    /\ MaxClock \in Nat \ {0}
    /\ Delays \subseteq Nat \ {0}
    /\ None \notin Nat

VARIABLES
    policy,       \* the durable policy generation of each relay
    cursor,       \* the durable catch-up cursor of each relay
    claims,       \* wrappers claimed with their logical identity
    staged,       \* staged rows
    quarantined,  \* when each wrapper was quarantined
    canonical,    \* wrappers whose fact the canonical store holds
    now,          \* the clock, in milliseconds
    faults,       \* failures so far
    created,      \* created_at of each sealed wrapper, in seconds
    retained,     \* the wrappers that each relay retains
    sought,       \* those that it retained when the current scan began
    pc,           \* where each session worker is
    conn,         \* the connection state that reset_connection_state clears
    own,          \* the session state that a reconnect keeps
    tick,         \* the progress of the current pass
    hand,         \* the input a session holds between its two transactions
    wake          \* the wake descriptor of each worker

durable == <<policy, cursor, claims, staged, quarantined, canonical>>
world == <<now, faults, created, retained, sought>>
session == <<pc, conn, own, tick, hand, wake>>
vars == <<durable, world, session>>

-----------------------------------------------------------------------------
(***************************************************************************)
(* Time and the order of retained events.                                  *)
(***************************************************************************)
Larger(a, b) == IF a > b THEN a ELSE b
Seconds(millis) == millis \div MillisPerSecond

OverlapFloor(covered) ==
    Larger(0, Seconds(covered) - (TimestampRange + OverlapSafety))

Later(delay) == IF now + delay > MaxClock THEN MaxClock ELSE now + delay
NowMillis == Larger(now, 1)

Earliest(a, b) == CASE a = None -> b
                    [] b = None -> a
                    [] OTHER -> IF a < b THEN a ELSE b

Boundary(w) == <<created[w], w>>
Before(a, b) == a[1] < b[1] \/ (a[1] = b[1] /\ a[2] < b[2])
Oldest(a, b) == IF a = None \/ Before(b, a) THEN b ELSE a

(***************************************************************************)
(* The store's rules for a cursor, a staged row and quarantine evidence.   *)
(***************************************************************************)
Cursor(generation, started, covered, oldest, exhausted) ==
    [generation |-> generation, started |-> started, covered |-> covered,
     oldest |-> oldest, exhausted |-> exhausted]

BoundaryAdvances(stored, candidate) ==
    /\ candidate.oldest /= None
    /\ stored.oldest /= None => Before(candidate.oldest, stored.oldest)

CursorTransition(stored, candidate) ==
    IF candidate.started > stored.started
    THEN /\ stored.exhausted /\ ~candidate.exhausted
         /\ candidate.covered = stored.covered
         /\ candidate.oldest = None
    ELSE /\ candidate.started = stored.started
         /\ ~stored.exhausted
         /\ candidate.covered = IF candidate.exhausted THEN candidate.started
                                ELSE stored.covered
         /\ \/ BoundaryAdvances(stored, candidate)
            \/ candidate.exhausted /\ stored.oldest = candidate.oldest

PutCursorOk(r, candidate) ==
    /\ candidate.covered /= None => candidate.covered <= candidate.started
    /\ candidate.exhausted = (candidate.covered = candidate.started)
    /\ candidate.generation = policy[r]
    /\ cursor[r] /= None /\ cursor[r] /= candidate =>
          \/ candidate.generation > cursor[r].generation
          \/ /\ candidate.generation = cursor[r].generation
             /\ CursorTransition(cursor[r], candidate)

StagedRow(first, attempts, retry) ==
    [first |-> first, attempts |-> attempts, retry |-> retry]

PutStagedConflicts(w, row) ==
    /\ staged[w] /= None /\ staged[w] /= row
    /\ staged[w].first /= row.first \/ row.attempts <= staged[w].attempts

PutStagedFull(w) ==
    /\ staged[w] = None
    /\ Cardinality({v \in Wrappers : staged[v] /= None}) >= StagingItems

PutQuarantineConflicts(w) == quarantined[w] /= None /\ quarantined[w] /= now

(* At the limit the oldest evidence makes room. *)
PutQuarantine(w) ==
    LET all == [quarantined EXCEPT ![w] = now]
        kept == {v \in Wrappers : all[v] /= None}
        oldest == CHOOSE v \in kept : \A u \in kept \ {v} :
                      Before(<<all[v], v>>, <<all[u], u>>)
    IN IF Cardinality(kept) > QuarantineItems
       THEN [all EXCEPT ![oldest] = None] ELSE all

-----------------------------------------------------------------------------
NoConn == [since |-> None, live |-> {}, page |-> {}, eose |-> FALSE,
           active |-> FALSE, count |-> 0, oldest |-> None, retry |-> None,
           refresh |-> FALSE]

NoTick == [began |-> 0, immediate |-> FALSE, retry |-> None, rows |-> <<>>,
           more |-> FALSE]

NewSession(generation) ==
    [generation |-> generation, buffer |-> <<>>, position |-> None,
     stagingRetry |-> None]

(***************************************************************************)
(* The node starts for the first time, or again: then an earlier run has   *)
(* claimed some wrappers and may have left the cursor of a scan of an      *)
(* empty relay, and more may have been published since.                    *)
(***************************************************************************)
Init ==
    /\ \E h \in Histories :
          /\ now = h.now
          /\ policy = [r \in Relays |-> h.policy]
          /\ created = h.created
          /\ claims = h.claims
          /\ canonical = h.claims
          /\ cursor = [r \in Relays |-> IF h.covered = None THEN None
                           ELSE Cursor(h.policy, h.covered, h.covered, None, TRUE)]
    /\ staged = [w \in Wrappers |-> None]
    /\ quarantined = [w \in Wrappers |-> None]
    /\ faults = 0
    /\ retained = [r \in Relays |-> {w \in Wrappers : created[w] /= None}]
    /\ sought = [r \in Relays |-> {}]
    /\ pc = [r \in Relays |-> "down"]
    /\ conn = [r \in Relays |-> NoConn]
    /\ own = [r \in Relays |-> NewSession(policy[r])]
    /\ tick = [r \in Relays |-> NoTick]
    /\ hand = [r \in Relays |-> None]
    /\ wake = [r \in Relays |-> TRUE]

-----------------------------------------------------------------------------
(***************************************************************************)
(* The relay answers a live request with everything it retains since the   *)
(* floor and then with what is published, and a retained request with the  *)
(* newest events up to the boundary, in any order, and EOSE.  Which events *)
(* of one second fill the last places of a page is the relay's choice.     *)
(***************************************************************************)
RetainedPages(r, until) ==
    LET match == {w \in retained[r] : created[w] <= until}
    IN {page \in SUBSET match :
          /\ Cardinality(page) = IF Cardinality(match) < PageItems
                                 THEN Cardinality(match) ELSE PageItems
          /\ \A out \in match \ page, in \in page : created[out] <= created[in]}

Publish(r, w, second) ==
    /\ w \notin retained[r]
    /\ created[w] \in {None, second}
    /\ second \in Larger(0, Seconds(now) - TimestampRange - PublishLag)..Seconds(now)
    /\ created' = [created EXCEPT ![w] = second]
    /\ retained' = [retained EXCEPT ![r] = @ \cup {w}]
    /\ conn' = IF conn[r].since /= None /\ conn[r].since <= second
               THEN [conn EXCEPT ![r].live = @ \cup {w}]
               ELSE conn
    /\ UNCHANGED <<durable, now, faults, sought, pc, own, tick, hand, wake>>

Advance ==
    /\ now < MaxClock
    /\ now' = now + 1
    /\ UNCHANGED <<durable, faults, created, retained, sought, session>>

(* A local commit or an explicit synchronization wakes every worker. *)
Notice ==
    /\ \E r \in Relays : ~wake[r]
    /\ wake' = [r \in Relays |-> TRUE]
    /\ UNCHANGED <<durable, world, pc, conn, own, tick, hand>>

Configure(r) ==
    /\ policy[r] < MaxGeneration
    /\ policy' = [policy EXCEPT ![r] = @ + 1]
    /\ wake' = [q \in Relays |-> TRUE]
    /\ UNCHANGED <<cursor, claims, staged, quarantined, canonical, world, pc,
                   conn, own, tick, hand>>

-----------------------------------------------------------------------------
Go(r, step) == pc' = [pc EXCEPT ![r] = step]

(* The tick returned an error: the connection closes and what was in hand  *)
(* is dropped.  The worker backs off ("down") or its thread ends ("failed"). *)
Close(r, step) ==
    /\ Go(r, step)
    /\ conn' = [conn EXCEPT ![r] = NoConn]
    /\ hand' = [hand EXCEPT ![r] = None]

BackOff(r) ==
    /\ Close(r, "down")
    /\ \E delay \in Delays :
          tick' = [tick EXCEPT ![r] = [NoTick EXCEPT !.retry = Later(delay)]]

OpenPage(r, connection, until) ==
    \E page \in RetainedPages(r, until) :
        conn' = [conn EXCEPT ![r] =
                    [connection EXCEPT !.page = page, !.eose = TRUE,
                                       !.active = TRUE, !.count = 0,
                                       !.oldest = None, !.retry = None]]

Until(c) == IF c.oldest = None THEN Seconds(c.started) ELSE c.oldest[1]

StartRetainedScan(r, started, covered, step) ==
    LET new == Cursor(own[r].generation, started, covered, None, FALSE)
    IN /\ started <= now + MaxAhead
       /\ IF PutCursorOk(r, new)
          THEN /\ cursor' = [cursor EXCEPT ![r] = new]
               /\ OpenPage(r, conn[r], Until(new))
               /\ sought' = [sought EXCEPT ![r] = retained[r]]
               /\ Go(r, step)
               /\ UNCHANGED hand
          ELSE Close(r, "failed") /\ UNCHANGED <<cursor, sought>>

(* The cursor of the policy generation that this session serves. *)
OwnCursor(r) ==
    IF cursor[r] /= None /\ cursor[r].generation = own[r].generation
    THEN cursor[r] ELSE None

(* A new worker connects at once, one that backs off when its delay is     *)
(* over or when it is woken.                                               *)
Connect(r) ==
    /\ pc[r] = "down"
    /\ \/ tick[r].retry = None /\ UNCHANGED wake
       \/ /\ tick[r].retry /= None
          /\ wake[r] \/ tick[r].retry <= now
          /\ wake' = [wake EXCEPT ![r] = FALSE]
    /\ tick' = [tick EXCEPT ![r] = NoTick]
    /\ Go(r, "start")
    /\ UNCHANGED <<durable, world, conn, own, hand>>

StartLive(r) ==
    LET c == OwnCursor(r)
        covered == IF c /= None /\ c.covered /= None THEN c.covered ELSE NowMillis
        since == OverlapFloor(covered)
    IN /\ pc[r] = "start"
       /\ conn' = [conn EXCEPT ![r].since = since,
                               ![r].live = {w \in retained[r] : created[w] >= since}]
       /\ tick' = [tick EXCEPT ![r].began = NowMillis]
       /\ Go(r, "scan")
       /\ UNCHANGED <<durable, world, own, hand, wake>>

StartScan(r) ==
    LET c == OwnCursor(r)
    IN /\ pc[r] = "scan"
       /\ IF c /= None /\ ~c.exhausted
          THEN /\ OpenPage(r, [conn[r] EXCEPT !.refresh = TRUE], Until(c))
               /\ Go(r, "resume")
               /\ UNCHANGED <<cursor, sought, hand>>
          ELSE IF c /= None
          THEN StartRetainedScan(r, Larger(tick[r].began, c.started + 1),
                                 c.covered, "resume")
          ELSE StartRetainedScan(r, tick[r].began, None, "resume")
       /\ tick' = [tick EXCEPT ![r].began = 0]
       /\ UNCHANGED <<policy, claims, staged, quarantined, canonical, now, faults,
                      created, retained, own, wake>>

ResumeRetained(r) ==
    LET c == OwnCursor(r)
        due == /\ ~conn[r].active
               /\ ~c.exhausted
               /\ conn[r].retry = None \/ conn[r].retry <= now
    IN /\ pc[r] = "resume"
       /\ IF due THEN OpenPage(r, conn[r], Until(c)) ELSE UNCHANGED conn
       /\ Go(r, IF r = StagingOwner THEN "load" ELSE "frames")
       /\ UNCHANGED <<durable, world, own, tick, hand, wake>>

-----------------------------------------------------------------------------
(***************************************************************************)
(* process_input.  Opening and canonical ingest come first; the claim, the *)
(* staged row or the evidence follows in a transaction of its own.         *)
(***************************************************************************)
Held(w, source, act, prior) ==
    [wrapper |-> w, source |-> source, act |-> act, prior |-> prior]

(* Mutant: the claim does not wait for the ingest. *)
ProcessInputUningested(r, w, source, prior) ==
    /\ Go(r, "settle")
    /\ hand' = [hand EXCEPT ![r] = Held(w, source, "claim", prior)]
    /\ UNCHANGED <<canonical, wake, faults>>

ProcessInput(r, w, source, prior) ==
    /\ Go(r, "settle")
    /\ \/ /\ Kind[w] = "good"
          /\ canonical' = canonical \cup {w}
          /\ wake' = IF w \in canonical THEN wake ELSE [q \in Relays |-> TRUE]
          /\ hand' = [hand EXCEPT ![r] = Held(w, source, "claim", prior)]
          /\ UNCHANGED faults
       \/ /\ Kind[w] /= "unopenable"
          /\ faults < MaxFaults
          /\ faults' = faults + 1
          /\ hand' = [hand EXCEPT ![r] = Held(w, source, "stage", prior)]
          /\ UNCHANGED <<canonical, wake>>
       \/ /\ Kind[w] /= "good"
          /\ hand' = [hand EXCEPT ![r] = Held(w, source, "quarantine", prior)]
          /\ UNCHANGED <<canonical, wake, faults>>

(* Where the caller of process_input goes on, and what it learns. *)
Settled(r) ==
    LET h == hand[r]
    IN /\ Go(r, CASE h.source = "buffer" -> "drain"
                  [] h.source = "staged" -> "recover"
                  [] OTHER -> "frames")
       /\ hand' = [hand EXCEPT ![r] = None]
       /\ conn' = IF h.source = "retained" /\ Kind[h.wrapper] /= "unopenable"
                  THEN [conn EXCEPT ![r].oldest = Oldest(@, Boundary(h.wrapper))]
                  ELSE conn

Unstage(h) == IF h.source = "staged" THEN [staged EXCEPT ![h.wrapper] = None]
              ELSE staged

(* Mutant: a staged row goes and no claim of it is made. *)
ClaimOnlyUnstages(r) ==
    /\ pc[r] = "settle" /\ hand[r].act = "claim"
    /\ claims' = IF hand[r].source = "staged" THEN claims
                 ELSE claims \cup {hand[r].wrapper}
    /\ staged' = Unstage(hand[r])
    /\ Settled(r)
    /\ UNCHANGED <<policy, cursor, quarantined, canonical, world, own, tick, wake>>

ClaimInbound(r) ==
    /\ pc[r] = "settle" /\ hand[r].act = "claim"
    /\ claims' = claims \cup {hand[r].wrapper}
    /\ staged' = Unstage(hand[r])
    /\ Settled(r)
    /\ UNCHANGED <<policy, cursor, quarantined, canonical, world, own, tick, wake>>

StageRetry(r, delay) ==
    LET h == hand[r]
        row == IF h.prior = None THEN StagedRow(now, 0, Later(delay))
               ELSE StagedRow(h.prior.first, h.prior.attempts + 1, Later(delay))
    IN /\ pc[r] = "settle" /\ h.act = "stage"
       /\ CASE PutStagedConflicts(h.wrapper, row) ->
                  Close(r, "failed") /\ UNCHANGED <<staged, own, tick>>
            [] PutStagedFull(h.wrapper) ->
                  BackOff(r) /\ UNCHANGED <<staged, own>>
            [] OTHER ->
                  /\ staged' = [staged EXCEPT ![h.wrapper] = row]
                  /\ own' = [own EXCEPT ![r].stagingRetry = Earliest(@, row.retry)]
                  /\ tick' = [tick EXCEPT ![r].retry = Earliest(@, row.retry)]
                  /\ Settled(r)
       /\ UNCHANGED <<policy, cursor, claims, quarantined, canonical, world, wake>>

Quarantine(r) ==
    LET h == hand[r]
    IN /\ pc[r] = "settle" /\ h.act = "quarantine"
       /\ IF PutQuarantineConflicts(h.wrapper)
          THEN Close(r, "failed") /\ UNCHANGED <<staged, quarantined>>
          ELSE /\ quarantined' = PutQuarantine(h.wrapper)
               /\ staged' = Unstage(h)
               /\ Settled(r)
       /\ UNCHANGED <<policy, cursor, claims, canonical, world, own, tick, wake>>

-----------------------------------------------------------------------------
(***************************************************************************)
(* recover_staging: one page of staged rows a pass, first received first.  *)
(***************************************************************************)
StagedKey(w) == <<staged[w].first, w>>

LoadStaging(r) ==
    LET from == own[r].position
        rows == SetToSortSeq(
                    {w \in Wrappers : /\ staged[w] /= None
                                      /\ from /= None => Before(from, StagedKey(w))},
                    LAMBDA a, b : Before(StagedKey(a), StagedKey(b)))
        more == Len(rows) >= StagePageItems
        page == SubSeq(rows, 1, IF more THEN StagePageItems ELSE Len(rows))
    IN /\ pc[r] = "load"
       /\ own' = [own EXCEPT
                    ![r].position = IF more THEN StagedKey(page[StagePageItems])
                                    ELSE None,
                    ![r].stagingRetry = IF from = None THEN None ELSE @]
       /\ tick' = [tick EXCEPT
                    ![r].rows = [i \in DOMAIN page |-> [wrapper |-> page[i],
                                                        row |-> staged[page[i]]]],
                    ![r].more = more,
                    ![r].immediate = more]
       /\ Go(r, "recover")
       /\ UNCHANGED <<durable, world, conn, hand, wake>>

RecoverRow(r) ==
    /\ pc[r] = "recover" /\ tick[r].rows /= <<>>
    /\ tick' = [tick EXCEPT ![r].rows = Tail(@)]
    /\ LET input == Head(tick[r].rows)
           row == input.row
       IN \/ /\ row.attempts = MaxAttempts
             /\ UNCHANGED <<canonical, faults, pc, own, hand, wake>>
          \/ /\ row.attempts < MaxAttempts /\ row.retry > now
             /\ own' = [own EXCEPT ![r].stagingRetry = Earliest(@, row.retry)]
             /\ UNCHANGED <<canonical, faults, pc, hand, wake>>
          \/ /\ row.attempts < MaxAttempts /\ row.retry <= now
             /\ ProcessInput(r, input.wrapper, "staged", row)
             /\ UNCHANGED own
    /\ UNCHANGED <<policy, cursor, claims, staged, quarantined, now, created,
                   retained, sought, conn>>

(* Mutant: the deadlines of the rows that were not due are forgotten. *)
EndRecoveryForgets(r) ==
    /\ pc[r] = "recover" /\ tick[r].rows = <<>>
    /\ Go(r, "frames")
    /\ UNCHANGED <<durable, world, conn, own, tick, hand, wake>>

EndRecovery(r) ==
    /\ pc[r] = "recover" /\ tick[r].rows = <<>>
    /\ tick' = IF tick[r].more THEN tick
               ELSE [tick EXCEPT ![r].retry = Earliest(@, own[r].stagingRetry)]
    /\ Go(r, "frames")
    /\ UNCHANGED <<durable, world, conn, own, hand, wake>>

-----------------------------------------------------------------------------
(***************************************************************************)
(* Inbound frames.  Live events wait in the buffer while a retained page   *)
(* is open and are staged unopened when the buffer is full.                *)
(***************************************************************************)
ReceiveLive(r, w) ==
    /\ pc[r] = "frames" /\ w \in conn[r].live
    /\ conn' = [conn EXCEPT ![r].live = @ \ {w}]
    /\ tick' = [tick EXCEPT ![r].immediate = TRUE]
    /\ \/ /\ conn[r].active /\ Len(own[r].buffer) < BufferItems
          /\ own' = [own EXCEPT ![r].buffer = Append(@, w)]
          /\ UNCHANGED <<canonical, faults, pc, hand, wake>>
       \/ /\ conn[r].active /\ Len(own[r].buffer) >= BufferItems
          /\ hand' = [hand EXCEPT ![r] = Held(w, "live", "stage", None)]
          /\ Go(r, "settle")
          /\ UNCHANGED <<canonical, faults, own, wake>>
       \/ /\ ~conn[r].active
          /\ ProcessInput(r, w, "live", None)
          /\ UNCHANGED own
    /\ UNCHANGED <<policy, cursor, claims, staged, quarantined, now, created, retained,
                   sought>>

ReceiveRetained(r, w) ==
    /\ pc[r] = "frames" /\ w \in conn[r].page
    /\ conn' = [conn EXCEPT ![r].page = @ \ {w}, ![r].count = @ + 1]
    /\ tick' = [tick EXCEPT ![r].immediate = TRUE]
    /\ ProcessInput(r, w, "retained", None)
    /\ UNCHANGED <<policy, cursor, claims, staged, quarantined, now, created,
                   retained, sought, own>>

(* Mutant: a later scan ends where the earlier one began. *)
CompleteAtCoverage(r, prior) ==
    \/ conn[r].count < PageItems
    \/ /\ prior.covered /= None /\ conn[r].oldest /= None
       /\ conn[r].oldest[1] < Seconds(prior.covered)

(* EOSE of the retained page: the scan is complete, advances or stalls. *)
Complete(r, prior) ==
    \/ conn[r].count < PageItems
    \/ /\ prior.covered /= None /\ conn[r].oldest /= None
       /\ conn[r].oldest[1] < OverlapFloor(prior.covered)

Advances(r, prior) ==
    /\ conn[r].oldest /= None
    /\ prior.oldest /= None => Before(conn[r].oldest, prior.oldest)

PageCursor(r, prior) ==
    Cursor(prior.generation, prior.started,
           IF Complete(r, prior) THEN prior.started ELSE prior.covered,
           IF conn[r].oldest /= None THEN conn[r].oldest ELSE prior.oldest,
           Complete(r, prior))

HandleEose(r, delay) ==
    LET prior == OwnCursor(r)
        next == PageCursor(r, prior)
        closed == [conn[r] EXCEPT !.eose = FALSE, !.active = FALSE]
    IN /\ pc[r] = "frames" /\ conn[r].eose /\ conn[r].page = {}
       /\ tick' = [tick EXCEPT ![r].immediate = TRUE]
       /\ \/ /\ Complete(r, prior) \/ Advances(r, prior)
             /\ ~PutCursorOk(r, next)
             /\ Close(r, "failed")
             /\ UNCHANGED cursor
          \/ /\ Complete(r, prior)
             /\ PutCursorOk(r, next)
             /\ cursor' = [cursor EXCEPT ![r] = next]
             /\ conn' = [conn EXCEPT ![r] =
                            [closed EXCEPT !.retry = None, !.refresh = FALSE]]
             /\ Go(r, IF conn[r].refresh THEN "rescan" ELSE "drain")
             /\ UNCHANGED hand
          \/ /\ ~Complete(r, prior) /\ Advances(r, prior)
             /\ PutCursorOk(r, next)
             /\ cursor' = [cursor EXCEPT ![r] = next]
             /\ OpenPage(r, closed, Until(next))
             /\ UNCHANGED <<pc, hand>>
          \/ /\ ~Complete(r, prior) /\ ~Advances(r, prior)
             /\ conn' = [conn EXCEPT ![r] = [closed EXCEPT !.retry = Later(delay)]]
             /\ UNCHANGED <<cursor, pc, hand>>
       /\ UNCHANGED <<policy, claims, staged, quarantined, canonical, world, own, wake>>

(* A resumed scan is complete: the connection's own head scan follows. *)
RescanHead(r) ==
    LET c == OwnCursor(r)
    IN /\ pc[r] = "rescan"
       /\ StartRetainedScan(r, Larger(now, c.started + 1), c.started, "frames")
       /\ UNCHANGED <<policy, claims, staged, quarantined, canonical, now, faults,
                      created, retained, own, tick, wake>>

DrainBuffer(r) ==
    /\ pc[r] = "drain"
    /\ IF own[r].buffer = <<>>
       THEN Go(r, "frames") /\ UNCHANGED <<canonical, faults, own, hand, wake>>
       ELSE /\ own' = [own EXCEPT ![r].buffer = Tail(@)]
            /\ ProcessInput(r, Head(own[r].buffer), "buffer", None)
    /\ UNCHANGED <<policy, cursor, claims, staged, quarantined, now, created,
                   retained, sought, conn, tick>>

EndTick(r) ==
    /\ pc[r] = "frames"
    /\ tick' = [tick EXCEPT ![r].retry = Earliest(@, conn[r].retry)]
    /\ Go(r, "wait")
    /\ UNCHANGED <<durable, world, conn, own, hand, wake>>

Readable(r) == conn[r].live /= {} \/ conn[r].eose

(* A pass with more to do is followed at once by the next; otherwise the     *)
(* worker sleeps until it is woken, has input or reaches its deadline.       *)
Awaken(r) ==
    /\ pc[r] = "wait"
    /\ \/ tick[r].immediate /\ UNCHANGED wake
       \/ /\ ~tick[r].immediate
          /\ \/ wake[r] \/ Readable(r)
             \/ tick[r].retry /= None /\ tick[r].retry <= now
          /\ wake' = [wake EXCEPT ![r] = FALSE]
    /\ tick' = [tick EXCEPT ![r] = [NoTick EXCEPT !.retry = conn[r].retry]]
    /\ Go(r, "resume")
    /\ UNCHANGED <<durable, world, conn, own, hand>>

-----------------------------------------------------------------------------
(***************************************************************************)
(* Failures.  A store that is busy ends the pass and the connection, but   *)
(* staging recovery tolerates it and the pass goes on with the frames.     *)
(***************************************************************************)
Fault == faults < MaxFaults /\ faults' = faults + 1

LoseConnection(r) ==
    /\ pc[r] \in {"start", "scan", "resume", "frames", "rescan", "drain", "wait"}
    /\ Fault
    /\ BackOff(r)
    /\ UNCHANGED <<durable, now, created, retained, sought, own, wake>>

InRecovery(r) == \/ pc[r] = "load"
                 \/ pc[r] = "settle" /\ hand[r].source = "staged"

StoreBusy(r) ==
    /\ pc[r] \in {"start", "scan", "resume", "rescan", "settle"}
    /\ ~InRecovery(r)
    /\ Fault
    /\ BackOff(r)
    /\ UNCHANGED <<durable, now, created, retained, sought, own, wake>>

StoreBusyInRecovery(r, delay) ==
    /\ InRecovery(r)
    /\ Fault
    /\ tick' = [tick EXCEPT ![r].retry = Earliest(@, Later(delay)),
                            ![r].rows = <<>>]
    /\ own' = IF pc[r] = "load" /\ own[r].position = None
              THEN [own EXCEPT ![r].stagingRetry = None] ELSE own
    /\ hand' = [hand EXCEPT ![r] = None]
    /\ Go(r, "frames")
    /\ UNCHANGED <<durable, now, created, retained, sought, conn, wake>>

Crash(r) ==
    /\ pc[r] /= "failed"
    /\ Fault
    /\ Close(r, "failed")
    /\ UNCHANGED <<durable, now, created, retained, sought, own, tick, wake>>

(* The manager replaces a finished worker, and one whose policy changed once *)
(* its pass is over, and then signals every worker.                          *)
Reconcile(r) ==
    /\ \/ pc[r] = "failed"
       \/ own[r].generation /= policy[r] /\ pc[r] \in {"down", "wait"}
    /\ Close(r, "down")
    /\ own' = [own EXCEPT ![r] = NewSession(policy[r])]
    /\ tick' = [tick EXCEPT ![r] = NoTick]
    /\ wake' = [q \in Relays |-> TRUE]
    /\ UNCHANGED <<durable, world>>

-----------------------------------------------------------------------------
Pass(r) ==
    \/ Connect(r) \/ StartLive(r) \/ StartScan(r)
    \/ ResumeRetained(r) \/ LoadStaging(r) \/ RecoverRow(r) \/ EndRecovery(r)
    \/ ClaimInbound(r) \/ Quarantine(r) \/ \E delay \in Delays : StageRetry(r, delay)
    \/ RescanHead(r) \/ DrainBuffer(r) \/ EndTick(r) \/ Awaken(r) \/ Reconcile(r)

Receive(r) ==
    \/ \E w \in Wrappers : ReceiveLive(r, w) \/ ReceiveRetained(r, w)
    \/ \E delay \in Delays : HandleEose(r, delay)

Environment ==
    \/ \E r \in Relays, w \in Wrappers, second \in 0..Seconds(MaxClock) :
          Publish(r, w, second)
    \/ Advance \/ Notice \/ \E r \in Relays : Configure(r)

Failure(r) == \/ LoseConnection(r) \/ StoreBusy(r) \/ Crash(r)
              \/ \E delay \in Delays : StoreBusyInRecovery(r, delay)

Next == \/ Environment
        \/ \E r \in Relays : Pass(r) \/ Receive(r) \/ Failure(r)

Spec == Init /\ [][Next]_vars

(***************************************************************************)
(* The clock runs and every worker goes on.  A frame that the relay sent   *)
(* is not overtaken for ever by passes that find the socket still empty.   *)
(***************************************************************************)
Fairness ==
    /\ WF_vars(Advance)
    /\ \A r \in Relays :
          /\ WF_vars(Pass(r))
          /\ \A w \in Wrappers : SF_vars(ReceiveLive(r, w)) /\ SF_vars(ReceiveRetained(r, w))
          /\ SF_vars(\E delay \in Delays : HandleEose(r, delay))

FairSpec == Spec /\ Fairness

-----------------------------------------------------------------------------
Good == {w \in Wrappers : Kind[w] = "good"}
Secured(w) == w \in claims \/ staged[w] /= None

(***************************************************************************)
(* Coverage is true: when the cursor says that a scan is exhausted, every  *)
(* valid wrapper that the relay retained when the scan began is claimed or *)
(* staged, however often the scan was interrupted and resumed, and also    *)
(* when it ended at the overlap floor of an earlier coverage rather than   *)
(* with the relay's last event (handle_eose, start_ordinary_work).         *)
(***************************************************************************)
CoverageIsTrue ==
    \A r \in Relays :
        cursor[r] /= None /\ cursor[r].exhausted =>
            \A w \in sought[r] \cap Good : Secured(w)

(* A claim is only ever made of a fact that the canonical store holds: the *)
(* claim follows its ingest, whatever comes between (process_input).       *)
ClaimsAreIngested == claims \subseteq canonical

(* What is claimed or staged stays so: a staged row leaves the table only  *)
(* with its claim (apply, remove_staging).                                 *)
SecuredStays == \A w \in Good : Secured(w) => Secured(w)'
SecuredNeverLost == [][SecuredStays]_vars

(* Every valid wrapper that a relay retains is claimed in the end. *)
EventuallyClaimed ==
    \A w \in Good : (\E r \in Relays : w \in retained[r]) ~> w \in claims

=============================================================================
