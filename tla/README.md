# HQ: a TLA+ verification project

HQ is a local-first coordination node. Signed causal facts live in a SQLite store
behind one actor thread, reducers derive every view from them, encrypted wrappers
of the facts travel through Nostr relays, named agents run as managed sessions of a
provider process (Codex), projects bind agents to inputs through durable sagas, and
frontends talk to the node over a local socket. This directory holds TLA+ modules
translated from the Rust code under `src/crates/`, TLC runs on small instances, and
TLAPS proofs. `PROJECT.json` gives the source lines of every definition, the runs, the
mutants that each checked property must catch, the hazards, the findings and the
theorems.

To repeat a run: `tlc -config MCLocalApi_api.cfg MCLocalApi`; to check the proofs:
`tlapm ProjectDispatch_proofs.tla`.

## 1. The system

| part | durable state | state in memory | operations |
|---|---|---|---|
| relay publishing (`hq-relay/session.rs`) | outbox intents, prepared wrappers, attempt rows | page query, deadline, frames in flight | publish_outbound, ensure_prepared, handle_ok |
| relay receiving (`hq-relay/session.rs`) | cursors, claims, staging, quarantine | subscriptions, live buffer, scan | start_ordinary_work, handle_eose, process_input, recover_staging |
| harness supervisor (`hq-harness/supervisor.rs`) | lease, ready session, session operations, deliveries | workers map and its mutex | control_session, launch, ensure_resumed, deliver, stop, poll_events, recover |
| project workflow (`hq-projects`) | sagas, recovery episodes, canonical project | the row an advance works on | advance, commit, compensate, repair |
| local API (`hq-local-api`, `hq-node/session_*`) | none | client generations and requests, session slots, registrations, queues | call, poll, accept, dispatch, flush_invalidations, publish, take |
| account sharing (`hq-application/human.rs`, `hq-node/cli.rs`, `hq-reducer/authority.rs`) | facts, outbox, invitation files | running commands | invite, join, revoke, remote request and receipt |
| the rest: store actor, lifecycle, Codex adapter, cancellation, codecs, TUI | | | see "Not modelled" |

A fact enters the outbox in the transaction that commits it. Relay workers seal one
wrapper per (fact, recipient) and publish it; the workers of the receiving node claim it
and ingest the fact. A project workflow binds an agent to a session, and its inputs are
delivered to the agent's provider through the supervisor. Committed revisions wake the
local API's subscribers. Devices of one human share an account through membership facts,
and a device may ask the home of a project to carry out a command there.

What makes it hard: several threads share each table; a handler is several store
transactions and external calls, with a failure, a crash or another thread between any
two of them; relays lose connections, answer late and deliver twice; deadlines and leases
use a wall clock that can be stepped; commands plan from one snapshot and submit against
another. The hazards in `PROJECT.json` name these at the line where they bite.

## 2. The modules

A step of a model is one store transaction, one external call or one critical section.
Between two steps of a handler a program counter says where it is, so everything else may
happen there. A crash clears what is in memory and keeps the durable variables. Failures
draw from one bounded counter, so a run covers every placement of that many failures.
A module named `MCx` instantiates `x` for TLC.

**RelayStore** holds what the relay tables promise: the order on attempt rows that
`put_attempt` accepts (`PutAttemptOk`) and when a row is due (`AttemptDue`).

**RelayOutbound** is one worker per relay. `pc` walks through `tick`: `StartTick` connects,
`LoadPage` reads a page of intents, `Unroutable`/`SkipIntent` resolve the route,
`ReusePrepared` or `SealWrapper` and `ApplyPrepare` yield the one wrapper, `RecordAttempt`
makes the attempt durable, `SendEvent` sends, `FinishPage` moves the query, `HandleOk`
takes one answer, `EndTick` decides whether to sleep and until when. The relay
(`RelayAccepts`, `RelayRefuses`) is external and answers in order on a connection.
`Respawn` is the manager replacing a worker that ended on a fatal error.

**RelayInbound** is the readable half. `own` is the session's state that survives a
reconnect, `conn` what `reset_connection_state` clears, `tick` one pass's progress, `hand`
the wrapper between its ingest and its claim. A wrapper is a number, ordered as
(created_at, id) is. `Kind` says what opening it yields. A scan pages backward from its
start until it covers the gap to the prior coverage; `HandleEose` is the whole of
`handle_eose`, the cursor, the repeated head scan and the drained buffer included. A worker
without a connection waits in `BackOff` until its deadline or its wake descriptor lets it
`Connect` again. `Init` starts from any of `Histories`: what the relays and the store hold at
a first start, or at a restart after an earlier coverage. `sought` is a history variable, the
wrappers a relay retained when the current scan began. The relay keeps every wrapper it
accepted; expiry at the relay is not modelled.

**HarnessSession** is one agent: `lease`, `ready` and `operation` are the store's rows,
`worker` and `lock` the workers map and its mutex, `procs` the live provider processes.
Controllers run `control_session`, the project thread launches, resumes and stops, the
pump renews or loses the worker. What `launch_owned` does under the mutex is a sequence of
steps with `lock` held; what `stop` does after it gave the mutex back is a sequence without.

**HarnessDelivery** extends it with the delivery ledger and the project's `deliver` call.
The provider's contract, that a lookup by exact identity tells whether a submission was
accepted, is used as the adapter states it.

**ProjectRecords** has the two records a project command works on, as operators: the saga
row with the store's rule for replacing it (`replace_accepts`), and the canonical project
with the decision whether a mutation commits at its head (`build_plan`) and what it then
does (`Reduced`). **ProjectSaga** is `ProjectWorkflowManager`: `w` is the one worker (the
row in memory, the snapshot it read, the reply of its last call, its place), `sagas`,
`view`, `receipts`, `episodes` and `ledger` are durable. Each stage of `advance_once` is
an action; every effect is preceded by a persisted row and followed by one; `Commit` is
one canonical transaction, `Undo` and `Recompensate` are the rounds of compensation,
`Replay` is a row run again. A stop that finds no worker and a start that finds one are
errors of the supervisor, so the run ends there. **ProjectDispatch** adds the dispatch of
inputs with its recovery episodes and the environment: `Elsewhere`, `RuntimeDies` (its hint
may be lost), `Interrupt` (a port or the store fails) and `Restart` (the process dies with
its workers and hints). `RepairDue` is the timer, which runs due episodes only; `Resume` is
the repair of any live row that a signal, a revision or a start of the node brings.

**ProjectContract** is the abstract specification: a project serves one command at a time;
only that command moves the project, along the transitions of its kind; it is reported
complete only when the project is what was asked for, refused only when nothing is left
half made, and a report is never changed. `ProjectDispatch` instantiates it
(`Contract == INSTANCE ProjectContract WITH ...`: a saga's tag becomes the outcome, the view
its fields), and the run `project_commands` checks that the workflow implements it
(`KeepsContract`).

**LocalClient** is `ReconnectingClient` as operators that return the new client, the
actions to queue and whether the call failed. **LocalFrontend** drives it as
`BlockingClientRunner` does: an observer polls for ever, a command client steps only inside
a call, and the deadline of a call may pass at any step of it, whatever is queued. The
history `answered` keeps the commands that have had a conclusive answer. **LocalNode** is the node's end: read and write task of each connection, the
registry's slots and its one event channel, the workers that execute requests, the pump,
and the store's revision watch. **RevisionHub** is the subscription registry as operators
on one record; **LocalSocket** what the two ends share. **LocalApi** composes them.
A connection, its session and its subscription are named by the client's generation. The
pump's biased select is taken without its priority, which allows more than the code does.
The store begins at revision 1, both ends speak one protocol version, backoff delays are
left out (a reconnection may be as late as it likes), and prompts are counted as changes
of the in-memory list.

**AccountFacts** has the reducers' rules as operators on a set of facts: reachability,
the rounds of `reduce_complete`, grants, acceptances, revokes, selections and remote
control. Facts are named `<<author, n>>`; as signing is deterministic and ids are content
addresses, equal content is the same fact. **AccountSharing** is the creator's node and
one device: `human invite`, `human revoke` and `human join` as the separate requests the
command line makes, the store's admission, rollback and fan-out (`Submit`, `Ingest`,
`outbox_recipients`), delivery in any order, the device's request and the home worker's
pass: `BeginPass` reads the commands that are not terminal, `advance_remote` takes them in
turn, authors the receipt of a queued one, carries it out (an execution that ends or does
not) and authors its outcome; the first error ends the pass, a rejected plan goes on to the
next command. Mailbox facts are left out, an invitation's evidence is imported in one
step, requests are those that create a project, and a restart of a node is not modelled
(every variable but `cli` is durable).

## 3. The runs

| run | instance | states | what it shows |
|---|---|---|---|
| `outbound_race` | 2 relays, 1 lineage, 2 wrappers, 2 attempts, 1 failure | 911,374 | two workers race to seal: one wrapper, every send recorded, acceptance true and final, no conflict under a monotonic clock |
| `outbound_live` | 1 relay, 2 lineages in one page, 1 failure or clock step | 137,372 | routed intents are settled, also after a step of the wall clock |
| `inbound_scan` | 1 relay, 3 wrappers, one of them invalid, pages of 2, buffer, staging page and quarantine of 1, a first start and two restarts, 1 failure | 2,156,684 | what a completed scan covers was secured, a claim follows its ingest, nothing secured is lost |
| `inbound_live` | 1 relay, 1 wrapper, no buffer, 2 policy generations, 1 failure | 167,161 | a retained wrapper is claimed in the end |
| `harness` | 1 controller and the project thread, one start, stop and resume, 1 submission, 2 tokens, 1 failure | 1,100,264 | worker, lease, ledger and processes stay in step; one acceptance, true verdicts, and the deliverer keeps its worker |
| `project_commands` | 1 command of 16, on 6 shapes of project, 2 failures, 1 change elsewhere | 289,681 | the workflow implements `ProjectContract`, compensation fits its rounds, reported stops are true, every command that keeps being run settles or waits in a named way |
| `project_dispatch` | 2 commands, 1 input waiting, 1 failure, 1 change elsewhere | 356,880 | one live command, a recorded input was accepted, no restart gives a recovery its attempts back |
| `local_api` | 2 connections, 7 commands, up to 4 calls, an observer or a command client | 618,117 | turns, notices, registrations and answers are never mixed up, stranded, leaked or forgotten |
| `local_live` | 3 connections, an observer | 60,848 | it ends up with the last revision and the last prompts |
| `account` | 2 shells, 2 labels, 2 invites, 2 revokes, 2 joins, 1 request | 196,477 | a revoke bars the invitations it knew, the commands of revoked devices drop out of the home's list, a selection means a membership, the two nodes agree |
| `project_handoff` | as `project_commands`, no failures | | violated: a handoff never settles (section 5) |
| `account_remote` | 1 shell, one of each, 2 requests | | violated: a remote command is never received (section 5) |

Every property of a passing run has a mutant of the modelled code that breaks it.

### Bounds

A race needs two actors on one row, so each component has a run with two of them and one
contested item: two relays, a controller and the project thread, two shells, a frontend
and the node's threads. A page, a buffer, a queue or a table is set to one or two rows,
because the interesting cases are "full" and "one more than fits". One failure, with the
crash among the failures, covers every single point at which a handler can be cut; two, in
`project_commands`, let a failure fall into the recovery from the first. For publishing
and for `OneLiveCommand` the proofs allow any number. Clocks need one value before and one
after a deadline, and a further one for the overlap. Bounds that are the code's own limits
(`u32::MAX` attempts, `u64::MAX` milliseconds) saturate as the code does; the others
(`MaxClock` of the sessions, `MaxTokens`, `MaxSessions`, `MaxAhead`, `MaxGeneration`,
`MaxGenerations`, `MaxForeign`, `MaxInputs`, `Scenarios`, `Budget`, `MaxFaults`) only end
behaviours. `OutOfConnections` names the states where `MaxGenerations` did.

`Scenarios` of the local API says what one behaviour may spend: calls, faults, expired
deadlines, commits, prompts. Spending all of them at once is out of TLC's reach, so a run
takes the union of behaviours that spend them in pairs, and of four calls of a project
command, with a fault or with a mutation between them (`MCLocalApi`).

In `inbound_scan` a second has two milliseconds, wrappers are dated up to one second back
(`TimestampRange`) and published up to one second after they are sealed (`PublishLag`). A
scan that starts within the millisecond of the last one is dated one later, so scans run
ahead of the clock, by `MaxAhead` at most. `OverlapSafety` is the lag and that lead together;
in the code it is one second, of which the lead takes milliseconds, so `CoverageIsTrue`
speaks of the code as long as a publication lags less than the rest of that second. A scan that ends at
the overlap floor needs an old coverage, which takes many steps to reach from a first start:
two of the three histories (`MCRelayInbound!Starts`) are such restarts. In `inbound_live` a
second has one millisecond and nothing lags, as its property is not about dates.

A pass of the home takes at most `recovery_limit` commands, more than the account runs make.

Two relays that share claims and staging, two controllers of one agent, and a second
failure during a delivery are within the modules and are not instances of the runs above.
In the `harness` instance the second failure would be needed for a failed release after a
failed open.

Symmetry is used for relays, wrappers, shells and labels in runs without liveness
properties. `CHECK_DEADLOCK FALSE` stands where a behaviour may end: everything published,
every operation decided, the project at rest, the bounds used up.

### Fairness

* Publishing: weak fairness of each worker (a thread that can run does), of the relay's
  accepting answer, and of the clock. Failures are finitely many.
* Receiving: the same for `Pass` and the clock, and strong fairness of receiving a given
  event and the end of stored events: connections come and go, and a relay that is asked
  again and again answers in the end.
* Project: weak fairness of the worker's step, of the clock of each episode and of repairing
  each due episode (the component's timer). Nothing runs a live row without an episode but a
  control signal, a revision of the store or a start of the node, and none of these has to
  come, so `Resume` is not fair: `EveryCommandSettles` and `HandoffSettles` are about commands
  that keep being run (`KeepsBeingRun`). What a command may then still wait for is named:
  `Waits` (the human, a recovery, a head, a path), `RuntimeGone` and `RuntimeKept` (section 5).
* Local API: weak fairness of the frontend's step and of the node's step, each as a whole.
* Account: weak fairness of delivery and of a pass that has begun. That passes begin is a
  condition of `RequestsAreReceived`.
* Harness: none; its properties are safety properties.

## 4. What is proved

`RelayOutbound_proofs` proves for all sets of relays and wrappers, all numbers of lineages,
attempts and failures, and any delays:

* `PublishingInvariant`: `Spec => []IInv`
* `TypeCorrect`, `OneWrapper`, `SendsAreRecorded`, `AcceptanceIsTrue`: the invariants
* `RowsNeverGoBack`, `NoSendAfterAcceptance`: the two action properties

Assumptions: `SizesAssumption` (sizes are naturals, pages and attempts positive, delays
positive) and `NoneAssumption` (the value `None` is none of the others).

The properties alone are not inductive: whether a send is recorded depends on what the
worker did two steps before. `HandInv` follows the wrapper in a worker's hand: at `prepare`
it was sealed for the intent at the cursor, from `attempt` on it is the durable wrapper of
its lineage, and at `send` its row exists and is uncertain. `PreparedInv` says a prepared
row names a wrapper sealed for it, so that a wrapper has one lineage. `AnswersInv` says a
positive answer on its way back is true, which gives `AcceptedIsRetained` when `handle_ok`
writes it. Each is preserved by each action (`TypeStep`, `RowsStep`, `HandStep`, one case
per action). That a send has an uncertain row gives `AcceptedNeverResent`; that each writer
goes through `PutAttemptOk` gives `AttemptsOnlyAdvance`.

`ProjectDispatch_proofs` proves for all sets of operations, commands, agents and projects,
and any number of failures:

* `ProjectServesOneCommand`: `Spec => []OneLiveCommand`
* `ReportsAreFinal`: `Spec => [][RowsOnlyAdvance]_vars`, a row that was reported keeps its
  report

The argument. Every write of a saga row is one of two: `Control` begins a row when no other
is live, or a step of the worker goes through `persist`, which the store's
`replace_accepts` guards (`WorkerWrites`, `NextWrites`, one case per action). A row that
`replace_accepts` lets through is live only if it was live before (`LiveBefore`) and keeps
a terminal tag (`ReportStays`). So the live rows of a step are among the live rows before
it, or the one row begun when there was none. The inductive invariant is `OneLiveCommand`
with `Rows`, which says that the table is a function on the operations.

`HarnessSession_proofs` proves for any number of controllers, operations, leases, sessions
and failures:

* `HarnessInvariant`: `Spec => []IInv`
* `WorkerOwnsLeaseAlways`, `NoOrphanProcessAlways`, `RecordedBeforeOpenedAlways`: the invariants
* `NoTakeoverInForceAlways`: a lease in force stays with its owner or is given up

Assumptions: sizes are naturals, an operation is a start, a resume or a stop, the project
thread, the pump and the controllers are different threads, and `None` is none of the other
values.

The argument. A token has one holder at a time: the launch that claimed it, the map, or the
stop that took it out of the map (`HolderInv`), and only a launch with the mutex is in the
steps of `launch_owned` (`MutexInv`), with no worker in the map. So nobody but the owner of a
token renews or releases its lease. `OpenedInv` and `SessionInv` tie the one process of a
claimed token to the session that will be recorded, `LedgerInv` says that a launch of an
operation has its row past `prepared`, and `TokenInv` that no token in use is yet to be given
out. Each thread's step is shown to keep what the other threads rely on (`Frame`), with one
lemma per action.

`HarnessDelivery_proofs` proves the same of the composition, for any number of submissions:

* `DeliveryInvariant`: `DeliverySpec => []DInv`
* `SubmittedAtMostOnce`, `RecordedVerdictsAreTrue`, `WorkerStaysWhileDelivering`: the invariants
* `SessionsKeptByDelivery`, `NoTakeoverWhileDelivering`: the properties of the sessions hold
  with deliveries under way

`DInv` is `IInv` with two more parts. `DelivererInv`: the deliverer has the mutex from the
renewal to the verdict, so the worker it submits to stays. `SubmissionInv`: uncertain is
durable before the provider is called, so a row before it was never submitted, and an
uncertain row is submitted only after a lookup under the same mutex found it not accepted.

Only model-checked: `PublishNeverConflicts`, the refinement of `ProjectContract` and the other
project invariants, every liveness property (the prover has no rule for fairness), and
everything about receiving, the local API and accounts. `AccountFacts` uses recursive
operators, which are outside the prover.

## 5. Findings

Two runs show that the code does not do what a document says of it.

* `project_handoff`. After the old assignment's end has committed, a handoff goes on at
  ValidatingResources, a stage with a lower number than the stored one, and the saga store
  refuses the row. The pending mutation was already cleared, so every repair runs the stage
  EndingAssignment on a project without an assignment and fails with StateCorrupt
  (`workflow.rs:1413`, `workflow.rs:1361`, `project_saga.rs:610`, against
  docs/rust/application-services.md:205-206).
* `account_remote`. The receipt of a remote command cites no membership, the home's own
  reducers refuse it, the error ends the pass, and the command and those behind it stay queued
  (`remote_canonical.rs:258`, against docs/rust/application-services.md:257-265). As the project component repairs before it
  starts, a home with such a request does not start it either.

The models and the reading for them show more. These limit what the passing runs assume or
state, and have no run of their own.

Relays:

* A positive OK that follows a refusal of the same attempt is not recorded and ends the
  worker (`hq-store/database/relay.rs:432`; docs/protocol/relay-sync-v1.md:86 calls it
  absorbing).
* A copy of an unopenable wrapper staged because the buffer was full, while another copy is
  quarantined, collides with the quarantine row on every retry; each session ends there
  before it reads a frame (`session.rs:459`, `database/relay.rs:701`; docs/protocol/relay-sync-v1.md:112-113
  calls overlap, duplicates and restarts harmless).
* One intent without a route starves the intents behind it (`session.rs:493`), and after a
  failure in a pass of several pages earlier intents wait with no deadline
  (`session.rs:489`). `RoutedIntentsSettle` assumes routes, and its run one page.
* After the wall clock is stepped back a due retry conflicts and ends the session
  (`session.rs:507`); `PublishNeverConflicts` is checked with a monotonic clock.
* A wrapper published more than the overlap after it was sealed is below the floor of a scan
  that completed in between (`session.rs:738`); `CoverageIsTrue` is checked with a
  `PublishLag` within the overlap.
* The owner of staging is not told of rows that other sessions stage (`session.rs:445`).

Harness:

* A launch during the drain of a stopped worker with an expired lease opens a second process
  (`supervisor.rs:1623`, docs/harness-supervisor-v1.md:11); `NoTakeoverInForce` is about
  leases in force.
* Of two replays of one start one records rejected while the other's session is alive
  (`supervisor.rs:2188`, against the comment at `supervisor.rs:153`).
* An uncertain start is settled by whichever worker of the provider is in the map
  (`supervisor.rs:798`), a second stop concludes stopped while the first is still draining
  (`supervisor.rs:775`), and an error after the session is open leaves the lease claimed
  until it expires (`supervisor.rs:1056`).

Projects:

* A crash between clearing the pending mutation and persisting Completed makes the next
  advance report Rejected although the command was carried out
  (docs/rust/application-services.md:195-198).
* A forced close or the identification of a resource whose answer differs after a crash
  conflicts with the stored row for as long as it differs; `EveryCommandSettles` excepts
  both.
* A recovery episode keeps the id of the saga that opened it: later dispatches of the same
  input fail with Conflict, and a cancelled episode leaves a live saga queued. `Waits`
  names these states.
* A RecordDispatch refused at a moved head lets a second agent accept the input again
  (docs/projects.md:325-332); `RecordedMeansAccepted` claims no more than one acceptance at
  least.
* A compensation refused while the human is inactive is answered from its receipt until the
  head moves (`Waits`).
* The supervisor's stop fails when it has no worker of the agent (`supervisor.rs:1627`), which
  is so after every restart of the node and after a worker ended. A close, handoff, retirement
  or compensation that then comes to its stop fails there on every repair (`workflow.rs:1888`),
  a forced close too (docs/projects.md:254 says it "may proceed when the external runtime
  cannot be proven stopped"), until a worker of the agent is there again. `RuntimeGone` names
  these states, and `RuntimeKept` the start that finds a worker left by an interrupted one.

Local API:

* An error answer to the interactions query leaves `interactions_refresh_in_flight` set, and
  the connection gets no further prompts (`Deaf`, `client.rs:1421-1499`).
* `apply_action` takes a queued reconnection and then returns ConnectionAttemptsExhausted or
  the deadline: the client stays Connecting with nothing scheduled (`client.rs:2269`). A
  Write popped when the deadline has passed is lost in the same way, which
  `ObserverCatchesUp` excepts (`expired`), and a queued Write of an old generation fails the
  call with ProtocolOrder.
* `snapshot()` does not submit its request again after a lost connection, and waits out its
  deadline. A retirement with an indefinite answer drops its identity;
  `EffectsAreRemembered` leaves it out.
* A project command repeated while its first answer is on its way is answered twice; the
  second answer finds no request, fails the call it arrives in with ProtocolOrder and leaves
  `response_pending` set (`client.rs:1313-1315`). `EveryFrameFits` excepts that frame
  (`Repeated`).
* A session with two subscriptions would strand the notice of the second; the installed
  clients register one.

Accounts and reduction:

* After a revoke a new invitation leaves the device shown as revoked, so `human revoke`
  returns success and authors nothing, and the device can join with the second grant
  (`cli.rs:7205`, docs/protocol/human-pairing-v1.md:37-38). A revoke planned before the new
  invitation and resubmitted after it is likewise found present already.
  `RevokeBarsAll` is about revokes that were stored.
* A device with two active grants is conflicted and `human revoke` refuses it; a repeated
  invitation after a second grant authors a third (docs/protocol/local-api-v1.md:233).
* An action projected before a revoke may become unauthorized by it, because the revoke
  cites the membership frontier only (docs/events.md:215-216).
* Facts are queued when they are ingested and never later: a device that joins does not get
  the earlier facts of the account (docs/projects.md:535-537).
* `decode_reason` (`hq-store/src/snapshot.rs:608`) accepts 2_101 to 2_108, and
  `conversation_reason_code` also encodes 2_109.

## 6. Not modelled

`PROJECT.json` gives a status and a reason for every component.

* Codecs, cryptography, DTO conversions, the terminal interface and argument parsing have no
  protocol state; a model would restate them. They are most of the repository's lines.
* Node lifecycle and coordination depend on file locks, process liveness and the socket
  file, which the code observes through the operating system only.
* Harness events and interactions, agent cancellation and supervisor shutdown are a second
  protocol over the workers mutex; of it `HarnessSession` has the renewal and the loss of a
  worker.
* The Codex adapter is used by its contract. Its correlation of requests depends on the
  provider's own protocol.
* Relay authentication: a connection that is refused is a failed connection.
* The store actor's mailbox, receipts and projection tables: the modules take from it that a
  request is one transaction and that observers are told after the commit.
* Creating a project and provisioning a worktree: file-system effects with checkpoints of
  their own. Requests of remote devices on existing projects. What follows the receipt of a
  remote command is modelled and never happens, as no receipt is admitted.
* Mailbox grants, peers, agents' names, conversations and conflicts between homes in the
  reducers; identity collisions and the incremental reduction.
* `internal/`, `cmd/` and `e2e/` are a frozen earlier implementation, kept as design history.
