----------------------------- MODULE LocalClient ----------------------------
(***************************************************************************)
(* The reconnecting client every local frontend uses (hq-local-api         *)
(* client.rs, ReconnectingClient): a pure state machine whose operations   *)
(* return the new client, the transport actions to queue, and whether the  *)
(* call failed with ProtocolOrder.                                         *)
(*                                                                         *)
(* A retryable command keeps its request id, and so its frame, until it is *)
(* answered; the digest that goes with it is fixed by the command.  Both   *)
(* ends speak exactly one protocol version, so negotiation never ends in   *)
(* Incompatible.  Backoff delays are left out.                             *)
(***************************************************************************)
EXTENDS Naturals, Sequences, FiniteSets, Functions

CONSTANTS Commands,          \* what frontends ask for
          Kind,              \* Commands -> Kinds
          Selections,        \* conversation selections, NoSelection among them
          NoSelection,
          CompletedCapacity  \* completed_capacity

Retryable == {"Mutation", "Project", "Retirement", "Session"}
Kinds == Retryable \cup {"Ordinary", "Snapshot"}

(* The requests that carry the view or the pending interactions.           *)
Refreshes == {"Subscribe", "View", "Snapshot"}

ASSUME ClientAssumption == Kind \in [Commands -> Kinds] /\ NoSelection \in Selections

NoRevision == 0

Write(c, id, op, arg) ==
    [act |-> "Write", generation |-> c.generation, frame |-> [id |-> id, op |-> op, arg |-> arg]]
Connect(c) == [act |-> "Connect", generation |-> c.generation]
Close(g) == [act |-> "Close", generation |-> g]

(* A transition: the client, the actions to queue, and the error.          *)
Moves(c, actions) == [client |-> c, actions |-> actions, failed |-> FALSE]
Stays(c) == Moves(c, << >>)
ProtocolOrder(c) == [client |-> c, actions |-> << >>, failed |-> TRUE]

(* Runs the transition after the actions already collected.                *)
Then(t, actions) == [t EXCEPT !.actions = actions \o @]

NewClient(subscribed) ==
    [subscribed |-> subscribed, phase |-> "Idle", generation |-> 0, next_request |-> 1,
     pending |-> [c \in Commands |-> 0], completed |-> << >>, requests |-> {},
     desired |-> NoSelection, subscription |-> 0, revision |-> NoRevision, newest |-> 0,
     current |-> FALSE, refreshing |-> FALSE, interacting |-> FALSE,
     shown |-> [revision |-> NoRevision, selection |-> NoSelection],
     interactions |-> 0, told |-> [c \in Commands |-> "none"], answered |-> {}]

active(c) == c.phase = "Active"

-----------------------------------------------------------------------------
(* Sending.                                                                *)

(* allocate_request_id and the entry in pending_requests.                  *)
Ask(c, kind, selection) ==
    [c EXCEPT !.next_request = @ + 1,
              !.requests = @ \cup {[id |-> c.next_request, kind |-> kind, selection |-> selection]}]

begin_view_refresh(c) ==
    Moves([Ask(c, "View", c.desired) EXCEPT !.refreshing = TRUE],
          <<Write(c, c.next_request, "View", c.desired)>>)

begin_snapshot_refresh(c) ==
    Moves([Ask(c, "Snapshot", NoSelection) EXCEPT !.refreshing = TRUE],
          <<Write(c, c.next_request, "Snapshot", NoSelection)>>)

begin_refresh(c) ==
    IF c.subscribed /\ c.subscription # 0 THEN begin_view_refresh(c) ELSE begin_snapshot_refresh(c)

begin_interactions_refresh(c) ==
    Moves([Ask(c, "Interactions", NoSelection) EXCEPT !.interacting = TRUE],
          <<Write(c, c.next_request, "Interactions", NoSelection)>>)

(* update_subscription_conversation.                                       *)
update_subscription_conversation(c, selection) ==
    LET moved == [c EXCEPT !.desired = selection, !.current = FALSE]
    IN IF ~active(c) \/ c.subscription = 0 \/ c.refreshing THEN Stays(moved)
       ELSE begin_view_refresh(moved)

retryable_identity_exists(c, command) ==
    c.pending[command] # 0 \/ \E i \in DOMAIN c.completed : c.completed[i] = command

(* Mutant: the request id of a command is not used up.                     *)
id_not_taken(c, command) ==
    IF retryable_identity_exists(c, command) THEN Stays(c)
    ELSE Moves([c EXCEPT !.pending[command] = c.next_request],
               IF active(c) THEN <<Write(c, c.next_request, "Command", command)>> ELSE << >>)

(* submit_mutation, submit_mailbox_command, submit_project_command,        *)
(* submit_agent_retirement and submit_agent_session.                       *)
submit_command(c, command) ==
    IF retryable_identity_exists(c, command) THEN Stays(c)
    ELSE Moves([c EXCEPT !.next_request = @ + 1, !.pending[command] = c.next_request,
                         !.answered = @ \ {command}],
               IF active(c) THEN <<Write(c, c.next_request, "Command", command)>> ELSE << >>)

continue_project_command(c, command) ==
    Moves(c, IF active(c) THEN <<Write(c, c.pending[command], "Command", command)>> ELSE << >>)

submit_request(c, command) ==
    Moves([c EXCEPT !.next_request = @ + 1,
             !.requests = @ \cup {[id |-> c.next_request, kind |-> "Ordinary", selection |-> command]}],
          <<Write(c, c.next_request, "Ordinary", command)>>)

refresh_snapshot(c) ==
    IF c.refreshing THEN Stays(c) ELSE begin_refresh([c EXCEPT !.current = FALSE])

-----------------------------------------------------------------------------
(* Connecting.                                                             *)

schedule_connection(c) ==
    LET next == [c EXCEPT !.phase = "Connecting", !.generation = @ + 1]
    IN Moves(next, <<Connect(next)>>)

Forget(c) ==
    [c EXCEPT !.requests = {}, !.subscription = 0, !.revision = NoRevision, !.newest = 0,
              !.current = FALSE, !.refreshing = FALSE, !.interacting = FALSE]

(* Mutant: the unanswered commands are given up with the connection.       *)
commands_given_up(c) ==
    schedule_connection([Forget(c) EXCEPT !.pending = [x \in Commands |-> 0]])

(* prepare_reconnect: ordinary requests are reported lost, never repeated. *)
prepare_reconnect(c) ==
    LET lost == {r.selection : r \in {q \in c.requests : q.kind = "Ordinary"}}
    IN schedule_connection([Forget(c) EXCEPT
          !.told = [x \in Commands |-> IF x \in lost THEN "Lost" ELSE @[x]]])

connected(c, g) ==
    IF c.phase # "Connecting" \/ c.generation # g THEN Stays(c)
    ELSE LET next == [c EXCEPT !.phase = "Negotiating"]
         IN Moves(next, <<Write(next, 0, "Hello", NoSelection)>>)

(* connection_failed and disconnected.                                     *)
disconnected(c, g) == IF c.generation # g THEN Stays(c) ELSE prepare_reconnect(c)

(* The frames of the commands still unanswered, in some order.             *)
Replays(c) ==
    LET commands == {x \in Commands : c.pending[x] # 0}
        order == CHOOSE s \in Bijection(1..Cardinality(commands), commands) : TRUE
    IN [i \in DOMAIN order |-> Write(c, c.pending[order[i]], "Command", order[i])]

(* handle_negotiation: the responder first, then the subscription with its *)
(* first view, then the exact frame of every unanswered command.           *)
handle_negotiation(c, session) ==
    LET fresh == [Forget(c) EXCEPT !.phase = "Active"]
        asked == [Ask(Ask(fresh, "Responder", NoSelection), "Subscribe", c.desired)
                    EXCEPT !.subscription = session, !.refreshing = TRUE]
        replays == Replays(fresh)
    IN IF c.subscribed
       THEN Moves(asked, <<Write(fresh, c.next_request, "Responder", NoSelection),
                           Write(fresh, c.next_request + 1, "Subscribe", c.desired)>> \o replays)
       ELSE Moves(fresh, replays)

-----------------------------------------------------------------------------
(* Receiving.                                                              *)

(* A snapshot is an event of its own, for whichever call waits for one.    *)
snapshot_event(c) ==
    [c EXCEPT !.told = [x \in Commands |-> IF Kind[x] = "Snapshot" THEN "Definite" ELSE @[x]]]

(* accept_snapshot and accept_authoritative_conversation_view.             *)
accept_view(c, view) ==
    LET shown == [c EXCEPT !.revision = view.revision, !.shown = view,
                           !.current = c.newest <= view.revision]
    IN IF c.newest > view.revision THEN begin_refresh(shown) ELSE Stays(shown)

(* Mutant: a view for an old selection is dropped, and not asked for anew. *)
old_view_dropped(c, request, view) ==
    LET landed == [c EXCEPT !.refreshing = FALSE]
    IN IF request.kind # "Snapshot" /\ request.selection # c.desired
       THEN Stays([landed EXCEPT !.revision = view.revision, !.current = FALSE])
       ELSE accept_view(IF request.kind = "Snapshot" THEN snapshot_event(landed) ELSE landed, view)

(* A view for a selection that is no longer wanted is not published.       *)
view_arrived(c, request, view) ==
    LET landed == [c EXCEPT !.refreshing = FALSE]
    IN IF request.kind # "Snapshot" /\ request.selection # c.desired
       THEN begin_view_refresh([landed EXCEPT !.revision = view.revision, !.current = FALSE])
       ELSE accept_view(IF request.kind = "Snapshot" THEN snapshot_event(landed) ELSE landed, view)

(* handle_active on an invalidation of the client's own subscription.      *)
invalidated(c, revision) ==
    LET noted == [c EXCEPT !.newest = IF @ > revision THEN @ ELSE revision]
        ask   == IF c.interacting THEN Stays(noted) ELSE begin_interactions_refresh(noted)
        stale == [ask.client EXCEPT !.current = FALSE]
    IN IF c.revision = NoRevision \/ revision <= c.revision THEN ask
       ELSE IF c.refreshing THEN Moves(stale, ask.actions)
       ELSE Then(begin_refresh(stale), ask.actions)

(* ... and the command leaves a conclusive event behind (answered is the   *)
(* history of those, until a command is submitted anew).                   *)
remember_completed(c, command) ==
    LET order == Append(c.completed, command)
    IN [c EXCEPT !.pending[command] = 0, !.answered = @ \cup {command},
                 !.completed = IF Len(order) > CompletedCapacity THEN Tail(order) ELSE order]

(* The reconnection after an uncertain answer, behind the queued Close.    *)
close_and_reconnect(c) == Then(prepare_reconnect(c), <<Close(c.generation)>>)

(* The definite or indefinite answer to a retryable command.               *)
command_answered(c, command, outcome) ==
    LET told == [c EXCEPT !.told[command] = outcome]
        kind == Kind[command]
    IN IF outcome = "Definite" THEN Stays(remember_completed(told, command))
       ELSE IF kind = "Retirement" THEN Stays([told EXCEPT !.pending[command] = 0])
       ELSE IF kind = "Project" THEN Stays(told)
       ELSE close_and_reconnect(told)

(* handle_error_response: the error of a mutation settles its identity, a  *)
(* failed view means a new connection.                                     *)
command_failed(c, command) ==
    LET told == [c EXCEPT !.told[command] = "Error"]
    IN IF Kind[command] = "Mutation" THEN Stays(remember_completed(told, command))
       ELSE Stays([told EXCEPT !.pending[command] = 0, !.answered = @ \cup {command}])

request_failed(c, request) ==
    LET left == [c EXCEPT !.requests = @ \ {request}]
    IN CASE request.kind \in Refreshes -> close_and_reconnect(left)
         [] request.kind = "Ordinary" -> Stays([left EXCEPT !.told[request.selection] = "Error"])
         [] OTHER -> Stays(left)

request_answered(c, request, message) ==
    LET left == [c EXCEPT !.requests = @ \ {request}]
    IN CASE request.kind \in Refreshes -> view_arrived(left, request, message.view)
         [] request.kind = "Responder" ->
              IF left.interacting THEN Stays(left) ELSE begin_interactions_refresh(left)
         [] request.kind = "Interactions" ->
              Stays([left EXCEPT !.interacting = FALSE, !.interactions = message.interactions])
         [] request.kind = "Ordinary" -> Stays([left EXCEPT !.told[request.selection] = "Definite"])

(* handle_response: an answer is matched by its request id and its type; a *)
(* mutation's names its command, a view its selection.                     *)
handle_response(c, m) ==
    LET commands == {x \in Commands : c.pending[x] # 0 /\ c.pending[x] = m.id}
        requests == {r \in c.requests : r.id = m.id}
        typed    == {x \in commands : /\ m.of.op = "Command" /\ Kind[x] = Kind[m.of.arg]
                                      /\ Kind[x] = "Mutation" => x = m.of.arg}
        asked    == {r \in requests : /\ r.kind = m.of.op
                                      /\ r.kind \in {"Subscribe", "View"} =>
                                            r.selection = m.view.selection}
    IN CASE m.outcome = "Error" /\ commands # {} -> command_failed(c, CHOOSE x \in commands : TRUE)
         [] m.outcome = "Error" /\ commands = {} /\ requests # {} ->
              request_failed(c, CHOOSE r \in requests : TRUE)
         [] m.outcome # "Error" /\ typed # {} ->
              command_answered(c, CHOOSE x \in typed : TRUE, m.outcome)
         [] m.outcome # "Error" /\ typed = {} /\ asked # {} ->
              request_answered(c, CHOOSE r \in asked : TRUE, m)
         [] OTHER -> ProtocolOrder([c EXCEPT !.requests = @ \ requests])

(* Mutant: a frame of a connection already given up is taken.              *)
receive_any_frame(c, g, m) ==
    CASE c.phase = "Negotiating" /\ m.type = "ServerHello" -> handle_negotiation(c, m.session)
      [] c.phase = "Active" /\ m.type = "Response" -> handle_response(c, m)
      [] c.phase = "Active" /\ m.type = "Invalidation" -> invalidated(c, m.revision)
      [] OTHER -> ProtocolOrder(c)

(* receive_frame: frames of an earlier generation are ignored.             *)
receive_frame(c, g, m) ==
    IF c.generation # g THEN Stays(c)
    ELSE CASE c.phase = "Negotiating" /\ m.type = "ServerHello" -> handle_negotiation(c, m.session)
           [] c.phase = "Active" /\ m.type = "Response" -> handle_response(c, m)
           [] c.phase = "Active" /\ m.type = "Invalidation" -> invalidated(c, m.revision)
           [] OTHER -> ProtocolOrder(c)
=============================================================================
