------------------------------ MODULE LocalNode -----------------------------
(***************************************************************************)
(* The node's end of the local API: per connection a read and a write task *)
(* (hq-node session_io.rs), a registry that owns the sessions and hands    *)
(* requests to worker threads (session_registry.rs), the pump that drives  *)
(* it and delivers revision notices (session_pump.rs), the server session  *)
(* (hq-local-api server.rs), the RevisionHub, and the store with its       *)
(* post-commit revision watch (hq-store actor.rs).                         *)
(*                                                                         *)
(* The pump's select is biased, but what it polls changes between two      *)
(* polls: every ready branch is taken to be possible.                      *)
(***************************************************************************)
EXTENDS LocalClient, LocalSocket, RevisionHub

CONSTANTS WriteCapacity, EventCapacity, SessionCapacity, HubCapacity

VARIABLES slot,   \* the session of each connection
          events, \* the registry's one event channel
          pump,   \* "select", or "flush" once the wakes are observed
          hub,
          store   \* revision, revision seen by the pump, changes of the list of
                  \* pending interactions (prompts), effects of the commands

serving == <<slot, events, pump, hub, store>>

NoTask == [op |-> "none"]
Cleanup == [op |-> "cleanup", done |-> FALSE]

(* home: where the ServerSession is; ticket: the AfterWrite of the response *)
(* not yet confirmed; turn: the read task may pass a message on; wrote: a   *)
(* response is written and its Written event is not sent yet.               *)
NoSlot ==
    [life |-> "none", home |-> "none", negotiated |-> FALSE, ticket |-> "none",
     registered |-> FALSE, responder |-> "none", queue |-> << >>, turn |-> TRUE,
     wrote |-> FALSE, close |-> FALSE, io |-> "none", task |-> NoTask]

(* The store begins with the facts of its installation, so at revision 1.  *)
NodeInit ==
    /\ slot = [g \in Generations |-> NoSlot]
    /\ events = << >> /\ pump = "select" /\ hub = EmptyHub
    /\ store = [revision |-> 1, seen |-> 1, prompts |-> 0, executed |-> [c \in Commands |-> 0]]

-----------------------------------------------------------------------------
(* The tasks of a connection.                                              *)

Room == Len(events) < EventCapacity
Running(g) == up /\ slot[g].io = "running"
Event(kind, g) == [kind |-> kind, session |-> g]

(* read_loop: a decoded message waits for the turn of its session.         *)
read_loop(g) ==
    /\ Running(g) /\ ~slot[g].close /\ slot[g].turn /\ wire[g].up # << >> /\ Room
    /\ events' = Append(events, [kind |-> "Message", session |-> g, frame |-> Head(wire[g].up)])
    /\ wire' = [wire EXCEPT ![g].up = Tail(@)]
    /\ slot' = [slot EXCEPT ![g].turn = FALSE]
    /\ UNCHANGED <<up, left, pump, hub, store>>

(* Mutant: the turn is given back with the frame, before Written is sent.  *)
turn_with_frame(g) ==
    /\ Running(g) /\ ~slot[g].close /\ ~slot[g].wrote
    /\ slot[g].queue # << >> /\ wire[g].client /\ Len(wire[g].down) < SocketCapacity
    /\ LET q == Head(slot[g].queue)
       IN /\ wire' = [wire EXCEPT ![g].down = Append(@, q.message)]
          /\ slot' = [slot EXCEPT ![g].queue = Tail(@), ![g].wrote = q.ticket,
                                  ![g].turn = @ \/ q.ticket]
    /\ UNCHANGED <<up, left, events, pump, hub, store>>

(* write_loop, first half: the next frame is written.                      *)
write_frame(g) ==
    /\ Running(g) /\ ~slot[g].close /\ ~slot[g].wrote
    /\ slot[g].queue # << >> /\ wire[g].client /\ Len(wire[g].down) < SocketCapacity
    /\ LET q == Head(slot[g].queue)
       IN /\ wire' = [wire EXCEPT ![g].down = Append(@, q.message)]
          /\ slot' = [slot EXCEPT ![g].queue = Tail(@), ![g].wrote = q.ticket]
    /\ UNCHANGED <<up, left, events, pump, hub, store>>

(* write_loop, second half: Written goes out before the turn is returned.  *)
publish_written(g) ==
    /\ Running(g) /\ ~slot[g].close /\ slot[g].wrote /\ Room
    /\ events' = Append(events, Event("Written", g))
    /\ slot' = [slot EXCEPT ![g].wrote = FALSE, ![g].turn = TRUE]
    /\ UNCHANGED <<wire, up, left, pump, hub, store>>

(* drive_session ends when the registry asks, when the peer has closed and *)
(* all it sent is passed on, or when a write finds the peer gone.          *)
end_io(g) ==
    /\ Running(g)
    /\ \/ slot[g].close
       \/ ~wire[g].client /\ (wire[g].up = << >> \/ slot[g].queue # << >>)
    /\ slot' = [slot EXCEPT ![g].io = "ended", ![g].queue = << >>, ![g].wrote = FALSE]
    /\ wire' = [wire EXCEPT ![g].server = FALSE, ![g].up = << >>]
    /\ UNCHANGED <<up, left, events, pump, hub, store>>

report_closed(g) ==
    /\ up /\ slot[g].io = "ended" /\ Room
    /\ events' = Append(events, Event("Closed", g))
    /\ slot' = [slot EXCEPT ![g].io = "reported"]
    /\ UNCHANGED <<shared, pump, hub, store>>

-----------------------------------------------------------------------------
(* The registry.                                                           *)

(* begin_close: the session, unless a worker has it, is disconnected on a  *)
(* worker (disconnect_session).                                            *)
begin_close(s) ==
    LET closing == [s EXCEPT !.life = "closing", !.close = TRUE]
    IN IF s.home = "slot" THEN [closing EXCEPT !.home = "task", !.task = Cleanup] ELSE closing

(* try_send, with begin_close on failure: a full or a closed queue.        *)
try_send(s, message, ticket) ==
    IF Len(s.queue) < WriteCapacity /\ s.io = "running"
    THEN [s EXCEPT !.queue = Append(@, [message |-> message, ticket |-> ticket])]
    ELSE begin_close(s)

respond(s, message, after) == try_send([s EXCEPT !.ticket = after], message, TRUE)

Owned(g) == slot[g].life \in {"open", "closing"} \/ slot[g].task # NoTask

(* admit: a refused connection is closed.                                  *)
admit(g) ==
    /\ up /\ pump = "select" /\ wire[g].backlog
    /\ IF Cardinality({h \in Generations : Owned(h)}) < SessionCapacity
       THEN /\ slot' = [slot EXCEPT ![g] = [NoSlot EXCEPT !.life = "open", !.home = "slot",
                                                          !.io = "running"]]
            /\ wire' = [wire EXCEPT ![g].backlog = FALSE]
       ELSE /\ slot' = slot
            /\ wire' = [wire EXCEPT ![g].backlog = FALSE, ![g].server = FALSE, ![g].up = << >>]
    /\ UNCHANGED <<up, left, events, pump, hub, store>>

Hello(g) == [type |-> "ServerHello", session |-> g]

(* dispatch_message: the hello is answered in place, every modelled        *)
(* request goes to a worker together with its session.                     *)
dispatch_message(g, frame) ==
    LET s == slot[g]
    IN IF s.life # "open" THEN s
       ELSE IF s.home # "slot" \/ s.ticket # "none" \/ (s.negotiated <=> frame.op = "Hello")
       THEN begin_close(s)
       ELSE IF frame.op = "Hello" THEN respond([s EXCEPT !.negotiated = TRUE], Hello(g), "Plain")
       ELSE [s EXCEPT !.home = "task",
                      !.task = [op |-> "request", frame |-> frame, stage |-> "start"]]

(* confirm_written: what a response promised becomes true after its write. *)
confirm_written(g) ==
    LET s == slot[g]
    IN IF s.life # "open" THEN s
       ELSE IF s.home # "slot" \/ s.ticket = "none" THEN begin_close(s)
       ELSE [s EXCEPT !.ticket = "none",
                      !.responder = IF s.ticket = "ActivateResponder" THEN "active" ELSE @]

Activates(g) ==
    /\ slot[g].life = "open" /\ slot[g].home = "slot" /\ slot[g].ticket = "Activate"

(* Mutant: the wakes are observed and the notices left for later.          *)
wakes_dropped(h) == hub' = observe_current(h) /\ pump' = "select"

(* Every dispatch of the pump is followed by flush_ready_invalidations:    *)
(* the wakes are observed now, the notices are sent by flush_invalidations.*)
Dispatched(h) == hub' = observe_current(h) /\ pump' = "flush"

dispatch_event ==
    /\ up /\ pump = "select" /\ events # << >>
    /\ LET e == Head(events)
           g == e.session
       IN /\ events' = Tail(events)
          /\ \/ /\ e.kind = "Message"
                /\ slot' = [slot EXCEPT ![g] = dispatch_message(g, e.frame)]
                /\ Dispatched(hub)
             \/ /\ e.kind = "Written"
                /\ slot' = [slot EXCEPT ![g] = confirm_written(g)]
                /\ Dispatched(IF Activates(g) THEN activate_subscription(hub, g) ELSE hub)
             \/ /\ e.kind = "Closed"
                /\ slot' = [slot EXCEPT ![g] = IF @.life = "gone" THEN @ ELSE begin_close(@)]
                /\ Dispatched(hub)
    /\ UNCHANGED <<shared, store>>

(* dispatch_request_join: a cleanup is over, or a session comes back with  *)
(* its response, to a slot that may have been closed meanwhile.            *)
dispatch_request_join(g) ==
    /\ up /\ pump = "select"
    /\ LET s == slot[g]
       IN \/ /\ s.task.op = "cleanup" /\ s.task.done
             /\ slot' = [slot EXCEPT ![g].task = NoTask, ![g].home = "none",
                                     ![g].negotiated = FALSE, ![g].turn = TRUE]
          \/ /\ s.task.op = "request" /\ s.task.stage = "done"
             /\ slot' = [slot EXCEPT ![g] =
                  IF s.life # "open" THEN [s EXCEPT !.task = Cleanup]
                  ELSE respond([s EXCEPT !.home = "slot", !.task = NoTask],
                               s.task.reply, s.task.after)]
    /\ Dispatched(hub)
    /\ UNCHANGED <<shared, events, store>>

(* dispatch_join: the connection's tasks have ended (remove_session).      *)
dispatch_join(g) ==
    /\ up /\ pump = "select" /\ slot[g].io = "reported"
    /\ slot' = [slot EXCEPT ![g] = [begin_close(@) EXCEPT !.life = "gone", !.io = "joined"]]
    /\ Dispatched(hub)
    /\ UNCHANGED <<shared, events, store>>

(* Mutant: a notice is also sent to a session whose request is running.    *)
polls_any(g) == slot[g].life = "open" /\ slot[g].negotiated /\ Takes(hub, g)

(* poll_invalidation: a closing session, and one a worker has, is skipped. *)
polls(g) == slot[g].life = "open" /\ slot[g].home = "slot" /\ slot[g].negotiated /\ Takes(hub, g)

(* flush_invalidations: a full write queue closes the session.             *)
flush_invalidations ==
    /\ up /\ pump = "flush" /\ pump' = "select"
    /\ slot' = [g \in Generations |->
         IF ~polls(g) THEN slot[g]
         ELSE try_send(slot[g], [type |-> "Invalidation", revision |-> hub.regs[g].notice], FALSE)]
    /\ hub' = [hub EXCEPT !.regs = [g \in DOMAIN @ |->
                 IF polls(g) THEN take(hub.regs[g]) ELSE hub.regs[g]]]
    /\ UNCHANGED <<shared, events, store>>

(* publish_store_invalidation: the watch holds the latest revision only.   *)
store_ready ==
    /\ up /\ pump = "select" /\ store.seen < store.revision
    /\ store' = [store EXCEPT !.seen = store.revision]
    /\ Dispatched(publish(hub, store.revision))
    /\ UNCHANGED <<shared, slot, events>>

(* flush_subscription_invalidations.                                       *)
wake_ready ==
    /\ up /\ pump = "select" /\ hub.woken
    /\ Dispatched(hub)
    /\ UNCHANGED <<shared, slot, events, store>>

-----------------------------------------------------------------------------
(* The workers.                                                            *)

Executing(g, ops) ==
    /\ up /\ slot[g].task.op = "request"
    /\ slot[g].task.stage = "start" /\ slot[g].task.frame.op \in ops

Response(g, outcome, view) ==
    [type |-> "Response", id |-> slot[g].task.frame.id, outcome |-> outcome,
     of |-> [op |-> slot[g].task.frame.op, arg |-> slot[g].task.frame.arg], view |-> view,
     interactions |-> IF slot[g].task.frame.op = "Interactions" THEN store.prompts ELSE 0]

NoView == [revision |-> NoRevision, selection |-> NoSelection]

(* The worker's task ends with a reply and what its write will confirm.    *)
Finished(s, reply, after) ==
    [s EXCEPT !.task = [op |-> "request", stage |-> "done", reply |-> reply, after |-> after]]

Answer(g, outcome, view) ==
    slot' = [slot EXCEPT ![g] = Finished(@, Response(g, outcome, view), "Plain")]

Fault == Spend("faults")

View(g) == [revision |-> store.revision, selection |-> slot[g].task.frame.arg]

(* handle_request, Subscribe: the registration first, then (read_first_view) *)
(* the view it starts from; a failed view cancels the registration.          *)
subscribe(g) ==
    /\ Executing(g, {"Subscribe"})
    /\ IF CanRegister(hub, g, HubCapacity)
       THEN /\ hub' = register_subscription(hub, g)
            /\ slot' = [slot EXCEPT ![g].task.stage = "registered"]
       ELSE hub' = hub /\ Answer(g, "Error", NoView)
    /\ UNCHANGED <<shared, events, pump, store>>

read_first_view(g) ==
    /\ up /\ slot[g].task.op = "request" /\ slot[g].task.stage = "registered"
    /\ \/ /\ slot' = [slot EXCEPT ![g] = [Finished(@, Response(g, "Definite", View(g)), "Activate")
                                          EXCEPT !.registered = TRUE]]
          /\ UNCHANGED <<hub, left>>
       \/ Fault /\ hub' = cancel_subscription(hub, g) /\ Answer(g, "Error", NoView)
    /\ UNCHANGED <<wire, up, events, pump, store>>

(* The requests that read: a view, a snapshot, the pending interactions.   *)
read_state(g) ==
    /\ Executing(g, {"View", "Snapshot", "Interactions"})
    /\ \/ /\ Answer(g, "Definite", IF slot[g].task.frame.op = "Interactions" THEN NoView ELSE View(g))
          /\ UNCHANGED left
       \/ Fault /\ Answer(g, "Error", NoView)
    /\ UNCHANGED <<wire, up, events, pump, hub, store>>

(* prepare_interaction_responder: a lease that its write will activate.    *)
register_responder(g) ==
    /\ Executing(g, {"Responder"})
    /\ slot' = [slot EXCEPT ![g] = [Finished(@, Response(g, "Definite", NoView), "ActivateResponder")
                                       EXCEPT !.responder = "pending"]]
    /\ UNCHANGED <<shared, events, pump, hub, store>>

Executed(command) ==
    store' = [store EXCEPT !.executed[command] = @ + 1, !.revision = @ + 1]

(* A retryable command leaves a receipt, saga or operation row of its own  *)
(* identity; an ordinary request leaves nothing.                           *)
executes(command) == Kind[command] \notin Retryable \/ store.executed[command] = 0

(* The commands.  An indefinite answer (Uncertain, or a project that is    *)
(* not at its end) says nothing about the effect.                          *)
execute(g) ==
    /\ Executing(g, {"Command", "Ordinary"})
    /\ LET command == slot[g].task.frame.arg
           effect == IF executes(command) THEN Executed(command) ELSE store' = store
       IN \/ effect /\ Answer(g, "Definite", NoView) /\ UNCHANGED left
          \/ Fault /\ store' = store /\ Answer(g, "Error", NoView)
          \/ /\ Fault /\ Kind[command] \in Retryable
             /\ effect \/ store' = store
             /\ Answer(g, "Pending", NoView)
    /\ UNCHANGED <<wire, up, events, pump, hub>>

(* Mutant: a closed session keeps its registration.                        *)
keeps_registration(g) == hub

(* ServerSession::disconnect: registrations are cancelled; an active       *)
(* responder's lease announces that it is gone when it is dropped.         *)
disconnect(g) ==
    LET cancelled == IF slot[g].registered THEN cancel_subscription(hub, g) ELSE hub
    IN IF slot[g].responder = "active" THEN publish(cancelled, store.revision) ELSE cancelled

clean_up(g) ==
    /\ up /\ slot[g].task.op = "cleanup" /\ ~slot[g].task.done
    /\ hub' = disconnect(g)
    /\ slot' = [slot EXCEPT ![g].task.done = TRUE, ![g].registered = FALSE,
                            ![g].responder = "none", ![g].ticket = "none"]
    /\ UNCHANGED <<shared, events, pump, store>>

-----------------------------------------------------------------------------
(* What happens elsewhere in the node, and to it.                          *)

(* Another client, or the relay, commits; the watch is set before anyone   *)
(* is answered.                                                            *)
Commit ==
    /\ up /\ Spend("commits")
    /\ store' = [store EXCEPT !.revision = @ + 1]
    /\ UNCHANGED <<wire, up, slot, events, pump, hub>>

(* publish_interaction_invalidation: a provider asks something, which      *)
(* commits nothing and is announced at the present revision.               *)
Prompt ==
    /\ up /\ Spend("prompts")
    /\ store' = [store EXCEPT !.prompts = @ + 1]
    /\ hub' = publish(hub, store.revision)
    /\ UNCHANGED <<wire, up, slot, events, pump>>

(* The node dies; its sockets close, and only the store remains: the list  *)
(* of pending interactions is lost, which changes it once more.            *)
Crash ==
    /\ up /\ up' = FALSE /\ Fault
    /\ wire' = [g \in Generations |->
                  [wire[g] EXCEPT !.server = FALSE, !.up = << >>, !.backlog = FALSE]]
    /\ slot' = [g \in Generations |-> IF slot[g].life = "none" THEN NoSlot
                                        ELSE [NoSlot EXCEPT !.life = "gone", !.io = "joined"]]
    /\ events' = << >> /\ pump' = "select" /\ hub' = EmptyHub
    /\ store' = [store EXCEPT !.seen = store.revision, !.prompts = IF @ = 0 THEN 0 ELSE @ + 1]

Restart ==
    /\ ~up /\ up' = TRUE
    /\ UNCHANGED <<wire, left, serving>>

Pump ==
    \/ dispatch_event \/ flush_invalidations \/ store_ready \/ wake_ready
    \/ \E g \in Generations : admit(g) \/ dispatch_request_join(g) \/ dispatch_join(g)

Tasks(g) ==
    \/ read_loop(g) \/ write_frame(g) \/ publish_written(g) \/ end_io(g) \/ report_closed(g)

Worker(g) ==
    \/ subscribe(g) \/ read_first_view(g) \/ read_state(g) \/ register_responder(g)
    \/ execute(g) \/ clean_up(g)
=============================================================================
