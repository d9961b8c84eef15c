------------------------------ MODULE LocalApi ------------------------------
(***************************************************************************)
(* A local frontend and the node, composed over their sockets, and what    *)
(* the two promise together.                                               *)
(***************************************************************************)
EXTENDS LocalFrontend, LocalNode

vars == <<shared, frontend, serving>>

Init == SocketInit /\ FrontendInit /\ NodeInit

(* A step of the frontend's thread; a step of the node's pump, tasks or    *)
(* workers.                                                                *)
FrontendStep == Step /\ UNCHANGED serving
NodeStep == (Pump \/ Restart \/ \E g \in Generations : Tasks(g) \/ Worker(g)) /\ UNCHANGED frontend

Next ==
    \/ FrontendStep \/ NodeStep
    \/ Use /\ UNCHANGED serving
    \/ (Commit \/ Prompt \/ Crash) /\ UNCHANGED frontend

Spec == Init /\ [][Next]_vars

(* Neither the frontend nor the node stands still while it can step, and a *)
(* node that died is started again.  No step is favoured over another:     *)
(* every one of them uses something up.                                    *)
Fairness == WF_vars(FrontendStep) /\ WF_vars(NodeStep)

FairSpec == Spec /\ Fairness

-----------------------------------------------------------------------------
(* The turn of session_io.rs keeps its promise: when a message reaches the *)
(* registry, the write of the response before it has been confirmed and    *)
(* the session is back in its slot, so WritePending never ends a session.  *)
OneResponseAtATime ==
    events # << >> /\ Head(events).kind = "Message" /\ slot[Head(events).session].life = "open" =>
        LET s == slot[Head(events).session] IN s.home = "slot" /\ s.ticket = "none"

(* A notice that can be delivered is never left without a wake: the pump   *)
(* observes wakes and takes notices in two steps, with publishers, workers *)
(* and activations between them.                                           *)
NoStrandedNotice ==
    \A g \in Registered(hub) :
        polls(g) => hub.woken \/ pump = "flush"

(* Whether a notice that covers the revision is on its way to the client   *)
(* over its connection, or the connection is ending.                       *)
Coming(g, revision) ==
    \/ ~up \/ ~wire[g].server \/ slot[g].close
    \/ g \in Registered(hub) /\ hub.regs[g].notice >= revision
    \/ \E i \in DOMAIN slot[g].queue :
          LET m == slot[g].queue[i].message IN m.type = "Invalidation" /\ m.revision >= revision
    \/ \E i \in DOMAIN wire[g].down :
          LET m == wire[g].down[i] IN m.type = "Invalidation" /\ m.revision >= revision

(* view_is_current is honest: a client that takes its view for current     *)
(* while the store has moved on will hear of it on this connection.        *)
StaleViewHasNews ==
    client.subscribed /\ active(client) /\ client.current /\ client.shown.revision < store.revision =>
        store.seen < store.revision \/ Coming(runner.conn, store.revision)

(* A registration always has an owner that will cancel it: no closed       *)
(* connection leaves one behind to fill the hub.                           *)
RegistrationsAreOwned ==
    \A g \in Registered(hub) : slot[g].home # "none" /\ (slot[g].home = "slot" => slot[g].registered)

(* The answer to a project command that is already settled: what           *)
(* continue_project repeated while the first answer was on its way.        *)
Repeated(m) ==
    /\ m.type = "Response" /\ m.of.op = "Command"
    /\ Kind[m.of.arg] = "Project" /\ client.pending[m.of.arg] # m.id

(* No frame the node sends is out of order for the client that reads it    *)
(* (receive_frame never fails), on whatever connection, after whatever     *)
(* losses and with whatever a call before it left queued or unread; only   *)
(* the second answer to a repeated project command has no place.           *)
EveryFrameFits ==
    runner.conn # 0 /\ wire[runner.conn].down # << >> =>
        LET m == Head(wire[runner.conn].down)
        IN ~receive_frame(client, runner.conn, m).failed \/ Repeated(m)

(* An answer is credited to the command it belongs to, across replays on   *)
(* later connections: a command reported definite has taken effect.        *)
ToldIsTrue ==
    \A c \in Commands : Kind[c] # "Snapshot" /\ client.told[c] = "Definite" => store.executed[c] > 0

(* A retryable command that took effect is never forgotten before its      *)
(* client has had an answer: until then it stays to be repeated under its  *)
(* own identity.                                                           *)
EffectsAreRemembered ==
    \A c \in Commands :
        Kind[c] \in {"Mutation", "Project", "Session"} /\ store.executed[c] > 0 =>
            c \in client.answered \/ retryable_identity_exists(client, c)

(* The bound on connections stops the frontend: its last one has ended, or *)
(* the next frame would make it open another.                              *)
OutOfConnections ==
    LET g == runner.conn
    IN /\ g = MaxGenerations
       /\ \/ ~wire[g].server
          \/ /\ wire[g].down # << >>
             /\ receive_frame(client, g, Head(wire[g].down)).client.generation > g

(* An observer ends up with the store's last revision, unless a deadline   *)
(* passed inside apply_action and took a queued action with it.            *)
ObserverCatchesUp ==
    client.subscribed /\ client.shown.revision < store.revision ~>
        client.shown.revision = store.revision \/ runner.expired \/ OutOfConnections

(* The query for the interactions failed: it is not repeated on this       *)
(* connection, because interactions_refresh_in_flight stays set.           *)
Deaf == client.interacting /\ \A r \in client.requests : r.kind # "Interactions"

(* ... and with the last pending interactions.                             *)
PromptsAreSeen ==
    client.subscribed /\ client.interactions < store.prompts ~>
        client.interactions = store.prompts \/ Deaf \/ runner.expired \/ OutOfConnections
=============================================================================
