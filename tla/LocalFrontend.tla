---------------------------- MODULE LocalFrontend ---------------------------
(***************************************************************************)
(* The blocking runner around LocalClient (hq-local-api client.rs,         *)
(* BlockingClientRunner), as an observer or a command client drives it.    *)
(* An observer is subscribed and polls for ever; a command client steps    *)
(* only inside a call.                                                     *)
(***************************************************************************)
EXTENDS LocalClient, LocalSocket

VARIABLES client,  \* the ReconnectingClient
          runner   \* connection, queued actions, response_pending, attempts, the call

frontend == <<client, runner>>

Idle == "Idle"

Scenario ==
    [role : {"observer", "commander"}, commands : SUBSET Commands, attempts : Nat,
     calls : Nat, faults : Nat, expiries : Nat, commits : Nat, prompts : Nat]

ASSUME FrontendAssumption == Scenarios \subseteq Scenario /\ Idle \notin Commands

FrontendInit ==
    /\ client = NewClient(left.role = "observer")
    /\ runner = [conn |-> 0, actions |-> << >>, waiting |-> FALSE, attempts |-> 0,
                 call |-> Idle, sent |-> FALSE, expired |-> FALSE]

(* The runner after a transition: its actions are queued behind the others *)
(* (enqueue), and the call returns once the client has its event.          *)
Returns(c) ==
    /\ runner.call \in Commands /\ c.told[runner.call] # "none"
    /\ ~(Kind[runner.call] = "Mutation" /\ c.told[runner.call] = "Pending")

Enqueue(r, t) ==
    [r EXCEPT !.actions = @ \o t.actions,
              !.call = IF t.failed \/ Returns(t.client) THEN Idle ELSE @]

Take(r, t) == client' = t.client /\ runner' = Enqueue(r, t)

(* ensure_started.                                                         *)
Started(t) ==
    IF t.client.phase # "Idle" THEN t
    ELSE Then(schedule_connection(t.client), t.actions)

(* A command client is driven only inside a call; an observer polls again  *)
(* whatever the poll returned.                                             *)
Driven == client.subscribed \/ runner.call # Idle

(* mutation, project, agent_retirement, agent_session; request and         *)
(* snapshot first wait for a connection (Submit).                          *)
Call(command) ==
    /\ ~client.subscribed /\ runner.call = Idle
    /\ command \in left.commands /\ Spend("calls")
    /\ LET asking == [client EXCEPT !.told[command] = "none"]
           t == IF Kind[command] \in Retryable THEN submit_command(asking, command)
                ELSE Stays(asking)
       IN Take([runner EXCEPT !.call = command, !.attempts = 0,
                              !.sent = Kind[command] \in Retryable], Started(t))
    /\ UNCHANGED <<wire, up>>

(* continue_project, for a command whose outcome was not terminal.         *)
Continue(command) ==
    /\ ~client.subscribed /\ runner.call = Idle
    /\ Kind[command] = "Project" /\ client.pending[command] # 0
    /\ Spend("calls")
    /\ Take([runner EXCEPT !.call = command, !.attempts = 0, !.sent = TRUE],
            continue_project_command([client EXCEPT !.told[command] = "none"], command))
    /\ UNCHANGED <<wire, up>>

Submit ==
    /\ runner.call # Idle /\ ~runner.sent /\ active(client)
    /\ Take([runner EXCEPT !.sent = TRUE],
            IF Kind[runner.call] = "Snapshot" THEN refresh_snapshot(client)
            ELSE submit_request(client, runner.call))
    /\ UNCHANGED shared

(* The observer's first poll, and a new selection between two polls.       *)
Subscribe ==
    /\ client.subscribed /\ client.phase = "Idle"
    /\ Take(runner, Started(Stays(client)))
    /\ UNCHANGED shared

Select(selection) ==
    /\ client.subscribed /\ selection # client.desired
    /\ Spend("calls")
    /\ Take(runner, update_subscription_conversation(client, selection))
    /\ UNCHANGED <<wire, up>>

(* request and snapshot step only until the connection is active.          *)
Steps == Driven /\ (client.subscribed \/ runner.sent \/ ~active(client))

Queued == Steps /\ ~runner.waiting /\ runner.actions # << >>
Front == Head(runner.actions)
Popped == [runner EXCEPT !.actions = Tail(@)]
Fail(r) == client' = client /\ runner' = [r EXCEPT !.call = Idle]

(* apply_action, ConnectAfter.  The poll of an observer returns on every   *)
(* change of the connection state and starts its count of attempts anew.   *)
Attempt == IF client.subscribed THEN 0 ELSE runner.attempts + 1

ConnectAfter ==
    /\ Queued /\ Front.act = "Connect"
    /\ LET g == Front.generation
           r == [Popped EXCEPT !.attempts = Attempt]
       IN \/ Attempt > left.attempts /\ Fail(r) /\ UNCHANGED wire
          \/ /\ Attempt <= left.attempts /\ up
             /\ Take([r EXCEPT !.conn = g, !.waiting = FALSE], connected(client, g))
             /\ wire' = [wire EXCEPT ![g] = [NoWire EXCEPT !.client = TRUE, !.server = TRUE,
                                                           !.backlog = TRUE]]
          \/ /\ Attempt <= left.attempts /\ ~up /\ client.generation < MaxGenerations
             /\ Take(r, disconnected(client, g))
             /\ UNCHANGED wire
    /\ UNCHANGED <<up, left>>

CloseEnd(g) == [wire EXCEPT ![g].client = FALSE, ![g].down = << >>]

(* apply_action, Write: a frame queued for another connection is an error  *)
(* of the call; a peer that closed makes the write fail.                   *)
WriteAction ==
    /\ Queued /\ Front.act = "Write"
    /\ LET g == runner.conn
       IN \/ /\ g # Front.generation /\ Fail(Popped) /\ UNCHANGED wire
          \/ /\ g = Front.generation /\ wire[g].server
             /\ client' = client /\ runner' = [Popped EXCEPT !.waiting = TRUE]
             /\ wire' = [wire EXCEPT ![g].up = Append(@, Front.frame)]
          \/ /\ g = Front.generation /\ ~wire[g].server /\ client.generation < MaxGenerations
             /\ Take([Popped EXCEPT !.conn = 0, !.waiting = FALSE], disconnected(client, g))
             /\ wire' = CloseEnd(g)
    /\ UNCHANGED <<up, left>>

CloseAction ==
    /\ Queued /\ Front.act = "Close"
    /\ client' = client
    /\ runner' = [Popped EXCEPT !.conn = IF @ = Front.generation THEN 0 ELSE @]
    /\ wire' = IF runner.conn = Front.generation THEN CloseEnd(runner.conn) ELSE wire
    /\ UNCHANGED <<up, left>>

(* The deadline of the call passes inside apply_action, after the action   *)
(* was taken from the queue: a connection just made is closed again.       *)
Expire ==
    /\ Queued /\ Front.act # "Close"
    /\ Spend("expiries")
    /\ Fail([Popped EXCEPT !.expired = TRUE,
                           !.attempts = IF Front.act = "Connect" THEN Attempt ELSE @])
    /\ UNCHANGED <<wire, up>>

(* step without an action to apply.                                        *)
Polls == Steps /\ (runner.waiting \/ runner.actions = << >>)

ReadFrame ==
    /\ Polls /\ runner.conn # 0
    /\ LET g == runner.conn
           m == Head(wire[g].down)
           t == receive_frame(client, g, m)
           answers == ~t.failed /\ m.type # "Invalidation"
       IN /\ wire[g].down # << >> /\ t.client.generation <= MaxGenerations
          /\ Take([runner EXCEPT !.waiting = @ /\ ~answers], t)
          /\ wire' = [wire EXCEPT ![g].down = Tail(@)]
    /\ UNCHANGED <<up, left>>

ReadError ==
    /\ Polls /\ runner.conn # 0 /\ client.generation < MaxGenerations
    /\ LET g == runner.conn
       IN /\ wire[g].down = << >> /\ ~wire[g].server
          /\ Take([runner EXCEPT !.conn = 0, !.waiting = FALSE], disconnected(client, g))
          /\ wire' = CloseEnd(g)
    /\ UNCHANGED <<up, left>>

(* No connection and nothing queued: ConnectionAttemptsExhausted.          *)
Exhausted ==
    /\ Polls /\ client.phase # "Idle" /\ runner.conn = 0 /\ ~client.subscribed
    /\ Fail(runner)
    /\ UNCHANGED shared

(* The deadline of a call has passed when step is entered, with whatever   *)
(* is queued or on its way; a poll's deadline only ends the poll.          *)
Deadline ==
    /\ Steps /\ ~client.subscribed
    /\ Fail(runner)
    /\ UNCHANGED shared

(* The calls a frontend makes, and what happens inside them.               *)
Use ==
    \/ \E command \in Commands : Call(command) \/ Continue(command)
    \/ \E selection \in Selections : Select(selection)
    \/ Expire

Step ==
    \/ Submit \/ Subscribe \/ ConnectAfter \/ WriteAction \/ CloseAction
    \/ ReadFrame \/ ReadError \/ Exhausted \/ Deadline
=============================================================================
