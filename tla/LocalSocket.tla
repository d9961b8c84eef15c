----------------------------- MODULE LocalSocket ----------------------------
(***************************************************************************)
(* What a local frontend and the node share: the Unix sockets between      *)
(* them, and whether the node is running.  A connection, its session and   *)
(* its subscription are named by the client's connection generation: the   *)
(* node accepts the connections of one frontend in that order.             *)
(***************************************************************************)
EXTENDS Naturals, Sequences

CONSTANTS MaxGenerations, \* bound: connections the frontend opens
          SocketCapacity, \* frames a socket holds before a write blocks
          Scenarios       \* bounds: the kind of frontend (role), the commands it
                          \* uses, the connection attempts it allows in a call
                          \* (max_connection_attempts), and how many calls (of an observer: selections),
                          \* faults (crashes, failed and indefinite answers), expiries
                          \* (deadlines that pass inside apply_action), commits by
                          \* others and prompts there are

ASSUME SocketAssumption == MaxGenerations \in Nat \ {0}

VARIABLES wire,  \* each connection: the frames in it and which ends are open
          up,    \* the node is running
          left   \* what the scenario still allows: calls, faults, commits ...

shared == <<wire, up, left>>

Generations == 1..MaxGenerations

NoWire == [up |-> << >>, down |-> << >>, client |-> FALSE, server |-> FALSE, backlog |-> FALSE]

SocketInit ==
    /\ wire = [g \in Generations |-> NoWire]
    /\ up = TRUE
    /\ left \in Scenarios

Spend(what) == left[what] > 0 /\ left' = [left EXCEPT ![what] = @ - 1]
=============================================================================
