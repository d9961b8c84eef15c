--------------------------- MODULE MCRelayInbound ---------------------------
(* Finite instances of RelayInbound for TLC. *)
EXTENDS RelayInbound

AllGood == [w \in Wrappers |-> "good"]
OneInvalid == [w \in Wrappers |-> IF w = 1 THEN "invalid" ELSE "good"]

History(created_at, claimed, through, generation, clock) ==
    [created |-> created_at, claims |-> claimed, covered |-> through,
     policy |-> generation, now |-> clock]

(* The node's first start at a relay that retains nothing. *)
Empty == {History([w \in Wrappers |-> None], {}, None, 1, 0)}

(***************************************************************************)
(* A first start with two wrappers retained and one still to come; a       *)
(* restart whose scan meets an old claimed wrapper below the overlap floor *)
(* after two new ones; a restart whose scan must go on, below a claimed    *)
(* wrapper, to one that was published late with an early date.             *)
(***************************************************************************)
Starts == {History(<<4, 0, None>>, {}, None, 1, 11),
           History(<<5, 0, 3>>, {2}, 9, 1, 10),
           History(<<5, 4, 3>>, {2}, 10, 2, 11)}
=============================================================================
