----------------------------- MODULE RevisionHub ----------------------------
(***************************************************************************)
(* The bounded subscription registry of the node (hq-local-api hub.rs), as *)
(* operators on one record: the registrations, each with the single        *)
(* coalesced notice it has not taken yet, and whether the wake generation  *)
(* has moved since the wake listener last looked.                          *)
(*                                                                         *)
(* The installed clients subscribe to every topic, so a notice is the      *)
(* newest revision it covers; topics and the full-snapshot flag are left   *)
(* out.  A registration is named by the session that owns it               *)
(* (derive_subscription_id).                                               *)
(***************************************************************************)
EXTENDS Naturals, FiniteSets, Functions

NoNotice == 0

EmptyHub == [regs |-> << >>, woken |-> FALSE]

Registered(hub) == DOMAIN hub.regs

(* Whether publishing to this registration makes it newly actionable.      *)
newly_actionable(reg) == reg.phase = "Active" /\ reg.notice = NoNotice

(* Mutant: a registration that is not active yet is passed over.           *)
publish_to_active(hub, revision) ==
    [regs |-> [s \in Registered(hub) |->
                 IF hub.regs[s].phase = "Active" THEN [hub.regs[s] EXCEPT !.notice = revision]
                 ELSE hub.regs[s]],
     woken |-> hub.woken \/ \E s \in Registered(hub) : newly_actionable(hub.regs[s])]

(* publish: merges the revision into every pending notice; revision zero   *)
(* is ignored.                                                             *)
publish(hub, revision) ==
    IF revision = 0 THEN hub
    ELSE [regs |-> [s \in Registered(hub) |->
                      [hub.regs[s] EXCEPT !.notice = IF @ > revision THEN @ ELSE revision]],
          woken |-> hub.woken \/ \E s \in Registered(hub) : newly_actionable(hub.regs[s])]

(* take: a pending registration keeps its notice.                          *)
Takes(hub, s) ==
    /\ s \in Registered(hub)
    /\ hub.regs[s].phase = "Active"
    /\ hub.regs[s].notice # NoNotice

take(reg) == [reg EXCEPT !.notice = NoNotice]

(* register_subscription: refused for an identity in use, or at capacity.  *)
CanRegister(hub, s, capacity) ==
    s \notin Registered(hub) /\ Cardinality(Registered(hub)) < capacity

register_subscription(hub, s) ==
    [hub EXCEPT !.regs = [r \in Registered(hub) \cup {s} |->
        IF r = s THEN [phase |-> "Pending", notice |-> NoNotice] ELSE hub.regs[r]]]

(* activate_subscription: what was published meanwhile becomes a wake.     *)
activate_subscription(hub, s) ==
    [regs |-> [hub.regs EXCEPT ![s].phase = "Active"],
     woken |-> hub.woken \/ hub.regs[s].notice # NoNotice]

cancel_subscription(hub, s) == [hub EXCEPT !.regs = Restrict(@, DOMAIN @ \ {s})]

(* observe_current: the wake listener has seen the present generation.     *)
observe_current(hub) == [hub EXCEPT !.woken = FALSE]
=============================================================================
