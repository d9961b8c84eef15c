---------------------------- MODULE AccountFacts ----------------------------
(***************************************************************************)
(* The signed facts of a human account and what a store decides about      *)
(* them: the causal graph (hq-reducer graph.rs), the rounds that settle    *)
(* the decisions (reducer.rs), the authority rules for device membership   *)
(* (authority.rs) and the membership a snapshot shows of them.             *)
(*                                                                         *)
(* A fact is named <<author, n>>, the author's n-th signed fact; log holds *)
(* the contents.  A content lists its parents and the authorities it       *)
(* cites: `membership' (AccountMembership) and `grant' (DeviceGrant); the  *)
(* creator's authority is always the account root.  The subjects of a fact *)
(* agree with the facts it cites, since every fact comes from a planner.   *)
(* There is one account and one device besides its creator.                *)
(***************************************************************************)
EXTENDS Naturals, FiniteSets, Sequences

CONSTANTS Creator, Device, None

Installations == {Creator, Device}

Fact(kind, label, parents, membership, grant) ==
    [kind |-> kind, label |-> label, parents |-> parents,
     membership |-> membership, grant |-> grant]

Root(i) == <<i, 1>>
AccountRoot == <<Creator, 2>>

Content(log, f) == log[f[1]][f[2]]
Parents(log, f) == Content(log, f).parents
OfKind(log, facts, kind) == {f \in facts : Content(log, f).kind = kind}

-----------------------------------------------------------------------------
(* The causal graph.                                                       *)

(* A path of parent edges from ancestor to descendant through the usable   *)
(* facts: usably_reaches with the projected facts, reaches_with_candidate  *)
(* with the candidate added, structurally_reaches with all held facts.     *)
RECURSIVE reaches(_, _, _, _)
reaches(log, usable, ancestor, descendant) ==
    /\ {ancestor, descendant} \subseteq usable
    /\ \/ ancestor = descendant
       \/ \E p \in Parents(log, descendant) : reaches(log, usable, ancestor, p)

(* The fact with all its ancestors: what an invitation file carries.       *)
RECURSIVE Closure(_, _)
Closure(log, f) == {f} \cup UNION {Closure(log, p) : p \in Parents(log, f)}

maximal_members(log, projected, members) ==
    {f \in members : \A g \in members \ {f} : ~reaches(log, projected, f, g)}

-----------------------------------------------------------------------------
(* The authority rules.  `held' are the facts of the store, `projected'    *)
(* the ones the previous round projected.                                  *)

account_revokes(log, held) == OfKind(log, held, "revoke")

(* A grant and a revoke of its device that do not know of each other: the  *)
(* grant loses.                                                            *)
validate_device_grant(log, held, f) ==
    \A r \in account_revokes(log, held) :
        reaches(log, held, r, f) \/ reaches(log, held, f, r)

validate_device_acceptance(log, held, projected, f) ==
    \A r \in account_revokes(log, held) :
        reaches(log, projected \cup {f}, r, f)
            => reaches(log, projected, r, Content(log, f).grant)

(* Mutant: an acceptance the revoke did not know of stays active.          *)
unseen_acceptance(log, held, projected, acceptance) ==
    \A r \in account_revokes(log, held) :
        \/ reaches(log, projected, r, acceptance)
        \/ ~reaches(log, projected, acceptance, r)

active_acceptance(log, held, projected, acceptance) ==
    \A r \in account_revokes(log, held) : reaches(log, projected, r, acceptance)

(* Mutant: revokes do not touch what a device did.                         *)
action_outlives_revokes(log, held, projected, action, acceptance) == TRUE

account_action_survives_revokes(log, held, projected, action, acceptance) ==
    \A r \in account_revokes(log, held) :
        \/ reaches(log, projected \cup {action}, action, r)
        \/ reaches(log, projected, r, acceptance)

(* Mutant: only a selection is checked against the revokes.                *)
remote_control_unchecked(log, held, projected, f) ==
    LET authority == Content(log, f).membership
    IN /\ authority # None
       /\ authority[1] = f[1]
       /\ \/ authority = AccountRoot
          \/ Content(log, f).kind = "request"
          \/ account_action_survives_revokes(log, held, projected, f, authority)

validate_account_action(log, held, projected, f) ==
    LET authority == Content(log, f).membership
    IN /\ authority # None
       /\ authority[1] = f[1]
       /\ \/ authority = AccountRoot
          \/ /\ Content(log, authority).kind = "acceptance"
             /\ account_action_survives_revokes(log, held, projected, f, authority)

classify_fact(log, held, projected, f) ==
    LET kind == Content(log, f).kind
    IN CASE kind = "grant" -> validate_device_grant(log, held, f)
         [] kind = "acceptance" -> validate_device_acceptance(log, held, projected, f)
         [] kind \in {"selection", "request", "receipt", "outcome"} ->
              validate_account_action(log, held, projected, f)
         [] OTHER -> TRUE

-----------------------------------------------------------------------------
(* The rounds of stabilize_decisions: every fact is decided again from the *)
(* decisions of the round before, until a round changes nothing.           *)

Structural(log, held) == {f \in held : Parents(log, f) \subseteq held}

Round(log, held, projected) ==
    {f \in Structural(log, held) :
        Parents(log, f) \subseteq projected /\ classify_fact(log, held, projected, f)}

RECURSIVE stabilize_decisions(_, _, _)
stabilize_decisions(log, held, projected) ==
    LET next == Round(log, held, projected)
    IN IF next = projected THEN projected ELSE stabilize_decisions(log, held, next)

reduce_complete(log, held) == stabilize_decisions(log, held, Structural(log, held))

-----------------------------------------------------------------------------
(* What a snapshot shows of the device's membership.                       *)

(* membership_projections.  A membership without a member is not shown.    *)
active_acceptances(log, held, projected) ==
    {a \in OfKind(log, projected, "acceptance") : active_acceptance(log, held, projected, a)}

(* active_membership_grants *)
active_grants(log, held, projected) ==
    {Content(log, a).grant : a \in active_acceptances(log, held, projected)}

membership_state(log, held, projected) ==
    CASE active_acceptances(log, held, projected) # {} -> "active"
      [] active_acceptances(log, held, projected) = {}
         /\ OfKind(log, projected, "revoke") # {} -> "revoked"
      [] OTHER -> "pending"

MembershipView(log, held, projected) ==
    [grants |-> OfKind(log, projected, "grant"),
     frontier |-> maximal_members(log, projected,
                     {f \in projected :
                         Content(log, f).kind \in {"grant", "acceptance", "revoke"}}),
     active_acceptances |-> active_acceptances(log, held, projected),
     active_grants |-> active_grants(log, held, projected),
     state |-> membership_state(log, held, projected)]

(* The selected account of an installation: its newest selections that are *)
(* still projected.                                                        *)
selection_projections(log, projected, i) ==
    maximal_members(log, projected,
                    {f \in OfKind(log, projected, "selection") : f[1] = i})

(* active_human_authority: the fact an installation acts under.            *)
active_human_authority(log, held, projected, i) ==
    LET active == active_acceptances(log, held, projected)
    IN IF i = Creator THEN AccountRoot
       ELSE IF active # {} THEN CHOOSE a \in active : TRUE ELSE None
=============================================================================
