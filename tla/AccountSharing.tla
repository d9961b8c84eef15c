--------------------------- MODULE AccountSharing ---------------------------
(***************************************************************************)
(* Sharing a human account with a second device: the commands of the hq    *)
(* command line that invite, join and revoke (hq-node cli.rs), the plans   *)
(* they submit (hq-application human.rs), the store that admits and fans   *)
(* out their facts (hq-store database.rs), and the remote project request  *)
(* the device then sends to the creator's node (hq-projects remote.rs).    *)
(*                                                                         *)
(* A command works in separate requests to its node: it plans from one     *)
(* snapshot, submits against whatever the store holds by then, and reads   *)
(* another snapshot.  Several commands run at once in the creator's        *)
(* shells, one on the device.  Delivery between the two nodes is unordered *)
(* and repeatable (RelayOutbound, RelayInbound).                           *)
(***************************************************************************)
EXTENDS AccountFacts, SequencesExt

CONSTANTS
    Shells,     \* where commands run on the creator's machine
    Labels,     \* the labels an invitation may carry
    Budget      \* how often each command is started

VARIABLES
    log,        \* log[i]: the facts installation i has signed
    held,       \* held[i]: the facts in i's store
    projected,  \* projected[i]: the ones its reduction projects
    outbox,     \* <<fact, recipient>>: the intents queued so far
    files,      \* grants an invitation file was written for
    cli,        \* the command running in each shell, and on the device
    left,       \* starts left of each command
    pass,       \* the remote commands the home's worker has yet to advance
    barred      \* history: grants the creator held when it stored a revoke

store == <<log, held, projected, outbox>>
vars == <<store, files, cli, left, pass, barred>>

Idle == [pc |-> "idle"]

Init ==
    /\ log = [i \in Installations |->
                IF i = Creator
                THEN <<Fact("installation", None, {}, None, None),
                       Fact("account", None, {Root(Creator)}, None, None),
                       Fact("selection", None, {Root(Creator), AccountRoot}, AccountRoot, None)>>
                ELSE <<Fact("installation", None, {}, None, None)>>]
    /\ held = [i \in Installations |-> {<<i, n>> : n \in 1..Len(log[i])}]
    /\ projected = held
    /\ outbox = {} /\ files = {}
    /\ cli = [s \in Shells \cup {Device} |-> Idle]
    /\ left = Budget
    /\ pass = << >>
    /\ barred = {}

-----------------------------------------------------------------------------
(* The store.                                                              *)

(* Mutant: only the active devices of the account are told.                *)
active_recipients(l, h, p, i, f) ==
    LET kind == Content(l, f).kind
        all  == (IF AccountRoot \in p THEN {Creator} ELSE {}) \cup
                (IF membership_state(l, h, p) = "active" THEN {Device} ELSE {})
    IN IF kind \in {"installation", "account", "selection"} THEN {} ELSE all \ {f[1], i}

(* outbox_recipients, of a fact that i has just stored.                    *)
outbox_recipients(l, h, p, i, f) ==
    LET kind    == Content(l, f).kind
        account == (IF AccountRoot \in p THEN {Creator} ELSE {}) \cup
                   (IF membership_state(l, h, p) = "active" THEN {Device} ELSE {})
        named   == CASE kind \in {"grant", "revoke"} -> {Device}
                     [] kind \in {"request", "receipt", "outcome"} -> {Creator}
                     [] OTHER -> {}
    IN IF kind \in {"installation", "account", "selection"} THEN {}
       ELSE (account \cup named) \ {f[1], i}

(* ingest_in_transaction: `p' is the reduction of the whole store with the *)
(* new facts; those it projects are queued for their recipients.           *)
Ingest(i, l, facts, p) ==
    LET h == held[i] \cup facts
    IN /\ log' = l
       /\ held' = [held EXCEPT ![i] = h]
       /\ projected' = [projected EXCEPT ![i] = p]
       /\ outbox' = outbox \cup
             UNION {{<<f, r>> : r \in outbox_recipients(l, h, p, i, f)} :
                        f \in (facts \ held[i]) \cap p}

Import(i, facts) == Ingest(i, log, facts, reduce_complete(log, held[i] \cup facts))

(* Signing is deterministic: the same content is the same fact.            *)
Signed(i, content) ==
    IF \E n \in 1..Len(log[i]) : log[i][n] = content
    THEN [log |-> log, id |-> <<i, CHOOSE n \in 1..Len(log[i]) : log[i][n] = content>>]
    ELSE [log |-> [log EXCEPT ![i] = Append(@, content)], id |-> <<i, Len(log[i]) + 1>>]

(* execute_local_mutation: a fact that is not admitted rolls the           *)
(* transaction back.                                                       *)
Submit(i, content) ==
    LET s == Signed(i, content)
        p == reduce_complete(s.log, held[i] \cup {s.id})
    IN IF s.id \in p THEN Ingest(i, s.log, {s.id}, p) ELSE UNCHANGED store

(* What the submission answers, after it.                                  *)
Committed(i, content) == Signed(i, content).id \in projected'[i]

View(i) == MembershipView(log, held[i], projected[i])
State(i) == membership_state(log, held[i], projected[i])

(* Delivery of a queued fact by the relays.                                *)
Deliver(i, f) ==
    /\ <<f, i>> \in outbox /\ f \notin held[i]
    /\ Import(i, {f})
    /\ UNCHANGED <<files, cli, left, pass, barred>>

-----------------------------------------------------------------------------
(* human invite, in a shell of the creator.                                *)

Start(command) == left[command] > 0 /\ left' = [left EXCEPT ![command] = @ - 1]

Step(s, next) == cli' = [cli EXCEPT ![s] = next]

(* reusable_pairing_grant                                                  *)
reusable_pairing_grants(view, label) ==
    {g \in view.grants :
        /\ Content(log, g).label = label
        /\ g \in view.active_grants \/ (view.state = "pending" /\ g \in view.frontier)}

(* create_pairing_invitation up to its first request that changes anything. *)
InvitePlan(s, label) ==
    LET view     == View(Creator)
        reusable == reusable_pairing_grants(view, label)
        grant    == Fact("grant", label, view.frontier \cup {AccountRoot}, None, None)
    IN /\ cli[s].pc = "idle" /\ Start("invite")
       /\ Step(s, IF reusable = {} THEN [pc |-> "grant", fact |-> grant]
                  ELSE IF Cardinality(reusable) = 1
                       THEN [pc |-> "export", fact |-> CHOOSE g \in reusable : TRUE]
                       ELSE Idle)
       /\ UNCHANGED <<store, files, pass, barred>>

InviteSubmit(s) ==
    LET grant == cli[s].fact
    IN /\ cli[s].pc = "grant"
       /\ Submit(Creator, grant)
       /\ Step(s, IF Committed(Creator, grant)
                  THEN [pc |-> "refresh", fact |-> Signed(Creator, grant).id]
                  ELSE Idle)
       /\ UNCHANGED <<files, left, pass, barred>>

(* author_pairing_grant reads its grant back.                              *)
InviteRefresh(s) ==
    /\ cli[s].pc = "refresh"
    /\ Step(s, IF cli[s].fact \in OfKind(log, projected[Creator], "grant")
               THEN [pc |-> "export", fact |-> cli[s].fact] ELSE Idle)
    /\ UNCHANGED <<store, files, left, pass, barred>>

(* verify_pairing_authority: the file is judged by its own evidence alone. *)
verify_pairing_authority(grant) ==
    grant \in reduce_complete(log, Closure(log, grant))

InviteExport(s) ==
    /\ cli[s].pc = "export"
    /\ files' = IF verify_pairing_authority(cli[s].fact)
                THEN files \cup {cli[s].fact} ELSE files
    /\ Step(s, Idle)
    /\ UNCHANGED <<store, left, pass, barred>>

-----------------------------------------------------------------------------
(* human revoke, in a shell of the creator.                                *)

(* classify_device_state: "none" is a device without a membership.         *)
classify_device_state(view) ==
    CASE view.grants = {} -> "none"
      [] view.state = "active" /\ Cardinality(view.active_grants) > 1 -> "conflicted"
      [] view.state = "pending" /\ Cardinality(view.grants \cap view.frontier) > 1 -> "conflicted"
      [] OTHER -> view.state

(* The one grant the revoke is attributed to.                              *)
revoke_candidates(view) ==
    CASE view.state = "active" -> view.active_grants
      [] view.state = "pending" -> view.grants \cap view.frontier
      [] OTHER -> {}

(* revoke_human_device up to its mutation.  A device that is shown as      *)
(* revoked is reported so at once, one without a membership or with        *)
(* several current grants is refused; neither changes anything.            *)
RevokePlan(s) ==
    LET view  == View(Creator)
        shown == classify_device_state(view)
        named == revoke_candidates(view)
        grant == CHOOSE g \in named : TRUE
    IN /\ cli[s].pc = "idle" /\ Start("revoke")
       /\ \/ /\ shown \in {"none", "conflicted", "revoked"} \/ Cardinality(named) # 1
             /\ UNCHANGED cli
          \/ /\ shown \in {"active", "pending"} /\ Cardinality(named) = 1
             /\ Step(s, [pc |-> "revoke",
                         fact |-> Fact("revoke", None, view.frontier \cup {AccountRoot, grant},
                                       None, grant)])
       /\ UNCHANGED <<store, files, pass, barred>>

(* An error and a success both lead to another snapshot.                   *)
RevokeSubmit(s) ==
    /\ cli[s].pc = "revoke"
    /\ Submit(Creator, cli[s].fact)
    /\ barred' = IF held' = held THEN barred
                 ELSE barred \cup OfKind(log, held[Creator], "grant")
    /\ Step(s, [pc |-> "confirm"])
    /\ UNCHANGED <<files, left, pass>>

(* The second snapshot only decides what the command prints.               *)
RevokeConfirm(s) ==
    /\ cli[s].pc = "confirm"
    /\ Step(s, Idle)
    /\ UNCHANGED <<store, files, left, pass, barred>>

-----------------------------------------------------------------------------
(* human join, on the device.  The device's own mailbox facts are left out. *)

JoinImport(grant) ==
    /\ cli[Device].pc = "idle" /\ Start("join")
    /\ grant \in files /\ verify_pairing_authority(grant)
    /\ Import(Device, Closure(log, grant))
    /\ Step(Device, [pc |-> "check", fact |-> grant])
    /\ UNCHANGED <<files, pass, barred>>

JoinCheck ==
    LET grant == cli[Device].fact
    IN /\ cli[Device].pc = "check"
       /\ Step(Device,
               IF grant \notin projected[Device] THEN Idle
               ELSE IF State(Device) = "active" THEN [pc |-> "select"]
               ELSE [pc |-> "accept",
                     fact |-> Fact("acceptance", None, {grant}, None, grant)])
       /\ UNCHANGED <<store, files, left, pass, barred>>

JoinAccept ==
    /\ cli[Device].pc = "accept"
    /\ Submit(Device, cli[Device].fact)
    /\ Step(Device, IF Committed(Device, cli[Device].fact) THEN [pc |-> "select"] ELSE Idle)
    /\ UNCHANGED <<files, left, pass, barred>>

(* select_human_account *)
JoinSelect ==
    LET selected   == selection_projections(log, projected[Device], Device)
        membership == active_human_authority(log, held[Device], projected[Device], Device)
    IN /\ cli[Device].pc = "select"
       /\ Step(Device,
               IF selected # {} \/ membership = None THEN Idle
               ELSE [pc |-> "selecting",
                     fact |-> Fact("selection", None, {Root(Device), membership},
                                   membership, None)])
       /\ UNCHANGED <<store, files, left, pass, barred>>

JoinSelecting ==
    /\ cli[Device].pc = "selecting"
    /\ Submit(Device, cli[Device].fact)
    /\ Step(Device, Idle)
    /\ UNCHANGED <<files, left, pass, barred>>

-----------------------------------------------------------------------------
(* A remote project command: the device asks the creator's node to create  *)
(* a project there.  Every request is about a project of its own.          *)

(* request_plan, decided inside the device's transaction.                  *)
Request ==
    LET m == active_human_authority(log, held[Device], projected[Device], Device)
    IN /\ Start("request")
       /\ m # None
       /\ Submit(Device, Fact("request", left["request"], {m}, m, None))
       /\ UNCHANGED <<files, cli, pass, barred>>

(* project_home_causal: the authorities of a receipt and of an outcome are  *)
(* ProjectHome and Request.                                                *)
receipt_plan(q) == Fact("receipt", None, {q, Root(Creator)}, None, None)

Answers(kind, q) == {f \in OfKind(log, projected[Creator], kind) : q \in Parents(log, f)}

outcome_plan(q) ==
    Fact("outcome", None, Answers("receipt", q) \cup {q, Root(Creator)}, None, None)

(* RemoteCommandStage: a command is queued, then received, then terminal.  *)
Requests == OfKind(log, projected[Creator], "request")
Received(q) == Answers("receipt", q) # {}
Queued == {q \in Requests : ~Received(q)}
pending == {q \in Requests : Answers("outcome", q) = {}}

(* repair_remote reads the records that are not terminal, in the order of  *)
(* their issue.                                                            *)
BeginPass ==
    /\ pass = << >> /\ pending # {}
    /\ pass' = SetToSortSeq({[request |-> q, received |-> Received(q)] : q \in pending},
                            LAMBDA a, b : a.request[2] < b.request[2])
    /\ UNCHANGED <<store, files, cli, left, barred>>

(* The first error ends the pass (collect); a fact that is not admitted is *)
(* one.                                                                    *)
Author(content, next) ==
    /\ Submit(Creator, content)
    /\ pass' = IF Committed(Creator, content) THEN next ELSE << >>

Skip == pass' = Tail(pass) /\ UNCHANGED store

(* author_receipt: the plan, made inside the transaction, rejects a        *)
(* command that is no longer queued, and the pass goes on to the next.     *)
author_receipt(q) ==
    IF q \in Queued
    THEN Author(receipt_plan(q), <<[request |-> q, received |-> TRUE]>> \o Tail(pass))
    ELSE Skip

(* control_project, which ends in a terminal outcome or not, and           *)
(* author_outcome, whose plan rejects a command that is not received.      *)
carry_out(q) ==
    \E terminal \in BOOLEAN :
        IF terminal /\ q \in pending \ Queued THEN Author(outcome_plan(q), Tail(pass))
        ELSE Skip

advance_remote ==
    /\ pass # << >>
    /\ IF Head(pass).received THEN carry_out(Head(pass).request)
       ELSE author_receipt(Head(pass).request)
    /\ UNCHANGED <<files, cli, left, barred>>

-----------------------------------------------------------------------------

Invite(s) ==
    \/ \E label \in Labels : InvitePlan(s, label)
    \/ InviteSubmit(s) \/ InviteRefresh(s) \/ InviteExport(s)

Revoke(s) == RevokePlan(s) \/ RevokeSubmit(s) \/ RevokeConfirm(s)

Join ==
    \/ \E grant \in files : JoinImport(grant)
    \/ JoinCheck \/ JoinAccept \/ JoinSelect \/ JoinSelecting

Next ==
    \/ \E s \in Shells : Invite(s) \/ Revoke(s)
    \/ Join
    \/ Request
    \/ BeginPass \/ advance_remote
    \/ \E intent \in outbox : Deliver(intent[2], intent[1])

Spec == Init /\ [][Next]_vars

(* The relays retry until a fact is delivered, and a pass of the home's    *)
(* worker goes on to its end.  That passes begin is not assumed: a pass    *)
(* follows a signal, a revision of the store or a start of the node.       *)
FairSpec ==
    /\ Spec
    /\ WF_vars(advance_remote)
    /\ WF_vars(\E intent \in outbox : Deliver(intent[2], intent[1]))

-----------------------------------------------------------------------------
(* Properties.                                                             *)

(* No invitation that existed when the creator stored a revoke of the      *)
(* device ever makes the device a member again in the creator's store:     *)
(* neither a late acceptance, nor an invitation planned from an older      *)
(* snapshot, nor a file that is still around (validate_device_grant,       *)
(* active_acceptance).                                                     *)
RevokeBarsAll == 
    barred \cap active_grants(log, held[Creator], projected[Creator]) = {}

(* The creator's node lists a project command for its passes only from a   *)
(* device that is a member under the very acceptance the command cites:    *)
(* the command of a device that was revoked meanwhile is not projected,    *)
(* and no later pass finds it (account_action_survives_revokes).           *)
HomeServesMembers ==
    {Content(log, q).membership : q \in pending}
        \subseteq active_acceptances(log, held[Creator], projected[Creator])

(* The account the device has selected is one it is a member of in its own *)
(* store, whatever order the facts arrived in (validate_account_action,    *)
(* selection_projections).                                                 *)
SelectedMeansMember ==
    selection_projections(log, projected[Device], Device) # {}
        => State(Device) = "active"

(* Once the device has imported an invitation and nothing is under way     *)
(* between the two nodes, both show the same membership: what a store      *)
(* queues when it ingests a fact is enough for the other to decide alike   *)
(* (outbox_recipients, Closure).                                           *)
ViewsAgree ==
    (/\ AccountRoot \in held[Device]
     /\ \A intent \in outbox : intent[1] \in held[intent[2]])
        => View(Device) = View(Creator)

(* While passes keep coming, the home's worker receives every command that *)
(* is queued, or its device loses the membership first (advance_remote,    *)
(* repair_remote).                                                         *)
RequestsAreReceived ==
    []<><<BeginPass>>_vars => ((Queued # {}) ~> (Queued = {}))
=============================================================================
