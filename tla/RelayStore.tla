----------------------------- MODULE RelayStore -----------------------------
(***************************************************************************)
(* The durable relay rows of hq-store and the transition rules that its    *)
(* transactions enforce (crates/hq-store/src/database/relay.rs).  Every    *)
(* rule is an operator from the stored row and the offered row to the      *)
(* answer of the transaction, so that the session modules can use it as    *)
(* the guard of the action that applies the mutation.  None stands for a   *)
(* row, or a column, that is absent.                                       *)
(***************************************************************************)
EXTENDS Naturals

CONSTANT None

(***************************************************************************)
(* relay_attempts: one row for each relay URL and wrapper.                 *)
(***************************************************************************)
Dispositions == {"uncertain", "accepted", "rejected"}

Failures == {"auth-required", "rate-limited", "permanent"}

AttemptRow(attempts, times) ==
    [attempts : attempts, disposition : Dispositions,
     failure : Failures \cup {None}, last : times, retry : times \cup {None}]

(* Mutant: a settled attempt may be rewritten by a later answer. *)
PutAttemptOkRewrites(stored, row) ==
    \/ stored = None
    \/ stored = row
    \/ /\ row.attempts >= stored.attempts
       /\ row.last >= stored.last

(***************************************************************************)
(* put_attempt: the offered row is stored unless it goes back in attempts  *)
(* or in time, follows an acceptance, or rewrites a settled attempt.       *)
(***************************************************************************)
PutAttemptOk(stored, row) ==
    \/ stored = None
    \/ stored = row
    \/ /\ row.attempts >= stored.attempts
       /\ row.last >= stored.last
       /\ stored.disposition /= "accepted"
       /\ row.attempts = stored.attempts =>
             stored.disposition = "uncertain" /\ row.last = stored.last

(* Mutant: an accepted attempt comes due again. *)
AttemptDueIgnoresAcceptance(row, now) ==
    row /= None =>
        /\ ~ (row.disposition = "rejected" /\ row.failure = "permanent")
        /\ row.retry /= None => row.retry <= now

(***************************************************************************)
(* attempt_due: no row yet, or a row whose retry deadline has passed; an   *)
(* acceptance and a permanent rejection are never due.                     *)
(***************************************************************************)
AttemptDue(row, now) ==
    row /= None =>
        /\ row.disposition /= "accepted"
        /\ ~ (row.disposition = "rejected" /\ row.failure = "permanent")
        /\ row.retry /= None => row.retry <= now
=============================================================================
