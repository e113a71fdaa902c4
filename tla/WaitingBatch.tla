---------------------------- MODULE WaitingBatch ----------------------------
(***************************************************************************)
(* auto_validate_waiting.py --apply: one transaction that applies the      *)
(* automatic rule to the entries waiting for approval, while admins        *)
(* approve, resolve, reject, send back and annotate entries, and the       *)
(* consensus engine publishes others.                                      *)
(*                                                                         *)
(* Every other transaction is one step, except that an approval reads its  *)
(* entry without a lock and acts later.  What the batch writes is seen by  *)
(* nobody until it commits; its row locks and its uncommitted rows in      *)
(* `validated` make others wait, so their steps are not enabled.           *)
(***************************************************************************)
EXTENDS Naturals

CONSTANTS WaitingEntries,  \* records of `unvalidated`
          IdentityOf,      \* [WaitingEntries -> identity]: what each one publishes
          Ruled,           \* the entries auto_validation_rule accepts
          Approvers        \* approvals that can be under way

ASSUME BatchAssumption ==
    /\ Ruled \subseteq WaitingEntries
    /\ "nothing" \notin WaitingEntries
    /\ \A e \in WaitingEntries : IdentityOf[e] \notin {"none", "earlier"}

VARIABLES entries,   \* [status, touched, checked] of each entry
          row,       \* its row in `validated`: an identity, "earlier" or "none"
          batch,     \* the batch's transaction
          approving  \* the entry each approval has read, or "nothing"

batchVars == <<entries, row, batch, approving>>

NoTransaction == [pc |-> "outside", left |-> {}, held |-> {}, passing |-> {},
                  staged |-> {}, next |-> "nothing"]

\* A record re-keyed to review can still have a row, under an identity it had before.
BatchInit ==
    /\ entries \in [WaitingEntries -> [status : {"judging", "waiting", "review"},
                                       touched : {FALSE}, checked : {FALSE}]]
    /\ row \in [WaitingEntries -> {"none", "earlier"}]
    /\ \A e \in WaitingEntries : entries[e].status = "judging" => row[e] = "none"
    /\ batch = NoTransaction
    /\ approving = [a \in Approvers |-> "nothing"]

\* Another entry's row holds the identity of e, among the rows of `published`.
Taken(e, published) ==
    \E x \in WaitingEntries \ {e} : published[x] = IdentityOf[e]

\* The rows as the batch's own transaction sees them.
Seen == [x \in WaitingEntries |-> IF x \in batch.staged THEN IdentityOf[x] ELSE row[x]]

\* Mutant of Locked: the batch reads the waiting entries without FOR UPDATE.
MutLocked(e) == FALSE

\* Another transaction's UPDATE of e waits for the batch's row lock.
Locked(e) == e \in batch.held

\* Another transaction's INSERT waits for a row the batch has not committed yet.
Insertable(e) == \A x \in batch.staged : IdentityOf[x] # IdentityOf[e]

-----------------------------------------------------------------------------
(* The batch.                                                              *)

BatchSelects ==
    /\ batch.pc = "outside"
    /\ batch' = [batch EXCEPT !.pc = "locking",
                              !.left = {e \in WaitingEntries : entries[e].status = "waiting"}]
    /\ UNCHANGED <<entries, row, approving>>

\* FOR UPDATE: one row after the other; one decided since is no longer selected.
BatchLocks(e) ==
    /\ batch.pc = "locking" /\ e \in batch.left
    /\ batch' = [batch EXCEPT !.left = @ \ {e},
                              !.held = IF entries[e].status = "waiting" THEN @ \cup {e} ELSE @]
    /\ UNCHANGED <<entries, row, approving>>

\* assess: left to an admin if one touched it, no rule applies or it is a duplicate.
Passes(e) == ~entries[e].touched /\ e \in Ruled /\ ~Taken(e, row)

BatchAssesses ==
    /\ batch.pc = "locking" /\ batch.left = {}
    /\ batch' = [batch EXCEPT !.pc = "writing", !.passing = {e \in batch.held : Passes(e)}]
    /\ UNCHANGED <<entries, row, approving>>

\* The next entry that passed: a duplicate of one validated by now is left.
BatchChecks(e) ==
    /\ batch.pc = "writing" /\ batch.next = "nothing" /\ e \in batch.passing
    /\ batch' = [batch EXCEPT !.passing = @ \ {e},
                              !.next = IF Taken(e, Seen) THEN "nothing" ELSE e]
    /\ UNCHANGED <<entries, row, approving>>

\* UPDATE and INSERT ... ON CONFLICT DO NOTHING: an identity taken since the check
\* rolls both back to the entry's savepoint.
Settled(e) == IF Taken(e, Seen) THEN batch.staged ELSE batch.staged \cup {e}

BatchInserts ==
    /\ batch.next # "nothing"
    /\ batch' = [batch EXCEPT !.next = "nothing", !.staged = Settled(batch.next)]
    /\ UNCHANGED <<entries, row, approving>>

\* (An entry whose insert was refused has no row to commit.)
BatchCommits ==
    /\ batch.pc = "writing" /\ batch.passing = {} /\ batch.next = "nothing"
    /\ entries' = [e \in WaitingEntries |->
                      IF e \in batch.staged THEN [entries[e] EXCEPT !.status = "validated"]
                      ELSE entries[e]]
    /\ row' = [e \in WaitingEntries |->
                  IF e \in batch.staged /\ ~Taken(e, row) THEN IdentityOf[e] ELSE row[e]]
    /\ batch' = NoTransaction
    /\ UNCHANGED approving

\* An exception, or the process dies: nothing of it is stored.
BatchRollsBack ==
    /\ batch.pc # "outside"
    /\ batch' = NoTransaction
    /\ UNCHANGED <<entries, row, approving>>

-----------------------------------------------------------------------------
(* The admins and the consensus engine.                                    *)

ApprovalReads(a, e) ==
    /\ approving[a] = "nothing" /\ entries[e].status = "waiting"
    /\ approving' = [approving EXCEPT ![a] = e]
    /\ UNCHANGED <<entries, row, batch>>

DecidedAs(e, status) ==
    entries' = [entries EXCEPT ![e] = [status |-> status, touched |-> TRUE, checked |-> TRUE]]
Validated(e) == DecidedAs(e, "validated") /\ row' = [row EXCEPT ![e] = IdentityOf[e]]

\* UPDATE without a look at the status, then the identity check and the INSERT, which
\* refuses as the check does.
ApprovalActs(a) ==
    LET e == approving[a]
    IN  /\ e # "nothing"
        /\ ~Locked(e) /\ Insertable(e)
        /\ IF Taken(e, row) THEN UNCHANGED <<entries, row>> ELSE Validated(e)
        /\ approving' = [approving EXCEPT ![a] = "nothing"]
        /\ UNCHANGED batch

\* Mark as Resolved: published, or refused for a duplicate (merging is another model's).
Resolve(e) ==
    /\ entries[e].status \in {"waiting", "review"}
    /\ ~Locked(e) /\ Insertable(e) /\ ~Taken(e, row)
    /\ Validated(e)
    /\ UNCHANGED <<batch, approving>>

Reject(e) ==
    /\ entries[e].status \in {"waiting", "review"} /\ ~Locked(e)
    /\ DecidedAs(e, "rejected")
    /\ row' = [row EXCEPT ![e] = "none"]
    /\ UNCHANGED <<batch, approving>>

\* flag-review: only what waits, or was validated by a rule, which leaves `validated`.
SendBack(e) ==
    /\ \/ entries[e].status \in {"waiting", "review"}
       \/ entries[e].status = "validated" /\ ~entries[e].checked
    /\ ~Locked(e)
    /\ entries' = [entries EXCEPT ![e].status = "review", ![e].touched = TRUE]
    /\ row' = [row EXCEPT ![e] = IF entries[e].status = "validated" THEN "none" ELSE @]
    /\ UNCHANGED <<batch, approving>>

Note(e) ==
    /\ ~entries[e].touched /\ ~Locked(e)
    /\ entries' = [entries EXCEPT ![e].touched = TRUE]
    /\ UNCHANGED <<row, batch, approving>>

\* The validators agree: validated at once if a rule applies and nothing holds the
\* identity, else it waits.
Agreement(e) ==
    /\ entries[e].status = "judging" /\ Insertable(e)
    /\ IF e \in Ruled /\ ~Taken(e, row)
       THEN /\ entries' = [entries EXCEPT ![e].status = "validated"]
            /\ row' = [row EXCEPT ![e] = IdentityOf[e]]
       ELSE /\ entries' = [entries EXCEPT ![e].status = "waiting"]
            /\ UNCHANGED row
    /\ UNCHANGED <<batch, approving>>

-----------------------------------------------------------------------------
BatchNext ==
    \/ BatchSelects \/ BatchAssesses \/ BatchInserts \/ BatchCommits \/ BatchRollsBack
    \/ \E e \in WaitingEntries : \/ BatchLocks(e) \/ BatchChecks(e) \/ Resolve(e) \/ Reject(e)
                                 \/ SendBack(e) \/ Note(e) \/ Agreement(e)
    \/ \E a \in Approvers : ApprovalActs(a) \/ \E e \in WaitingEntries : ApprovalReads(a, e)

BatchSpec == BatchInit /\ [][BatchNext]_batchVars

-----------------------------------------------------------------------------
\* Every part of the state keeps its type.
BatchTypeOK ==
    /\ entries \in [WaitingEntries ->
                      [status : {"judging", "waiting", "review", "validated", "rejected"},
                       touched : BOOLEAN, checked : BOOLEAN]]
    /\ \A e \in WaitingEntries : row[e] \in {IdentityOf[e], "none", "earlier"}
    /\ batch.held \subseteq WaitingEntries /\ batch.staged \subseteq batch.held
    /\ approving \in [Approvers -> WaitingEntries \cup {"nothing"}]

\* A validated entry is published under its own identity, which no other entry's row
\* holds, whoever validated it and whatever ran beside the batch
\* (auto_validate_waiting.py:157-168, consensus_engine._insert_validated).
ValidatedIsPublished ==
    \A e \in WaitingEntries :
        entries[e].status = "validated" => row[e] = IdentityOf[e] /\ ~Taken(e, row)

\* What the batch validates is, as it commits, still waiting and without a name or a
\* note of an admin (auto_validate_waiting.py:121-122, "so an admin cannot decide one in
\* between").
BatchSparesTheTouched ==
    [][BatchCommits => \A e \in batch.staged :
                           entries[e].status = "waiting" /\ ~entries[e].touched]_batchVars
=============================================================================
