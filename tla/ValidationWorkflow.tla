------------------------- MODULE ValidationWorkflow -------------------------
(***************************************************************************)
(* The life of the records of the validation queue: two human slots per    *)
(* record, judgements, the consensus engine, assignments, admin decisions, *)
(* the nightly import, the nightly LLM retry and the slot reaper.          *)
(*                                                                         *)
(* Granularity.  Every handler that reads the record FOR UPDATE keeps the  *)
(* row lock until it commits, so it is one action.  Three do not, and are  *)
(* split where another transaction can come in between:                    *)
(*   admin_approve      reads the record unlocked, then updates it         *)
(*   the import         loads the status of every record once, unlocked,   *)
(*                      reads a re-keyed one again, unlocked, and updates  *)
(*                      it by its id                                       *)
(*   the LLM retry      asks the AI with no lock held                      *)
(* The import's row updates are uncommitted until its end, but they lock   *)
(* the rows, so nobody else can act on the row after them.                 *)
(*                                                                         *)
(* Data.  Of the final_* columns only the identity of the original is      *)
(* kept, of a published row likewise; ConsensusRound has the values.       *)
(* updated_at is only ever compared with what the retry read: it is a mark *)
(* on the question in flight.  Points, notes, skips and added originals    *)
(* are left out.  Which pool a record is in, and which of its records a    *)
(* validator draws, is the draw's choice.  Operators named Mut... carry a    *)
(* plausible mistake and are not used.                                     *)
(***************************************************************************)
EXTENDS JudgementRequest, FiniteSets

CONSTANTS
    Records, Validators, Admins,
    Trusted, Seniors,      \* validator_tier >= 1, and >= 2
    Experienced,           \* enough approved judgements, few flagged ones
    Assignees,             \* the validators an admin gives assignments to
    LinkedTo,              \* the validator account of an admin, or None
    FirstRaw,              \* the extraction each record starts with
    Shipped,               \* what the import may ship for a record; {}: no import
    Submitted,             \* the judgements that reach validation_queue
    AiAnswers,             \* what the AI may answer
    TypedIdentities        \* the identities an admin may type in on resolve

VARIABLES
    status,      \* unvalidated.validation_status
    row,         \* the other columns of unvalidated
    queue,       \* validation_queue: the two human slots of each record
    copies,      \* unvalidated.validator_1 and validator_2
    assignment,  \* assignments: at most one row per record
    validated,   \* validated: the published identity of a record, or None
    merged,      \* validated_record_merges: the survivor, or None
    decision,    \* admin_decisions: the newest entry of each record
    approving,   \* per admin, what an approval in progress has read, or None
    importer,    \* what the running import has read, or None
    asked,       \* the question the nightly retry is waiting on, or None
    history      \* auxiliary: why a record is rejected, and whether it was re-keyed

vars == <<status, row, queue, copies, assignment, validated, merged, decision,
          approving, importer, asked, history>>

Slots            == {"human_1", "human_2"}
Statuses         == {"unvalidated", "validation_inprogress", "consensus_reached",
                     "need_review", "validated", "rejected"}
DECIDED_STATUSES == {"validated", "rejected"}
Identities       == OrNone(Dois) \X OrNone(Titles)

FreeSlot       == [validator |-> None, phase |-> "free", answer |-> None]
HeldBy(v, p)   == [validator |-> v, phase |-> p, answer |-> None]
DoneBy(v, a)   == [validator |-> v, phase |-> "done", answer |-> a]
NoAssignment   == [to |-> None, state |-> "none"]
NoDecision     == [action |-> None, before |-> None, after |-> None, rejection |-> None]

Stored     == Submitted \cup {SeniorReject}
SlotValues == {FreeSlot}
              \cup {HeldBy(v, p) : v \in Validators, p \in {"buffered", "started"}}
              \cup {DoneBy(v, a) : v \in Validators, a \in Stored}

Rows == [restricted_access : BOOLEAN, is_tiebreaker : BOOLEAN,
         llm_validator : OrNone(AiAnswers), final : OrNone(Identities),
         admin_checked : BOOLEAN, auto_rule : {None, "trusted", "experienced"},
         raw : Extractions]

Copies == [by : Validators, answer : Stored]

Actions == {"approved", "rejected", "merged", "resolved", "original_removed",
            "flagged_for_review", "sent_back", "reopened_by_import"}

Decisions == [action : OrNone(Actions), before : OrNone(Statuses),
              after : OrNone(Statuses), rejection : OrNone(Actions)]

\* A re-key between the import's second reading of the record and its update.
Rekeys   == [record : Records, raw : Shipped, reopens : BOOLEAN]
SlotMaps == [seen : [Records -> [status : Statuses, active : BOOLEAN]],
             handled : SUBSET Records, rekeying : OrNone(Rekeys)]

Approvals == [record : Records, identity : Identities]
Questions == [record : Records, tiebreaker : BOOLEAN, llm : AiAnswers,
              touched : BOOLEAN]

ASSUME WorkflowAssumption ==
    /\ None \notin Records \cup Validators \cup Admins
    /\ None \notin Identities \cup Submitted \cup AiAnswers \cup {SeniorReject}
    /\ None \notin Finals \cup SlotMaps \cup Rekeys
    /\ Seniors \subseteq Trusted /\ Trusted \subseteq Validators
    /\ Experienced \subseteq Validators /\ Assignees \subseteq Validators
    /\ LinkedTo \in [Admins -> OrNone(Validators)]
    /\ Shipped \subseteq Extractions
    /\ FirstRaw \in [Records -> Extractions]
    /\ Submitted \subseteq Answers
    /\ AiAnswers \subseteq LlmAnswers
    /\ TypedIdentities \subseteq Identities

TypeOK ==
    /\ status \in [Records -> Statuses]
    /\ row \in [Records -> Rows]
    /\ queue \in [Records -> [Slots -> SlotValues]]
    /\ copies \in [Records -> [Slots -> OrNone(Copies)]]
    /\ assignment \in [Records -> [to : OrNone(Validators),
                                   state : {"none", "open", "done"}]]
    /\ validated \in [Records -> OrNone(Identities)]
    /\ merged \in [Records -> OrNone(Records)]
    /\ decision \in [Records -> Decisions]
    /\ approving \in [Admins -> OrNone(Approvals)]
    /\ importer \in OrNone(SlotMaps)
    /\ asked \in OrNone(Questions)
    /\ history \in [Records -> [cause : {None, "removed", "other"}, rekeyed : BOOLEAN]]

Init ==
    /\ status = [r \in Records |-> "unvalidated"]
    /\ row = [r \in Records |->
                [restricted_access |-> FALSE, is_tiebreaker |-> FALSE,
                 llm_validator |-> None, final |-> None,
                 admin_checked |-> FALSE, auto_rule |-> None, raw |-> FirstRaw[r]]]
    /\ queue = [r \in Records |-> [s \in Slots |-> FreeSlot]]
    /\ copies = [r \in Records |-> [s \in Slots |-> None]]
    /\ assignment = [r \in Records |-> NoAssignment]
    /\ validated = [r \in Records |-> None]
    /\ merged = [r \in Records |-> None]
    /\ decision = [r \in Records |-> NoDecision]
    /\ approving = [a \in Admins |-> None]
    /\ importer = None
    /\ asked = None
    /\ history = [r \in Records |-> [cause |-> None, rekeyed |-> FALSE]]

-----------------------------------------------------------------------------
(* Readings of the tables.                                                 *)

IsHeld(slot)    == slot.phase \in {"buffered", "started"}
BothDone(slots) == \A s \in Slots : slots[s].phase = "done"
OpenSlots(r, v) == {s \in Slots : IsHeld(queue[r][s]) /\ queue[r][s].validator = v}

\* Mutant of Taken: identities are compared as the extractor gave them.
MutTakenByExtraction(r) == {<<row[o].raw.doi_o, row[o].raw.title_o>> :
                                o \in {x \in Records \ {r} : validated[x] # None}}

\* The identities other entries hold in validated.
Taken(r) == {validated[o] : o \in Records \ {r}} \ {None}

\* The identity a record has now: its final values, else the extracted ones.
Current(r) == IF row[r].final # None THEN row[r].final
              ELSE <<row[r].raw.doi_o, row[r].raw.title_o>>

Team(slots) == [trusted     |-> Cardinality({s \in Slots : slots[s].validator \in Trusted}),
                experienced |-> Cardinality({s \in Slots : slots[s].validator \in Experienced})]

\* Mutant of NotDecided: a decided record is not refused.
MutNotRefused(r) == TRUE

\* _refuse_if_decided
NotDecided(r) == status[r] \notin DECIDED_STATUSES

CopyAnswer(copy) == IF copy = None THEN None ELSE copy.answer

\* _self_approval: an admin who judged the record may decide it only if the
\* other validator agrees, or if they rejected it as a senior.
MayDecide(a, r) ==
    LET me     == LinkedTo[a]
        done   == {s \in Slots : queue[r][s].phase = "done"}
        inQueue == \E s \in done : queue[r][s].validator = me
        mine   == inQueue \/ \E s \in Slots : copies[r][s] # None /\ copies[r][s].by = me
        h1     == queue[r]["human_1"]
        h2     == queue[r]["human_2"]
    IN  me # None /\ mine =>
            /\ inQueue /\ done = Slots
            /\ IF h1.validator = h2.validator
               THEN h1.answer.senior_reject \/ h2.answer.senior_reject
               ELSE ChecksAgree(h1.answer, h2.answer) /\ CorrectionsAgree(h1.answer, h2.answer)

(* What the handlers write.                                                *)

\* Mutant of Released: answered slots are emptied too.
MutReleasedAll(slots) == [s \in Slots |-> FreeSlot]

\* _release_open_slots
Released(slots) ==
    [s \in Slots |-> IF slots[s].phase = "done" THEN slots[s] ELSE FreeSlot]

\* Mutant of ReleasedBy: the slot keeps its holder.
MutReleasedKeepsHolder(v, slots) ==
    [s \in Slots |-> IF IsHeld(slots[s]) /\ slots[s].validator = v
                     THEN [slots[s] EXCEPT !.phase = "free"] ELSE slots[s]]

\* _release_skipped_slot
ReleasedBy(v, slots) ==
    [s \in Slots |-> IF IsHeld(slots[s]) /\ slots[s].validator = v THEN FreeSlot
                     ELSE slots[s]]

\* _restore_status_after_skip, and the same statement in the reaper
Restored(st, slots) ==
    IF st = "validation_inprogress" /\ \A s \in Slots : slots[s].phase = "free"
    THEN "unvalidated" ELSE st

Closed(asg) == IF asg.state = "open" THEN [asg EXCEPT !.state = "done"] ELSE asg

\* Mutant of CloseOpenWork: the open slots are not released.
MutCloseAssignmentOnly(r) ==
    /\ assignment' = [assignment EXCEPT ![r] = Closed(@)]
    /\ UNCHANGED queue

\* _close_open_work
CloseOpenWork(r) ==
    /\ assignment' = [assignment EXCEPT ![r] = Closed(@)]
    /\ queue' = [queue EXCEPT ![r] = Released(@)]

\* _log_decision, with the status the caller read and the one it left
Logged(last, action, before, after) ==
    [action |-> action, before |-> before, after |-> after,
     rejection |-> IF after = "rejected" THEN action ELSE last.rejection]

LogDecision(r, action, before, after) ==
    decision' = [decision EXCEPT ![r] = Logged(@, action, before, after)]

\* updated_at = NOW()
Touched(r) == IF asked # None /\ asked.record = r
              THEN [asked EXCEPT !.touched = TRUE] ELSE asked

\* Mutant of AdminChecked: admin_checked is not set.
MutNotChecked(r) == UNCHANGED row

\* admin_checked = TRUE, of every decision but a flag
AdminChecked(r) == row' = [row EXCEPT ![r].admin_checked = TRUE]

\* A decision by a person that has looked at the record as it is now.
Reviewed(h) == [h EXCEPT !.rekeyed = FALSE]
-----------------------------------------------------------------------------
(* Validators.                                                             *)

\* Mutant of Claimable: a validator may claim both slots.
MutClaimableTwice(r, v) ==
    /\ status[r] \in {"unvalidated", "validation_inprogress"}
    /\ ~row[r].restricted_access
    /\ \E s \in Slots : queue[r][s].phase = "free"

\* _claim_free_slot: one slot per validator and record, the lowest free one.
Claimable(r, v) ==
    /\ status[r] \in {"unvalidated", "validation_inprogress"}
    /\ ~row[r].restricted_access
    /\ \A s \in Slots : queue[r][s].validator # v
    /\ \E s \in Slots : queue[r][s].phase = "free"

Claimed(slots, v, phase) ==
    LET s == IF slots["human_1"].phase = "free" THEN "human_1" ELSE "human_2"
    IN  [slots EXCEPT ![s] = HeldBy(v, phase)]

\* POST /api/next-pairs.  first is the record of a freshly started pair (None
\* when a started one is resumed, or none is left), rest the buffered ones.
NextPairs(v, bufferedOnly, first, rest) ==
    LET claimed == rest \cup ({first} \ {None})
        own(r)  == IF ~bufferedOnly /\ status[r] \in DECIDED_STATUSES
                   THEN ReleasedBy(v, queue[r]) ELSE queue[r]
    IN  /\ bufferedOnly => first = None
        /\ first \notin rest
        /\ \A r \in claimed : Claimable(r, v)
        /\ queue' = [r \in Records |->
                        IF r \in claimed
                        THEN Claimed(queue[r], v, IF r = first THEN "started" ELSE "buffered")
                        ELSE own(r)]
        /\ status' = [r \in Records |->
                        IF r \in claimed THEN "validation_inprogress" ELSE status[r]]
        /\ UNCHANGED <<row, copies, assignment, validated, merged, decision,
                       approving, importer, asked, history>>

\* POST /api/pairs/{queue_id}/start
StartPair(v, r, s) ==
    /\ s \in OpenSlots(r, v)
    /\ queue' = [queue EXCEPT ![r][s].phase = "started"]
    /\ UNCHANGED <<status, row, copies, assignment, validated, merged, decision,
                   approving, importer, asked, history>>

\* POST /api/skip.  An access problem also takes the record out of serving.
Skip(v, r, inaccessible) ==
    /\ OpenSlots(r, v) # {}
    /\ queue' = [queue EXCEPT ![r] = ReleasedBy(v, @)]
    /\ row' = [row EXCEPT ![r].restricted_access = @ \/ inaccessible]
    /\ status' = [status EXCEPT ![r] = Restored(@, queue'[r])]
    /\ asked' = IF inaccessible \/ status' # status THEN Touched(r) ELSE asked
    /\ UNCHANGED <<copies, assignment, validated, merged, decision, approving,
                   importer, history>>

\* POST /api/restricted: any validator, about any record.
ReportRestricted(v, r) ==
    /\ row' = [row EXCEPT ![r].restricted_access = TRUE]
    /\ queue' = [queue EXCEPT ![r] = ReleasedBy(v, @)]
    /\ status' = IF OpenSlots(r, v) = {} THEN status
                 ELSE [status EXCEPT ![r] = Restored(@, queue'[r])]
    /\ asked' = IF status' # status THEN Touched(r) ELSE asked
    /\ UNCHANGED <<copies, assignment, validated, merged, decision, approving,
                   importer, history>>

\* evaluate_consensus on the slots of r, with _update_status and
\* _insert_validated.  A record not judged twice, or decided, is left as it is.
Consensus(r, slots, ai) ==
    LET v == EvaluateConsensus(row[r].raw, slots["human_1"].answer,
                               slots["human_2"].answer, ai, Team(slots), Taken(r))
    IN  IF ~BothDone(slots) \/ status[r] \in DECIDED_STATUSES
        THEN UNCHANGED <<status, row, validated, history>>
        ELSE /\ status' = [status EXCEPT ![r] = v.status]
             /\ row' = [row EXCEPT
                    ![r].is_tiebreaker = v.tie,
                    ![r].final = IF v.final = None THEN @ ELSE Identity(v.final),
                    ![r].llm_validator = StoredLlm(@, ai, v.stores),
                    ![r].auto_rule = IF v.rule = None THEN @ ELSE v.rule]
             /\ validated' = [validated EXCEPT
                    ![r] = CASE v.status = "rejected"  -> None
                             [] v.status = "validated" -> Identity(v.final)
                             [] OTHER                  -> @]
             /\ history' = [history EXCEPT
                    ![r].cause = IF v.status = "rejected" THEN "other" ELSE @]

\* POST /api/judge.  Only a validator whose answer is in gets past a decision,
\* and finds no open slot then.
Judge(v, r, answer, ai) ==
    \E s \in OpenSlots(r, v) :
        LET slots == [queue[r] EXCEPT ![s] = DoneBy(v, answer)]
            answered == \E t \in Slots : /\ queue[r][t].validator = v
                                         /\ queue[r][t].phase = "done"
        IN  /\ answered \/ NotDecided(r)
            /\ queue' = [queue EXCEPT ![r] = slots]
            /\ copies' = [copies EXCEPT ![r][s] = [by |-> v, answer |-> answer]]
            /\ Consensus(r, slots, ai)
            /\ UNCHANGED <<assignment, merged, decision, approving, importer, asked>>

\* POST /api/senior-reject.  The partner's slot goes too, unless it is judged.
SeniorRejectEntry(v, r) ==
    \E s \in OpenSlots(r, v) :
        LET mine == {s} \cup {t \in Slots : queue[r][t].phase # "done"}
        IN  /\ v \in Seniors
            /\ NotDecided(r)
            /\ status' = [status EXCEPT ![r] = "rejected"]
            /\ queue' = [queue EXCEPT ![r] = [t \in Slots |->
                    IF t \in mine THEN DoneBy(v, SeniorReject) ELSE @[t]]]
            /\ copies' = [copies EXCEPT ![r] = [t \in Slots |->
                    IF t \in mine THEN [by |-> v, answer |-> SeniorReject] ELSE @[t]]]
            /\ validated' = [validated EXCEPT ![r] = None]
            /\ assignment' = [assignment EXCEPT ![r] = Closed(@)]
            /\ asked' = Touched(r)
            /\ history' = [history EXCEPT ![r].cause = "other"]
            /\ UNCHANGED <<row, merged, decision, approving, importer>>

\* POST /api/assignment-judge: the assignee alone settles the record.
AssignmentJudge(v, r, answer) ==
    LET new == IF EffectiveType(answer) = "not_validation" THEN "rejected"
               ELSE IF IsUnsure(answer) THEN "need_review"
               ELSE "consensus_reached"
    IN  /\ assignment[r] = [to |-> v, state |-> "open"]
        /\ answer.outcome_check \in Checks
        /\ NotDecided(r)
        /\ status' = [status EXCEPT ![r] = new]
        /\ row' = [row EXCEPT
                ![r].final = <<First(answer.corrected_doi_o, Current(r)[1]),
                               First(answer.corrected_title_o, Current(r)[2])>>,
                ![r].restricted_access = FALSE]
        /\ copies' = [copies EXCEPT ![r]["human_1"] = [by |-> v, answer |-> answer]]
        /\ validated' = IF new = "rejected" THEN [validated EXCEPT ![r] = None]
                        ELSE validated
        /\ CloseOpenWork(r)
        /\ asked' = Touched(r)
        /\ history' = [history EXCEPT
                ![r] = [cause |-> IF new = "rejected" THEN "other" ELSE @.cause,
                        rekeyed |-> FALSE]]
        /\ UNCHANGED <<merged, decision, approving, importer>>

-----------------------------------------------------------------------------
(* Admins.                                                                 *)

\* POST /api/admin/assign: one row per record, reassigning replaces it.
AdminAssign(r, v) ==
    /\ v \in Assignees
    /\ NotDecided(r)
    /\ assignment' = [assignment EXCEPT ![r] = [to |-> v, state |-> "open"]]
    /\ UNCHANGED <<status, row, queue, copies, validated, merged, decision,
                   approving, importer, asked, history>>

\* POST .../approve, up to its first write: nothing is locked yet.
ApproveRead(a, r) ==
    /\ approving[a] = None
    /\ status[r] = "consensus_reached"
    /\ MayDecide(a, r)
    /\ approving' = [approving EXCEPT ![a] = [record |-> r, identity |-> Current(r)]]
    /\ UNCHANGED <<status, row, queue, copies, assignment, validated, merged,
                   decision, importer, asked, history>>

\* The rest of it, on what was read.  Another entry's identity is refused.
ApproveApply(a) ==
    LET r  == approving[a].record
        id == approving[a].identity
    IN  /\ approving[a] # None
        /\ id \notin Taken(r)
        /\ approving' = [approving EXCEPT ![a] = None]
        /\ status' = [status EXCEPT ![r] = "validated"]
        /\ AdminChecked(r)
        /\ validated' = [validated EXCEPT ![r] = id]
        /\ CloseOpenWork(r)
        /\ LogDecision(r, "approved", "consensus_reached", "validated")
        /\ asked' = Touched(r)
        /\ history' = [history EXCEPT ![r] = Reviewed(@)]
        /\ UNCHANGED <<copies, merged, importer>>

ApproveRefused(a) ==
    /\ approving[a] # None
    /\ approving[a].identity \in Taken(approving[a].record)
    /\ approving' = [approving EXCEPT ![a] = None]
    /\ UNCHANGED <<status, row, queue, copies, assignment, validated, merged,
                   decision, importer, asked, history>>

\* Mutant of AdminRejects: the published row stays.
MutAdminRejectsPublished(r, action, cause) ==
    /\ status' = [status EXCEPT ![r] = "rejected"]
    /\ CloseOpenWork(r)
    /\ LogDecision(r, action, status[r], "rejected")
    /\ asked' = Touched(r)
    /\ history' = [history EXCEPT ![r] = [cause |-> cause, rekeyed |-> FALSE]]
    /\ UNCHANGED <<copies, validated, approving, importer>>

\* What every rejecting decision of an admin writes.
AdminRejects(r, action, cause) ==
    /\ status' = [status EXCEPT ![r] = "rejected"]
    /\ validated' = [validated EXCEPT ![r] = None]
    /\ CloseOpenWork(r)
    /\ LogDecision(r, action, status[r], "rejected")
    /\ asked' = Touched(r)
    /\ history' = [history EXCEPT ![r] = [cause |-> cause, rekeyed |-> FALSE]]
    /\ UNCHANGED <<copies, approving, importer>>

\* POST .../remove-original
RemoveOriginal(a, r) ==
    /\ status[r] = "need_review"
    /\ RemovalProposed(CopyAnswer(copies[r]["human_1"]), CopyAnswer(copies[r]["human_2"]))
    /\ MayDecide(a, r)
    /\ AdminRejects(r, "original_removed", "removed")
    /\ AdminChecked(r)
    /\ UNCHANGED merged

\* POST .../flag-review: also takes back what a rule validated.
FlagReview(r) ==
    LET auto == status[r] = "validated" /\ ~row[r].admin_checked
    IN  /\ status[r] \in {"consensus_reached", "need_review"} \/ auto
        /\ status' = [status EXCEPT ![r] = "need_review"]
        /\ validated' = IF auto THEN [validated EXCEPT ![r] = None] ELSE validated
        /\ LogDecision(r, IF auto THEN "sent_back" ELSE "flagged_for_review",
                       status[r], "need_review")
        /\ asked' = Touched(r)
        /\ UNCHANGED <<row, queue, copies, assignment, merged, approving, importer,
                       history>>

MayResolve(a, r) ==
    /\ MayDecide(a, r)
    /\ merged[r] = None
    /\ \/ status[r] \in {"need_review", "consensus_reached", "rejected"}
       \/ BothDone(queue[r])

\* POST .../resolve, type not_validation.
ResolveReject(a, r) ==
    /\ MayResolve(a, r)
    /\ AdminRejects(r, "rejected", "other")
    /\ AdminChecked(r)
    /\ UNCHANGED merged

\* POST .../resolve with an identity nobody else holds.
ResolvePublish(a, r, id) ==
    /\ MayResolve(a, r)
    /\ id \notin Taken(r)
    /\ status' = [status EXCEPT ![r] = "validated"]
    /\ row' = [row EXCEPT ![r].admin_checked = TRUE, ![r].final = id]
    /\ validated' = [validated EXCEPT ![r] = id]
    /\ CloseOpenWork(r)
    /\ LogDecision(r, "resolved", status[r], "validated")
    /\ asked' = Touched(r)
    /\ history' = [history EXCEPT ![r] = Reviewed(@)]
    /\ UNCHANGED <<copies, merged, approving, importer>>

\* POST .../resolve with the identity of another entry, which the request names
\* as the survivor.  Without it the request is refused.
ResolveMerge(a, r, id, survivor) ==
    /\ MayResolve(a, r)
    /\ survivor # r
    /\ validated[survivor] = id
    /\ AdminRejects(r, "merged", "other")
    /\ row' = [row EXCEPT ![r].admin_checked = TRUE, ![r].final = id]
    /\ merged' = [merged EXCEPT ![r] = survivor]
-----------------------------------------------------------------------------
(* Jobs.                                                                   *)

\* Mutant of PastLimit: started slots never lapse.
MutPastLimit(slot) == slot.phase = "buffered"

\* Any held slot may be past its time limit, a started one after five days.
PastLimit(slot) == IsHeld(slot)

\* _reap_stale_slots
Reap(stale) ==
    /\ stale # {}
    /\ \A x \in stale : PastLimit(queue[x[1]][x[2]])
    /\ queue' = [r \in Records |-> [s \in Slots |->
                    IF <<r, s>> \in stale THEN FreeSlot ELSE queue[r][s]]]
    /\ status' = [r \in Records |->
                    IF \E s \in Slots : <<r, s>> \in stale
                    THEN Restored(status[r], queue'[r]) ELSE status[r]]
    /\ UNCHANGED <<row, copies, assignment, validated, merged, decision,
                   approving, importer, asked, history>>

\* csv_to_db.run_import begins: the slot map is loaded once, nothing is locked.
ImportStart ==
    /\ importer = None
    /\ Shipped # {}
    /\ importer' = [seen |-> [r \in Records |->
                       [status |-> status[r],
                        active |-> \E s \in Slots : queue[r][s].phase # "free"]],
                    handled |-> {},
                    rekeying |-> None]
    /\ UNCHANGED <<status, row, queue, copies, assignment, validated, merged,
                   decision, approving, asked, history>>

\* The import takes its rows one by one.
Idle == importer # None /\ importer.rekeying = None

Handled(r) == importer' = [importer EXCEPT !.handled = @ \cup {r}, !.rekeying = None]

\* _refresh_extractor_fields: the pair keeps its identity, decided or not.
ImportRefresh(r, new) ==
    /\ Idle /\ r \notin importer.handled
    /\ new # row[r].raw /\ new.doi_o = row[r].raw.doi_o
    /\ row' = [row EXCEPT ![r].raw = new]
    /\ asked' = Touched(r)
    /\ Handled(r)
    /\ UNCHANGED <<status, queue, copies, assignment, validated, merged,
                   decision, approving, history>>

\* Originals are told apart by DOI, and by title where neither has one.
AnotherOriginal(old, new) ==
    \/ new.doi_o # old.doi_o
    \/ new.doi_o = None /\ new.title_o # old.title_o

\* Mutant of RemovedOriginalWasReplaced: the judgements need not have proposed the removal.
MutReplacedByLogOnly(r, new) ==
    /\ decision[r].rejection = "original_removed"
    /\ AnotherOriginal(row[r].raw, new)

\* _removed_original_was_replaced: one SELECT, which locks nothing.
RemovedOriginalWasReplaced(r, new) ==
    /\ decision[r].rejection = "original_removed"
    /\ AnotherOriginal(row[r].raw, new)
    /\ RemovalProposed(CopyAnswer(copies[r]["human_1"]), CopyAnswer(copies[r]["human_2"]))

\* _refresh_rekeyed_record, its readings: the record is shipped with another pair
\* id.  It is not asked again whether the record is still rejected.
ImportRekeyRead(r, new) ==
    /\ Idle /\ r \notin importer.handled
    /\ importer' = [importer EXCEPT !.rekeying =
            [record  |-> r,
             raw     |-> new,
             reopens |-> /\ importer.seen[r].status = "rejected"
                         /\ RemovedOriginalWasReplaced(r, new)]]
    /\ UNCHANGED <<status, row, queue, copies, assignment, validated, merged,
                   decision, approving, asked, history>>

Rekeying(r, new, reopens) ==
    /\ importer # None
    /\ importer.rekeying = [record |-> r, raw |-> new, reopens |-> reopens]

\* Its updates, of a record whose removed original was replaced when it looked:
\* archive the record as it is by now, and start over.
ImportReopen(r, new) ==
    /\ Rekeying(r, new, TRUE)
    /\ status' = [status EXCEPT ![r] = "unvalidated"]
    /\ row' = [row EXCEPT ![r] = [@ EXCEPT
            !.raw = new, !.is_tiebreaker = FALSE, !.llm_validator = None,
            !.final = None, !.admin_checked = FALSE, !.auto_rule = None]]
    /\ queue' = [queue EXCEPT ![r] = [s \in Slots |-> FreeSlot]]
    /\ copies' = [copies EXCEPT ![r] = [s \in Slots |-> None]]
    /\ LogDecision(r, "reopened_by_import", "rejected", "unvalidated")
    /\ asked' = Touched(r)
    /\ history' = [history EXCEPT ![r] = Reviewed(@)]
    /\ Handled(r)
    /\ UNCHANGED <<assignment, validated, merged, approving>>

\* Its updates otherwise.  Both tests are on the slot map.
ImportRekey(r, new) ==
    LET flagged == importer.seen[r].active /\ importer.seen[r].status # "rejected"
    IN  /\ Rekeying(r, new, FALSE)
        /\ row' = [row EXCEPT ![r].raw = new]
        /\ status' = IF flagged THEN [status EXCEPT ![r] = "need_review"] ELSE status
        /\ history' = IF flagged THEN [history EXCEPT ![r].rekeyed = TRUE] ELSE history
        /\ asked' = Touched(r)
        /\ Handled(r)
        /\ UNCHANGED <<queue, copies, assignment, validated, merged, decision, approving>>

ImportEnd ==
    /\ Idle
    /\ importer' = None
    /\ UNCHANGED <<status, row, queue, copies, assignment, validated, merged,
                   decision, approving, asked, history>>

\* _is_stuck_tiebreaker and _has_open_llm_error
LlmFailed(r) == row[r].llm_validator # None /\ row[r].llm_validator.error

StuckTiebreaker(r) ==
    status[r] = "need_review" /\ row[r].is_tiebreaker /\ LlmFailed(r)

OpenLlmError(r) ==
    /\ status[r] \in {"need_review", "consensus_reached"}
    /\ ~row[r].is_tiebreaker
    /\ LlmFailed(r)

\* _nightly_llm_retry asks one question at a time, in one process.
RetryAsk(r) ==
    /\ asked = None
    /\ StuckTiebreaker(r) \/ OpenLlmError(r)
    /\ asked' = [record |-> r, tiebreaker |-> row[r].is_tiebreaker,
                 llm |-> row[r].llm_validator, touched |-> FALSE]
    /\ UNCHANGED <<status, row, queue, copies, assignment, validated, merged,
                   decision, approving, importer, history>>

\* Mutant of StillStuck: the two answers are not compared.
MutStillStuckSwapped == /\ StuckTiebreaker(asked.record)
                        /\ row[asked.record].llm_validator # asked.llm
                        /\ ~asked.touched

\* The test _retry_tiebreaker makes under the lock.
StillStuck == /\ StuckTiebreaker(asked.record)
              /\ row[asked.record].llm_validator = asked.llm
              /\ ~asked.touched

\* The test _retry_llm_error makes under the lock.
StillFailed == /\ OpenLlmError(asked.record)
               /\ row[asked.record].llm_validator = asked.llm

RetryTiebreaker(ai) ==
    /\ asked # None /\ asked.tiebreaker
    /\ StillStuck
    /\ Consensus(asked.record, queue[asked.record], ai)
    /\ asked' = None
    /\ UNCHANGED <<queue, copies, assignment, merged, decision, approving, importer>>

RetryLlmError(ai) ==
    /\ asked # None /\ ~asked.tiebreaker
    /\ ~ai.error
    /\ StillFailed
    /\ row' = [row EXCEPT ![asked.record].llm_validator = ai]
    /\ asked' = None
    /\ UNCHANGED <<status, queue, copies, assignment, validated, merged, decision,
                   approving, importer, history>>

RetryDrop(ai) ==
    /\ asked # None
    /\ IF asked.tiebreaker THEN ~StillStuck ELSE ai.error \/ ~StillFailed
    /\ asked' = None
    /\ UNCHANGED <<status, row, queue, copies, assignment, validated, merged,
                   decision, approving, importer, history>>

-----------------------------------------------------------------------------
Validate(v) ==
    \/ \E bufferedOnly \in BOOLEAN, first \in OrNone(Records), rest \in SUBSET Records :
           NextPairs(v, bufferedOnly, first, rest)
    \/ \E r \in Records :
           \/ \E s \in Slots : StartPair(v, r, s)
           \/ \E inaccessible \in BOOLEAN : Skip(v, r, inaccessible)
           \/ ReportRestricted(v, r)
           \/ \E answer \in Submitted, ai \in AiAnswers : Judge(v, r, answer, ai)
           \/ SeniorRejectEntry(v, r)
           \/ \E answer \in Submitted : AssignmentJudge(v, r, answer)

Administer(a) ==
    \/ ApproveApply(a)
    \/ ApproveRefused(a)
    \/ \E r \in Records :
           \/ \E v \in Validators : AdminAssign(r, v)
           \/ ApproveRead(a, r)
           \/ RemoveOriginal(a, r)
           \/ FlagReview(r)
           \/ ResolveReject(a, r)
           \/ \E id \in TypedIdentities \cup {Current(r)} :
                  \/ ResolvePublish(a, r, id)
                  \/ \E survivor \in Records : ResolveMerge(a, r, id, survivor)

Import ==
    \/ ImportStart
    \/ \E r \in Records, new \in Shipped :
           \/ ImportRefresh(r, new)
           \/ ImportRekeyRead(r, new)
           \/ ImportReopen(r, new)
           \/ ImportRekey(r, new)
    \/ ImportEnd

NightlyRetry ==
    \/ \E r \in Records : RetryAsk(r)
    \/ \E ai \in AiAnswers : RetryTiebreaker(ai) \/ RetryLlmError(ai) \/ RetryDrop(ai)

Next ==
    \/ \E v \in Validators : Validate(v)
    \/ \E a \in Admins : Administer(a)
    \/ \E stale \in SUBSET (Records \X Slots) : Reap(stale)
    \/ Import
    \/ NightlyRetry

Spec == Init /\ [][Next]_vars

\* The scheduler runs the reaper every few minutes and the retry every night,
\* in order over all records.  Nothing else is fair: people may stop.  Of the
\* AI it is assumed that a question on a record is, in some night, answered
\* without an error and before somebody changes the record.
Fairness ==
    /\ \A r \in Records, s \in Slots :
           WF_vars(\E stale \in SUBSET (Records \X Slots) : <<r, s>> \in stale /\ Reap(stale))
    /\ \A r \in Records : SF_vars(RetryAsk(r))
    /\ \A r \in Records :
           SF_vars(asked # None /\ asked.record = r /\ \E ai \in AiAnswers :
                       ~ai.error /\ (RetryTiebreaker(ai) \/ RetryLlmError(ai)))
    /\ WF_vars(\E ai \in AiAnswers : RetryTiebreaker(ai) \/ RetryLlmError(ai) \/ RetryDrop(ai))

FairSpec == Spec /\ Fairness
-----------------------------------------------------------------------------
(* Safety.                                                                 *)

\* Nobody is left working on a record that is settled: a page is open only on
\* a record still collecting judgements, or on one the import re-keyed under it.
\* Every deciding handler has to release the slots, whoever decided in between.
OpenSlotIsOnOpenRecord ==
    \A r \in Records : (\E s \in Slots : IsHeld(queue[r][s])) =>
        \/ status[r] = "validation_inprogress"
        \/ status[r] = "need_review" /\ history[r].rekeyed

\* What is published follows the status, through every way to decide, take
\* back, merge and re-open a record: a validated one has its row in validated,
\* a rejected one has none.
PublishedAsDecided ==
    \A r \in Records :
        /\ status[r] = "validated" => validated[r] # None
        /\ status[r] = "rejected" => validated[r] = None

\* A record's two judgements come from two people, however its slots are
\* claimed, released and claimed again: only a senior's reject fills both.
SoleJudge ==
    \A r \in Records :
        LET h1 == queue[r]["human_1"]
            h2 == queue[r]["human_2"]
        IN  h1.validator # None /\ h1.validator = h2.validator =>
                h1.answer = SeniorReject /\ h2.answer = SeniorReject

\* The status is what the slots say it is, although six handlers and the reaper
\* change both: an untouched record has free slots, one in progress has somebody
\* on it, and two judgements never wait for a verdict.
StatusMatchesSlots ==
    \A r \in Records :
        /\ status[r] = "unvalidated" => \A s \in Slots : queue[r][s].phase = "free"
        /\ status[r] = "validation_inprogress" =>
               /\ \E s \in Slots : queue[r][s].phase # "free"
               /\ ~BothDone(queue[r])

\* What no admin has checked is published only by a rule: from two agreeing
\* judgements of different people, one of them trusted or both experienced,
\* with the identity they settled on.
UncheckedIsByRule ==
    \A r \in Records : status[r] = "validated" /\ ~row[r].admin_checked =>
        LET h1 == queue[r]["human_1"]
            h2 == queue[r]["human_2"]
        IN  /\ row[r].auto_rule # None
            /\ BothDone(queue[r])
            /\ h1.validator # h2.validator
            /\ {h1.validator, h2.validator} \cap Trusted # {}
                   \/ {h1.validator, h2.validator} \subseteq Experienced
            /\ ChecksAgree(h1.answer, h2.answer) /\ CorrectionsAgree(h1.answer, h2.answer)
            /\ validated[r] = row[r].final

\* No two entries are published under one identity, whether the engine, an
\* approval on an old reading or a resolve publishes them.
IdentityIsUnique ==
    \A r, o \in Records : r # o /\ validated[r] # None => validated[r] # validated[o]

-----------------------------------------------------------------------------
(* Steps.                                                                  *)

\* A judgement that was accepted is never lost or rewritten; only the re-opening
\* of a record whose original was replaced clears it, after archiving it.
JudgementsAreKept ==
    [][\A r \in Records, s \in Slots : queue[r][s].phase = "done" =>
           queue'[r][s] = queue[r][s] \/ status'[r] = "unvalidated"]_vars

\* A decision is undone only by a logged decision or by the import: not by a
\* late judgement, a late answer of the AI, an assignment or the reaper.
DecisionsStand ==
    [][\A r \in Records :
           status[r] \in DECIDED_STATUSES /\ status'[r] # status[r] =>
               decision'[r].after = status'[r] \/ importer' # importer]_vars

\* The import is about to start r over.
Reopening(r) == /\ importer # None /\ importer.rekeying # None
                /\ importer.rekeying.record = r
                /\ importer.rekeying.reopens

\* A rejected record starts over only if, when the import looked at it, it was
\* rejected for its original.  The log alone does not say so: not every rejection
\* is logged.
ReopenedForItsOriginal ==
    [][\A r \in Records : status[r] = "rejected" =>
           /\ ~Reopening(r) /\ Reopening(r)' => history[r].cause = "removed"
           /\ status'[r] = "unvalidated" => Reopening(r)]_vars

\* "without overwriting final decisions. The one exception is an original an admin
\* removed": what the import starts over is rejected, and for its original.
OnlyRemovalsStartOver ==
    [][\A r \in Records :
           status[r] \in DECIDED_STATUSES /\ status'[r] = "unvalidated" =>
               status[r] = "rejected" /\ history[r].cause = "removed"]_vars

\* What a status means to the public and to the people at work.
LifeOf(st) == CASE st = "validated" -> "published"
                [] st = "rejected" -> "rejected"
                [] st \in {"need_review", "consensus_reached"} -> "review"
                [] OTHER -> "open"

LifeNow == [r \in Records |-> LifeOf(status[r])]

\* The records live as RecordLife promises: handlers that read, decide and publish
\* in steps of their own, on readings that may be old, do no more than decide one
\* record, under an identity nobody else is published under; and what the public
\* sees changes with nothing else, neither the draw, a skip, the reaper nor the
\* import.
Life == INSTANCE RecordLife WITH
            Entries   <- Records,
            Nothing   <- None,
            life      <- LifeNow,
            shown     <- validated,
            survivor  <- merged,
            importing <- importer # None

RecordsLiveAsPromised == Life!LifeSpec

-----------------------------------------------------------------------------
(* Liveness.                                                               *)

\* A slot a validator walks away from does not block the record for ever.
AbandonedSlotIsFreed ==
    \A r \in Records, s \in Slots, v \in Validators :
        (IsHeld(queue[r][s]) /\ queue[r][s].validator = v)
            ~> ~(IsHeld(queue[r][s]) /\ queue[r][s].validator = v)

\* A tiebreak the AI failed on is settled in the end, by the retry if not by
\* an admin.
StuckTiebreakerIsSettled ==
    \A r \in Records : StuckTiebreaker(r) ~> ~StuckTiebreaker(r)
=============================================================================
