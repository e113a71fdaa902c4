---------------------------- MODULE Adjudication ----------------------------
(***************************************************************************)
(* The disagreements between FLoRA and the Observatory: an import brings   *)
(* the records, two judges answer each of them independently, an admin     *)
(* approves the final answer, and publishing copies it into Source         *)
(* Records, whence it is withdrawn and published again.                    *)
(***************************************************************************)
EXTENDS Integers, FiniteSets

CONSTANTS
    Disputes,
    Judges,           \* the validators of tier Trusted or above
    Reviewers, Linked,\* the admins, and the judge each is linked to (or NoJudge)
    NoJudge,
    FinalAnswers,     \* what an admin may approve
    Unpublishable     \* those FLoRA cannot take: no original, no known outcome

JudgesPerRecord == 2

AdjudicationAssumption ==
    /\ NoJudge \notin Judges
    /\ "nobody" \notin Reviewers
    /\ Linked \in [Reviewers -> Judges \cup {NoJudge}]
    /\ Unpublishable \subseteq FinalAnswers
    /\ IsFiniteSet(Disputes)

ASSUME AdjudicationAssumption

VARIABLES
    dispute,      \* adjudication.records: status, and whether the lookups filled its gaps
    judgement,    \* adjudication.judgements; "lapsed" is a claim past CLAIM_MINUTES
    final,        \* adjudication.final
    adjRow,       \* the row of source 'adjudicated' in Source Records
    minted,       \* the last display id given, source_display_counters
    importing     \* the import's plan, while it holds both advisory locks

adjVars == <<dispute, judgement, final, adjRow, minted, importing>>

NoReviewer == "nobody"
DisputeStates == [status : {"absent", "open", "awaiting_approval", "approved", "published"},
                  enriched : BOOLEAN]
JudgementStates == {"none", "claimed", "lapsed", "submitted", "skipped"}
NoFinal == [answer |-> "none", by |-> NoReviewer, displayId |-> 0]
Finals == {NoFinal} \cup [answer : FinalAnswers, by : Reviewers,
                         displayId : 0 .. Cardinality(Disputes)]
NoAdjRow == [displayId |-> 0, answer |-> "none", deleted |-> FALSE]
AdjRows == {NoAdjRow} \cup
           [displayId : 1 .. Cardinality(Disputes), answer : FinalAnswers, deleted : BOOLEAN]
NoPlan == [d \in Disputes |-> "untouched"]
Plans == [Disputes -> {"untouched", "new", "updated", "unchanged", "kept"}]

AdjTypeOK ==
    /\ dispute \in [Disputes -> DisputeStates]
    /\ judgement \in [Disputes -> [Judges -> JudgementStates]]
    /\ final \in [Disputes -> Finals]
    /\ adjRow \in [Disputes -> AdjRows]
    /\ minted \in 0 .. Cardinality(Disputes)
    /\ importing \in [plan : Plans, found : BOOLEAN, locked : BOOLEAN]

AdjInit ==
    /\ dispute = [d \in Disputes |-> [status |-> "absent", enriched |-> FALSE]]
    /\ importing = [plan |-> NoPlan, found |-> FALSE, locked |-> FALSE]
    /\ judgement = [d \in Disputes |-> [j \in Judges |-> "none"]]
    /\ final = [d \in Disputes |-> NoFinal]
    /\ adjRow = [d \in Disputes |-> NoAdjRow]
    /\ minted = 0

Holding(d, states) == {j \in Judges : judgement[d][j] \in states}
Submitted(d) == Holding(d, {"submitted"})

----------------------------------------------------------------------------
(***************************************************************************)
(* Judging.  Claims, submissions and skips hold the judging lock, which an *)
(* applied import holds too.                                               *)
(***************************************************************************)
JudgingLockFree == ~importing.locked

TakenByOthers(d, j) == Cardinality(Holding(d, {"submitted", "claimed"}) \ {j})

OpenTo(d, j) ==
    /\ dispute[d].status = "open"
    /\ judgement[d][j] \in {"none", "claimed", "lapsed"}
    /\ TakenByOthers(d, j) < JudgesPerRecord

ClaimsOf(j) == {d \in Disputes : judgement[d][j] \in {"claimed", "lapsed"}}
StillMine(j) == {d \in ClaimsOf(j) : OpenTo(d, j)}

\* The judge's claims whose place is gone are let go; the one left is renewed.
\* Else the open record with most answers (then the kind, then the age) is
\* claimed, if any is left for this judge.
NextDispute(j) ==
    /\ JudgingLockFree
    /\ LET gone == ClaimsOf(j) \ StillMine(j)
           offered == {d \in Disputes : OpenTo(d, j)}
           ToServe == IF StillMine(j) # {} THEN StillMine(j)
                      ELSE {d \in offered : \A x \in offered :
                                Cardinality(Submitted(x)) <= Cardinality(Submitted(d))}
       IN /\ gone # {} \/ ToServe # {}
          /\ \E served \in {{d} : d \in ToServe} \cup (IF ToServe = {} THEN {{}} ELSE {}) :
              judgement' = [x \in Disputes |-> [judgement[x] EXCEPT ![j] =
                               IF x \in served THEN "claimed"
                               ELSE IF x \in gone THEN "none" ELSE @]]
    /\ UNCHANGED <<dispute, final, adjRow, minted, importing>>

\* CLAIM_MINUTES pass: the place may be taken, the claim is not yet gone.
SeatLapses(d, j) ==
    /\ judgement[d][j] = "claimed"
    /\ judgement' = [judgement EXCEPT ![d][j] = "lapsed"]
    /\ UNCHANGED <<dispute, final, adjRow, minted, importing>>

Complete(given) == Cardinality(given) >= JudgesPerRecord

Submit(d, j) ==
    /\ JudgingLockFree
    /\ d \in StillMine(j)
    /\ judgement' = [judgement EXCEPT ![d][j] = "submitted"]
    /\ dispute' = IF Complete(Submitted(d) \cup {j})
                    THEN [dispute EXCEPT ![d].status = "awaiting_approval"] ELSE dispute
    /\ UNCHANGED <<final, adjRow, minted, importing>>

SkipDispute(d, j) ==
    /\ JudgingLockFree
    /\ d \in StillMine(j)
    /\ judgement' = [judgement EXCEPT ![d][j] = "skipped"]
    /\ UNCHANGED <<dispute, final, adjRow, minted, importing>>

----------------------------------------------------------------------------
(***************************************************************************)
(* The import.  The file is fixed; the lookups that fill its gaps may find *)
(* more or fail, and what an earlier import found is kept.  Under its own  *)
(* lock and the judging lock it plans what becomes of each row, then       *)
(* writes.                                                                 *)
(***************************************************************************)
HasAnswer(d) == Submitted(d) # {}

Fills(d, found) == found /\ ~dispute[d].enriched

PlanFor(d, found) ==
    IF dispute[d].status = "absent" THEN "new"
    ELSE IF ~Fills(d, found) THEN "unchanged"
    ELSE IF HasAnswer(d) THEN "kept" ELSE "updated"

PlanImport ==
    /\ JudgingLockFree
    /\ \E found \in BOOLEAN :
        importing' = [plan |-> [d \in Disputes |-> PlanFor(d, found)],
                      found |-> found, locked |-> TRUE]
    /\ UNCHANGED <<dispute, judgement, final, adjRow, minted>>

WriteImport ==
    /\ importing.locked
    /\ dispute' = [d \in Disputes |->
          CASE importing.plan[d] = "new" -> [status |-> "open", enriched |-> importing.found]
            [] importing.plan[d] = "updated" /\ ~HasAnswer(d) ->
                    [dispute[d] EXCEPT !.enriched = TRUE]
            [] OTHER -> dispute[d]]
    /\ importing' = [plan |-> NoPlan, found |-> FALSE, locked |-> FALSE]
    /\ UNCHANGED <<judgement, final, adjRow, minted>>

----------------------------------------------------------------------------
(***************************************************************************)
(* The admin's side; each handler locks the record first.                  *)
(***************************************************************************)
\* Mutant of JudgedIt: only a claim still held counts, not an answer given.
MutJudgedIt(d, a) == Linked[a] \in Holding(d, {"claimed"})

JudgedIt(d, a) == Linked[a] \in Submitted(d)

Approve(d, a) ==
    /\ dispute[d].status \in {"awaiting_approval", "approved"}
    /\ ~JudgedIt(d, a)
    /\ \E answer \in FinalAnswers :
        final' = [final EXCEPT ![d] = [@ EXCEPT !.answer = answer, !.by = a]]
    /\ dispute' = [dispute EXCEPT ![d].status = "approved"]
    /\ UNCHANGED <<judgement, adjRow, minted, importing>>

NeverInFlora(d) == final[d].displayId = 0

\* Only for an answer that has never been in FLoRA.
UndoApproval(d) ==
    /\ dispute[d].status = "approved"
    /\ NeverInFlora(d)
    /\ final' = [final EXCEPT ![d] = NoFinal]
    /\ dispute' = [dispute EXCEPT ![d].status = "awaiting_approval"]
    /\ UNCHANGED <<judgement, adjRow, minted, importing>>

\* publish_problem: FLoRA takes an answer with an original and a known outcome.
Publishable(d) == final[d].answer \notin Unpublishable

\* Mutant of AdjudicatedRow: a row that comes back keeps the answer it had.
MutAdjudicatedRow(d, id) ==
    [displayId |-> id, deleted |-> FALSE,
     answer |-> IF adjRow[d] = NoAdjRow THEN final[d].answer ELSE adjRow[d].answer]

\* The row that publishing writes, or updates: with the final's answer as it is now.
AdjudicatedRow(d, id) == [displayId |-> id, answer |-> final[d].answer, deleted |-> FALSE]

\* A row that was there before comes back with its display id.
Publish(d) ==
    /\ dispute[d].status = "approved"
    /\ Publishable(d)
    /\ minted' = IF adjRow[d] = NoAdjRow THEN minted + 1 ELSE minted
    /\ LET id == IF adjRow[d] = NoAdjRow THEN minted + 1 ELSE adjRow[d].displayId
       IN /\ adjRow' = [adjRow EXCEPT ![d] = AdjudicatedRow(d, id)]
          /\ final' = [final EXCEPT ![d].displayId = id]
    /\ dispute' = [dispute EXCEPT ![d].status = "published"]
    /\ UNCHANGED <<judgement, importing>>

Withdraw(d) ==
    /\ dispute[d].status = "published"
    /\ adjRow' = [adjRow EXCEPT ![d].deleted = TRUE]
    /\ dispute' = [dispute EXCEPT ![d].status = "approved"]
    /\ UNCHANGED <<judgement, final, minted, importing>>

AdjNext ==
    \/ \E j \in Judges : NextDispute(j)
    \/ \E d \in Disputes, j \in Judges : SeatLapses(d, j) \/ Submit(d, j) \/ SkipDispute(d, j)
    \/ PlanImport
    \/ WriteImport
    \/ \E d \in Disputes, a \in Reviewers : Approve(d, a)
    \/ \E d \in Disputes : UndoApproval(d) \/ Publish(d) \/ Withdraw(d)

AdjSpec == AdjInit /\ [][AdjNext]_adjVars

----------------------------------------------------------------------------
\* "Two validators can never take the same place" (judging.py:1-14): whatever
\* lapses, is renewed, skipped or taken over, at most two places of a record are
\* held, it leaves 'open' exactly with its second answer, and a judge works on one
\* record at a time.
TwoPlaces ==
    /\ \A d \in Disputes :
        /\ Cardinality(Holding(d, {"submitted", "claimed"})) <= JudgesPerRecord
        /\ (dispute[d].status \notin {"absent", "open"}) <=>
               (Cardinality(Submitted(d)) = JudgesPerRecord)
    /\ \A j \in Judges : Cardinality(StillMine(j)) <= 1

\* What FLoRA holds is what was approved (review.py:12-21): a published record has a
\* live row with its final answer, any other has none; the answer was approved by
\* somebody who did not judge the record; and an answer that was once in FLoRA keeps
\* its history, under the display id of its row.
ServedAsApproved ==
    \A d \in Disputes :
        /\ (dispute[d].status = "published") <=> (adjRow[d] # NoAdjRow /\ ~adjRow[d].deleted)
        /\ dispute[d].status = "published" => adjRow[d].answer = final[d].answer
        /\ (dispute[d].status \in {"approved", "published"}) <=> (final[d] # NoFinal)
        /\ final[d] # NoFinal => Linked[final[d].by] \notin Submitted(d)
        /\ adjRow[d].displayId = final[d].displayId
=============================================================================
