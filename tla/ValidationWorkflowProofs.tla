----------------------- MODULE ValidationWorkflowProofs -----------------------
(***************************************************************************)
(* The invariants of ValidationWorkflow, for any records, people, slots,   *)
(* judgements and answers of the AI.                                       *)
(***************************************************************************)
EXTENDS ValidationWorkflow, ConsensusEngineProofs, FiniteSetTheorems

(* The two slots of a record.                                              *)

Pairs == [Slots -> SlotValues]

LEMMA StoredIsAnswer == Stored \subseteq Answers
<1>1. SeniorReject \in Answers
  BY DEF SeniorReject, Answers, Checks, OrNone
<1>2. Submitted \subseteq Answers
  BY WorkflowAssumption
<1> QED BY <1>1, <1>2 DEF Stored

\* A slot is free, held by somebody, or done by somebody with an answer.
LEMMA SlotShape ==
    ASSUME NEW slot \in SlotValues
    PROVE  /\ slot.phase \in {"free", "buffered", "started", "done"}
           /\ slot.validator \in OrNone(Validators)
           /\ slot.phase = "free" <=> slot.validator = None
           /\ slot.phase = "done" <=> slot.answer # None
           /\ slot.phase = "done" => slot.answer \in Stored /\ slot.answer \in Answers
BY WorkflowAssumption, StoredIsAnswer
DEF SlotValues, FreeSlot, HeldBy, DoneBy, Stored, OrNone

LEMMA SlotMakers ==
    /\ FreeSlot \in SlotValues
    /\ \A v \in Validators, p \in {"buffered", "started"} : HeldBy(v, p) \in SlotValues
    /\ \A v \in Validators, a \in Stored : DoneBy(v, a) \in SlotValues
BY DEF SlotValues

LEMMA PairMakers ==
    ASSUME NEW slots \in Pairs, NEW v \in Validators
    PROVE  /\ Released(slots) \in Pairs
           /\ ReleasedBy(v, slots) \in Pairs
           /\ \A p \in {"buffered", "started"} : Claimed(slots, v, p) \in Pairs
           /\ \A s \in Slots, a \in Stored : [slots EXCEPT ![s] = DoneBy(v, a)] \in Pairs
<1>1. Released(slots) \in Pairs /\ ReleasedBy(v, slots) \in Pairs
  BY SlotMakers DEF Pairs, Released, ReleasedBy
<1>2. ASSUME NEW p \in {"buffered", "started"} PROVE Claimed(slots, v, p) \in Pairs
  BY SlotMakers DEF Pairs, Claimed, Slots
<1>3. ASSUME NEW s \in Slots, NEW a \in Stored
      PROVE  [slots EXCEPT ![s] = DoneBy(v, a)] \in Pairs
  BY SlotMakers DEF Pairs
<1> QED BY <1>1, <1>2, <1>3

-----------------------------------------------------------------------------
(* Types.                                                                  *)

LEMMA InitType == Init => TypeOK
BY WorkflowAssumption, SlotMakers
DEF Init, TypeOK, Rows, Statuses, NoAssignment, NoDecision, Decisions, OrNone

\* One column of a record at a time.
LEMMA RowEdits ==
    ASSUME NEW x \in Rows
    PROVE  /\ x.restricted_access \in BOOLEAN
           /\ \A b \in BOOLEAN : /\ [x EXCEPT !.restricted_access = b] \in Rows
                                /\ [x EXCEPT !.is_tiebreaker = b] \in Rows
                                /\ [x EXCEPT !.admin_checked = b] \in Rows
           /\ \A l \in OrNone(AiAnswers) : [x EXCEPT !.llm_validator = l] \in Rows
           /\ \A f \in OrNone(Identities) : [x EXCEPT !.final = f] \in Rows
           /\ \A a \in {None, "trusted", "experienced"} : [x EXCEPT !.auto_rule = a] \in Rows
           /\ \A e \in Extractions : [x EXCEPT !.raw = e] \in Rows
BY DEF Rows

LEMMA CurrentType == ASSUME TypeOK, NEW r \in Records PROVE Current(r) \in Identities
BY DEF TypeOK, Current, Rows, Identities, Extractions, OrNone

LEMMA NextPairsType ==
    ASSUME TypeOK, NEW v \in Validators, NEW bufferedOnly \in BOOLEAN,
           NEW first \in OrNone(Records), NEW rest \in SUBSET Records,
           NextPairs(v, bufferedOnly, first, rest)
    PROVE  TypeOK'
<1>1. queue' \in [Records -> Pairs]
  BY PairMakers DEF NextPairs, TypeOK, Pairs
<1>2. status' \in [Records -> Statuses]
  BY DEF NextPairs, TypeOK, Statuses
<1> QED BY <1>1, <1>2 DEF NextPairs, TypeOK, Pairs

LEMMA TouchedType ==
    ASSUME TypeOK, NEW r \in Records
    PROVE  Touched(r) \in OrNone(Questions)
BY DEF Touched, TypeOK, Questions, OrNone
LEMMA SkipType ==
    ASSUME TypeOK, NEW v \in Validators, NEW r \in Records,
           NEW inaccessible \in BOOLEAN, Skip(v, r, inaccessible)
    PROVE  TypeOK'
<1>1. queue' \in [Records -> Pairs]
  BY PairMakers DEF Skip, TypeOK, Pairs
<1>2. status' \in [Records -> Statuses]
  BY DEF Skip, TypeOK, Statuses, Restored
<1>3. row' \in [Records -> Rows]
  BY RowEdits DEF Skip, TypeOK
<1>4. asked' \in OrNone(Questions)
  BY TouchedType DEF Skip, TypeOK
<1> QED BY <1>1, <1>2, <1>3, <1>4 DEF Skip, TypeOK, Pairs

LEMMA ReportRestrictedType ==
    ASSUME TypeOK, NEW v \in Validators, NEW r \in Records, ReportRestricted(v, r)
    PROVE  TypeOK'
<1>1. queue' \in [Records -> Pairs]
  BY PairMakers DEF ReportRestricted, TypeOK, Pairs
<1>2. status' \in [Records -> Statuses]
  BY DEF ReportRestricted, TypeOK, Statuses, Restored
<1>3. row' \in [Records -> Rows]
  BY RowEdits DEF ReportRestricted, TypeOK
<1>4. asked' \in OrNone(Questions)
  BY TouchedType DEF ReportRestricted, TypeOK
<1> QED BY <1>1, <1>2, <1>3, <1>4 DEF ReportRestricted, TypeOK, Pairs

\* The verdict on two stored judgements.
LEMMA VerdictOf ==
    ASSUME TypeOK, NEW r \in Records, NEW slots \in Pairs, BothDone(slots), NEW ai
    PROVE  /\ slots["human_1"].answer \in Answers /\ slots["human_2"].answer \in Answers
           /\ row[r].raw \in Extractions
           /\ EvaluateConsensus(row[r].raw, slots["human_1"].answer,
                                slots["human_2"].answer, ai, Team(slots), Taken(r))
                  \in Verdicts
<1>1. slots["human_1"].answer \in Answers /\ slots["human_2"].answer \in Answers
  BY SlotShape DEF Pairs, BothDone, Slots
<1>2. row[r].raw \in Extractions
  BY DEF TypeOK, Rows
<1> QED BY <1>1, <1>2, VerdictType

LEMMA ConsensusType ==
    ASSUME TypeOK, NEW r \in Records, NEW slots \in Pairs, NEW ai \in AiAnswers,
           Consensus(r, slots, ai)
    PROVE  /\ status' \in [Records -> Statuses]
           /\ row' \in [Records -> Rows]
           /\ validated' \in [Records -> OrNone(Identities)]
           /\ history' \in [Records -> [cause : {None, "removed", "other"}, rekeyed : BOOLEAN]]
<1> DEFINE v == EvaluateConsensus(row[r].raw, slots["human_1"].answer,
                                  slots["human_2"].answer, ai, Team(slots), Taken(r))
<1>1. CASE ~BothDone(slots) \/ status[r] \in DECIDED_STATUSES
  BY <1>1 DEF Consensus, TypeOK
<1>2. CASE BothDone(slots) /\ status[r] \notin DECIDED_STATUSES
  <2>1. v \in Verdicts
    BY <1>2, VerdictOf
  <2>2. /\ status' = [status EXCEPT ![r] = v.status]
        /\ row' = [row EXCEPT
                    ![r].is_tiebreaker = v.tie,
                    ![r].final = IF v.final = None THEN @ ELSE Identity(v.final),
                    ![r].llm_validator = StoredLlm(@, ai, v.stores),
                    ![r].auto_rule = IF v.rule = None THEN @ ELSE v.rule]
        /\ validated' = [validated EXCEPT
                    ![r] = CASE v.status = "rejected"  -> None
                             [] v.status = "validated" -> Identity(v.final)
                             [] OTHER                  -> @]
        /\ history' = [history EXCEPT
                    ![r].cause = IF v.status = "rejected" THEN "other" ELSE @]
    BY <1>2 DEF Consensus
  <2>3. v.status = "validated" => v.final \in Finals
    BY <1>2, VerdictOf, ValidatedByRule
  <2> HIDE DEF v
  <2>4. v.final # None => Identity(v.final) \in Identities
    BY <2>1 DEF Verdicts, Identity, Identities, Finals, OrNone
  <2>5. v.status = "validated" => Identity(v.final) \in Identities
    BY <2>3 DEF Identity, Identities, Finals
  <2>6. status' \in [Records -> Statuses]
    BY <2>1, <2>2 DEF TypeOK, Verdicts, Statuses
  <2>7. StoredLlm(row[r].llm_validator, ai, v.stores) \in OrNone(AiAnswers)
    BY DEF StoredLlm, TypeOK, Rows, OrNone
  <2>8. row' \in [Records -> Rows]
    <3>1. /\ v.tie \in BOOLEAN
          /\ v.rule \in {None, "trusted", "experienced"}
      BY <2>1 DEF Verdicts
    <3>2. row' = [row EXCEPT ![r] = [row[r] EXCEPT
                      !.is_tiebreaker = v.tie,
                      !.final = IF v.final = None THEN row[r].final ELSE Identity(v.final),
                      !.llm_validator = StoredLlm(row[r].llm_validator, ai, v.stores),
                      !.auto_rule = IF v.rule = None THEN row[r].auto_rule ELSE v.rule]]
      BY <2>2 DEF TypeOK, Rows
    <3>3. row[r] \in Rows
      BY DEF TypeOK
    <3>4. row'[r] \in Rows
      BY <2>4, <2>7, <3>1, <3>2, <3>3 DEF Rows, OrNone, TypeOK
    <3> QED BY <2>2, <3>4 DEF TypeOK
  <2>9. validated' \in [Records -> OrNone(Identities)]
    BY <2>2, <2>5 DEF TypeOK, OrNone
  <2>10. history' \in [Records -> [cause : {None, "removed", "other"}, rekeyed : BOOLEAN]]
    BY <2>2 DEF TypeOK
  <2> QED BY <2>6, <2>8, <2>9, <2>10
<1> QED BY <1>1, <1>2
LEMMA JudgeType ==
    ASSUME TypeOK, NEW v \in Validators, NEW r \in Records, NEW answer \in Submitted,
           NEW ai \in AiAnswers, Judge(v, r, answer, ai)
    PROVE  TypeOK'
<1>1. PICK s \in Slots :
          /\ queue' = [queue EXCEPT ![r] = [queue[r] EXCEPT ![s] = DoneBy(v, answer)]]
          /\ copies' = [copies EXCEPT ![r][s] = [by |-> v, answer |-> answer]]
          /\ Consensus(r, [queue[r] EXCEPT ![s] = DoneBy(v, answer)], ai)
          /\ UNCHANGED <<assignment, merged, decision, approving, importer, asked>>
  BY DEF Judge, OpenSlots
<1>2. [queue[r] EXCEPT ![s] = DoneBy(v, answer)] \in Pairs
  BY PairMakers DEF TypeOK, Pairs, Stored
<1>3. queue' \in [Records -> Pairs]
  BY <1>1, <1>2 DEF TypeOK, Pairs
<1>4. copies' \in [Records -> [Slots -> OrNone(Copies)]]
  BY <1>1 DEF TypeOK, Copies, Stored, OrNone
<1> QED BY <1>1, <1>2, <1>3, <1>4, ConsensusType DEF TypeOK, Pairs

LEMMA SeniorRejectType ==
    ASSUME TypeOK, NEW v \in Validators, NEW r \in Records, SeniorRejectEntry(v, r)
    PROVE  TypeOK'
<1>1. PICK mine \in SUBSET Slots :
          /\ queue' = [queue EXCEPT ![r] = [t \in Slots |->
                  IF t \in mine THEN DoneBy(v, SeniorReject) ELSE queue[r][t]]]
          /\ copies' = [copies EXCEPT ![r] = [t \in Slots |->
                  IF t \in mine THEN [by |-> v, answer |-> SeniorReject] ELSE copies[r][t]]]
  <2>1. PICK s \in OpenSlots(r, v) :
            LET mine == {s} \cup {t \in Slots : queue[r][t].phase # "done"}
            IN  /\ queue' = [queue EXCEPT ![r] = [t \in Slots |->
                        IF t \in mine THEN DoneBy(v, SeniorReject) ELSE queue[r][t]]]
                /\ copies' = [copies EXCEPT ![r] = [t \in Slots |->
                        IF t \in mine THEN [by |-> v, answer |-> SeniorReject] ELSE copies[r][t]]]
    BY DEF SeniorRejectEntry
  <2>2. {s} \cup {t \in Slots : queue[r][t].phase # "done"} \in SUBSET Slots
    BY DEF OpenSlots
  <2> QED BY <2>1, <2>2
<1>2. /\ status' = [status EXCEPT ![r] = "rejected"]
      /\ validated' = [validated EXCEPT ![r] = None]
      /\ assignment' = [assignment EXCEPT ![r] = Closed(@)]
      /\ asked' = Touched(r)
      /\ history' = [history EXCEPT ![r].cause = "other"]
      /\ UNCHANGED <<row, merged, decision, approving, importer>>
  BY DEF SeniorRejectEntry
<1>3. queue' \in [Records -> Pairs]
  BY <1>1, SlotMakers DEF TypeOK, Pairs, Stored
<1>4. copies' \in [Records -> [Slots -> OrNone(Copies)]]
  BY <1>1 DEF TypeOK, Copies, Stored, OrNone
<1>5. /\ status' \in [Records -> Statuses]
      /\ validated' \in [Records -> OrNone(Identities)]
      /\ assignment' \in [Records -> [to : OrNone(Validators), state : {"none", "open", "done"}]]
      /\ asked' \in OrNone(Questions)
      /\ history' \in [Records -> [cause : {None, "removed", "other"}, rekeyed : BOOLEAN]]
  BY <1>2, TouchedType DEF TypeOK, Statuses, Closed, OrNone
<1> QED BY <1>2, <1>3, <1>4, <1>5 DEF TypeOK, Pairs

LEMMA CloseOpenWorkType ==
    ASSUME TypeOK, NEW r \in Records, CloseOpenWork(r)
    PROVE  /\ queue' \in [Records -> Pairs]
           /\ assignment' \in [Records -> [to : OrNone(Validators),
                                          state : {"none", "open", "done"}]]
<1>1. Released(queue[r]) \in Pairs
  BY SlotMakers DEF TypeOK, Pairs, Released
<1> QED BY <1>1 DEF CloseOpenWork, TypeOK, Pairs, Closed

LEMMA AssignmentJudgeType ==
    ASSUME TypeOK, NEW v \in Validators, NEW r \in Records, NEW answer \in Submitted,
           AssignmentJudge(v, r, answer)
    PROVE  TypeOK'
<1> DEFINE final == <<First(answer.corrected_doi_o, Current(r)[1]),
                      First(answer.corrected_title_o, Current(r)[2])>>
<1>1. PICK new \in {"rejected", "need_review", "consensus_reached"} :
          /\ status' = [status EXCEPT ![r] = new]
          /\ validated' = IF new = "rejected" THEN [validated EXCEPT ![r] = None]
                          ELSE validated
          /\ history' = [history EXCEPT
                  ![r] = [cause |-> IF new = "rejected" THEN "other" ELSE history[r].cause,
                          rekeyed |-> FALSE]]
  BY DEF AssignmentJudge
<1>2. /\ row' = [row EXCEPT ![r].final = final, ![r].restricted_access = FALSE]
      /\ copies' = [copies EXCEPT ![r]["human_1"] = [by |-> v, answer |-> answer]]
      /\ CloseOpenWork(r)
      /\ asked' = Touched(r)
      /\ UNCHANGED <<merged, decision, approving, importer>>
  BY DEF AssignmentJudge
<1>3. final \in Identities
  <2>1. Current(r) \in Identities
    BY CurrentType
  <2>2. answer \in Answers
    BY WorkflowAssumption
  <2> QED BY <2>1, <2>2 DEF Identities, First, Answers, OrNone
<1> HIDE DEF final
<1>4. row' \in [Records -> Rows]
  <2>1. /\ [row[r] EXCEPT !.final = final] \in Rows
        /\ [[row[r] EXCEPT !.final = final] EXCEPT !.restricted_access = FALSE] \in Rows
    BY <1>3, RowEdits DEF TypeOK, OrNone
  <2> QED BY <1>2, <2>1 DEF TypeOK
<1>5. copies' \in [Records -> [Slots -> OrNone(Copies)]]
  BY <1>2 DEF TypeOK, Copies, Stored, OrNone, Slots
<1>6. /\ status' \in [Records -> Statuses]
      /\ validated' \in [Records -> OrNone(Identities)]
      /\ history' \in [Records -> [cause : {None, "removed", "other"}, rekeyed : BOOLEAN]]
  BY <1>1 DEF TypeOK, Statuses, OrNone
<1>7. asked' \in OrNone(Questions)
  BY <1>2, TouchedType
<1> QED BY <1>2, <1>4, <1>5, <1>6, <1>7, CloseOpenWorkType DEF TypeOK, Pairs

LEMMA LoggedType ==
    ASSUME TypeOK, NEW r \in Records, NEW action \in Actions,
           NEW before \in Statuses, NEW after \in Statuses,
           LogDecision(r, action, before, after)
    PROVE  decision' \in [Records -> Decisions]
BY DEF LogDecision, Logged, TypeOK, Decisions, OrNone

LEMMA AdminCheckedType ==
    ASSUME TypeOK, NEW r \in Records, AdminChecked(r)
    PROVE  row' \in [Records -> Rows]
BY RowEdits DEF AdminChecked, TypeOK

LEMMA ResolvedRowType ==
    ASSUME TypeOK, NEW r \in Records, NEW id \in Identities,
           row' = [row EXCEPT ![r].admin_checked = TRUE, ![r].final = id]
    PROVE  row' \in [Records -> Rows]
<1>1. [[row[r] EXCEPT !.admin_checked = TRUE] EXCEPT !.final = id] \in Rows
  BY RowEdits DEF TypeOK, OrNone
<1> QED BY <1>1 DEF TypeOK

LEMMA ApproveApplyType ==
    ASSUME TypeOK, NEW a \in Admins, ApproveApply(a)
    PROVE  TypeOK'
<1> DEFINE r  == approving[a].record
           id == approving[a].identity
<1>1. r \in Records /\ id \in Identities
  BY DEF ApproveApply, TypeOK, Approvals, OrNone
<1>2. /\ approving' = [approving EXCEPT ![a] = None]
      /\ status' = [status EXCEPT ![r] = "validated"]
      /\ AdminChecked(r)
      /\ validated' = [validated EXCEPT ![r] = id]
      /\ CloseOpenWork(r)
      /\ LogDecision(r, "approved", "consensus_reached", "validated")
      /\ asked' = Touched(r)
      /\ history' = [history EXCEPT ![r] = Reviewed(@)]
      /\ UNCHANGED <<copies, merged, importer>>
  BY DEF ApproveApply
<1> HIDE DEF r, id
<1>3. decision' \in [Records -> Decisions]
  BY <1>1, <1>2, LoggedType DEF Actions, Statuses
<1>4. /\ status' \in [Records -> Statuses]
      /\ validated' \in [Records -> OrNone(Identities)]
      /\ approving' \in [Admins -> OrNone(Approvals)]
      /\ history' \in [Records -> [cause : {None, "removed", "other"}, rekeyed : BOOLEAN]]
  BY <1>1, <1>2 DEF TypeOK, Statuses, Reviewed, OrNone
<1> QED BY <1>1, <1>2, <1>3, <1>4, TouchedType, CloseOpenWorkType, AdminCheckedType
        DEF TypeOK, Pairs

LEMMA AdminRejectsType ==
    ASSUME TypeOK, NEW r \in Records, NEW action \in Actions,
           NEW cause \in {"removed", "other"},
           AdminRejects(r, action, cause),
           row' \in [Records -> Rows], merged' \in [Records -> OrNone(Records)]
    PROVE  TypeOK'
<1>1. decision' \in [Records -> Decisions]
  <2>1. status[r] \in Statuses /\ "rejected" \in Statuses
    BY DEF TypeOK, Statuses
  <2> QED BY <2>1, LoggedType DEF AdminRejects
<1>2. /\ status' \in [Records -> Statuses]
      /\ validated' \in [Records -> OrNone(Identities)]
      /\ history' \in [Records -> [cause : {None, "removed", "other"}, rekeyed : BOOLEAN]]
  BY DEF AdminRejects, TypeOK, Statuses, OrNone
<1> QED BY <1>1, <1>2, TouchedType, CloseOpenWorkType DEF AdminRejects, TypeOK, Pairs

LEMMA FlagReviewType ==
    ASSUME TypeOK, NEW r \in Records, FlagReview(r)
    PROVE  TypeOK'
<1>1. PICK action \in Actions : LogDecision(r, action, status[r], "need_review")
  BY DEF FlagReview, Actions
<1>2. decision' \in [Records -> Decisions]
  <2>1. status[r] \in Statuses /\ "need_review" \in Statuses
    BY DEF TypeOK, Statuses
  <2> QED BY <1>1, <2>1, LoggedType
<1>3. /\ status' \in [Records -> Statuses]
      /\ validated' \in [Records -> OrNone(Identities)]
  BY DEF FlagReview, TypeOK, Statuses, OrNone
<1> QED BY <1>2, <1>3, TouchedType DEF FlagReview, TypeOK

LEMMA ResolvePublishType ==
    ASSUME TypeOK, NEW a \in Admins, NEW r \in Records, NEW id \in Identities,
           ResolvePublish(a, r, id)
    PROVE  TypeOK'
<1>1. row' \in [Records -> Rows]
  BY ResolvedRowType DEF ResolvePublish
<1>2. decision' \in [Records -> Decisions]
  <2>1. status[r] \in Statuses /\ "validated" \in Statuses /\ "resolved" \in Actions
    BY DEF TypeOK, Statuses, Actions
  <2> QED BY <2>1, LoggedType DEF ResolvePublish
<1>3. /\ status' \in [Records -> Statuses]
      /\ validated' \in [Records -> OrNone(Identities)]
      /\ history' \in [Records -> [cause : {None, "removed", "other"}, rekeyed : BOOLEAN]]
  BY DEF ResolvePublish, TypeOK, Statuses, Reviewed, OrNone
<1> QED BY <1>1, <1>2, <1>3, TouchedType, CloseOpenWorkType DEF ResolvePublish, TypeOK, Pairs
LEMMA ReapType ==
    ASSUME TypeOK, NEW stale \in SUBSET (Records \X Slots), Reap(stale)
    PROVE  TypeOK'
<1>1. queue' \in [Records -> Pairs]
  BY SlotMakers DEF Reap, TypeOK, Pairs
<1>2. status' \in [Records -> Statuses]
  BY DEF Reap, Restored, TypeOK, Statuses
<1> QED BY <1>1, <1>2 DEF Reap, TypeOK, Pairs

LEMMA ImportStartType ==
    ASSUME TypeOK, ImportStart PROVE TypeOK'
<1>1. importer' \in SlotMaps
  BY DEF ImportStart, SlotMaps, TypeOK, OrNone
<1> QED BY <1>1 DEF ImportStart, TypeOK, OrNone

LEMMA RekeyReadType ==
    ASSUME TypeOK, NEW r \in Records, NEW new \in Shipped, ImportRekeyRead(r, new)
    PROVE  TypeOK' /\ importer' # None
<1> DEFINE read == [record |-> r, raw |-> new,
                    reopens |-> /\ importer.seen[r].status = "rejected"
                                /\ RemovedOriginalWasReplaced(r, new)]
<1>1. importer \in SlotMaps /\ importer' = [importer EXCEPT !.rekeying = read]
  BY DEF ImportRekeyRead, Idle, TypeOK, OrNone
<1>2. read \in Rekeys
  BY DEF Rekeys
<1> HIDE DEF read
<1>3. importer' \in SlotMaps
  BY <1>1, <1>2 DEF SlotMaps, OrNone
<1> QED BY <1>3, WorkflowAssumption DEF ImportRekeyRead, TypeOK, OrNone

LEMMA HandledType ==
    ASSUME TypeOK, NEW r \in Records, importer # None, Handled(r)
    PROVE  importer' \in OrNone(SlotMaps)
BY DEF Handled, TypeOK, SlotMaps, OrNone

LEMMA ImportRefreshType ==
    ASSUME TypeOK, NEW r \in Records, NEW new \in Shipped, ImportRefresh(r, new)
    PROVE  TypeOK'
<1>1. row' \in [Records -> Rows]
  BY RowEdits, WorkflowAssumption DEF ImportRefresh, TypeOK
<1> QED BY <1>1, HandledType, TouchedType DEF ImportRefresh, Idle, TypeOK

LEMMA ImportReopenType ==
    ASSUME TypeOK, NEW r \in Records, NEW new \in Shipped, ImportReopen(r, new)
    PROVE  TypeOK'
<1> DEFINE x == [row[r] EXCEPT !.raw = new, !.is_tiebreaker = FALSE,
                    !.llm_validator = None, !.final = None, !.admin_checked = FALSE,
                    !.auto_rule = None]
<1>1. row' = [row EXCEPT ![r] = x]
  BY DEF ImportReopen
<1>2. x \in Rows
  <2>1. row[r] \in Rows /\ new \in Extractions
    BY WorkflowAssumption DEF TypeOK
  <2> QED BY <2>1 DEF Rows, OrNone
<1> HIDE DEF x
<1>3. row' \in [Records -> Rows]
  BY <1>1, <1>2 DEF TypeOK
<1>4. queue' \in [Records -> Pairs]
  BY SlotMakers DEF ImportReopen, TypeOK, Pairs
<1>5. decision' \in [Records -> Decisions]
  <2>1. {"rejected", "unvalidated"} \subseteq Statuses /\ "reopened_by_import" \in Actions
    BY DEF Statuses, Actions
  <2> QED BY <2>1, LoggedType DEF ImportReopen
<1>6. /\ status' \in [Records -> Statuses]
      /\ copies' \in [Records -> [Slots -> OrNone(Copies)]]
      /\ history' \in [Records -> [cause : {None, "removed", "other"}, rekeyed : BOOLEAN]]
  BY DEF ImportReopen, TypeOK, Statuses, Reviewed, OrNone
<1>7. /\ importer' \in OrNone(SlotMaps)
      /\ asked' \in OrNone(Questions)
      /\ UNCHANGED <<assignment, validated, merged, approving>>
  BY HandledType, TouchedType DEF ImportReopen, Rekeying
<1> QED BY <1>3, <1>4, <1>5, <1>6, <1>7 DEF TypeOK, Pairs

LEMMA ImportRekeyType ==
    ASSUME TypeOK, NEW r \in Records, NEW new \in Shipped, ImportRekey(r, new)
    PROVE  TypeOK'
<1>1. row' \in [Records -> Rows]
  BY RowEdits, WorkflowAssumption DEF ImportRekey, TypeOK
<1>2. /\ status' \in [Records -> Statuses]
      /\ history' \in [Records -> [cause : {None, "removed", "other"}, rekeyed : BOOLEAN]]
  BY DEF ImportRekey, TypeOK, Statuses
<1> QED BY <1>1, <1>2, HandledType, TouchedType DEF ImportRekey, Rekeying, TypeOK

LEMMA RetryType ==
    ASSUME TypeOK, NightlyRetry PROVE TypeOK'
<1>1. ASSUME NEW r \in Records, RetryAsk(r) PROVE TypeOK'
  <2>1. asked' \in Questions
    BY <1>1 DEF RetryAsk, StuckTiebreaker, OpenLlmError, LlmFailed, Questions, TypeOK,
                Rows, OrNone
  <2> QED BY <1>1, <2>1 DEF RetryAsk, TypeOK, OrNone
<1>2. ASSUME NEW ai \in AiAnswers, RetryTiebreaker(ai) PROVE TypeOK'
  <2>1. asked.record \in Records /\ queue[asked.record] \in Pairs
    BY <1>2 DEF RetryTiebreaker, TypeOK, Questions, Pairs, OrNone
  <2>2. Consensus(asked.record, queue[asked.record], ai)
    BY <1>2 DEF RetryTiebreaker
  <2> QED BY <1>2, <2>1, <2>2, ConsensusType DEF RetryTiebreaker, TypeOK, OrNone
<1>3. ASSUME NEW ai \in AiAnswers, RetryLlmError(ai) PROVE TypeOK'
  <2>1. asked.record \in Records
    BY <1>3 DEF RetryLlmError, TypeOK, Questions, OrNone
  <2>2. row' \in [Records -> Rows]
    BY <1>3, <2>1, RowEdits DEF RetryLlmError, TypeOK, OrNone
  <2> QED BY <1>3, <2>2 DEF RetryLlmError, TypeOK, OrNone
<1>4. ASSUME NEW ai \in AiAnswers, RetryDrop(ai) PROVE TypeOK'
  BY <1>4 DEF RetryDrop, TypeOK, OrNone
<1> QED BY <1>1, <1>2, <1>3, <1>4 DEF NightlyRetry

LEMMA ImportType ==
    ASSUME TypeOK, Import PROVE TypeOK'
<1>1. ASSUME ImportEnd PROVE TypeOK'
  BY <1>1 DEF ImportEnd, TypeOK, OrNone
<1> QED BY <1>1, ImportStartType, ImportRefreshType, RekeyReadType, ImportReopenType,
           ImportRekeyType
        DEF Import

LEMMA ValidateType ==
    ASSUME TypeOK, NEW v \in Validators, Validate(v) PROVE TypeOK'
<1>1. ASSUME NEW r \in Records, NEW s \in Slots, StartPair(v, r, s) PROVE TypeOK'
  <2>1. PICK u \in Validators, p \in {"buffered", "started"} : queue[r][s] = HeldBy(u, p)
    <3>1. queue[r][s] \in SlotValues
      BY DEF TypeOK
    <3>2. IsHeld(queue[r][s])
      BY <1>1 DEF StartPair, OpenSlots
    <3>3. ~IsHeld(FreeSlot) /\ \A u, a : ~IsHeld(DoneBy(u, a))
      BY DEF IsHeld, FreeSlot, DoneBy
    <3> QED BY <3>1, <3>2, <3>3 DEF SlotValues
  <2>2. [queue[r][s] EXCEPT !.phase = "started"] = HeldBy(u, "started")
    BY <2>1 DEF HeldBy
  <2>3. [queue[r][s] EXCEPT !.phase = "started"] \in SlotValues
    BY <2>2, SlotMakers
  <2> QED BY <1>1, <2>3 DEF StartPair, TypeOK
<1> QED BY <1>1, NextPairsType, SkipType, ReportRestrictedType, JudgeType, SeniorRejectType,
           AssignmentJudgeType
        DEF Validate

LEMMA AdministerType ==
    ASSUME TypeOK, NEW a \in Admins, Administer(a) PROVE TypeOK'
<1>1. ASSUME ApproveRefused(a) PROVE TypeOK'
  BY <1>1 DEF ApproveRefused, TypeOK, OrNone
<1>2. ASSUME NEW r \in Records, NEW v \in Validators, AdminAssign(r, v) PROVE TypeOK'
  BY <1>2 DEF AdminAssign, TypeOK, OrNone
<1>3. ASSUME NEW r \in Records, ApproveRead(a, r) PROVE TypeOK'
  <2>1. [record |-> r, identity |-> Current(r)] \in Approvals
    BY CurrentType DEF Approvals
  <2> QED BY <1>3, <2>1 DEF ApproveRead, TypeOK, OrNone
<1>4. ASSUME NEW r \in Records, RemoveOriginal(a, r) PROVE TypeOK'
  <2>1. AdminRejects(r, "original_removed", "removed") /\ AdminChecked(r) /\ UNCHANGED merged
    BY <1>4 DEF RemoveOriginal
  <2> QED BY <2>1, AdminRejectsType, AdminCheckedType DEF Actions, TypeOK
<1>5. ASSUME NEW r \in Records, ResolveReject(a, r) PROVE TypeOK'
  <2>1. AdminRejects(r, "rejected", "other") /\ AdminChecked(r) /\ UNCHANGED merged
    BY <1>5 DEF ResolveReject
  <2> QED BY <2>1, AdminRejectsType, AdminCheckedType DEF Actions, TypeOK
<1>6. ASSUME NEW r \in Records, NEW id \in TypedIdentities \cup {Current(r)}
      PROVE  id \in Identities
  BY CurrentType, WorkflowAssumption
<1>7. ASSUME NEW r \in Records, NEW id \in Identities, NEW survivor \in Records,
             ResolveMerge(a, r, id, survivor)
      PROVE  TypeOK'
  <2>1. row' \in [Records -> Rows]
    BY <1>7, ResolvedRowType DEF ResolveMerge
  <2>2. merged' \in [Records -> OrNone(Records)]
    BY <1>7 DEF ResolveMerge, TypeOK, OrNone
  <2>3. AdminRejects(r, "merged", "other")
    BY <1>7 DEF ResolveMerge
  <2> QED BY <2>1, <2>2, <2>3, AdminRejectsType DEF Actions
<1> QED BY <1>1, <1>2, <1>3, <1>4, <1>5, <1>6, <1>7, ApproveApplyType, FlagReviewType,
           ResolvePublishType
        DEF Administer

LEMMA StepType == TypeOK /\ [Next]_vars => TypeOK'
<1> SUFFICES ASSUME TypeOK, [Next]_vars PROVE TypeOK'
  OBVIOUS
<1>1. CASE UNCHANGED vars
  BY <1>1 DEF TypeOK, vars
<1>2. CASE Next
  BY <1>2, ValidateType, AdministerType, ReapType, ImportType, RetryType DEF Next
<1> QED BY <1>1, <1>2

\* Every table keeps its shape: a slot is free, held or done, whoever releases
\* or fills it, and no handler, verdict or import writes a value a column cannot
\* hold.
THEOREM TypeCorrect == Spec => []TypeOK
BY InitType, StepType, PTL DEF Spec

-----------------------------------------------------------------------------
(***************************************************************************)
(* The invariants that tie the two slots of a record to each other and to  *)
(* its status, proved together: each needs the other two.  They are local  *)
(* to a record, so every handler is reduced to what it does to the status, *)
(* the pair of slots and the re-key mark of one record.                    *)
(***************************************************************************)
Sole(slots) ==
    LET a == slots["human_1"]
        b == slots["human_2"]
    IN  a.validator # None /\ a.validator = b.validator =>
            a.answer = SeniorReject /\ b.answer = SeniorReject

Attended(st, slots, rekeyed) ==
    (\E s \in Slots : IsHeld(slots[s])) =>
        st = "validation_inprogress" \/ (st = "need_review" /\ rekeyed)

Fits(st, slots) ==
    /\ st = "unvalidated" => \A s \in Slots : slots[s].phase = "free"
    /\ st = "validation_inprogress" => /\ \E s \in Slots : slots[s].phase # "free"
                                       /\ ~BothDone(slots)

RecordOK(st, slots, rekeyed) ==
    Sole(slots) /\ Attended(st, slots, rekeyed) /\ Fits(st, slots)

SlotsOK == \A r \in Records : RecordOK(status[r], queue[r], history[r].rekeyed)

Settled == {"need_review", "consensus_reached", "validated", "rejected"}

-----------------------------------------------------------------------------
(* What the handlers do to one record.                                     *)

\* Giving back held slots, with the status restored (skip, restricted, reaper).
LEMMA Freed ==
    ASSUME NEW st, NEW rekeyed, NEW slots \in Pairs, NEW after \in Pairs,
           RecordOK(st, slots, rekeyed),
           \A s \in Slots : \/ after[s] = slots[s]
                            \/ (after[s] = FreeSlot /\ IsHeld(slots[s]))
    PROVE  RecordOK(Restored(st, after), after, rekeyed)
<1>1. Sole(after)
  BY DEF RecordOK, Sole, FreeSlot, Slots
<1>2. \A s \in Slots : IsHeld(after[s]) => IsHeld(slots[s])
  BY DEF IsHeld, FreeSlot
<1>3. \A s \in Slots : after[s].phase = "done" => slots[s].phase = "done"
  BY DEF FreeSlot
<1>4. \A s \in Slots : slots[s].phase = "free" => after[s].phase = "free"
  BY DEF FreeSlot
<1>5. (\A s \in Slots : after[s].phase = "free") => \A s \in Slots : ~IsHeld(after[s])
  BY DEF IsHeld
<1> QED BY <1>1, <1>2, <1>3, <1>4, <1>5 DEF RecordOK, Restored, Attended, Fits, BothDone

\* A decision closes what is open: judged slots stay, the others are freed.
LEMMA ReleasedSettles ==
    ASSUME NEW st \in Settled, NEW old, NEW rekeyed, NEW before, NEW slots \in Pairs,
           RecordOK(old, slots, before)
    PROVE  RecordOK(st, Released(slots), rekeyed)
<1>1. \A s \in Slots : Released(slots)[s] = FreeSlot
                       \/ (Released(slots)[s] = slots[s] /\ slots[s].phase = "done")
  BY DEF Released
<1>2. Sole(Released(slots))
  BY <1>1 DEF RecordOK, Sole, FreeSlot, Slots
<1>3. \A s \in Slots : ~IsHeld(Released(slots)[s])
  BY <1>1 DEF IsHeld, FreeSlot
<1> QED BY <1>2, <1>3 DEF RecordOK, Attended, Fits, Settled

\* Claiming needs a free slot, and no slot of the same validator.
LEMMA ClaimedInProgress ==
    ASSUME NEW st, NEW rekeyed, NEW slots \in Pairs, NEW v \in Validators,
           NEW p \in {"buffered", "started"},
           RecordOK(st, slots, rekeyed),
           \A s \in Slots : slots[s].validator # v,
           \E s \in Slots : slots[s].phase = "free"
    PROVE  RecordOK("validation_inprogress", Claimed(slots, v, p), rekeyed)
<1>1. PICK s \in Slots : /\ slots[s].phase = "free"
                         /\ Claimed(slots, v, p) = [slots EXCEPT ![s] = HeldBy(v, p)]
  BY DEF Claimed, Slots
<1>2. \A t \in Slots : Claimed(slots, v, p)[t] = IF t = s THEN HeldBy(v, p) ELSE slots[t]
  BY <1>1 DEF Pairs
<1>3. Sole(Claimed(slots, v, p))
  BY <1>2 DEF RecordOK, Sole, HeldBy, Slots
<1>4. Claimed(slots, v, p)[s].phase = p
  BY <1>2 DEF HeldBy
<1> QED BY <1>3, <1>4 DEF RecordOK, Attended, Fits, BothDone

\* A judgement fills a held slot.  No other slot has the same holder.
LEMMA Filled ==
    ASSUME NEW st, NEW rekeyed, NEW slots \in Pairs, NEW v \in Validators,
           NEW s \in Slots, NEW a \in Stored,
           RecordOK(st, slots, rekeyed),
           IsHeld(slots[s]), slots[s].validator = v
    PROVE  LET after == [slots EXCEPT ![s] = DoneBy(v, a)]
           IN  /\ ~BothDone(after) => RecordOK(st, after, rekeyed)
               /\ BothDone(after) => \A new \in Settled, k \in BOOLEAN :
                                         RecordOK(new, after, k)
               /\ st \notin DECIDED_STATUSES
<1> DEFINE after == [slots EXCEPT ![s] = DoneBy(v, a)]
<1>1. \A t \in Slots : after[t] = IF t = s THEN DoneBy(v, a) ELSE slots[t]
  BY DEF Pairs
<1>2. slots[s].answer = None
  BY SlotShape DEF Pairs, IsHeld
<1>3. SeniorReject # None
  BY WorkflowAssumption
<1>4. Sole(after)
  BY <1>1, <1>2, <1>3, WorkflowAssumption DEF RecordOK, Sole, DoneBy, Slots
<1>5. \A t \in Slots : IsHeld(after[t]) => IsHeld(slots[t])
  BY <1>1 DEF IsHeld, DoneBy
<1>6. st = "validation_inprogress" \/ (st = "need_review" /\ rekeyed)
  BY DEF RecordOK, Attended
<1>7. after[s].phase = "done"
  BY <1>1 DEF DoneBy
<1>8. BothDone(after) => \A t \in Slots : ~IsHeld(after[t])
  BY DEF BothDone, IsHeld
<1> HIDE DEF after
<1>9. ~BothDone(after) => RecordOK(st, after, rekeyed)
  BY <1>4, <1>5, <1>6, <1>7 DEF RecordOK, Attended, Fits
<1>10. ASSUME BothDone(after), NEW new \in Settled, NEW k \in BOOLEAN
       PROVE  RecordOK(new, after, k)
  BY <1>4, <1>8, <1>10 DEF RecordOK, Attended, Fits, Settled
<1> QED BY <1>6, <1>9, <1>10 DEF DECIDED_STATUSES, after

\* A senior's reject fills every slot that is not judged.
LEMMA SeniorFills ==
    ASSUME NEW st, NEW rekeyed, NEW k, NEW slots \in Pairs, NEW v \in Validators,
           NEW s \in Slots, RecordOK(st, slots, rekeyed),
           IsHeld(slots[s]), slots[s].validator = v
    PROVE  RecordOK("rejected",
                    [t \in Slots |-> IF t \in {s} \cup {u \in Slots : slots[u].phase # "done"}
                                     THEN DoneBy(v, SeniorReject) ELSE slots[t]],
                    k)
<1> DEFINE after == [t \in Slots |-> IF t \in {s} \cup {u \in Slots : slots[u].phase # "done"}
                                     THEN DoneBy(v, SeniorReject) ELSE slots[t]]
<1>1. \A t \in Slots : \/ after[t] = DoneBy(v, SeniorReject)
                       \/ (t # s /\ after[t] = slots[t] /\ slots[t].phase = "done")
  OBVIOUS
<1>2. after[s] = DoneBy(v, SeniorReject)
  OBVIOUS
<1>3. slots[s].answer = None /\ SeniorReject # None
  BY SlotShape, WorkflowAssumption DEF Pairs, IsHeld
<1> HIDE DEF after
<1>4. Sole(after)
  BY <1>1, <1>2, <1>3, WorkflowAssumption DEF RecordOK, Sole, DoneBy, Slots
<1>5. \A t \in Slots : ~IsHeld(after[t])
  BY <1>1 DEF IsHeld, DoneBy
<1>6. RecordOK("rejected", after, k)
  BY <1>4, <1>5 DEF RecordOK, Attended, Fits
<1> QED BY <1>6 DEF after
-----------------------------------------------------------------------------
(* The steps.                                                              *)

LEMMA InitSlots == Init => SlotsOK
BY DEF Init, SlotsOK, RecordOK, Sole, Attended, Fits, FreeSlot, IsHeld, Slots

LEMMA NextPairsSlots ==
    ASSUME TypeOK, SlotsOK, NEW v \in Validators, NEW bufferedOnly \in BOOLEAN,
           NEW first \in OrNone(Records), NEW rest \in SUBSET Records,
           NextPairs(v, bufferedOnly, first, rest)
    PROVE  SlotsOK'
<1> DEFINE claimed == rest \cup ({first} \ {None})
<1>1. ASSUME NEW r \in claimed PROVE RecordOK(status[r], queue[r], history[r].rekeyed)'
  <2>1. Claimable(r, v) /\ r \in Records
    BY DEF NextPairs, OrNone
  <2>2. PICK p \in {"buffered", "started"} : queue'[r] = Claimed(queue[r], v, p)
    BY <2>1 DEF NextPairs
  <2>3. status'[r] = "validation_inprogress" /\ history' = history
    BY <2>1 DEF NextPairs
  <2>4. queue[r] \in Pairs
    BY <2>1 DEF TypeOK, Pairs
  <2> QED BY <2>1, <2>2, <2>3, <2>4, ClaimedInProgress DEF Claimable, SlotsOK
<1>2. ASSUME NEW r \in Records, r \notin claimed
      PROVE  RecordOK(status[r], queue[r], history[r].rekeyed)'
  <2>1. /\ status'[r] = status[r] /\ history' = history
        /\ \/ queue'[r] = queue[r]
           \/ (status[r] \in DECIDED_STATUSES /\ queue'[r] = ReleasedBy(v, queue[r]))
    BY <1>2 DEF NextPairs
  <2>2. CASE queue'[r] = queue[r]
    BY <2>1, <2>2 DEF SlotsOK
  <2>3. CASE status[r] \in DECIDED_STATUSES /\ queue'[r] = ReleasedBy(v, queue[r])
    <3>1. queue[r] \in Pairs /\ ReleasedBy(v, queue[r]) \in Pairs
      BY PairMakers DEF TypeOK, Pairs
    <3>2. RecordOK(Restored(status[r], queue'[r]), queue'[r], history[r].rekeyed)
      BY <2>3, <3>1, Freed DEF SlotsOK, ReleasedBy
    <3>3. Restored(status[r], queue'[r]) = status[r]
      BY <2>3 DEF Restored, DECIDED_STATUSES
    <3> QED BY <2>1, <3>2, <3>3
  <2> QED BY <2>1, <2>2, <2>3
<1> QED BY <1>1, <1>2 DEF SlotsOK

LEMMA GivenBack ==
    ASSUME TypeOK, SlotsOK, NEW v \in Validators, NEW r \in Records,
           queue' = [queue EXCEPT ![r] = ReleasedBy(v, @)],
           \/ status' = [status EXCEPT ![r] = Restored(@, queue'[r])]
           \/ OpenSlots(r, v) = {} /\ status' = status,
           history' = history
    PROVE  SlotsOK'
<1>1. /\ queue[r] \in Pairs /\ ReleasedBy(v, queue[r]) \in Pairs
      /\ queue'[r] = ReleasedBy(v, queue[r])
  BY PairMakers DEF TypeOK, Pairs
<1>2. RecordOK(status[r], queue[r], history[r].rekeyed)
  BY DEF SlotsOK
<1>3. CASE status' = [status EXCEPT ![r] = Restored(@, queue'[r])]
  <2>1. RecordOK(status'[r], queue'[r], history'[r].rekeyed)
    BY <1>1, <1>2, <1>3, Freed DEF ReleasedBy, TypeOK
  <2> QED BY <1>1, <1>3, <2>1 DEF SlotsOK, TypeOK
<1>4. CASE OpenSlots(r, v) = {} /\ status' = status
  <2>1. \A s \in Slots : ReleasedBy(v, queue[r])[s] = queue[r][s]
    BY <1>4 DEF OpenSlots, ReleasedBy
  <2>2. queue'[r] = queue[r]
    BY <1>1, <2>1 DEF Pairs
  <2> QED BY <1>4, <2>2 DEF SlotsOK, TypeOK
<1> QED BY <1>3, <1>4

LEMMA ReapSlots ==
    ASSUME TypeOK, SlotsOK, NEW stale \in SUBSET (Records \X Slots), Reap(stale)
    PROVE  SlotsOK'
<1>1. ASSUME NEW r \in Records
      PROVE  RecordOK(status[r], queue[r], history[r].rekeyed)'
  <2>1. /\ queue[r] \in Pairs
        /\ RecordOK(status[r], queue[r], history[r].rekeyed)
        /\ history' = history
    BY DEF TypeOK, Pairs, SlotsOK, Reap
  <2>2. queue'[r] = [s \in Slots |-> IF <<r, s>> \in stale THEN FreeSlot ELSE queue[r][s]]
    BY DEF Reap
  <2>3. \A s \in Slots : <<r, s>> \in stale => IsHeld(queue[r][s])
    BY DEF Reap, PastLimit
  <2>4. CASE \E s \in Slots : <<r, s>> \in stale
    <3>1. status'[r] = Restored(status[r], queue'[r])
      BY <2>4 DEF Reap
    <3>2. queue'[r] \in Pairs
      BY <2>1, <2>2, SlotMakers DEF Pairs
    <3>3. \A s \in Slots : \/ queue'[r][s] = queue[r][s]
                           \/ (queue'[r][s] = FreeSlot /\ IsHeld(queue[r][s]))
      BY <2>2, <2>3
    <3>4. RecordOK(Restored(status[r], queue'[r]), queue'[r], history[r].rekeyed)
      BY <2>1, <3>2, <3>3, Freed
    <3> QED BY <2>1, <3>1, <3>4
  <2>5. CASE ~\E s \in Slots : <<r, s>> \in stale
    <3>1. queue'[r] = queue[r]
      BY <2>1, <2>2, <2>5 DEF Pairs
    <3>2. status'[r] = status[r]
      BY <2>5 DEF Reap
    <3> QED BY <2>1, <3>1, <3>2
  <2> QED BY <2>4, <2>5
<1> QED BY <1>1 DEF SlotsOK

\* Consensus leaves a record alone, or gives one with two judgements a verdict.
LEMMA ConsensusSettles ==
    ASSUME TypeOK, NEW r \in Records, NEW slots \in Pairs, NEW ai \in AiAnswers,
           Consensus(r, slots, ai)
    PROVE  \/ /\ UNCHANGED <<status, row, validated, history>>
              /\ ~BothDone(slots) \/ status[r] \in DECIDED_STATUSES
           \/ /\ BothDone(slots) /\ status[r] \notin DECIDED_STATUSES
              /\ status'[r] \in Settled
              /\ history'[r].rekeyed = history[r].rekeyed
              /\ \A o \in Records \ {r} : /\ status'[o] = status[o]
                                          /\ history'[o] = history[o]
<1> DEFINE v == EvaluateConsensus(row[r].raw, slots["human_1"].answer,
                                  slots["human_2"].answer, ai, Team(slots), Taken(r))
<1>1. CASE ~BothDone(slots) \/ status[r] \in DECIDED_STATUSES
  BY <1>1 DEF Consensus
<1>2. CASE BothDone(slots) /\ status[r] \notin DECIDED_STATUSES
  <2>1. v.status \in Settled
    BY <1>2, VerdictOf DEF Verdicts, Settled
  <2>2. /\ status' = [status EXCEPT ![r] = v.status]
        /\ history' = [history EXCEPT
                    ![r].cause = IF v.status = "rejected" THEN "other" ELSE @]
    BY <1>2 DEF Consensus
  <2> HIDE DEF v
  <2> QED BY <1>2, <2>1, <2>2 DEF TypeOK
<1> QED BY <1>1, <1>2

LEMMA JudgeSlots ==
    ASSUME TypeOK, SlotsOK, NEW v \in Validators, NEW r \in Records,
           NEW answer \in Submitted, NEW ai \in AiAnswers, Judge(v, r, answer, ai)
    PROVE  SlotsOK'
<1>1. PICK s \in Slots :
          /\ IsHeld(queue[r][s]) /\ queue[r][s].validator = v
          /\ queue' = [queue EXCEPT ![r] = [queue[r] EXCEPT ![s] = DoneBy(v, answer)]]
          /\ Consensus(r, [queue[r] EXCEPT ![s] = DoneBy(v, answer)], ai)
  BY DEF Judge, OpenSlots
<1> DEFINE slots == [queue[r] EXCEPT ![s] = DoneBy(v, answer)]
<1>2. queue[r] \in Pairs /\ slots \in Pairs /\ answer \in Stored
  BY PairMakers DEF TypeOK, Pairs, Stored
<1>3. RecordOK(status[r], queue[r], history[r].rekeyed)
  BY DEF SlotsOK
<1>4. /\ ~BothDone(slots) => RecordOK(status[r], slots, history[r].rekeyed)
      /\ BothDone(slots) => \A new \in Settled, k \in BOOLEAN : RecordOK(new, slots, k)
      /\ status[r] \notin DECIDED_STATUSES
  BY <1>1, <1>2, <1>3, Filled
<1>5. history[r].rekeyed \in BOOLEAN
  BY DEF TypeOK
<1> HIDE DEF slots
<1>6. RecordOK(status'[r], slots, history'[r].rekeyed)
  BY <1>1, <1>2, <1>4, <1>5, ConsensusSettles DEF slots
<1>7. \A o \in Records \ {r} : status'[o] = status[o] /\ history'[o] = history[o]
  BY <1>1, <1>2, ConsensusSettles DEF slots
<1> QED BY <1>1, <1>6, <1>7 DEF SlotsOK, TypeOK, slots

LEMMA SeniorRejectSlots ==
    ASSUME TypeOK, SlotsOK, NEW v \in Validators, NEW r \in Records, SeniorRejectEntry(v, r)
    PROVE  SlotsOK'
<1>1. PICK s \in Slots :
          /\ IsHeld(queue[r][s]) /\ queue[r][s].validator = v
          /\ queue' = [queue EXCEPT ![r] =
                 [t \in Slots |-> IF t \in {s} \cup {u \in Slots : queue[r][u].phase # "done"}
                                  THEN DoneBy(v, SeniorReject) ELSE queue[r][t]]]
  BY DEF SeniorRejectEntry, OpenSlots
<1>2. /\ status' = [status EXCEPT ![r] = "rejected"]
      /\ history' = [history EXCEPT ![r].cause = "other"]
  BY DEF SeniorRejectEntry
<1>3. queue[r] \in Pairs /\ RecordOK(status[r], queue[r], history[r].rekeyed)
  BY DEF TypeOK, Pairs, SlotsOK
<1>4. RecordOK("rejected", queue'[r], history'[r].rekeyed)
  BY <1>1, <1>3, SeniorFills DEF TypeOK
<1> QED BY <1>1, <1>2, <1>4 DEF SlotsOK, TypeOK

\* Every decision that closes the open work.
LEMMA ClosedSlots ==
    ASSUME TypeOK, SlotsOK, NEW r \in Records, NEW new \in Settled, CloseOpenWork(r),
           status' = [status EXCEPT ![r] = new],
           \A o \in Records \ {r} : history'[o] = history[o]
    PROVE  SlotsOK'
<1>1. queue[r] \in Pairs /\ RecordOK(status[r], queue[r], history[r].rekeyed)
  BY DEF TypeOK, Pairs, SlotsOK
<1>2. queue' = [queue EXCEPT ![r] = Released(@)]
  BY DEF CloseOpenWork
<1>3. RecordOK(status'[r], queue'[r], history'[r].rekeyed)
  BY <1>1, <1>2, ReleasedSettles DEF TypeOK
<1> QED BY <1>2, <1>3 DEF SlotsOK, TypeOK
LEMMA AdministerSlots ==
    ASSUME TypeOK, SlotsOK, NEW a \in Admins, Administer(a)
    PROVE  SlotsOK'
<1>1. ASSUME NEW r \in Records, NEW v \in Validators, AdminAssign(r, v) PROVE SlotsOK'
  BY <1>1 DEF AdminAssign, SlotsOK
<1>2. ASSUME NEW r \in Records, ApproveRead(a, r) PROVE SlotsOK'
  BY <1>2 DEF ApproveRead, SlotsOK
<1>3. ASSUME ApproveRefused(a) PROVE SlotsOK'
  BY <1>3 DEF ApproveRefused, SlotsOK
<1>4. ASSUME ApproveApply(a) PROVE SlotsOK'
  <2> DEFINE r == approving[a].record
  <2>1. r \in Records
    BY <1>4 DEF ApproveApply, TypeOK, Approvals, OrNone
  <2>2. /\ CloseOpenWork(r)
        /\ status' = [status EXCEPT ![r] = "validated"]
        /\ history' = [history EXCEPT ![r] = Reviewed(@)]
    BY <1>4 DEF ApproveApply
  <2> HIDE DEF r
  <2> QED BY <2>1, <2>2, ClosedSlots DEF Settled, TypeOK
<1>5. ASSUME NEW r \in Records, NEW action, NEW cause, AdminRejects(r, action, cause)
      PROVE  SlotsOK'
  <2>1. /\ CloseOpenWork(r)
        /\ status' = [status EXCEPT ![r] = "rejected"]
        /\ history' = [history EXCEPT ![r] = [cause |-> cause, rekeyed |-> FALSE]]
    BY <1>5 DEF AdminRejects
  <2> QED BY <2>1, ClosedSlots DEF Settled, TypeOK
<1>6. ASSUME NEW r \in Records, FlagReview(r) PROVE SlotsOK'
  <2>1. /\ status[r] \in {"consensus_reached", "need_review", "validated"}
        /\ status' = [status EXCEPT ![r] = "need_review"]
        /\ UNCHANGED <<queue, history>>
    BY <1>6 DEF FlagReview
  <2>2. RecordOK("need_review", queue[r], history[r].rekeyed)
    BY <2>1 DEF SlotsOK, RecordOK, Attended, Fits
  <2> QED BY <2>1, <2>2 DEF SlotsOK, TypeOK
<1>7. ASSUME NEW r \in Records, NEW id, ResolvePublish(a, r, id) PROVE SlotsOK'
  <2>1. /\ CloseOpenWork(r)
        /\ status' = [status EXCEPT ![r] = "validated"]
        /\ history' = [history EXCEPT ![r] = Reviewed(@)]
    BY <1>7 DEF ResolvePublish
  <2> QED BY <2>1, ClosedSlots DEF Settled, TypeOK
<1> QED BY <1>1, <1>2, <1>3, <1>4, <1>5, <1>6, <1>7
        DEF Administer, RemoveOriginal, ResolveReject, ResolveMerge

LEMMA ImportSlots ==
    ASSUME TypeOK, SlotsOK, Import PROVE SlotsOK'
<1>1. ASSUME ImportStart \/ ImportEnd PROVE SlotsOK'
  BY <1>1 DEF ImportStart, ImportEnd, SlotsOK
<1>5. ASSUME NEW r \in Records, NEW new \in Shipped, ImportRekeyRead(r, new) PROVE SlotsOK'
  BY <1>5 DEF ImportRekeyRead, SlotsOK
<1>2. ASSUME NEW r \in Records, NEW new \in Shipped, ImportRefresh(r, new) PROVE SlotsOK'
  BY <1>2 DEF ImportRefresh, SlotsOK
<1>3. ASSUME NEW r \in Records, NEW new \in Shipped, ImportReopen(r, new) PROVE SlotsOK'
  <2>1. /\ status' = [status EXCEPT ![r] = "unvalidated"]
        /\ queue' = [queue EXCEPT ![r] = [s \in Slots |-> FreeSlot]]
        /\ history' = [history EXCEPT ![r] = Reviewed(@)]
    BY <1>3 DEF ImportReopen
  <2>2. \A k \in BOOLEAN : RecordOK("unvalidated", [s \in Slots |-> FreeSlot], k)
    BY DEF RecordOK, Sole, Attended, Fits, FreeSlot, IsHeld, Slots
  <2>3. history'[r].rekeyed \in BOOLEAN
    BY <2>1 DEF TypeOK, Reviewed
  <2>4. RecordOK(status'[r], queue'[r], history'[r].rekeyed)
    BY <2>1, <2>2, <2>3 DEF TypeOK
  <2> QED BY <2>1, <2>4 DEF SlotsOK, TypeOK
<1>4. ASSUME NEW r \in Records, NEW new \in Shipped, ImportRekey(r, new) PROVE SlotsOK'
  <2>1. queue' = queue
    BY <1>4 DEF ImportRekey
  <2>2. CASE UNCHANGED <<status, history>>
    BY <2>1, <2>2 DEF SlotsOK
  <2>3. CASE /\ status' = [status EXCEPT ![r] = "need_review"]
             /\ history' = [history EXCEPT ![r].rekeyed = TRUE]
    <3>1. RecordOK("need_review", queue[r], TRUE)
      BY DEF SlotsOK, RecordOK, Attended, Fits
    <3> QED BY <2>1, <2>3, <3>1 DEF SlotsOK, TypeOK
  <2> QED BY <1>4, <2>2, <2>3 DEF ImportRekey
<1> QED BY <1>1, <1>2, <1>3, <1>4, <1>5 DEF Import

LEMMA RetrySlots ==
    ASSUME TypeOK, SlotsOK, NightlyRetry PROVE SlotsOK'
<1>1. ASSUME NEW r \in Records, RetryAsk(r) PROVE SlotsOK'
  BY <1>1 DEF RetryAsk, SlotsOK
<1>2. ASSUME NEW ai \in AiAnswers, RetryLlmError(ai) \/ RetryDrop(ai) PROVE SlotsOK'
  BY <1>2 DEF RetryLlmError, RetryDrop, SlotsOK
<1>3. ASSUME NEW ai \in AiAnswers, RetryTiebreaker(ai) PROVE SlotsOK'
  <2> DEFINE r == asked.record
  <2>1. r \in Records /\ queue[r] \in Pairs /\ queue' = queue
    BY <1>3 DEF RetryTiebreaker, TypeOK, Questions, Pairs, OrNone
  <2>2. Consensus(r, queue[r], ai)
    BY <1>3 DEF RetryTiebreaker
  <2> HIDE DEF r
  <2>3. RecordOK(status[r], queue[r], history[r].rekeyed)
    BY <2>1 DEF SlotsOK
  <2>4. ASSUME BothDone(queue[r]), NEW new \in Settled
        PROVE  RecordOK(new, queue[r], history[r].rekeyed)
    BY <2>3, <2>4 DEF RecordOK, Attended, Fits, Settled, BothDone, IsHeld
  <2>5. RecordOK(status'[r], queue[r], history'[r].rekeyed)
    BY <2>1, <2>2, <2>3, <2>4, ConsensusSettles
  <2>6. \A o \in Records \ {r} : status'[o] = status[o] /\ history'[o] = history[o]
    BY <2>1, <2>2, ConsensusSettles
  <2> QED BY <2>1, <2>5, <2>6 DEF SlotsOK
<1> QED BY <1>1, <1>2, <1>3 DEF NightlyRetry

LEMMA ValidateSlots ==
    ASSUME TypeOK, SlotsOK, NEW v \in Validators, Validate(v) PROVE SlotsOK'
<1>1. ASSUME NEW r \in Records, NEW s \in Slots, StartPair(v, r, s) PROVE SlotsOK'
  <2>1. /\ IsHeld(queue[r][s])
        /\ queue' = [queue EXCEPT ![r][s].phase = "started"]
        /\ UNCHANGED <<status, history>>
    BY <1>1 DEF StartPair, OpenSlots
  <2>2. \A t \in Slots :
            /\ queue'[r][t].validator = queue[r][t].validator
            /\ queue'[r][t].answer = queue[r][t].answer
            /\ queue'[r][t].phase = IF t = s THEN "started" ELSE queue[r][t].phase
    <3>1. \A t \in Slots : queue[r][t] \in [validator : OrNone(Validators),
                                 phase : {"free", "buffered", "started", "done"},
                                 answer : OrNone(Stored)]
      BY DEF TypeOK, SlotValues, FreeSlot, HeldBy, DoneBy, OrNone
    <3> QED BY <2>1, <3>1 DEF TypeOK
  <2>3. RecordOK(status[r], queue'[r], history[r].rekeyed)
    BY <2>1, <2>2 DEF SlotsOK, RecordOK, Sole, Attended, Fits, BothDone, IsHeld, Slots
  <2> QED BY <2>1, <2>3 DEF SlotsOK, TypeOK
<1>2. ASSUME NEW r \in Records, NEW inaccessible \in BOOLEAN, Skip(v, r, inaccessible)
      PROVE  SlotsOK'
  BY <1>2, GivenBack DEF Skip
<1>3. ASSUME NEW r \in Records, ReportRestricted(v, r) PROVE SlotsOK'
  BY <1>3, GivenBack DEF ReportRestricted
<1>4. ASSUME NEW r \in Records, NEW answer \in Submitted, AssignmentJudge(v, r, answer)
      PROVE  SlotsOK'
  <2>1. PICK new \in {"rejected", "need_review", "consensus_reached"} :
            /\ status' = [status EXCEPT ![r] = new]
            /\ history' = [history EXCEPT
                    ![r] = [cause |-> IF new = "rejected" THEN "other" ELSE history[r].cause,
                            rekeyed |-> FALSE]]
    BY <1>4 DEF AssignmentJudge
  <2>2. CloseOpenWork(r)
    BY <1>4 DEF AssignmentJudge
  <2> QED BY <2>1, <2>2, ClosedSlots DEF Settled, TypeOK
<1> QED BY <1>1, <1>2, <1>3, <1>4, NextPairsSlots, JudgeSlots, SeniorRejectSlots DEF Validate

LEMMA StepSlots == TypeOK /\ SlotsOK /\ [Next]_vars => SlotsOK'
<1> SUFFICES ASSUME TypeOK, SlotsOK, [Next]_vars PROVE SlotsOK'
  OBVIOUS
<1>1. CASE UNCHANGED vars
  BY <1>1 DEF SlotsOK, vars
<1>2. CASE Next
  BY <1>2, ValidateSlots, AdministerSlots, ReapSlots, ImportSlots, RetrySlots DEF Next
<1> QED BY <1>1, <1>2

LEMMA SlotInvariance == Spec => [](TypeOK /\ SlotsOK)
<1>1. Init => TypeOK /\ SlotsOK
  BY InitType, InitSlots
<1>2. TypeOK /\ SlotsOK /\ [Next]_vars => (TypeOK /\ SlotsOK)'
  BY StepType, StepSlots
<1> QED BY <1>1, <1>2, PTL DEF Spec

\* A page is open only on a record still collecting judgements, or on one the
\* import re-keyed under it: every decision closes the open work.
THEOREM OpenWork == Spec => []OpenSlotIsOnOpenRecord
<1>1. SlotsOK => OpenSlotIsOnOpenRecord
  BY DEF SlotsOK, RecordOK, Attended, OpenSlotIsOnOpenRecord
<1> QED BY <1>1, SlotInvariance, PTL

\* The two judgements of a record come from two people, unless a senior rejected it.
THEOREM TwoJudges == Spec => []SoleJudge
<1>1. SlotsOK => SoleJudge
  BY DEF SlotsOK, RecordOK, Sole, SoleJudge
<1> QED BY <1>1, SlotInvariance, PTL

\* The status is what the slots say it is, after every skip, reap and judgement.
THEOREM StatusFits == Spec => []StatusMatchesSlots
<1>1. SlotsOK => StatusMatchesSlots
  BY DEF SlotsOK, RecordOK, Fits, StatusMatchesSlots
<1> QED BY <1>1, SlotInvariance, PTL

-----------------------------------------------------------------------------
(***************************************************************************)
(* What a step may never do.  First the judgements: every handler leaves   *)
(* the answered slots of a record as they are, but for the import's        *)
(* re-opening, which leaves the record unvalidated.                        *)
(***************************************************************************)
Keeps(before, after) == \A s \in Slots : before[s].phase = "done" => after[s] = before[s]

Untouched(r) == Keeps(queue[r], queue'[r]) \/ \E new \in Shipped : ImportReopen(r, new)

\* Slots given back, closed, claimed or filled.
LEMMA MakersKeep ==
    ASSUME NEW slots \in Pairs, NEW v \in Validators
    PROVE  /\ Keeps(slots, slots)
           /\ Keeps(slots, Released(slots))
           /\ Keeps(slots, ReleasedBy(v, slots))
           /\ \A p \in {"buffered", "started"} :
                 (\E s \in Slots : slots[s].phase = "free") => Keeps(slots, Claimed(slots, v, p))
           /\ \A s \in Slots, a \in Stored :
                 IsHeld(slots[s]) => Keeps(slots, [slots EXCEPT ![s] = DoneBy(v, a)])
<1>1. Keeps(slots, slots) /\ Keeps(slots, Released(slots))
  BY DEF Keeps, Released
<1>2. Keeps(slots, ReleasedBy(v, slots))
  BY DEF Keeps, ReleasedBy, IsHeld
<1>3. ASSUME NEW p \in {"buffered", "started"}, \E s \in Slots : slots[s].phase = "free"
      PROVE  Keeps(slots, Claimed(slots, v, p))
  BY <1>3 DEF Keeps, Claimed, Slots, Pairs
<1>4. ASSUME NEW s \in Slots, NEW a \in Stored, IsHeld(slots[s])
      PROVE  Keeps(slots, [slots EXCEPT ![s] = DoneBy(v, a)])
  BY <1>4 DEF Keeps, IsHeld, Pairs
<1> QED BY <1>1, <1>2, <1>3, <1>4

\* A handler that writes the slots of one record.
LEMMA OneRecordKeeps ==
    ASSUME TypeOK, NEW r \in Records, NEW after,
           queue' = [queue EXCEPT ![r] = after], Keeps(queue[r], after)
    PROVE  \A o \in Records : Untouched(o)
BY DEF TypeOK, Untouched, Keeps

LEMMA ClosingKeeps ==
    ASSUME TypeOK, NEW r \in Records, CloseOpenWork(r)
    PROVE  \A o \in Records : Untouched(o)
<1>1. queue[r] \in Pairs
  BY DEF TypeOK, Pairs
<1>2. Keeps(queue[r], Released(queue[r]))
  BY DEF Keeps, Released
<1> QED BY <1>1, <1>2, OneRecordKeeps DEF CloseOpenWork

LEMMA UntouchedKeeps ==
    ASSUME queue' = queue
    PROVE  \A o \in Records : Untouched(o)
BY DEF Untouched, Keeps

LEMMA ValidateKeeps ==
    ASSUME TypeOK, NEW v \in Validators, Validate(v)
    PROVE  \A o \in Records : Untouched(o)
<1>0. \A r \in Records : queue[r] \in Pairs
  BY DEF TypeOK, Pairs
<1>1. ASSUME NEW bufferedOnly \in BOOLEAN, NEW first \in OrNone(Records),
             NEW rest \in SUBSET Records, NextPairs(v, bufferedOnly, first, rest),
             NEW o \in Records
      PROVE  Untouched(o)
  <2> DEFINE claimed == rest \cup ({first} \ {None})
  <2>1. CASE o \in claimed
    <3>1. \E s \in Slots : queue[o][s].phase = "free"
      BY <1>1, <2>1 DEF NextPairs, Claimable
    <3>2. PICK p \in {"buffered", "started"} : queue'[o] = Claimed(queue[o], v, p)
      BY <1>1, <2>1 DEF NextPairs
    <3> QED BY <1>0, <3>1, <3>2, MakersKeep DEF Untouched
  <2>2. CASE o \notin claimed
    <3>1. queue'[o] = queue[o] \/ queue'[o] = ReleasedBy(v, queue[o])
      BY <1>1, <2>2 DEF NextPairs
    <3> QED BY <1>0, <3>1, MakersKeep DEF Untouched
  <2> QED BY <2>1, <2>2
<1>2. ASSUME NEW r \in Records, NEW s \in Slots, StartPair(v, r, s)
      PROVE  \A o \in Records : Untouched(o)
  <2>1. IsHeld(queue[r][s]) /\ queue' = [queue EXCEPT ![r][s].phase = "started"]
    BY <1>2 DEF StartPair, OpenSlots
  <2> QED BY <2>1 DEF TypeOK, Untouched, Keeps, IsHeld
<1>3. ASSUME NEW r \in Records, queue' = [queue EXCEPT ![r] = ReleasedBy(v, queue[r])]
      PROVE  \A o \in Records : Untouched(o)
  BY <1>0, <1>3, MakersKeep, OneRecordKeeps
<1>4. ASSUME NEW r \in Records, NEW answer \in Submitted, NEW ai \in AiAnswers,
             Judge(v, r, answer, ai)
      PROVE  \A o \in Records : Untouched(o)
  <2>1. PICK s \in Slots :
            /\ IsHeld(queue[r][s])
            /\ queue' = [queue EXCEPT ![r] = [queue[r] EXCEPT ![s] = DoneBy(v, answer)]]
    BY <1>4 DEF Judge, OpenSlots
  <2>2. answer \in Stored
    BY DEF Stored
  <2> QED BY <1>0, <2>1, <2>2, MakersKeep, OneRecordKeeps
<1>5. ASSUME NEW r \in Records, SeniorRejectEntry(v, r)
      PROVE  \A o \in Records : Untouched(o)
  <2>1. PICK s \in Slots :
            /\ IsHeld(queue[r][s])
            /\ queue' = [queue EXCEPT ![r] =
                 [t \in Slots |-> IF t \in {s} \cup {u \in Slots : queue[r][u].phase # "done"}
                                  THEN DoneBy(v, SeniorReject) ELSE queue[r][t]]]
    BY <1>5 DEF SeniorRejectEntry, OpenSlots
  <2> DEFINE after == [t \in Slots |-> IF t \in {s} \cup {u \in Slots : queue[r][u].phase # "done"}
                                  THEN DoneBy(v, SeniorReject) ELSE queue[r][t]]
  <2>2. Keeps(queue[r], after)
    BY <2>1 DEF Keeps, IsHeld
  <2> HIDE DEF after
  <2> QED BY <2>1, <2>2, OneRecordKeeps DEF after
<1>6. ASSUME NEW r \in Records, NEW answer \in Submitted, AssignmentJudge(v, r, answer)
      PROVE  \A o \in Records : Untouched(o)
  BY <1>6, ClosingKeeps DEF AssignmentJudge
<1> QED BY <1>1, <1>2, <1>3, <1>4, <1>5, <1>6 DEF Validate, Skip, ReportRestricted

LEMMA AdministerKeeps ==
    ASSUME TypeOK, NEW a \in Admins, Administer(a)
    PROVE  \A o \in Records : Untouched(o)
<1>1. ASSUME ApproveApply(a) PROVE \A o \in Records : Untouched(o)
  <2>1. approving[a].record \in Records /\ CloseOpenWork(approving[a].record)
    BY <1>1 DEF ApproveApply, TypeOK, Approvals, OrNone
  <2> QED BY <2>1, ClosingKeeps
<1>2. ASSUME NEW r \in Records, CloseOpenWork(r) PROVE \A o \in Records : Untouched(o)
  BY <1>2, ClosingKeeps
<1>3. queue' = queue \/ ApproveApply(a) \/ (\E r \in Records : CloseOpenWork(r))
  BY DEF Administer, ApproveRefused, AdminAssign, ApproveRead, RemoveOriginal, FlagReview,
         ResolveReject, ResolvePublish, ResolveMerge, AdminRejects
<1> QED BY <1>1, <1>2, <1>3, UntouchedKeeps

LEMMA StepKeeps == TypeOK /\ [Next]_vars => \A o \in Records : Untouched(o)
<1> SUFFICES ASSUME TypeOK, [Next]_vars PROVE \A o \in Records : Untouched(o)
  OBVIOUS
<1>1. CASE UNCHANGED vars
  BY <1>1, UntouchedKeeps DEF vars
<1>2. ASSUME NEW stale \in SUBSET (Records \X Slots), Reap(stale)
      PROVE  \A o \in Records : Untouched(o)
  <2>1. \A r \in Records, s \in Slots : <<r, s>> \in stale => IsHeld(queue[r][s])
    BY <1>2 DEF Reap, PastLimit
  <2>2. \A r \in Records, s \in Slots :
            queue'[r][s] = IF <<r, s>> \in stale THEN FreeSlot ELSE queue[r][s]
    BY <1>2 DEF Reap
  <2> QED BY <2>1, <2>2 DEF Untouched, Keeps, IsHeld
<1>3. ASSUME Import PROVE \A o \in Records : Untouched(o)
  <2>1. ASSUME NEW r \in Records, NEW new \in Shipped, ImportReopen(r, new)
        PROVE  \A o \in Records : Untouched(o)
    <3>1. queue' = [queue EXCEPT ![r] = [s \in Slots |-> FreeSlot]]
      BY <2>1 DEF ImportReopen
    <3> QED BY <2>1, <3>1 DEF TypeOK, Untouched, Keeps
  <2> QED BY <1>3, <2>1, UntouchedKeeps
          DEF Import, ImportStart, ImportRefresh, ImportRekeyRead, ImportRekey, ImportEnd
<1>4. ASSUME NightlyRetry PROVE \A o \in Records : Untouched(o)
  BY <1>4, UntouchedKeeps DEF NightlyRetry, RetryAsk, RetryTiebreaker, RetryLlmError, RetryDrop
<1> QED BY <1>1, <1>2, <1>3, <1>4, ValidateKeeps, AdministerKeeps DEF Next

LEMMA ReopenedIsUnvalidated ==
    ASSUME TypeOK, NEW r \in Records, NEW new \in Shipped, ImportReopen(r, new)
    PROVE  status'[r] = "unvalidated"
BY DEF TypeOK, ImportReopen

\* No handler loses or rewrites an accepted judgement; only the re-opening of a record
\* whose original was replaced clears it.
THEOREM JudgementsStay == Spec => JudgementsAreKept
<1>1. TypeOK /\ [Next]_vars =>
        [\A r \in Records, s \in Slots : queue[r][s].phase = "done" =>
             queue'[r][s] = queue[r][s] \/ status'[r] = "unvalidated"]_vars
  BY StepKeeps, ReopenedIsUnvalidated DEF Untouched, Keeps
<1> QED BY <1>1, TypeCorrect, PTL DEF Spec, JudgementsAreKept

-----------------------------------------------------------------------------
(***************************************************************************)
(* Then the decisions.                                                     *)
(***************************************************************************)
Stands(r) ==
    status[r] \in DECIDED_STATUSES /\ status'[r] # status[r] =>
        \/ decision'[r].after = status'[r] /\ status'[r] # "unvalidated"
        \/ importer' # importer /\ status'[r] # "unvalidated"
        \/ importer' # importer /\ \E new \in Shipped : ImportReopen(r, new)

\* A handler that writes the status of one record it has found undecided, or logs the
\* status it writes.
LEMMA OneStatusStands ==
    ASSUME TypeOK, NEW r \in Records, NEW new, status' = [status EXCEPT ![r] = new],
           \/ NotDecided(r)
           \/ new = status[r]
           \/ new # "unvalidated" /\ \E action, before : LogDecision(r, action, before, new)
    PROVE  \A o \in Records : Stands(o)
BY DEF TypeOK, Stands, NotDecided, LogDecision, Logged

LEMMA ConsensusStands ==
    ASSUME TypeOK, NEW r \in Records, NEW slots, NEW ai, Consensus(r, slots, ai)
    PROVE  \A o \in Records : Stands(o)
<1>1. CASE UNCHANGED status
  BY <1>1 DEF Stands
<1>2. CASE status[r] \notin DECIDED_STATUSES /\ \E new : status' = [status EXCEPT ![r] = new]
  BY <1>2, OneStatusStands DEF NotDecided
<1> QED BY <1>1, <1>2 DEF Consensus

LEMMA DecidedIsRestored ==
    ASSUME NEW st, NEW slots, st \in DECIDED_STATUSES
    PROVE  Restored(st, slots) = st
BY DEF Restored, DECIDED_STATUSES

LEMMA ValidateStands ==
    ASSUME TypeOK, NEW v \in Validators, Validate(v)
    PROVE  \A o \in Records : Stands(o)
<1>1. ASSUME NEW bufferedOnly \in BOOLEAN, NEW first \in OrNone(Records),
             NEW rest \in SUBSET Records, NextPairs(v, bufferedOnly, first, rest)
      PROVE  \A o \in Records : Stands(o)
  BY <1>1 DEF NextPairs, Claimable, Stands, DECIDED_STATUSES
<1>2. ASSUME NEW r \in Records, NEW s \in Slots, StartPair(v, r, s)
      PROVE  \A o \in Records : Stands(o)
  BY <1>2 DEF StartPair, Stands
<1>3. ASSUME NEW r \in Records, NEW inaccessible \in BOOLEAN,
             Skip(v, r, inaccessible) \/ ReportRestricted(v, r)
      PROVE  \A o \in Records : Stands(o)
  <2>1. status' = status \/ status' = [status EXCEPT ![r] = Restored(status[r], queue'[r])]
    BY <1>3 DEF Skip, ReportRestricted
  <2> QED BY <2>1, DecidedIsRestored DEF Stands, TypeOK
<1>4. ASSUME NEW r \in Records, NEW answer \in Submitted, NEW ai \in AiAnswers,
             Judge(v, r, answer, ai)
      PROVE  \A o \in Records : Stands(o)
  BY <1>4, ConsensusStands DEF Judge
<1>5. ASSUME NEW r \in Records, SeniorRejectEntry(v, r)
      PROVE  \A o \in Records : Stands(o)
  BY <1>5, OneStatusStands DEF SeniorRejectEntry
<1>6. ASSUME NEW r \in Records, NEW answer \in Submitted, AssignmentJudge(v, r, answer)
      PROVE  \A o \in Records : Stands(o)
  BY <1>6, OneStatusStands DEF AssignmentJudge
<1> QED BY <1>1, <1>2, <1>3, <1>4, <1>5, <1>6 DEF Validate

LEMMA AdministerStands ==
    ASSUME TypeOK, NEW a \in Admins, Administer(a)
    PROVE  \A o \in Records : Stands(o)
<1>1. ASSUME ApproveApply(a) PROVE \A o \in Records : Stands(o)
  <2>1. approving[a].record \in Records
    BY <1>1 DEF ApproveApply, TypeOK, Approvals, OrNone
  <2> QED BY <1>1, <2>1, OneStatusStands DEF ApproveApply
<1>2. ASSUME NEW r \in Records, NEW action, NEW cause, AdminRejects(r, action, cause)
      PROVE  \A o \in Records : Stands(o)
  BY <1>2, OneStatusStands DEF AdminRejects
<1>3. ASSUME NEW r \in Records, FlagReview(r) PROVE \A o \in Records : Stands(o)
  BY <1>3, OneStatusStands DEF FlagReview
<1>4. ASSUME NEW r \in Records, NEW id, ResolvePublish(a, r, id)
      PROVE  \A o \in Records : Stands(o)
  BY <1>4, OneStatusStands DEF ResolvePublish
<1>5. ASSUME status' = status PROVE \A o \in Records : Stands(o)
  BY <1>5 DEF Stands
<1> QED BY <1>1, <1>2, <1>3, <1>4, <1>5
        DEF Administer, RemoveOriginal, ResolveReject, ResolveMerge, ApproveRefused,
            AdminAssign, ApproveRead

LEMMA StepStands == TypeOK /\ [Next]_vars => \A o \in Records : Stands(o)
<1> SUFFICES ASSUME TypeOK, [Next]_vars PROVE \A o \in Records : Stands(o)
  OBVIOUS
<1>1. CASE UNCHANGED vars
  BY <1>1 DEF vars, Stands
<1>2. ASSUME NEW stale \in SUBSET (Records \X Slots), Reap(stale)
      PROVE  \A o \in Records : Stands(o)
  BY <1>2, DecidedIsRestored DEF Reap, Stands
<1>3. ASSUME Import PROVE \A o \in Records : Stands(o)
  <2>1. ASSUME NEW r \in Records, NEW new \in Shipped,
               ImportReopen(r, new) \/ ImportRekey(r, new)
        PROVE  importer' # importer
    <3>1. importer \in SlotMaps /\ Handled(r)
      BY <2>1 DEF ImportReopen, ImportRekey, Rekeying, TypeOK, OrNone
    <3>2. importer'.rekeying = None
      BY <3>1 DEF Handled, SlotMaps
    <3>3. PICK reopens \in BOOLEAN : Rekeying(r, new, reopens)
      BY <2>1 DEF ImportReopen, ImportRekey
    <3>4. importer.rekeying # None
      BY <3>3, WorkflowAssumption DEF Rekeying, Rekeys
    <3> QED BY <3>2, <3>4
  <2>2. ASSUME NEW r \in Records, NEW new \in Shipped, ImportReopen(r, new)
        PROVE  \A o \in Records : Stands(o)
    <3>1. status' = [status EXCEPT ![r] = "unvalidated"]
      BY <2>2 DEF ImportReopen
    <3> QED BY <2>1, <2>2, <3>1 DEF Stands, TypeOK
  <2>3. ASSUME NEW r \in Records, NEW new \in Shipped, ImportRekey(r, new)
        PROVE  \A o \in Records : Stands(o)
    <3>1. status' = status \/ status' = [status EXCEPT ![r] = "need_review"]
      BY <2>3 DEF ImportRekey
    <3> QED BY <2>1, <2>3, <3>1 DEF Stands, TypeOK
  <2>4. ASSUME status' = status PROVE \A o \in Records : Stands(o)
    BY <2>4 DEF Stands
  <2> QED BY <1>3, <2>2, <2>3, <2>4
          DEF Import, ImportStart, ImportRefresh, ImportRekeyRead, ImportEnd
<1>4. ASSUME NightlyRetry PROVE \A o \in Records : Stands(o)
  <2>1. ASSUME NEW ai \in AiAnswers, RetryTiebreaker(ai) PROVE \A o \in Records : Stands(o)
    <3>1. asked.record \in Records
      BY <2>1 DEF RetryTiebreaker, TypeOK, Questions, OrNone
    <3> QED BY <2>1, <3>1, ConsensusStands DEF RetryTiebreaker
  <2> QED BY <1>4, <2>1 DEF NightlyRetry, RetryAsk, RetryLlmError, RetryDrop, Stands
<1> QED BY <1>1, <1>2, <1>3, <1>4, ValidateStands, AdministerStands DEF Next

\* A decision is undone only by a decision the log holds, or by the import: never by a
\* late judgement, a late answer of the AI, an assignment, a skip or the reaper.
THEOREM DecisionsHold == Spec => DecisionsStand
<1>1. TypeOK /\ [Next]_vars =>
        [\A r \in Records :
           status[r] \in DECIDED_STATUSES /\ status'[r] # status[r] =>
               decision'[r].after = status'[r] \/ importer' # importer]_vars
  BY StepStands DEF Stands
<1> QED BY <1>1, TypeCorrect, PTL DEF Spec, DecisionsStand

-----------------------------------------------------------------------------
(***************************************************************************)
(* The promise of RecordLife: every step is a step of one record's life or *)
(* changes nothing the promise speaks of.  What is published follows from  *)
(* the promise alone.                                                      *)
(***************************************************************************)
Statement == <<LifeNow, validated, merged, importer # None>>

LEMMA IdentityIsNoNull == ASSUME NEW id \in Identities PROVE id # None
BY WorkflowAssumption

\* Steps that decide nothing and publish nothing.
LEMMA Resting ==
    ASSUME \A r \in Records : LifeOf(status'[r]) = LifeOf(status[r]),
           validated' = validated, merged' = merged,
           (importer' # None) <=> (importer # None)
    PROVE  UNCHANGED Statement
<1>1. LifeNow' = LifeNow
  BY DEF LifeNow
<1> QED BY <1>1 DEF Statement

\* Steps that give one record a status and settle what is published of it.
LEMMA Becoming ==
    ASSUME TypeOK, NEW r \in Records, NEW new, NEW id,
           status' = [status EXCEPT ![r] = new],
           validated' = [validated EXCEPT ![r] = id]
    PROVE  Life!Becomes(r, LifeOf(new), id)
<1>1. LifeNow' = [LifeNow EXCEPT ![r] = LifeOf(new)]
  BY DEF LifeNow, TypeOK
<1> QED BY <1>1 DEF Life!Becomes

LEMMA FreeIdentity ==
    ASSUME NEW r \in Records, NEW id \in Identities, id \notin Taken(r)
    PROVE  Life!Free(r, id)
BY IdentityIsNoNull DEF Taken, Life!Free

LEMMA Publishing ==
    ASSUME TypeOK, NEW r \in Records, NEW id \in Identities, id \notin Taken(r),
           status' = [status EXCEPT ![r] = "validated"],
           validated' = [validated EXCEPT ![r] = id],
           merged' = merged, importer' = importer
    PROVE  Life!LifeNext
<1>1. Life!Becomes(r, "published", id)
  BY Becoming DEF LifeOf
<1>2. Life!Approve(r)
  BY <1>1, FreeIdentity DEF Life!Approve
<1> QED BY <1>2 DEF Life!LifeNext

LEMMA Rejecting ==
    ASSUME TypeOK, NEW r \in Records,
           status' = [status EXCEPT ![r] = "rejected"],
           validated' = [validated EXCEPT ![r] = None],
           merged' = merged, importer' = importer
    PROVE  Life!LifeNext
<1>1. Life!Becomes(r, "rejected", None)
  BY Becoming DEF LifeOf
<1> QED BY <1>1 DEF Life!Reject, Life!LifeNext

\* What is not decided goes to review.
LEMMA Reviewing ==
    ASSUME TypeOK, NEW r \in Records, NotDecided(r),
           NEW new \in {"need_review", "consensus_reached"},
           status' = [status EXCEPT ![r] = new],
           validated' = validated, merged' = merged, importer' = importer
    PROVE  Life!LifeNext
<1>1. validated' = [validated EXCEPT ![r] = validated[r]]
  BY DEF TypeOK
<1>2. Life!Becomes(r, "review", validated[r])
  BY <1>1, Becoming DEF LifeOf
<1>3. LifeNow[r] \in {"open", "review"}
  BY DEF LifeNow, LifeOf, NotDecided, DECIDED_STATUSES, TypeOK, Statuses
<1>4. Life!Settle(r)
  BY <1>2, <1>3 DEF Life!Settle
<1> QED BY <1>4 DEF Life!LifeNext

\* evaluate_consensus settles an undecided record, or does nothing.
LEMMA ConsensusSettlesLife ==
    ASSUME TypeOK, NEW r \in Records, NEW slots \in Pairs, NEW ai \in AiAnswers,
           Consensus(r, slots, ai), merged' = merged, importer' = importer
    PROVE  Life!LifeNext \/ UNCHANGED Statement
<1> DEFINE v == EvaluateConsensus(row[r].raw, slots["human_1"].answer,
                                  slots["human_2"].answer, ai, Team(slots), Taken(r))
<1>1. CASE ~BothDone(slots) \/ status[r] \in DECIDED_STATUSES
  BY <1>1, Resting DEF Consensus
<1>2. CASE BothDone(slots) /\ status[r] \notin DECIDED_STATUSES
  <2>1. /\ status' = [status EXCEPT ![r] = v.status]
        /\ validated' = [validated EXCEPT
                    ![r] = CASE v.status = "rejected"  -> None
                             [] v.status = "validated" -> Identity(v.final)
                             [] OTHER                  -> @]
    BY <1>2 DEF Consensus
  <2>2. v \in Verdicts
    BY <1>2, VerdictOf
  <2>3. v.status = "validated" => Identity(v.final) \notin Taken(r) /\ v.final \in Finals
    BY <1>2, VerdictOf, ValidatedByRule
  <2> HIDE DEF v
  <2>4. CASE v.status = "rejected"
    BY <2>1, <2>4, Rejecting
  <2>5. CASE v.status = "validated"
    <3>1. Identity(v.final) \in Identities
      BY <2>3, <2>5 DEF Identity, Identities, Finals
    <3> QED BY <2>1, <2>3, <2>5, <3>1, Publishing
  <2>6. CASE v.status \in {"need_review", "consensus_reached"}
    <3>1. validated' = validated
      BY <2>1, <2>6 DEF TypeOK
    <3> QED BY <1>2, <2>1, <2>6, <3>1, Reviewing DEF NotDecided
  <2>7. v.status \in {"rejected", "validated", "need_review", "consensus_reached"}
    BY <2>2 DEF Verdicts
  <2> QED BY <2>4, <2>5, <2>6, <2>7
<1> QED BY <1>1, <1>2

LEMMA ValidateLives ==
    ASSUME TypeOK, NEW v \in Validators, Validate(v)
    PROVE  Life!LifeNext \/ UNCHANGED Statement
<1>1. ASSUME NEW bufferedOnly \in BOOLEAN, NEW first \in OrNone(Records),
             NEW rest \in SUBSET Records, NextPairs(v, bufferedOnly, first, rest)
      PROVE  UNCHANGED Statement
  BY <1>1, Resting DEF NextPairs, Claimable, LifeOf
<1>2. ASSUME NEW r \in Records, NEW s \in Slots, StartPair(v, r, s)
      PROVE  UNCHANGED Statement
  BY <1>2, Resting DEF StartPair
<1>3. ASSUME NEW r \in Records, NEW inaccessible \in BOOLEAN, Skip(v, r, inaccessible)
      PROVE  UNCHANGED Statement
  BY <1>3, Resting DEF Skip, Restored, TypeOK, LifeOf
<1>4. ASSUME NEW r \in Records, ReportRestricted(v, r) PROVE UNCHANGED Statement
  BY <1>4, Resting DEF ReportRestricted, Restored, TypeOK, LifeOf
<1>5. ASSUME NEW r \in Records, NEW answer \in Submitted, NEW ai \in AiAnswers,
             Judge(v, r, answer, ai)
      PROVE  Life!LifeNext \/ UNCHANGED Statement
  <2>1. PICK s \in Slots : Consensus(r, [queue[r] EXCEPT ![s] = DoneBy(v, answer)], ai)
    BY <1>5 DEF Judge, OpenSlots
  <2>2. [queue[r] EXCEPT ![s] = DoneBy(v, answer)] \in Pairs
    BY PairMakers DEF TypeOK, Pairs, Stored
  <2>3. merged' = merged /\ importer' = importer
    BY <1>5 DEF Judge
  <2> QED BY <2>1, <2>2, <2>3, ConsensusSettlesLife
<1>6. ASSUME NEW r \in Records, SeniorRejectEntry(v, r) PROVE Life!LifeNext
  BY <1>6, Rejecting DEF SeniorRejectEntry
<1>7. ASSUME NEW r \in Records, NEW answer \in Submitted, AssignmentJudge(v, r, answer)
      PROVE  Life!LifeNext
  <2>1. PICK new \in {"rejected", "need_review", "consensus_reached"} :
            /\ status' = [status EXCEPT ![r] = new]
            /\ validated' = IF new = "rejected" THEN [validated EXCEPT ![r] = None]
                            ELSE validated
    BY <1>7 DEF AssignmentJudge
  <2>2. NotDecided(r) /\ merged' = merged /\ importer' = importer
    BY <1>7 DEF AssignmentJudge
  <2>3. CASE new = "rejected"
    BY <2>1, <2>2, <2>3, Rejecting
  <2>4. CASE new # "rejected"
    BY <2>1, <2>2, <2>4, Reviewing
  <2> QED BY <2>3, <2>4
<1> QED BY <1>1, <1>2, <1>3, <1>4, <1>5, <1>6, <1>7 DEF Validate

LEMMA AdministerLives ==
    ASSUME TypeOK, NEW a \in Admins, Administer(a)
    PROVE  Life!LifeNext \/ UNCHANGED Statement
<1>1. ASSUME NEW r \in Records, NEW v \in Validators, AdminAssign(r, v)
      PROVE  UNCHANGED Statement
  BY <1>1, Resting DEF AdminAssign
<1>2. ASSUME NEW r \in Records, ApproveRead(a, r) PROVE UNCHANGED Statement
  BY <1>2, Resting DEF ApproveRead
<1>3. ASSUME ApproveRefused(a) PROVE UNCHANGED Statement
  BY <1>3, Resting DEF ApproveRefused
<1>4. ASSUME ApproveApply(a) PROVE Life!LifeNext
  <2> DEFINE r  == approving[a].record
             id == approving[a].identity
  <2>1. r \in Records /\ id \in Identities
    BY <1>4 DEF ApproveApply, TypeOK, Approvals, OrNone
  <2>2. /\ id \notin Taken(r)
        /\ status' = [status EXCEPT ![r] = "validated"]
        /\ validated' = [validated EXCEPT ![r] = id]
        /\ merged' = merged /\ importer' = importer
    BY <1>4 DEF ApproveApply
  <2> HIDE DEF r, id
  <2> QED BY <2>1, <2>2, Publishing
<1>5. ASSUME NEW r \in Records, NEW action, NEW cause, AdminRejects(r, action, cause),
             merged' = merged
      PROVE  Life!LifeNext
  BY <1>5, Rejecting DEF AdminRejects
<1>6. ASSUME NEW r \in Records, FlagReview(r) PROVE Life!LifeNext \/ UNCHANGED Statement
  <2>1. CASE status[r] = "validated" /\ ~row[r].admin_checked
    <3>1. Life!Becomes(r, "review", None)
      BY <1>6, <2>1, Becoming DEF FlagReview, LifeOf
    <3>2. Life!TakeBack(r)
      BY <1>6, <2>1, <3>1 DEF Life!TakeBack, LifeNow, LifeOf, FlagReview
    <3> QED BY <3>2 DEF Life!LifeNext
  <2>2. CASE ~(status[r] = "validated" /\ ~row[r].admin_checked)
    BY <1>6, <2>2, Resting DEF FlagReview, LifeOf, TypeOK
  <2> QED BY <2>1, <2>2
<1>7. ASSUME NEW r \in Records, NEW id \in TypedIdentities \cup {Current(r)},
             ResolvePublish(a, r, id)
      PROVE  Life!LifeNext
  <2>1. id \in Identities
    BY CurrentType, WorkflowAssumption
  <2> QED BY <1>7, <2>1, Publishing DEF ResolvePublish
<1>8. ASSUME NEW r \in Records, NEW id \in TypedIdentities \cup {Current(r)},
             NEW survivor \in Records, ResolveMerge(a, r, id, survivor)
      PROVE  Life!LifeNext
  <2>1. id # None
    BY CurrentType, IdentityIsNoNull, WorkflowAssumption
  <2>2. Life!Becomes(r, "rejected", None)
    BY <1>8, Becoming DEF ResolveMerge, AdminRejects, LifeOf
  <2>3. Life!Merge(r, survivor)
    BY <1>8, <2>1, <2>2 DEF ResolveMerge, MayResolve, AdminRejects, Life!Merge
  <2> QED BY <2>3 DEF Life!LifeNext
<1> QED BY <1>1, <1>2, <1>3, <1>4, <1>5, <1>6, <1>7, <1>8
        DEF Administer, RemoveOriginal, ResolveReject

\* A row of the import: one record returns to work, and nothing is published or hidden.
LEMMA ImportLives ==
    ASSUME TypeOK, Import
    PROVE  Life!LifeNext \/ UNCHANGED Statement
<1>1. ASSUME ImportStart \/ ImportEnd PROVE Life!LifeNext \/ UNCHANGED Statement
  <2>1. LifeNow' = LifeNow /\ validated' = validated /\ merged' = merged
    BY <1>1 DEF ImportStart, ImportEnd, LifeNow
  <2> QED BY <1>1, <2>1 DEF ImportStart, ImportEnd, Life!StartOrEnd, Life!LifeNext, Statement
<1>2. ASSUME NEW r \in Records, NEW new \in Shipped,
             ImportRefresh(r, new) \/ ImportReopen(r, new) \/ ImportRekey(r, new)
      PROVE  importer # None /\ importer' # None /\ validated' = validated
             /\ merged' = merged
  <2>1. importer # None /\ Handled(r) /\ validated' = validated /\ merged' = merged
    BY <1>2 DEF ImportRefresh, ImportReopen, ImportRekey, Idle, Rekeying
  <2>2. importer \in SlotMaps
    BY <2>1 DEF TypeOK, OrNone
  <2>3. importer' \in SlotMaps
    BY <2>1, <2>2 DEF Handled, SlotMaps, OrNone
  <2>4. None \notin SlotMaps
    BY WorkflowAssumption
  <2> QED BY <2>1, <2>3, <2>4
<1>3. ASSUME NEW r \in Records, NEW new \in Shipped, ImportRefresh(r, new)
      PROVE  UNCHANGED Statement
  BY <1>2, <1>3, Resting DEF ImportRefresh
<1>4. ASSUME NEW r \in Records, NEW new \in Shipped, NEW st \in {"unvalidated", "need_review"},
             status' = [status EXCEPT ![r] = st],
             ImportReopen(r, new) \/ ImportRekey(r, new)
      PROVE  Life!LifeNext
  <2>1. validated' = [validated EXCEPT ![r] = validated[r]]
    BY <1>2, <1>4 DEF TypeOK
  <2>2. Life!Becomes(r, LifeOf(st), validated[r])
    BY <1>4, <2>1, Becoming
  <2>3. LifeOf(st) \in {"open", "review"}
    BY DEF LifeOf
  <2>4. Life!Return(r, LifeOf(st))
    BY <1>2, <1>4, <2>2 DEF Life!Return
  <2> QED BY <2>3, <2>4 DEF Life!LifeNext
<1>5. ASSUME NEW r \in Records, NEW new \in Shipped, ImportRekey(r, new), status' = status
      PROVE  UNCHANGED Statement
  BY <1>2, <1>5, Resting
<1>6. ASSUME NEW r \in Records, NEW new \in Shipped, ImportRekey(r, new)
      PROVE  status' = status \/ status' = [status EXCEPT ![r] = "need_review"]
  BY <1>6 DEF ImportRekey
<1>7. ASSUME NEW r \in Records, NEW new \in Shipped, ImportReopen(r, new)
      PROVE  status' = [status EXCEPT ![r] = "unvalidated"]
  BY <1>7 DEF ImportReopen
<1>8. ASSUME NEW r \in Records, NEW new \in Shipped, ImportRekeyRead(r, new)
      PROVE  UNCHANGED Statement
  <2>1. importer # None /\ importer' # None
    BY <1>8, RekeyReadType DEF ImportRekeyRead, Idle
  <2> QED BY <1>8, <2>1, Resting DEF ImportRekeyRead
<1> QED BY <1>1, <1>3, <1>4, <1>5, <1>6, <1>7, <1>8 DEF Import

LEMMA StepLives ==
    TypeOK /\ [Next]_vars =>
        [Life!LifeNext]_<<LifeNow, validated, merged, importer # None>>
<1> SUFFICES ASSUME TypeOK, [Next]_vars PROVE Life!LifeNext \/ UNCHANGED Statement
  BY DEF Statement
<1>1. CASE UNCHANGED vars
  BY <1>1, Resting DEF vars
<1>2. ASSUME NEW stale \in SUBSET (Records \X Slots), Reap(stale)
      PROVE  UNCHANGED Statement
  BY <1>2, Resting DEF Reap, Restored, TypeOK, LifeOf
<1>3. ASSUME NightlyRetry PROVE Life!LifeNext \/ UNCHANGED Statement
  <2>1. ASSUME NEW ai \in AiAnswers, RetryTiebreaker(ai)
        PROVE  Life!LifeNext \/ UNCHANGED Statement
    <3>1. asked.record \in Records /\ queue[asked.record] \in Pairs
      BY <2>1 DEF RetryTiebreaker, TypeOK, Questions, Pairs, OrNone
    <3> QED BY <2>1, <3>1, ConsensusSettlesLife DEF RetryTiebreaker
  <2> QED BY <1>3, <2>1, Resting DEF NightlyRetry, RetryAsk, RetryLlmError, RetryDrop
<1> QED BY <1>1, <1>2, <1>3, ValidateLives, AdministerLives, ImportLives DEF Next

\* The workflow implements the life of a record: whatever interleaves, every step decides
\* one record, returns one to work, starts or ends an import, or leaves what the public
\* sees as it is.
THEOREM RecordsLive == Spec => RecordsLiveAsPromised
<1>1. Init => Life!LifeInit
  BY DEF Init, Life!LifeInit, LifeNow, LifeOf
<1>2. TypeOK /\ [Next]_vars =>
          [Life!LifeNext]_<<LifeNow, validated, merged, importer # None>>
  BY StepLives
<1> QED BY <1>1, <1>2, TypeCorrect, PTL DEF Spec, RecordsLiveAsPromised, Life!LifeSpec,
           Life!lifeVars

\* What RecordLife promises is enough for what is published.
LEMMA PromiseSuffices ==
    Life!LifeSpec => [](Life!LifeTypeOK /\ Life!ShownAsDecided)
<1> DEFINE Inv == Life!LifeTypeOK /\ Life!ShownAsDecided
<1>1. Life!LifeInit => Inv
  BY DEF Life!LifeInit, Life!LifeTypeOK, Life!ShownAsDecided, Life!Lives
<1>2. ASSUME Inv, [Life!LifeNext]_<<LifeNow, validated, merged, importer # None>>
      PROVE  Inv'
  <2> USE DEF Life!LifeTypeOK, Life!ShownAsDecided, Life!Lives
  <2>1. CASE UNCHANGED <<LifeNow, validated, merged, importer # None>>
    BY <1>2, <2>1
  <2>2. CASE Life!StartOrEnd
    BY <1>2, <2>2 DEF Life!StartOrEnd
  <2>3. ASSUME NEW e \in Records, NEW id \in Identities, Life!Free(e, id),
               Life!Becomes(e, "published", id),
               UNCHANGED <<merged, importer # None>>
        PROVE  Inv'
    BY <1>2, <2>3, IdentityIsNoNull DEF Life!Free, Life!Becomes
  <2>4. ASSUME NEW e \in Records, NEW st \in {"rejected", "open", "review"},
               Life!Becomes(e, st, None), merged' \in [Records -> Records \cup {None}],
               UNCHANGED (importer # None)
        PROVE  Inv'
    BY <1>2, <2>4 DEF Life!Becomes
  <2>5. ASSUME NEW e \in Records, NEW st \in {"open", "review"},
               Life!Becomes(e, st, validated[e]),
               UNCHANGED <<merged, importer # None>>
        PROVE  Inv'
    BY <1>2, <2>5 DEF Life!Becomes
  <2>6. ASSUME NEW e \in Records, NEW o \in Records, Life!Merge(e, o) PROVE Inv'
    BY <1>2, <2>4, <2>6 DEF Life!Merge
  <2> QED BY <1>2, <2>1, <2>2, <2>3, <2>4, <2>5, <2>6
          DEF Life!LifeNext, Life!Settle, Life!Approve, Life!Reject, Life!TakeBack,
              Life!Return
<1>3. QED BY <1>1, <1>2, PTL DEF Life!LifeSpec, Life!lifeVars

\* A validated record has its published row, a rejected one has none.
THEOREM PublishedFollowsStatus == Spec => []PublishedAsDecided
<1>1. Life!ShownAsDecided => PublishedAsDecided
  BY DEF Life!ShownAsDecided, PublishedAsDecided, LifeNow, LifeOf
<1> QED BY <1>1, RecordsLive, PromiseSuffices, PTL DEF RecordsLiveAsPromised

\* No two entries are published under one identity.
THEOREM OneEntryPerIdentity == Spec => []IdentityIsUnique
<1>1. Life!ShownAsDecided => IdentityIsUnique
  BY DEF Life!ShownAsDecided, IdentityIsUnique
<1> QED BY <1>1, RecordsLive, PromiseSuffices, PTL DEF RecordsLiveAsPromised

-----------------------------------------------------------------------------
(* What no admin has checked.                                              *)

LEMMA TeamCounts ==
    ASSUME NEW slots \in Pairs
    PROVE  /\ Team(slots).trusted >= 1 =>
                  {slots["human_1"].validator, slots["human_2"].validator} \cap Trusted # {}
           /\ Team(slots).experienced >= 2 =>
                  {slots["human_1"].validator, slots["human_2"].validator} \subseteq Experienced
<1> DEFINE T == {s \in Slots : slots[s].validator \in Trusted}
           E == {s \in Slots : slots[s].validator \in Experienced}
<1>1. Team(slots).trusted = Cardinality(T) /\ Team(slots).experienced = Cardinality(E)
  BY DEF Team
<1>2. T = {} => Cardinality(T) = 0
  BY FS_EmptySet
<1>3. \A x : Cardinality({x}) = 1
  BY FS_Singleton
<1>4. E # Slots => Cardinality(E) \in {0, 1}
  <2>1. E # Slots => E = {} \/ E = {"human_1"} \/ E = {"human_2"}
    BY DEF Slots
  <2> HIDE DEF E
  <2> QED BY <2>1, <1>3, FS_EmptySet
<1>5. Cardinality(T) >= 1 => T # {}
  <2> HIDE DEF T
  <2> QED BY <1>2
<1>6. Cardinality(E) >= 2 => E = Slots
  <2> HIDE DEF E
  <2> QED BY <1>4
<1> QED BY <1>1, <1>5, <1>6 DEF Slots

\* What a rule needs, of the record's columns and slots.
ByRule(x, slots, identity) ==
    LET h1 == slots["human_1"]
        h2 == slots["human_2"]
    IN  /\ x.auto_rule # None
        /\ BothDone(slots)
        /\ h1.validator # h2.validator
        /\ \/ {h1.validator, h2.validator} \cap Trusted # {}
           \/ {h1.validator, h2.validator} \subseteq Experienced
        /\ ChecksAgree(h1.answer, h2.answer) /\ CorrectionsAgree(h1.answer, h2.answer)
        /\ identity = x.final

Unchecked(r) ==
    status[r] = "validated" /\ ~row[r].admin_checked =>
        ByRule(row[r], queue[r], validated[r])

AllByRule == \A r \in Records : Unchecked(r)

\* What keeps a record's standing: its columns and its judged slots.
LEMMA StandingKept ==
    ASSUME TypeOK, TypeOK', AllByRule, NEW r \in Records,
           status'[r] = "validated" => status[r] = "validated",
           row'[r].admin_checked = row[r].admin_checked,
           row'[r].auto_rule = row[r].auto_rule,
           row'[r].final = row[r].final,
           validated'[r] = validated[r],
           \A s \in Slots : queue[r][s].phase = "done" => queue'[r][s] = queue[r][s]
    PROVE  Unchecked(r)'
<1> SUFFICES ASSUME status'[r] = "validated", ~row'[r].admin_checked
             PROVE  ByRule(row'[r], queue'[r], validated'[r])
  BY DEF Unchecked
<1>1. ByRule(row[r], queue[r], validated[r])
  BY DEF AllByRule, Unchecked
<1>2. queue[r] \in Pairs /\ queue'[r] \in Pairs
  BY DEF TypeOK, Pairs
<1>3. \A s \in Slots : queue'[r][s] = queue[r][s]
  BY <1>1 DEF ByRule, BothDone
<1>4. queue'[r] = queue[r]
  BY <1>2, <1>3 DEF Pairs
<1> QED BY <1>1, <1>4 DEF ByRule

\* evaluate_consensus validates only by a rule that both judgements satisfy.
LEMMA ConsensusByRule ==
    ASSUME TypeOK, NEW r \in Records, NEW slots \in Pairs, NEW ai \in AiAnswers,
           Consensus(r, slots, ai), Sole(slots), queue'[r] = slots,
           BothDone(slots), status[r] \notin DECIDED_STATUSES
    PROVE  Unchecked(r)'
<1> DEFINE a1 == slots["human_1"].answer
           a2 == slots["human_2"].answer
           v  == EvaluateConsensus(row[r].raw, a1, a2, ai, Team(slots), Taken(r))
<1> SUFFICES ASSUME status'[r] = "validated"
             PROVE  ByRule(row'[r], queue'[r], validated'[r])
  BY DEF Unchecked
<1>1. a1 \in Answers /\ a2 \in Answers /\ row[r].raw \in Extractions
  BY VerdictOf
<1>2. /\ status'[r] = v.status
      /\ row'[r].final = IF v.final = None THEN row[r].final ELSE Identity(v.final)
      /\ row'[r].auto_rule = IF v.rule = None THEN row[r].auto_rule ELSE v.rule
      /\ v.status = "validated" => validated'[r] = Identity(v.final)
  <2>1. /\ status' = [status EXCEPT ![r] = v.status]
        /\ row' = [row EXCEPT
                    ![r].is_tiebreaker = v.tie,
                    ![r].final = IF v.final = None THEN @ ELSE Identity(v.final),
                    ![r].llm_validator = StoredLlm(@, ai, v.stores),
                    ![r].auto_rule = IF v.rule = None THEN @ ELSE v.rule]
        /\ validated' = [validated EXCEPT
                    ![r] = CASE v.status = "rejected"  -> None
                             [] v.status = "validated" -> Identity(v.final)
                             [] OTHER                  -> @]
    BY DEF Consensus
  <2> HIDE DEF v
  <2>2. status'[r] = v.status /\ (v.status = "validated" => validated'[r] = Identity(v.final))
    BY <2>1 DEF TypeOK
  <2>3. /\ row'[r].final = IF v.final = None THEN row[r].final ELSE Identity(v.final)
        /\ row'[r].auto_rule = IF v.rule = None THEN row[r].auto_rule ELSE v.rule
    BY <2>1 DEF TypeOK, Rows
  <2> QED BY <2>2, <2>3
<1>3. /\ v.rule = AutoValidationRule(a1, a2, ai, Team(slots))
      /\ v.rule # None /\ v.final \in Finals
  BY <1>1, <1>2, ValidatedByRule
<1>4. /\ ChecksAgree(a1, a2) /\ CorrectionsAgree(a1, a2)
      /\ ~a1.senior_reject
      /\ Team(slots).trusted >= 1 \/ Team(slots).experienced >= 2
  <2>1. AutoValidationRule(a1, a2, ai, Team(slots)) # None
    BY <1>3
  <2> QED BY <1>1, <2>1, RuleNeedsAgreement
<1>5. slots["human_1"].validator # slots["human_2"].validator
  <2>1. slots["human_1"].validator # None
    BY SlotShape DEF Pairs, BothDone, Slots
  <2>2. a1 # SeniorReject
    BY <1>4 DEF SeniorReject
  <2> QED BY <2>1, <2>2 DEF Sole
<1>6. validated'[r] = row'[r].final
  <2>1. v.final # None
    BY <1>3, WorkflowAssumption
  <2> QED BY <1>2, <2>1
<1> HIDE DEF v, a1, a2
<1> QED BY <1>2, <1>3, <1>4, <1>5, <1>6, TeamCounts DEF ByRule, a1, a2
\* A record a step does not decide, as far as its standing goes.
Kept(r) ==
    /\ status'[r] = "validated" => status[r] = "validated"
    /\ row'[r].admin_checked = row[r].admin_checked
    /\ row'[r].auto_rule = row[r].auto_rule
    /\ row'[r].final = row[r].final
    /\ validated'[r] = validated[r]
    /\ \A s \in Slots : queue[r][s].phase = "done" => queue'[r][s] = queue[r][s]

\* Every step keeps a record's standing, is checked by an admin, leaves the
\* record undecided or rejected, or is the engine's verdict.
LEMMA KeptSuffices ==
    ASSUME TypeOK, TypeOK', AllByRule,
           \A r \in Records : \/ Kept(r)
                             \/ row'[r].admin_checked
                             \/ status'[r] # "validated"
                             \/ Unchecked(r)'
    PROVE  AllByRule'
<1>1. ASSUME NEW r \in Records, Kept(r) PROVE Unchecked(r)'
  BY <1>1, StandingKept DEF Kept
<1>2. ASSUME NEW r \in Records, row'[r].admin_checked \/ status'[r] # "validated"
      PROVE  Unchecked(r)'
  BY <1>2 DEF Unchecked
<1> QED BY <1>1, <1>2 DEF AllByRule

\* The engine writes the one record it judges.
LEMMA ConsensusElsewhere ==
    ASSUME TypeOK, NEW r \in Records, NEW slots, NEW ai, Consensus(r, slots, ai),
           NEW o \in Records \ {r}
    PROVE  status'[o] = status[o] /\ row'[o] = row[o] /\ validated'[o] = validated[o]
<1>1. status'[o] = status[o]
  BY DEF Consensus, TypeOK
<1>2. row'[o] = row[o]
  BY DEF Consensus, TypeOK
<1>3. validated'[o] = validated[o]
  BY DEF Consensus, TypeOK
<1> QED BY <1>1, <1>2, <1>3

LEMMA ValidateByRule ==
    ASSUME TypeOK, TypeOK', SlotsOK, AllByRule, NEW v \in Validators, Validate(v)
    PROVE  AllByRule'
<1>1. ASSUME NEW bufferedOnly \in BOOLEAN, NEW first \in OrNone(Records),
             NEW rest \in SUBSET Records, NextPairs(v, bufferedOnly, first, rest)
      PROVE  AllByRule'
  <2>1. ASSUME NEW r \in Records PROVE Kept(r) \/ status'[r] # "validated"
    <3>1. CASE r \in rest \cup ({first} \ {None})
      BY <1>1, <3>1 DEF NextPairs
    <3>2. CASE r \notin rest \cup ({first} \ {None})
      BY <1>1, <3>2 DEF NextPairs, Kept, ReleasedBy, IsHeld
    <3> QED BY <3>1, <3>2
  <2> QED BY <2>1, KeptSuffices
<1>2. ASSUME NEW r \in Records, NEW s \in Slots, StartPair(v, r, s) PROVE AllByRule'
  <2>1. \A o \in Records : Kept(o)
    BY <1>2 DEF StartPair, OpenSlots, IsHeld, Kept, TypeOK
  <2> QED BY <2>1, KeptSuffices
<1>3. ASSUME NEW r \in Records, NEW inaccessible \in BOOLEAN, Skip(v, r, inaccessible)
      PROVE  AllByRule'
  <2>1. ASSUME NEW o \in Records PROVE Kept(o)
    <3>1. /\ row'[o].admin_checked = row[o].admin_checked
          /\ row'[o].auto_rule = row[o].auto_rule
          /\ row'[o].final = row[o].final
      BY <1>3 DEF Skip, TypeOK, Rows
    <3> QED BY <1>3, <3>1 DEF Skip, Kept, ReleasedBy, Restored, IsHeld, TypeOK
  <2> QED BY <2>1, KeptSuffices
<1>4. ASSUME NEW r \in Records, ReportRestricted(v, r) PROVE AllByRule'
  <2>1. ASSUME NEW o \in Records PROVE Kept(o)
    <3>1. /\ row'[o].admin_checked = row[o].admin_checked
          /\ row'[o].auto_rule = row[o].auto_rule
          /\ row'[o].final = row[o].final
      BY <1>4 DEF ReportRestricted, TypeOK, Rows
    <3> QED BY <1>4, <3>1 DEF ReportRestricted, Kept, ReleasedBy, Restored, IsHeld, TypeOK
  <2> QED BY <2>1, KeptSuffices
<1>5. ASSUME NEW r \in Records, NEW answer \in Submitted, NEW ai \in AiAnswers,
             Judge(v, r, answer, ai)
      PROVE  AllByRule'
  <2>1. PICK s \in Slots :
            /\ IsHeld(queue[r][s]) /\ queue[r][s].validator = v
            /\ queue' = [queue EXCEPT ![r] = [queue[r] EXCEPT ![s] = DoneBy(v, answer)]]
            /\ Consensus(r, [queue[r] EXCEPT ![s] = DoneBy(v, answer)], ai)
    BY <1>5 DEF Judge, OpenSlots
  <2> DEFINE slots == [queue[r] EXCEPT ![s] = DoneBy(v, answer)]
  <2>2. /\ slots \in Pairs /\ queue[r] \in Pairs /\ answer \in Stored
        /\ queue'[r] = slots
    BY <2>1, PairMakers DEF TypeOK, Pairs, Stored
  <2>3. SlotsOK' /\ Sole(slots)
    BY <1>5, <2>2, JudgeSlots DEF SlotsOK, RecordOK
  <2>4. status[r] \notin DECIDED_STATUSES
    BY <2>1, <2>2, Filled DEF SlotsOK
  <2>5. CASE BothDone(slots)
    <3>1. Unchecked(r)'
      BY <2>1, <2>2, <2>3, <2>4, <2>5, ConsensusByRule
    <3>2. ASSUME NEW o \in Records \ {r} PROVE Kept(o)
      <4>1. queue'[o] = queue[o]
        BY <2>1 DEF TypeOK
      <4>2. status'[o] = status[o] /\ row'[o] = row[o] /\ validated'[o] = validated[o]
        BY <2>1, ConsensusElsewhere
      <4> QED BY <4>1, <4>2 DEF Kept
    <3> QED BY <3>1, <3>2, KeptSuffices
  <2>6. CASE ~BothDone(slots)
    <3>1. UNCHANGED <<status, row, validated>>
      BY <2>1, <2>6 DEF Consensus
    <3>2. \A o \in Records : Kept(o)
      BY <2>1, <3>1 DEF Kept, IsHeld, TypeOK
    <3> QED BY <3>2, KeptSuffices
  <2> QED BY <2>5, <2>6
<1>6. ASSUME NEW r \in Records, SeniorRejectEntry(v, r) PROVE AllByRule'
  <2>1. status'[r] # "validated" /\ \A o \in Records \ {r} : Kept(o)
    BY <1>6 DEF SeniorRejectEntry, Kept, TypeOK
  <2> QED BY <2>1, KeptSuffices
<1>7. ASSUME NEW r \in Records, NEW answer \in Submitted, AssignmentJudge(v, r, answer)
      PROVE  AllByRule'
  <2>1. status'[r] # "validated"
    BY <1>7 DEF AssignmentJudge, TypeOK
  <2>2. \A o \in Records \ {r} : Kept(o)
    BY <1>7 DEF AssignmentJudge, CloseOpenWork, Kept, TypeOK
  <2> QED BY <2>1, <2>2, KeptSuffices
<1> QED BY <1>1, <1>2, <1>3, <1>4, <1>5, <1>6, <1>7 DEF Validate

\* An admin's decision checks the record, or leaves it in review.
LEMMA AdministerByRule ==
    ASSUME TypeOK, TypeOK', AllByRule, NEW a \in Admins, Administer(a)
    PROVE  AllByRule'
<1>1. ASSUME NEW r \in Records, NEW v \in Validators, AdminAssign(r, v) PROVE AllByRule'
  BY <1>1, KeptSuffices DEF AdminAssign, Kept
<1>2. ASSUME NEW r \in Records, ApproveRead(a, r) PROVE AllByRule'
  BY <1>2, KeptSuffices DEF ApproveRead, Kept
<1>3. ASSUME ApproveRefused(a) PROVE AllByRule'
  BY <1>3, KeptSuffices DEF ApproveRefused, Kept
<1>4. ASSUME ApproveApply(a) PROVE AllByRule'
  <2> DEFINE r == approving[a].record
  <2>1. r \in Records
    BY <1>4 DEF ApproveApply, TypeOK, Approvals, OrNone
  <2>2. /\ AdminChecked(r) /\ CloseOpenWork(r)
        /\ status' = [status EXCEPT ![r] = "validated"]
        /\ validated' = [validated EXCEPT ![r] = approving[a].identity]
    BY <1>4 DEF ApproveApply
  <2> HIDE DEF r
  <2>3. row'[r].admin_checked
    BY <2>1, <2>2 DEF AdminChecked, TypeOK, Rows
  <2>4. \A o \in Records \ {r} : Kept(o)
    BY <2>1, <2>2 DEF AdminChecked, CloseOpenWork, Kept, TypeOK
  <2> QED BY <2>3, <2>4, KeptSuffices
<1>5. ASSUME NEW r \in Records, NEW action, NEW cause, AdminRejects(r, action, cause),
             \A o \in Records \ {r} : row'[o] = row[o]
      PROVE  AllByRule'
  <2>1. status'[r] # "validated" /\ \A o \in Records \ {r} : Kept(o)
    BY <1>5 DEF AdminRejects, CloseOpenWork, Kept, TypeOK
  <2> QED BY <2>1, KeptSuffices
<1>6. ASSUME NEW r \in Records, FlagReview(r) PROVE AllByRule'
  <2>1. status'[r] # "validated" /\ \A o \in Records \ {r} : Kept(o)
    BY <1>6 DEF FlagReview, Kept, TypeOK
  <2> QED BY <2>1, KeptSuffices
<1>7. ASSUME NEW r \in Records, NEW id, ResolvePublish(a, r, id) PROVE AllByRule'
  <2>1. row'[r].admin_checked
    BY <1>7 DEF ResolvePublish, TypeOK, Rows
  <2>2. \A o \in Records \ {r} : Kept(o)
    BY <1>7 DEF ResolvePublish, CloseOpenWork, Kept, TypeOK
  <2> QED BY <2>1, <2>2, KeptSuffices
<1>8. ASSUME NEW r \in Records, RemoveOriginal(a, r) \/ ResolveReject(a, r)
      PROVE  AllByRule'
  <2>1. PICK action, cause : AdminRejects(r, action, cause) /\ AdminChecked(r)
    BY <1>8 DEF RemoveOriginal, ResolveReject
  <2>2. \A o \in Records \ {r} : row'[o] = row[o]
    BY <2>1 DEF AdminChecked, TypeOK
  <2> QED BY <1>5, <2>1, <2>2
<1>9. ASSUME NEW r \in Records, NEW id, NEW survivor, ResolveMerge(a, r, id, survivor)
      PROVE  AllByRule'
  <2>1. /\ AdminRejects(r, "merged", "other")
        /\ \A o \in Records \ {r} : row'[o] = row[o]
    BY <1>9 DEF ResolveMerge, TypeOK
  <2> QED BY <1>5, <2>1
<1> QED BY <1>1, <1>2, <1>3, <1>4, <1>6, <1>7, <1>8, <1>9 DEF Administer

LEMMA JobsByRule ==
    ASSUME TypeOK, TypeOK', SlotsOK, AllByRule,
           \/ \E stale \in SUBSET (Records \X Slots) : Reap(stale)
           \/ Import
           \/ NightlyRetry
    PROVE  AllByRule'
<1>1. ASSUME NEW stale \in SUBSET (Records \X Slots), Reap(stale) PROVE AllByRule'
  <2>1. \A r \in Records : Kept(r)
    BY <1>1 DEF Reap, Restored, PastLimit, IsHeld, Kept
  <2> QED BY <2>1, KeptSuffices
<1>2. ASSUME \/ ImportStart \/ ImportEnd
             \/ \E r \in Records, new \in Shipped : ImportRekeyRead(r, new)
      PROVE  AllByRule'
  BY <1>2, KeptSuffices DEF ImportStart, ImportEnd, ImportRekeyRead, Kept
<1>3. ASSUME NEW r \in Records, NEW new \in Shipped, ImportRefresh(r, new) PROVE AllByRule'
  <2>1. \A o \in Records : Kept(o)
    BY <1>3 DEF ImportRefresh, Kept, TypeOK, Rows
  <2> QED BY <2>1, KeptSuffices
<1>4. ASSUME NEW r \in Records, NEW new \in Shipped, ImportReopen(r, new) PROVE AllByRule'
  <2>1. status'[r] # "validated" /\ \A o \in Records \ {r} : Kept(o)
    BY <1>4 DEF ImportReopen, Kept, TypeOK
  <2> QED BY <2>1, KeptSuffices
<1>5. ASSUME NEW r \in Records, NEW new \in Shipped, ImportRekey(r, new) PROVE AllByRule'
  <2>1. \A o \in Records : /\ row'[o].admin_checked = row[o].admin_checked
                           /\ row'[o].auto_rule = row[o].auto_rule
                           /\ row'[o].final = row[o].final
    BY <1>5 DEF ImportRekey, TypeOK, Rows
  <2>2. \A o \in Records : Kept(o)
    BY <1>5, <2>1 DEF ImportRekey, Kept, TypeOK
  <2> QED BY <2>2, KeptSuffices
<1>6. ASSUME NEW r \in Records, RetryAsk(r) PROVE AllByRule'
  BY <1>6, KeptSuffices DEF RetryAsk, Kept
<1>7. ASSUME NEW ai \in AiAnswers, RetryDrop(ai) PROVE AllByRule'
  BY <1>7, KeptSuffices DEF RetryDrop, Kept
<1>8. ASSUME NEW ai \in AiAnswers, RetryLlmError(ai) PROVE AllByRule'
  <2>1. \A o \in Records : Kept(o)
    BY <1>8 DEF RetryLlmError, Kept, TypeOK, Rows
  <2> QED BY <2>1, KeptSuffices
<1>9. ASSUME NEW ai \in AiAnswers, RetryTiebreaker(ai) PROVE AllByRule'
  <2>0. PICK r \in Records : r = asked.record
    BY <1>9 DEF RetryTiebreaker, TypeOK, Questions, OrNone
  <2>1. /\ queue[r] \in Pairs /\ queue' = queue
        /\ Consensus(r, queue[r], ai)
        /\ status[r] \notin DECIDED_STATUSES
    BY <1>9, <2>0 DEF RetryTiebreaker, StillStuck, StuckTiebreaker, TypeOK, Pairs,
                      DECIDED_STATUSES
  <2>2. CASE BothDone(queue[r])
    <3>1. Unchecked(r)'
      BY <2>1, <2>2, ConsensusByRule DEF SlotsOK, RecordOK
    <3>2. ASSUME NEW o \in Records \ {r} PROVE Kept(o)
      <4>1. status'[o] = status[o] /\ row'[o] = row[o] /\ validated'[o] = validated[o]
        BY <2>1, ConsensusElsewhere
      <4> QED BY <2>1, <4>1 DEF Kept
    <3> QED BY <3>1, <3>2, KeptSuffices
  <2>3. CASE ~BothDone(queue[r])
    <3>1. \A o \in Records : Kept(o)
      BY <2>1, <2>3 DEF Consensus, Kept
    <3> QED BY <3>1, KeptSuffices
  <2> QED BY <2>2, <2>3
<1> QED BY <1>1, <1>2, <1>3, <1>4, <1>5, <1>6, <1>7, <1>8, <1>9 DEF Import, NightlyRetry

LEMMA ByRuleInvariance == Spec => []AllByRule
<1>1. Init => AllByRule
  BY DEF Init, AllByRule, Unchecked
<1>2. TypeOK /\ TypeOK' /\ SlotsOK /\ AllByRule /\ [Next]_vars => AllByRule'
  <2> SUFFICES ASSUME TypeOK, TypeOK', SlotsOK, AllByRule, [Next]_vars PROVE AllByRule'
    OBVIOUS
  <2>1. CASE UNCHANGED vars
    BY <2>1, KeptSuffices DEF vars, Kept
  <2>2. CASE Next
    BY <2>2, ValidateByRule, AdministerByRule, JobsByRule DEF Next
  <2> QED BY <2>1, <2>2
<1> QED BY <1>1, <1>2, SlotInvariance, PTL DEF Spec

\* What no admin has checked is published only by a rule, from two agreeing
\* judgements of different people whom the rule trusts.
THEOREM UncheckedByRule == Spec => []UncheckedIsByRule
<1>1. AllByRule => UncheckedIsByRule
  BY DEF AllByRule, Unchecked, ByRule, UncheckedIsByRule
<1> QED BY <1>1, ByRuleInvariance, PTL

-----------------------------------------------------------------------------
(***************************************************************************)
(* Why a record is rejected.  The import re-opens on what the log and the  *)
(* copies of the judgements say; both are overwritten by handlers that do  *)
(* not know of each other, so that they say it only of a record rejected   *)
(* for its original takes three facts about every record.                  *)
(***************************************************************************)
BothProposed(r) ==
    RemovalProposed(CopyAnswer(copies[r]["human_1"]), CopyAnswer(copies[r]["human_2"]))

\* A rejected record was rejected for its original, or the log or the copies show it was not.
CauseOK(r) ==
    status[r] = "rejected" =>
        \/ history[r].cause = "removed"
        \/ decision[r].rejection # "original_removed"
        \/ ~BothProposed(r)

\* While a judgement may still come in, the copies are those of the answered slots.
Collecting(r) == \/ status[r] \in {"unvalidated", "validation_inprogress"}
                 \/ \E s \in Slots : IsHeld(queue[r][s])
CopiesOK(r) ==
    Collecting(r) => \A s \in Slots : queue[r][s].phase = "done" =>
                        CopyAnswer(copies[r][s]) \in {None, queue[r][s].answer}

\* A tiebreak is about two answers that disagree, none of them a senior's reject.
TieOK(r) ==
    row[r].is_tiebreaker =>
        LET h1 == queue[r]["human_1"].answer
            h2 == queue[r]["human_2"].answer
        IN  BothDone(queue[r]) /\ ~ChecksAgree(h1, h2) /\ ~h1.senior_reject /\ ~h2.senior_reject

ReasonsOK == \A r \in Records : CauseOK(r) /\ CopiesOK(r) /\ TieOK(r)

\* The engine rejects nothing that both propose to keep without its original, and nothing
\* whose checks differ.
LEMMA EngineRejects ==
    ASSUME NEW rec \in Extractions, NEW h1 \in Answers, NEW h2 \in Answers,
           NEW llm, NEW team, NEW taken
    PROVE  LET v == EvaluateConsensus(rec, h1, h2, llm, team, taken)
           IN  /\ v.status = "rejected" =>
                     /\ ~RemovalProposed(h1, h2)
                     /\ h1.senior_reject \/ h2.senior_reject \/ ChecksAgree(h1, h2)
               /\ v.tie => ~ChecksAgree(h1, h2) /\ ~h1.senior_reject /\ ~h2.senior_reject
<1>1. h1.senior_reject \/ h2.senior_reject => ~RemovalProposed(h1, h2)
  BY DEF RemovalProposed, MarkedWrongWithoutReplacement
<1>2. EffectiveType(h1) = "not_validation" => ~RemovalProposed(h1, h2)
  BY DEF RemovalProposed, MarkedWrongWithoutReplacement
<1>3. Agreement(rec, h1, h2, llm, team, taken).status # "rejected"
      /\ ~Agreement(rec, h1, h2, llm, team, taken).tie
  BY DEF Agreement, Verdict
<1>4. Tiebreak(rec, h1, h2, llm).status # "rejected"
  BY DEF Tiebreak, ToReview, Verdict
<1>5. ~NeitherType(h1, llm).tie
  BY DEF NeitherType, ToReview, Verdict
<1> QED BY <1>1, <1>2, <1>3, <1>4, <1>5 DEF EvaluateConsensus, ToReview, Verdict

\* What every handler that rejects nothing new has to leave alone.
LEMMA CauseKept ==
    ASSUME NEW r \in Records, CauseOK(r),
           status'[r] = "rejected" =>
               /\ status[r] = "rejected" /\ copies'[r] = copies[r]
               /\ decision'[r].rejection = decision[r].rejection
               /\ history'[r].cause = history[r].cause
    PROVE  CauseOK(r)'
BY DEF CauseOK, BothProposed

LEMMA CopiesKept ==
    ASSUME NEW r \in Records, CopiesOK(r), copies'[r] = copies[r], Collecting(r)' => Collecting(r),
           \A s \in Slots : queue'[r][s].phase = "done" => queue'[r][s] = queue[r][s]
    PROVE  CopiesOK(r)'
BY DEF CopiesOK

LEMMA TieKept ==
    ASSUME NEW r \in Records, TieOK(r), row'[r].is_tiebreaker => row[r].is_tiebreaker,
           Keeps(queue[r], queue'[r])
    PROVE  TieOK(r)'
BY DEF TieOK, BothDone, Keeps, Slots

\* A handler that answers no slot, writes no copy and breaks no tie.
LEMMA PassiveKeeps ==
    ASSUME ReasonsOK, NEW r \in Records, copies'[r] = copies[r],
           Keeps(queue[r], queue'[r]), row'[r].is_tiebreaker => row[r].is_tiebreaker,
           Collecting(r)' => Collecting(r),
           \A s \in Slots : queue'[r][s].phase = "done" => queue'[r][s] = queue[r][s],
           \/ CauseOK(r)'
           \/ status'[r] = "rejected" =>
                 /\ status[r] = "rejected"
                 /\ decision'[r].rejection = decision[r].rejection
                 /\ history'[r].cause = history[r].cause
    PROVE  (CauseOK(r) /\ CopiesOK(r) /\ TieOK(r))'
<1>1. CauseOK(r) /\ CopiesOK(r) /\ TieOK(r)
  BY DEF ReasonsOK
<1> QED BY <1>1, CauseKept, CopiesKept, TieKept

LEMMA InitReasons == Init => ReasonsOK
BY DEF Init, ReasonsOK, CauseOK, CopiesOK, TieOK, FreeSlot

\* A handler that leaves a record alone.
LEMMA UntouchedReasons ==
    ASSUME ReasonsOK, NEW r \in Records, status'[r] = status[r], queue'[r] = queue[r],
           copies'[r] = copies[r], row'[r].is_tiebreaker = row[r].is_tiebreaker,
           decision'[r] = decision[r], history'[r].cause = history[r].cause
    PROVE  (CauseOK(r) /\ CopiesOK(r) /\ TieOK(r))'
<1>1. Keeps(queue[r], queue'[r]) /\ (Collecting(r)' => Collecting(r))
  BY DEF Keeps, Collecting
<1> QED BY <1>1, PassiveKeeps

\* A decision that closes what is open, and is not a rejection left unexplained.
LEMMA ClosedReasons ==
    ASSUME TypeOK, ReasonsOK, NEW r \in Records, NEW new \in Settled, CloseOpenWork(r),
           status' = [status EXCEPT ![r] = new], copies' = copies,
           row'[r].is_tiebreaker = row[r].is_tiebreaker, CauseOK(r)',
           \A o \in Records \ {r} : /\ row'[o].is_tiebreaker = row[o].is_tiebreaker
                                    /\ decision'[o] = decision[o]
                                    /\ history'[o].cause = history[o].cause
    PROVE  ReasonsOK'
<1>1. queue[r] \in Pairs /\ queue' = [queue EXCEPT ![r] = Released(queue[r])]
  BY DEF TypeOK, Pairs, CloseOpenWork
<1>2. \A s \in Slots : \/ queue'[r][s] = FreeSlot
                       \/ queue'[r][s] = queue[r][s] /\ queue[r][s].phase = "done"
  BY <1>1 DEF Released, TypeOK
<1>3. /\ Keeps(queue[r], queue'[r])
      /\ \A s \in Slots : queue'[r][s].phase = "done" => queue'[r][s] = queue[r][s]
  BY <1>1, <1>2 DEF Keeps, Released, FreeSlot, TypeOK
<1>4. ~Collecting(r)'
  <2>1. status'[r] = new
    BY DEF TypeOK
  <2>2. \A s \in Slots : ~IsHeld(queue'[r][s])
    BY <1>2 DEF IsHeld, FreeSlot
  <2> QED BY <2>1, <2>2 DEF Collecting, Settled
<1>5. (CauseOK(r) /\ CopiesOK(r) /\ TieOK(r))'
  BY <1>3, <1>4, PassiveKeeps
<1>6. ASSUME NEW o \in Records \ {r} PROVE (CauseOK(o) /\ CopiesOK(o) /\ TieOK(o))'
  BY <1>1, UntouchedReasons DEF TypeOK
<1> QED BY <1>5, <1>6 DEF ReasonsOK

\* What the engine leaves: nothing changed, or a verdict about two answers.
LEMMA ConsensusReasons ==
    ASSUME TypeOK, NEW r \in Records, NEW slots \in Pairs, NEW ai \in AiAnswers,
           Consensus(r, slots, ai)
    PROVE  LET h1 == slots["human_1"].answer
               h2 == slots["human_2"].answer
           IN  \/ UNCHANGED <<status, row, history>>
               \/ /\ BothDone(slots) /\ status'[r] \in Settled
                  /\ status'[r] = "rejected" =>
                        /\ ~RemovalProposed(h1, h2)
                        /\ h1.senior_reject \/ h2.senior_reject \/ ChecksAgree(h1, h2)
                  /\ row'[r].is_tiebreaker =>
                        ~ChecksAgree(h1, h2) /\ ~h1.senior_reject /\ ~h2.senior_reject
                  /\ status'[r] # "rejected" => history'[r].cause = history[r].cause
                  /\ \A o \in Records \ {r} :
                        status'[o] = status[o] /\ row'[o] = row[o] /\ history'[o] = history[o]
<1> DEFINE h1 == slots["human_1"].answer
           h2 == slots["human_2"].answer
           v  == EvaluateConsensus(row[r].raw, h1, h2, ai, Team(slots), Taken(r))
<1>1. CASE ~BothDone(slots) \/ status[r] \in DECIDED_STATUSES
  BY <1>1 DEF Consensus
<1>2. CASE BothDone(slots) /\ status[r] \notin DECIDED_STATUSES
  <2>1. v \in Verdicts /\ h1 \in Answers /\ h2 \in Answers /\ row[r].raw \in Extractions
    BY <1>2, VerdictOf
  <2>2. /\ v.status = "rejected" =>
              /\ ~RemovalProposed(h1, h2)
              /\ h1.senior_reject \/ h2.senior_reject \/ ChecksAgree(h1, h2)
        /\ v.tie => ~ChecksAgree(h1, h2) /\ ~h1.senior_reject /\ ~h2.senior_reject
    BY <2>1, EngineRejects
  <2>3. /\ status' = [status EXCEPT ![r] = v.status]
        /\ row' = [row EXCEPT
               ![r].is_tiebreaker = v.tie,
               ![r].final = IF v.final = None THEN @ ELSE Identity(v.final),
               ![r].llm_validator = StoredLlm(@, ai, v.stores),
               ![r].auto_rule = IF v.rule = None THEN @ ELSE v.rule]
        /\ history' = [history EXCEPT
                    ![r].cause = IF v.status = "rejected" THEN "other" ELSE @]
    BY <1>2 DEF Consensus
  <2> HIDE DEF v
  <2>4. status'[r] = v.status /\ v.status \in Settled
    BY <2>1, <2>3 DEF TypeOK, Verdicts, Settled
  <2>5. row[r] \in Rows /\ row \in [Records -> Rows]
    BY DEF TypeOK
  <2>6. row'[r].is_tiebreaker = v.tie
    BY <2>3, <2>5 DEF Rows
  <2>7. /\ v.status # "rejected" => history'[r].cause = history[r].cause
        /\ \A o \in Records \ {r} :
               status'[o] = status[o] /\ row'[o] = row[o] /\ history'[o] = history[o]
    BY <2>3, <2>5 DEF TypeOK
  <2> HIDE DEF h1, h2
  <2> QED BY <1>2, <2>2, <2>4, <2>6, <2>7 DEF h1, h2
<1> QED BY <1>1, <1>2

LEMMA JudgeReasons ==
    ASSUME TypeOK, SlotsOK, ReasonsOK, NEW v \in Validators, NEW r \in Records,
           NEW answer \in Submitted, NEW ai \in AiAnswers, Judge(v, r, answer, ai)
    PROVE  ReasonsOK'
<1>0. PICK s \in OpenSlots(r, v) :
          /\ queue' = [queue EXCEPT ![r] = [queue[r] EXCEPT ![s] = DoneBy(v, answer)]]
          /\ copies' = [copies EXCEPT ![r][s] = [by |-> v, answer |-> answer]]
          /\ Consensus(r, [queue[r] EXCEPT ![s] = DoneBy(v, answer)], ai)
          /\ decision' = decision
  BY DEF Judge
<1>1. s \in Slots /\ IsHeld(queue[r][s])
  BY <1>0 DEF OpenSlots
<1> DEFINE slots == [queue[r] EXCEPT ![s] = DoneBy(v, answer)]
<1>2. queue[r] \in Pairs /\ slots \in Pairs /\ answer \in Stored /\ queue'[r] = slots
  <2>1. queue[r] \in Pairs /\ queue \in [Records -> Pairs]
    BY DEF TypeOK, Pairs
  <2>2. answer \in Stored
    BY DEF Stored
  <2>3. slots \in Pairs
    BY <1>1, <2>1, <2>2, PairMakers
  <2> QED BY <1>0, <2>1, <2>2, <2>3
<1>3. \A t \in Slots : slots[t] = IF t = s THEN DoneBy(v, answer) ELSE queue[r][t]
  BY <1>1, <1>2 DEF Pairs
<1>4. \A t \in Slots : copies'[r][t] = IF t = s THEN [by |-> v, answer |-> answer]
                                       ELSE copies[r][t]
  BY <1>0, <1>1 DEF TypeOK
<1>5. /\ CopyAnswer(copies'[r][s]) \in {None, answer}
      /\ \A t \in Slots \ {s} : CopyAnswer(copies'[r][t]) = CopyAnswer(copies[r][t])
  BY <1>1, <1>4 DEF CopyAnswer
<1>6. Collecting(r) /\ \A t \in Slots : queue[r][t].phase = "done" =>
                          CopyAnswer(copies[r][t]) \in {None, queue[r][t].answer}
  BY <1>0, <1>1 DEF Collecting, ReasonsOK, CopiesOK
<1> HIDE DEF slots
<1>7. \A t \in Slots : slots[t].phase = "done" =>
                          CopyAnswer(copies'[r][t]) \in {None, slots[t].answer}
  BY <1>1, <1>3, <1>5, <1>6 DEF DoneBy
<1>8. CopiesOK(r)'
  BY <1>2, <1>7 DEF CopiesOK
<1>9. status[r] # "rejected" /\ ~BothDone(queue[r]) /\ ~row[r].is_tiebreaker
  BY <1>1 DEF SlotsOK, RecordOK, Attended, ReasonsOK, TieOK, BothDone, IsHeld
<1>10. Consensus(r, slots, ai)
  BY <1>0 DEF slots
<1>11. CASE UNCHANGED <<status, row, history>>
  <2>1. CauseOK(r)' /\ TieOK(r)'
    BY <1>9, <1>11 DEF CauseOK, TieOK
  <2>2. ASSUME NEW o \in Records \ {r} PROVE (CauseOK(o) /\ CopiesOK(o) /\ TieOK(o))'
    BY <1>0, <1>11, UntouchedReasons DEF TypeOK
  <2> QED BY <1>8, <2>1, <2>2 DEF ReasonsOK
<1>12. CASE ~UNCHANGED <<status, row, history>>
  <2> DEFINE h1 == slots["human_1"].answer
             h2 == slots["human_2"].answer
  <2>1. /\ BothDone(slots)
        /\ status'[r] = "rejected" => ~RemovalProposed(h1, h2)
        /\ row'[r].is_tiebreaker =>
               ~ChecksAgree(h1, h2) /\ ~h1.senior_reject /\ ~h2.senior_reject
        /\ \A o \in Records \ {r} :
               status'[o] = status[o] /\ row'[o] = row[o] /\ history'[o] = history[o]
    BY <1>2, <1>10, <1>12, ConsensusReasons
  <2>2. /\ CopyAnswer(copies'[r]["human_1"]) \in {None, h1}
        /\ CopyAnswer(copies'[r]["human_2"]) \in {None, h2}
    BY <1>7, <2>1 DEF BothDone, Slots
  <2>3. CauseOK(r)'
    BY <2>1, <2>2 DEF CauseOK, BothProposed, RemovalProposed
  <2>4. TieOK(r)'
    BY <1>2, <2>1 DEF TieOK
  <2>5. ASSUME NEW o \in Records \ {r} PROVE (CauseOK(o) /\ CopiesOK(o) /\ TieOK(o))'
    BY <1>0, <2>1, UntouchedReasons DEF TypeOK
  <2> QED BY <1>8, <2>3, <2>4, <2>5 DEF ReasonsOK
<1> QED BY <1>11, <1>12

LEMMA SeniorRejectReasons ==
    ASSUME TypeOK, ReasonsOK, NEW v \in Validators, NEW r \in Records, SeniorRejectEntry(v, r)
    PROVE  ReasonsOK'
<1>1. PICK s \in Slots :
          LET mine == {s} \cup {t \in Slots : queue[r][t].phase # "done"}
          IN  /\ IsHeld(queue[r][s])
              /\ queue' = [queue EXCEPT ![r] = [t \in Slots |->
                    IF t \in mine THEN DoneBy(v, SeniorReject) ELSE queue[r][t]]]
              /\ copies' = [copies EXCEPT ![r] = [t \in Slots |->
                    IF t \in mine THEN [by |-> v, answer |-> SeniorReject] ELSE copies[r][t]]]
  BY DEF SeniorRejectEntry, OpenSlots
<1>2. /\ status' = [status EXCEPT ![r] = "rejected"]
      /\ history' = [history EXCEPT ![r].cause = "other"]
      /\ UNCHANGED <<row, decision>>
  BY DEF SeniorRejectEntry
<1>3. ~row[r].is_tiebreaker
  BY <1>1 DEF ReasonsOK, TieOK, BothDone, IsHeld
<1>4. \A t \in Slots : \/ queue'[r][t] = DoneBy(v, SeniorReject)
                          /\ copies'[r][t] = [by |-> v, answer |-> SeniorReject]
                       \/ /\ t # s /\ queue'[r][t] = queue[r][t]
                          /\ copies'[r][t] = copies[r][t] /\ queue[r][t].phase = "done"
  BY <1>1 DEF TypeOK
<1>5. CopyAnswer(copies'[r][s]) \in {None, SeniorReject}
  BY <1>4 DEF CopyAnswer
<1>6. CauseOK(r)'
  BY <1>5 DEF CauseOK, BothProposed, RemovalProposed, MarkedWrongWithoutReplacement,
              SeniorReject, Slots
<1>7. TieOK(r)'
  BY <1>2, <1>3 DEF TieOK
<1>8. CopiesOK(r)'
  BY <1>1, <1>4 DEF CopiesOK, ReasonsOK, Collecting, CopyAnswer, DoneBy
<1>9. ASSUME NEW o \in Records \ {r} PROVE (CauseOK(o) /\ CopiesOK(o) /\ TieOK(o))'
  BY <1>1, <1>2, UntouchedReasons DEF TypeOK
<1> QED BY <1>6, <1>7, <1>8, <1>9 DEF ReasonsOK

\* The assignee's answer goes over the first copy: no more judgements come in, and a
\* rejection says that there is nothing to validate.
LEMMA AssignmentReasons ==
    ASSUME TypeOK, ReasonsOK, NEW v \in Validators, NEW r \in Records,
           NEW answer \in Submitted, AssignmentJudge(v, r, answer)
    PROVE  ReasonsOK'
<1>1. PICK new \in {"rejected", "need_review", "consensus_reached"} :
          /\ status' = [status EXCEPT ![r] = new]
          /\ new = "rejected" => EffectiveType(answer) = "not_validation"
          /\ \A o \in Records : new # "rejected" \/ o # r => history'[o].cause = history[o].cause
  BY DEF AssignmentJudge, TypeOK
<1>2. /\ queue' = [queue EXCEPT ![r] = Released(queue[r])]
      /\ copies' = [copies EXCEPT ![r]["human_1"] = [by |-> v, answer |-> answer]]
      /\ decision' = decision
      /\ NotDecided(r)
  BY DEF AssignmentJudge, CloseOpenWork
<1>3. row' \in [Records -> Rows] /\ \A o \in Records : row'[o].is_tiebreaker = row[o].is_tiebreaker
  <2>1. row \in [Records -> Rows] /\ row' \in [Records -> Rows]
    BY AssignmentJudgeType DEF TypeOK
  <2> QED BY <2>1 DEF AssignmentJudge, Rows
<1>4. CauseOK(r)'
  <2>1. CopyAnswer(copies'[r]["human_1"]) \in {None, answer}
    BY <1>2 DEF CopyAnswer, TypeOK, Slots
  <2>2. status'[r] = new
    BY <1>1 DEF TypeOK
  <2> QED BY <1>1, <2>1, <2>2 DEF CauseOK, BothProposed, RemovalProposed,
                                  MarkedWrongWithoutReplacement
<1>5. \A s \in Slots : \/ queue'[r][s] = FreeSlot /\ queue[r][s].phase # "done"
                       \/ queue'[r][s] = queue[r][s] /\ queue[r][s].phase = "done"
  BY <1>2 DEF Released, TypeOK
<1>6. CopiesOK(r)'
  <2>1. \A s \in Slots : ~IsHeld(queue'[r][s])
    BY <1>5 DEF IsHeld, FreeSlot
  <2>2. status'[r] = new
    BY <1>1 DEF TypeOK
  <2> QED BY <2>1, <2>2 DEF CopiesOK, Collecting
<1>7. TieOK(r)'
  <2>1. Keeps(queue[r], queue'[r])
    BY <1>5 DEF Keeps
  <2> QED BY <1>3, <2>1, TieKept DEF ReasonsOK
<1>8. ASSUME NEW o \in Records \ {r} PROVE (CauseOK(o) /\ CopiesOK(o) /\ TieOK(o))'
  BY <1>1, <1>2, <1>3, UntouchedReasons DEF TypeOK
<1> QED BY <1>4, <1>6, <1>7, <1>8 DEF ReasonsOK

\* Claiming, opening, giving back and reaping: the status of a record stays, or moves between
\* the two that collect judgements.
LEMMA SeatReasons ==
    ASSUME TypeOK, ReasonsOK, UNCHANGED <<copies, decision, history>>,
           \A r \in Records :
               /\ row'[r].is_tiebreaker = row[r].is_tiebreaker
               /\ \/ status'[r] = status[r]
                  \/ {status[r], status'[r]} \subseteq {"unvalidated", "validation_inprogress"}
               /\ Keeps(queue[r], queue'[r])
               /\ \A s \in Slots :
                     /\ queue'[r][s].phase = "done" => queue[r][s].phase = "done"
                     /\ IsHeld(queue'[r][s]) =>
                           IsHeld(queue[r][s])
                           \/ status[r] \in {"unvalidated", "validation_inprogress"}
    PROVE  ReasonsOK'
<1>1. ASSUME NEW r \in Records PROVE (CauseOK(r) /\ CopiesOK(r) /\ TieOK(r))'
  <2>1. Collecting(r)' => Collecting(r)
    BY DEF Collecting
  <2>2. \A s \in Slots : queue'[r][s].phase = "done" => queue'[r][s] = queue[r][s]
    BY DEF Keeps
  <2>3. status'[r] = "rejected" => status[r] = "rejected"
    OBVIOUS
  <2> QED BY <2>1, <2>2, <2>3, PassiveKeeps
<1> QED BY <1>1 DEF ReasonsOK

LEMMA ValidateReasons ==
    ASSUME TypeOK, SlotsOK, ReasonsOK, NEW v \in Validators, Validate(v)
    PROVE  ReasonsOK'
<1>0. \A r \in Records : queue[r] \in Pairs /\ Keeps(queue[r], queue[r])
  BY DEF TypeOK, Pairs, Keeps
<1>1. ASSUME NEW bufferedOnly \in BOOLEAN, NEW first \in OrNone(Records),
             NEW rest \in SUBSET Records, NextPairs(v, bufferedOnly, first, rest)
      PROVE  ReasonsOK'
  <2>1. UNCHANGED <<row, copies, decision, history>>
    BY <1>1 DEF NextPairs
  <2>2. ASSUME NEW r \in Records, r \in rest \cup ({first} \ {None})
        PROVE  /\ {status[r], status'[r]} \subseteq {"unvalidated", "validation_inprogress"}
               /\ Keeps(queue[r], queue'[r])
               /\ \A s \in Slots : queue'[r][s].phase = "done" => queue[r][s].phase = "done"
    <3>1. PICK p \in {"buffered", "started"} : queue'[r] = Claimed(queue[r], v, p)
      BY <1>1, <2>2 DEF NextPairs
    <3>2. Claimable(r, v) /\ status'[r] = "validation_inprogress"
      BY <1>1, <2>2 DEF NextPairs
    <3>3. \A s \in Slots : queue'[r][s].phase = "done" => queue[r][s].phase = "done"
      BY <1>0, <3>1 DEF Claimed, HeldBy, Pairs, Slots
    <3> QED BY <1>0, <3>1, <3>2, <3>3, MakersKeep DEF Claimable
  <2>3. ASSUME NEW r \in Records, r \notin rest \cup ({first} \ {None})
        PROVE  /\ status'[r] = status[r] /\ Keeps(queue[r], queue'[r])
               /\ \A s \in Slots : queue'[r][s] = queue[r][s] \/ queue'[r][s] = FreeSlot
    <3>1. /\ status'[r] = status[r]
          /\ queue'[r] = queue[r] \/ queue'[r] = ReleasedBy(v, queue[r])
      BY <1>1, <2>3 DEF NextPairs
    <3>2. Keeps(queue[r], queue'[r])
      BY <1>0, <3>1, MakersKeep
    <3> QED BY <3>1, <3>2 DEF ReleasedBy
  <2>4. \A r \in Records, s \in Slots : queue'[r][s] = FreeSlot =>
            queue'[r][s].phase # "done" /\ ~IsHeld(queue'[r][s])
    BY DEF FreeSlot, IsHeld
  <2> QED BY <2>1, <2>2, <2>3, <2>4, SeatReasons
<1>2. ASSUME NEW r \in Records, NEW s \in Slots, StartPair(v, r, s) PROVE ReasonsOK'
  <2>1. /\ IsHeld(queue[r][s])
        /\ queue' = [queue EXCEPT ![r][s].phase = "started"]
        /\ UNCHANGED <<status, row, copies, decision, history>>
    BY <1>2 DEF StartPair, OpenSlots
  <2>2. /\ \A o \in Records, t \in Slots : o # r \/ t # s => queue'[o][t] = queue[o][t]
        /\ queue'[r][s].phase # "done"
    <3>1. queue[r][s] \in [validator : OrNone(Validators),
                           phase : {"free", "buffered", "started", "done"},
                           answer : OrNone(Stored)]
      BY DEF TypeOK, SlotValues, FreeSlot, HeldBy, DoneBy, OrNone
    <3> QED BY <2>1, <3>1 DEF TypeOK
  <2>3. \A o \in Records : Keeps(queue[o], queue'[o])
    BY <2>1, <2>2 DEF Keeps, IsHeld
  <2> QED BY <2>1, <2>2, <2>3, SeatReasons
<1>3. ASSUME NEW r \in Records, NEW inaccessible \in BOOLEAN,
             Skip(v, r, inaccessible) \/ ReportRestricted(v, r)
      PROVE  ReasonsOK'
  <2>1. /\ UNCHANGED <<copies, decision, history>>
        /\ queue' = [queue EXCEPT ![r] = ReleasedBy(v, queue[r])]
        /\ status' = status \/ status' = [status EXCEPT ![r] = Restored(status[r], queue'[r])]
    BY <1>3 DEF Skip, ReportRestricted
  <2>2. \A o \in Records : row'[o].is_tiebreaker = row[o].is_tiebreaker
    <3>1. row \in [Records -> Rows]
      BY DEF TypeOK
    <3> QED BY <1>3, <3>1 DEF Skip, ReportRestricted, Rows
  <2>3. \A o \in Records : Keeps(queue[o], queue'[o])
    BY <1>0, <2>1, MakersKeep DEF TypeOK
  <2>4. \A o \in Records, s \in Slots : \/ queue'[o][s] = queue[o][s]
                                       \/ /\ queue'[o][s].phase # "done"
                                          /\ ~IsHeld(queue'[o][s])
    BY <2>1 DEF TypeOK, ReleasedBy, FreeSlot, IsHeld
  <2>5. \A o \in Records :
            \/ status'[o] = status[o]
            \/ {status[o], status'[o]} \subseteq {"unvalidated", "validation_inprogress"}
    BY <2>1 DEF TypeOK, Restored
  <2> QED BY <2>1, <2>2, <2>3, <2>4, <2>5, SeatReasons
<1> QED BY <1>1, <1>2, <1>3, JudgeReasons, SeniorRejectReasons, AssignmentReasons DEF Validate

LEMMA ReapReasons ==
    ASSUME TypeOK, ReasonsOK, NEW stale \in SUBSET (Records \X Slots), Reap(stale)
    PROVE  ReasonsOK'
<1>1. UNCHANGED <<row, copies, decision, history>>
  BY DEF Reap
<1>2. \A r \in Records, s \in Slots :
          \/ queue'[r][s] = queue[r][s]
          \/ queue'[r][s] = FreeSlot /\ IsHeld(queue[r][s])
  BY DEF Reap, PastLimit
<1>3. \A r \in Records :
          \/ status'[r] = status[r]
          \/ {status[r], status'[r]} \subseteq {"unvalidated", "validation_inprogress"}
  BY DEF Reap, Restored
<1>4. \A r \in Records : Keeps(queue[r], queue'[r])
  BY <1>2 DEF Keeps, IsHeld
<1>5. \A r \in Records, s \in Slots : queue'[r][s] = FreeSlot =>
          queue'[r][s].phase # "done" /\ ~IsHeld(queue'[r][s])
  BY DEF FreeSlot, IsHeld
<1> QED BY <1>1, <1>2, <1>3, <1>4, <1>5, SeatReasons

LEMMA AdminRejectsReasons ==
    ASSUME TypeOK, ReasonsOK, NEW r \in Records, NEW action, NEW cause,
           AdminRejects(r, action, cause),
           action # "original_removed" \/ cause = "removed",
           \A o \in Records : row'[o].is_tiebreaker = row[o].is_tiebreaker
    PROVE  ReasonsOK'
<1>1. /\ CloseOpenWork(r) /\ copies' = copies
      /\ status' = [status EXCEPT ![r] = "rejected"]
      /\ history' = [history EXCEPT ![r] = [cause |-> cause, rekeyed |-> FALSE]]
      /\ LogDecision(r, action, status[r], "rejected")
  BY DEF AdminRejects
<1>2. decision'[r].rejection = action /\ history'[r].cause = cause
  BY <1>1 DEF TypeOK, LogDecision, Logged
<1>3. CauseOK(r)'
  BY <1>2 DEF CauseOK
<1> QED BY <1>1, <1>3, ClosedReasons DEF TypeOK, LogDecision, Settled

LEMMA AdministerReasons ==
    ASSUME TypeOK, ReasonsOK, NEW a \in Admins, Administer(a)
    PROVE  ReasonsOK'
<1> USE DEF Settled
<1>0. row \in [Records -> Rows]
  BY DEF TypeOK
<1>1. ASSUME ApproveApply(a) PROVE ReasonsOK'
  <2>1. PICK r \in Records : r = approving[a].record
    BY <1>1 DEF ApproveApply, TypeOK, Approvals, OrNone
  <2>2. /\ CloseOpenWork(r) /\ copies' = copies /\ AdminChecked(r)
        /\ status' = [status EXCEPT ![r] = "validated"]
        /\ LogDecision(r, "approved", "consensus_reached", "validated")
        /\ history' = [history EXCEPT ![r] = Reviewed(@)]
    BY <1>1, <2>1 DEF ApproveApply
  <2>3. \A o \in Records : row'[o].is_tiebreaker = row[o].is_tiebreaker
    BY <1>0, <2>2 DEF AdminChecked, Rows
  <2>4. CauseOK(r)'
    BY <2>2 DEF CauseOK, TypeOK
  <2> QED BY <2>2, <2>3, <2>4, ClosedReasons DEF TypeOK, LogDecision
<1>2. ASSUME NEW r \in Records, RemoveOriginal(a, r) \/ ResolveReject(a, r) PROVE ReasonsOK'
  <2>1. \A o \in Records : row'[o].is_tiebreaker = row[o].is_tiebreaker
    BY <1>0, <1>2 DEF RemoveOriginal, ResolveReject, AdminChecked, Rows
  <2> QED BY <1>2, <2>1, AdminRejectsReasons DEF RemoveOriginal, ResolveReject
<1>3. ASSUME NEW r \in Records, NEW id, NEW survivor, ResolveMerge(a, r, id, survivor)
      PROVE  ReasonsOK'
  <2>1. \A o \in Records : row'[o].is_tiebreaker = row[o].is_tiebreaker
    BY <1>0, <1>3 DEF ResolveMerge, Rows
  <2> QED BY <1>3, <2>1, AdminRejectsReasons DEF ResolveMerge
<1>4. ASSUME NEW r \in Records, NEW id, ResolvePublish(a, r, id) PROVE ReasonsOK'
  <2>1. /\ CloseOpenWork(r) /\ copies' = copies
        /\ status' = [status EXCEPT ![r] = "validated"]
        /\ LogDecision(r, "resolved", status[r], "validated")
        /\ history' = [history EXCEPT ![r] = Reviewed(@)]
        /\ row' = [row EXCEPT ![r].admin_checked = TRUE, ![r].final = id]
    BY <1>4 DEF ResolvePublish
  <2>2. \A o \in Records : row'[o].is_tiebreaker = row[o].is_tiebreaker
    BY <1>0, <2>1 DEF Rows
  <2>3. CauseOK(r)'
    BY <2>1 DEF CauseOK, TypeOK
  <2> QED BY <2>1, <2>2, <2>3, ClosedReasons DEF TypeOK, LogDecision
<1>5. ASSUME NEW r \in Records, FlagReview(r) PROVE ReasonsOK'
  <2>1. /\ UNCHANGED <<row, queue, copies, history>>
        /\ status' = [status EXCEPT ![r] = "need_review"]
        /\ \A o \in Records \ {r} : decision'[o] = decision[o]
    BY <1>5 DEF FlagReview, LogDecision, TypeOK
  <2>2. (CauseOK(r) /\ CopiesOK(r) /\ TieOK(r))'
    <3>1. (Collecting(r)' => Collecting(r)) /\ Keeps(queue[r], queue'[r])
      BY <2>1 DEF Collecting, TypeOK, Keeps
    <3>2. CauseOK(r)'
      BY <2>1 DEF CauseOK, TypeOK
    <3> QED BY <2>1, <3>1, <3>2, PassiveKeeps
  <2>3. ASSUME NEW o \in Records \ {r} PROVE (CauseOK(o) /\ CopiesOK(o) /\ TieOK(o))'
    BY <2>1, UntouchedReasons DEF TypeOK
  <2> QED BY <2>2, <2>3 DEF ReasonsOK
<1>6. ASSUME UNCHANGED <<status, queue, copies, row, decision, history>> PROVE ReasonsOK'
  BY <1>6, UntouchedReasons DEF ReasonsOK
<1> QED BY <1>1, <1>2, <1>3, <1>4, <1>5, <1>6
        DEF Administer, ApproveRefused, AdminAssign, ApproveRead

LEMMA ImportReasons == ASSUME TypeOK, ReasonsOK, Import PROVE ReasonsOK'
<1>0. row \in [Records -> Rows]
  BY DEF TypeOK
<1>1. ASSUME UNCHANGED <<status, queue, copies, decision, history>>,
             \A o \in Records : row'[o].is_tiebreaker = row[o].is_tiebreaker
      PROVE  ReasonsOK'
  BY <1>1, UntouchedReasons DEF ReasonsOK
<1>2. ASSUME NEW r \in Records, NEW new \in Shipped, ImportRefresh(r, new)
      PROVE  \A o \in Records : row'[o].is_tiebreaker = row[o].is_tiebreaker
  BY <1>0, <1>2 DEF ImportRefresh, Rows
<1>3. ASSUME NEW r \in Records, NEW new \in Shipped, ImportReopen(r, new) PROVE ReasonsOK'
  <2>1. /\ status' = [status EXCEPT ![r] = "unvalidated"]
        /\ queue' = [queue EXCEPT ![r] = [s \in Slots |-> FreeSlot]]
        /\ copies' = [copies EXCEPT ![r] = [s \in Slots |-> None]]
        /\ LogDecision(r, "reopened_by_import", "rejected", "unvalidated")
        /\ history' = [history EXCEPT ![r] = Reviewed(@)]
    BY <1>3 DEF ImportReopen
  <2>2. /\ ~row'[r].is_tiebreaker
        /\ \A o \in Records \ {r} : row'[o].is_tiebreaker = row[o].is_tiebreaker
    <3> DEFINE started == [row[r] EXCEPT !.raw = new, !.is_tiebreaker = FALSE,
                !.llm_validator = None, !.final = None, !.admin_checked = FALSE,
                !.auto_rule = None]
    <3>1. row' = [row EXCEPT ![r] = started]
      BY <1>3 DEF ImportReopen
    <3>2. ~started.is_tiebreaker
      BY <1>0 DEF Rows
    <3> HIDE DEF started
    <3> QED BY <1>0, <3>1, <3>2
  <2>3. (CauseOK(r) /\ CopiesOK(r) /\ TieOK(r))'
    BY <2>1, <2>2 DEF TypeOK, CauseOK, CopiesOK, TieOK, FreeSlot
  <2>4. ASSUME NEW o \in Records \ {r} PROVE (CauseOK(o) /\ CopiesOK(o) /\ TieOK(o))'
    BY <2>1, <2>2, UntouchedReasons DEF TypeOK, LogDecision
  <2> QED BY <2>3, <2>4 DEF ReasonsOK
<1>4. ASSUME NEW r \in Records, NEW new \in Shipped, ImportRekey(r, new) PROVE ReasonsOK'
  <2>1. /\ UNCHANGED <<queue, copies, decision>>
        /\ row' = [row EXCEPT ![r].raw = new]
        /\ \/ UNCHANGED <<status, history>>
           \/ /\ status' = [status EXCEPT ![r] = "need_review"]
              /\ history' = [history EXCEPT ![r].rekeyed = TRUE]
    BY <1>4 DEF ImportRekey
  <2>2. \A o \in Records : row'[o].is_tiebreaker = row[o].is_tiebreaker
    BY <1>0, <2>1 DEF Rows
  <2>3. CASE UNCHANGED <<status, history>>
    BY <1>1, <2>1, <2>2, <2>3
  <2>4. CASE /\ status' = [status EXCEPT ![r] = "need_review"]
             /\ history' = [history EXCEPT ![r].rekeyed = TRUE]
    <3>1. (Collecting(r)' => Collecting(r)) /\ Keeps(queue[r], queue'[r])
      BY <2>1, <2>4 DEF Collecting, TypeOK, Keeps
    <3>2. CauseOK(r)'
      BY <2>4 DEF CauseOK, TypeOK
    <3>3. (CauseOK(r) /\ CopiesOK(r) /\ TieOK(r))'
      BY <2>1, <2>2, <3>1, <3>2, PassiveKeeps
    <3>4. ASSUME NEW o \in Records \ {r} PROVE (CauseOK(o) /\ CopiesOK(o) /\ TieOK(o))'
      BY <2>1, <2>2, <2>4, UntouchedReasons DEF TypeOK
    <3> QED BY <3>3, <3>4 DEF ReasonsOK
  <2> QED BY <2>1, <2>3, <2>4
<1> QED BY <1>1, <1>2, <1>3, <1>4
        DEF Import, ImportStart, ImportEnd, ImportRefresh, ImportRekeyRead

\* The retry's verdict on a tie is never a rejection.
LEMMA RetryReasons == ASSUME TypeOK, ReasonsOK, NightlyRetry PROVE ReasonsOK'
<1>1. ASSUME UNCHANGED <<status, queue, copies, row, decision, history>> PROVE ReasonsOK'
  BY <1>1, UntouchedReasons DEF ReasonsOK
<1>2. ASSUME NEW ai \in AiAnswers, RetryLlmError(ai) PROVE ReasonsOK'
  <2>1. row \in [Records -> Rows]
    BY DEF TypeOK
  <2>2. \A o \in Records : row'[o].is_tiebreaker = row[o].is_tiebreaker
    BY <1>2, <2>1 DEF RetryLlmError, Rows
  <2> QED BY <1>2, <2>2, UntouchedReasons DEF RetryLlmError, ReasonsOK
<1>3. ASSUME NEW ai \in AiAnswers, RetryTiebreaker(ai) PROVE ReasonsOK'
  <2>0. PICK r \in Records : r = asked.record
    BY <1>3 DEF RetryTiebreaker, TypeOK, Questions, OrNone
  <2> DEFINE h1 == queue[r]["human_1"].answer
             h2 == queue[r]["human_2"].answer
  <2>1. queue[r] \in Pairs /\ UNCHANGED <<queue, copies, decision>>
    BY <1>3 DEF RetryTiebreaker, TypeOK, Pairs
  <2>2. Consensus(r, queue[r], ai) /\ row[r].is_tiebreaker
    BY <1>3, <2>0 DEF RetryTiebreaker, StillStuck, StuckTiebreaker
  <2>3. BothDone(queue[r]) /\ ~ChecksAgree(h1, h2) /\ ~h1.senior_reject /\ ~h2.senior_reject
    BY <2>1, <2>2 DEF ReasonsOK, TieOK
  <2>4. CASE UNCHANGED <<status, row, history>>
    BY <1>1, <2>1, <2>4
  <2>5. CASE ~UNCHANGED <<status, row, history>>
    <3>1. /\ status'[r] \in Settled /\ status'[r] # "rejected"
          /\ \A o \in Records \ {r} :
                 status'[o] = status[o] /\ row'[o] = row[o] /\ history'[o] = history[o]
      BY <2>1, <2>2, <2>3, <2>5, ConsensusReasons
    <3>2. CauseOK(r)' /\ TieOK(r)'
      BY <2>1, <2>3, <3>1 DEF CauseOK, TieOK
    <3>3. CopiesOK(r)'
      BY <2>1, <2>3, <3>1 DEF CopiesOK, Collecting, Settled, BothDone, IsHeld
    <3>4. ASSUME NEW o \in Records \ {r} PROVE (CauseOK(o) /\ CopiesOK(o) /\ TieOK(o))'
      BY <2>1, <3>1, UntouchedReasons
    <3> QED BY <3>2, <3>3, <3>4 DEF ReasonsOK
  <2> QED BY <2>4, <2>5
<1> QED BY <1>1, <1>2, <1>3 DEF NightlyRetry, RetryAsk, RetryDrop

LEMMA StepReasons == TypeOK /\ SlotsOK /\ ReasonsOK /\ [Next]_vars => ReasonsOK'
<1> SUFFICES ASSUME TypeOK, SlotsOK, ReasonsOK, [Next]_vars PROVE ReasonsOK'
  OBVIOUS
<1>1. CASE UNCHANGED vars
  BY <1>1, UntouchedReasons DEF vars, ReasonsOK
<1> QED BY <1>1, ValidateReasons, AdministerReasons, ReapReasons, ImportReasons, RetryReasons
        DEF Next

LEMMA ReasonsInvariance == Spec => []ReasonsOK
<1>1. TypeOK /\ SlotsOK /\ ReasonsOK /\ [Next]_vars => ReasonsOK'
  BY StepReasons
<1> QED BY <1>1, InitReasons, SlotInvariance, PTL DEF Spec

\* What the import decides to start over was rejected for its original, although not
\* every rejection is logged and the assignee's answer overwrites a copy.
LEMMA StepReopens ==
    ASSUME TypeOK, ReasonsOK, [Next]_vars, NEW r \in Records,
           status[r] = "rejected", ~Reopening(r), Reopening(r)'
    PROVE  history[r].cause = "removed"
<1>1. CASE UNCHANGED importer
  BY <1>1 DEF Reopening
<1>2. ASSUME NEW o \in Records, Handled(o), importer # None PROVE FALSE
  BY <1>2 DEF Handled, Reopening, TypeOK, SlotMaps, OrNone
<1>3. ASSUME Import PROVE history[r].cause = "removed"
  <2>0. ~ImportStart /\ ~ImportEnd
    BY DEF ImportStart, ImportEnd, Reopening
  <2>1. PICK o \in Records, new \in Shipped : ImportRekeyRead(o, new)
    <3>1. ASSUME NEW o \in Records, NEW new \in Shipped,
                 ImportRefresh(o, new) \/ ImportReopen(o, new) \/ ImportRekey(o, new)
          PROVE  FALSE
      <4>1. Handled(o) /\ importer # None
        BY <3>1 DEF ImportRefresh, ImportReopen, ImportRekey, Idle, Rekeying
      <4> QED BY <4>1, <1>2
    <3> QED BY <1>3, <2>0, <3>1 DEF Import
  <2>2. importer \in SlotMaps /\ importer'.rekeying.record = o
        /\ importer'.rekeying.reopens = (/\ importer.seen[o].status = "rejected"
                                         /\ RemovedOriginalWasReplaced(o, new))
    BY <2>1 DEF ImportRekeyRead, Idle, TypeOK, OrNone, SlotMaps
  <2>3. o = r /\ RemovedOriginalWasReplaced(r, new)
    BY <2>2 DEF Reopening
  <2>4. decision[r].rejection = "original_removed" /\ BothProposed(r)
    BY <2>3 DEF RemovedOriginalWasReplaced, BothProposed
  <2> QED BY <2>4 DEF ReasonsOK, CauseOK
<1>4. ASSUME NEW v \in Validators, Validate(v) PROVE UNCHANGED importer
  BY <1>4 DEF Validate, NextPairs, StartPair, Skip, ReportRestricted, Judge,
              SeniorRejectEntry, AssignmentJudge
<1>5. ASSUME NEW a \in Admins, Administer(a) PROVE UNCHANGED importer
  BY <1>5 DEF Administer, ApproveApply, ApproveRefused, AdminAssign, ApproveRead,
              RemoveOriginal, FlagReview, ResolveReject, ResolvePublish, ResolveMerge,
              AdminRejects
<1>6. ASSUME NightlyRetry PROVE UNCHANGED importer
  BY <1>6 DEF NightlyRetry, RetryAsk, RetryTiebreaker, RetryLlmError, RetryDrop
<1> QED BY <1>1, <1>3, <1>4, <1>5, <1>6 DEF Next, Reap, vars

\* Nothing but the import's update of a record it is about to start over does so.
LEMMA StartsOver ==
    ASSUME TypeOK, [Next]_vars, NEW r \in Records,
           status[r] = "rejected", status'[r] = "unvalidated"
    PROVE  Reopening(r)
<1>1. PICK new \in Shipped : ImportReopen(r, new)
  <2>1. Stands(r)
    BY StepStands
  <2> QED BY <2>1 DEF Stands, DECIDED_STATUSES
<1>2. importer # None /\ importer.rekeying = [record |-> r, raw |-> new, reopens |-> TRUE]
  BY <1>1 DEF ImportReopen, Rekeying
<1>3. importer.rekeying # None
  <2>1. importer.rekeying \in Rekeys
    BY <1>2 DEF Rekeys
  <2>2. None \notin Rekeys
    BY WorkflowAssumption
  <2> QED BY <2>1, <2>2
<1> QED BY <1>2, <1>3 DEF Reopening

\* A rejected record the import starts over was rejected for its original when the import
\* looked at it.
THEOREM ReopensForItsOriginal == Spec => ReopenedForItsOriginal
<1>1. TypeOK /\ ReasonsOK /\ [Next]_vars =>
        [\A r \in Records : status[r] = "rejected" =>
             /\ ~Reopening(r) /\ Reopening(r)' => history[r].cause = "removed"
             /\ status'[r] = "unvalidated" => Reopening(r)]_vars
  BY StepReopens, StartsOver
<1> QED BY <1>1, TypeCorrect, ReasonsInvariance, PTL DEF Spec, ReopenedForItsOriginal
==============================================================================
