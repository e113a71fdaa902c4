------------------------- MODULE ConsensusRoundProofs -------------------------
(***************************************************************************)
(* The invariants of ConsensusRound, for any extractions, page answers and *)
(* answers of the AI.  The inductive invariant ties the verdict to what is *)
(* stored: as long as there is none the AI has not been asked, and a       *)
(* verdict is the one the engine gives on the stored rows.                 *)
(***************************************************************************)
EXTENDS ConsensusRound, ConsensusEngineProofs

Supplied(a) == <<a.corrected_doi_o, a.corrected_title_o>> # <<None, None>>

\* What the page can store about an original: another one only with "wrong", and
\* no outcome is judged of a wrong one that is not replaced.
FromThePage(a) ==
    /\ ~a.senior_reject
    /\ a.original_check = "correct" => ~Supplied(a)
    /\ (/\ a.original_check = "incorrect" /\ ~a.was_unsure_original
        /\ ~Supplied(a) /\ EffectiveType(a) # "not_validation")
           => a.outcome_check = NO_OUTCOME

Sent(s) == JudgePayload(said[s], page[s].type, page[s].outcome)

\* A stored judgement was accepted on some extraction the record has had, which
\* need not be the one the page showed, nor the one it has now.
AnswersWhatWasSaid(s) ==
    /\ said[s] \in PageJudgements
    /\ page[s] \in Extracted
    /\ \E x \in Extracted : Accepted(Sent(s), x) /\ answer[s] = StoredAnswer(Sent(s), x)

VerdictIsOfStored ==
    /\ \A s \in Slots : answer[s] # None =>
           FromThePage(answer[s]) /\ AnswersWhatWasSaid(s)
    /\ (\E s \in Slots : answer[s] = None) => verdict = None /\ llm = None
    /\ Decided => /\ h1 # None /\ h2 # None /\ llm # None
                  /\ verdict = EvaluateConsensus(rec, h1, h2, llm, team, taken)

IInv == TypeOK /\ VerdictIsOfStored

-----------------------------------------------------------------------------
(* What the request path stores.                                           *)

LEMMA PayloadType ==
    ASSUME NEW j \in Judgements, NEW p \in Extractions
    PROVE  JudgePayload(j, p.type, p.outcome) \in Requests
BY DEF JudgePayload, NoReplacement, Judgements, Extractions, Requests, Types,
       Checks, NO_OUTCOME, OrNone

LEMMA StoredAnswerType ==
    ASSUME NEW request \in Requests, NEW x \in Extractions
    PROVE  StoredAnswer(request, x) \in Answers
<1> DEFINE req == AsAgreement(request, x)
<1>1. req \in Requests
  <2>1. [request EXCEPT !.outcome_check = "correct", !.corrected_outcome = None] \in Requests
    BY DEF Requests, OrNone, Checks
  <2> QED BY <2>1 DEF AsAgreement
<1> HIDE DEF req
<1>2. TargetOutcome(req, x) \in OrNone(Outcomes)
  BY <1>1, EngineAssumption DEF TargetOutcome, First, Requests, Extractions, OrNone
<1>3. StoredOutcome(req, x) \in OrNone(Outcomes)
  BY <1>2 DEF StoredOutcome, OrNone
<1>4. /\ StoredAxes(req, x)[1] \in OrNone(Computations)
      /\ StoredAxes(req, x)[2] \in OrNone(Robustnesses)
  BY <1>1 DEF StoredAxes, TargetAxes, First, Requests, Extractions, OrNone
<1>5. req.type_check = "incorrect" =>
          TargetType(req, x) \in OrNone(Types \cup {"not_validation"})
  BY <1>1 DEF TargetType, Requests
<1> QED
  BY <1>1, <1>3, <1>4, <1>5
  DEF StoredAnswer, req, Requests, Answers, OrNone

LEMMA StoredFromThePage ==
    ASSUME NEW j \in Judgements, NEW p \in Extractions, NEW x \in Extractions
    PROVE  FromThePage(StoredAnswer(JudgePayload(j, p.type, p.outcome), x))
<1> DEFINE request == JudgePayload(j, p.type, p.outcome)
           req     == AsAgreement(request, x)
<1>1. /\ req.original_check = request.original_check
      /\ req.was_unsure_original = request.was_unsure_original
      /\ req.corrected_doi_o = request.corrected_doi_o
      /\ req.corrected_title_o = request.corrected_title_o
      /\ req.type_check = request.type_check
      /\ req.corrected_type = request.corrected_type
      /\ request.outcome_check = NO_OUTCOME => req.outcome_check = NO_OUTCOME
  BY DEF AsAgreement, MeansAgreement, JudgePayload, NO_OUTCOME
<1>2. /\ request.original_check = "incorrect" /\ ~request.was_unsure_original
      /\ request.corrected_doi_o = None /\ request.corrected_title_o = None
      => j.type = "not_validation" \/ request.outcome_check = NO_OUTCOME
  BY DEF JudgePayload, NoReplacement, Judgements
<1>3. j.type = "not_validation" =>
          request.type_check = "incorrect" /\ request.corrected_type = "not_validation"
  BY DEF JudgePayload, Extractions, Types
<1>4. request.original_check = "correct" =>
          request.corrected_doi_o = None /\ request.corrected_title_o = None
  BY DEF JudgePayload, Judgements
<1> HIDE DEF request, req
<1>5. LET a == StoredAnswer(request, x)
      IN  /\ a.original_check = req.original_check
          /\ a.was_unsure_original = req.was_unsure_original
          /\ a.corrected_doi_o = req.corrected_doi_o
          /\ a.corrected_title_o = req.corrected_title_o
          /\ a.outcome_check = req.outcome_check
          /\ a.type_check = req.type_check
          /\ req.type_check = "incorrect" => a.corrected_type = req.corrected_type
          /\ ~a.senior_reject
  BY DEF StoredAnswer, TargetType, req
<1>6. FromThePage(StoredAnswer(request, x))
  BY <1>1, <1>2, <1>3, <1>4, <1>5 DEF FromThePage, Supplied, EffectiveType
<1> QED BY <1>6 DEF request

-----------------------------------------------------------------------------
(* The inductive invariant.                                                *)

LEMMA InitHolds == Init => IInv
BY DEF Init, IInv, TypeOK, VerdictIsOfStored, OrNone, Decided

\* A judgement that completes the pair evaluates what it stores; one that does
\* not leaves the verdict open.
LEMMA JudgeKeeps ==
    ASSUME IInv, NEW s \in Slots, NEW j \in PageJudgements, NEW ai \in AiAnswers,
           Judge(s, j, ai)
    PROVE  IInv'
<1> DEFINE req  == JudgePayload(j, page[s].type, page[s].outcome)
           a    == StoredAnswer(req, rec)
           both == [answer EXCEPT ![s] = a]
           v    == EvaluateConsensus(rec, both["human_1"], both["human_2"], ai, team, taken)
<1>1. /\ page[s] \in Extracted /\ page[s] \in Extractions
      /\ rec \in Extracted /\ rec \in Extractions
      /\ j \in Judgements
  BY RoundAssumption DEF IInv, TypeOK, Judge, OrNone
<1>2. a \in Answers /\ FromThePage(a)
  BY <1>1, PayloadType, StoredAnswerType, StoredFromThePage
<1>3. /\ answer[s] = None
      /\ answer' = both
      /\ said' = [said EXCEPT ![s] = j]
      /\ Accepted(req, rec)
      /\ UNCHANGED <<rec, team, taken, page>>
      /\ IF \A t \in Slots : both[t] # None
         THEN verdict' = v /\ llm' = StoredLlm(llm, ai, v.stores)
         ELSE UNCHANGED <<verdict, llm>>
  BY DEF Judge
<1> HIDE DEF req, a
<1>4. both \in [Slots -> OrNone(Answers)]
  BY <1>2 DEF IInv, TypeOK, OrNone
<1>5. \A t \in Slots : both[t] # None => FromThePage(both[t])
  BY <1>2 DEF IInv, VerdictIsOfStored, TypeOK
<1>6. \A t \in Slots : both[t] # None => AnswersWhatWasSaid(t)'
  <2>1. Sent(s)' = req
    BY <1>3 DEF Sent, req, IInv, TypeOK
  <2>2. AnswersWhatWasSaid(s)'
    BY <1>1, <1>3, <2>1 DEF AnswersWhatWasSaid, a, IInv, TypeOK
  <2>3. ASSUME NEW t \in Slots, t # s, both[t] # None PROVE AnswersWhatWasSaid(t)'
    <3>1. AnswersWhatWasSaid(t)
      BY <2>3 DEF IInv, VerdictIsOfStored, TypeOK
    <3> QED BY <1>3, <2>3, <3>1 DEF AnswersWhatWasSaid, Sent, IInv, TypeOK
  <2> QED BY <2>2, <2>3
<1>7. verdict = None /\ llm = None
  BY <1>3 DEF IInv, VerdictIsOfStored
<1>8. CASE \A t \in Slots : both[t] # None
  <2>1. /\ both["human_1"] \in Answers /\ both["human_2"] \in Answers
        /\ ~both["human_1"].senior_reject /\ ~both["human_2"].senior_reject
    BY <1>4, <1>5, <1>8, RoundAssumption DEF OrNone, FromThePage
  <2>2. v \in Verdicts
    BY <1>1, <2>1, VerdictType
  <2>3. v.stores # "nothing"
    BY <2>1 DEF EvaluateConsensus, ToReview, Tiebreak, NeitherType, Agreement, Verdict
  <2>4. llm' = ai /\ verdict' = v
    BY <1>3, <1>7, <1>8, <2>3 DEF StoredLlm
  <2>5. TypeOK'
    <3> HIDE DEF both, v
    <3> QED BY <1>3, <1>4, <2>2, <2>4 DEF IInv, TypeOK, OrNone
  <2>6. VerdictIsOfStored'
    <3>1. h1' = both["human_1"] /\ h2' = both["human_2"]
      BY <1>3 DEF h1, h2
    <3>2. verdict' = EvaluateConsensus(rec', h1', h2', llm', team', taken')
      BY <1>3, <2>4, <3>1
    <3>3. h1' # None /\ h2' # None /\ llm' # None
      BY <1>8, <2>4, <3>1, RoundAssumption
    <3>4. \A t \in Slots : answer'[t] # None =>
              FromThePage(answer'[t]) /\ AnswersWhatWasSaid(t)'
      BY <1>3, <1>5, <1>6
    <3>5. ~(\E t \in Slots : answer'[t] = None)
      BY <1>3, <1>8
    <3> QED BY <3>2, <3>3, <3>4, <3>5 DEF VerdictIsOfStored, Decided
  <2> QED BY <2>5, <2>6 DEF IInv
<1>9. CASE ~(\A t \in Slots : both[t] # None)
  <2>1. UNCHANGED <<rec, team, taken, page, verdict, llm>>
    BY <1>3, <1>9
  <2> HIDE DEF both, v
  <2>2. TypeOK'
    BY <1>3, <1>4, <2>1 DEF IInv, TypeOK, OrNone
  <2> QED BY <1>3, <1>5, <1>7, <1>6, <2>1, <2>2 DEF IInv, VerdictIsOfStored, Decided
<1> QED BY <1>8, <1>9

LEMMA StepKeeps == IInv /\ [Next]_vars => IInv'
<1> SUFFICES ASSUME IInv, [Next]_vars PROVE IInv'
  OBVIOUS
<1>1. ASSUME NEW s \in Slots, Serve(s) PROVE IInv'
  <2>1. TypeOK'
    BY <1>1 DEF IInv, TypeOK, Serve, OrNone
  <2>2. ASSUME NEW t \in Slots, answer[t] # None PROVE AnswersWhatWasSaid(t)'
    <3>1. AnswersWhatWasSaid(t) /\ t # s
      BY <1>1, <2>2, RoundAssumption DEF IInv, VerdictIsOfStored, AnswersWhatWasSaid, Serve
    <3> QED BY <1>1, <3>1 DEF AnswersWhatWasSaid, Sent, Serve, IInv, TypeOK
  <2> QED BY <1>1, <2>1, <2>2 DEF IInv, VerdictIsOfStored, Decided, h1, h2, Serve
<1>2. ASSUME NEW new \in Extracted, Refresh(new) PROVE IInv'
  BY <1>2 DEF IInv, TypeOK, VerdictIsOfStored, AnswersWhatWasSaid, Sent, Decided, h1, h2,
              Refresh
<1>3. ASSUME NEW s \in Slots, NEW j \in PageJudgements, NEW ai \in AiAnswers,
             Judge(s, j, ai)
      PROVE  IInv'
  BY <1>3, JudgeKeeps
<1>4. CASE UNCHANGED vars
  BY <1>4 DEF IInv, TypeOK, VerdictIsOfStored, AnswersWhatWasSaid, Sent, Decided, h1, h2,
              vars
<1> QED BY <1>1, <1>2, <1>3, <1>4 DEF Next

THEOREM Invariance == Spec => []IInv
<1>1. IInv /\ [Next]_vars => IInv'
  BY StepKeeps
<1> QED BY InitHolds, <1>1, PTL DEF Spec

\* Every variable keeps its type: whatever is answered, the engine's verdict is
\* one the columns can hold.
THEOREM TypeCorrect == Spec => []TypeOK
<1>1. IInv => TypeOK
  BY DEF IInv
<1> QED BY <1>1, Invariance, PTL

-----------------------------------------------------------------------------
(* What the verdict guarantees.                                            *)

LEMMA DecidedOn ==
    ASSUME IInv, Decided
    PROVE  /\ rec \in Extractions /\ h1 \in Answers /\ h2 \in Answers
           /\ h1 # None /\ h2 # None
           /\ FromThePage(h1) /\ FromThePage(h2)
           /\ llm \in LlmAnswers
           /\ verdict = EvaluateConsensus(rec, h1, h2, llm, team, taken)
BY RoundAssumption DEF IInv, TypeOK, VerdictIsOfStored, h1, h2, OrNone

\* Swapping the two slots changes no verdict, for any answers.
THEOREM SlotOrder == Spec => []SlotOrderIsIrrelevant
<1>1. IInv => SlotOrderIsIrrelevant
  BY DecidedOn, VerdictIsSymmetric DEF SlotOrderIsIrrelevant
<1> QED BY <1>1, Invariance, PTL

\* Nothing is published or rejected unattended unless both validators and the
\* AI stand behind it.
THEOREM Unattended == Spec => []UnattendedIsUnanimous
<1>1. ASSUME IInv, Decided, verdict.status \in {"validated", "rejected"}
      PROVE  UnattendedIsUnanimous
  <2>1. /\ rec \in Extractions /\ h1 \in Answers /\ h2 \in Answers
        /\ FromThePage(h1) /\ FromThePage(h2)
        /\ verdict = EvaluateConsensus(rec, h1, h2, llm, team, taken)
    BY <1>1, DecidedOn
  <2> DEFINE agreed == Agreement(rec, h1, h2, llm, team, taken)
  <2>2. /\ ToReview(FALSE, "unless_clean").status = "need_review"
        /\ Tiebreak(rec, h1, h2, llm).status \in {"consensus_reached", "need_review"}
    BY DEF ToReview, Tiebreak, Verdict
  <2>3. /\ ~Doubtful(h1, h2) /\ ChecksAgree(h1, h2) /\ CorrectionsAgree(h1, h2)
        /\ verdict = IF EffectiveType(h1) = "not_validation" THEN NeitherType(h1, llm)
                     ELSE agreed
    BY <1>1, <2>1, <2>2 DEF EvaluateConsensus, FromThePage
  <2>4. /\ ~IsUnsure(h1) /\ ~IsUnsure(h2)
        /\ ~h1.quote_not_in_abstract /\ ~h2.quote_not_in_abstract
    BY <2>3 DEF Doubtful
  <2>5. LlmMatches(llm, h1) <=> LlmMatches(llm, h2)
    BY <2>3 DEF ChecksAgree, LlmMatches
  <2>6. CASE EffectiveType(h1) = "not_validation"
    <3>1. LlmMatches(llm, h1) /\ verdict.status = "rejected"
      BY <1>1, <2>3, <2>6 DEF NeitherType, ToReview, Verdict
    <3> QED BY <2>3, <2>4, <2>5, <2>6, <3>1 DEF UnattendedIsUnanimous
  <2>7. CASE EffectiveType(h1) # "not_validation"
    <3> DEFINE final == ResolveFinal(rec, h1, h2)
               rule  == AutoValidationRule(h1, h2, llm, team)
    <3>1. /\ verdict.status = "validated" /\ verdict.rule = rule /\ rule # None
          /\ verdict.final = final /\ Identity(final) \notin taken
      BY <1>1, <2>3, <2>7 DEF Agreement, Verdict
    <3>2. /\ LlmMatches(llm, h1) /\ ~OriginalDisputed(h1)
          /\ team.trusted >= 1 \/ team.experienced >= 2
      BY <2>1, <3>1, RuleNeedsAgreement
    <3>3. h1.original_check = "correct"
      BY <2>1, <3>2 DEF OriginalDisputed, Answers, Checks
    <3> QED BY <2>3, <2>4, <2>5, <3>1, <3>2, <3>3 DEF UnattendedIsUnanimous
  <2> QED BY <2>6, <2>7
<1>2. IInv => UnattendedIsUnanimous
  BY <1>1 DEF UnattendedIsUnanimous
<1> QED BY <1>2, Invariance, PTL

\* Who the final values come from: the one the engine declares the winner, who
\* does not say "neither type".
LEMMA FinalHasAWinner ==
    ASSUME IInv, Decided, verdict.final # None
    PROVE  \E w \in {h1, h2}, o \in {h1, h2} :
               /\ verdict.final = ResolveFinal(rec, w, o)
               /\ EffectiveType(w) # "not_validation"
               /\ ~Doubtful(h1, h2)
               /\ \/ LlmMatches(llm, w)
                  \/ ChecksAgree(h1, h2) /\ CorrectionsAgree(h1, h2) /\ w = h1
<1>1. /\ FromThePage(h1) /\ FromThePage(h2)
      /\ verdict = EvaluateConsensus(rec, h1, h2, llm, team, taken)
  BY DecidedOn
<1>2. /\ ToReview(FALSE, "unless_clean").final = None
      /\ NeitherType(h1, llm).final = None
  BY DEF ToReview, NeitherType, Verdict
<1>3. /\ ~Doubtful(h1, h2)
      /\ \/ ~ChecksAgree(h1, h2) /\ verdict = Tiebreak(rec, h1, h2, llm)
         \/ /\ ChecksAgree(h1, h2) /\ CorrectionsAgree(h1, h2)
            /\ EffectiveType(h1) # "not_validation"
            /\ verdict = Agreement(rec, h1, h2, llm, team, taken)
  BY <1>1, <1>2 DEF EvaluateConsensus, FromThePage
<1>4. CASE verdict = Tiebreak(rec, h1, h2, llm)
  BY <1>3, <1>4 DEF Tiebreak, ToReview, Verdict
<1>5. CASE /\ ChecksAgree(h1, h2) /\ CorrectionsAgree(h1, h2)
           /\ EffectiveType(h1) # "not_validation"
           /\ verdict = Agreement(rec, h1, h2, llm, team, taken)
  <2>1. verdict.final = ResolveFinal(rec, h1, h2)
    BY <1>5 DEF Agreement, Verdict
  <2> QED BY <1>3, <1>5, <2>1
<1> QED BY <1>3, <1>4, <1>5

\* The published shape fits the published type, whoever changed the type.
THEOREM FinalFits == Spec => []FinalFitsItsType
<1>1. ASSUME IInv, Decided, verdict.final # None
      PROVE  FinalFitsItsType
  <2>1. PICK w \in {h1, h2}, o \in {h1, h2} :
            /\ verdict.final = ResolveFinal(rec, w, o)
            /\ EffectiveType(w) # "not_validation"
    BY <1>1, FinalHasAWinner
  <2>2. rec \in Extractions /\ w \in Answers /\ o \in Answers
    BY <1>1, DecidedOn
  <2> DEFINE type == First(EffectiveType(w), rec.type)
  <2>3. type \in Types
    BY <2>1, <2>2, EngineAssumption
    DEF First, EffectiveType, Types, Answers, Extractions, OrNone
  <2>4. /\ ResolveAxis(w.corrected_computation, rec.computation) \in Computations
        /\ ResolveAxis(w.corrected_robustness, rec.robustness) \in Robustnesses
    BY <2>2, EngineAssumption DEF ResolveAxis, First, Answers, Extractions, OrNone
  <2>5. /\ verdict.final.type = type
        /\ verdict.final.outcome = FinalOutcome(type, rec, w, o)
        /\ verdict.final.computation = FinalAxes(type, rec, w)[1]
        /\ verdict.final.robustness = FinalAxes(type, rec, w)[2]
    BY <2>1 DEF ResolveFinal
  <2> HIDE DEF type
  <2>6. type = "replication" => FinalOutcome(type, rec, w, o) \in Outcomes
    BY EngineAssumption DEF FinalOutcome
  <2> QED BY <2>3, <2>4, <2>5, <2>6
          DEF FinalFitsItsType, FinalOutcome, FinalAxes, Types
<1>2. IInv => FinalFitsItsType
  BY <1>1 DEF FinalFitsItsType
<1> QED BY <1>2, Invariance, PTL

\* A final whose original is the winner's own correction waits for an admin: no
\* rule validates a record whose original is disputed.
LEMMA DisputedWaits ==
    ASSUME IInv, Decided, verdict.final # None, verdict.rule # None
    PROVE  ~OriginalDisputed(h1) /\ ~OriginalDisputed(h2)
<1>1. /\ h1 \in Answers /\ h2 \in Answers
      /\ FromThePage(h1) /\ FromThePage(h2)
      /\ verdict = EvaluateConsensus(rec, h1, h2, llm, team, taken)
  BY DecidedOn
<1>2. /\ ToReview(FALSE, "unless_clean").rule = None
      /\ NeitherType(h1, llm).rule = None
      /\ Tiebreak(rec, h1, h2, llm).rule = None
  BY DEF ToReview, NeitherType, Tiebreak, Verdict
<1>3. /\ ChecksAgree(h1, h2)
      /\ verdict = Agreement(rec, h1, h2, llm, team, taken)
  BY <1>1, <1>2 DEF EvaluateConsensus, FromThePage
<1>4. AutoValidationRule(h1, h2, llm, team) # None
  BY <1>3 DEF Agreement, Verdict
<1>5. ~OriginalDisputed(h1)
  BY <1>1, <1>4, RuleNeedsAgreement
<1> QED BY <1>3, <1>5 DEF ChecksAgree, OriginalDisputed

\* The status of a verdict with final values tells who decides next.
LEMMA FinalStatus ==
    ASSUME IInv, Decided, verdict.final # None, verdict.rule = None
    PROVE  verdict.status = "consensus_reached"
<1>1. /\ FromThePage(h1) /\ FromThePage(h2)
      /\ verdict = EvaluateConsensus(rec, h1, h2, llm, team, taken)
  BY DecidedOn
<1>2. /\ ToReview(FALSE, "unless_clean").final = None
      /\ NeitherType(h1, llm).final = None
  BY DEF ToReview, NeitherType, Verdict
<1>3. \/ verdict = Tiebreak(rec, h1, h2, llm)
      \/ verdict = Agreement(rec, h1, h2, llm, team, taken)
  BY <1>1, <1>2 DEF EvaluateConsensus, FromThePage
<1> QED BY <1>3 DEF Tiebreak, Agreement, ToReview, Verdict

\* The final original is the extracted one, confirmed, or waits for an admin
\* with what one validator supplied in it.
THEOREM FinalVouched == Spec => []FinalOriginalIsVouched
<1>1. ASSUME IInv, Decided, verdict.final # None
      PROVE  FinalOriginalIsVouched
  <2>1. PICK w \in {h1, h2}, o \in {h1, h2} :
            /\ verdict.final = ResolveFinal(rec, w, o)
            /\ EffectiveType(w) # "not_validation"
            /\ ~Doubtful(h1, h2)
            /\ \/ LlmMatches(llm, w)
               \/ ChecksAgree(h1, h2) /\ CorrectionsAgree(h1, h2) /\ w = h1
    BY <1>1, FinalHasAWinner
  <2>2. /\ h1 \in Answers /\ h2 \in Answers
        /\ FromThePage(h1) /\ FromThePage(h2)
    BY <1>1, DecidedOn
  <2>3. Identity(verdict.final) = <<First(w.corrected_doi_o, rec.doi_o),
                                    First(w.corrected_title_o, rec.title_o)>>
    BY <2>1 DEF ResolveFinal, Identity
  <2>4. CASE w.original_check = "correct"
    <3>1. Identity(verdict.final) = Identity(rec)
      BY <2>2, <2>3, <2>4 DEF FromThePage, Supplied, First, Identity
    <3> QED BY <2>4, <3>1 DEF FinalOriginalIsVouched
  <2>5. CASE w.original_check = "incorrect" /\ Supplied(w)
    <3>1. verdict.rule = None
      BY <1>1, <2>5, DisputedWaits DEF OriginalDisputed
    <3>2. verdict.status = "consensus_reached"
      BY <1>1, <3>1, FinalStatus
    <3> QED BY <2>3, <2>5, <3>1, <3>2 DEF Supplied, FinalOriginalIsVouched
  <2>6. CASE w.original_check = "incorrect" /\ ~Supplied(w)
    <3>1. ~w.was_unsure_original /\ ~w.senior_reject
      BY <2>1, <2>2 DEF Doubtful, IsUnsure, FromThePage
    <3>2. w.outcome_check = NO_OUTCOME
      BY <2>1, <2>2, <2>6, <3>1 DEF FromThePage
    <3>3. MarkedWrongWithoutReplacement(w)
      BY <2>1, <2>6, <3>1 DEF MarkedWrongWithoutReplacement, Supplied
    <3>4. ~LlmMatches(llm, w)
      BY <1>1, <3>2, DecidedOn DEF LlmMatches, LlmAnswers, LlmChecks, Checks, NO_OUTCOME
    <3>5. MarkedWrongWithoutReplacement(h1) /\ MarkedWrongWithoutReplacement(h2)
      BY <2>1, <2>2, <3>3, <3>4
      DEF ChecksAgree, CorrectionsAgree, MarkedWrongWithoutReplacement, Doubtful,
          IsUnsure, FromThePage
    <3> QED BY <1>1, <2>1, <3>5, DecidedOn DEF Doubtful, RemovalProposed
  <2> QED BY <2>2, <2>4, <2>5, <2>6 DEF Answers, Checks
<1>2. IInv => FinalOriginalIsVouched
  BY <1>1 DEF FinalOriginalIsVouched
<1> QED BY <1>2, Invariance, PTL

\* A correction against the outcome the page showed is stored as one, whatever
\* the import did to the record in between.
THEOREM CorrectionKept == Spec => []StaleCorrectionIsKept
<1>1. ASSUME IInv, NEW s \in Slots, answer[s] # None,
             said[s].type = "replication", page[s].type = "replication",
             ~NoReplacement(said[s]),
             said[s].outcome = "incorrect",
             said[s].value \notin {page[s].outcome, Undetermined}
      PROVE  /\ answer[s].outcome_check = "incorrect"
             /\ answer[s].corrected_outcome = said[s].value
  <2> DEFINE req == Sent(s)
  <2>1. /\ req.type_check = "correct" /\ req.corrected_type = None
        /\ req.outcome_check = "incorrect"
        /\ req.corrected_outcome = said[s].value
        /\ req.shown_outcome = page[s].outcome
        /\ ~req.was_unsure_outcome
    BY <1>1 DEF Sent, JudgePayload
  <2>2. PICK x \in Extracted : Accepted(req, x) /\ answer[s] = StoredAnswer(req, x)
    BY <1>1 DEF IInv, VerdictIsOfStored, AnswersWhatWasSaid
  <2> HIDE DEF req
  <2>3. AsAgreement(req, x) = req
    BY <1>1, <2>1 DEF AsAgreement, MeansAgreement
  <2>4. OutcomeAccepted(req, x)
    BY <2>1, <2>2, <2>3 DEF Accepted, NO_OUTCOME
  <2>5. TargetType(req, x) = x.type /\ x.type \in Types
    BY <2>1, RoundAssumption DEF TargetType, Extractions
  <2>6. TargetOutcome(req, x) = req.corrected_outcome
    BY <2>1, <2>5 DEF TargetOutcome, UnsureWithoutCorrection
  <2>7. x.type = "reproduction" => req.corrected_outcome = None
    BY <1>1, <2>1, <2>4, <2>5 DEF OutcomeAccepted
  <2>8. StoredOutcome(req, x) = req.corrected_outcome
    BY <2>1, <2>5, <2>6, <2>7 DEF StoredOutcome, UnsureWithoutCorrection, NO_OUTCOME, Types
  <2>9. /\ answer[s].outcome_check = req.outcome_check
        /\ answer[s].corrected_outcome = StoredOutcome(req, x)
    BY <2>2, <2>3 DEF StoredAnswer
  <2> QED BY <2>1, <2>8, <2>9
<1>2. IInv => StaleCorrectionIsKept
  BY <1>1 DEF StaleCorrectionIsKept
<1> QED BY <1>2, Invariance, PTL
=============================================================================
