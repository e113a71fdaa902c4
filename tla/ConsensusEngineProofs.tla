------------------------ MODULE ConsensusEngineProofs ------------------------
(***************************************************************************)
(* Facts about the decision tree of consensus_engine.py that hold for all  *)
(* judgements, all answers of the AI and all values of the constants.      *)
(***************************************************************************)
EXTENDS ConsensusEngine, TLAPS

\* The values resolved from a winner who does not say "neither type" have the
\* shape the final_* columns need.
LEMMA ResolveFinalType ==
    ASSUME NEW rec \in Extractions, NEW w \in Answers, NEW o \in Answers,
           EffectiveType(w) # "not_validation"
    PROVE  ResolveFinal(rec, w, o) \in Finals
<1> DEFINE type == First(EffectiveType(w), rec.type)
           axes == FinalAxes(type, rec, w)
<1>1. type \in Types
  BY EngineAssumption DEF First, EffectiveType, Types, Answers, Extractions, OrNone
<1>2. FinalOutcome(type, rec, w, o) \in OrNone(Outcomes)
  <2> HIDE DEF type
  <2> QED BY EngineAssumption DEF FinalOutcome, OrNone
<1>3. /\ axes[1] \in OrNone(Computations)
      /\ axes[2] \in OrNone(Robustnesses)
  <2>1. /\ ResolveAxis(w.corrected_computation, rec.computation) \in Computations
        /\ ResolveAxis(w.corrected_robustness, rec.robustness) \in Robustnesses
    BY EngineAssumption DEF ResolveAxis, First, Answers, Extractions, OrNone
  <2> HIDE DEF type
  <2> QED BY <2>1 DEF FinalAxes, OrNone
<1>4. /\ First(w.corrected_doi_o, rec.doi_o) \in OrNone(Dois)
      /\ First(w.corrected_title_o, rec.title_o) \in OrNone(Titles)
  BY DEF First, Answers, Extractions, OrNone
<1> QED BY <1>1, <1>2, <1>3, <1>4 DEF ResolveFinal, Finals

\* A rule fires only on two judgements without doubt that agree in everything,
\* that dispute no original, that the AI matches, and of a team it trusts.
LEMMA RuleNeedsAgreement ==
    ASSUME NEW h1 \in Answers, NEW h2 \in Answers, NEW llm, NEW team,
           AutoValidationRule(h1, h2, llm, team) # None
    PROVE  /\ AutoValidationRule(h1, h2, llm, team) \in {"trusted", "experienced"}
           /\ ChecksAgree(h1, h2) /\ CorrectionsAgree(h1, h2)
           /\ LlmMatches(llm, h1)
           /\ ~OriginalDisputed(h1)
           /\ EffectiveType(h1) # "not_validation"
           /\ ~h1.senior_reject /\ ~h2.senior_reject
           /\ team.trusted >= 1 \/ team.experienced >= 2
BY DEF AutoValidationRule

\* Every verdict is one the columns can hold.
LEMMA VerdictType ==
    ASSUME NEW rec \in Extractions, NEW h1 \in Answers, NEW h2 \in Answers,
           NEW llm, NEW team, NEW taken
    PROVE  EvaluateConsensus(rec, h1, h2, llm, team, taken) \in Verdicts
<1>1. \A tie \in BOOLEAN, stores \in {"nothing", "answer", "unless_clean"} :
          ToReview(tie, stores) \in Verdicts
  BY DEF ToReview, Verdict, Verdicts, OrNone
<1>2. Tiebreak(rec, h1, h2, llm) \in Verdicts
  <2>1. ASSUME NEW w \in Answers, NEW o \in Answers,
               EffectiveType(w) # "not_validation"
        PROVE  Verdict("consensus_reached", TRUE, ResolveFinal(rec, w, o),
                       "answer", None) \in Verdicts
    BY <2>1, ResolveFinalType DEF Verdict, Verdicts, OrNone
  <2> QED BY <1>1, <2>1 DEF Tiebreak
<1>3. NeitherType(h1, llm) \in Verdicts
  BY <1>1 DEF NeitherType, Verdict, Verdicts, OrNone
<1>4. ASSUME EffectiveType(h1) # "not_validation"
      PROVE  Agreement(rec, h1, h2, llm, team, taken) \in Verdicts
  <2>1. ResolveFinal(rec, h1, h2) \in Finals
    BY <1>4, ResolveFinalType
  <2>2. AutoValidationRule(h1, h2, llm, team) \in {None, "trusted", "experienced"}
    BY DEF AutoValidationRule
  <2> QED BY <2>1, <2>2 DEF Agreement, Verdict, Verdicts, OrNone
<1>5. Verdict("rejected", FALSE, None, "nothing", None) \in Verdicts
  BY DEF Verdict, Verdicts, OrNone
<1> QED BY <1>1, <1>2, <1>3, <1>4, <1>5 DEF EvaluateConsensus

\* What the engine publishes on its own comes from a rule that fired, with final
\* values of an identity no other entry holds.
LEMMA ValidatedByRule ==
    ASSUME NEW rec \in Extractions, NEW h1 \in Answers, NEW h2 \in Answers,
           NEW llm, NEW team, NEW taken,
           EvaluateConsensus(rec, h1, h2, llm, team, taken).status = "validated"
    PROVE  LET v == EvaluateConsensus(rec, h1, h2, llm, team, taken)
           IN  /\ v.rule = AutoValidationRule(h1, h2, llm, team)
               /\ v.rule # None
               /\ v.final = ResolveFinal(rec, h1, h2)
               /\ v.final \in Finals
               /\ Identity(v.final) \notin taken
<1> DEFINE v == EvaluateConsensus(rec, h1, h2, llm, team, taken)
<1>1. /\ ToReview(FALSE, "unless_clean").status # "validated"
      /\ Tiebreak(rec, h1, h2, llm).status # "validated"
      /\ NeitherType(h1, llm).status # "validated"
  BY DEF ToReview, Tiebreak, NeitherType, Verdict
<1>2. /\ v = Agreement(rec, h1, h2, llm, team, taken)
      /\ EffectiveType(h1) # "not_validation"
  BY <1>1 DEF EvaluateConsensus, Verdict
<1>3. ResolveFinal(rec, h1, h2) \in Finals
  BY <1>2, ResolveFinalType
<1> QED BY <1>2, <1>3 DEF Agreement, Verdict

\* Which judgement is human_1 is an accident of the draw: swapping the two
\* changes no verdict, on the branches that read only the first judgement as on
\* the tiebreak.
THEOREM VerdictIsSymmetric ==
    ASSUME NEW rec \in Extractions, NEW h1 \in Answers, NEW h2 \in Answers,
           NEW llm, NEW team, NEW taken
    PROVE  EvaluateConsensus(rec, h1, h2, llm, team, taken) =
               EvaluateConsensus(rec, h2, h1, llm, team, taken)
<1>1. /\ Doubtful(h1, h2) <=> Doubtful(h2, h1)
      /\ ChecksAgree(h1, h2) <=> ChecksAgree(h2, h1)
      /\ CorrectionsAgree(h1, h2) <=> CorrectionsAgree(h2, h1)
  BY DEF Doubtful, RemovalProposed, ChecksAgree, CorrectionsAgree
<1>2. CASE h1.senior_reject \/ h2.senior_reject
  BY <1>2 DEF EvaluateConsensus
<1>3. CASE ~(h1.senior_reject \/ h2.senior_reject) /\ Doubtful(h1, h2)
  BY <1>1, <1>3 DEF EvaluateConsensus
<1>4. CASE ~(h1.senior_reject \/ h2.senior_reject) /\ ~Doubtful(h1, h2)
           /\ ~ChecksAgree(h1, h2)
  <2>1. Tiebreak(rec, h1, h2, llm) = Tiebreak(rec, h2, h1, llm)
    BY DEF Tiebreak
  <2> QED BY <1>1, <1>4, <2>1 DEF EvaluateConsensus
<1>5. CASE ~(h1.senior_reject \/ h2.senior_reject) /\ ~Doubtful(h1, h2)
           /\ ChecksAgree(h1, h2) /\ ~CorrectionsAgree(h1, h2)
  BY <1>1, <1>5 DEF EvaluateConsensus
<1>6. CASE ~(h1.senior_reject \/ h2.senior_reject) /\ ~Doubtful(h1, h2)
           /\ ChecksAgree(h1, h2) /\ CorrectionsAgree(h1, h2)
  <2>1. EffectiveType(h1) = EffectiveType(h2)
    BY <1>6 DEF CorrectionsAgree
  <2>2. LlmMatches(llm, h1) <=> LlmMatches(llm, h2)
    BY <1>6 DEF ChecksAgree, LlmMatches
  <2>3. NeitherType(h1, llm) = NeitherType(h2, llm)
    BY <2>2 DEF NeitherType
  <2>4. ResolveFinal(rec, h1, h2) = ResolveFinal(rec, h2, h1)
    <3>1. /\ h1.corrected_doi_o = h2.corrected_doi_o
          /\ h1.corrected_title_o = h2.corrected_title_o
          /\ h1.corrected_outcome = h2.corrected_outcome
          /\ h1.corrected_computation = h2.corrected_computation
          /\ h1.corrected_robustness = h2.corrected_robustness
      BY <1>6 DEF CorrectionsAgree
    <3> QED BY <2>1, <3>1 DEF ResolveFinal, FinalOutcome, FinalAxes
  <2>5. AutoValidationRule(h1, h2, llm, team) = AutoValidationRule(h2, h1, llm, team)
    <3>1. OriginalDisputed(h1) <=> OriginalDisputed(h2)
      BY <1>6 DEF ChecksAgree, OriginalDisputed
    <3>2. {h1, h2} = {h2, h1}
      OBVIOUS
    <3> QED BY <1>1, <2>1, <2>2, <3>1, <3>2 DEF AutoValidationRule
  <2>6. Agreement(rec, h1, h2, llm, team, taken) = Agreement(rec, h2, h1, llm, team, taken)
    BY <2>4, <2>5 DEF Agreement
  <2> QED BY <1>1, <1>6, <2>1, <2>3, <2>6 DEF EvaluateConsensus
<1> QED BY <1>2, <1>3, <1>4, <1>5, <1>6
=============================================================================
