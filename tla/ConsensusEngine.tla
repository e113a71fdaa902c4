--------------------------- MODULE ConsensusEngine ---------------------------
(***************************************************************************)
(* The decision part of consensus_engine.py: what two stored judgements    *)
(* and one answer of the AI sanity check make of a record.  Everything     *)
(* here is an operator; ConsensusRound drives it from the requests the     *)
(* server accepts, and ValidationWorkflow from the whole life of a record. *)
(* The operators named Mut... are the same code with a plausible mistake    *)
(* in it; nothing uses them.                                               *)
(*                                                                         *)
(* Abstractions.  DOIs, titles, outcomes and axis values are tokens.  The  *)
(* compared corrections that decide nothing else (replication title, URL,  *)
(* published DOI and abstract, the last two compared after normalisation)  *)
(* are one token, corrected_other.  Quotes are left out: they are neither  *)
(* compared nor part of a decision.  A reproduction's flat outcome is the  *)
(* derived join of its axes, so its outcome field is None here.  The       *)
(* fallback to a legacy joined label is left out: no row whose axes are    *)
(* empty has had one since the axes got their own columns.                 *)
(***************************************************************************)
EXTENDS Naturals

CONSTANTS
    Dois, Titles,               \* tokens for the identity of an original
    Outcomes,                   \* the replication outcomes that may be stored
    Computations, Robustnesses, \* the values of the two reproduction axes
    Others,                     \* the other compared corrections, as one token
    None                        \* NULL

Undetermined == "cannot_be_determined"

ASSUME EngineAssumption ==
    /\ Undetermined \in Outcomes \cap Computations \cap Robustnesses
    /\ None \notin Dois \cup Titles \cup Outcomes
    /\ None \notin Computations \cup Robustnesses \cup Others
    /\ None \notin {"replication", "reproduction", "not_validation"}

Types        == {"replication", "reproduction"}
Checks       == {"correct", "incorrect"}
NO_OUTCOME   == "not_applicable"
OrNone(S)    == S \cup {None}
First(a, b)  == IF a # None THEN a ELSE b

\* A row of validation_queue whose is_validated is TRUE.
Answers == [
    type_check            : Checks,
    original_check        : Checks,
    outcome_check         : Checks \cup {NO_OUTCOME},
    corrected_type        : OrNone(Types \cup {"not_validation"}),
    corrected_doi_o       : OrNone(Dois),
    corrected_title_o     : OrNone(Titles),
    corrected_outcome     : OrNone(Outcomes),
    corrected_computation : OrNone(Computations),
    corrected_robustness  : OrNone(Robustnesses),
    corrected_other       : OrNone(Others),
    was_unsure_original   : BOOLEAN,
    was_unsure_outcome    : BOOLEAN,
    quote_not_in_abstract : BOOLEAN,
    senior_reject         : BOOLEAN ]

\* What run_llm_validation returns: an error object, or three checks each of
\* which may also be "uncertain".
LlmChecks  == Checks \cup {"uncertain"}
LlmAnswers == [error : BOOLEAN, type_check : LlmChecks,
               original_check : LlmChecks, outcome_check : LlmChecks]

\* The extracted values of an unvalidated row that a decision can use.
Extractions == [type : Types, outcome : OrNone(Outcomes),
                computation : OrNone(Computations),
                robustness : OrNone(Robustnesses),
                doi_o : OrNone(Dois), title_o : OrNone(Titles)]

-----------------------------------------------------------------------------
(* Readings of one judgement.                                              *)

EffectiveType(h) ==
    IF h.type_check = "incorrect" THEN h.corrected_type ELSE None

IsUnsure(h) == h.was_unsure_original \/ h.was_unsure_outcome

OriginalDisputed(h) == h.original_check = "incorrect"

MarkedWrongWithoutReplacement(h) ==
    /\ h.original_check = "incorrect"
    /\ EffectiveType(h) # "not_validation"
    /\ ~h.was_unsure_original
    /\ ~h.senior_reject
    /\ h.corrected_doi_o = None
    /\ h.corrected_title_o = None

-----------------------------------------------------------------------------
(* Readings of the pair, and of the AI's answer.                           *)

RemovalProposed(h1, h2) ==
    /\ h1 # None
    /\ h2 # None
    /\ MarkedWrongWithoutReplacement(h1)
    /\ MarkedWrongWithoutReplacement(h2)

ChecksAgree(h1, h2) ==
    /\ h1.type_check = h2.type_check
    /\ h1.original_check = h2.original_check
    /\ h1.outcome_check = h2.outcome_check

CorrectionsAgree(h1, h2) ==
    /\ EffectiveType(h1) = EffectiveType(h2)
    /\ \A f \in {"corrected_doi_o", "corrected_title_o", "corrected_outcome",
                 "corrected_computation", "corrected_robustness",
                 "corrected_other"} : h1[f] = h2[f]

\* Mutant of LlmMatches: the outcome is not compared.
MutLlmMatchesChecksOnly(llm, h) ==
    /\ ~llm.error
    /\ llm.type_check = h.type_check
    /\ llm.original_check = h.original_check

LlmMatches(llm, h) ==
    /\ ~llm.error
    /\ llm.type_check = h.type_check
    /\ llm.original_check = h.original_check
    /\ llm.outcome_check = h.outcome_check

\* Mutant of AutoValidationRule: the AI's answer is not asked.
MutRuleWithoutLlm(h1, h2, llm, team) ==
    IF /\ \A h \in {h1, h2} :
             ~IsUnsure(h) /\ ~h.quote_not_in_abstract /\ ~h.senior_reject
       /\ ChecksAgree(h1, h2)
       /\ CorrectionsAgree(h1, h2)
       /\ EffectiveType(h1) # "not_validation"
       /\ ~OriginalDisputed(h1)
    THEN IF team.trusted >= 1 THEN "trusted"
         ELSE IF team.experienced >= 2 THEN "experienced"
         ELSE None
    ELSE None

\* team: how many of the two validators are Trusted or Senior, and how many
\* are experienced (auto_validation_stats).
AutoValidationRule(h1, h2, llm, team) ==
    IF /\ \A h \in {h1, h2} :
             ~IsUnsure(h) /\ ~h.quote_not_in_abstract /\ ~h.senior_reject
       /\ ChecksAgree(h1, h2)
       /\ CorrectionsAgree(h1, h2)
       /\ EffectiveType(h1) # "not_validation"
       /\ ~OriginalDisputed(h1)
       /\ LlmMatches(llm, h1)
    THEN IF team.trusted >= 1 THEN "trusted"
         ELSE IF team.experienced >= 2 THEN "experienced"
         ELSE None
    ELSE None

-----------------------------------------------------------------------------
(* Values.                                                                 *)

\* Each axis on its own: the winner's value, else the extracted one, else the
\* explicit "cannot be determined".
ResolveAxis(own, extracted) == First(First(own, extracted), Undetermined)

\* A reproduction's outcome is the join of its axes.  A record the extractor
\* called a reproduction has no replication outcome to fall back to.
FinalOutcome(type, rec, winner, other) ==
    LET candidate ==
            First(First(winner.corrected_outcome, other.corrected_outcome),
                  IF rec.type = "replication" THEN rec.outcome ELSE None)
    IN  IF type = "reproduction" THEN None
        ELSE IF candidate \in Outcomes THEN candidate
        ELSE Undetermined

\* Mutant of FinalAxes: the axes of a reproduction stay on a replication.
MutFinalAxesNotReset(type, rec, winner) ==
    <<ResolveAxis(winner.corrected_computation, rec.computation),
      ResolveAxis(winner.corrected_robustness, rec.robustness)>>

FinalAxes(type, rec, winner) ==
    IF type = "reproduction"
    THEN <<ResolveAxis(winner.corrected_computation, rec.computation),
           ResolveAxis(winner.corrected_robustness, rec.robustness)>>
    ELSE <<None, None>>

ResolveFinal(rec, winner, other) ==
    LET type == First(EffectiveType(winner), rec.type)
        axes == FinalAxes(type, rec, winner)
    IN  [type        |-> type,
         outcome     |-> FinalOutcome(type, rec, winner, other),
         computation |-> axes[1],
         robustness  |-> axes[2],
         doi_o       |-> First(winner.corrected_doi_o, rec.doi_o),
         title_o     |-> First(winner.corrected_title_o, rec.title_o)]

\* What ResolveFinal makes of a valid record.
Finals == [type : Types, outcome : OrNone(Outcomes),
           computation : OrNone(Computations), robustness : OrNone(Robustnesses),
           doi_o : OrNone(Dois), title_o : OrNone(Titles)]

\* The part of validated's natural key a judgement can change.  The rest of the
\* key (the replication and the study numbers) belongs to the extraction.
Identity(final) == <<final.doi_o, final.title_o>>

-----------------------------------------------------------------------------
(* The decision tree of evaluate_consensus.  A verdict says what           *)
(* _update_status writes: the status, the tiebreaker flag, the final       *)
(* values (None leaves the stored ones), the rule of an automatic          *)
(* validation, and what becomes of the AI's answer:                        *)
(*   "nothing"       the engine did not ask                                *)
(*   "answer"        the answer is stored, an error too                    *)
(*   "unless_clean"  an error does not replace a clean stored answer       *)

Verdict(status, tie, final, stores, rule) ==
    [status |-> status, tie |-> tie, final |-> final,
     stores |-> stores, rule |-> rule]

ToReview(tie, stores) == Verdict("need_review", tie, None, stores, None)

\* Both say it is neither type: the AI confirms, or an admin looks.
NeitherType(h1, llm) ==
    IF LlmMatches(llm, h1) THEN Verdict("rejected", FALSE, None, "answer", None)
    ELSE ToReview(FALSE, "answer")

\* taken: the identities other entries hold in validated.  Both the check
\* (identity_taken) and the insert refuse one of them, and an admin merges.
Agreement(rec, h1, h2, llm, team, taken) ==
    LET final == ResolveFinal(rec, h1, h2)
        rule  == IF Identity(final) \in taken THEN None
                 ELSE AutoValidationRule(h1, h2, llm, team)
    IN  Verdict(IF rule # None THEN "validated" ELSE "consensus_reached",
                FALSE, final, "answer", rule)

\* Mutant of Tiebreak: the AI may side with 'not a validation'.
MutTiebreakForNeither(rec, h1, h2, llm) ==
    LET wins(w, o) == LlmMatches(llm, w) /\ ~LlmMatches(llm, o)
        for(w, o)  == Verdict("consensus_reached", TRUE, ResolveFinal(rec, w, o),
                              "answer", None)
    IN  IF wins(h1, h2) THEN for(h1, h2)
        ELSE IF wins(h2, h1) THEN for(h2, h1)
        ELSE ToReview(TRUE, "answer")

\* The checks differ: the AI breaks the tie for the one validator it matches,
\* unless that one says it is neither type.
Tiebreak(rec, h1, h2, llm) ==
    LET wins(w, o) == /\ LlmMatches(llm, w)
                      /\ ~LlmMatches(llm, o)
                      /\ EffectiveType(w) # "not_validation"
        for(w, o)  == Verdict("consensus_reached", TRUE, ResolveFinal(rec, w, o),
                              "answer", None)
    IN  IF wins(h1, h2) THEN for(h1, h2)
        ELSE IF wins(h2, h1) THEN for(h2, h1)
        ELSE ToReview(TRUE, "answer")

\* Mutant of Doubtful: only the first quote is looked at.
MutDoubtfulFirstQuote(h1, h2) ==
    \/ IsUnsure(h1) \/ IsUnsure(h2)
    \/ h1.quote_not_in_abstract
    \/ RemovalProposed(h1, h2)

Doubtful(h1, h2) ==
    \/ IsUnsure(h1) \/ IsUnsure(h2)
    \/ h1.quote_not_in_abstract \/ h2.quote_not_in_abstract
    \/ RemovalProposed(h1, h2)

\* Every verdict the tree can reach, for the type invariants.
Verdicts == [status : {"consensus_reached", "need_review", "validated", "rejected"},
             tie : BOOLEAN, final : OrNone(Finals),
             stores : {"nothing", "answer", "unless_clean"},
             rule : {None, "trusted", "experienced"}]

EvaluateConsensus(rec, h1, h2, llm, team, taken) ==
    IF h1.senior_reject \/ h2.senior_reject
    THEN Verdict("rejected", FALSE, None, "nothing", None)
    ELSE IF Doubtful(h1, h2) THEN ToReview(FALSE, "unless_clean")
    ELSE IF ~ChecksAgree(h1, h2) THEN Tiebreak(rec, h1, h2, llm)
    ELSE IF ~CorrectionsAgree(h1, h2) THEN ToReview(FALSE, "unless_clean")
    ELSE IF EffectiveType(h1) = "not_validation" THEN NeitherType(h1, llm)
    ELSE Agreement(rec, h1, h2, llm, team, taken)

\* What llm_validator holds afterwards (_store_only_answer, _update_status).
StoredLlm(stored, answer, stores) ==
    IF \/ stores = "nothing"
       \/ stores = "unless_clean" /\ answer.error /\ stored # None /\ ~stored.error
    THEN stored
    ELSE answer
=============================================================================
