--------------------------- MODULE ConsensusRound ---------------------------
(***************************************************************************)
(* One record, from the moment its two pages are served to the verdict of  *)
(* the consensus engine.  The two validators answer in either order, the   *)
(* nightly import may rewrite the extraction under an open page, and the   *)
(* AI answers anything or fails.                                           *)
(*                                                                         *)
(* Judge is POST /api/judge reduced to what the engine sees; the slots,    *)
(* the locks and the other ways a record is decided are in                 *)
(* ValidationWorkflow.                                                     *)
(***************************************************************************)
EXTENDS JudgementRequest

CONSTANTS
    Slots,             \* the two human slots
    Extracted,         \* the extractions the import may ship for this record
    PageJudgements,    \* what the validators may answer on the page
    AiAnswers,         \* what the AI may answer
    Teams,             \* the possible team counts
    TakenIdentities    \* the possible sets of identities held by other entries

VARIABLES
    rec,      \* the extraction stored in unvalidated
    team,     \* auto_validation_stats of the two validators
    taken,    \* identities other entries hold in validated
    page,     \* per slot, the extraction its page shows, or None
    said,     \* per slot, what its validator answered on the page, or None
    answer,   \* per slot, the stored judgement, or None
    llm,      \* the stored answer of the AI, or None
    verdict   \* what the engine decided, or None

vars == <<rec, team, taken, page, said, answer, llm, verdict>>

ASSUME RoundAssumption ==
    /\ Slots = {"human_1", "human_2"}
    /\ Extracted \subseteq Extractions
    /\ PageJudgements \subseteq Judgements
    /\ AiAnswers \subseteq LlmAnswers
    /\ None \notin Extracted \cup PageJudgements \cup AiAnswers

TypeOK ==
    /\ rec \in Extracted
    /\ team \in Teams
    /\ taken \in TakenIdentities
    /\ page \in [Slots -> OrNone(Extracted)]
    /\ said \in [Slots -> OrNone(PageJudgements)]
    /\ answer \in [Slots -> OrNone(Answers)]
    /\ llm \in OrNone(AiAnswers)
    /\ verdict \in OrNone(Verdicts)

Init ==
    /\ rec \in Extracted
    /\ team \in Teams
    /\ taken \in TakenIdentities
    /\ page = [s \in Slots |-> None]
    /\ said = [s \in Slots |-> None]
    /\ answer = [s \in Slots |-> None]
    /\ llm = None
    /\ verdict = None

-----------------------------------------------------------------------------
\* The page of one validator loads the record.
Serve(s) ==
    /\ page[s] = None
    /\ page' = [page EXCEPT ![s] = rec]
    /\ UNCHANGED <<rec, team, taken, said, answer, llm, verdict>>

\* The import ships another extraction of the same pair
\* (_refresh_extractor_fields).  Decided or not, the row is rewritten; what the
\* verdict was about is no longer readable then, so it stops at the verdict.
Refresh(new) ==
    /\ verdict = None
    /\ new # rec
    /\ rec' = new
    /\ UNCHANGED <<team, taken, page, said, answer, llm, verdict>>

\* POST /api/judge.  The second judgement evaluates consensus in the same
\* transaction, on the record as it is now.
Judge(s, j, ai) ==
    LET req == JudgePayload(j, page[s].type, page[s].outcome)
        both == [answer EXCEPT ![s] = StoredAnswer(req, rec)]
        v   == EvaluateConsensus(rec, both["human_1"], both["human_2"], ai,
                                 team, taken)
    IN  /\ page[s] # None
        /\ answer[s] = None
        /\ Accepted(req, rec)
        /\ said' = [said EXCEPT ![s] = j]
        /\ answer' = both
        /\ IF \A t \in Slots : both[t] # None
           THEN /\ verdict' = v
                /\ llm' = StoredLlm(llm, ai, v.stores)
           ELSE UNCHANGED <<verdict, llm>>
        /\ UNCHANGED <<rec, team, taken, page>>

Next ==
    \/ \E s \in Slots : Serve(s)
    \/ \E new \in Extracted : Refresh(new)
    \/ \E s \in Slots, j \in PageJudgements, ai \in AiAnswers : Judge(s, j, ai)

Spec == Init /\ [][Next]_vars

-----------------------------------------------------------------------------
h1 == answer["human_1"]
h2 == answer["human_2"]
Decided == verdict # None

\* Which of the two was drawn first as human_1 and human_2 is an accident of
\* the queue: swapping the slots changes no verdict, on the agreement branches
\* (which read only the first judgement) as on the tiebreak.
SlotOrderIsIrrelevant ==
    Decided => EvaluateConsensus(rec, h2, h1, llm, team, taken) = verdict

\* Nothing is published or rejected without an admin unless both validators
\* and the AI stand behind it: the same checks, no doubt, no disputed original
\* on a published one, a team a rule trusts, and an identity nobody holds.
UnattendedIsUnanimous ==
    Decided /\ verdict.status \in {"validated", "rejected"} =>
        /\ ChecksAgree(h1, h2) /\ CorrectionsAgree(h1, h2)
        /\ LlmMatches(llm, h1) /\ LlmMatches(llm, h2)
        /\ ~IsUnsure(h1) /\ ~IsUnsure(h2)
        /\ ~h1.quote_not_in_abstract /\ ~h2.quote_not_in_abstract
        /\ verdict.status = "validated" =>
               /\ h1.original_check = "correct"
               /\ verdict.rule # None
               /\ team.trusted >= 1 \/ team.experienced >= 2
               /\ Identity(verdict.final) \notin taken
        /\ verdict.status = "rejected" =>
               EffectiveType(h1) = "not_validation"

\* An original nobody disputes is the extracted one, DOI and title.  One that is
\* disputed is put together from what a single validator supplied and the rest of
\* the extracted one, which may be two halves of different works: it waits for an
\* admin, however much the validators and the AI agree, and a judgement that
\* disowns the original and supplies nothing never wins.
FinalOriginalIsVouched ==
    Decided /\ verdict.final # None =>
        \E h \in {h1, h2} :
            \/ /\ h.original_check = "correct"
               /\ Identity(verdict.final) = Identity(rec)
            \/ /\ h.original_check = "incorrect"
               /\ <<h.corrected_doi_o, h.corrected_title_o>> # <<None, None>>
               /\ Identity(verdict.final) = <<First(h.corrected_doi_o, rec.doi_o),
                                              First(h.corrected_title_o, rec.title_o)>>
               /\ verdict.status = "consensus_reached" /\ verdict.rule = None

\* The published shape fits the published type: a replication carries one
\* storable outcome and no axes, a reproduction both axes and no outcome of
\* its own, also after a validator changed the type of the record.
FinalFitsItsType ==
    Decided /\ verdict.final # None =>
        IF verdict.final.type = "reproduction"
        THEN /\ verdict.final.computation \in Computations
             /\ verdict.final.robustness \in Robustnesses
             /\ verdict.final.outcome = None
        ELSE /\ verdict.final.type = "replication"
             /\ verdict.final.outcome \in Outcomes
             /\ verdict.final.computation = None
             /\ verdict.final.robustness = None

\* A correction made against the outcome the page showed stays a correction,
\* although the import has since given the record that very outcome.  (Of
\* "cannot be determined" it is lost when the import made the record a
\* reproduction: the server takes it for the empty outcome of one.)
StaleCorrectionIsKept ==
    \A s \in Slots :
        (/\ answer[s] # None
         /\ said[s].type = "replication" /\ page[s].type = "replication"
         /\ ~NoReplacement(said[s])
         /\ said[s].outcome = "incorrect"
         /\ said[s].value \notin {page[s].outcome, Undetermined})
        => /\ answer[s].outcome_check = "incorrect"
           /\ answer[s].corrected_outcome = said[s].value

\* "Final values use the winning human's corrections and raw extraction as
\* fallback": of a tiebreak, never a value only the losing validator gave.
TiebreakKeepsTheWinnersOutcome ==
    Decided /\ verdict.tie /\ verdict.final # None =>
        \A w \in {h1, h2} :
            (LlmMatches(llm, w) /\ verdict.final.type = "replication"
                /\ rec.type = "replication" /\ w.outcome_check = "correct")
            => verdict.final.outcome = First(w.corrected_outcome, rec.outcome)
=============================================================================
