-------------------------- MODULE MCConsensusRound --------------------------
(***************************************************************************)
(* A bounded instance of ConsensusRound: the answers a page can send, two  *)
(* extractions of one pair that differ in outcome and one that changed     *)
(* type, and AI answers that match each side, neither, or fail.            *)
(***************************************************************************)
EXTENDS ConsensusRound

MCDois          == {"extracted", "proposed"}
MCTitles        == {"title", "retitled"}
MCOutcomes      == {"successful", "failed", "cannot_be_determined"}
MCComputations  == {"reproducible", "cannot_be_determined"}
MCRobustnesses  == {"robust", "cannot_be_determined"}
MCOthers        == {"reworded"}

MCReplication(o) ==
    [type |-> "replication", outcome |-> o, computation |-> None,
     robustness |-> None, doi_o |-> "extracted", title_o |-> "title"]

MCReproduction ==
    [type |-> "reproduction", outcome |-> None, computation |-> "reproducible",
     robustness |-> "robust", doi_o |-> "extracted", title_o |-> "title"]

MCExtracted ==
    {MCReplication("successful"), MCReplication("failed"), MCReproduction}

\* One answer of the page with everything in order, for each type.
MCPlain(type) ==
    [type |-> type, original |-> "correct", doi_o |-> None,
     title_o |-> None, outcome |-> "correct", value |-> None, axes |-> <<None, None>>,
     other |-> None, quoteOff |-> FALSE]

MCReplicationAnswers ==
    {[MCPlain("replication") EXCEPT !.original = o[1], !.doi_o = o[2],
                                    !.title_o = o[3],
                                    !.outcome = a[1], !.value = a[2]] :
        o \in {<<"correct", None, None>>, <<"wrong", None, None>>,
               <<"wrong", "proposed", None>>, <<"wrong", None, "retitled">>},
        a \in {<<"correct", None>>, <<"incorrect", "failed">>,
               <<"incorrect", "successful">>}}

MCPageJudgements ==
    MCReplicationAnswers
    \cup {[MCPlain("replication") EXCEPT !.outcome = "unsure"],
          [MCPlain("replication") EXCEPT !.quoteOff = TRUE],
          [MCPlain("replication") EXCEPT !.other = "reworded"],
          MCPlain("not_validation"),
          MCPlain("reproduction"),
          [MCPlain("reproduction") EXCEPT !.outcome = "incorrect",
               !.axes = <<"reproducible", "cannot_be_determined">>]}

MCAi(t, o, c) == [error |-> FALSE, type_check |-> t, original_check |-> o,
                  outcome_check |-> c]

MCAiAnswers ==
    {MCAi(t, o, c) : t \in {"correct", "incorrect"}, o \in {"correct", "incorrect"},
                     c \in {"correct", "incorrect"}}
    \cup {MCAi("correct", "correct", "uncertain"),
          [MCAi("correct", "correct", "correct") EXCEPT !.error = TRUE]}

MCTeams == {[trusted |-> 0, experienced |-> 1], [trusted |-> 0, experienced |-> 2],
            [trusted |-> 1, experienced |-> 0]}

MCTaken == {{}, {<<"extracted", "title">>}}
=============================================================================
