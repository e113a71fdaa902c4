----------------------------- MODULE MCPreprint -----------------------------
(***************************************************************************)
(* The builds TLC puts through PreprintMerge.                              *)
(***************************************************************************)
EXTENDS PreprintMerge

\* Three rows, of which the third was added by hand, with either original and either
\* report, blanks, links and ids of their own; and what was ruled about the two pairs.
MCRow(i, from, o, r, v) ==
    [id |-> i, source |-> from, doiO |-> o, doiR |-> r, url |-> v.url, outcome |-> v.outcome,
     quote |-> v.quote, distinct |-> v.distinct, registered |-> v.registered,
     merged |-> {}, clash |-> FALSE]
MCValues(url, outcome, quote) == [url |-> url, outcome |-> outcome, quote |-> quote,
                                  distinct |-> FALSE, registered |-> FALSE]
MCFirst ==
    {MCRow(1, "sheet", o, r, v) : o \in {"o1", "o2"}, r \in {"p", "j"}, v \in
        {[MCValues("u", "failed", {1}) EXCEPT !.registered = TRUE],
         [MCValues(Blank, "failed", {}) EXCEPT !.registered = TRUE],
         [MCValues(Blank, Blank, {}) EXCEPT !.registered = TRUE, !.distinct = TRUE]}}
MCSecond ==
    UNION {{MCRow(2, "sheet", o, r, MCValues(Blank, "flawed", {2})),
            MCRow(2, "website", o, r, MCValues(Blank, "successful", {})),
            MCRow(2, "sheet", o, r, MCValues(Blank, Blank, {2}))} :
                o \in {"o1", "o2"}, r \in {"p", "j"}}
MCThird ==
    {MCRow(3, "hand", o, r, v) : o \in {"o1", "o2"}, r \in {"p", "j"}, v \in
        {MCValues(Blank, "successful", {3}), MCValues("v", "successful", {3}),
         [MCValues(Blank, Blank, {3}) EXCEPT !.registered = TRUE]}}
MCRulings == {<<"none", "none">>, <<"p", "both">>, <<"none", "o1">>, <<"j", "o2">>}
MCBuilds ==
    {[rows |-> <<a, b, c>>, reports |-> x[1], originals |-> x[2]] :
        a \in MCFirst, b \in MCSecond, c \in MCThird, x \in MCRulings}

\* Two rows of the sheet, its preprint and its article, and a row added by hand, of
\* either original; the pair of reports has been found and not ruled on.
MCPlain(i, from, o, r) == MCRow(i, from, o, r, MCValues(Blank, "failed", {i}))
MCTwoOriginals ==
    {[rows |-> <<MCPlain(1, "sheet", a, "p"), MCPlain(2, "sheet", b, "p"),
                 MCPlain(3, "sheet", c, "j"), MCPlain(4, "hand", d, r)>>,
      reports |-> "none", originals |-> "both"] :
        a \in {"o1", "o2"}, b \in {"o1", "o2"}, c \in {"o1", "o2"}, d \in {"o1", "o2"},
        r \in {"p", "j"}}
=============================================================================
