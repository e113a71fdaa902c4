---------------------------- MODULE PreprintMerge ----------------------------
(***************************************************************************)
(* The duplicate steps of the dataset build: the admins' rulings on        *)
(* preprint pairs (2b), the exact keys (5), the pair merge (5b), the       *)
(* automatic rules (6b), and last the blanks that rows added by hand fill. *)
(* One type of record; "p" is the preprint of the report "j", "o1" the     *)
(* preprint of the original "o2".                                          *)
(*                                                                         *)
(* The same build runs beside it on the same rows without those added by   *)
(* hand, so that the two can be compared.                                  *)
(***************************************************************************)
EXTENDS Integers, FiniteSets, SequencesExt, Lists

CONSTANTS
    BuildInputs,  \* the inputs: rows in load()'s order and the rulings on the two pairs
    RowSources, RowDois, RowLinks, RowOutcomes   \* what their columns hold

Blank == "blank"
Mixable == {"successful", "failed", "mixed"}

\* A row of a build; `merged` are the ids of the rows that were folded into it.
BuildRow ==
    [id : Nat \ {0}, source : RowSources, doiO : RowDois, doiR : RowDois, url : RowLinks,
     outcome : RowOutcomes, quote : SUBSET Nat, distinct : BOOLEAN, registered : BOOLEAN,
     merged : SUBSET (Nat \ {0}), clash : BOOLEAN]

\* load() gives every row an id of its own: here, its number in load()'s order.
ASSUME BuildAssumption ==
    /\ {"website", "hand"} \subseteq RowSources /\ {"p", "j", "o1", "o2"} \subseteq RowDois
    /\ Blank \in RowLinks /\ Mixable \cup {Blank} \subseteq RowOutcomes
    /\ \A b \in BuildInputs :
          /\ b.rows \in Seq(BuildRow)
          /\ \A i \in DOMAIN b.rows : b.rows[i].id = i /\ b.rows[i].merged = {}

VARIABLES
    build,    \* the input of this build
    frame,    \* its rows, the fills noted for the end, and the ids a rule dropped
    plain,    \* the same of the build without the rows added by hand
    stage     \* the step the build has reached

buildVars == <<build, frame, plain, stage>>

ByHand(r) == r.source = "hand"
Judged(r) == r.outcome # Blank
LoadedRows(rows) == [rows |-> rows, fills |-> <<>>, retired |-> {}]

\* The ids one row stands for, and those of several.
Ids(r) == {r.id} \cup r.merged
AllIds(rows) == UNION {Ids(r) : r \in ToSet(rows)}

Having(rows, Test(_)) == \E r \in ToSet(rows) : Test(r)
FirstWith(rows, Test(_)) == rows[SelectInSeq(rows, Test)]
Those(rows, Test(_)) == Without(rows, {r \in ToSet(rows) : ~Test(r)})
Among(rows, ids) == Those(rows, LAMBDA r : r.id \in ids)
NotAmong(rows, ids) == Those(rows, LAMBDA r : r.id \notin ids)
FirstsOf(seq) == Those([i \in DOMAIN seq |-> i],
                       LAMBDA i : \A k \in 1..(i - 1) : seq[k] # seq[i])
DistinctInOrder(seq) == [n \in DOMAIN FirstsOf(seq) |-> seq[FirstsOf(seq)[n]]]
OutcomesOf(rows) == {r.outcome : r \in ToSet(rows)} \ {Blank}
UrlsOf(rows) == {r.url : r \in ToSet(rows)} \ {Blank}

-----------------------------------------------------------------------------
(***************************************************************************)
(* Which rows of a group only fill blanks (_yields), and what is filled.   *)
(***************************************************************************)

YieldingIds(rows) ==
    LET hand == {r \in ToSet(rows) : ByHand(r)}
        senior == {r \in hand : r.registered}
        rivals == {r \in ToSet(rows) \ hand : r.registered}
        yields == IF senior # {} /\ rivals = {} THEN ToSet(rows) \ senior ELSE hand
    IN  {r.id : r \in yields}

\* fill_blanks: a judgement comes whole with its quote; a judgement without a
\* quote takes that of a row with the same judgement.
FillBlanks(row, givers) ==
    LET rows == <<row>> \o givers
        taken == IF ~Having(rows, Judged) THEN row
                 ELSE LET donor == FirstWith(rows, Judged)
                      IN  [row EXCEPT !.outcome = donor.outcome, !.quote = donor.quote]
        Evidence(r) == r.outcome = taken.outcome /\ r.quote # {}
    IN  IF Judged(taken) /\ taken.quote = {} /\ Having(rows, Evidence)
        THEN [taken EXCEPT !.quote = FirstWith(rows, Evidence).quote]
        ELSE taken

\* Mutant of FillBlanksByHand: a judgement always comes with its own quote.
MutFillBlanksByHand(row, givers) == FillBlanks(row, givers)

\* fill_blanks_by_hand: nothing the row has gives way.
FillBlanksByHand(row, givers) ==
    LET filled == FillBlanks(row, givers)
    IN  IF row.quote # {} /\ filled.quote # row.quote THEN row ELSE filled

\* website_overrides: the website record's judgement and source, and its quote
\* when the group's judgements disagree.
Override(row, rows) ==
    LET Website(r) == r.source = "website"
        Speaks(r) == Website(r) /\ Judged(r)
        best == IF Having(rows, Speaks) THEN FirstWith(rows, Speaks) ELSE FirstWith(rows, Website)
        credited == [row EXCEPT !.source = "website"]
    IN  IF ~Having(rows, Website) THEN row
        ELSE IF ~Judged(best) THEN credited
        ELSE [credited EXCEPT !.outcome = best.outcome,
                              !.quote = IF Cardinality(OutcomesOf(rows)) > 1 /\ best.quote # {}
                                        THEN best.quote ELSE @]

WebsiteJudged(rows) == Having(rows, LAMBDA r : r.source = "website" /\ Judged(r))

\* What one row's absorption by another notes for the end (hand_fills).
Noted(into, rows, withLink) ==
    [i \in DOMAIN rows |-> [into |-> into, row |-> rows[i], link |-> withLink]]

-----------------------------------------------------------------------------
(***************************************************************************)
(* Step 5: the first row of a key stays, the others that no reviewer ruled *)
(* distinct are dropped into it.                                           *)
(***************************************************************************)

MergeKey(r) == <<r.doiO, r.doiR, r.url>>
SameMergeKey(rows, r) == Those(rows, LAMBDA q : MergeKey(q) = MergeKey(r))

\* Mutant of Handed: the identifiers folded in before are lost.
MutHanded(r) == {r.id}

\* What a dropped row hands over: its own id, and those folded into it before.
Handed(r) == Ids(r)

Collapsed(kept, dropped, yields) ==
    LET hand == IF kept.id \in yields THEN <<>> ELSE Among(dropped, yields)
        givers == NotAmong(dropped, {r.id : r \in ToSet(hand)})
        rows == <<kept>> \o givers
        judged == IF NotAmong(rows, yields) # <<>> THEN NotAmong(rows, yields) ELSE rows
        clashes == Cardinality(OutcomesOf(judged)) > 1
        before == Having(judged, LAMBDA r : r.clash)
        row == Override(FillBlanks(kept, givers), judged)
    IN  [rows |-> <<[row EXCEPT
                    !.clash = IF clashes \/ (before /\ ~WebsiteJudged(judged))
                              THEN ~WebsiteJudged(judged) ELSE @,
                    !.registered = \E r \in ToSet(<<kept>> \o dropped) : r.registered,
                    !.merged = @ \cup UNION {Handed(r) : r \in ToSet(dropped)}]>>,
         fills |-> Noted(kept.id, hand, FALSE)]

\* The rows, those that yield last, each of a key folded into the first of it.
CollapsedInto(f, rows, yields) ==
    LET IsFirst(i) == \A k \in 1..(i - 1) : MergeKey(rows[k]) # MergeKey(rows[i])
        drops == {rows[i].id : i \in {i \in DOMAIN rows : ~IsFirst(i) /\ ~rows[i].distinct}}
        Becomes(i) ==
            IF rows[i].id \in drops THEN [rows |-> <<>>, fills |-> <<>>]
            ELSE IF ~IsFirst(i) THEN [rows |-> <<rows[i]>>, fills |-> <<>>]
            ELSE Collapsed(rows[i], Among(SameMergeKey(rows, rows[i]), drops), yields)
    IN  [f EXCEPT !.rows = FlattenSeq([i \in DOMAIN rows |-> Becomes(i).rows]),
                  !.fills = @ \o FlattenSeq([i \in DOMAIN rows |-> Becomes(i).fills])]

CollapseKeys(f) ==
    LET yields == UNION {YieldingIds(SameMergeKey(f.rows, r)) : r \in ToSet(f.rows)}
    IN  CollapsedInto(f, NotAmong(f.rows, yields) \o Among(f.rows, yields), yields)

-----------------------------------------------------------------------------
(***************************************************************************)
(* merge_doi_pair_dups: the rows of a pair of papers with at most one link *)
(* between them are combined.                                              *)
(***************************************************************************)

PickOutcome(rows) ==
    LET outcomes == OutcomesOf(rows)
    IN  IF outcomes = {} THEN Blank
        ELSE IF Cardinality(outcomes) > 1 /\ outcomes \subseteq Mixable THEN "mixed"
        ELSE FirstWith(rows, Judged).outcome

MergeGroup(rows) ==
    LET clashes == Cardinality(OutcomesOf(rows)) > 1
        settled == WebsiteJudged(rows) \/ OutcomesOf(rows) \subseteq Mixable
        row == [Head(rows) EXCEPT
                  !.url = IF UrlsOf(rows) = {} THEN Blank
                          ELSE FirstWith(rows, LAMBDA r : r.url # Blank).url,
                  !.outcome = PickOutcome(rows),
                  !.quote = UNION {r.quote : r \in ToSet(rows)},
                  !.registered = \E r \in ToSet(rows) : r.registered,
                  !.merged = AllIds(rows) \ {Head(rows).id},
                  !.clash = IF clashes THEN ~settled ELSE \E r \in ToSet(rows) : r.clash]
    IN  Override(row, rows)

Absorb(row, rows) == [row EXCEPT !.merged = @ \cup AllIds(rows)]

\* Which rows that yield join the group's record: those with no other link than its own.
Joining(hand, links) ==
    LET HasLink(r) == r.url # Blank
        link == IF links # {} THEN CHOOSE u \in links : TRUE
                ELSE IF Having(hand, HasLink) THEN FirstWith(hand, HasLink).url ELSE Blank
    IN  Those(hand, LAMBDA r : r.url \in {Blank, link})

\* What becomes of one group: rows kept as they are, a row made, the fills it notes.
GroupMerged(rows, yields) ==
    LET mixed == yields # {} /\ yields # {r.id : r \in ToSet(rows)}
        others == IF mixed THEN NotAmong(rows, yields) ELSE rows
        joined == IF mixed THEN Joining(Among(rows, yields), UrlsOf(others)) ELSE <<>>
        apart == NotAmong(Among(rows, yields), {r.id : r \in ToSet(joined)})
        Into(row) == IF joined = <<>> THEN row ELSE Absorb(row, joined)
    IN  IF (Len(others) <= 1 /\ ~mixed) \/ Cardinality(UrlsOf(others)) > 1
        THEN [kept |-> rows, made |-> <<>>, fills |-> <<>>]
        ELSE IF mixed /\ Len(others) = 1
        THEN [kept |-> apart \o <<Into(Head(others))>>, made |-> <<>>,
              fills |-> Noted(Head(others).id, joined, TRUE)]
        ELSE [kept |-> IF mixed THEN apart ELSE <<>>,
              made |-> <<Into(MergeGroup(others))>>,
              fills |-> Noted(Head(others).id, joined, TRUE)]

\* What becomes of the groups, in the order their pairs are first met.
PairGroups(pairs) ==
    LET PairOf(r) == <<r.doiO, r.doiR>>
        keys == DistinctInOrder([i \in DOMAIN pairs |-> PairOf(pairs[i])])
        Group(k) == Those(pairs, LAMBDA r : PairOf(r) = k)
    IN  [i \in DOMAIN keys |-> GroupMerged(Group(keys[i]), YieldingIds(Group(keys[i])))]

Regrouped(f, groups) ==
    LET kept == FlattenSeq([i \in DOMAIN groups |-> groups[i].kept])
        made == FlattenSeq([i \in DOMAIN groups |-> groups[i].made])
        untouched == Those(f.rows, LAMBDA r : r.distinct)
        standing == Those(f.rows, LAMBDA r : r.distinct \/ Having(kept, LAMBDA q : q.id = r.id))
        AsKept(r) == IF r.distinct THEN r ELSE FirstWith(kept, LAMBDA q : q.id = r.id)
    IN  [f EXCEPT !.rows = IF made = <<>> THEN [i \in DOMAIN standing |-> AsKept(standing[i])]
                           ELSE kept \o made \o untouched,
                  !.fills = @ \o FlattenSeq([i \in DOMAIN groups |-> groups[i].fills])]

MergePairs(f) == Regrouped(f, PairGroups(Those(f.rows, LAMBDA r : ~r.distinct)))

-----------------------------------------------------------------------------
(***************************************************************************)
(* The preprint rules: a report's losing DOI is dropped where the other    *)
(* has a row under the same original; an original's is rewritten.          *)
(***************************************************************************)

\* Where the kept DOI is only on rows that yield and the other on one that does
\* not, the rule is turned round.  A FLoRA record added by hand that does not
\* yield is never dropped.
DroppedUnder(both, yields, remove, keep) ==
    LET keeping == Those(both, LAMBDA r : r.doiR = keep)
        losing == Those(both, LAMBDA r : r.doiR = remove)
        turned == NotAmong(keeping, yields) = <<>> /\ NotAmong(losing, yields) # <<>>
        Stays(r) == ByHand(r) /\ r.id \notin yields
    IN  IF keeping = <<>> THEN [drop |-> {}, into |-> <<>>, absorbed |-> <<>>]
        ELSE IF turned
        THEN [drop |-> {r.id : r \in ToSet(keeping)},
              into |-> <<Head(NotAmong(losing, yields))>>, absorbed |-> keeping]
        ELSE [drop |-> {r.id : r \in {r \in ToSet(losing) : ~Stays(r)}},
              into |-> IF NotAmong(keeping, yields) # <<>> /\ Among(losing, yields) # <<>>
                       THEN <<Head(NotAmong(keeping, yields))>> ELSE <<>>,
              absorbed |-> Among(losing, yields)]

\* The decisions, original by original, on the rows with either DOI.
Drops(rows, remove, keep) ==
    LET originals == DistinctInOrder([i \in DOMAIN rows |-> rows[i].doiO])
        Both(o) == Those(rows, LAMBDA r : r.doiO = o /\ r.doiR \in {remove, keep})
        Decided(both) == DroppedUnder(both, YieldingIds(both), remove, keep)
    IN  [i \in DOMAIN originals |-> Decided(Both(originals[i]))]

WithDrops(f, per) ==
    LET absorbing == Those(per, LAMBDA d : d.into # <<>>)
        drop == UNION {d.drop : d \in ToSet(per)}
        GainOf(r) == UNION {AllIds(d.absorbed) :
                               d \in {d \in ToSet(absorbing) : Head(d.into).id = r.id}}
        Grown(r) == [r EXCEPT !.merged = @ \cup GainOf(r)]
        rows == NotAmong(f.rows, drop)
        taken == UNION {AllIds(d.absorbed) : d \in ToSet(absorbing)}
    IN  [rows |-> [i \in DOMAIN rows |-> Grown(rows[i])],
         fills |-> f.fills \o FlattenSeq([i \in DOMAIN absorbing |->
                     Noted(Head(absorbing[i].into).id, absorbing[i].absorbed, FALSE)]),
         retired |-> f.retired \cup (AllIds(Among(f.rows, drop)) \ taken)]

DropReplication(f, remove, keep) == WithDrops(f, Drops(f.rows, remove, keep))

ReplaceOriginal(f, remove, keep) ==
    [f EXCEPT !.rows = [i \in DOMAIN @ |-> IF @[i].doiO = remove
                                           THEN [@[i] EXCEPT !.doiO = keep] ELSE @[i]]]

Other(doi) == CASE doi = "p" -> "j" [] doi = "j" -> "p" [] doi = "o1" -> "o2" [] doi = "o2" -> "o1"

\* apply_confirmed: the rulings that keep one DOI of a pair.
Confirmed(f) ==
    LET rep == build.reports
        orig == build.originals
        reported == IF rep \in {"p", "j"} THEN DropReplication(f, Other(rep), rep) ELSE f
    IN  IF orig \in {"o1", "o2"}
        THEN MergePairs(ReplaceOriginal(reported, Other(orig), orig)) ELSE reported

\* _against_another_source: the DOI to keep is only on rows that yield.
AgainstAnother(rows, Keeping(_), Replacing(_)) ==
    LET yields == YieldingIds(Those(rows, LAMBDA r : Keeping(r) \/ Replacing(r)))
        holders == {r.id : r \in {r \in ToSet(rows) : Keeping(r)}}
        replaced == {r.id : r \in {r \in ToSet(rows) : Replacing(r)}}
    IN  /\ Having(rows, ByHand)
        /\ holders # {} /\ holders \subseteq yields
        /\ ~(replaced \subseteq yields)

\* The originals with both reports, in the frame's order: the first finding of
\* the pair is the one candidate there is for it.
PairedUnder(rows) ==
    LET HasBoth(o) == \A doi \in {"p", "j"} : \E r \in ToSet(rows) : r.doiO = o /\ r.doiR = doi
    IN  Those(DistinctInOrder([i \in DOMAIN rows |-> rows[i].doiO]), HasBoth)

\* What is kept of a pair: the ruling's DOI, else the published one unless that
\* would be decided by rows that yield.  Blank: both are kept.
KeptReport(rows) ==
    LET o == Head(PairedUnder(rows))
        Later(r) == r.doiO = o /\ r.doiR = "j"
        Earlier(r) == r.doiO = o /\ r.doiR = "p"
    IN  IF build.reports = "both" \/ PairedUnder(rows) = <<>> THEN Blank
        ELSE IF build.reports \in {"p", "j"} THEN build.reports
        ELSE IF AgainstAnother(rows, Later, Earlier) THEN "p"
        ELSE "j"

KeptOriginal(rows) ==
    LET Later(r) == r.doiO = "o2"
        Earlier(r) == r.doiO = "o1"
    IN  IF \/ build.originals = "both"
           \/ ~Having(rows, Later) \/ ~Having(rows, Earlier) THEN Blank
        ELSE IF build.originals \in {"o1", "o2"} THEN build.originals
        ELSE IF AgainstAnother(rows, Later, Earlier) THEN "o1"
        ELSE "o2"

\* resolve: every decision is taken on the rows as they were found.
Resolved(f) ==
    LET rep == KeptReport(f.rows)
        orig == KeptOriginal(f.rows)
        reported == IF rep = Blank THEN f ELSE DropReplication(f, Other(rep), rep)
    IN  IF orig = Blank THEN reported ELSE MergePairs(ReplaceOriginal(reported, Other(orig), orig))

-----------------------------------------------------------------------------
(***************************************************************************)
(* apply_hand_fills: once every duplicate step is done, the rows noted for *)
(* a record fill its blanks together, those of its own kind first.         *)
(***************************************************************************)

FilledByHand(r, fills) ==
    LET entries == Those(fills, LAMBDA n : n.into \in Ids(r))
        OwnKind(n) == ByHand(n.row) = ByHand(r)
        Earlier(m, n) == IF OwnKind(m) = OwnKind(n) THEN m.row.id < n.row.id ELSE OwnKind(m)
        Sooner(k, i) == \/ Earlier(entries[k], entries[i])
                        \/ k < i /\ ~Earlier(entries[i], entries[k])
        Ahead(i) == {k \in DOMAIN entries : Sooner(k, i)}
        ordered == [n \in DOMAIN entries |->
                      entries[CHOOSE i \in DOMAIN entries : Cardinality(Ahead(i)) = n - 1]]
        filled == FillBlanksByHand(r, [i \in DOMAIN ordered |-> ordered[i].row])
        links == Those(ordered, LAMBDA n : n.link /\ n.row.url # Blank)
    IN  IF entries = <<>> THEN r
        ELSE [filled EXCEPT !.url = IF @ = Blank /\ links # <<>> THEN Head(links).row.url ELSE @]

ApplyFills(f) ==
    [f EXCEPT !.rows = [i \in DOMAIN @ |-> FilledByHand(@[i], f.fills)], !.fills = <<>>]

-----------------------------------------------------------------------------

BuildInit ==
    /\ build \in BuildInputs
    /\ frame = LoadedRows(build.rows)
    /\ plain = LoadedRows(Those(build.rows, LAMBDA r : ~ByHand(r)))
    /\ stage = "loaded"

Advance(from, to, Step(_)) ==
    /\ stage = from
    /\ frame' = Step(frame) /\ plain' = Step(plain)
    /\ stage' = to
    /\ UNCHANGED build

ApplyRulings == Advance("loaded", "ruled", Confirmed)
DropDuplicates == Advance("ruled", "collapsed", CollapseKeys)
MergeDuplicates == Advance("collapsed", "merged", MergePairs)
ResolvePreprints == Advance("merged", "resolved", Resolved)
FillFromHand == Advance("resolved", "done", ApplyFills)

BuildNext ==
    \/ ApplyRulings
    \/ DropDuplicates
    \/ MergeDuplicates
    \/ ResolvePreprints
    \/ FillFromHand

BuildSpec == BuildInit /\ [][BuildNext]_buildVars

-----------------------------------------------------------------------------

\* Every stage's rows have ids of their own, and values of the input's kinds.
BuildTypeOK ==
    /\ stage \in {"loaded", "ruled", "collapsed", "merged", "resolved", "done"}
    /\ \A f \in {frame, plain} :
          /\ \A i, k \in DOMAIN f.rows : f.rows[i].id = f.rows[k].id => i = k
          /\ \A r \in ToSet(f.rows) : Ids(r) \subseteq 1..Len(build.rows) /\ r.id \notin r.merged

\* No id is lost on the way, and none has two places: every row load() gave is
\* in one row of the frame, as itself or absorbed into it, or a preprint rule
\* dropped it.  flora_registry keeps a published id by these.
EveryIdHasItsPlace ==
    /\ \A i \in {r.id : r \in ToSet(build.rows)} :
          \/ i \in frame.retired
          \/ \E r \in ToSet(frame.rows) : i \in Ids(r)
    /\ \A r, q \in ToSet(frame.rows) : r # q => Ids(r) \cap Ids(q) = {}
    /\ AllIds(frame.rows) \cap frame.retired = {}

NewByHand == \A r \in ToSet(build.rows) : ByHand(r) => ~r.registered

\* A row added by hand "never changes a record another source holds"
\* (merge_doi_pair_dups): every record of the build without such rows is in the
\* build with them, under its identifiers, with every value it had.  Where the automatic
\* rule decides, HandRowsRemoveNothing fails with rows of both originals, and this
\* with it.
HandRowsOnlyFillBlanks ==
    (stage = "done" /\ NewByHand) =>
        \A r \in ToSet(plain.rows) : \E q \in ToSet(frame.rows) :
            /\ q.id = r.id /\ q.doiO = r.doiO /\ q.doiR = r.doiR /\ q.clash = r.clash
            /\ r.url # Blank => q.url = r.url
            /\ Judged(r) => q.outcome = r.outcome
            /\ r.quote # {} => q.quote = r.quote
            /\ r.merged \subseteq q.merged

\* "A row added by hand never removes another source's row" (_drop_replication).
HandRowsRemoveNothing ==
    (stage = "done" /\ NewByHand) =>
        {r.id : r \in ToSet(plain.rows)} \subseteq {r.id : r \in ToSet(frame.rows)}
=============================================================================
