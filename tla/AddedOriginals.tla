--------------------------- MODULE AddedOriginals ---------------------------
(***************************************************************************)
(* Other originals of a replication (extra_originals.py): a record of its  *)
(* own for each, the child of the entry the extractor coded.  A child      *)
(* takes the replication's values from its entry, and its type and outcome *)
(* unless it was given its own; it has no judgements and is published as   *)
(* soon as it is added.  Everything that publishes, rejects or merges an   *)
(* entry brings its children along.                                        *)
(*                                                                         *)
(* A transaction is one step, except the merge of a duplicate: it never    *)
(* locks the survivor, whose published row it reads before it commits.     *)
(* Study numbers, titles and texts are left out: an identity is a          *)
(* replication and an original.                                            *)
(***************************************************************************)
EXTENDS FiniteSets, Naturals

CONSTANTS
    XEntries, XChildren,         \* the extractor's records; the records to add
    Reps, CodedRep,              \* replication papers; the one both records were coded for
    Originals, DoiLess,          \* originals; those without a DOI
    ReplicationOuts, ReproductionOuts,   \* outcomes, by the type they belong to
    Suggestions, Suggested,      \* suggestions, and the original all of them name
    NoRow, NoRecord,
    MaxRekeys                    \* bound on the imports that change an original

AddedAssumption ==
    /\ XEntries \cap XChildren = {}
    /\ CodedRep \in Reps /\ DoiLess \subseteq Originals /\ Suggested \in Originals
    /\ ReplicationOuts \cap ReproductionOuts = {}
    /\ NoRecord \notin XEntries \cup XChildren
    /\ NoRow \notin [rep : Reps, orig : Originals, out : ReplicationOuts \cup ReproductionOuts]
    /\ MaxRekeys \in Nat

ASSUME AddedAssumption

VARIABLES
    xrec,        \* unvalidated: status, admin_checked and the original coded
    xrow,        \* validated, by record
    parent,      \* a child's entry
    inherits,    \* the children that follow their entry's outcome
    survivorOf,  \* validated_record_merges
    suggestion,  \* extra_original_suggestions
    merge,       \* the merge under way
    misled,      \* children moved by a merge whose survivor changed under it
    rekeys       \* what MaxRekeys bounds

addedVars == <<xrec, xrow, parent, inherits, survivorOf, suggestion, merge, misled, rekeys>>

XRecords == XEntries \cup XChildren
Outs == ReplicationOuts \cup ReproductionOuts
TypeOf(out) == IF out \in ReplicationOuts THEN "replication" ELSE "reproduction"
Rows == [rep : Reps, orig : Originals, out : Outs]
Identity(row) == <<row.rep, row.orig>>

\* A suggestion not made yet, or dismissed.
NotMade == [status |-> "gone", on |-> NoRecord, as |-> NoRecord]
NoMerge == [dup |-> NoRecord, into |-> NoRecord, row |-> NoRow, kids |-> {}]

AddedTypeOK ==
    /\ xrec \in [XRecords -> [status : {"unused", "review", "validated", "rejected"},
                              checked : BOOLEAN, orig : Originals]]
    /\ xrow \in [XRecords -> Rows \cup {NoRow}]
    /\ parent \in [XChildren -> XEntries \cup {NoRecord}]
    /\ inherits \subseteq XChildren
    /\ survivorOf \in [XEntries -> XEntries \cup {NoRecord}]
    /\ suggestion \in [Suggestions -> [status : {"gone", "open", "accepted"},
                                       on : XEntries \cup {NoRecord},
                                       as : XChildren \cup {NoRecord}]]
    /\ merge.dup \in XEntries \cup {NoRecord} /\ merge.into \in XEntries \cup {NoRecord}
    /\ merge.kids \subseteq XChildren
    /\ misled \subseteq XChildren
    /\ rekeys \in 0 .. MaxRekeys

AddedInit ==
    /\ \E orig \in [XEntries -> Originals] :
           xrec = [r \in XRecords |->
               IF r \in XEntries THEN [status |-> "review", checked |-> FALSE, orig |-> orig[r]]
               ELSE [status |-> "unused", checked |-> TRUE, orig |-> Suggested]]
    /\ xrow = [r \in XRecords |-> NoRow]
    /\ parent = [c \in XChildren |-> NoRecord]
    /\ inherits = {}
    /\ survivorOf = [e \in XEntries |-> NoRecord]
    /\ suggestion = [s \in Suggestions |-> NotMade]
    /\ merge = NoMerge /\ misled = {} /\ rekeys = 0

----------------------------------------------------------------------------
Status(r) == xrec[r].status
Live(c) == Status(c) = "validated"
LiveKids(e) == {c \in XChildren : parent[c] = e /\ Live(c)}

\* The rows that hold this identity.
Holders(rows, identity, except) ==
    {r \in XRecords \ except : rows[r] # NoRow /\ Identity(rows[r]) = identity}

\* Row locks: the merge holds the duplicate and the children it moved or synced.
RowsUnlocked(e) == merge # NoMerge => e # merge.dup /\ LiveKids(e) \cap merge.kids = {}
ChildUnlocked(c) == c \notin merge.kids

\* An extractor record not merged away.
Own(e) == e \in XEntries /\ survivorOf[e] = NoRecord /\ RowsUnlocked(e)

----------------------------------------------------------------------------
\* Mutant of Wanted: the type of the entry is not inherited.
MutWanted(c, row) ==
    [rep |-> row.rep, orig |-> xrow[c].orig,
     out |-> IF c \in inherits THEN row.out ELSE xrow[c].out]

\* sync_children: what a child publishes under this row of its entry.
Wanted(c, row) ==
    [rep |-> row.rep, orig |-> xrow[c].orig,
     out |-> IF c \in inherits \/ TypeOf(xrow[c].out) # TypeOf(row.out) THEN row.out
             ELSE xrow[c].out]

\* Those whose identity would move onto a published row.
Blocked(kids, rows, row) ==
    {c \in kids : xrow[c].rep # row.rep /\ Holders(rows, Identity(Wanted(c, row)), {c}) # {}}

Synced(kids, rows, row) ==
    LET following == kids \ Blocked(kids, rows, row)
    IN  [r \in XRecords |-> IF r \in following THEN Wanted(r, row) ELSE rows[r]]

\* An own outcome of the wrong type gives way, and the child follows from now on.
Converted(kids, rows, row) ==
    {c \in kids \ Blocked(kids, rows, row) : TypeOf(xrow[c].out) # TypeOf(row.out)}

\* reject_children: they leave FLoRA with their entry.
Dropped(rows, e) ==
    LET gone == {e} \cup LiveKids(e) IN [r \in XRecords |-> IF r \in gone THEN NoRow ELSE rows[r]]

\* Mutant of Rejected: the added originals stay.
MutRejected(recs, e, checked) ==
    [recs EXCEPT ![e] = [recs[e] EXCEPT !.status = "rejected", !.checked = checked]]

Rejected(recs, e, checked) ==
    LET kids == LiveKids(e)
    IN  [r \in XRecords |->
            IF r = e THEN [recs[e] EXCEPT !.status = "rejected", !.checked = checked]
            ELSE IF r \in kids THEN [recs[r] EXCEPT !.status = "rejected"] ELSE recs[r]]

\* Entry e publishes a row; strict refuses where a child cannot follow.
Publishes(e, row, checked, strict) ==
    LET rows == [xrow EXCEPT ![e] = row]
        kids == LiveKids(e) IN
    /\ Holders(xrow, Identity(row), {e}) = {}
    /\ strict => Blocked(kids, rows, row) = {}
    /\ xrow' = Synced(kids, rows, row)
    /\ inherits' = inherits \cup Converted(kids, rows, row)
    /\ xrec' = [xrec EXCEPT ![e].status = "validated", ![e].checked = checked,
                            ![e].orig = row.orig]

RejectsEntry(e, checked) ==
    /\ xrec' = Rejected(xrec, e, checked)
    /\ xrow' = Dropped(xrow, e)
    /\ UNCHANGED <<parent, inherits, survivorOf, suggestion, merge, misled, rekeys>>

----------------------------------------------------------------------------
\* Consensus, or the nightly retry, on an entry in review; only one an admin has
\* reviewed before can have children.  The engine never corrects the replication's DOI.
ConsensusPublishes(e) ==
    /\ Own(e) /\ Status(e) = "review"
    /\ \E o \in Originals, out \in Outs :
           Publishes(e, [rep |-> CodedRep, orig |-> o, out |-> out], xrec[e].checked, FALSE)
    /\ UNCHANGED <<parent, survivorOf, suggestion, merge, misled, rekeys>>

\* Consensus, a senior, or the validator of an assignment.
ConsensusRejects(e) ==
    /\ Own(e) /\ Status(e) = "review"
    /\ RejectsEntry(e, xrec[e].checked)

ApproveParent(e) ==
    /\ Own(e) /\ Status(e) = "review"
    /\ \E out \in Outs :
           Publishes(e, [rep |-> CodedRep, orig |-> xrec[e].orig, out |-> out], TRUE, TRUE)
    /\ UNCHANGED <<parent, survivorOf, suggestion, merge, misled, rekeys>>

\* Mark as Resolved as neither a replication nor a reproduction.
ResolveRejects(e) ==
    /\ Own(e)
    /\ RejectsEntry(e, TRUE)

RemoveOriginal(e) ==
    /\ Own(e) /\ Status(e) = "review"
    /\ LiveKids(e) = {}
    /\ RejectsEntry(e, TRUE)

\* Sent back: validated by a rule, never reviewed by an admin.
FlagReview(e) ==
    /\ Own(e) /\ Status(e) = "validated" /\ ~ xrec[e].checked
    /\ xrec' = [xrec EXCEPT ![e].status = "review"]
    /\ xrow' = [xrow EXCEPT ![e] = NoRow]
    /\ UNCHANGED <<parent, inherits, survivorOf, suggestion, merge, misled, rekeys>>

\* The import changes the original of a judged record: back to review, and its published
\* row stays until an admin or the engine decides.
Rekey(e) ==
    /\ Own(e) /\ Status(e) \in {"review", "validated"}
    /\ \E o \in Originals \ {xrec[e].orig} :
           xrec' = [xrec EXCEPT ![e].status = "review", ![e].orig = o]
    /\ rekeys < MaxRekeys /\ rekeys' = rekeys + 1
    /\ UNCHANGED <<xrow, parent, inherits, survivorOf, suggestion, merge, misled>>

\* A judgement's suggestion; none with "neither a replication nor a reproduction".
Suggest(e, s) ==
    /\ Own(e) /\ Status(e) = "review"
    /\ suggestion[s] = NotMade
    /\ suggestion' = [suggestion EXCEPT ![s] = [status |-> "open", on |-> e, as |-> NoRecord]]
    /\ UNCHANGED <<xrec, xrow, parent, inherits, survivorOf, merge, misled, rekeys>>

\* With it, every open one of this record that names the same paper.
DismissSuggestion(e) ==
    /\ RowsUnlocked(e)
    /\ \E s \in Suggestions : suggestion[s].status = "open" /\ suggestion[s].on = e
    /\ suggestion' = [s \in Suggestions |->
           IF suggestion[s].status = "open" /\ suggestion[s].on = e
           THEN NotMade ELSE suggestion[s]]
    /\ UNCHANGED <<xrec, xrow, parent, inherits, survivorOf, merge, misled, rekeys>>

----------------------------------------------------------------------------
\* The live records of e's replication besides e (_family), by the raw DOI.
RepOf(r) == IF r \in XChildren /\ xrow[r] # NoRow THEN xrow[r].rep ELSE CodedRep
OrigOf(r) == IF r \in XChildren /\ xrow[r] # NoRow THEN xrow[r].orig ELSE xrec[r].orig
Family(e) == {r \in XRecords \ {e} :
    /\ Status(r) \in {"review", "validated"}
    /\ \/ RepOf(r) = CodedRep
       \/ r \in XChildren /\ parent[r] = e}

\* An extractor's record in validation that codes this original of the replication.
PendingSibling(e, row) == {r \in XEntries \ {e} : /\ Status(r) = "review"
                                                  /\ row.rep = CodedRep
                                                  /\ xrec[r].orig = row.orig}

\* One original as stored, from what its entry publishes (_child_values).
ChildRow(row, o, own) == [rep |-> row.rep, orig |-> o, out |-> own]

\* The refusals of create_children: not a duplicate of anything published, not being
\* validated already, and one original without a DOI per replication.
MayAdd(e, rows, child) ==
    /\ Holders(rows, Identity(child), {}) = {}
    /\ PendingSibling(e, child) = {}
    /\ child.orig \in DoiLess =>
           /\ rows[e].orig \notin DoiLess
           /\ \A r \in Family(e) : OrigOf(r) \notin DoiLess

\* Adds one child to an entry that publishes rows[e], accepting its open suggestions.
Adds(e, c, child, follows, rows, sugg) ==
    /\ Status(c) = "unused"
    /\ TypeOf(child.out) = TypeOf(rows[e].out) /\ (follows => child.out = rows[e].out)
    /\ MayAdd(e, rows, child)
    /\ parent' = [parent EXCEPT ![c] = e]
    /\ suggestion' = [s \in Suggestions |->
           IF sugg[s].status = "open" /\ sugg[s].on = e /\ child.orig = Suggested
           THEN [sugg[s] EXCEPT !.status = "accepted", !.as = c] ELSE sugg[s]]

\* Only to an entry validated by an admin (parent_block).
AddOriginal(e, c) ==
    /\ Own(e) /\ Status(e) = "validated" /\ xrec[e].checked
    /\ \E o \in Originals, out \in Outs, follows \in BOOLEAN :
           LET child == ChildRow(xrow[e], o, out) IN
           /\ Adds(e, c, child, follows, xrow, suggestion)
           /\ xrow' = [xrow EXCEPT ![c] = child]
           /\ inherits' = IF follows THEN inherits \cup {c} ELSE inherits \ {c}
    /\ xrec' = [xrec EXCEPT ![c].status = "validated"]
    /\ UNCHANGED <<survivorOf, merge, misled, rekeys>>

\* Mark as Resolved, with any correction; a rejected entry comes back.
ResolvePublishes(e) ==
    /\ Own(e)
    /\ \E row \in Rows : Publishes(e, row, TRUE, TRUE)
    /\ UNCHANGED <<parent, survivorOf, suggestion, merge, misled, rekeys>>

\* The same with an original drafted, which the row just published takes: one
\* transaction, refused as a whole.
ResolveWithDraft(e, c) ==
    /\ Own(e)
    /\ \E row \in Rows, o \in Originals :
           LET alone == [xrow EXCEPT ![e] = row]
               rows  == Synced(LiveKids(e), alone, row)
               child == ChildRow(row, o, row.out)
           IN  /\ Holders(xrow, Identity(row), {e}) = {}
               /\ Blocked(LiveKids(e), alone, row) = {}
               /\ Adds(e, c, child, TRUE, rows, suggestion)
               /\ xrow' = [rows EXCEPT ![c] = child]
               /\ inherits' = inherits \cup Converted(LiveKids(e), alone, row) \cup {c}
               /\ xrec' = [xrec EXCEPT ![e].status = "validated", ![e].checked = TRUE,
                                       ![e].orig = row.orig, ![c].status = "validated"]
    /\ UNCHANGED <<survivorOf, merge, misled, rekeys>>

----------------------------------------------------------------------------
\* Resolving a child edits its original and outcome, of its entry's type; an outcome
\* of its own ends the inheritance (check_child_resolve, after_child_resolved).
ResolveChild(c) ==
    /\ Live(c) /\ ChildUnlocked(c)
    /\ \E o \in Originals, out \in Outs :
           LET row == [xrow[c] EXCEPT !.orig = o, !.out = out] IN
           /\ xrow[parent[c]] # NoRow => TypeOf(out) = TypeOf(xrow[parent[c]].out)
           /\ Holders(xrow, Identity(row), {c}) = {}
           /\ xrow' = [xrow EXCEPT ![c] = row]
           /\ inherits' = IF out = xrow[c].out THEN inherits ELSE inherits \ {c}
    /\ UNCHANGED <<xrec, parent, survivorOf, suggestion, merge, misled, rekeys>>

\* Removed, or rejected through Resolve: its suggestions are open again (child_left).
Reopened(c) == [s \in Suggestions |->
    IF suggestion[s].status = "accepted" /\ suggestion[s].as = c
    THEN [suggestion[s] EXCEPT !.status = "open", !.as = NoRecord] ELSE suggestion[s]]

RemoveChild(c) ==
    /\ Live(c) /\ ChildUnlocked(c)
    /\ xrec' = [xrec EXCEPT ![c].status = "rejected"]
    /\ xrow' = [xrow EXCEPT ![c] = NoRow]
    /\ suggestion' = Reopened(c)
    /\ UNCHANGED <<parent, inherits, survivorOf, merge, misled, rekeys>>

----------------------------------------------------------------------------
\* Mark as Resolved gives d the identity of another published entry, and the admin
\* confirms the merge.  The transaction holds d; it reads the survivor's row, and
\* holds the survivor's children and those it moves.
MergeReads(d, s) ==
    /\ merge = NoMerge
    /\ Own(d) /\ s \in XEntries \ {d} /\ xrow[s] # NoRow
    /\ merge' = [dup |-> d, into |-> s, row |-> xrow[s], kids |-> LiveKids(d) \cup LiveKids(s)]
    /\ UNCHANGED <<xrec, xrow, parent, inherits, survivorOf, suggestion, misled, rekeys>>

\* repoint_children: the duplicate's children and open suggestions are the survivor's;
\* the children are synced to the row read, where they can.
MovedTo(d, s) == [c \in XChildren |-> IF parent[c] = d THEN s ELSE parent[c]]
MovedSuggestions(d, s) == [x \in Suggestions |->
    IF suggestion[x].status = "open" /\ suggestion[x].on = d
    THEN [suggestion[x] EXCEPT !.on = s] ELSE suggestion[x]]

MergeCommits ==
    LET d    == merge.dup
        s    == merge.into
        rows == [xrow EXCEPT ![d] = NoRow]
        kids == IF \E c \in XChildren : parent[c] = d THEN merge.kids ELSE {}
    IN  /\ d # NoRecord
        /\ survivorOf' = [survivorOf EXCEPT ![d] = s]
        /\ parent' = MovedTo(d, s)
        /\ suggestion' = MovedSuggestions(d, s)
        /\ xrow' = Synced(kids, rows, merge.row)
        /\ inherits' = inherits \cup Converted(kids, rows, merge.row)
        /\ xrec' = [xrec EXCEPT ![d].status = "rejected", ![d].checked = TRUE]
        /\ misled' = IF xrow[s] = merge.row THEN misled ELSE misled \cup merge.kids
        /\ merge' = NoMerge
        /\ UNCHANGED rekeys

\* A draft on the duplicate that the survivor cannot take refuses the whole merge.
MergeRefused ==
    /\ merge # NoMerge
    /\ merge' = NoMerge
    /\ UNCHANGED <<xrec, xrow, parent, inherits, survivorOf, suggestion, misled, rekeys>>

----------------------------------------------------------------------------
AddedNext ==
    \/ \E e \in XEntries :
           \/ ConsensusPublishes(e) \/ ConsensusRejects(e) \/ ApproveParent(e) \/ FlagReview(e)
           \/ ResolvePublishes(e) \/ ResolveRejects(e) \/ RemoveOriginal(e) \/ Rekey(e)
           \/ DismissSuggestion(e)
           \/ \E s \in Suggestions : Suggest(e, s)
           \/ \E c \in XChildren : AddOriginal(e, c) \/ ResolveWithDraft(e, c)
           \/ \E s \in XEntries : MergeReads(e, s)
    \/ \E c \in XChildren : ResolveChild(c) \/ RemoveChild(c)
    \/ MergeCommits \/ MergeRefused

AddedSpec == AddedInit /\ [][AddedNext]_addedVars
-----------------------------------------------------------------------------
(***************************************************************************)
(* Properties                                                              *)
(***************************************************************************)
Follows(c) ==
    LET row == xrow[parent[c]]
    IN  /\ xrow[c].rep = row.rep
        /\ TypeOf(xrow[c].out) = TypeOf(row.out)
        /\ c \in inherits => xrow[c].out = row.out

\* Whatever gives a child's entry another row, or the child another entry, brings the
\* child's own row in line, unless its identity is taken (sync_children,
\* repoint_children); a merge is only as good as the row it read.  And the suggestion an
\* original was made from is open again when the original leaves FLoRA while its entry
\* stays (child_left).
ChildrenFollow ==
    [][\A c \in XChildren :
           LET p == parent'[c] IN
           /\ (p # NoRecord /\ Live(c)' /\ xrow'[p] # NoRow /\ c \notin misled'
                 /\ (p # parent[c] \/ xrow'[p] # xrow[p]))
              => \/ Follows(c)'
                 \/ \E r \in XRecords \ {c} :
                        /\ xrow'[r] # NoRow
                        /\ Identity(xrow'[r]) = <<xrow'[p].rep, xrow'[c].orig>>
           /\ \A s \in Suggestions :
                 (Live(c) /\ ~ Live(c)' /\ suggestion[s].as = c /\ Status(parent[c])' # "rejected")
                 => suggestion'[s].status = "open"]_addedVars

\* "They leave FLoRA with it": nothing of a rejected or merged entry stays published,
\* its added originals included (reject_children, repoint_children), unless a merge
\* was under way when its survivor was decided.
NothingIsLeftBehind ==
    \A c \in XChildren : Live(c) /\ c \notin misled =>
        /\ xrow[c] # NoRow
        /\ Status(parent[c]) # "rejected"
=============================================================================
