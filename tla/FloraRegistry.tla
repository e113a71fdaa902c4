--------------------------- MODULE FloraRegistry ---------------------------
(***************************************************************************)
(* The registry of FLoRA records, which pins an id to a row of the product *)
(* by the source rows behind it, and the entries made by hand, which can   *)
(* be changed until the registry knows them.                               *)
(***************************************************************************)
EXTENDS SourceRecords, SequencesExt

CONSTANTS
    Reference,   \* the keys of the reference snapshot, each with a publication id
    NoReference

VARIABLES
    registry,    \* flora_records, in the order they were registered
    building     \* what a refresh built, between its build and its commit

registryVars == <<registry, building>>
floraVars == <<sourceVars, registryVars>>

NotBuilding == [active |-> FALSE, product |-> <<>>]
FloraIds == SourceRows \X (1 .. 2 * Cardinality(SourceRows))
FloraRecord == [id : FloraIds, primary : SourceRows, merged : SUBSET SourceRows,
                history : SUBSET SourceRows, retired : BOOLEAN,
                publishedAs : Reference \cup {NoReference}]
ProductRow == [src : SourceRows, merged : SUBSET SourceRows, key : Keys]

RegistryTypeOK ==
    /\ SourceTypeOK
    /\ registry \in Seq(FloraRecord)
    /\ building \in [active : BOOLEAN, product : Seq(ProductRow)]

FloraInit ==
    /\ SourceInit
    /\ registry = <<>>
    /\ building = NotBuilding

LivePrimaries == {registry[i].primary : i \in {j \in DOMAIN registry : ~registry[j].retired}}
Product == ProductOf(LivePrimaries)
InOrder ==
    LET product == Product
        primaries == LivePrimaries
        Place(p) == Cardinality({q \in product : Precedes(q.src, p.src, primaries)})
    IN [n \in 1 .. Cardinality(product) |-> CHOOSE p \in product : Place(p) = n]

Current(rec) == {rec.primary} \cup rec.merged
Claims(rec) == Current(rec) \cup rec.history

----------------------------------------------------------------------------
(***************************************************************************)
(* flora_registry.refresh, under the lock on flora_records it takes before *)
(* it builds.                                                              *)
(***************************************************************************)
RecordOf(r) == {i \in DOMAIN registry : registry[i].primary = r}

\* Mutant of Reserved: identifiers of built rows may be handed out again.
MutReserved(product) == {}

\* A surviving primary keeps its record, before absorbed rows are looked through.
Reserved(product) == UNION {RecordOf(p.src) : p \in ToSet(product)}

\* For another row: the records claiming it come first, then those claiming the rows
\* it absorbs; of these the active ones, and the earlier.
Preference(i, p) ==
    LET claimed == (Claims(registry[i]) \cap p.merged)
        first == IF p.src \in Claims(registry[i]) THEN 0
                 ELSE CHOOSE m \in claimed : \A n \in claimed : m <= n
    IN <<first, IF registry[i].retired THEN 1 ELSE 0, i>>

Better(a, b) == \/ a[1] < b[1]
                \/ a[1] = b[1] /\ a[2] < b[2]
                \/ a[1] = b[1] /\ a[2] = b[2] /\ a[3] <= b[3]

Match(p, free) ==
    LET candidates == {i \in free : Claims(registry[i]) \cap ({p.src} \cup p.merged) # {}}
    IN IF RecordOf(p.src) # {} THEN RecordOf(p.src)
       ELSE {i \in candidates : \A j \in candidates : Better(Preference(i, p), Preference(j, p))}

\* A row takes its record, if any, from those that are free still.
Take(taken, p, product) ==
    LET found == Match(p, (DOMAIN registry \ Reserved(product)) \ DOMAIN taken)
    IN [i \in DOMAIN taken \cup found |-> IF i \in found THEN p ELSE taken[i]]

\* The product row each record goes to, the rows taken in order.
Matches(product) ==
    LET taken[n \in 0 .. Len(product)] ==
            IF n = 0 THEN <<>> ELSE Take(taken[n - 1], product[n], product)
    IN  taken[Len(product)]

Refreshed(rec, p) ==
    [rec EXCEPT !.primary = p.src, !.merged = p.merged, !.retired = FALSE,
                !.history = @ \cup Current(rec)]

\* Mutant of Minted: numbers begin at one for every build.
MutMinted(r) == <<r, 1>>

\* The row's display id, with the next free suffix where it has been given before.
Minted(r) ==
    LET taken == {registry[i].id[2] : i \in {j \in DOMAIN registry : registry[j].id[1] = r}}
    IN <<r, CHOOSE n \in 1 .. Len(registry) + 1 : n \notin taken /\ 1 .. n - 1 \subseteq taken>>

\* The supplied snapshot has this key, or it is the one candidate of its pair.
ReferenceMatch(p) == p.key \in Reference

\* register_order: the reference id of the row's key, unless it is somebody's.
PublishedAs(p, fresh) ==
    IF /\ ReferenceMatch(p)
       /\ \A i \in DOMAIN registry : registry[i].publishedAs # p.key
       /\ \A q \in fresh : q.key = p.key => p.src <= q.src
    THEN p.key ELSE NoReference

NewRecord(p, fresh) ==
    [id |-> Minted(p.src), primary |-> p.src, merged |-> p.merged, history |-> {},
     retired |-> FALSE, publishedAs |-> PublishedAs(p, fresh)]

\* The rows without a record get theirs in the order of their source rows.
Fresh(product) ==
    LET taken == Matches(product)
    IN  {p \in ToSet(product) : \A i \in DOMAIN taken : taken[i] # p}

NthRow(n, fresh) ==
    CHOOSE p \in fresh : Cardinality({q \in fresh : q.src <= p.src}) = n

RefreshBuild ==
    /\ ~building.active
    /\ Loaded # {}
    /\ building' = [active |-> TRUE, product |-> InOrder]
    /\ UNCHANGED <<sourceVars, registry>>

RefreshCommit ==
    /\ building.active
    /\ LET taken == Matches(building.product)
           fresh == Fresh(building.product)
       IN registry' = [i \in DOMAIN registry |->
                           IF i \in DOMAIN taken THEN Refreshed(registry[i], taken[i])
                                                 ELSE [registry[i] EXCEPT !.retired = TRUE]]
                      \o [n \in 1 .. Cardinality(fresh) |-> NewRecord(NthRow(n, fresh), fresh)]
    /\ building' = NotBuilding
    /\ UNCHANGED sourceVars

----------------------------------------------------------------------------
(***************************************************************************)
(* The entries made by hand: a row each, deleted while the entry is        *)
(* withdrawn, with its number whatever becomes of it.                      *)
(***************************************************************************)
Role(i, h) == IF registry[i].primary = h THEN 1
              ELSE IF registry[i].merged \cap {h} # {} THEN 2
              ELSE IF registry[i].id[1] = h THEN 3
              ELSE 4

Known(h) == {i \in DOMAIN registry : h \in Claims(registry[i]) \/ registry[i].id[1] = h}
Ranked(i, h) == <<IF registry[i].retired THEN 1 ELSE 0, Role(i, h), i>>
Issued(h) == {i \in Known(h) : \A j \in Known(h) : Better(Ranked(i, h), Ranked(j, h))}

\* The record a source row is, or is part of.
RecordAt(r) ==
    LET at == IF RecordOf(r) # {} THEN RecordOf(r)
              ELSE {i \in DOMAIN registry : r \in registry[i].merged}
    IN {i \in at : \A j \in at : Better(<<IF registry[i].retired THEN 1 ELSE 0, 0, i>>,
                                        <<IF registry[j].retired THEN 1 ELSE 0, 0, j>>)}

AbsorbedBy(h) == {p.src : p \in {q \in Product : h \in q.merged}}

\* The registry knows the entry under the record it is, or is absorbed into, now.
Frozen(h) ==
    \E i \in Issued(h) :
        \/ Role(i, h) \in {1, 3}
        \/ \E into \in AbsorbedBy(h) : i \in RecordAt(into)

KeptApart(h, k) == \E r \in SourceRows \ {h} : Feeds(r) /\ srow[r].key = k

Project(h, k, apart) ==
    srow' = [srow EXCEPT ![h].state = "live", ![h].key = k,
                 ![h].ruling = IF apart /\ @ = "none" /\ KeptApart(h, k) THEN "distinct" ELSE @]

CreateEntry(h) ==
    /\ srow[h].state = "absent"
    /\ \E k \in Keys \ excluded, apart \in BOOLEAN : Project(h, k, apart)
    /\ Move
    /\ UNCHANGED <<validated, syncing, verdict, paired, excluded, registryVars>>

UpdateEntry(h) ==
    /\ srow[h].state = "live"
    /\ ~Frozen(h)
    /\ srow[h].ruling # "duplicate"
    /\ \E k \in Keys \ excluded, apart \in BOOLEAN : Project(h, k, apart)
    /\ srow' # srow
    /\ Move
    /\ UNCHANGED <<validated, syncing, verdict, paired, excluded, registryVars>>

WithdrawEntry(h) ==
    /\ srow[h].state = "live"
    /\ srow' = [srow EXCEPT ![h].state = "deleted"]
    /\ Move
    /\ UNCHANGED <<validated, syncing, verdict, paired, excluded, registryVars>>

\* A restoration follows a withdrawal, which was counted.
RestoreEntry(h) ==
    /\ srow[h].state = "deleted"
    /\ srow[h].key \notin excluded
    /\ srow' = [srow EXCEPT ![h].state = "live"]
    /\ UNCHANGED <<validated, syncing, verdict, paired, excluded, moves, registryVars>>

FloraNext ==
    \/ SourceNext /\ UNCHANGED registryVars
    \/ RefreshBuild
    \/ RefreshCommit
    \/ \E h \in HandRows : CreateEntry(h) \/ UpdateEntry(h) \/ WithdrawEntry(h) \/ RestoreEntry(h)

Builds == ~building.active /\ building'.active
Registers == building.active /\ ~building'.active

FloraSpec == FloraInit /\ [][FloraNext]_floraVars

----------------------------------------------------------------------------
\* "Ids are never reused" (flora_registry.py:33-36): whatever survivors change, split
\* and come back, no two records have one id, one primary row (their unique indexes
\* would fail every later refresh) or one id of the reference.
IdsAreUnique ==
    \A i, j \in DOMAIN registry : i # j =>
        /\ registry[i].id # registry[j].id
        /\ registry[i].primary # registry[j].primary
        /\ registry[i].publishedAs = registry[j].publishedAs => registry[i].publishedAs = NoReference

\* With it, the types of the records, and the one row of OneRowFeeds that a validated
\* record feeds FLoRA with.
RegistryInvariant == RegistryTypeOK /\ OneRowFeeds /\ IdsAreUnique

\* A published id keeps naming what it named: a record whose primary row survives keeps
\* that row and is live again; and where a row of the product gets a new id, every
\* record that claims its rows is live under another row (flora_registry.py:24-31).
PublishedIdsStay ==
    [][Registers =>
          \A i \in DOMAIN registry :
              /\ registry'[i].id = registry[i].id
              /\ (\E p \in ToSet(building.product) : p.src = registry[i].primary)
                    => registry'[i].primary = registry[i].primary /\ ~registry'[i].retired
              /\ \A n \in Len(registry) + 1 .. Len(registry') :
                    Current(registry'[n]) \cap Claims(registry[i]) # {} => ~registry'[i].retired]_floraVars

\* "A hand record that is already a FLoRA record keeps it", and a row added by hand
\* "never takes over a record another source holds" (transform_sources.load): the
\* primary of a live record passes between the two only when it leaves the product's
\* rows, or yields to another live record, of another source or an earlier hand entry's.
HandRecordIsKept ==
    [][Builds =>
          \A i \in DOMAIN registry :
              LET old == registry[i].primary
                  others == {s \in SameKey(old) \cap LivePrimaries : s \in HandRows => s < old}
                  now == {p \in Product : old \in {p.src} \cup p.merged}
              IN ~registry[i].retired /\ old \in Loaded =>
                    IF old \in HandRows THEN others # {} \/ \E p \in now : p.src = old
                    ELSE \A p \in now : p.src \notin HandRows]_floraVars
=============================================================================
