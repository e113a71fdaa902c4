--------------------------- MODULE SourceRecords ---------------------------
(***************************************************************************)
(* Source Records: the rows the sheets, the validated records and the      *)
(* entries made by hand bring, which are inserted or marked deleted, never *)
(* removed; the admins' rulings on duplicates, the preprint ruling and the *)
(* exclusions; and the FLoRA product the transform builds from them.  The  *)
(* values of a row are left out: a row is its key and its rulings.         *)
(***************************************************************************)
EXTENDS Integers, FiniteSets, Sequences

CONSTANTS
    SheetRows, ValidatedRows, HandRows,  \* numbers, in the order the transform loads them
    Keys,                \* what dedup_keys tells papers apart by
    Preprint, Published, \* two of them, which a ruling on the originals makes one
    Admins, NoVerdict,
    MaxMoves             \* bound: what admins rule, exclude, change and withdraw

ASSUME SourceRowsAssumption ==
    /\ SheetRows \cup ValidatedRows \cup HandRows \subseteq Nat \ {0}
    /\ IsFiniteSet(SheetRows \cup ValidatedRows \cup HandRows)
    /\ ValidatedRows \cap (SheetRows \cup HandRows) = {}
    /\ {Preprint, Published} \subseteq Keys
    /\ MaxMoves \in Nat

VARIABLES
    srow,        \* source_records
    validated,   \* a record's row in validated: its number (0 for none), key, numbers used
    syncing,     \* sync_validated's transaction
    verdict,     \* resolve_duplicate between its reads and its writes
    paired,      \* whether preprint_dedup_decisions holds the ruling
    excluded,    \* transform_exclusions
    moves        \* what the bound counts

sourceVars == <<srow, validated, syncing, verdict, paired, excluded, moves>>

SourceRows == SheetRows \cup ValidatedRows \cup HandRows
SourceRow == [state : {"absent", "live", "deleted"}, key : Keys,
              ruling : {"none", "distinct", "duplicate"}, of : SourceRows \cup {0}]
Verdicts == {NoVerdict} \cup [row : SourceRows, of : SourceRows \cup {0}]
NotSyncing == [phase |-> "idle", current |-> 0, key |-> Published, gone |-> {}]

SourceTypeOK ==
    /\ srow \in [SourceRows -> SourceRow]
    /\ validated \in [current : ValidatedRows \cup {0}, key : Keys, used : SUBSET ValidatedRows]
    /\ syncing \in [phase : {"idle", "fetched", "retired"}, current : ValidatedRows \cup {0},
                    key : Keys, gone : SUBSET ValidatedRows]
    /\ verdict \in [Admins -> Verdicts]
    /\ paired \in BOOLEAN
    /\ excluded \in SUBSET Keys
    /\ moves \in 0 .. MaxMoves

SourceInit ==
    /\ srow = [r \in SourceRows |->
                  [state |-> "absent", key |-> Published, ruling |-> "none", of |-> 0]]
    /\ validated = [current |-> 0, key |-> Published, used |-> {}]
    /\ syncing = NotSyncing
    /\ verdict = [a \in Admins |-> NoVerdict]
    /\ paired = FALSE
    /\ excluded = {}
    /\ moves = 0

Move == moves < MaxMoves /\ moves' = moves + 1

----------------------------------------------------------------------------
(***************************************************************************)
(* The sheets.  Insert-only: a run lands rows the sheet has and the table  *)
(* has not, and leaves every other as it is.                               *)
(***************************************************************************)
SyncSheet(r, k) ==
    /\ srow[r].state = "absent"
    /\ srow' = [srow EXCEPT ![r].state = "live", ![r].key = k]
    /\ UNCHANGED <<validated, syncing, verdict, paired, excluded, moves>>

----------------------------------------------------------------------------
(***************************************************************************)
(* The validated records.  Every publication and every edit is a new row   *)
(* of validated; at the commit of a transaction that left the record       *)
(* without one, a trigger marks the source row it had.                     *)
(***************************************************************************)
PublishValidated(v, k) ==
    /\ v \notin validated.used
    /\ \A u \in ValidatedRows \ validated.used : v <= u
    /\ validated' = [current |-> v, key |-> k, used |-> validated.used \cup {v}]
    /\ UNCHANGED <<srow, syncing, verdict, paired, excluded, moves>>

\* The sync's upsert locks a row that is already there; one it inserts is not seen.
TriggerWaits == syncing.phase # "idle" /\ syncing.current = validated.current
                /\ srow[syncing.current].state # "absent"

Unpublish ==
    /\ validated.current # 0
    /\ ~TriggerWaits
    /\ validated' = [validated EXCEPT !.current = 0]
    /\ srow' = IF srow[validated.current].state = "live"
                 THEN [srow EXCEPT ![validated.current].state = "deleted"] ELSE srow
    /\ UNCHANGED <<syncing, verdict, paired, excluded, moves>>

\* One transaction, of which each statement sees what is committed by then.
SyncFetch ==
    /\ syncing.phase = "idle"
    /\ syncing' = [syncing EXCEPT !.phase = "fetched", !.current = validated.current,
                                  !.key = validated.key]
    /\ UNCHANGED <<srow, validated, verdict, paired, excluded, moves>>

Feeding == {v \in ValidatedRows : srow[v].state = "live"} \cup ({syncing.current} \ {0})

Missing == {v \in Feeding : v # validated.current}

RetireMissing ==
    /\ syncing.phase = "fetched"
    /\ syncing' = [syncing EXCEPT !.phase = "retired", !.gone = Missing]
    /\ UNCHANGED <<srow, validated, verdict, paired, excluded, moves>>

SyncCommit ==
    /\ syncing.phase = "retired"
    /\ srow' = [v \in SourceRows |->
          IF v \in syncing.gone
            THEN [srow[v] EXCEPT !.state = "deleted",
                                    !.key = IF v = syncing.current THEN syncing.key ELSE @]
          ELSE IF v = syncing.current THEN [srow[v] EXCEPT !.state = "live", !.key = syncing.key]
          ELSE srow[v]]
    /\ syncing' = NotSyncing
    /\ UNCHANGED <<validated, verdict, paired, excluded, moves>>

----------------------------------------------------------------------------
(***************************************************************************)
(* The rulings.  resolve_duplicate reads both rows, locking neither, and   *)
(* then writes both; s = 0 rules r distinct.  The panel offers rows of one *)
(* key.                                                                    *)
(***************************************************************************)
CanBeKept(s) == srow[s].state = "live" /\ srow[s].ruling # "duplicate"

ReadRuling(a, r, s) ==
    /\ verdict[a] = NoVerdict
    /\ srow[r].state = "live"
    /\ s # 0 => r # s /\ srow[s].key = srow[r].key /\ CanBeKept(s)
    /\ verdict' = [verdict EXCEPT ![a] = [row |-> r, of |-> s]]
    /\ Move
    /\ UNCHANGED <<srow, validated, syncing, paired, excluded>>

Ruled(rows, r, s) ==
    [rows EXCEPT ![r].ruling = IF s = 0 THEN "distinct" ELSE "duplicate",
                 ![r].of = s,
                 ![IF s = 0 THEN r ELSE s].ruling =
                      IF s = 0 \/ @ = "none" THEN "distinct" ELSE @]

WriteRuling(a) ==
    /\ verdict[a] # NoVerdict
    /\ srow' = Ruled(srow, verdict[a].row, verdict[a].of)
    /\ verdict' = [verdict EXCEPT ![a] = NoVerdict]
    /\ UNCHANGED <<validated, syncing, paired, excluded, moves>>

SyncExclusions(keys) ==
    /\ keys # excluded
    /\ excluded' = keys
    /\ Move
    /\ UNCHANGED <<srow, validated, syncing, verdict, paired>>

----------------------------------------------------------------------------
(***************************************************************************)
(* The product.  `primaries` are the source rows of live FLoRA records.    *)
(***************************************************************************)
KeyOf(r) == IF paired /\ srow[r].key = Preprint THEN Published ELSE srow[r].key

Feeds(r) == srow[r].state = "live" /\ srow[r].ruling # "duplicate"

Loaded == {r \in SourceRows : Feeds(r) /\ KeyOf(r) \notin excluded}

SameKey(r) ==
    LET k == KeyOf(r) IN {s \in SourceRows : KeyOf(s) = k /\ Feeds(s) /\ k \notin excluded}

\* Mutant of Yields: every row added by hand yields.
MutYields(r, primaries) == r \in HandRows

\* The rows that only fill blanks: those added by hand, or the ones that came after
\* a hand row that is a live FLoRA record's, beside no other source's such row.
Yields(r, primaries) ==
    LET registered == SameKey(r) \cap primaries
    IN IF registered # {} /\ registered \subseteq HandRows THEN r \notin registered
       ELSE r \in HandRows

Precedes(r, s, primaries) ==
    LET later == Yields(r, primaries)
    IN  IF later <=> Yields(s, primaries) THEN r <= s ELSE ~later

IsFirst(r, primaries) == \A s \in SameKey(r) : Precedes(r, s, primaries)

\* A row ruled distinct is its own record; the first of a key absorbs the others.
Surviving(primaries) == {r \in Loaded : srow[r].ruling = "distinct" \/ IsFirst(r, primaries)}

Absorbs(r, primaries) ==
    IF IsFirst(r, primaries) THEN {s \in SameKey(r) \ {r} : srow[s].ruling # "distinct"} ELSE {}

ProductOf(primaries) ==
    {[src |-> r, merged |-> Absorbs(r, primaries), key |-> KeyOf(r)] : r \in Surviving(primaries)}

\* Only a pair the current build shows: both papers are in it.
RulePair ==
    /\ ~paired
    /\ \A k \in {Preprint, Published} : \E r \in Loaded : KeyOf(r) = k
    /\ paired' = TRUE
    /\ Move
    /\ UNCHANGED <<srow, validated, syncing, verdict, excluded>>

UndoPair ==
    /\ paired
    /\ paired' = FALSE
    /\ Move
    /\ UNCHANGED <<srow, validated, syncing, verdict, excluded>>

SourceNext ==
    \/ \E r \in SheetRows, k \in Keys : SyncSheet(r, k)
    \/ \E v \in ValidatedRows, k \in Keys : PublishValidated(v, k)
    \/ Unpublish
    \/ SyncFetch
    \/ RetireMissing
    \/ SyncCommit
    \/ \E a \in Admins, r \in SourceRows, s \in SourceRows \cup {0} : ReadRuling(a, r, s)
    \/ \E a \in Admins : WriteRuling(a)
    \/ \E keys \in SUBSET Keys : SyncExclusions(keys)
    \/ RulePair
    \/ UndoPair

SourceSpec == SourceInit /\ [][SourceNext]_sourceVars

----------------------------------------------------------------------------
\* However publications, edits and rejections fall between the statements of the
\* sync, a validated record feeds FLoRA with one row at most (sync_validated.py: "it
\* only stops feeding the FLoRA build").
OneRowFeeds == Cardinality({v \in ValidatedRows : srow[v].state = "live"}) <= 1
=============================================================================
