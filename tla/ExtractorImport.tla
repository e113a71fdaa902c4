-------------------------- MODULE ExtractorImport --------------------------
(***************************************************************************)
(* What one import of an extractor CSV, and one retirement of the pairs    *)
(* its manifest names, does to the records: operators on a database that   *)
(* maps a pair_id to its record.                                           *)
(*                                                                         *)
(* A CSV is a sequence of resolved rows, each a pair at a source slot      *)
(* (work_id, original_rank).  A record knows its slot and whether a person *)
(* has touched it.  pair_id is unique, so a re-key moves a record from its *)
(* old pair to the new one.                                                *)
(***************************************************************************)
EXTENDS Naturals, Sequences, FiniteSets

CONSTANTS
    Pairs,      \* pair_id values
    SourceSlots,\* (work_id, original_rank) values
    None

ImportAssumption == None \notin Pairs \cup SourceSlots

ASSUME ImportAssumption

Row     == [pair : Pairs, slot : SourceSlots]
Record  == [slot : SourceSlots, touched : BOOLEAN]
NoRecord == [slot |-> None, touched |-> FALSE]
Database == [Pairs -> Record \cup {NoRecord}]
Empty    == [p \in Pairs |-> NoRecord]

Shipped(csv)  == {csv[i].pair : i \in DOMAIN csv}
Present(db)   == {p \in Pairs : db[p] # NoRecord}

(***************************************************************************)
(* A CSV is refused when two rows share a pair or a slot                   *)
(* (_validate_pair_ids, _validate_source_slots), and when nothing in it is *)
(* resolved (_compare_snapshots).                                          *)
(***************************************************************************)
ValidCsv(csv) ==
    /\ csv # <<>>
    /\ \A i, j \in DOMAIN csv : i # j =>
           csv[i].pair # csv[j].pair /\ csv[i].slot # csv[j].slot

----------------------------------------------------------------------------
(***************************************************************************)
(* The import.  The slot map is read once, from the database as it was     *)
(* ("old"); "known" are the pair ids a row may refresh and "rekeyed" the   *)
(* pairs whose record has been taken over in this import.                  *)
(***************************************************************************)
\* Mutant of RekeyCandidates: rows the CSV still ships may be re-keyed.
MutRekeyCandidates(old, csv, rekeyed, slot) ==
    {p \in Present(old) : old[p].slot = slot} \ rekeyed

RekeyCandidates(old, csv, rekeyed, slot) ==
    {p \in Present(old) : old[p].slot = slot} \ (Shipped(csv) \cup rekeyed)

\* One row: refresh the known pair, re-key the one superseded record of its
\* slot, refuse to choose among several, or insert.
ImportRow(old, csv, state, row) ==
    LET candidates == RekeyCandidates(old, csv, state.rekeyed, row.slot)
        from       == CHOOSE p \in candidates : TRUE
    IN  IF row.pair \in state.known
        THEN [state EXCEPT !.db[row.pair].slot = row.slot]
        ELSE CASE Cardinality(candidates) = 1 ->
                    [state EXCEPT !.db = [@ EXCEPT ![from] = NoRecord,
                                                   ![row.pair] = state.db[from]],
                                  !.known = (@ \ {from}) \cup {row.pair},
                                  !.rekeyed = @ \cup {from}]
               [] Cardinality(candidates) > 1 ->
                    [state EXCEPT !.refused = TRUE]
               [] OTHER ->
                    [state EXCEPT !.db[row.pair] =
                                      [slot |-> row.slot, touched |-> FALSE]]

\* All rows, in one transaction: an import that refuses a row rolls back.
Import(old, csv) ==
    LET start == [db |-> old, known |-> Present(old), rekeyed |-> {}, refused |-> FALSE]
        after[n \in 0 .. Len(csv)] ==
            IF n = 0 THEN start ELSE ImportRow(old, csv, after[n - 1], csv[n])
    IN  after[Len(csv)]

Imported(old, csv) == Import(old, csv).db
Refused(old, csv)  == ~ ValidCsv(csv) \/ Import(old, csv).refused

----------------------------------------------------------------------------
(***************************************************************************)
(* The retirement.  The plan names one action per pair of the manifest.    *)
(* Entries held as unexplained are left out of the manifest here, and a    *)
(* rejected record counts as touched: neither is ever removed.             *)
(***************************************************************************)
IsRetirable(record) == ~ record.touched

PlannedAction(p, csv, db) ==
    IF p \in Shipped(csv) THEN "still_shipped"
    ELSE IF p \notin Present(db) THEN "absent"
    ELSE IF IsRetirable(db[p]) THEN "retire"
    ELSE "flag"

\* Mutant of PlanRetirements: touched records are retired too.
MutPlanRetirements(manifest, csv, db) ==
    {p \in manifest : PlannedAction(p, csv, db) \in {"retire", "flag"}}

PlanRetirements(manifest, csv, db) ==
    {p \in manifest : PlannedAction(p, csv, db) = "retire"}

\* The cap, a whole number of records.
RetireLimit(percent, db) == (Cardinality(Present(db)) * percent) \div 100

Deleted(db, pairs) == [p \in Pairs |-> IF p \in pairs THEN NoRecord ELSE db[p]]
=============================================================================
