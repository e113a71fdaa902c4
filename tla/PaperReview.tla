----------------------------- MODULE PaperReview -----------------------------
(***************************************************************************)
(* One screen for the open records of one replication paper: a claim       *)
(* reserves them together, the open table renews its holds, and each       *)
(* answer is an ordinary judgement whose points the table shares out.      *)
(*                                                                         *)
(* A record lock is held from the step that takes it to the commit.  What  *)
(* a claim may wait for is nothing: it passes locked rows over.            *)
(***************************************************************************)
EXTENDS Integers, FiniteSets

CONSTANTS
    Coders,
    AtTables,       \* those who open the table; the others stay on the one-record screen
    PaperRecords,   \* the records of the paper that can open in the table
    Groups,         \* the outcome checks an answer may share
    NoCoder

ASSUME PaperAssumption == NoCoder \notin Coders /\ AtTables \subseteq Coders

Seats == {"human_1", "human_2"}

VARIABLES
    seat,      \* the human slots of each record: who, and buffered, started or done
    record,    \* unvalidated: still to be judged, and the transaction that locks it
    claiming,  \* a claim under way: what it has locked, and its own slots as it read them
    toppingUp, \* the record a buffer top-up of the same browser is claiming
    table,     \* the records the open table of a validator believes it holds
    judging,   \* a judgement under way, per validator and record, and what it pays
    payer,     \* the validators row: the record whose judgement locks it
    paid       \* what each stored judgement was paid for

paperVars == <<seat, record, claiming, toppingUp, table, judging, payer, paid>>

Items == {"base"} \cup Groups
EmptySeat == [by |-> NoCoder, as |-> "free"]
NoClaim == [at |-> "no", took |-> {}, own |-> {}]
Unlocked == <<"none", NoCoder>>

PaperTypeOK ==
    /\ seat \in [PaperRecords -> [Seats -> [by : Coders \cup {NoCoder},
                                            as : {"free", "buffered", "started", "done"}]]]
    /\ record \in [PaperRecords -> [open : BOOLEAN,
                                    lock : {"none", "claim", "top-up", "judge"}
                                           \X (Coders \cup {NoCoder})]]
    /\ claiming \in [Coders -> [at : {"no", "locked", "read"}, took : SUBSET PaperRecords,
                                own : SUBSET PaperRecords]]
    /\ toppingUp \in [Coders -> SUBSET PaperRecords]
    /\ table \in [Coders -> SUBSET PaperRecords]
    /\ judging \in [Coders -> [PaperRecords -> [at : {"no", "checked", "counted"},
                                                pays : SUBSET Items]]]
    /\ payer \in [Coders -> SUBSET PaperRecords]
    /\ paid \in [Coders -> [PaperRecords -> SUBSET Items]]

NotJudging == [at |-> "no", pays |-> {}]

PaperInit ==
    /\ seat = [r \in PaperRecords |-> [s \in Seats |-> EmptySeat]]
    /\ record = [r \in PaperRecords |-> [open |-> TRUE, lock |-> Unlocked]]
    /\ claiming = [v \in Coders |-> NoClaim]
    /\ toppingUp = [v \in Coders |-> {}]
    /\ table = [v \in Coders |-> {}]
    /\ judging = [v \in Coders |-> [r \in PaperRecords |-> NotJudging]]
    /\ payer = [v \in Coders |-> {}]
    /\ paid = [v \in Coders |-> [r \in PaperRecords |-> {}]]

OwnSeats(v, r) == {s \in Seats : seat[r][s].by = v}
Holds(v, r) == \E s \in OwnSeats(v, r) : seat[r][s].as # "done"
Done(v, r)  == \E s \in OwnSeats(v, r) : seat[r][s].as = "done"
Free(r) == record[r].lock = Unlocked
LockedBy(rs, who) ==
    [r \in PaperRecords |-> IF r \in rs THEN [record[r] EXCEPT !.lock = who] ELSE record[r]]
Seated(rs, v, as) ==
    [r \in PaperRecords |->
       IF r \notin rs THEN seat[r]
       ELSE LET lowest == IF seat[r]["human_1"] = EmptySeat THEN "human_1" ELSE "human_2"
            IN [seat[r] EXCEPT ![lowest] = [by |-> v, as |-> as]]]
AnsweredBy(v, r) ==
    [s \in Seats |-> IF seat[r][s].by = v THEN [seat[r][s] EXCEPT !.as = "done"] ELSE seat[r][s]]
HasSeat(r) == \E s \in Seats : seat[r][s] = EmptySeat

----------------------------------------------------------------------------
(***************************************************************************)
(* Serving and claiming.                                                   *)
(***************************************************************************)

\* Mutant of MayTake: a validator may take a second slot of the record.
MutMayTake(v, r) == record[r].open /\ HasSeat(r)

\* _claim_free_slot, on a record the transaction has locked or can lock.
MayTake(v, r) == record[r].open /\ HasSeat(r) /\ OwnSeats(v, r) = {}

\* next_pairs: one record, started; or the browser's buffer top-up, in its own transaction.
ServeStarted(v, r) ==
    /\ Free(r) /\ MayTake(v, r)
    /\ seat' = Seated({r}, v, "started")
    /\ UNCHANGED <<record, claiming, toppingUp, table, judging, payer, paid>>

TopUpLocks(v, r) ==
    /\ toppingUp[v] = {} /\ Free(r) /\ record[r].open
    /\ record' = LockedBy({r}, <<"top-up", v>>)
    /\ toppingUp' = [toppingUp EXCEPT ![v] = {r}]
    /\ UNCHANGED <<seat, claiming, table, judging, payer, paid>>

TopUpCommits(v) ==
    /\ toppingUp[v] # {}
    /\ seat' = Seated({r \in toppingUp[v] : MayTake(v, r)}, v, "buffered")
    /\ record' = LockedBy(toppingUp[v], Unlocked)
    /\ toppingUp' = [toppingUp EXCEPT ![v] = {}]
    /\ UNCHANGED <<claiming, table, judging, payer, paid>>

\* claim: FOR UPDATE SKIP LOCKED over the paper.
ClaimLocks(v, base) ==
    /\ claiming[v] = NoClaim /\ Holds(v, base)
    /\ LET free == {r \in PaperRecords : Free(r)}
       IN /\ record' = LockedBy(free, <<"claim", v>>)
          /\ claiming' = [claiming EXCEPT ![v] = [at |-> "locked", took |-> free, own |-> {}]]
    /\ UNCHANGED <<seat, toppingUp, table, judging, payer, paid>>

ClaimReads(v) ==
    /\ claiming[v].at = "locked"
    /\ claiming' = [claiming EXCEPT ![v].at = "read",
                       ![v].own = {r \in PaperRecords : OwnSeats(v, r) # {}}]
    /\ UNCHANGED <<seat, record, toppingUp, table, judging, payer, paid>>

\* Each record without an own slot is claimed; a record unlocked since can still be.
\* The table lists what was read or taken and is not answered, then `refresh` renews it.
ClaimCommits(v) ==
    /\ claiming[v].at = "read"
    /\ LET mine == claiming[v].took
           tries == {r \in PaperRecords \ claiming[v].own : r \in mine \/ Free(r)}
           takes == {r \in tries : MayTake(v, r)}
           lists == {r \in PaperRecords : /\ record[r].open
                                          /\ \/ r \in takes \/ Holds(v, r)
                                             \/ r \in claiming[v].own /\ ~Done(v, r)}
       IN /\ seat' = Seated(takes, v, "buffered")
          /\ table' = [table EXCEPT ![v] = lists]
          /\ record' = LockedBy(mine, Unlocked)
    /\ claiming' = [claiming EXCEPT ![v] = NoClaim]
    /\ UNCHANGED <<toppingUp, judging, payer, paid>>

\* refresh: the answer is what is still held.
Refresh(v) ==
    /\ table[v] # {}
    /\ table' = [table EXCEPT ![v] = {r \in @ : Holds(v, r)}]
    /\ UNCHANGED <<seat, record, claiming, toppingUp, judging, payer, paid>>

\* The reaper waits for the record's lock, then frees what lapsed; a skip frees one.
ClaimLapses(r, s) ==
    /\ Free(r) /\ seat[r][s].as \in {"buffered", "started"}
    /\ seat' = [seat EXCEPT ![r][s] = EmptySeat]
    /\ UNCHANGED <<record, claiming, toppingUp, table, judging, payer, paid>>

\* An admin decides the record: its open slots are cleared.
Close(r) ==
    /\ Free(r) /\ record[r].open
    /\ record' = [record EXCEPT ![r].open = FALSE]
    /\ seat' = [seat EXCEPT ![r] = [s \in Seats |-> IF @[s].as = "done" THEN @[s] ELSE EmptySeat]]
    /\ UNCHANGED <<claiming, toppingUp, table, judging, payer, paid>>

----------------------------------------------------------------------------
(***************************************************************************)
(* A judgement from the table.  It locks its record, then the validators   *)
(* row, and holds both through the AI call to the commit.                  *)
(***************************************************************************)
JudgeLocks(v, r) ==
    /\ r \in table[v] /\ Free(r) /\ record[r].open /\ Holds(v, r)
    /\ record' = LockedBy({r}, <<"judge", v>>)
    /\ judging' = [judging EXCEPT ![v][r].at = "checked"]
    /\ UNCHANGED <<seat, claiming, toppingUp, table, payer, paid>>

\* points(): the base score, and each shared check, unless an earlier answer paid it.
Pays(v, r, group) ==
    LET prior == {q \in PaperRecords \ {r} : Done(v, q)}
    IN (IF prior = {} THEN {"base"} ELSE {})
       \cup (IF \E q \in prior : group \in paid[v][q] THEN {} ELSE {group})

\* Mutant of RowIsFree: the validators row is not locked while points are counted.
MutRowIsFree(v) == TRUE

RowIsFree(v) == payer[v] = {}

CountPoints(v, r) ==
    /\ judging[v][r].at = "checked" /\ RowIsFree(v)
    /\ payer' = [payer EXCEPT ![v] = @ \cup {r}]
    /\ \E group \in Groups :
          judging' = [judging EXCEPT ![v][r] = [at |-> "counted", pays |-> Pays(v, r, group)]]
    /\ UNCHANGED <<seat, record, claiming, toppingUp, table, paid>>

JudgeEnds(v, r) ==
    /\ judging[v][r].at = "counted"
    /\ judging' = [judging EXCEPT ![v][r] = NotJudging]
    /\ payer' = [payer EXCEPT ![v] = @ \ {r}]
    /\ record' = LockedBy({r}, Unlocked)
    /\ \/ /\ seat' = [seat EXCEPT ![r] = AnsweredBy(v, r)]
          /\ paid' = [paid EXCEPT ![v][r] = judging[v][r].pays]
       \/ UNCHANGED <<seat, paid>>                            \* rolled back
    /\ UNCHANGED <<claiming, toppingUp, table>>

\* A judgement without the table's note: it earns the ordinary points, and counts as an
\* earlier answer of the paper.
JudgeAlone(v, r) ==
    /\ Free(r) /\ record[r].open /\ Holds(v, r)
    /\ seat' = [seat EXCEPT ![r] = AnsweredBy(v, r)]
    /\ UNCHANGED <<record, claiming, toppingUp, table, judging, payer, paid>>

PaperNext ==
    \/ \E v \in Coders, r \in PaperRecords : ServeStarted(v, r) \/ JudgeAlone(v, r)
    \/ \E v \in AtTables :
        \/ TopUpCommits(v) \/ ClaimReads(v) \/ ClaimCommits(v) \/ Refresh(v)
        \/ \E r \in PaperRecords :
            \/ TopUpLocks(v, r) \/ ClaimLocks(v, r)
            \/ JudgeLocks(v, r) \/ CountPoints(v, r) \/ JudgeEnds(v, r)
    \/ \E r \in PaperRecords : Close(r) \/ \E s \in Seats : ClaimLapses(r, s)

PaperSpec == PaperInit /\ [][PaperNext]_paperVars

----------------------------------------------------------------------------
\* "One validator may hold only one of a record's two slots, or the record would get one
\* person's judgement twice" (app.py:1913), with a claim and a top-up under way at once.
OneSeatEach == \A v \in Coders, r \in PaperRecords : Cardinality(OwnSeats(v, r)) <= 1

\* "The base score covers the paper, so it [...] [is] paid once [...] Originals sharing a
\* check share those 2 points", "however quickly the browser sends them" (paper_review.py).
PaperIsPaidOnce ==
    \A v \in Coders, i \in Items :
        Cardinality({r \in PaperRecords : i \in paid[v][r]}) <= 1
=============================================================================
