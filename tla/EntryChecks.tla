---------------------------- MODULE EntryChecks ----------------------------
(***************************************************************************)
(* The FLoRA entry checks over the stored dataset.  Each pod's scheduler   *)
(* asks which part is due: the structural part when the dataset's revision *)
(* is not the one last checked, the network part once a day.  A part runs  *)
(* under its own session advisory lock, from a snapshot of the dataset,    *)
(* and stores findings by the value they flag.                             *)
(*                                                                         *)
(* A record has one value; a bad one is a structural finding, and a dead   *)
(* link when its target does not answer.                                   *)
(***************************************************************************)
EXTENDS Integers, Sequences, FiniteSets, FiniteSetsExt

CONSTANTS
    Entries,          \* the FLoRA records
    BadValues, Gone,  \* the flagged values of a record; a retired one
    GoodValue,
    Pods, NoPod,
    MaxEdits,         \* bound on the dataset's revisions
    MaxEvents         \* bound on failed and dead runs, days and what people ask

ChecksAssumption ==
    /\ GoodValue \notin BadValues /\ Gone \notin BadValues \cup {GoodValue}
    /\ NoPod \notin Pods
    /\ MaxEdits \in Nat /\ MaxEvents \in Nat

ASSUME ChecksAssumption

VARIABLES
    entry,       \* the stored dataset
    revision,    \* its revision
    checkRuns,   \* the rows of flora_check_runs, per part in the order of run_id
    checkLock,   \* per part
    checker,     \* what each pod has in memory for each part
    finding,     \* the findings: never made, open or resolved
    dismissed,   \* the findings marked "Not a problem"
    events

checksVars == <<entry, revision, checkRuns, checkLock, checker, finding, dismissed, events>>

Parts == {"structural", "network"}
EntryValues == BadValues \cup {GoodValue, Gone}
Findings == [part : Parts, record : Entries, value : BadValues]

\* recent: of a failed or running run, under an hour old; today: of a network run,
\* of this UTC day; asked: of a network run, by the command line.
StartedRow(part, forced) == [status |-> "running", revision |-> 0, recent |-> TRUE,
                             today |-> part = "network", asked |-> part = "network" /\ forced]
RunStatuses == {"running", "finished", "failed", "abandoned"}

Sleeping == [at |-> "idle", forced |-> FALSE, read |-> [e \in Entries |-> Gone],
             revision |-> 0]

ChecksTypeOK ==
    /\ entry \in [Entries -> EntryValues]
    /\ revision \in 1 .. MaxEdits + 1
    /\ checkRuns \in [Parts -> Seq([status : RunStatuses, revision : 0 .. MaxEdits + 1,
                                    recent : BOOLEAN, today : BOOLEAN, asked : BOOLEAN])]
    /\ checkLock \in [Parts -> Pods \cup {NoPod}]
    /\ checker \in [Pods \X Parts ->
           [at : {"idle", "wants", "checking"}, forced : BOOLEAN,
            read : [Entries -> EntryValues], revision : 0 .. MaxEdits + 1]]
    /\ finding \in [Findings -> {"never", "open", "resolved"}]
    /\ dismissed \subseteq Findings

ChecksInit ==
    /\ entry \in [Entries -> EntryValues]
    /\ revision = 1
    /\ checkRuns = [part \in Parts |-> <<>>]
    /\ checkLock = [part \in Parts |-> NoPod]
    /\ checker = [c \in Pods \X Parts |-> Sleeping]
    /\ finding = [f \in Findings |-> "never"]
    /\ dismissed = {}
    /\ events = 0

----------------------------------------------------------------------------
\* What is due (due), given the part's runs.
Finished(runs) == {i \in DOMAIN runs : runs[i].status = "finished"}
LastChecked(runs) == IF Finished(runs) = {} THEN 0 ELSE Max(Finished(runs))
RevisionIn(runs) == IF LastChecked(runs) = 0 THEN 0 ELSE runs[LastChecked(runs)].revision
CheckedRevision == RevisionIn(checkRuns["structural"])

FailedRecently(runs) ==
    \E i \in DOMAIN runs : runs[i].status = "failed" /\ runs[i].recent /\ LastChecked(runs) < i

NetworkToday(runs) ==
    \E i \in DOMAIN runs : /\ runs[i].today
                          /\ \/ runs[i].status \in {"finished", "failed"}
                             \/ runs[i].status = "running" /\ runs[i].recent

Due(part, runs) == IF part = "structural" THEN RevisionIn(runs) # revision /\ ~ FailedRecently(runs)
                   ELSE ~ NetworkToday(runs)

----------------------------------------------------------------------------
At(p, part, place) == checker[<<p, part>>].at = place
StepTo(p, part, state) == checker' = [checker EXCEPT ![<<p, part>>] = state]

Happens == events < MaxEvents /\ events' = events + 1

Wants(p, part) ==
    /\ At(p, part, "idle")
    /\ Due(part, checkRuns[part])
    /\ StepTo(p, part, [Sleeping EXCEPT !.at = "wants"])
    /\ UNCHANGED <<entry, revision, checkRuns, checkLock, finding, dismissed, events>>

\* An operator runs a part whether or not it is due.
Command(p, part) ==
    /\ At(p, part, "idle")
    /\ Happens
    /\ StepTo(p, part, [Sleeping EXCEPT !.at = "wants", !.forced = TRUE])
    /\ UNCHANGED <<entry, revision, checkRuns, checkLock, finding, dismissed>>

\* Whoever has the lock marks the part's unfinished runs, which nobody runs, and
\* asks again what is due, unless commanded.  A run reads the dataset and its revision
\* in one snapshot.
Abandoned(runs) == [i \in DOMAIN runs |->
    IF runs[i].status = "running"
    THEN [runs[i] EXCEPT !.status = "abandoned", !.recent = FALSE, !.today = FALSE]
    ELSE runs[i]]
StillDue(p, part) == checker[<<p, part>>].forced \/ Due(part, Abandoned(checkRuns[part]))

StartRun(p, part) ==
    /\ At(p, part, "wants")
    /\ checkLock[part] = NoPod
    /\ StillDue(p, part)
    /\ checkLock' = [checkLock EXCEPT ![part] = p]
    /\ checkRuns' = [checkRuns EXCEPT
           ![part] = Append(Abandoned(@), StartedRow(part, checker[<<p, part>>].forced))]
    /\ StepTo(p, part, [checker[<<p, part>>] EXCEPT !.at = "checking", !.read = entry,
                                              !.revision = revision])
    /\ UNCHANGED <<entry, revision, finding, dismissed, events>>

NotDueAnyMore(p, part) ==
    /\ At(p, part, "wants")
    /\ checkLock[part] = NoPod
    /\ ~ StillDue(p, part)
    /\ checkRuns' = [checkRuns EXCEPT ![part] = Abandoned(@)]
    /\ StepTo(p, part, Sleeping)
    /\ UNCHANGED <<entry, revision, checkLock, finding, dismissed, events>>

LockIsTaken(p, part) ==
    /\ At(p, part, "wants")
    /\ checkLock[part] # NoPod
    /\ StepTo(p, part, Sleeping)
    /\ UNCHANGED <<entry, revision, checkRuns, checkLock, finding, dismissed, events>>

----------------------------------------------------------------------------
\* What a run finds, given the values it read and the targets it asked: the
\* structural part asks every record, the network part what its budget allows.
Found(part, read, dead) == {f \in Findings : f.part = part /\ read[f.record] = f.value
                                             /\ f.record \in dead}

\* Mutant of Retired: the other part's findings are retired too.
MutRetired(part, read) == {f \in Findings : finding[f] = "open" /\ read[f.record] = Gone}

\* Findings whose records are all gone from the snapshot, of this part only: the
\* other part may have read a newer one.
Retired(part, read) == {f \in Findings : finding[f] = "open" /\ f.part = part
                                         /\ read[f.record] = Gone}

\* An open finding it does not make again: all of them, or those it settled.
CheckSettled(part, read, asked, found) ==
    {f \in Findings : finding[f] = "open" /\ f.part = part /\ f \notin found
                      /\ (part = "structural" \/ f.record \in asked \/ read[f.record] # f.value)}

\* The run under way is the part's last row: whoever starts one holds the lock.
EndRow(part, status, checked) ==
    LET last  == Len(checkRuns[part])
        ended == [checkRuns[part][last] EXCEPT !.status = status, !.revision = checked,
                                               !.recent = @ /\ status = "failed"]
    IN  checkRuns' = [checkRuns EXCEPT ![part][last] = ended]

StoreFindings(p, part) ==
    LET mine == checker[<<p, part>>] IN
    /\ At(p, part, "checking")
    /\ \E asked \in IF part = "structural" THEN {Entries} ELSE SUBSET Entries :
       \E dead \in IF part = "structural" THEN {Entries} ELSE SUBSET asked :
           LET found  == Found(part, mine.read, dead)
               closed == Retired(part, mine.read) \cup CheckSettled(part, mine.read, asked, found)
           IN  finding' = [f \in Findings |-> IF f \in found THEN "open"
                                              ELSE IF f \in closed THEN "resolved"
                                              ELSE finding[f]]
    /\ EndRow(part, "finished", mine.revision)
    /\ checkLock' = [checkLock EXCEPT ![part] = NoPod]
    /\ StepTo(p, part, Sleeping)
    /\ UNCHANGED <<entry, revision, dismissed, events>>

FailRun(p, part) ==
    /\ At(p, part, "checking")
    /\ Happens
    /\ EndRow(part, "failed", 0)
    /\ checkLock' = [checkLock EXCEPT ![part] = NoPod]
    /\ StepTo(p, part, Sleeping)
    /\ UNCHANGED <<entry, revision, finding, dismissed>>

\* The pod is replaced, or loses the connection: the row stays running.
Vanish(p, part) ==
    /\ At(p, part, "checking")
    /\ Happens
    /\ checkLock' = [checkLock EXCEPT ![part] = NoPod]
    /\ StepTo(p, part, Sleeping)
    /\ UNCHANGED <<entry, revision, checkRuns, finding, dismissed>>

----------------------------------------------------------------------------
\* A pipeline run or a correction moves the revision.
DatasetMoves ==
    /\ revision <= MaxEdits
    /\ revision' = revision + 1
    /\ \E e \in Entries, v \in EntryValues : entry' = [entry EXCEPT ![e] = v]
    /\ UNCHANGED <<checkRuns, checkLock, checker, finding, dismissed, events>>

\* An hour after it started a failed run may be retried and a running one is stale.
CheckHourPasses(part, i) ==
    /\ i \in DOMAIN checkRuns[part]
    /\ checkRuns[part][i].recent /\ checkRuns[part][i].status \in {"running", "failed"}
    /\ checkRuns' = [checkRuns EXCEPT ![part][i].recent = FALSE]
    /\ UNCHANGED <<entry, revision, checkLock, checker, finding, dismissed, events>>

DayPasses ==
    /\ Happens
    /\ checkRuns' = [part \in Parts |-> [i \in DOMAIN checkRuns[part] |->
                        [checkRuns[part][i] EXCEPT !.today = FALSE, !.recent = FALSE]]]
    /\ UNCHANGED <<entry, revision, checkLock, checker, finding, dismissed>>

\* An open finding is "Not a problem"; the mark stays with the finding whatever the
\* runs make of it, and can be withdrawn.
Dismiss(f) ==
    /\ finding[f] = "open"
    /\ f \notin dismissed
    /\ Happens
    /\ dismissed' = dismissed \cup {f}
    /\ UNCHANGED <<entry, revision, checkRuns, checkLock, checker, finding>>

Undismiss(f) ==
    /\ f \in dismissed
    /\ dismissed' = dismissed \ {f}
    /\ UNCHANGED <<entry, revision, checkRuns, checkLock, checker, finding, events>>

----------------------------------------------------------------------------
CheckerStep(p, part) ==
    \/ Wants(p, part) \/ LockIsTaken(p, part) \/ StartRun(p, part)
    \/ NotDueAnyMore(p, part) \/ StoreFindings(p, part)

ChecksNext ==
    \/ \E p \in Pods, part \in Parts :
           CheckerStep(p, part) \/ Command(p, part) \/ FailRun(p, part) \/ Vanish(p, part)
    \/ DatasetMoves
    \/ \E part \in Parts : \E i \in DOMAIN checkRuns[part] : CheckHourPasses(part, i)
    \/ DayPasses
    \/ \E f \in Findings : Dismiss(f) \/ Undismiss(f)

ChecksSpec == ChecksInit /\ [][ChecksNext]_checksVars

-----------------------------------------------------------------------------
(***************************************************************************)
(* Properties                                                              *)
(***************************************************************************)
\* Once the structural part has checked the current revision, its open findings
\* are exactly the bad values of the dataset, whatever the network part stores
\* from an older snapshot (_resolve_retired, load_stored_dataset).
OpenFindingsAreCurrent ==
    CheckedRevision = revision =>
        \A f \in Findings : f.part = "structural" =>
            (finding[f] = "open") = (entry[f.record] = f.value)

\* Every pod asks for the network part, and it runs once a day (_run_part).
NetworkOnceADay ==
    LET rows == checkRuns["network"]
    IN  Cardinality({i \in DOMAIN rows : /\ rows[i].today /\ ~ rows[i].asked
                                         /\ rows[i].status \in {"finished", "failed"}}) <= 1
=============================================================================
