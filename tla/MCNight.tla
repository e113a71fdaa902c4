------------------------------ MODULE MCNight ------------------------------
(***************************************************************************)
(* What the nightly jobs do to the tables, one part at a time: the two     *)
(* share no variable, so instead of their product TLC visits their sum.    *)
(* `moving` says which one moves; the other rests in its initial state.      *)
(*                                                                         *)
(* MaintenanceRuns starts with its second night.  The extractor first      *)
(* shipped two pairs; then the second moves to the rank of the first,      *)
(* whose original is withdrawn, and a new pair takes the free rank; then a *)
(* corrected DOI gives the new pair another pair_id.                       *)
(***************************************************************************)
EXTENDS MaintenanceRuns, EntryChecks

VARIABLE moving

\* The workers are alike: only equality tells them apart.
MCWorkerSymmetry == Permutations(Workers)

MCRow(p, s) == [pair |-> p, slot |-> s]
MCHistory ==
    << [csv |-> <<MCRow("p1", "s1"), MCRow("p2", "s2")>>, manifest |-> {}],
       [csv |-> <<MCRow("p2", "s1"), MCRow("p3", "s2")>>, manifest |-> {"p1"}],
       [csv |-> <<MCRow("p2", "s1"), MCRow("p4", "s2")>>, manifest |-> {"p1", "p3"}] >>

\* What a first undisturbed full run leaves behind, of a CSV the import takes.
FirstNight ==
    LET csv == History[1].csv IN
    /\ ~Refused(Empty, csv)
    /\ runs = [r \in RunIds |-> IF r = 1
                  THEN [NoRun EXCEPT !.status = "done", !.sync = "SUCCESS", !.find = "SUCCESS",
                                     !.archive = csv, !.commit = 1,
                                     !.part1 = TRUE, !.part2 = TRUE]
                  ELSE NoRun]
    /\ lock = NoWorker
    /\ worker = [w \in Workers |-> Idle]
    /\ disk = {csv}
    /\ stored = <<csv>>
    /\ head = 1
    /\ db = Imported(Empty, csv)
    /\ imported = csv
    /\ archived = 0
    /\ crashes = 0

NightInit ==
    /\ moving \in {"maintenance", "checks"}
    /\ FirstNight
    /\ IF moving = "checks" THEN ChecksInit
       ELSE entry = [e \in Entries |-> GoodValue] /\ ChecksInit

NightNext ==
    /\ UNCHANGED moving
    /\ \/ moving = "maintenance" /\ MaintNext /\ UNCHANGED checksVars
       \/ moving = "checks" /\ ChecksNext /\ UNCHANGED maintVars

NightSpec == NightInit /\ [][NightNext]_<<moving, maintVars, checksVars>>

\* The types of both parts, who executes a maintenance run, and one check of the
\* network a day.
NightInvariant ==
    /\ moving = "maintenance" => MaintTypeOK /\ ExecutorOwnsRun
    /\ moving = "checks" => ChecksTypeOK /\ NetworkOnceADay
=============================================================================
