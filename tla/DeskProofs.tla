----------------------------- MODULE DeskProofs ------------------------------
(***************************************************************************)
(* What happens around the judging of records, for every value of the      *)
(* constants.                                                              *)
(***************************************************************************)
EXTENDS MCDesk, ListProofs

-----------------------------------------------------------------------------
(***************************************************************************)
(* One screen for a paper, for any number of coders, records and checks.   *)
(***************************************************************************)
Seat == [by : Coders \cup {NoCoder}, as : {"free", "buffered", "started", "done"}]
Lock == {"none", "claim", "top-up", "judge"} \X (Coders \cup {NoCoder})

\* A coder has one seat of a record at most.
SeatedOnce ==
    \A v \in Coders, r \in PaperRecords : \A s, t \in OwnSeats(v, r) : s = t

\* A transaction under way has the lock of each record it will write, and a judgement
\* finds its seat as it was when it checked it.
LocksAreHeld ==
    /\ \A v \in Coders : \A r \in claiming[v].took : record[r].lock = <<"claim", v>>
    /\ \A v \in Coders : \A r \in toppingUp[v] : record[r].lock = <<"top-up", v>>
JudgesHold ==
    \A v \in Coders, r \in PaperRecords :
        judging[v][r].at # "no" => record[r].lock = <<"judge", v>> /\ Holds(v, r)

\* Points are stored with the answer, and only one judgement of a coder counts its own at a
\* time, against what is stored.
PaidIsDone == \A v \in Coders, r \in PaperRecords : paid[v][r] # {} => Done(v, r)
CountsAlone ==
    \A v \in Coders, r \in PaperRecords :
        judging[v][r].at = "counted" =>
            /\ payer[v] = {r}
            /\ \A i \in judging[v][r].pays, q \in PaperRecords : i \notin paid[v][q]
PaidOnce ==
    \A v \in Coders, i \in Items, r, q \in PaperRecords :
        i \in paid[v][r] /\ i \in paid[v][q] => r = q

PaperInv ==
    /\ PaperTypeOK /\ SeatedOnce /\ LocksAreHeld /\ JudgesHold
    /\ PaidIsDone /\ CountsAlone /\ PaidOnce

LEMMA PaperInitially == PaperInit => PaperInv
<1> SUFFICES ASSUME PaperInit PROVE PaperInv
  OBVIOUS
<1>1. PaperTypeOK
  BY DEF PaperInit, PaperTypeOK, EmptySeat, NoClaim, Unlocked, NotJudging, Seats
<1>2. SeatedOnce
  BY PaperAssumption DEF PaperInit, SeatedOnce, OwnSeats, EmptySeat
<1>3. LocksAreHeld /\ JudgesHold
  BY DEF PaperInit, LocksAreHeld, JudgesHold, NoClaim, NotJudging
<1>4. PaidIsDone /\ CountsAlone /\ PaidOnce
  BY DEF PaperInit, PaidIsDone, CountsAlone, PaidOnce, NotJudging
<1> QED BY <1>1, <1>2, <1>3, <1>4 DEF PaperInv

\* What the type invariant says of each part.
LEMMA PaperParts ==
    ASSUME PaperTypeOK
    PROVE  /\ seat \in [PaperRecords -> [Seats -> Seat]]
           /\ record \in [PaperRecords -> [open : BOOLEAN, lock : Lock]]
           /\ \A v \in Coders : claiming[v].took \subseteq PaperRecords
           /\ toppingUp \in [Coders -> SUBSET PaperRecords]
           /\ table \in [Coders -> SUBSET PaperRecords]
           /\ payer \in [Coders -> SUBSET PaperRecords]
           /\ paid \in [Coders -> [PaperRecords -> SUBSET Items]]
BY DEF PaperTypeOK, Seat, Lock

\* Taking free seats of records the coder has none of leaves every other seat.
LEMMA TakingKeepsSeats ==
    ASSUME PaperTypeOK, SeatedOnce, NEW v \in Coders, NEW rs \in SUBSET PaperRecords,
           NEW as \in {"buffered", "started"}, \A r \in rs : MayTake(v, r),
           seat' = Seated(rs, v, as)
    PROVE  /\ seat' \in [PaperRecords -> [Seats -> Seat]]
           /\ SeatedOnce'
           /\ \A r \in PaperRecords \ rs : seat'[r] = seat[r]
           /\ \A w \in Coders, r \in PaperRecords : Done(w, r) => Done(w, r)'
<1> DEFINE taken == [by |-> v, as |-> as]
           lowest(r) == IF seat[r]["human_1"] = EmptySeat THEN "human_1" ELSE "human_2"
<1>1. seat \in [PaperRecords -> [Seats -> Seat]] /\ taken \in Seat /\ taken.by = v
  BY PaperParts DEF Seat
<1>2. ASSUME NEW r \in rs
      PROVE  /\ lowest(r) \in Seats /\ seat[r][lowest(r)] = EmptySeat
             /\ seat'[r] = [seat[r] EXCEPT ![lowest(r)] = taken]
  BY DEF MayTake, HasSeat, Seats, Seated
<1>3. \A r \in PaperRecords \ rs : seat'[r] = seat[r]
  BY DEF Seated
<1>4. EmptySeat.by \notin Coders /\ EmptySeat.as # "done"
  BY PaperAssumption DEF EmptySeat
<1> HIDE DEF taken, lowest
<1>5. ASSUME NEW r \in rs, NEW s \in Seats
      PROVE  seat'[r][s] = IF s = lowest(r) THEN taken ELSE seat[r][s]
  <2>1. seat[r] \in [Seats -> Seat]
    BY <1>1
  <2> QED BY <1>2, <2>1
<1>6. seat' \in [PaperRecords -> [Seats -> Seat]]
  <2>1. seat' = [r \in PaperRecords |-> seat'[r]]
    BY DEF Seated
  <2>2. ASSUME NEW r \in PaperRecords PROVE seat'[r] \in [Seats -> Seat]
    <3>1. seat[r] \in [Seats -> Seat]
      BY <1>1
    <3>2. CASE r \in rs
      <4>1. PICK low \in Seats : seat'[r] = [seat[r] EXCEPT ![low] = taken]
        BY <1>2, <3>2
      <4> QED BY <1>1, <3>1, <4>1
    <3> QED BY <1>3, <3>1, <3>2
  <2> QED BY <2>1, <2>2
<1>7. ASSUME NEW w \in Coders, NEW r \in PaperRecords, NEW s \in OwnSeats(w, r)',
             NEW t \in OwnSeats(w, r)'
      PROVE  s = t
  <2>0. /\ s \in Seats /\ seat'[r][s].by = w
        /\ t \in Seats /\ seat'[r][t].by = w
    BY <1>7 DEF OwnSeats
  <2>1. seat[r][s].by = w /\ seat[r][t].by = w => s = t
    BY <2>0 DEF SeatedOnce, OwnSeats
  <2>2. r \in rs => seat[r][s].by # v /\ seat[r][t].by # v
    BY <2>0 DEF MayTake, OwnSeats
  <2>3. CASE r \notin rs
    BY <1>3, <2>0, <2>1, <2>3
  <2>4. CASE r \in rs
    BY <1>1, <1>5, <2>0, <2>1, <2>2, <2>4
  <2> QED BY <2>3, <2>4
<1>8. ASSUME NEW w \in Coders, NEW r \in PaperRecords, Done(w, r) PROVE Done(w, r)'
  <2>1. PICK s \in Seats : seat[r][s].by = w /\ seat[r][s].as = "done"
    BY <1>8 DEF Done, OwnSeats
  <2>2. seat'[r][s] = seat[r][s]
    BY <1>2, <1>3, <1>4, <1>5, <2>1
  <2> QED BY <2>1, <2>2 DEF Done, OwnSeats
<1>9. SeatedOnce'
  BY <1>7 DEF SeatedOnce
<1> QED BY <1>3, <1>6, <1>8, <1>9

\* Answering keeps every seat where it is.
LEMMA AnsweringKeepsSeats ==
    ASSUME PaperTypeOK, SeatedOnce, NEW v \in Coders, NEW r \in PaperRecords,
           seat' = [seat EXCEPT ![r] = AnsweredBy(v, r)]
    PROVE  /\ seat' \in [PaperRecords -> [Seats -> Seat]]
           /\ SeatedOnce'
           /\ \A q \in PaperRecords \ {r} : seat'[q] = seat[q]
           /\ \A w \in Coders, q \in PaperRecords : Done(w, q) => Done(w, q)'
           /\ Holds(v, r) => Done(v, r)'
<1>1. seat \in [PaperRecords -> [Seats -> Seat]]
  BY PaperParts
<1>2. ASSUME NEW s \in Seats
      PROVE  /\ seat'[r][s] = IF seat[r][s].by = v THEN [seat[r][s] EXCEPT !.as = "done"]
                              ELSE seat[r][s]
             /\ seat[r][s] \in Seat
  BY <1>1 DEF AnsweredBy
<1>3. ASSUME NEW s \in Seats
      PROVE  /\ seat'[r][s] \in Seat /\ seat'[r][s].by = seat[r][s].by
             /\ seat[r][s].by = v => seat'[r][s].as = "done"
             /\ seat[r][s].as = "done" => seat'[r][s].as = "done"
  <2>1. PICK had \in Seat : had = seat[r][s]
    BY <1>2
  <2>2. seat'[r][s] = IF had.by = v THEN [had EXCEPT !.as = "done"] ELSE had
    BY <1>2, <2>1
  <2> QED BY <2>1, <2>2 DEF Seat
<1>4. \A q \in PaperRecords \ {r} : seat'[q] = seat[q]
  BY <1>1
<1>5. seat' \in [PaperRecords -> [Seats -> Seat]]
  <2>1. AnsweredBy(v, r) \in [Seats -> Seat]
    BY <1>1, <1>3 DEF AnsweredBy
  <2> QED BY <1>1, <2>1
<1>6. \A w \in Coders, q \in PaperRecords : OwnSeats(w, q)' = OwnSeats(w, q)
  BY <1>3, <1>4 DEF OwnSeats
<1>7. SeatedOnce'
  BY <1>6 DEF SeatedOnce
<1>8. \A w \in Coders, q \in PaperRecords : Done(w, q) => Done(w, q)'
  BY <1>3, <1>4, <1>6 DEF Done, OwnSeats
<1>9. Holds(v, r) => Done(v, r)'
  BY <1>3, <1>6 DEF Done, Holds, OwnSeats
<1> QED BY <1>4, <1>5, <1>7, <1>8, <1>9

\* Emptying seats nobody has answered from.
LEMMA EmptyingKeepsSeats ==
    ASSUME PaperTypeOK, SeatedOnce, NEW r \in PaperRecords,
           seat' \in [PaperRecords -> [Seats -> Seat]],
           \A q \in PaperRecords \ {r} : seat'[q] = seat[q],
           \A s \in Seats : seat'[r][s] \in {seat[r][s], EmptySeat}
                            /\ (seat[r][s].as = "done" => seat'[r][s] = seat[r][s])
    PROVE  /\ SeatedOnce'
           /\ \A w \in Coders, q \in PaperRecords : Done(w, q) => Done(w, q)'
<1>1. \A w \in Coders, q \in PaperRecords : OwnSeats(w, q)' \subseteq OwnSeats(w, q)
  BY PaperAssumption DEF OwnSeats, EmptySeat
<1>2. SeatedOnce'
  BY <1>1 DEF SeatedOnce
<1>3. \A w \in Coders, q \in PaperRecords : Done(w, q) => Done(w, q)'
  BY DEF Done, OwnSeats
<1> QED BY <1>2, <1>3

\* A step beside the judgements: it leaves the records they have locked.
LEMMA BesideJudgements ==
    ASSUME PaperInv, PaperTypeOK', SeatedOnce', LocksAreHeld', UNCHANGED <<judging, payer, paid>>,
           \A w \in Coders, q \in PaperRecords : Done(w, q) => Done(w, q)',
           \A w \in Coders, q \in PaperRecords :
               record[q].lock = <<"judge", w>> =>
                   seat'[q] = seat[q] /\ record'[q].lock = record[q].lock
    PROVE  PaperInv'
<1>1. JudgesHold'
  BY DEF PaperInv, JudgesHold, Holds, OwnSeats
<1>2. PaidIsDone' /\ CountsAlone' /\ PaidOnce'
  BY DEF PaperInv, PaidIsDone, CountsAlone, PaidOnce
<1> QED BY <1>1, <1>2 DEF PaperInv

LEMMA SeatStepsKeep ==
    ASSUME PaperInv, NEW r \in PaperRecords,
           \/ \E v \in Coders : ServeStarted(v, r) \/ JudgeAlone(v, r)
           \/ Close(r) \/ \E s \in Seats : ClaimLapses(r, s)
    PROVE  PaperInv'
<1>0. PaperTypeOK /\ SeatedOnce /\ LocksAreHeld
  BY DEF PaperInv
<1>1. Free(r) /\ UNCHANGED <<claiming, toppingUp, table, judging, payer, paid>>
  BY DEF ServeStarted, JudgeAlone, Close, ClaimLapses
<1>2. /\ record' \in [PaperRecords -> [open : BOOLEAN, lock : Lock]]
      /\ \A q \in PaperRecords : record'[q].lock = record[q].lock
  <2>1. record \in [PaperRecords -> [open : BOOLEAN, lock : Lock]]
    BY <1>0, PaperParts
  <2>2. CASE Close(r)
    <3>1. PICK had \in [open : BOOLEAN, lock : Lock] : had = record[r]
      BY <2>1
    <3>2. record' = [record EXCEPT ![r] = [had EXCEPT !.open = FALSE]]
      BY <2>2, <3>1 DEF Close
    <3>3. [had EXCEPT !.open = FALSE] \in [open : BOOLEAN, lock : Lock]
          /\ [had EXCEPT !.open = FALSE].lock = had.lock
      OBVIOUS
    <3> QED BY <2>1, <3>1, <3>2, <3>3
  <2>3. CASE record' = record
    BY <2>1, <2>3
  <2> QED BY <2>2, <2>3 DEF ServeStarted, JudgeAlone, ClaimLapses
<1>3. /\ seat' \in [PaperRecords -> [Seats -> Seat]] /\ SeatedOnce'
      /\ \A q \in PaperRecords \ {r} : seat'[q] = seat[q]
      /\ \A w \in Coders, q \in PaperRecords : Done(w, q) => Done(w, q)'
  <2>1. ASSUME NEW v \in Coders, ServeStarted(v, r)
        PROVE  /\ seat' \in [PaperRecords -> [Seats -> Seat]] /\ SeatedOnce'
               /\ \A q \in PaperRecords \ {r} : seat'[q] = seat[q]
               /\ \A w \in Coders, q \in PaperRecords : Done(w, q) => Done(w, q)'
    <3>1. {r} \in SUBSET PaperRecords /\ \A q \in {r} : MayTake(v, q)
      BY <2>1 DEF ServeStarted
    <3>2. seat' = Seated({r}, v, "started")
      BY <2>1 DEF ServeStarted
    <3> QED BY <1>0, <3>1, <3>2, TakingKeepsSeats
  <2>2. ASSUME NEW v \in Coders, JudgeAlone(v, r)
        PROVE  /\ seat' \in [PaperRecords -> [Seats -> Seat]] /\ SeatedOnce'
               /\ \A q \in PaperRecords \ {r} : seat'[q] = seat[q]
               /\ \A w \in Coders, q \in PaperRecords : Done(w, q) => Done(w, q)'
    BY <1>0, <2>2, AnsweringKeepsSeats DEF JudgeAlone
  <2>3. CASE Close(r)
    <3> DEFINE left == [s \in Seats |-> IF seat[r][s].as = "done" THEN seat[r][s] ELSE EmptySeat]
    <3>1. seat' = [seat EXCEPT ![r] = left] /\ seat \in [PaperRecords -> [Seats -> Seat]]
      BY <1>0, <2>3, PaperParts DEF Close
    <3>2. left \in [Seats -> Seat]
      BY <3>1 DEF Seat, EmptySeat
    <3>3. \A s \in Seats : left[s] = IF seat[r][s].as = "done" THEN seat[r][s] ELSE EmptySeat
      OBVIOUS
    <3> HIDE DEF left
    <3>4. seat' \in [PaperRecords -> [Seats -> Seat]]
      BY <3>1, <3>2
    <3>5. seat'[r] = left /\ \A q \in PaperRecords \ {r} : seat'[q] = seat[q]
      BY <3>1
    <3> QED BY <1>0, <3>3, <3>4, <3>5, EmptyingKeepsSeats
  <2>4. ASSUME NEW s \in Seats, ClaimLapses(r, s)
        PROVE  /\ seat' \in [PaperRecords -> [Seats -> Seat]] /\ SeatedOnce'
               /\ \A q \in PaperRecords \ {r} : seat'[q] = seat[q]
               /\ \A w \in Coders, q \in PaperRecords : Done(w, q) => Done(w, q)'
    <3>1. /\ seat' = [seat EXCEPT ![r] = [seat[r] EXCEPT ![s] = EmptySeat]]
          /\ seat \in [PaperRecords -> [Seats -> Seat]] /\ EmptySeat \in Seat
          /\ seat[r][s].as # "done"
      BY <1>0, <2>4, PaperParts DEF ClaimLapses, Seat, EmptySeat
    <3>2. seat' \in [PaperRecords -> [Seats -> Seat]]
      BY <3>1
    <3>3. \A q \in PaperRecords \ {r} : seat'[q] = seat[q]
      BY <3>1
    <3>4. \A t \in Seats : seat'[r][t] = IF t = s THEN EmptySeat ELSE seat[r][t]
      BY <3>1
    <3> QED BY <1>0, <3>1, <3>2, <3>3, <3>4, EmptyingKeepsSeats
  <2> QED BY <2>1, <2>2, <2>3, <2>4
<1>4. PaperTypeOK'
  BY <1>0, <1>1, <1>2, <1>3 DEF PaperTypeOK, Seat, Lock
<1>5. LocksAreHeld'
  BY <1>0, <1>1, <1>2, PaperParts DEF LocksAreHeld
<1>6. \A w \in Coders, q \in PaperRecords :
         record[q].lock = <<"judge", w>> => seat'[q] = seat[q] /\ record'[q].lock = record[q].lock
  BY <1>1, <1>2, <1>3 DEF Free, Unlocked
<1> QED BY <1>1, <1>3, <1>4, <1>5, <1>6, BesideJudgements

\* The locks a transaction takes or gives back; the records it leaves alone stay.
LEMMA LockingKeeps ==
    ASSUME PaperTypeOK, NEW rs \in SUBSET PaperRecords, NEW lock \in Lock,
           record' = LockedBy(rs, lock)
    PROVE  /\ record' \in [PaperRecords -> [open : BOOLEAN, lock : Lock]]
           /\ \A r \in rs : record'[r].lock = lock
           /\ \A r \in PaperRecords \ rs : record'[r] = record[r]
<1>1. record \in [PaperRecords -> [open : BOOLEAN, lock : Lock]]
  BY PaperParts
<1>2. ASSUME NEW r \in rs
      PROVE  record'[r] \in [open : BOOLEAN, lock : Lock] /\ record'[r].lock = lock
  <2>1. PICK had \in [open : BOOLEAN, lock : Lock] : had = record[r]
    BY <1>1
  <2>2. record'[r] = [had EXCEPT !.lock = lock]
    BY <2>1 DEF LockedBy
  <2> QED BY <2>2
<1>3. \A r \in PaperRecords \ rs : record'[r] = record[r]
  BY DEF LockedBy
<1>4. record' = [r \in PaperRecords |-> record'[r]]
  BY DEF LockedBy
<1> QED BY <1>1, <1>2, <1>3, <1>4

\* A top-up and a claim write only what they have locked or find free.
LEMMA TopUpKeeps ==
    ASSUME PaperInv, NEW v \in Coders,
           TopUpCommits(v) \/ \E r \in PaperRecords : TopUpLocks(v, r)
    PROVE  PaperInv'
<1>0. PaperTypeOK /\ SeatedOnce /\ LocksAreHeld /\ JudgesHold
  BY DEF PaperInv
<1>1. UNCHANGED <<claiming, table, judging, payer, paid>>
  BY DEF TopUpCommits, TopUpLocks
<1>2. ASSUME NEW r \in PaperRecords, TopUpLocks(v, r) PROVE PaperInv'
  <2>1. /\ toppingUp' = [toppingUp EXCEPT ![v] = {r}] /\ Free(r) /\ seat' = seat
        /\ record' = LockedBy({r}, <<"top-up", v>>)
    BY <1>2 DEF TopUpLocks
  <2>2. {r} \in SUBSET PaperRecords /\ <<"top-up", v>> \in Lock
    BY DEF Lock
  <2>3. /\ record' \in [PaperRecords -> [open : BOOLEAN, lock : Lock]]
        /\ record'[r].lock = <<"top-up", v>>
        /\ \A q \in PaperRecords \ {r} : record'[q] = record[q]
    BY <1>0, <2>1, <2>2, LockingKeeps
  <2>4. /\ toppingUp' \in [Coders -> SUBSET PaperRecords] /\ toppingUp'[v] = {r}
        /\ \A w \in Coders \ {v} : toppingUp'[w] = toppingUp[w]
    BY <1>0, <2>1, PaperParts
  <2>5. PaperTypeOK'
    BY <1>0, <1>1, <2>1, <2>3, <2>4 DEF PaperTypeOK, Lock
  <2>6. \A w \in Coders, q \in PaperRecords : record[r].lock # <<"claim", w>>
            /\ record[r].lock # <<"top-up", w>> /\ record[r].lock # <<"judge", w>>
    BY <2>1 DEF Free, Unlocked
  <2>7. LocksAreHeld'
    <3>1. \A w \in Coders : claiming'[w].took \subseteq PaperRecords
                            /\ toppingUp[w] \subseteq PaperRecords
      BY <1>0, <1>1, PaperParts
    <3> QED BY <1>0, <1>1, <2>3, <2>4, <2>6, <3>1 DEF LocksAreHeld
  <2>8. SeatedOnce' /\ \A w \in Coders, q \in PaperRecords : Done(w, q) => Done(w, q)'
    BY <1>0, <2>1 DEF SeatedOnce, Done, OwnSeats
  <2> QED BY <1>1, <2>1, <2>3, <2>5, <2>6, <2>7, <2>8, BesideJudgements
<1>3. CASE TopUpCommits(v)
  <2> DEFINE rs == toppingUp[v]
             takes == {r \in rs : MayTake(v, r)}
  <2>1. /\ toppingUp' = [toppingUp EXCEPT ![v] = {}]
        /\ seat' = Seated(takes, v, "buffered") /\ record' = LockedBy(rs, Unlocked)
    BY <1>3 DEF TopUpCommits
  <2>2. rs \in SUBSET PaperRecords /\ takes \in SUBSET PaperRecords /\ Unlocked \in Lock
        /\ (\A r \in takes : MayTake(v, r)) /\ takes \subseteq rs
    BY <1>0, PaperParts DEF Lock, Unlocked
  <2>3. \A r \in rs : record[r].lock = <<"top-up", v>>
    BY <1>0 DEF LocksAreHeld
  <2>4. /\ toppingUp' \in [Coders -> SUBSET PaperRecords] /\ toppingUp'[v] = {}
        /\ \A w \in Coders \ {v} : toppingUp'[w] = toppingUp[w]
    BY <1>0, <2>1, PaperParts
  <2> HIDE DEF rs, takes
  <2>5. /\ record' \in [PaperRecords -> [open : BOOLEAN, lock : Lock]]
        /\ \A q \in PaperRecords \ rs : record'[q] = record[q]
    BY <1>0, <2>1, <2>2, LockingKeeps
  <2>6. /\ seat' \in [PaperRecords -> [Seats -> Seat]] /\ SeatedOnce'
        /\ \A q \in PaperRecords \ takes : seat'[q] = seat[q]
        /\ \A w \in Coders, q \in PaperRecords : Done(w, q) => Done(w, q)'
    BY <1>0, <2>1, <2>2, TakingKeepsSeats
  <2>7. PaperTypeOK'
    BY <1>0, <1>1, <2>4, <2>5, <2>6 DEF PaperTypeOK, Seat, Lock
  <2>8. LocksAreHeld'
    <3>1. \A w \in Coders : claiming'[w].took \subseteq PaperRecords
                            /\ toppingUp[w] \subseteq PaperRecords
      BY <1>0, <1>1, PaperParts
    <3> QED BY <1>0, <1>1, <2>3, <2>4, <2>5, <3>1 DEF LocksAreHeld
  <2>9. \A w \in Coders, q \in PaperRecords : record[q].lock = <<"judge", w>> =>
            seat'[q] = seat[q] /\ record'[q].lock = record[q].lock
    BY <2>2, <2>3, <2>5, <2>6
  <2> QED BY <1>1, <2>6, <2>7, <2>8, <2>9, BesideJudgements
<1> QED BY <1>2, <1>3

LEMMA ClaimKeeps ==
    ASSUME PaperInv, NEW v \in Coders,
           \/ ClaimReads(v) \/ ClaimCommits(v) \/ Refresh(v)
           \/ \E r \in PaperRecords : ClaimLocks(v, r)
    PROVE  PaperInv'
<1>0. PaperTypeOK /\ SeatedOnce /\ LocksAreHeld /\ JudgesHold
  BY DEF PaperInv
<1>1. UNCHANGED <<toppingUp, judging, payer, paid>>
  BY DEF ClaimReads, ClaimCommits, Refresh, ClaimLocks
<1>2. \A w \in Coders : claiming[w].took \subseteq PaperRecords
                        /\ toppingUp[w] \subseteq PaperRecords
  BY <1>0, PaperParts
<1> DEFINE Claims == [at : {"no", "locked", "read"}, took : SUBSET PaperRecords,
                      own : SUBSET PaperRecords]
<1>3. claiming \in [Coders -> Claims]
  BY <1>0 DEF PaperTypeOK
<1>4. ASSUME NEW r \in PaperRecords, ClaimLocks(v, r) PROVE PaperInv'
  <2> DEFINE free == {q \in PaperRecords : Free(q)}
             claim == [at |-> "locked", took |-> free, own |-> {}]
  <2>1. /\ claiming' = [claiming EXCEPT ![v] = claim] /\ claim \in Claims
        /\ claim.took = free /\ UNCHANGED <<seat, table>>
        /\ record' = LockedBy(free, <<"claim", v>>)
    BY <1>4 DEF ClaimLocks
  <2>2. free \in SUBSET PaperRecords /\ <<"claim", v>> \in Lock
        /\ \A q \in free : record[q].lock = Unlocked
    BY DEF Lock, Free
  <2> HIDE DEF free, claim
  <2>3. /\ record' \in [PaperRecords -> [open : BOOLEAN, lock : Lock]]
        /\ \A q \in free : record'[q].lock = <<"claim", v>>
        /\ \A q \in PaperRecords \ free : record'[q] = record[q]
    BY <1>0, <2>1, <2>2, LockingKeeps
  <2>4. /\ claiming' \in [Coders -> Claims] /\ claiming'[v].took = free
        /\ \A w \in Coders \ {v} : claiming'[w] = claiming[w]
    BY <1>3, <2>1
  <2>5. PaperTypeOK'
    BY <1>0, <1>1, <2>1, <2>3, <2>4 DEF PaperTypeOK, Lock
  <2>6. \A w \in Coders, q \in free : record[q].lock # <<"claim", w>>
            /\ record[q].lock # <<"top-up", w>> /\ record[q].lock # <<"judge", w>>
    BY <2>2 DEF Unlocked
  <2>7. LocksAreHeld'
    BY <1>0, <1>1, <1>2, <2>3, <2>4, <2>6 DEF LocksAreHeld
  <2>8. SeatedOnce' /\ \A w \in Coders, q \in PaperRecords : Done(w, q) => Done(w, q)'
    BY <1>0, <2>1 DEF SeatedOnce, Done, OwnSeats
  <2> QED BY <1>1, <2>1, <2>3, <2>5, <2>6, <2>7, <2>8, BesideJudgements
<1>5. CASE ClaimReads(v)
  <2> DEFINE own == {r \in PaperRecords : OwnSeats(v, r) # {}}
             read == [claiming[v] EXCEPT !.at = "read"]
             claim == [read EXCEPT !.own = own]
  <2>1. /\ claiming' = [claiming EXCEPT ![v] = claim]
        /\ UNCHANGED <<seat, record, table>> /\ own \in SUBSET PaperRecords
    BY <1>5 DEF ClaimReads
  <2>2. read \in Claims /\ read.took = claiming[v].took
    <3>1. claiming[v] \in Claims
      BY <1>3
    <3> QED BY <3>1
  <2> HIDE DEF own, read
  <2>3. claim \in Claims /\ claim.took = read.took
    BY <2>1, <2>2
  <2> HIDE DEF claim
  <2>4. /\ claiming' \in [Coders -> Claims]
        /\ \A w \in Coders : claiming'[w].took = claiming[w].took
    BY <1>3, <2>1, <2>2, <2>3
  <2>5. PaperTypeOK'
    BY <1>0, <1>1, <2>1, <2>4 DEF PaperTypeOK
  <2>6. LocksAreHeld' /\ SeatedOnce'
        /\ \A w \in Coders, q \in PaperRecords : Done(w, q) => Done(w, q)'
    BY <1>0, <1>1, <2>1, <2>4 DEF LocksAreHeld, SeatedOnce, Done, OwnSeats
  <2> QED BY <1>1, <2>1, <2>5, <2>6, BesideJudgements
<1>6. CASE ClaimCommits(v)
  <2> DEFINE mine == claiming[v].took
             tries == {r \in PaperRecords \ claiming[v].own : r \in mine \/ Free(r)}
             takes == {r \in tries : MayTake(v, r)}
             lists == {r \in PaperRecords : /\ record[r].open
                                            /\ \/ r \in takes \/ Holds(v, r)
                                               \/ r \in claiming[v].own /\ ~Done(v, r)}
  <2>1. /\ seat' = Seated(takes, v, "buffered") /\ table' = [table EXCEPT ![v] = lists]
        /\ record' = LockedBy(mine, Unlocked) /\ claiming' = [claiming EXCEPT ![v] = NoClaim]
    BY <1>6 DEF ClaimCommits
  <2>2. /\ mine \in SUBSET PaperRecords /\ takes \in SUBSET PaperRecords
        /\ \A r \in takes : MayTake(v, r) /\ (r \in mine \/ Free(r))
        /\ \A r \in mine : record[r].lock = <<"claim", v>>
        /\ Unlocked \in Lock /\ lists \in SUBSET PaperRecords
    BY <1>0, <1>2 DEF LocksAreHeld, Lock, Unlocked
  <2> HIDE DEF mine, takes, lists
  <2>3. /\ record' \in [PaperRecords -> [open : BOOLEAN, lock : Lock]]
        /\ \A q \in PaperRecords \ mine : record'[q] = record[q]
    BY <1>0, <2>1, <2>2, LockingKeeps
  <2>4. /\ seat' \in [PaperRecords -> [Seats -> Seat]] /\ SeatedOnce'
        /\ \A q \in PaperRecords \ takes : seat'[q] = seat[q]
        /\ \A w \in Coders, q \in PaperRecords : Done(w, q) => Done(w, q)'
    BY <1>0, <2>1, <2>2, TakingKeepsSeats
  <2>5. /\ claiming' \in [Coders -> Claims] /\ claiming'[v].took = {}
        /\ \A w \in Coders \ {v} : claiming'[w] = claiming[w]
    BY <1>3, <2>1 DEF NoClaim
  <2>6. table' \in [Coders -> SUBSET PaperRecords]
    BY <1>0, <2>1, <2>2, PaperParts
  <2>7. PaperTypeOK'
    BY <1>0, <1>1, <2>3, <2>4, <2>5, <2>6 DEF PaperTypeOK, Seat, Lock
  <2>8. LocksAreHeld'
    BY <1>0, <1>1, <1>2, <2>2, <2>3, <2>5 DEF LocksAreHeld
  <2>9. \A w \in Coders, q \in PaperRecords : record[q].lock = <<"judge", w>> =>
            seat'[q] = seat[q] /\ record'[q].lock = record[q].lock
    BY <2>2, <2>3, <2>4 DEF Free, Unlocked
  <2> QED BY <1>1, <2>4, <2>7, <2>8, <2>9, BesideJudgements
<1>7. CASE Refresh(v)
  <2>1. UNCHANGED <<seat, record, claiming>> /\ table' \in [Coders -> SUBSET PaperRecords]
    <3>1. table \in [Coders -> SUBSET PaperRecords]
      BY <1>0, PaperParts
    <3> QED BY <1>7, <3>1 DEF Refresh
  <2>2. PaperTypeOK'
    BY <1>0, <1>1, <2>1 DEF PaperTypeOK
  <2>3. LocksAreHeld' /\ SeatedOnce'
        /\ \A w \in Coders, q \in PaperRecords : Done(w, q) => Done(w, q)'
    BY <1>0, <1>1, <2>1 DEF LocksAreHeld, SeatedOnce, Done, OwnSeats
  <2> QED BY <1>1, <2>1, <2>2, <2>3, BesideJudgements
<1> QED BY <1>4, <1>5, <1>6, <1>7

\* The lock of a record no claim or top-up has changes hands.
LEMMA LocksStay ==
    ASSUME PaperTypeOK, LocksAreHeld, UNCHANGED <<claiming, toppingUp>>, NEW r \in PaperRecords,
           \A w \in Coders :
               record[r].lock # <<"claim", w>> /\ record[r].lock # <<"top-up", w>>,
           \A q \in PaperRecords \ {r} : record'[q] = record[q]
    PROVE  LocksAreHeld'
<1>1. \A w \in Coders : claiming[w].took \subseteq PaperRecords
                        /\ toppingUp[w] \subseteq PaperRecords
  BY PaperParts
<1>2. ASSUME NEW w \in Coders, NEW q \in claiming[w].took
      PROVE  record'[q].lock = <<"claim", w>>
  <2>1. record[q].lock = <<"claim", w>>
    BY DEF LocksAreHeld
  <2>2. q # r /\ q \in PaperRecords
    BY <1>1, <2>1
  <2> QED BY <2>1, <2>2
<1>3. ASSUME NEW w \in Coders, NEW q \in toppingUp[w]
      PROVE  record'[q].lock = <<"top-up", w>>
  <2>1. record[q].lock = <<"top-up", w>>
    BY DEF LocksAreHeld
  <2>2. q # r /\ q \in PaperRecords
    BY <1>1, <2>1
  <2> QED BY <2>1, <2>2
<1> QED BY <1>2, <1>3 DEF LocksAreHeld

\* The coder's judgements besides this one stay as they are.
LEMMA JudgementLocks ==
    ASSUME PaperInv, NEW v \in Coders, NEW r \in PaperRecords, JudgeLocks(v, r)
    PROVE  PaperInv'
<1> DEFINE Judging == [at : {"no", "checked", "counted"}, pays : SUBSET Items]
<1>0. PaperTypeOK /\ SeatedOnce /\ LocksAreHeld /\ JudgesHold
  BY DEF PaperInv
<1>1. /\ UNCHANGED <<seat, claiming, toppingUp, table, payer, paid>> /\ Free(r) /\ Holds(v, r)
      /\ record' = LockedBy({r}, <<"judge", v>>)
  BY DEF JudgeLocks
<1>2. {r} \in SUBSET PaperRecords /\ <<"judge", v>> \in Lock
  BY DEF Lock
<1>3. /\ record' \in [PaperRecords -> [open : BOOLEAN, lock : Lock]]
      /\ record'[r].lock = <<"judge", v>>
      /\ \A q \in PaperRecords \ {r} : record'[q] = record[q]
  BY <1>0, <1>1, <1>2, LockingKeeps
<1>4. /\ judging' \in [Coders -> [PaperRecords -> Judging]]
      /\ judging'[v][r].at = "checked"
      /\ \A w \in Coders, q \in PaperRecords :
             judging'[w][q] = judging[w][q] \/ (w = v /\ q = r)
  <2>1. judging \in [Coders -> [PaperRecords -> Judging]]
    BY <1>0 DEF PaperTypeOK
  <2>2. PICK had \in [PaperRecords -> Judging] : had = judging[v]
    BY <2>1
  <2>3. PICK was \in Judging : was = had[r]
    BY <2>2
  <2> DEFINE now == [was EXCEPT !.at = "checked"]
  <2>4. now \in Judging /\ now.at = "checked"
    BY <2>3
  <2>5. judging' = [judging EXCEPT ![v] = [had EXCEPT ![r] = now]]
    BY <2>2, <2>3 DEF JudgeLocks
  <2> HIDE DEF now, Judging
  <2> QED BY <2>1, <2>2, <2>4, <2>5
<1>5. PaperTypeOK'
  BY <1>0, <1>1, <1>3, <1>4 DEF PaperTypeOK, Lock
<1>6. \A w \in Coders : record[r].lock # <<"claim", w>>
            /\ record[r].lock # <<"top-up", w>> /\ record[r].lock # <<"judge", w>>
  BY <1>1 DEF Free, Unlocked
<1>7. LocksAreHeld' /\ JudgesHold'
  <2>1. LocksAreHeld'
    BY <1>0, <1>1, <1>3, <1>6, LocksStay
  <2>2. ASSUME NEW w \in Coders, NEW q \in PaperRecords, judging'[w][q].at # "no"
        PROVE  record'[q].lock = <<"judge", w>> /\ Holds(w, q)'
    <3>1. Holds(w, q)' <=> Holds(w, q)
      BY <1>1 DEF Holds, OwnSeats
    <3>2. CASE w = v /\ q = r
      BY <1>1, <1>3, <3>1, <3>2
    <3>3. CASE ~(w = v /\ q = r)
      <4>1. record[q].lock = <<"judge", w>> /\ Holds(w, q)
        BY <1>0, <1>4, <2>2, <3>3 DEF JudgesHold
      <4>2. q # r
        BY <1>6, <4>1
      <4> QED BY <1>3, <3>1, <4>1, <4>2
    <3> QED BY <3>2, <3>3
  <2> QED BY <2>1, <2>2 DEF JudgesHold
<1>8. SeatedOnce' /\ PaidIsDone' /\ PaidOnce'
  <2>1. \A u \in Coders, q \in PaperRecords :
            OwnSeats(u, q)' = OwnSeats(u, q) /\ (Done(u, q)' <=> Done(u, q))
    BY <1>1 DEF Done, OwnSeats
  <2>2. SeatedOnce' /\ PaidIsDone'
    BY <1>1, <2>1 DEF PaperInv, SeatedOnce, PaidIsDone
  <2>3. PaidOnce'
    BY <1>1 DEF PaperInv, PaidOnce
  <2> QED BY <2>2, <2>3
<1>9. CountsAlone'
  <2> SUFFICES ASSUME NEW u \in Coders, NEW q \in PaperRecords,
                      judging'[u][q].at = "counted"
               PROVE  /\ payer'[u] = {q}
                      /\ \A i \in judging'[u][q].pays, t \in PaperRecords : i \notin paid'[u][t]
    BY DEF CountsAlone
  <2>1. judging'[u][q] = judging[u][q]
    BY <1>4
  <2>2. /\ payer[u] = {q}
        /\ \A i \in judging[u][q].pays, t \in PaperRecords : i \notin paid[u][t]
    BY <2>1 DEF PaperInv, CountsAlone
  <2> QED BY <1>1, <2>1, <2>2
<1> QED BY <1>5, <1>7, <1>8, <1>9 DEF PaperInv

\* What a judgement counts, no answer of the coder has been paid for.
LEMMA CountingKeeps ==
    ASSUME PaperInv, NEW v \in Coders, NEW r \in PaperRecords, CountPoints(v, r)
    PROVE  PaperInv'
<1> DEFINE Judging == [at : {"no", "checked", "counted"}, pays : SUBSET Items]
<1>0. PaperTypeOK /\ SeatedOnce /\ LocksAreHeld /\ JudgesHold /\ PaidIsDone
  BY DEF PaperInv
<1>1. /\ UNCHANGED <<seat, record, claiming, toppingUp, table, paid>>
      /\ judging[v][r].at = "checked" /\ payer[v] = {}
      /\ payer' = [payer EXCEPT ![v] = payer[v] \cup {r}]
  BY DEF CountPoints, RowIsFree
<1>2. PICK group \in Groups :
          judging' = [judging EXCEPT ![v][r] = [at |-> "counted", pays |-> Pays(v, r, group)]]
  BY DEF CountPoints
<1> DEFINE pays == Pays(v, r, group)
           now == [at |-> "counted", pays |-> pays]
<1>3. ~Done(v, r)
  BY <1>0, <1>1 DEF JudgesHold, Holds, Done, SeatedOnce
<1>4. \A i \in pays, q \in PaperRecords : i \notin paid[v][q]
  <2>1. ASSUME NEW q \in PaperRecords, NEW i \in paid[v][q]
        PROVE  q \in {x \in PaperRecords \ {r} : Done(v, x)}
    BY <1>0, <1>3, <2>1 DEF PaidIsDone
  <2>2. ASSUME NEW q \in PaperRecords, NEW i \in paid[v][q], i \in pays PROVE FALSE
    <3>1. {x \in PaperRecords \ {r} : Done(v, x)} # {}
      BY <2>1, <2>2
    <3>2. i = group /\ ~\E x \in {x \in PaperRecords \ {r} : Done(v, x)} : group \in paid[v][x]
      BY <2>2, <3>1 DEF Pays
    <3> QED BY <2>1, <2>2, <3>2
  <2> QED BY <2>2
<1>5. now \in Judging /\ now.at = "counted" /\ now.pays = pays
  BY DEF Pays, Items
<1> HIDE DEF pays, now, Judging
<1>6. /\ judging' \in [Coders -> [PaperRecords -> Judging]] /\ judging'[v][r] = now
      /\ \A w \in Coders, q \in PaperRecords :
             judging'[w][q] = judging[w][q] \/ (w = v /\ q = r)
  <2>1. judging \in [Coders -> [PaperRecords -> Judging]]
    BY <1>0 DEF PaperTypeOK, Judging
  <2>2. PICK had \in [PaperRecords -> Judging] : had = judging[v]
    BY <2>1
  <2>3. judging' = [judging EXCEPT ![v] = [had EXCEPT ![r] = now]]
    BY <1>2, <2>2 DEF now, pays
  <2> QED BY <1>5, <2>1, <2>2, <2>3
<1>7. payer' \in [Coders -> SUBSET PaperRecords] /\ payer'[v] = {r}
      /\ \A w \in Coders \ {v} : payer'[w] = payer[w]
  BY <1>0, <1>1, PaperParts
<1>8. PaperTypeOK'
  BY <1>0, <1>1, <1>6, <1>7 DEF PaperTypeOK, Judging
<1>9. SeatedOnce' /\ LocksAreHeld' /\ PaidIsDone' /\ PaidOnce'
  BY <1>1 DEF PaperInv, SeatedOnce, LocksAreHeld, PaidIsDone, PaidOnce, Done, OwnSeats
<1>10. JudgesHold'
  <2>1. ASSUME NEW w \in Coders, NEW q \in PaperRecords, judging'[w][q].at # "no"
        PROVE  record'[q].lock = <<"judge", w>> /\ Holds(w, q)'
    <3>1. Holds(w, q)' <=> Holds(w, q)
      BY <1>1 DEF Holds, OwnSeats
    <3>2. judging[w][q].at # "no"
      BY <1>1, <1>6, <2>1
    <3> QED BY <1>0, <1>1, <3>1, <3>2 DEF JudgesHold
  <2> QED BY <2>1 DEF JudgesHold
<1>11. CountsAlone'
  <2>1. ASSUME NEW w \in Coders, NEW q \in PaperRecords, judging'[w][q].at = "counted"
        PROVE  /\ payer'[w] = {q}
               /\ \A i \in judging'[w][q].pays, p \in PaperRecords : i \notin paid'[w][p]
    <3>1. CASE w = v /\ q = r
      BY <1>1, <1>4, <1>5, <1>6, <1>7, <3>1
    <3>2. CASE ~(w = v /\ q = r)
      <4>1. judging'[w][q] = judging[w][q]
        BY <1>6, <3>2
      <4>2. /\ payer[w] = {q}
            /\ \A i \in judging[w][q].pays, p \in PaperRecords : i \notin paid[w][p]
        BY <2>1, <4>1 DEF PaperInv, CountsAlone
      <4>3. w # v
        BY <1>1, <4>2
      <4> QED BY <1>1, <1>7, <4>1, <4>2, <4>3
    <3> QED BY <3>1, <3>2
  <2> QED BY <2>1 DEF CountsAlone
<1> QED BY <1>8, <1>9, <1>10, <1>11 DEF PaperInv

\* An answer is stored with what it is paid for, or not at all.
LEMMA EndingKeeps ==
    ASSUME PaperInv, NEW v \in Coders, NEW r \in PaperRecords, JudgeEnds(v, r)
    PROVE  PaperInv'
<1> DEFINE Judging == [at : {"no", "checked", "counted"}, pays : SUBSET Items]
           pays == judging[v][r].pays
<1>0. PaperTypeOK /\ SeatedOnce /\ LocksAreHeld /\ JudgesHold /\ PaidIsDone /\ PaidOnce
  BY DEF PaperInv
<1>1. /\ judging[v][r].at = "counted" /\ UNCHANGED <<claiming, toppingUp, table>>
      /\ judging' = [judging EXCEPT ![v][r] = NotJudging]
      /\ payer' = [payer EXCEPT ![v] = payer[v] \ {r}]
      /\ record' = LockedBy({r}, Unlocked)
  BY DEF JudgeEnds
<1>2. /\ record[r].lock = <<"judge", v>> /\ Holds(v, r) /\ payer[v] = {r}
      /\ \A i \in pays, q \in PaperRecords : i \notin paid[v][q]
  BY <1>1 DEF PaperInv, JudgesHold, CountsAlone
<1>3. /\ record' \in [PaperRecords -> [open : BOOLEAN, lock : Lock]]
      /\ \A q \in PaperRecords \ {r} : record'[q] = record[q]
  <2>1. {r} \in SUBSET PaperRecords /\ Unlocked \in Lock
    BY DEF Lock, Unlocked
  <2> QED BY <1>0, <1>1, <2>1, LockingKeeps
<1>4. judging \in [Coders -> [PaperRecords -> Judging]] /\ pays \in SUBSET Items
  BY <1>0 DEF PaperTypeOK
<1> HIDE DEF Judging, pays
<1>5. /\ judging' \in [Coders -> [PaperRecords -> Judging]] /\ judging'[v][r].at = "no"
      /\ \A w \in Coders, q \in PaperRecords :
             judging'[w][q] = judging[w][q] \/ (w = v /\ q = r)
  <2>1. PICK had \in [PaperRecords -> Judging] : had = judging[v]
    BY <1>4
  <2>2. judging' = [judging EXCEPT ![v] = [had EXCEPT ![r] = NotJudging]]
    BY <1>1, <2>1
  <2>3. NotJudging \in Judging /\ NotJudging.at = "no"
    BY DEF NotJudging, Judging
  <2> QED BY <1>4, <2>1, <2>2, <2>3
<1>6. payer' \in [Coders -> SUBSET PaperRecords]
      /\ \A w \in Coders \ {v} : payer'[w] = payer[w]
  BY <1>0, <1>1, PaperParts
<1>7. /\ seat' \in [PaperRecords -> [Seats -> Seat]] /\ SeatedOnce'
      /\ \A q \in PaperRecords \ {r} : seat'[q] = seat[q]
      /\ \A w \in Coders, q \in PaperRecords : Done(w, q) => Done(w, q)'
      /\ seat' = seat \/ Done(v, r)'
  <2>1. CASE seat' = [seat EXCEPT ![r] = AnsweredBy(v, r)]
    BY <1>0, <1>2, <2>1, AnsweringKeepsSeats
  <2>2. CASE seat' = seat
    BY <1>0, <2>2, PaperParts DEF SeatedOnce, Done, OwnSeats
  <2> QED BY <2>1, <2>2 DEF JudgeEnds
<1>8. paid \in [Coders -> [PaperRecords -> SUBSET Items]]
  BY <1>0, PaperParts
<1>9. /\ paid' \in [Coders -> [PaperRecords -> SUBSET Items]]
      /\ \A w \in Coders, q \in PaperRecords :
             paid'[w][q] = paid[w][q] \/ (w = v /\ q = r /\ paid'[w][q] = pays /\ Done(v, r)')
  <2>1. CASE paid' = paid
    BY <1>8, <2>1
  <2>2. CASE /\ seat' = [seat EXCEPT ![r] = AnsweredBy(v, r)]
             /\ paid' = [paid EXCEPT ![v][r] = pays]
    <3>1. PICK had \in [PaperRecords -> SUBSET Items] : had = paid[v]
      BY <1>8
    <3>2. paid' = [paid EXCEPT ![v] = [had EXCEPT ![r] = pays]]
      BY <2>2, <3>1
    <3>3. Done(v, r)'
      BY <1>0, <1>2, <2>2, AnsweringKeepsSeats
    <3> QED BY <1>4, <1>8, <3>1, <3>2, <3>3
  <2> QED BY <2>1, <2>2 DEF JudgeEnds, pays
<1>10. PaperTypeOK'
  BY <1>0, <1>1, <1>3, <1>5, <1>6, <1>7, <1>9 DEF PaperTypeOK, Seat, Lock, Judging
<1>11. LocksAreHeld'
  <2>1. \A w \in Coders :
            record[r].lock # <<"claim", w>> /\ record[r].lock # <<"top-up", w>>
    BY <1>2
  <2> QED BY <1>0, <1>1, <1>3, <2>1, LocksStay
<1>12. JudgesHold'
  <2>1. ASSUME NEW w \in Coders, NEW q \in PaperRecords, judging'[w][q].at # "no"
        PROVE  record'[q].lock = <<"judge", w>> /\ Holds(w, q)'
    <3>1. judging[w][q].at # "no" /\ ~(w = v /\ q = r)
      BY <1>5, <2>1
    <3>2. record[q].lock = <<"judge", w>> /\ Holds(w, q)
      BY <1>0, <3>1 DEF JudgesHold
    <3>3. q # r
      BY <1>2, <3>1, <3>2
    <3> QED BY <1>3, <1>7, <3>2, <3>3 DEF Holds, OwnSeats
  <2> QED BY <2>1 DEF JudgesHold
<1>13. PaidIsDone'
  BY <1>0, <1>7, <1>9 DEF PaidIsDone
<1>14. PaidOnce'
  <2>1. ASSUME NEW w \in Coders, NEW i \in Items, NEW p \in PaperRecords, NEW q \in PaperRecords,
               i \in paid'[w][p], i \in paid'[w][q]
        PROVE  p = q
    BY <1>0, <1>2, <1>9, <2>1 DEF PaidOnce
  <2> QED BY <2>1 DEF PaidOnce
<1>15. CountsAlone'
  <2>1. ASSUME NEW w \in Coders, NEW q \in PaperRecords, judging'[w][q].at = "counted"
        PROVE  /\ payer'[w] = {q}
               /\ \A i \in judging'[w][q].pays, p \in PaperRecords : i \notin paid'[w][p]
    <3>1. judging[w][q].at = "counted" /\ judging'[w][q] = judging[w][q] /\ ~(w = v /\ q = r)
      BY <1>5, <2>1
    <3>2. /\ payer[w] = {q}
          /\ \A i \in judging[w][q].pays, p \in PaperRecords : i \notin paid[w][p]
      BY <3>1 DEF PaperInv, CountsAlone
    <3>3. w # v
      BY <1>2, <3>1, <3>2
    <3> QED BY <1>6, <1>9, <3>1, <3>2, <3>3
  <2> QED BY <2>1 DEF CountsAlone
<1> QED BY <1>7, <1>10, <1>11, <1>12, <1>13, <1>14, <1>15 DEF PaperInv

LEMMA PaperStep == PaperInv /\ [PaperNext]_paperVars => PaperInv'
<1> SUFFICES ASSUME PaperInv, [PaperNext]_paperVars PROVE PaperInv'
  OBVIOUS
<1>1. CASE UNCHANGED paperVars
  <2>1. UNCHANGED <<seat, record, claiming, toppingUp, table, judging, payer, paid>>
    BY <1>1 DEF paperVars
  <2>2. PaperTypeOK'
    BY <2>1 DEF PaperInv, PaperTypeOK
  <2>3. SeatedOnce' /\ LocksAreHeld'
        /\ \A w \in Coders, q \in PaperRecords : Done(w, q) => Done(w, q)'
    BY <2>1 DEF PaperInv, SeatedOnce, LocksAreHeld, Done, OwnSeats
  <2> QED BY <2>1, <2>2, <2>3, BesideJudgements
<1>2. CASE PaperNext
  <2>1. ASSUME NEW v \in Coders, NEW r \in PaperRecords, ServeStarted(v, r) \/ JudgeAlone(v, r)
        PROVE  PaperInv'
    BY <2>1, SeatStepsKeep
  <2>2. ASSUME NEW r \in PaperRecords, Close(r) \/ \E s \in Seats : ClaimLapses(r, s)
        PROVE  PaperInv'
    BY <2>2, SeatStepsKeep
  <2>3. ASSUME NEW v \in AtTables,
               \/ TopUpCommits(v) \/ ClaimReads(v) \/ ClaimCommits(v) \/ Refresh(v)
               \/ \E r \in PaperRecords : \/ TopUpLocks(v, r) \/ ClaimLocks(v, r)
                                          \/ JudgeLocks(v, r) \/ CountPoints(v, r)
                                          \/ JudgeEnds(v, r)
        PROVE  PaperInv'
    <3>1. v \in Coders
      BY PaperAssumption
    <3> QED BY <2>3, <3>1, TopUpKeeps, ClaimKeeps, JudgementLocks, CountingKeeps, EndingKeeps
  <2> QED BY <1>2, <2>1, <2>2, <2>3 DEF PaperNext
<1> QED BY <1>1, <1>2

LEMMA PaperInvariance == PaperSpec => []PaperInv
BY PaperInitially, PaperStep, PTL DEF PaperSpec

LEMMA AtMostOne ==
    ASSUME NEW S, \A x, y \in S : x = y
    PROVE  Cardinality(S) <= 1
<1>1. CASE S = {}
  BY <1>1, FS_EmptySet
<1>2. ASSUME NEW x \in S PROVE Cardinality(S) <= 1
  <2>1. S = {x}
    BY <1>2
  <2> QED BY <2>1, FS_Singleton
<1> QED BY <1>1, <1>2

\* A claim, a buffer top-up and the one-record screen may run at once: nobody gets both
\* seats of a record.
THEOREM NobodyHasBothSeats == PaperSpec => []OneSeatEach
<1>1. PaperInv => OneSeatEach
  BY AtMostOne DEF PaperInv, SeatedOnce, OneSeatEach
<1> QED BY <1>1, PaperInvariance, PTL

\* However quickly a browser sends its answers, and whatever is rolled back, skipped or
\* answered without the table between them, the points of a paper are paid once.
THEOREM PointsArePaidOnce == PaperSpec => []PaperIsPaidOnce
<1>1. PaperInv => PaperIsPaidOnce
  BY AtMostOne DEF PaperInv, PaidOnce, PaperIsPaidOnce
<1> QED BY <1>1, PaperInvariance, PTL

-----------------------------------------------------------------------------
(***************************************************************************)
(* The batch of automatic validations, beside any number of approvals.     *)
(***************************************************************************)
Entry == [status : {"judging", "waiting", "review", "validated", "rejected"},
          touched : BOOLEAN, checked : BOOLEAN]

Batch == [pc : {"outside", "locking", "writing"}, left : SUBSET WaitingEntries,
          held : SUBSET WaitingEntries, passing : SUBSET WaitingEntries,
          staged : SUBSET WaitingEntries, next : WaitingEntries \cup {"nothing"}]

BatchShape ==
    /\ entries \in [WaitingEntries -> Entry]
    /\ row = [e \in WaitingEntries |-> row[e]]
    /\ \A e \in WaitingEntries : row[e] \in {IdentityOf[e], "none", "earlier"}
    /\ batch \in Batch
    /\ approving \in [Approvers -> WaitingEntries \cup {"nothing"}]

\* The entries the batch is about to validate.
Chosen == batch.passing \cup batch.staged \cup ({batch.next} \ {"nothing"})

\* A locked row waits, and one chosen from them is nobody's but the batch's.
HeldWaits ==
    /\ Chosen \subseteq batch.held
    /\ batch.pc = "outside" => batch.held = {}
    /\ batch.pc = "locking" => Chosen = {}
    /\ \A e \in batch.held : entries[e].status = "waiting"
    /\ \A e \in Chosen : ~entries[e].touched

\* What the batch has inserted is in nobody's way yet.
StagedIsFree == \A e \in batch.staged : ~Taken(e, Seen)

BatchInv == BatchShape /\ HeldWaits /\ StagedIsFree /\ ValidatedIsPublished

LEMMA BatchInitially == BatchInit => BatchInv
<1> SUFFICES ASSUME BatchInit PROVE BatchInv
  OBVIOUS
<1>1. NoTransaction \in Batch /\ batch = NoTransaction
  BY DEF BatchInit, NoTransaction, Batch
<1>2. entries \in [WaitingEntries -> Entry]
  BY DEF BatchInit, Entry
<1>3. BatchShape
  BY <1>1, <1>2 DEF BatchInit, BatchShape
<1>4. HeldWaits /\ StagedIsFree
  BY <1>1 DEF NoTransaction, HeldWaits, Chosen, StagedIsFree
<1>5. ValidatedIsPublished
  BY DEF BatchInit, ValidatedIsPublished
<1> QED BY <1>3, <1>4, <1>5 DEF BatchInv

LEMMA BatchTypes == BatchInv => BatchTypeOK
BY DEF BatchInv, BatchShape, Batch, Entry, HeldWaits, Chosen, BatchTypeOK

\* The batch before it commits: entries and rows stay.
LEMMA BatchWorks ==
    ASSUME BatchInv,
           \/ BatchSelects \/ BatchAssesses \/ BatchInserts \/ BatchRollsBack
           \/ \E e \in WaitingEntries : BatchLocks(e) \/ BatchChecks(e)
    PROVE  BatchInv'
<1>0. batch \in Batch /\ HeldWaits /\ StagedIsFree
  BY DEF BatchInv, BatchShape
<1>1. UNCHANGED <<entries, row, approving>>
  BY DEF BatchSelects, BatchAssesses, BatchInserts, BatchRollsBack, BatchLocks, BatchChecks
<1>2. ValidatedIsPublished'
  BY <1>1 DEF BatchInv, ValidatedIsPublished, Taken
<1>3. ASSUME batch' \in Batch, HeldWaits', batch'.staged \in {batch.staged, {}}
      PROVE  BatchInv'
  <2>1. StagedIsFree'
    BY <1>0, <1>1, <1>3 DEF StagedIsFree, Seen, Taken
  <2> QED BY <1>1, <1>2, <1>3, <2>1 DEF BatchInv, BatchShape
<1>4. CASE BatchSelects
  <2> DEFINE waiting == {e \in WaitingEntries : entries[e].status = "waiting"}
  <2>1. batch' = [batch EXCEPT !.pc = "locking", !.left = waiting] /\ batch.pc = "outside"
    BY <1>4 DEF BatchSelects
  <2>2. waiting \in SUBSET WaitingEntries
    OBVIOUS
  <2> HIDE DEF waiting
  <2>3. /\ batch' \in Batch /\ batch'.pc = "locking" /\ batch'.held = batch.held
        /\ batch'.passing = batch.passing /\ batch'.staged = batch.staged
        /\ batch'.next = batch.next
    BY <1>0, <2>1, <2>2 DEF Batch
  <2> QED BY <1>0, <1>1, <1>3, <2>1, <2>3 DEF HeldWaits, Chosen
<1>5. CASE BatchRollsBack
  <2>1. batch' = NoTransaction /\ NoTransaction \in Batch
    BY <1>5 DEF BatchRollsBack, NoTransaction, Batch
  <2> QED BY <1>3, <2>1 DEF HeldWaits, Chosen, NoTransaction
<1>6. ASSUME NEW e \in WaitingEntries, BatchLocks(e) PROVE BatchInv'
  <2> DEFINE left == batch.left \ {e}
             held == IF entries[e].status = "waiting" THEN batch.held \cup {e} ELSE batch.held
  <2>1. batch' = [batch EXCEPT !.left = left, !.held = held] /\ batch.pc = "locking"
    BY <1>6 DEF BatchLocks
  <2>2. left \in SUBSET WaitingEntries /\ held \in SUBSET WaitingEntries
    BY <1>0 DEF Batch
  <2>3. batch.held \subseteq held /\ \A x \in held : entries[x].status = "waiting"
    BY <1>0 DEF HeldWaits
  <2> HIDE DEF left, held
  <2>4. /\ batch' \in Batch /\ batch'.pc = batch.pc /\ batch'.held = held
        /\ batch'.passing = batch.passing /\ batch'.staged = batch.staged
        /\ batch'.next = batch.next
    BY <1>0, <2>1, <2>2 DEF Batch
  <2> QED BY <1>0, <1>1, <1>3, <2>1, <2>3, <2>4 DEF HeldWaits, Chosen
<1>7. CASE BatchAssesses
  <2> DEFINE passing == {e \in batch.held : Passes(e)}
  <2>1. batch' = [batch EXCEPT !.pc = "writing", !.passing = passing] /\ batch.pc = "locking"
    BY <1>7 DEF BatchAssesses
  <2>2. /\ passing \in SUBSET WaitingEntries /\ passing \subseteq batch.held
        /\ \A e \in passing : ~entries[e].touched
    BY <1>0 DEF Batch, Passes
  <2> HIDE DEF passing
  <2>3. /\ batch' \in Batch /\ batch'.pc = "writing" /\ batch'.held = batch.held
        /\ batch'.passing = passing /\ batch'.staged = batch.staged
        /\ batch'.next = batch.next
    BY <1>0, <2>1, <2>2 DEF Batch
  <2> QED BY <1>0, <1>1, <1>3, <2>1, <2>2, <2>3 DEF HeldWaits, Chosen
<1>8. ASSUME NEW e \in WaitingEntries, BatchChecks(e) PROVE BatchInv'
  <2> DEFINE passing == batch.passing \ {e}
             next == IF Taken(e, Seen) THEN "nothing" ELSE e
  <2>1. batch' = [batch EXCEPT !.passing = passing, !.next = next] /\ batch.pc = "writing"
    BY <1>8 DEF BatchChecks
  <2>2. /\ passing \in SUBSET WaitingEntries /\ next \in WaitingEntries \cup {"nothing"}
        /\ passing \subseteq batch.passing /\ {next} \ {"nothing"} \subseteq batch.passing
    BY <1>0, <1>8 DEF Batch, BatchChecks
  <2> HIDE DEF passing, next
  <2>3. /\ batch' \in Batch /\ batch'.pc = batch.pc /\ batch'.held = batch.held
        /\ batch'.passing = passing /\ batch'.staged = batch.staged /\ batch'.next = next
    BY <1>0, <2>1, <2>2 DEF Batch
  <2> QED BY <1>0, <1>1, <1>3, <2>1, <2>2, <2>3 DEF HeldWaits, Chosen
<1>9. CASE BatchInserts
  <2> DEFINE e == batch.next
             after == Settled(e)
  <2>1. e \in WaitingEntries /\ e \in Chosen
    BY <1>0, <1>9 DEF BatchInserts, Batch, Chosen
  <2>2. batch' = [batch EXCEPT !.next = "nothing", !.staged = after]
    BY <1>9 DEF BatchInserts
  <2>3. after \in SUBSET WaitingEntries /\ after \subseteq batch.staged \cup {e}
    BY <1>0, <2>1 DEF Batch, Settled
  <2> HIDE DEF after
  <2>4. /\ batch' \in Batch /\ batch'.pc = batch.pc /\ batch'.held = batch.held
        /\ batch'.passing = batch.passing /\ batch'.staged = after
        /\ batch'.next = "nothing"
    BY <1>0, <2>2, <2>3 DEF Batch
  <2>5. Chosen' \subseteq Chosen
    BY <2>1, <2>3, <2>4 DEF Chosen
  <2>6. HeldWaits'
    BY <1>0, <1>1, <2>4, <2>5 DEF HeldWaits
  <2>7. CASE Taken(e, Seen)
    BY <1>3, <2>4, <2>6, <2>7 DEF after, Settled
  <2>8. CASE ~Taken(e, Seen)
    <3>1. batch'.staged = batch.staged \cup {e}
      BY <2>4, <2>8 DEF after, Settled
    <3>2. \A x \in WaitingEntries : Seen'[x] = IF x = e THEN IdentityOf[e] ELSE Seen[x]
      BY <1>1, <3>1 DEF Seen
    <3>3. ASSUME NEW x \in batch'.staged PROVE ~Taken(x, Seen')
      <4>1. CASE x = e
        BY <2>8, <3>2, <4>1 DEF Taken
      <4>2. CASE x # e
        <5>1. x \in WaitingEntries /\ Seen[x] = IdentityOf[x] /\ ~Taken(x, Seen)
          BY <1>0, <3>1, <3>3, <4>2 DEF Batch, StagedIsFree, Seen
        <5>2. IdentityOf[x] # IdentityOf[e]
          BY <2>8, <4>2, <5>1 DEF Taken
        <5> QED BY <3>2, <5>1, <5>2 DEF Taken
      <4> QED BY <4>1, <4>2
    <3>4. StagedIsFree'
      BY <3>3 DEF StagedIsFree
    <3> QED BY <1>1, <1>2, <2>4, <2>6, <3>4 DEF BatchInv, BatchShape
  <2> QED BY <2>7, <2>8
<1> QED BY <1>4, <1>5, <1>6, <1>7, <1>8, <1>9

LEMMA CommitKeeps == ASSUME BatchInv, BatchCommits PROVE BatchInv'
<1>1. batch' = NoTransaction /\ approving' = approving
  BY DEF BatchCommits
<1>2. ASSUME NEW e \in WaitingEntries
      PROVE  /\ entries'[e] = IF e \in batch.staged
                              THEN [entries[e] EXCEPT !.status = "validated"] ELSE entries[e]
             /\ row'[e] = IF e \in batch.staged THEN IdentityOf[e] ELSE row[e]
  <2>1. ASSUME e \in batch.staged PROVE ~Taken(e, row)
    BY <2>1, BatchAssumption DEF BatchInv, BatchShape, StagedIsFree, Taken, Seen
  <2> QED BY <2>1 DEF BatchCommits
<1>3. BatchShape'
  BY <1>1, <1>2 DEF BatchInv, BatchShape, Entry, Batch, NoTransaction, BatchCommits
<1>4. HeldWaits' /\ StagedIsFree'
  BY <1>1 DEF HeldWaits, Chosen, StagedIsFree, NoTransaction
<1>5. row' = Seen
  BY <1>2 DEF Seen, BatchCommits
<1>6. ASSUME NEW e \in WaitingEntries, entries'[e].status = "validated"
      PROVE  row'[e] = IdentityOf[e] /\ ~Taken(e, row')
  <2>1. CASE e \in batch.staged
    BY <1>2, <1>5, <2>1 DEF BatchInv, StagedIsFree
  <2>2. CASE e \notin batch.staged
    <3>1. row[e] = IdentityOf[e] /\ ~Taken(e, row)
      BY <1>2, <1>6, <2>2 DEF BatchInv, ValidatedIsPublished
    <3>2. ASSUME NEW x \in WaitingEntries \ {e}, row'[x] = IdentityOf[e] PROVE FALSE
      <4>1. x \in batch.staged /\ IdentityOf[x] = IdentityOf[e]
        BY <1>2, <3>1, <3>2 DEF Taken
      <4>2. ~Taken(x, Seen) /\ Seen[e] = IdentityOf[e]
        BY <2>2, <3>1, <4>1 DEF BatchInv, StagedIsFree, Seen
      <4> QED BY <4>1, <4>2 DEF Taken
    <3> QED BY <1>2, <2>2, <3>1, <3>2 DEF Taken
  <2> QED BY <2>1, <2>2
<1> QED BY <1>3, <1>4, <1>6 DEF BatchInv, ValidatedIsPublished

\* A step of an admin or of the engine on one entry the batch has not locked.
LEMMA DecisionKeepsBatch ==
    ASSUME BatchInv, NEW e \in WaitingEntries, NEW next \in Entry,
           NEW published \in {IdentityOf[e], "none", "earlier"}, batch' = batch,
           approving' \in [Approvers -> WaitingEntries \cup {"nothing"}],
           entries' = [entries EXCEPT ![e] = next], row' = [row EXCEPT ![e] = published],
           e \notin batch.held,
           published = row[e] \/ published = "none"
           \/ (published = IdentityOf[e] /\ Insertable(e) /\ ~Taken(e, row)),
           next.status = "validated" => published = IdentityOf[e] /\ ~Taken(e, row)
    PROVE  BatchInv'
<1>1. BatchShape'
  BY DEF BatchInv, BatchShape
<1>2. HeldWaits'
  BY DEF BatchInv, BatchShape, HeldWaits, Chosen
<1>3. \A x \in WaitingEntries : row'[x] = IF x = e THEN published ELSE row[x]
  BY DEF BatchInv, BatchShape
<1>4. \A x \in WaitingEntries : IdentityOf[x] # "none"
  BY BatchAssumption
<1>5. ASSUME NEW x \in WaitingEntries \ {e}, published # row[e], IdentityOf[x] = published
      PROVE  Insertable(e) /\ ~Taken(e, row) /\ IdentityOf[x] = IdentityOf[e]
  BY <1>4, <1>5
<1>6. StagedIsFree'
  <2>1. e \notin batch.staged /\ batch.staged \subseteq WaitingEntries
    BY DEF BatchInv, BatchShape, Batch, HeldWaits, Chosen
  <2>2. \A x \in WaitingEntries : Seen'[x] = IF x = e THEN published ELSE Seen[x]
    BY <1>3, <2>1 DEF Seen
  <2>3. ASSUME NEW x \in batch.staged PROVE ~Taken(x, Seen')
    <3>1. ~Taken(x, Seen) /\ Seen[e] = row[e] /\ x \in WaitingEntries /\ x # e
      BY <2>1 DEF BatchInv, StagedIsFree, Seen
    <3>2. published # IdentityOf[x]
      BY <1>5, <3>1 DEF Taken, Insertable
    <3> QED BY <2>2, <3>1, <3>2 DEF Taken
  <2> QED BY <2>3 DEF StagedIsFree
<1>7. ASSUME NEW x \in WaitingEntries, entries'[x].status = "validated"
      PROVE  row'[x] = IdentityOf[x] /\ ~Taken(x, row')
  <2>1. CASE x = e
    BY <1>3, <1>7, <2>1 DEF BatchInv, BatchShape, Taken
  <2>2. CASE x # e
    <3>1. row[x] = IdentityOf[x] /\ ~Taken(x, row)
      BY <1>7, <2>2 DEF BatchInv, BatchShape, ValidatedIsPublished
    <3>2. published # IdentityOf[x]
      BY <1>5, <2>2, <3>1 DEF Taken
    <3> QED BY <1>3, <2>2, <3>1, <3>2 DEF Taken
  <2> QED BY <2>1, <2>2
<1> QED BY <1>1, <1>2, <1>6, <1>7 DEF BatchInv, ValidatedIsPublished

LEMMA OthersKeepBatch ==
    ASSUME BatchInv,
           \/ \E e \in WaitingEntries : \/ Resolve(e) \/ Reject(e) \/ SendBack(e) \/ Note(e)
                                        \/ Agreement(e)
           \/ \E a \in Approvers : ApprovalActs(a) \/ \E e \in WaitingEntries : ApprovalReads(a, e)
    PROVE  BatchInv'
<1>0. /\ entries \in [WaitingEntries -> Entry] /\ row = [e \in WaitingEntries |-> row[e]]
      /\ approving \in [Approvers -> WaitingEntries \cup {"nothing"}]
      /\ \A e \in WaitingEntries : /\ row[e] \in {IdentityOf[e], "none", "earlier"}
                                   /\ row = [row EXCEPT ![e] = row[e]]
  BY DEF BatchInv, BatchShape
<1>1. ASSUME NEW e \in WaitingEntries, Validated(e), ~Locked(e), Insertable(e), ~Taken(e, row),
             batch' = batch, approving' \in [Approvers -> WaitingEntries \cup {"nothing"}]
      PROVE  BatchInv'
  <2> DEFINE next == [status |-> "validated", touched |-> TRUE, checked |-> TRUE]
  <2>1. next \in Entry /\ next.status = "validated"
    BY DEF Entry
  <2> HIDE DEF next
  <2>2. entries' = [entries EXCEPT ![e] = next] /\ row' = [row EXCEPT ![e] = IdentityOf[e]]
    BY <1>1 DEF Validated, DecidedAs, next
  <2> QED BY <1>1, <2>1, <2>2, DecisionKeepsBatch DEF Locked
<1>2. ASSUME NEW a \in Approvers, ApprovalActs(a) PROVE BatchInv'
  <2>1. PICK e \in WaitingEntries : e = approving[a]
    BY <1>0, <1>2 DEF ApprovalActs
  <2>2. approving' \in [Approvers -> WaitingEntries \cup {"nothing"}] /\ batch' = batch
    BY <1>0, <1>2 DEF ApprovalActs
  <2>3. CASE Taken(e, row)
    <3>1. UNCHANGED <<entries, row>>
      BY <1>2, <2>1, <2>3 DEF ApprovalActs
    <3> QED BY <2>2, <3>1 DEF BatchInv, BatchShape, HeldWaits, Chosen, StagedIsFree, Seen, Taken,
                              ValidatedIsPublished
  <2>4. CASE ~Taken(e, row)
    BY <1>1, <1>2, <2>1, <2>2, <2>4 DEF ApprovalActs
  <2> QED BY <2>3, <2>4
<1>3. ASSUME NEW a \in Approvers, NEW e \in WaitingEntries, ApprovalReads(a, e) PROVE BatchInv'
  <2>1. /\ UNCHANGED <<entries, row, batch>>
        /\ approving' \in [Approvers -> WaitingEntries \cup {"nothing"}]
    BY <1>0, <1>3 DEF ApprovalReads
  <2> QED BY <2>1 DEF BatchInv, BatchShape, HeldWaits, Chosen, StagedIsFree, Seen, Taken,
                      ValidatedIsPublished
<1>4. ASSUME NEW e \in WaitingEntries, Resolve(e) PROVE BatchInv'
  BY <1>0, <1>1, <1>4 DEF Resolve
<1>5. ASSUME NEW e \in WaitingEntries, Reject(e) PROVE BatchInv'
  <2> DEFINE next == [status |-> "rejected", touched |-> TRUE, checked |-> TRUE]
  <2>1. next \in Entry /\ next.status # "validated"
    BY DEF Entry
  <2> HIDE DEF next
  <2>2. /\ entries' = [entries EXCEPT ![e] = next] /\ row' = [row EXCEPT ![e] = "none"]
        /\ UNCHANGED <<batch, approving>> /\ e \notin batch.held
    BY <1>5 DEF Reject, DecidedAs, Locked, next
  <2> QED BY <1>0, <2>1, <2>2, DecisionKeepsBatch
<1>6. ASSUME NEW e \in WaitingEntries, SendBack(e) PROVE BatchInv'
  <2> DEFINE sent == [entries[e] EXCEPT !.status = "review"]
             next == [sent EXCEPT !.touched = TRUE]
             published == IF entries[e].status = "validated" THEN "none" ELSE row[e]
  <2>0. sent \in Entry /\ sent.status = "review"
    <3>1. entries[e] \in Entry
      BY <1>0
    <3> QED BY <3>1 DEF Entry
  <2>1. next \in Entry /\ next.status # "validated"
    <3> HIDE DEF sent
    <3> QED BY <2>0 DEF Entry
  <2>2. /\ entries' = [entries EXCEPT ![e] = next] /\ row' = [row EXCEPT ![e] = published]
        /\ UNCHANGED <<batch, approving>> /\ e \notin batch.held
    BY <1>0, <1>6 DEF SendBack, Locked
  <2> HIDE DEF next
  <2> QED BY <1>0, <2>1, <2>2, DecisionKeepsBatch
<1>7. ASSUME NEW e \in WaitingEntries, Note(e) PROVE BatchInv'
  <2> DEFINE next == [entries[e] EXCEPT !.touched = TRUE]
  <2>1. next \in Entry /\ next.status = entries[e].status
    <3>1. entries[e] \in Entry
      BY <1>0
    <3> QED BY <3>1 DEF Entry
  <2>2. /\ entries' = [entries EXCEPT ![e] = next] /\ row' = [row EXCEPT ![e] = row[e]]
        /\ UNCHANGED <<batch, approving>> /\ e \notin batch.held
    BY <1>0, <1>7 DEF Note, Locked
  <2>3. next.status = "validated" => row[e] = IdentityOf[e] /\ ~Taken(e, row)
    BY <2>1 DEF BatchInv, ValidatedIsPublished
  <2> HIDE DEF next
  <2> QED BY <1>0, <2>1, <2>2, <2>3, DecisionKeepsBatch
<1>8. ASSUME NEW e \in WaitingEntries, Agreement(e) PROVE BatchInv'
  <2> DEFINE next(st) == [entries[e] EXCEPT !.status = st]
  <2>1. \A st \in {"validated", "waiting"} : next(st) \in Entry /\ next(st).status = st
    <3>1. entries[e] \in Entry
      BY <1>0
    <3> QED BY <3>1 DEF Entry
  <2>2. e \notin batch.held /\ UNCHANGED <<batch, approving>> /\ Insertable(e)
    BY <1>8 DEF Agreement, BatchInv, HeldWaits
  <2>3. CASE e \in Ruled /\ ~Taken(e, row)
    <3>1. /\ entries' = [entries EXCEPT ![e] = next("validated")]
          /\ row' = [row EXCEPT ![e] = IdentityOf[e]]
      BY <1>0, <1>8, <2>3 DEF Agreement
    <3> HIDE DEF next
    <3> QED BY <1>0, <2>1, <2>2, <2>3, <3>1, DecisionKeepsBatch
  <2>4. CASE ~(e \in Ruled /\ ~Taken(e, row))
    <3>1. /\ entries' = [entries EXCEPT ![e] = next("waiting")]
          /\ row' = [row EXCEPT ![e] = row[e]]
      BY <1>0, <1>8, <2>4 DEF Agreement
    <3> HIDE DEF next
    <3> QED BY <1>0, <2>1, <2>2, <3>1, DecisionKeepsBatch
  <2> QED BY <2>3, <2>4
<1> QED BY <1>2, <1>3, <1>4, <1>5, <1>6, <1>7, <1>8

LEMMA BatchStep == BatchInv /\ [BatchNext]_batchVars => BatchInv'
<1> SUFFICES ASSUME BatchInv, [BatchNext]_batchVars PROVE BatchInv'
  OBVIOUS
<1>1. CASE UNCHANGED batchVars
  BY <1>1 DEF batchVars, BatchInv, BatchShape, HeldWaits, Chosen, StagedIsFree, Seen, Taken,
              ValidatedIsPublished
<1>2. CASE BatchNext
  BY <1>2, BatchWorks, CommitKeeps, OthersKeepBatch DEF BatchNext
<1> QED BY <1>1, <1>2

LEMMA BatchInvariance == BatchSpec => []BatchInv
BY BatchInitially, BatchStep, PTL DEF BatchSpec

\* A validated entry is published under an identity nobody else holds, whoever validated it:
\* the batch, an approval on an old reading, a resolve or the engine.
THEOREM EveryValidatedIsPublished == BatchSpec => []ValidatedIsPublished
BY BatchInvariance, PTL DEF BatchInv

\* As the batch commits, what it validates still waits and no admin has touched it.
THEOREM BatchSparesWhatWasTouched == BatchSpec => BatchSparesTheTouched
<1>1. BatchInv /\ [BatchNext]_batchVars =>
        [BatchCommits => \A e \in batch.staged :
             entries[e].status = "waiting" /\ ~entries[e].touched]_batchVars
  BY DEF BatchInv, HeldWaits, Chosen
<1> QED BY <1>1, BatchInvariance, PTL DEF BatchSpec, BatchSparesTheTouched

-----------------------------------------------------------------------------
(***************************************************************************)
(* Judgements that leave a browser, for any number of validators, pieces   *)
(* of work, calls and attempts.                                            *)
(***************************************************************************)
\* What a browser has been told is so, though the answer may be an old one.
ReplyIsTrue(w) ==
    /\ browser[w].awaits # "nothing" => browser[w].of \in Submissions
    /\ Awaits(w, "judge", {"saved"}) => slot.judged = browser[w].of
    /\ Awaits(w, "judge", {"gone"}) => browser[w].of \in settled
    /\ Awaits(w, "release", Authoritative) => browser[w].of \in settled

GivenUpIsSettled == \A s \in Submissions : release[s].status \in Authoritative => s \in settled
DialogNames == \A w \in Writers : dialog[w] = NoDialog \/ dialog[w].of \in Submissions

RecoveryInv ==
    /\ SubmissionTypeOK
    /\ \A w \in Writers : ReplyIsTrue(w)
    /\ GivenUpIsSettled /\ DialogNames
    /\ AccountedFor

LEMMA RecoveryInitially == SubmissionInit => RecoveryInv
<1> SUFFICES ASSUME SubmissionInit PROVE RecoveryInv
  OBVIOUS
<1>1. NoRelease \in Releases /\ Unwritten \in Kept /\ Idle \in Waits /\ NoDialog \in Asked
  BY DEF NoRelease, Releases, Statuses, Unwritten, Kept, Fates, Idle, Waits, NoReply, Replies,
         Says, NoDialog, Asked
<1>2. <<>> \in Seq(Submissions)
  BY EmptySeq
<1>3. SubmissionTypeOK
  BY <1>1, <1>2 DEF SubmissionInit, SubmissionTypeOK
<1>4. \A w \in Writers : ReplyIsTrue(w)
  BY DEF SubmissionInit, ReplyIsTrue, Awaits, Idle
<1>5. GivenUpIsSettled /\ DialogNames /\ AccountedFor
  BY DEF SubmissionInit, GivenUpIsSettled, DialogNames, AccountedFor, Authoritative,
         NoRelease, Unwritten
<1> QED BY <1>3, <1>4, <1>5 DEF RecoveryInv

\* What an answer brings is checked where it is told; the other browsers hear nothing.
LEMMA AnswerIsTrue ==
    ASSUME RecoveryInv, NEW c \in calls, NEW says \in Says, NEW stamp \in Nat,
           Answered(c, says, stamp),
           slot.judged # Nobody => slot'.judged = slot.judged,
           settled \subseteq settled',
           c.kind # "release" /\ says = "saved" => slot'.judged = c.of,
           c.kind # "release" /\ says = "gone" => c.of \in settled',
           c.kind = "release" /\ says \in Authoritative => c.of \in settled'
    PROVE  /\ calls' \subseteq Requests /\ browser' \in [Writers -> Waits]
           /\ \A w \in Writers : ReplyIsTrue(w)'
<1> DEFINE told == [says |-> says, stamp |-> stamp]
           u == WriterOf[c.of]
<1>1. calls' = calls \ {c} /\ c \in Requests /\ c.of \in Submissions
  BY DEF Answered, RecoveryInv, SubmissionTypeOK, Requests
<1>2. told \in Replies /\ told.says = says
  BY DEF Replies
<1>3. u \in Writers
  BY <1>1, SubmissionAssumption DEF SubmissionAssumption
<1>4. \/ browser' = browser
      \/ /\ browser' = [browser EXCEPT ![u].reply = told]
         /\ browser[u].awaits = (IF c.kind = "release" THEN "release" ELSE "judge")
         /\ browser[u].of = c.of
  BY DEF Answered
<1> HIDE DEF told, u
<1>5. browser \in [Writers -> Waits] /\ calls \subseteq Requests
  BY DEF RecoveryInv, SubmissionTypeOK
<1>6. ASSUME NEW w \in Writers, browser'[w] = browser[w] PROVE ReplyIsTrue(w)'
  <2>1. ReplyIsTrue(w)
    BY DEF RecoveryInv
  <2>2. Awaits(w, "judge", {"saved"}) => slot'.judged = browser[w].of
    <3>1. Nobody \notin Submissions
      BY SubmissionAssumption DEF SubmissionAssumption
    <3> QED BY <2>1, <3>1 DEF ReplyIsTrue, Awaits
  <2> QED BY <1>6, <2>1, <2>2 DEF ReplyIsTrue, Awaits
<1>7. CASE browser' = browser
  BY <1>1, <1>5, <1>6, <1>7
<1>8. CASE /\ browser' = [browser EXCEPT ![u].reply = told]
           /\ browser[u].awaits = (IF c.kind = "release" THEN "release" ELSE "judge")
           /\ browser[u].of = c.of
  <2>1. PICK was \in Waits : was = browser[u]
    BY <1>3, <1>5
  <2> DEFINE now == [was EXCEPT !.reply = told]
  <2>2. now \in Waits /\ now.awaits = was.awaits /\ now.of = was.of /\ now.reply = told
    BY <1>2, <2>1 DEF Waits
  <2>3. browser' = [browser EXCEPT ![u] = now]
    BY <1>8, <2>1
  <2> HIDE DEF now
  <2>4. browser' \in [Writers -> Waits]
    BY <1>5, <2>2, <2>3
  <2>5. /\ browser'[u] = now
        /\ \A w \in Writers \ {u} : browser'[w] = browser[w]
    BY <1>3, <1>5, <2>3
  <2>6. ReplyIsTrue(u)'
    BY <1>1, <1>2, <1>8, <2>1, <2>2, <2>5 DEF ReplyIsTrue, Awaits
  <2> QED BY <1>1, <1>5, <1>6, <2>4, <2>5, <2>6
<1> QED BY <1>4, <1>7, <1>8

\* A step of the server that leaves alone what the browsers keep.
LEMMA ServerKeeps ==
    ASSUME RecoveryInv, UNCHANGED <<item, line, dialog>>,
           slot' \in [holder : Writers \cup {Nobody}, judged : Submissions \cup {Nobody},
                      claims : Nat],
           release' \in [Submissions -> Releases], calls' \subseteq Requests,
           browser' \in [Writers -> Waits],
           \A w \in Writers : ReplyIsTrue(w)',
           slot.judged # Nobody => slot'.judged = slot.judged,
           settled \subseteq settled',
           GivenUpIsSettled'
    PROVE  RecoveryInv'
<1>1. SubmissionTypeOK' /\ DialogNames'
  BY DEF RecoveryInv, SubmissionTypeOK, DialogNames
<1>2. AccountedFor'
  <2>1. Nobody \notin Submissions
    BY SubmissionAssumption DEF SubmissionAssumption
  <2> QED BY <2>1 DEF RecoveryInv, AccountedFor
<1> QED BY <1>1, <1>2 DEF RecoveryInv

LEMMA SlotKeeps ==
    ASSUME RecoveryInv, slot.judged = slot'.judged,
           slot' \in [holder : Writers \cup {Nobody}, judged : Submissions \cup {Nobody},
                      claims : Nat],
           UNCHANGED <<release, calls, item, line, browser, dialog, settled>>
    PROVE  RecoveryInv'
<1>1. \A w \in Writers : ReplyIsTrue(w)'
  BY DEF RecoveryInv, ReplyIsTrue, Awaits
<1>2. GivenUpIsSettled'
  BY DEF RecoveryInv, GivenUpIsSettled
<1> QED BY <1>1, <1>2, ServerKeeps DEF RecoveryInv, SubmissionTypeOK

LEMMA StampsKeep ==
    ASSUME RecoveryInv, release' \in [Submissions -> Releases],
           \A s \in Submissions : release'[s].status \in Authoritative =>
               release[s].status \in Authoritative,
           UNCHANGED <<slot, calls, item, line, browser, dialog, settled>>
    PROVE  RecoveryInv'
<1>1. \A w \in Writers : ReplyIsTrue(w)'
  BY DEF RecoveryInv, ReplyIsTrue, Awaits
<1>2. GivenUpIsSettled'
  BY DEF RecoveryInv, GivenUpIsSettled
<1> QED BY <1>1, <1>2, ServerKeeps DEF RecoveryInv, SubmissionTypeOK

LEMMA HandOutKeeps ==
    ASSUME RecoveryInv, NEW w \in Writers, Claim(w)
    PROVE  RecoveryInv'
<1>1. /\ slot' = [slot EXCEPT !.holder = w, !.claims = @ + 1]
      /\ UNCHANGED <<release, calls, item, line, browser, dialog, settled>>
  BY DEF Claim
<1>2. slot \in [holder : Writers \cup {Nobody}, judged : Submissions \cup {Nobody}, claims : Nat]
  BY DEF RecoveryInv, SubmissionTypeOK
<1>3. /\ slot' \in [holder : Writers \cup {Nobody}, judged : Submissions \cup {Nobody},
                    claims : Nat]
      /\ slot'.judged = slot.judged
  <2>1. slot' = [holder |-> w, judged |-> slot.judged, claims |-> slot.claims + 1]
    BY <1>1, <1>2
  <2>2. slot.judged \in Submissions \cup {Nobody} /\ slot.claims + 1 \in Nat
    BY <1>2
  <2> QED BY <2>1, <2>2
<1> QED BY <1>1, <1>3, SlotKeeps

LEMMA VacateKeeps ==
    ASSUME RecoveryInv, Vacate
    PROVE  RecoveryInv'
<1>1. /\ slot' = [slot EXCEPT !.holder = Nobody]
      /\ UNCHANGED <<release, calls, item, line, browser, dialog, settled>>
  BY DEF Vacate
<1>2. slot \in [holder : Writers \cup {Nobody}, judged : Submissions \cup {Nobody}, claims : Nat]
  BY DEF RecoveryInv, SubmissionTypeOK
<1>3. /\ slot' \in [holder : Writers \cup {Nobody}, judged : Submissions \cup {Nobody},
                    claims : Nat]
      /\ slot'.judged = slot.judged
  BY <1>1, <1>2
<1> QED BY <1>1, <1>3, SlotKeeps

LEMMA CallCommitKeeps ==
    ASSUME RecoveryInv, NEW c \in calls, JudgeCommits(c)
    PROVE  RecoveryInv'
<1>1. /\ c.kind = "judge" /\ slot.judged = Nobody
      /\ slot' = [slot EXCEPT !.judged = c.of]
      /\ release' = IF release[c.of].status = "save_failed"
                      THEN [release EXCEPT ![c.of].status = "saved_after_retry"] ELSE release
      /\ settled' = settled \cup {c.of}
      /\ Answered(c, "saved", 0)
      /\ UNCHANGED <<item, line, dialog>>
  BY DEF JudgeCommits, StillOwned
<1>2. /\ slot \in [holder : Writers \cup {Nobody}, judged : Submissions \cup {Nobody},
                   claims : Nat]
      /\ release \in [Submissions -> Releases] /\ c.of \in Submissions
  BY DEF RecoveryInv, SubmissionTypeOK, Requests
<1>3. /\ slot' \in [holder : Writers \cup {Nobody}, judged : Submissions \cup {Nobody},
                    claims : Nat]
      /\ slot'.judged = c.of
  BY <1>1, <1>2
<1>4. /\ calls' \subseteq Requests /\ browser' \in [Writers -> Waits]
      /\ \A w \in Writers : ReplyIsTrue(w)'
  <2>1. "saved" \in Says /\ "saved" \notin Authoritative
    BY DEF Says, Authoritative
  <2> QED BY <1>1, <1>3, <2>1, AnswerIsTrue
<1>5. /\ release' \in [Submissions -> Releases]
      /\ \A s \in Submissions : release'[s].status \in Authoritative =>
             release[s].status \in Authoritative
  BY <1>1, <1>2 DEF Releases, Statuses, Authoritative
<1>6. GivenUpIsSettled'
  BY <1>1, <1>5 DEF RecoveryInv, GivenUpIsSettled
<1> QED BY <1>1, <1>3, <1>4, <1>5, <1>6, ServerKeeps

LEMMA RefuseKeeps ==
    ASSUME RecoveryInv, NEW c \in calls, JudgeRefuses(c)
    PROVE  RecoveryInv'
<1>1. PICK says \in {"gone", "refused"} :
          /\ settled' = IF says = "gone" THEN settled \cup {c.of} ELSE settled
          /\ Answered(c, says, 0)
  BY DEF JudgeRefuses
<1>2. c.kind = "judge" /\ UNCHANGED <<slot, release, item, line, dialog>>
  BY DEF JudgeRefuses
<1>3. /\ calls' \subseteq Requests /\ browser' \in [Writers -> Waits]
      /\ \A w \in Writers : ReplyIsTrue(w)'
  <2>1. says \in Says /\ says # "saved"
    BY DEF Says
  <2>2. settled \subseteq settled' /\ (says = "gone" => c.of \in settled')
    BY <1>1
  <2> QED BY <1>1, <1>2, <2>1, <2>2, AnswerIsTrue
<1>4. GivenUpIsSettled'
  BY <1>1, <1>2 DEF RecoveryInv, GivenUpIsSettled
<1>5. settled \subseteq settled'
  BY <1>1
<1> QED BY <1>2, <1>3, <1>4, <1>5, ServerKeeps DEF RecoveryInv, SubmissionTypeOK

LEMMA CallsKeep ==
    ASSUME RecoveryInv, calls' \subseteq Requests,
           UNCHANGED <<slot, release, item, line, browser, dialog, settled>>
    PROVE  RecoveryInv'
<1>1. \A w \in Writers : ReplyIsTrue(w)'
  BY DEF RecoveryInv, ReplyIsTrue, Awaits
<1>2. GivenUpIsSettled'
  BY DEF RecoveryInv, GivenUpIsSettled
<1> QED BY <1>1, <1>2, ServerKeeps DEF RecoveryInv, SubmissionTypeOK

LEMMA RollBackKeeps ==
    ASSUME RecoveryInv, NEW c \in calls, JudgeRollsBack(c)
    PROVE  RecoveryInv'
<1>1. c \in Requests /\ calls \subseteq Requests
  BY DEF RecoveryInv, SubmissionTypeOK
<1>2. [c EXCEPT !.kind = "rolled back"] \in Requests
  BY <1>1 DEF Requests
<1>3. calls' = (calls \ {c}) \cup {[c EXCEPT !.kind = "rolled back"]}
  BY DEF JudgeRollsBack
<1>4. calls' \subseteq Requests
  BY <1>1, <1>2, <1>3
<1> QED BY <1>4, CallsKeep DEF JudgeRollsBack

LEMMA LossKeeps ==
    ASSUME RecoveryInv, NEW c \in calls, CallIsLost(c)
    PROVE  RecoveryInv'
<1>1. calls' \subseteq Requests
  BY DEF RecoveryInv, SubmissionTypeOK, CallIsLost
<1> QED BY <1>1, CallsKeep DEF CallIsLost

\* A stamp that replaces one that was given up says nothing yet.
LEMMA IssueKeeps ==
    ASSUME RecoveryInv, NEW c \in calls, IssueStamp(c)
    PROVE  RecoveryInv'
<1>1. /\ c.kind = "rolled back" /\ c.of \in Submissions
      /\ UNCHANGED <<slot, item, line, dialog, settled>>
  BY DEF IssueStamp, RecoveryInv, SubmissionTypeOK, Requests
<1>2. release \in [Submissions -> Releases]
  BY DEF RecoveryInv, SubmissionTypeOK
<1> DEFINE stamp == release[c.of].stamp + 1
           new == [status |-> "save_failed", stamp |-> stamp, elapsed |-> FALSE]
<1>3. stamp \in Nat
  <2>1. release[c.of] \in Releases
    BY <1>1, <1>2
  <2> QED BY <2>1 DEF Releases
<1>4. \/ release' = [release EXCEPT ![c.of] = new] /\ Answered(c, "failed", stamp)
      \/ release' = release /\ Answered(c, "failed", 0)
  BY DEF IssueStamp
<1> HIDE DEF stamp
<1>5. new \in Releases /\ new.status \notin Authoritative
  BY <1>3 DEF Releases, Statuses, Authoritative
<1> HIDE DEF new
<1>6. /\ release' \in [Submissions -> Releases]
      /\ \A s \in Submissions : release'[s].status \in Authoritative =>
             release[s].status \in Authoritative
  BY <1>1, <1>2, <1>4, <1>5
<1>7. PICK told \in Nat : Answered(c, "failed", told)
  BY <1>3, <1>4
<1>8. /\ calls' \subseteq Requests /\ browser' \in [Writers -> Waits]
      /\ \A w \in Writers : ReplyIsTrue(w)'
  <2>1. "failed" \in Says
    BY DEF Says
  <2> QED BY <1>1, <1>7, <2>1, AnswerIsTrue
<1>9. GivenUpIsSettled'
  BY <1>1, <1>6 DEF RecoveryInv, GivenUpIsSettled
<1> QED BY <1>1, <1>6, <1>8, <1>9, ServerKeeps DEF RecoveryInv, SubmissionTypeOK

\* The server answers what it did, or what it did before.
LEMMA ReleaseKeeps ==
    ASSUME RecoveryInv, NEW c \in calls, ReleaseFailedSubmission(c)
    PROVE  RecoveryInv'
<1> DEFINE Becomes(status) == release' = [release EXCEPT ![c.of].status = status]
<1>1. /\ c.kind = "release" /\ c.of \in Submissions
      /\ UNCHANGED <<item, line, dialog>>
  BY DEF ReleaseFailedSubmission, RecoveryInv, SubmissionTypeOK, Requests
<1>2. /\ release \in [Submissions -> Releases]
      /\ slot \in [holder : Writers \cup {Nobody}, judged : Submissions \cup {Nobody},
                   claims : Nat]
  BY DEF RecoveryInv, SubmissionTypeOK
<1>3. /\ "replaced" \in Says /\ "expired" \in Says /\ "released" \in Says
      /\ "slot_closed" \in Says /\ release[c.of].status \in Says
  BY <1>1, <1>2 DEF Says, Statuses, Releases
<1>4. ASSUME NEW status \in Statuses, Becomes(status)
      PROVE  /\ release' \in [Submissions -> Releases]
             /\ \A s \in Submissions \ {c.of} : release'[s] = release[s]
             /\ release'[c.of].status = status
  BY <1>1, <1>2, <1>4 DEF Releases
<1>5. CASE /\ release[c.of].stamp # c.stamp /\ UNCHANGED <<slot, release, settled>>
           /\ Answered(c, "replaced", 0)
  <2>1. /\ calls' \subseteq Requests /\ browser' \in [Writers -> Waits]
        /\ \A w \in Writers : ReplyIsTrue(w)'
    <3>1. "replaced" \notin Authoritative
      BY DEF Authoritative
    <3> QED BY <1>1, <1>3, <1>5, <3>1, AnswerIsTrue
  <2>2. GivenUpIsSettled'
    BY <1>5 DEF RecoveryInv, GivenUpIsSettled
  <2> QED BY <1>1, <1>2, <1>5, <2>1, <2>2, ServerKeeps
<1>6. CASE UNCHANGED <<slot, release, settled>> /\ Answered(c, release[c.of].status, 0)
  <2>1. /\ calls' \subseteq Requests /\ browser' \in [Writers -> Waits]
        /\ \A w \in Writers : ReplyIsTrue(w)'
    <3>1. release[c.of].status \in Authoritative => c.of \in settled'
      BY <1>1, <1>6 DEF RecoveryInv, GivenUpIsSettled
    <3> QED BY <1>1, <1>3, <1>6, <3>1, AnswerIsTrue
  <2>2. GivenUpIsSettled'
    BY <1>6 DEF RecoveryInv, GivenUpIsSettled
  <2> QED BY <1>1, <1>2, <1>6, <2>1, <2>2, ServerKeeps
<1>7. CASE Becomes("expired") /\ UNCHANGED <<slot, settled>> /\ Answered(c, "expired", 0)
  <2>0. "expired" \notin Authoritative /\ "expired" \in Statuses
    BY DEF Authoritative, Statuses
  <2>1. /\ calls' \subseteq Requests /\ browser' \in [Writers -> Waits]
        /\ \A w \in Writers : ReplyIsTrue(w)'
    BY <1>1, <1>3, <1>7, <2>0, AnswerIsTrue
  <2>2. /\ release' \in [Submissions -> Releases]
        /\ \A s \in Submissions \ {c.of} : release'[s] = release[s]
        /\ release'[c.of].status = "expired"
    BY <1>4, <1>7, <2>0
  <2>3. GivenUpIsSettled'
    BY <1>7, <2>0, <2>2 DEF RecoveryInv, GivenUpIsSettled
  <2> QED BY <1>1, <1>2, <1>7, <2>1, <2>2, <2>3, ServerKeeps
<1>8. ASSUME NEW status \in Authoritative, Becomes(status), Answered(c, status, 0),
             settled' = settled \cup {c.of},
             slot' \in [holder : Writers \cup {Nobody}, judged : Submissions \cup {Nobody},
                        claims : Nat],
             slot.judged # Nobody => slot'.judged = slot.judged
      PROVE  RecoveryInv'
  <2>0. status \in Statuses /\ status \in Says
    BY <1>3 DEF Authoritative, Statuses
  <2>1. /\ calls' \subseteq Requests /\ browser' \in [Writers -> Waits]
        /\ \A w \in Writers : ReplyIsTrue(w)'
    <3>1. settled \subseteq settled' /\ c.of \in settled'
      BY <1>8
    <3> QED BY <1>1, <1>8, <2>0, <3>1, AnswerIsTrue
  <2>2. /\ release' \in [Submissions -> Releases]
        /\ \A s \in Submissions \ {c.of} : release'[s] = release[s]
    BY <1>4, <1>8, <2>0
  <2>3. GivenUpIsSettled'
    BY <1>8, <2>2 DEF RecoveryInv, GivenUpIsSettled
  <2>4. settled \subseteq settled'
    BY <1>8
  <2> QED BY <1>1, <1>8, <2>1, <2>2, <2>3, <2>4, ServerKeeps
<1>9. CASE /\ settled' = settled \cup {c.of} /\ StillOwned(c.of)
           /\ slot' = [slot EXCEPT !.holder = Nobody, !.judged = Nobody]
           /\ Becomes("released") /\ Answered(c, "released", 0)
  <2>1. /\ slot' \in [holder : Writers \cup {Nobody}, judged : Submissions \cup {Nobody},
                      claims : Nat]
        /\ slot.judged = Nobody
    BY <1>2, <1>9 DEF StillOwned
  <2>2. "released" \in Authoritative
    BY DEF Authoritative
  <2> QED BY <1>8, <1>9, <2>1, <2>2
<1>10. CASE /\ settled' = settled \cup {c.of} /\ UNCHANGED slot
            /\ Becomes("slot_closed") /\ Answered(c, "slot_closed", 0)
  <2>1. "slot_closed" \in Authoritative
    BY DEF Authoritative
  <2> QED BY <1>2, <1>8, <1>10, <2>1
<1> QED BY <1>5, <1>6, <1>7, <1>9, <1>10 DEF ReleaseFailedSubmission

LEMMA LapseKeeps ==
    ASSUME RecoveryInv, NEW s \in Submissions, Lapse(s)
    PROVE  RecoveryInv'
<1>1. release \in [Submissions -> Releases]
  BY DEF RecoveryInv, SubmissionTypeOK
<1>2. /\ release' \in [Submissions -> Releases]
      /\ \A t \in Submissions : release'[t].status = release[t].status
  BY <1>1 DEF Lapse, Releases
<1> QED BY <1>2, StampsKeep DEF Lapse

LEMMA ExpiryKeeps ==
    ASSUME RecoveryInv, ExpireStamps
    PROVE  RecoveryInv'
<1>1. release \in [Submissions -> Releases]
  BY DEF RecoveryInv, SubmissionTypeOK
<1>2. ASSUME NEW s \in Submissions
      PROVE  /\ release'[s] \in Releases
             /\ release'[s].status \in Authoritative => release[s].status \in Authoritative
  <2>1. release[s] \in Releases
    BY <1>1
  <2>2. [release[s] EXCEPT !.status = "expired"] \in Releases
    BY <2>1 DEF Releases, Statuses
  <2>3. [release[s] EXCEPT !.status = "expired"].status \notin Authoritative
    BY <2>1 DEF Releases, Authoritative
  <2> QED BY <2>1, <2>2, <2>3 DEF ExpireStamps
<1>3. release' \in [Submissions -> Releases]
  BY <1>2 DEF ExpireStamps
<1> QED BY <1>2, <1>3, StampsKeep DEF ExpireStamps

-----------------------------------------------------------------------------
\* What became of a submission is told once, with its reason.
LEMMA FateIsAccounted ==
    ASSUME RecoveryInv, UNCHANGED <<slot, settled>>, NEW s \in Submissions, NEW new \in Kept,
           item' = [item EXCEPT ![s] = new],
           new.fate = "saved" => new.fate = item[s].fate \/ slot.judged = s,
           new.fate \in {"closed", "released"} => new.fate = item[s].fate \/ s \in settled
    PROVE  item' \in [Submissions -> Kept] /\ AccountedFor'
<1>1. item \in [Submissions -> Kept]
  BY DEF RecoveryInv, SubmissionTypeOK
<1>2. item' \in [Submissions -> Kept] /\ item'[s] = new
      /\ \A t \in Submissions \ {s} : item'[t] = item[t]
  BY <1>1
<1>3. ASSUME NEW t \in Submissions
      PROVE  /\ item'[t].fate = "saved" => slot'.judged = t
             /\ item'[t].fate \in {"closed", "released"} => t \in settled'
  BY <1>2 DEF RecoveryInv, AccountedFor
<1> QED BY <1>2, <1>3 DEF AccountedFor

\* A step of a browser: the others, the slot and the stamps are as they were.
LEMMA BrowserKeeps ==
    ASSUME RecoveryInv, NEW w \in Writers, NEW now \in Waits,
           browser' = browser \/ browser' = [browser EXCEPT ![w] = now],
           browser' # browser => ReplyIsTrue(w)',
           UNCHANGED <<slot, release, settled>>,
           calls' \subseteq Requests, item' \in [Submissions -> Kept],
           line' \in [Writers -> Seq(Submissions)],
           dialog' \in [Writers -> Asked], DialogNames', AccountedFor'
    PROVE  RecoveryInv'
<1>1. browser \in [Writers -> Waits]
  BY DEF RecoveryInv, SubmissionTypeOK
<1>2. browser' \in [Writers -> Waits]
  BY <1>1
<1>3. SubmissionTypeOK'
  BY <1>2 DEF RecoveryInv, SubmissionTypeOK
<1>4. ASSUME NEW u \in Writers, browser'[u] = browser[u]
      PROVE  ReplyIsTrue(u)'
  BY <1>4 DEF RecoveryInv, ReplyIsTrue, Awaits
<1>5. ASSUME NEW u \in Writers
      PROVE  ReplyIsTrue(u)'
  BY <1>1, <1>4
<1>6. GivenUpIsSettled'
  BY DEF RecoveryInv, GivenUpIsSettled
<1> QED BY <1>3, <1>5, <1>6 DEF RecoveryInv

LEMMA Resumed ==
    ASSUME NEW w \in Writers, RecoveryInv, browser' = [browser EXCEPT ![w] = Idle]
    PROVE  Idle \in Waits /\ ReplyIsTrue(w)'
<1>1. Idle \in Waits
  BY DEF Idle, Waits, NoReply, Replies, Says, Statuses
<1>2. browser'[w] = Idle
  BY DEF RecoveryInv, SubmissionTypeOK
<1>3. Idle.awaits = "nothing"
  BY DEF Idle
<1> QED BY <1>1, <1>2, <1>3 DEF ReplyIsTrue, Awaits

LEMMA SplicedIsALine ==
    ASSUME RecoveryInv, NEW w \in Writers, NEW i
    PROVE  Spliced(w, i) \in [Writers -> Seq(Submissions)]
<1>1. line \in [Writers -> Seq(Submissions)]
  BY DEF RecoveryInv, SubmissionTypeOK
<1>2. PICK old \in Seq(Submissions) : old = line[w]
  BY <1>1
<1>3. ASSUME i \in DOMAIN old PROVE RemoveAt(old, i) \in Seq(Submissions)
  <2>1. i \in 1 .. Len(old) /\ Len(old) \in Nat
    BY <1>3, LenProperties
  <2>2. SubSeq(old, 1, i - 1) \in Seq(Submissions)
    BY <2>1, SubSeqProperties
  <2>3. SubSeq(old, i + 1, Len(old)) \in Seq(Submissions)
    BY <2>1, SubSeqProperties
  <2> QED BY <2>2, <2>3, ConcatProperties DEF RemoveAt
<1>4. Spliced(w, i) = [line EXCEPT ![w] = IF i \in DOMAIN old THEN RemoveAt(old, i) ELSE old]
  BY <1>2 DEF Spliced
<1> QED BY <1>1, <1>3, <1>4

LEMMA EnqueueKeeps ==
    ASSUME RecoveryInv, NEW s \in Submissions, EnqueueSubmit(s)
    PROVE  RecoveryInv'
<1> DEFINE new == [item[s] EXCEPT !.fate = "pending"]
<1>1. /\ item' = [item EXCEPT ![s] = new]
      /\ line' = [line EXCEPT ![WriterOf[s]] = Append(@, s)]
      /\ UNCHANGED <<slot, release, calls, browser, dialog, settled>>
  BY DEF EnqueueSubmit
<1>2. /\ item[s] \in Kept /\ line \in [Writers -> Seq(Submissions)]
      /\ WriterOf[s] \in Writers
  BY SubmissionAssumption DEF RecoveryInv, SubmissionTypeOK, SubmissionAssumption
<1>3. new \in Kept /\ new.fate = "pending"
  BY <1>2 DEF Kept, Fates
<1> HIDE DEF new
<1>4. item' \in [Submissions -> Kept] /\ AccountedFor'
  BY <1>1, <1>3, FateIsAccounted
<1>5. line' \in [Writers -> Seq(Submissions)]
  <2>1. Append(line[WriterOf[s]], s) \in Seq(Submissions)
    BY <1>2, AppendProperties
  <2> QED BY <1>1, <1>2, <2>1
<1>6. PICK now \in Waits : TRUE
  BY <1>2 DEF RecoveryInv, SubmissionTypeOK
<1>7. /\ calls' \subseteq Requests /\ dialog' \in [Writers -> Asked] /\ DialogNames'
  BY <1>1 DEF RecoveryInv, SubmissionTypeOK, DialogNames
<1> QED BY <1>1, <1>2, <1>4, <1>5, <1>6, <1>7, BrowserKeeps

\* A browser sends what it does not yet know the end of.
LEMMA SendKeeps ==
    ASSUME RecoveryInv, NEW w \in Writers, SendFirst(w)
    PROVE  RecoveryInv'
<1>1. PICK i \in DOMAIN line[w] :
          /\ item' = [item EXCEPT ![line[w][i]].sent = item[line[w][i]].sent + 1]
          /\ calls' = calls \cup {[kind |-> "judge", of |-> line[w][i],
                                   no |-> item[line[w][i]].sent + 1, stamp |-> 0]}
          /\ browser' = [browser EXCEPT ![w] = [awaits |-> "judge", of |-> line[w][i],
                                               index |-> i, reply |-> NoReply]]
  BY DEF SendFirst
<1>2. UNCHANGED <<slot, release, line, dialog, settled>>
  BY DEF SendFirst
<1>3. line[w] \in Seq(Submissions)
  BY DEF RecoveryInv, SubmissionTypeOK
<1>4. PICK s \in Submissions : s = line[w][i]
  BY <1>1, <1>3, ElementOfSeq, LenProperties
<1>5. i \in Nat
  BY <1>1, <1>3, LenProperties
<1>6. item[s] \in Kept
  BY DEF RecoveryInv, SubmissionTypeOK
<1> DEFINE new == [item[s] EXCEPT !.sent = item[s].sent + 1]
           now == [awaits |-> "judge", of |-> s, index |-> i, reply |-> NoReply]
           call == [kind |-> "judge", of |-> s, no |-> item[s].sent + 1, stamp |-> 0]
<1>7. new \in Kept /\ new.fate = item[s].fate
  BY <1>6 DEF Kept
<1>8. now \in Waits
  BY <1>5 DEF Waits, NoReply, Replies, Says, Statuses
<1>9. call \in Requests
  <2>1. item[s].sent + 1 \in Nat
    BY <1>6 DEF Kept
  <2> QED BY <2>1 DEF Requests
<1>10. /\ item' = [item EXCEPT ![s] = new] /\ calls' = calls \cup {call}
       /\ browser' = [browser EXCEPT ![w] = now]
  BY <1>1, <1>4
<1>11. now.awaits = "judge" /\ now.of = s /\ now.reply.says = "none"
  BY DEF NoReply
<1> HIDE DEF new, now, call
<1>12. item' \in [Submissions -> Kept] /\ AccountedFor'
  BY <1>2, <1>7, <1>10, FateIsAccounted
<1>13. browser'[w] = now
  BY <1>10 DEF RecoveryInv, SubmissionTypeOK
<1>14. ReplyIsTrue(w)'
  BY <1>11, <1>13 DEF ReplyIsTrue, Awaits
<1>15. /\ calls' \subseteq Requests /\ dialog' \in [Writers -> Asked] /\ DialogNames'
       /\ line' \in [Writers -> Seq(Submissions)]
  BY <1>2, <1>9, <1>10 DEF RecoveryInv, SubmissionTypeOK, DialogNames
<1> QED BY <1>2, <1>8, <1>10, <1>12, <1>14, <1>15, BrowserKeeps

\* What leaves a browser has the fate that the answer tells.
LEMMA LeavesKeeps ==
    ASSUME RecoveryInv, NEW w \in Writers, NEW fate \in Fates, Leaves(w, fate),
           browser[w].awaits # "nothing",
           fate = "saved" => slot.judged = browser[w].of,
           fate \in {"closed", "released"} => browser[w].of \in settled
    PROVE  RecoveryInv'
<1>1. PICK s \in Submissions : s = browser[w].of
  BY DEF RecoveryInv, ReplyIsTrue
<1> DEFINE new == [item[s] EXCEPT !.fate = fate]
<1>2. /\ item' = [item EXCEPT ![s] = new]
      /\ line' = Spliced(w, browser[w].index)
      /\ browser' = [browser EXCEPT ![w] = Idle]
      /\ UNCHANGED <<slot, release, calls, dialog, settled>>
  BY <1>1 DEF Leaves, Resumes
<1>3. item[s] \in Kept
  BY DEF RecoveryInv, SubmissionTypeOK
<1>4. new \in Kept /\ new.fate = fate
  BY <1>3 DEF Kept
<1> HIDE DEF new
<1>5. item' \in [Submissions -> Kept] /\ AccountedFor'
  BY <1>1, <1>2, <1>4, FateIsAccounted
<1>6. line' \in [Writers -> Seq(Submissions)]
  BY <1>2, SplicedIsALine
<1>7. Idle \in Waits /\ ReplyIsTrue(w)'
  BY <1>2, Resumed
<1>8. /\ calls' \subseteq Requests /\ dialog' \in [Writers -> Asked] /\ DialogNames'
  BY <1>2 DEF RecoveryInv, SubmissionTypeOK, DialogNames
<1> QED BY <1>2, <1>5, <1>6, <1>7, <1>8, BrowserKeeps

LEMMA AnsweredLeave ==
    ASSUME RecoveryInv, NEW w \in Writers,
           SubmitSaved(w) \/ SubmitGone(w) \/ SlotGivenUp(w)
    PROVE  RecoveryInv'
<1>1. ReplyIsTrue(w)
  BY DEF RecoveryInv
<1>2. {"saved", "closed", "released"} \subseteq Fates
  BY DEF Fates
<1>3. CASE SubmitSaved(w)
  <2>1. Leaves(w, "saved") /\ slot.judged = browser[w].of /\ browser[w].awaits # "nothing"
    BY <1>1, <1>3 DEF SubmitSaved, ReplyIsTrue, Awaits
  <2> QED BY <1>2, <2>1, LeavesKeeps
<1>4. CASE SubmitGone(w)
  <2>1. Leaves(w, "closed") /\ browser[w].of \in settled /\ browser[w].awaits # "nothing"
    BY <1>1, <1>4 DEF SubmitGone, ReplyIsTrue, Awaits
  <2> QED BY <1>2, <2>1, LeavesKeeps
<1>5. CASE SlotGivenUp(w)
  <2>1. PICK fate \in {"closed", "released"} : Leaves(w, fate)
    BY <1>5 DEF SlotGivenUp
  <2>2. browser[w].of \in settled /\ browser[w].awaits # "nothing"
    BY <1>1, <1>5 DEF SlotGivenUp, ReplyIsTrue, Awaits
  <2> QED BY <1>2, <2>1, <2>2, LeavesKeeps
<1> QED BY <1>3, <1>4, <1>5

\* A failure keeps the submission; the last one asks the server to give the slot up.
LEMMA FailedKeeps ==
    ASSUME RecoveryInv, NEW w \in Writers, SubmitFailed(w)
    PROVE  RecoveryInv'
<1>1. browser[w].awaits = "judge" /\ UNCHANGED <<slot, release, line, dialog, settled>>
  BY DEF SubmitFailed, Awaits
<1>2. PICK s \in Submissions : s = browser[w].of
  BY <1>1 DEF RecoveryInv, ReplyIsTrue
<1>3. browser[w] \in Waits /\ item[s] \in Kept /\ item \in [Submissions -> Kept]
  BY DEF RecoveryInv, SubmissionTypeOK
<1> DEFINE attempts == item[s].attempts + 1
           stamp == IF browser[w].reply.stamp > 0 THEN browser[w].reply.stamp
                    ELSE item[s].stamp
           after == [item EXCEPT ![s].attempts = attempts, ![s].stamp = stamp]
           call == [kind |-> "release", of |-> s, no |-> item[s].sent, stamp |-> stamp]
           asking == [browser[w] EXCEPT !.awaits = "release", !.reply = NoReply]
<1>4. attempts \in Nat /\ stamp \in Nat
  BY <1>3 DEF Kept, Waits, Replies
<1>5. \/ item' = after /\ browser' = [browser EXCEPT ![w] = Idle] /\ UNCHANGED calls
      \/ /\ item' = [after EXCEPT ![s].blocked = TRUE]
         /\ browser' = [browser EXCEPT ![w] = Idle] /\ UNCHANGED calls
      \/ /\ item' = after /\ calls' = calls \cup {call}
         /\ browser' = [browser EXCEPT ![w].awaits = "release", ![w].reply = NoReply]
  BY <1>2 DEF SubmitFailed, Resumes
<1>6. call \in Requests
  BY <1>3, <1>4 DEF Kept, Requests
<1> DEFINE new == [item[s] EXCEPT !.attempts = attempts, !.stamp = stamp]
           stuck == [new EXCEPT !.blocked = TRUE]
<1> HIDE DEF attempts, stamp, call
<1>7. new \in Kept /\ new.fate = item[s].fate
  BY <1>3, <1>4 DEF Kept
<1>8. after = [item EXCEPT ![s] = new]
  BY <1>3
<1>9. [after EXCEPT ![s].blocked = TRUE] = [item EXCEPT ![s] = stuck]
  BY <1>3, <1>8
<1> HIDE DEF after, new
<1>10. stuck \in Kept /\ stuck.fate = item[s].fate
  BY <1>7 DEF Kept
<1> HIDE DEF stuck
<1>11. item' \in [Submissions -> Kept] /\ AccountedFor'
  <2>1. item' = [item EXCEPT ![s] = new] \/ item' = [item EXCEPT ![s] = stuck]
    BY <1>5, <1>8, <1>9
  <2> QED BY <1>1, <1>7, <1>10, <2>1, FateIsAccounted
<1>12. /\ calls' \subseteq Requests /\ dialog' \in [Writers -> Asked] /\ DialogNames'
       /\ line' \in [Writers -> Seq(Submissions)]
  BY <1>1, <1>5, <1>6 DEF RecoveryInv, SubmissionTypeOK, DialogNames
<1>13. CASE browser' = [browser EXCEPT ![w] = Idle]
  <2>1. Idle \in Waits /\ ReplyIsTrue(w)'
    BY <1>13, Resumed
  <2> QED BY <1>1, <1>11, <1>12, <1>13, <2>1, BrowserKeeps
<1>14. CASE browser' = [browser EXCEPT ![w].awaits = "release", ![w].reply = NoReply]
  <2>1. browser' = [browser EXCEPT ![w] = asking]
    BY <1>3, <1>14 DEF RecoveryInv, SubmissionTypeOK
  <2>2. NoReply \in Replies /\ NoReply.says = "none"
    BY DEF NoReply, Replies, Says, Statuses
  <2>3. /\ asking \in Waits /\ asking.awaits = "release" /\ asking.of = s
        /\ asking.reply = NoReply
    BY <1>2, <1>3, <2>2 DEF Waits
  <2> HIDE DEF asking
  <2>4. browser'[w] = asking
    BY <2>1 DEF RecoveryInv, SubmissionTypeOK
  <2>5. ReplyIsTrue(w)'
    BY <2>2, <2>3, <2>4 DEF ReplyIsTrue, Awaits, Authoritative
  <2> QED BY <1>1, <1>11, <1>12, <2>1, <2>3, <2>5, BrowserKeeps
<1> QED BY <1>5, <1>13, <1>14

LEMMA BlockedKeeps ==
    ASSUME RecoveryInv, NEW w \in Writers, ReleaseFailed(w)
    PROVE  RecoveryInv'
<1>1. /\ browser[w].awaits = "release"
      /\ browser' = [browser EXCEPT ![w] = Idle]
      /\ UNCHANGED <<slot, release, calls, line, dialog, settled>>
  BY DEF ReleaseFailed, Resumes
<1>2. PICK s \in Submissions : s = browser[w].of
  BY <1>1 DEF RecoveryInv, ReplyIsTrue
<1> DEFINE new == [item[s] EXCEPT !.blocked = TRUE]
<1>3. item' = [item EXCEPT ![s] = new]
  BY <1>2 DEF ReleaseFailed
<1>4. item[s] \in Kept
  BY DEF RecoveryInv, SubmissionTypeOK
<1>5. new \in Kept /\ new.fate = item[s].fate
  BY <1>4 DEF Kept
<1> HIDE DEF new
<1>6. item' \in [Submissions -> Kept] /\ AccountedFor'
  BY <1>1, <1>3, <1>5, FateIsAccounted
<1>7. Idle \in Waits /\ ReplyIsTrue(w)'
  BY <1>1, Resumed
<1>8. /\ calls' \subseteq Requests /\ dialog' \in [Writers -> Asked] /\ DialogNames'
      /\ line' \in [Writers -> Seq(Submissions)]
  BY <1>1 DEF RecoveryInv, SubmissionTypeOK, DialogNames
<1> QED BY <1>1, <1>6, <1>7, <1>8, BrowserKeeps

LEMMA ReloadKeeps ==
    ASSUME RecoveryInv, NEW w \in Writers, Reload(w)
    PROVE  RecoveryInv'
<1>1. /\ browser' = [browser EXCEPT ![w] = Idle]
      /\ dialog' = [dialog EXCEPT ![w] = NoDialog]
      /\ UNCHANGED <<slot, release, calls, item, line, settled>>
  BY DEF Reload, Resumes
<1>2. NoDialog \in Asked /\ dialog \in [Writers -> Asked]
  BY DEF NoDialog, Asked, RecoveryInv, SubmissionTypeOK
<1>3. dialog' \in [Writers -> Asked] /\ DialogNames'
  BY <1>1, <1>2 DEF RecoveryInv, DialogNames
<1>4. Idle \in Waits /\ ReplyIsTrue(w)'
  BY <1>1, Resumed
<1>5. /\ calls' \subseteq Requests /\ line' \in [Writers -> Seq(Submissions)]
      /\ item' \in [Submissions -> Kept] /\ AccountedFor'
  BY <1>1 DEF RecoveryInv, SubmissionTypeOK, AccountedFor
<1> QED BY <1>1, <1>3, <1>4, <1>5, BrowserKeeps

\* What a validator does with one line of the list.
LEMMA LineNames ==
    ASSUME RecoveryInv, NEW w \in Writers, NEW i \in DOMAIN line[w]
    PROVE  line[w][i] \in Submissions /\ i \in Nat /\ browser[w] \in Waits
<1>1. line[w] \in Seq(Submissions) /\ browser[w] \in Waits
  BY DEF RecoveryInv, SubmissionTypeOK
<1> QED BY <1>1, ElementOfSeq, LenProperties

LEMMA RetryKeeps ==
    ASSUME RecoveryInv, NEW w \in Writers, NEW i \in DOMAIN line[w], Retry(w, i)
    PROVE  RecoveryInv'
<1>1. PICK s \in Submissions : s = line[w][i]
  BY LineNames
<1> DEFINE new == [item[s] EXCEPT !.blocked = FALSE, !.attempts = 0, !.stamp = 0]
<1>2. /\ item \in [Submissions -> Kept] /\ item[s] \in Kept
  BY DEF RecoveryInv, SubmissionTypeOK
<1>3. /\ item' = [item EXCEPT ![s] = new]
      /\ UNCHANGED <<slot, release, calls, line, browser, dialog, settled>>
  BY <1>1, <1>2 DEF Retry
<1>4. new \in Kept /\ new.fate = item[s].fate
  BY <1>2 DEF Kept
<1> HIDE DEF new
<1>5. item' \in [Submissions -> Kept] /\ AccountedFor'
  BY <1>3, <1>4, FateIsAccounted
<1>6. /\ calls' \subseteq Requests /\ dialog' \in [Writers -> Asked] /\ DialogNames'
      /\ line' \in [Writers -> Seq(Submissions)] /\ browser[w] \in Waits
  BY <1>3 DEF RecoveryInv, SubmissionTypeOK, DialogNames
<1> QED BY <1>3, <1>5, <1>6, BrowserKeeps

LEMMA AskKeeps ==
    ASSUME RecoveryInv, NEW w \in Writers, NEW i \in DOMAIN line[w], AskDiscard(w, i)
    PROVE  RecoveryInv'
<1> DEFINE asked == [of |-> line[w][i], index |-> i]
<1>1. /\ dialog' = [dialog EXCEPT ![w] = asked]
      /\ UNCHANGED <<slot, release, calls, item, line, browser, settled>>
  BY DEF AskDiscard
<1>2. asked \in Asked /\ asked.of \in Submissions
  BY LineNames DEF Asked
<1> HIDE DEF asked
<1>3. dialog' \in [Writers -> Asked] /\ DialogNames'
  BY <1>1, <1>2 DEF RecoveryInv, SubmissionTypeOK, DialogNames
<1>4. /\ calls' \subseteq Requests /\ line' \in [Writers -> Seq(Submissions)]
      /\ item' \in [Submissions -> Kept] /\ AccountedFor' /\ browser[w] \in Waits
  BY <1>1 DEF RecoveryInv, SubmissionTypeOK, AccountedFor
<1> QED BY <1>1, <1>3, <1>4, BrowserKeeps

LEMMA DiscardKeeps ==
    ASSUME RecoveryInv, NEW w \in Writers, Discard(w)
    PROVE  RecoveryInv'
<1>1. /\ dialog' = [dialog EXCEPT ![w] = NoDialog]
      /\ UNCHANGED <<slot, release, calls, browser, settled>>
  BY DEF Discard
<1>2. PICK s \in Submissions : s = dialog[w].of
  BY DEF Discard, RecoveryInv, DialogNames
<1> DEFINE new == [item[s] EXCEPT !.fate = "discarded"]
<1>3. \/ line' = Spliced(w, dialog[w].index) /\ item' = [item EXCEPT ![s] = new]
      \/ UNCHANGED <<line, item>>
  BY <1>2 DEF Discard
<1>4. item[s] \in Kept
  BY DEF RecoveryInv, SubmissionTypeOK
<1>5. new \in Kept /\ new.fate = "discarded"
  BY <1>4 DEF Kept, Fates
<1> HIDE DEF new
<1>6. /\ item' \in [Submissions -> Kept] /\ AccountedFor'
      /\ line' \in [Writers -> Seq(Submissions)]
  <2>1. CASE line' = Spliced(w, dialog[w].index) /\ item' = [item EXCEPT ![s] = new]
    BY <1>1, <1>5, <2>1, FateIsAccounted, SplicedIsALine
  <2>2. CASE UNCHANGED <<line, item>>
    BY <1>1, <2>2 DEF RecoveryInv, SubmissionTypeOK, AccountedFor
  <2> QED BY <1>3, <2>1, <2>2
<1>7. NoDialog \in Asked /\ dialog \in [Writers -> Asked]
  BY DEF NoDialog, Asked, RecoveryInv, SubmissionTypeOK
<1>8. dialog' \in [Writers -> Asked] /\ DialogNames'
  BY <1>1, <1>7 DEF RecoveryInv, DialogNames
<1>9. calls' \subseteq Requests /\ browser[w] \in Waits
  BY <1>1 DEF RecoveryInv, SubmissionTypeOK
<1> QED BY <1>1, <1>6, <1>8, <1>9, BrowserKeeps

LEMMA RecoveryStep == RecoveryInv /\ [SubmissionNext]_recoveryVars => RecoveryInv'
<1> SUFFICES ASSUME RecoveryInv, [SubmissionNext]_recoveryVars PROVE RecoveryInv'
  OBVIOUS
<1>1. CASE Vacate
  BY <1>1, VacateKeeps
<1>2. CASE ExpireStamps
  BY <1>2, ExpiryKeeps
<1>3. ASSUME NEW s \in Submissions, Lapse(s)
      PROVE  RecoveryInv'
  BY <1>3, LapseKeeps
<1>4. ASSUME NEW s \in Submissions, EnqueueSubmit(s)
      PROVE  RecoveryInv'
  BY <1>4, EnqueueKeeps
<1>5. ASSUME NEW c \in calls,
             \/ JudgeCommits(c) \/ JudgeRefuses(c) \/ JudgeRollsBack(c) \/ IssueStamp(c)
             \/ ReleaseFailedSubmission(c) \/ CallIsLost(c)
      PROVE  RecoveryInv'
  BY <1>5, CallCommitKeeps, RefuseKeeps, RollBackKeeps, IssueKeeps, ReleaseKeeps, LossKeeps
<1>6. ASSUME NEW w \in Writers, Claim(w)
      PROVE  RecoveryInv'
  BY <1>6, HandOutKeeps
<1>7. ASSUME NEW w \in Writers,
             \/ SendFirst(w) \/ SubmitSaved(w) \/ SubmitGone(w) \/ SubmitFailed(w)
             \/ SlotGivenUp(w) \/ ReleaseFailed(w) \/ Reload(w) \/ Discard(w)
      PROVE  RecoveryInv'
  BY <1>7, SendKeeps, AnsweredLeave, FailedKeeps, BlockedKeeps, ReloadKeeps, DiscardKeeps
<1>8. ASSUME NEW w \in Writers, NEW i \in DOMAIN line[w], Retry(w, i) \/ AskDiscard(w, i)
      PROVE  RecoveryInv'
  BY <1>8, RetryKeeps, AskKeeps
<1>9. CASE UNCHANGED recoveryVars
  <2>1. UNCHANGED <<slot, release, calls, item, line, browser, dialog, settled>>
    BY <1>9 DEF recoveryVars
  <2>2. slot.judged = slot'.judged
    BY <2>1
  <2> QED BY <2>1, <2>2, SlotKeeps DEF RecoveryInv, SubmissionTypeOK
<1> QED BY <1>1, <1>2, <1>3, <1>4, <1>5, <1>6, <1>7, <1>8, <1>9 DEF SubmissionNext

\* A judgement that left its browser, other than by its validator's own discard, was saved,
\* or the server gave its slot up or had none for it: whatever calls were lost or answered
\* late, for any number of validators, pieces of work and attempts.
THEOREM NoWorkIsLost == SubmissionSpec => []AccountedFor
<1>1. SubmissionSpec => []RecoveryInv
  BY RecoveryInitially, RecoveryStep, PTL DEF SubmissionSpec
<1>2. RecoveryInv => AccountedFor
  BY DEF RecoveryInv
<1> QED BY <1>1, <1>2, PTL

-----------------------------------------------------------------------------
(***************************************************************************)
(* The added originals of an entry, for any number of entries, originals,  *)
(* suggestions and merges.                                                 *)
(***************************************************************************)
Recs == [status : {"unused", "review", "validated", "rejected"}, checked : BOOLEAN,
         orig : Originals]
Suggesting == [status : {"gone", "open", "accepted"}, on : XEntries \cup {NoRecord},
               as : XChildren \cup {NoRecord}]
Merging == [dup : XEntries \cup {NoRecord}, into : XEntries \cup {NoRecord},
            row : Rows \cup {NoRow}, kids : SUBSET XChildren]

AddedTypes ==
    /\ xrec \in [XRecords -> Recs]
    /\ xrow \in [XRecords -> Rows \cup {NoRow}]
    /\ parent \in [XChildren -> XEntries \cup {NoRecord}]
    /\ inherits \subseteq XChildren
    /\ survivorOf \in [XEntries -> XEntries \cup {NoRecord}]
    /\ suggestion \in [Suggestions -> Suggesting]
    /\ merge \in Merging
    /\ misled \subseteq XChildren
    /\ rekeys \in 0 .. MaxRekeys

\* A validated entry is published, a rejected one is not.
EntriesShown ==
    \A e \in XEntries :
        /\ Status(e) = "validated" => xrow[e] # NoRow
        /\ xrow[e] # NoRow => Status(e) # "rejected"

\* An added original in FLoRA has an entry and a row.
KidsShown == \A c \in XChildren : Live(c) => parent[c] \in XEntries /\ xrow[c] # NoRow
KidsStay  == \A c \in XChildren : Live(c) /\ c \notin misled => Status(parent[c]) # "rejected"

\* What the merge under way has locked is as it read it, but for the survivor's row.
MergeHolds ==
    merge # NoMerge =>
        /\ merge.dup \in XEntries /\ merge.into \in XEntries \ {merge.dup}
        /\ merge.row \in Rows
        /\ \A c \in merge.kids : Live(c)
        /\ LiveKids(merge.dup) \subseteq merge.kids

SuggestionsName == \A s \in Suggestions :
    suggestion[s].as # NoRecord => suggestion[s].status = "accepted"

AddedInv ==
    /\ AddedTypes /\ EntriesShown /\ KidsShown /\ KidsStay /\ MergeHolds /\ SuggestionsName

\* What a step does to one child.
KidFollows(c) ==
    LET p == parent'[c] IN
    (p # NoRecord /\ Live(c)' /\ xrow'[p] # NoRow /\ c \notin misled'
       /\ (p # parent[c] \/ xrow'[p] # xrow[p]))
    => \/ Follows(c)'
       \/ \E r \in XRecords \ {c} :
              /\ xrow'[r] # NoRow
              /\ Identity(xrow'[r]) = <<xrow'[p].rep, xrow'[c].orig>>
Reopens(c) ==
    \A s \in Suggestions :
        (Live(c) /\ ~ Live(c)' /\ suggestion[s].as = c /\ Status(parent[c])' # "rejected")
        => suggestion'[s].status = "open"
Brings == \A c \in XChildren : KidFollows(c) /\ Reopens(c)

LEMMA Apart == /\ XEntries \cap XChildren = {} /\ NoRecord \notin XEntries \cup XChildren
               /\ NoRow \notin Rows /\ CodedRep \in Reps
BY AddedAssumption DEF AddedAssumption, Rows, Outs

LEMMA AddedInitially == AddedInit => AddedInv
<1> SUFFICES ASSUME AddedInit PROVE AddedInv
  OBVIOUS
<1>1. xrec \in [XRecords -> Recs] /\ \A e \in XEntries : Status(e) = "review"
  <2>1. PICK orig \in [XEntries -> Originals] :
            xrec = [r \in XRecords |->
                IF r \in XEntries THEN [status |-> "review", checked |-> FALSE, orig |-> orig[r]]
                ELSE [status |-> "unused", checked |-> TRUE, orig |-> Suggested]]
    BY DEF AddedInit
  <2>2. Suggested \in Originals
    BY AddedAssumption DEF AddedAssumption
  <2> QED BY <2>1, <2>2 DEF Recs, Status, XRecords
<1>2. \A c \in XChildren : ~ Live(c)
  <2>1. PICK orig \in [XEntries -> Originals] :
            xrec = [r \in XRecords |->
                IF r \in XEntries THEN [status |-> "review", checked |-> FALSE, orig |-> orig[r]]
                ELSE [status |-> "unused", checked |-> TRUE, orig |-> Suggested]]
    BY DEF AddedInit
  <2> QED BY <2>1, Apart DEF Live, Status, XRecords
<1>3. NotMade \in Suggesting /\ NoMerge \in Merging
  BY DEF NotMade, Suggesting, NoMerge, Merging
<1>4. AddedTypes
  <2>1. rekeys \in 0 .. MaxRekeys
    BY AddedAssumption DEF AddedAssumption, AddedInit
  <2> QED BY <1>1, <1>3, <2>1 DEF AddedInit, AddedTypes
<1>5. EntriesShown
  BY <1>1 DEF EntriesShown, AddedInit, XRecords
<1>6. KidsShown /\ KidsStay
  BY <1>2 DEF KidsShown, KidsStay
<1>7. MergeHolds /\ SuggestionsName
  BY DEF MergeHolds, SuggestionsName, AddedInit, NotMade
<1> QED BY <1>4, <1>5, <1>6, <1>7 DEF AddedInv

LEMMA TypesAreTypes == AddedTypes => AddedTypeOK
BY DEF AddedTypes, AddedTypeOK, Recs, Suggesting, Merging

\* The children are brought in line with a row, or their identity is taken; and nothing
\* else is touched.
LEMMA SyncedRows ==
    ASSUME AddedTypes, NEW kids \in SUBSET XChildren, NEW shown \in Rows,
           NEW rows \in [XRecords -> Rows \cup {NoRow}],
           \A c \in kids : xrow[c] \in Rows /\ rows[c] = xrow[c]
    PROVE  /\ Synced(kids, rows, shown) \in [XRecords -> Rows \cup {NoRow}]
           /\ \A r \in XRecords \ kids : Synced(kids, rows, shown)[r] = rows[r]
           /\ \A c \in kids :
                /\ Synced(kids, rows, shown)[c] \in Rows
                /\ c \notin Blocked(kids, rows, shown) =>
                      /\ Synced(kids, rows, shown)[c].rep = shown.rep
                      /\ TypeOf(Synced(kids, rows, shown)[c].out) = TypeOf(shown.out)
                      /\ c \in inherits \cup Converted(kids, rows, shown) =>
                             Synced(kids, rows, shown)[c].out = shown.out
                /\ c \in Blocked(kids, rows, shown) =>
                      \E r \in XRecords \ {c} :
                          /\ Synced(kids, rows, shown)[r] # NoRow
                          /\ Identity(Synced(kids, rows, shown)[r]) =
                                 <<shown.rep, Synced(kids, rows, shown)[c].orig>>
<1> DEFINE new == Synced(kids, rows, shown)
           stuck == Blocked(kids, rows, shown)
<1>1. \A r \in XRecords : new[r] = IF r \in kids \ stuck THEN Wanted(r, shown) ELSE rows[r]
  BY DEF Synced
<1>2. new = [r \in XRecords |-> new[r]]
  BY DEF Synced
<1>3. ASSUME NEW c \in kids
      PROVE  /\ Wanted(c, shown) \in Rows
             /\ Wanted(c, shown).rep = shown.rep /\ Wanted(c, shown).orig = xrow[c].orig
             /\ TypeOf(Wanted(c, shown).out) = TypeOf(shown.out)
             /\ c \in inherits \/ TypeOf(xrow[c].out) # TypeOf(shown.out) =>
                    Wanted(c, shown).out = shown.out
  <2>1. xrow[c] \in Rows
    OBVIOUS
  <2> QED BY <2>1 DEF Wanted, Rows
<1>4. kids \subseteq XRecords
  BY DEF XRecords
<1> HIDE DEF new, stuck
<1>5. ASSUME NEW r \in XRecords PROVE new[r] \in Rows \cup {NoRow}
  BY <1>1, <1>3
<1>6. new \in [XRecords -> Rows \cup {NoRow}]
  BY <1>2, <1>5
<1>7. \A r \in XRecords \ kids : new[r] = rows[r]
  BY <1>1
<1>8. ASSUME NEW c \in kids, c \notin stuck
      PROVE  /\ new[c].rep = shown.rep /\ TypeOf(new[c].out) = TypeOf(shown.out)
             /\ c \in inherits \cup Converted(kids, rows, shown) => new[c].out = shown.out
  <2>1. new[c] = Wanted(c, shown)
    BY <1>1, <1>4, <1>8
  <2>2. c \in Converted(kids, rows, shown) => TypeOf(xrow[c].out) # TypeOf(shown.out)
    BY DEF Converted
  <2> QED BY <1>3, <2>1, <2>2
<1>9. ASSUME NEW c \in kids, c \in stuck
      PROVE  \E r \in XRecords \ {c} :
                 new[r] # NoRow /\ Identity(new[r]) = <<shown.rep, new[c].orig>>
  <2>1. Holders(rows, Identity(Wanted(c, shown)), {c}) # {}
    BY <1>9 DEF stuck, Blocked
  <2>2. PICK r \in XRecords \ {c} :
             rows[r] # NoRow /\ Identity(rows[r]) = Identity(Wanted(c, shown))
    BY <2>1 DEF Holders
  <2>3. Identity(Wanted(c, shown)) = <<shown.rep, xrow[c].orig>>
    BY <1>3 DEF Identity
  <2>4. new[c] = xrow[c]
    BY <1>1, <1>4, <1>9
  <2>5. CASE r \in kids \ stuck
    <3>1. new[r] = Wanted(r, shown) /\ new[r] \in Rows
      BY <1>1, <1>3, <2>5
    <3>2. rows[r].orig = xrow[c].orig /\ rows[r] = xrow[r]
      BY <2>2, <2>3, <2>5 DEF Identity
    <3>3. Identity(new[r]) = <<shown.rep, xrow[c].orig>>
      BY <1>3, <2>5, <3>1, <3>2 DEF Identity
    <3> QED BY <2>4, <3>1, <3>3, Apart
  <2>6. CASE r \notin kids \ stuck
    <3>1. new[r] = rows[r]
      BY <1>1, <2>6
    <3> QED BY <2>2, <2>3, <2>4, <3>1
  <2> QED BY <2>5, <2>6
<1>10. ASSUME NEW c \in kids PROVE new[c] \in Rows
  BY <1>1, <1>3, <1>4
<1> QED BY <1>6, <1>7, <1>8, <1>9, <1>10 DEF new, stuck

LEMMA RecordChanges ==
    ASSUME AddedTypes, NEW r \in XRecords, NEW new \in Recs, xrec' = [xrec EXCEPT ![r] = new]
    PROVE  /\ xrec' \in [XRecords -> Recs] /\ Status(r)' = new.status
           /\ \A q \in XRecords \ {r} : Status(q)' = Status(q)
BY DEF AddedTypes, Status

LEMMA PublishedRecord ==
    ASSUME AddedTypes, NEW e \in XEntries, NEW checked \in BOOLEAN, NEW orig \in Originals,
           xrec' = [xrec EXCEPT ![e].status = "validated", ![e].checked = checked,
                                ![e].orig = orig]
    PROVE  /\ xrec' \in [XRecords -> Recs] /\ Status(e)' = "validated"
           /\ \A q \in XRecords \ {e} : Status(q)' = Status(q)
<1>1. PICK was \in Recs : was = xrec[e]
  BY DEF AddedTypes, XRecords
<1> DEFINE new == [was EXCEPT !.status = "validated", !.checked = checked, !.orig = orig]
<1>2. new \in Recs /\ new.status = "validated"
  BY <1>1 DEF Recs
<1>3. xrec' = [xrec EXCEPT ![e] = new]
  BY <1>1 DEF AddedTypes, XRecords
<1>4. e \in XRecords
  BY DEF XRecords
<1> HIDE DEF new
<1> QED BY <1>2, <1>3, <1>4, RecordChanges

\* The merge under way finds its children, and those of its duplicate, as it left them.
LEMMA MergeStays ==
    ASSUME AddedInv, merge' = merge,
           \A c \in merge.kids : Live(c) => Live(c)',
           merge # NoMerge => LiveKids(merge.dup)' \subseteq LiveKids(merge.dup)
    PROVE  MergeHolds'
BY DEF AddedInv, MergeHolds

LEMMA SuggestionsStay ==
    ASSUME AddedInv, suggestion' = suggestion
    PROVE  SuggestionsName'
BY DEF AddedInv, SuggestionsName

\* A child that is in FLoRA as before, under the same entry, with rows that say the same.
LEMMA NothingBrought ==
    ASSUME AddedInv, parent' = parent,
           \A c \in XChildren : Live(c)' => Live(c),
           \A c \in XChildren : Live(c) /\ ~ Live(c)' => Status(parent[c])' = "rejected",
           \A e \in XEntries : xrow'[e] # xrow[e] => xrow'[e] = NoRow
    PROVE  Brings
<1> SUFFICES ASSUME NEW c \in XChildren PROVE KidFollows(c) /\ Reopens(c)
  BY DEF Brings
<1>1. parent[c] \in XEntries \cup {NoRecord}
  BY DEF AddedInv, AddedTypes
<1>2. KidFollows(c)
  BY <1>1 DEF KidFollows
<1>3. Reopens(c)
  BY DEF Reopens
<1> QED BY <1>2, <1>3

LEMMA EntryPublishes ==
    ASSUME AddedInv, NEW e \in XEntries, NEW shown \in Rows, NEW checked \in BOOLEAN,
           NEW strict, Publishes(e, shown, checked, strict),
           UNCHANGED <<parent, survivorOf, suggestion, merge, misled, rekeys>>
    PROVE  AddedInv' /\ Brings
<1> DEFINE rows == [xrow EXCEPT ![e] = shown]
           kids == LiveKids(e)
<1>1. /\ xrow' = Synced(kids, rows, shown)
      /\ inherits' = inherits \cup Converted(kids, rows, shown)
      /\ xrec' = [xrec EXCEPT ![e].status = "validated", ![e].checked = checked,
                              ![e].orig = shown.orig]
  BY DEF Publishes
<1>2. /\ AddedTypes /\ e \in XRecords /\ e \notin XChildren
      /\ shown # NoRow /\ shown.orig \in Originals
  BY Apart DEF AddedInv, XRecords, Rows
<1>3. /\ rows \in [XRecords -> Rows \cup {NoRow}] /\ rows[e] = shown
      /\ \A r \in XRecords \ {e} : rows[r] = xrow[r]
  BY <1>2 DEF AddedTypes
<1>4. /\ kids \in SUBSET XChildren /\ kids \subseteq XRecords
      /\ \A c \in XChildren : c \in kids <=> parent[c] = e /\ Live(c)
  BY DEF LiveKids, XRecords
<1>5. \A c \in kids : xrow[c] \in Rows /\ rows[c] = xrow[c]
  <2>1. \A c \in kids : xrow[c] \in Rows
    BY <1>2, <1>4 DEF AddedInv, KidsShown, AddedTypes
  <2> QED BY <1>2, <1>3, <1>4, <2>1
<1> HIDE DEF rows, kids
<1>6. /\ xrow' \in [XRecords -> Rows \cup {NoRow}]
      /\ \A r \in XRecords \ kids : xrow'[r] = rows[r]
      /\ \A c \in kids :
           /\ xrow'[c] \in Rows
           /\ \/ /\ xrow'[c].rep = shown.rep /\ TypeOf(xrow'[c].out) = TypeOf(shown.out)
                 /\ c \in inherits' => xrow'[c].out = shown.out
              \/ \E r \in XRecords \ {c} :
                     xrow'[r] # NoRow /\ Identity(xrow'[r]) = <<shown.rep, xrow'[c].orig>>
  <2> DEFINE new == Synced(kids, rows, shown)
  <2>1. /\ new \in [XRecords -> Rows \cup {NoRow}]
        /\ \A r \in XRecords \ kids : new[r] = rows[r]
        /\ \A c \in kids :
             /\ new[c] \in Rows
             /\ c \notin Blocked(kids, rows, shown) =>
                   /\ new[c].rep = shown.rep /\ TypeOf(new[c].out) = TypeOf(shown.out)
                   /\ c \in inherits \cup Converted(kids, rows, shown) => new[c].out = shown.out
             /\ c \in Blocked(kids, rows, shown) =>
                   \E r \in XRecords \ {c} :
                       new[r] # NoRow /\ Identity(new[r]) = <<shown.rep, new[c].orig>>
    BY <1>2, <1>3, <1>4, <1>5, SyncedRows
  <2> HIDE DEF new
  <2>2. xrow' = new
    BY <1>1 DEF new
  <2> QED BY <1>1, <2>1, <2>2
<1>7. /\ xrow'[e] = shown /\ \A f \in XEntries \ {e} : xrow'[f] = xrow[f]
      /\ \A c \in XChildren \ kids : xrow'[c] = xrow[c]
  BY <1>2, <1>3, <1>4, <1>6, Apart DEF XRecords
<1>8. /\ xrec' \in [XRecords -> Recs] /\ Status(e)' = "validated"
      /\ \A q \in XRecords \ {e} : Status(q)' = Status(q)
  BY <1>1, <1>2, PublishedRecord
<1>9. \A c \in XChildren : Live(c)' <=> Live(c)
  BY <1>2, <1>8 DEF Live, XRecords
<1>10. AddedTypes'
  <2>1. inherits' \subseteq XChildren
    BY <1>1, <1>2, <1>4 DEF Converted, AddedTypes
  <2> QED BY <1>2, <1>6, <1>8, <2>1 DEF AddedTypes
<1>11. EntriesShown'
  BY <1>2, <1>7, <1>8 DEF AddedInv, EntriesShown, XRecords
<1>12. KidsShown'
  <2>1. \A c \in kids : xrow'[c] # NoRow
    BY <1>6, Apart
  <2> QED BY <1>4, <1>7, <1>9, <2>1 DEF AddedInv, KidsShown
<1>13. KidsStay'
  <2> SUFFICES ASSUME NEW c \in XChildren, Live(c), c \notin misled
               PROVE  Status(parent[c])' # "rejected"
    BY <1>9 DEF KidsStay
  <2>1. parent[c] \in XEntries /\ Status(parent[c]) # "rejected"
    BY DEF AddedInv, KidsShown, KidsStay
  <2> QED BY <1>8, <2>1 DEF XRecords, Status
<1>14. MergeHolds' /\ SuggestionsName'
  <2>1. merge.kids \subseteq XChildren
    BY <1>2 DEF AddedTypes, Merging
  <2>2. LiveKids(merge.dup)' \subseteq LiveKids(merge.dup)
    BY <1>9 DEF LiveKids
  <2> QED BY <1>9, <2>1, <2>2, MergeStays, SuggestionsStay
<1>15. Brings
  <2> SUFFICES ASSUME NEW c \in XChildren PROVE KidFollows(c) /\ Reopens(c)
    BY DEF Brings
  <2>1. Reopens(c)
    BY <1>9 DEF Reopens
  <2>2. KidFollows(c)
    <3> SUFFICES ASSUME parent[c] # NoRecord, Live(c)', xrow'[parent[c]] # xrow[parent[c]]
                 PROVE  \/ Follows(c)'
                        \/ \E r \in XRecords \ {c} :
                               /\ xrow'[r] # NoRow
                               /\ Identity(xrow'[r]) = <<xrow'[parent[c]].rep, xrow'[c].orig>>
      BY DEF KidFollows
    <3>1. parent[c] \in XEntries
      BY <1>2 DEF AddedTypes
    <3>2. parent[c] = e
      BY <1>7, <3>1
    <3>3. c \in kids
      BY <1>4, <1>9, <3>2
    <3> QED BY <1>6, <1>7, <3>2, <3>3 DEF Follows
  <2> QED BY <2>1, <2>2
<1> QED BY <1>10, <1>11, <1>12, <1>13, <1>14, <1>15 DEF AddedInv

\* An entry leaves with its children; a merge has locked those it moves.
LEMMA EntryRejects ==
    ASSUME AddedInv, NEW e \in XEntries, NEW checked \in BOOLEAN, RowsUnlocked(e),
           RejectsEntry(e, checked)
    PROVE  AddedInv' /\ Brings
<1> DEFINE kids == LiveKids(e)
           new == [xrec[e] EXCEPT !.status = "rejected", !.checked = checked]
<1>1. /\ xrec' = Rejected(xrec, e, checked) /\ xrow' = Dropped(xrow, e)
      /\ UNCHANGED <<parent, inherits, survivorOf, suggestion, merge, misled, rekeys>>
  BY DEF RejectsEntry
<1>2. AddedTypes /\ e \in XRecords /\ e \notin XChildren
  BY Apart DEF AddedInv, XRecords
<1>3. \A c \in XChildren : c \in kids <=> parent[c] = e /\ Live(c)
  BY DEF LiveKids
<1>4. kids \subseteq XChildren
  BY DEF LiveKids
<1>5. \A r \in XRecords : xrec'[r] = IF r = e THEN new
                                     ELSE IF r \in kids THEN [xrec[r] EXCEPT !.status = "rejected"]
                                     ELSE xrec[r]
  BY <1>1 DEF Rejected
<1>6. xrec' = [r \in XRecords |-> xrec'[r]]
  BY <1>1 DEF Rejected
<1>7. \A r \in XRecords : xrow'[r] = IF r = e \/ r \in kids THEN NoRow ELSE xrow[r]
  BY <1>1 DEF Dropped
<1>8. xrow' \in [XRecords -> Rows \cup {NoRow}]
  BY <1>1, <1>2 DEF Dropped, AddedTypes
<1> HIDE DEF kids
<1>9. \A r \in XRecords : xrec[r] \in Recs
  BY <1>2 DEF AddedTypes
<1>10. new \in Recs /\ new.status = "rejected"
  BY <1>2, <1>9 DEF Recs
<1> HIDE DEF new
<1>11. ASSUME NEW r \in XRecords
       PROVE  /\ xrec'[r] \in Recs
              /\ Status(r)' = IF r = e \/ r \in kids THEN "rejected" ELSE Status(r)
  <2>1. CASE r = e
    BY <1>5, <1>10, <2>1 DEF Status
  <2>2. CASE r # e /\ r \in kids
    BY <1>5, <1>9, <2>2 DEF Status, Recs
  <2>3. CASE r # e /\ r \notin kids
    BY <1>5, <1>9, <2>3 DEF Status
  <2> QED BY <2>1, <2>2, <2>3
<1>12. xrec' \in [XRecords -> Recs]
  BY <1>6, <1>11
<1>13. AddedTypes'
  BY <1>1, <1>2, <1>8, <1>12 DEF AddedTypes
<1>14. \A c \in XChildren : Live(c)' <=> Live(c) /\ c \notin kids
  BY <1>2, <1>11 DEF Live, XRecords
<1>15. \A f \in XEntries : /\ f \in XRecords /\ f \notin kids
                           /\ f # e => Status(f)' = Status(f) /\ xrow'[f] = xrow[f]
  BY <1>4, <1>7, <1>11, Apart DEF XRecords
<1>16. EntriesShown'
  BY <1>2, <1>7, <1>11, <1>15 DEF AddedInv, EntriesShown
<1>17. KidsShown'
  BY <1>1, <1>2, <1>7, <1>14 DEF AddedInv, KidsShown, XRecords
<1>18. KidsStay'
  <2> SUFFICES ASSUME NEW c \in XChildren, Live(c), c \notin kids, c \notin misled
               PROVE  Status(parent[c])' # "rejected"
    BY <1>1, <1>14 DEF KidsStay, Status
  <2>1. parent[c] \in XEntries /\ Status(parent[c]) # "rejected" /\ parent[c] # e
    BY <1>3 DEF AddedInv, KidsShown, KidsStay
  <2> QED BY <1>1, <1>15, <2>1 DEF Status
<1>19. MergeHolds' /\ SuggestionsName'
  <2>1. merge.kids \subseteq XChildren
    BY <1>2 DEF AddedTypes, Merging
  <2>2. LiveKids(merge.dup)' \subseteq LiveKids(merge.dup)
    BY <1>1, <1>14 DEF LiveKids
  <2>3. kids \cap merge.kids = {}
    <3>1. CASE merge = NoMerge
      BY <3>1 DEF NoMerge
    <3>2. CASE merge # NoMerge
      BY <3>2 DEF RowsUnlocked, kids
    <3> QED BY <3>1, <3>2
  <2> QED BY <1>1, <1>14, <2>1, <2>2, <2>3, MergeStays, SuggestionsStay
<1>20. Brings
  <2>1. \A c \in XChildren : Live(c) /\ ~ Live(c)' => Status(parent[c])' = "rejected"
    <3>1. Status(e)' = "rejected"
      BY <1>2, <1>11
    <3> QED BY <1>1, <1>3, <1>14, <3>1 DEF Status
  <2>2. \A f \in XEntries : xrow'[f] # xrow[f] => xrow'[f] = NoRow
    BY <1>2, <1>7, <1>15
  <2> QED BY <1>1, <1>14, <2>1, <2>2, NothingBrought
<1> QED BY <1>13, <1>16, <1>17, <1>18, <1>19, <1>20 DEF AddedInv

\* Back to review, with its row or without.
LEMMA EntryReturns ==
    ASSUME AddedInv, NEW e \in XEntries, NEW new \in Recs, new.status = "review",
           xrec' = [xrec EXCEPT ![e] = new],
           xrow' = xrow \/ xrow' = [xrow EXCEPT ![e] = NoRow],
           rekeys' \in 0 .. MaxRekeys,
           UNCHANGED <<parent, inherits, survivorOf, suggestion, merge, misled>>
    PROVE  AddedInv' /\ Brings
<1>1. AddedTypes /\ e \in XRecords /\ e \notin XChildren
  BY Apart DEF AddedInv, XRecords
<1>2. /\ xrec' \in [XRecords -> Recs] /\ Status(e)' = "review"
      /\ \A q \in XRecords \ {e} : Status(q)' = Status(q)
  BY <1>1, RecordChanges
<1>3. /\ xrow' \in [XRecords -> Rows \cup {NoRow}]
      /\ \A r \in XRecords : xrow'[r] = xrow[r] \/ (r = e /\ xrow'[r] = NoRow)
  BY <1>1 DEF AddedTypes
<1>4. AddedTypes'
  BY <1>1, <1>2, <1>3 DEF AddedTypes
<1>5. \A c \in XChildren : c \in XRecords /\ c # e /\ (Live(c)' <=> Live(c)) /\ xrow'[c] = xrow[c]
  BY <1>1, <1>2, <1>3 DEF Live, XRecords
<1>6. EntriesShown'
  BY <1>2, <1>3 DEF AddedInv, EntriesShown, XRecords
<1>7. KidsShown'
  BY <1>5 DEF AddedInv, KidsShown
<1>8. KidsStay'
  <2> SUFFICES ASSUME NEW c \in XChildren, Live(c), c \notin misled
               PROVE  Status(parent[c])' # "rejected"
    BY <1>5 DEF KidsStay, Status
  <2>1. parent[c] \in XEntries /\ Status(parent[c]) # "rejected"
    BY DEF AddedInv, KidsShown, KidsStay
  <2> QED BY <1>2, <2>1 DEF XRecords, Status
<1>9. MergeHolds' /\ SuggestionsName'
  <2>1. merge.kids \subseteq XChildren
    BY <1>1 DEF AddedTypes, Merging
  <2>2. LiveKids(merge.dup)' \subseteq LiveKids(merge.dup)
    BY <1>5 DEF LiveKids
  <2> QED BY <1>5, <2>1, <2>2, MergeStays, SuggestionsStay
<1>10. Brings
  <2>1. \A f \in XEntries : xrow'[f] # xrow[f] => xrow'[f] = NoRow
    BY <1>3 DEF XRecords
  <2> QED BY <1>5, <2>1, NothingBrought
<1> QED BY <1>4, <1>6, <1>7, <1>8, <1>9, <1>10 DEF AddedInv

LEMMA FlagKeeps ==
    ASSUME AddedInv, NEW e \in XEntries, FlagReview(e)
    PROVE  AddedInv' /\ Brings
<1> DEFINE new == [xrec[e] EXCEPT !.status = "review"]
<1>1. xrec[e] \in Recs
  BY DEF AddedInv, AddedTypes, XRecords
<1>2. new \in Recs /\ new.status = "review"
  BY <1>1 DEF Recs
<1>3. /\ xrec' = [xrec EXCEPT ![e] = new] /\ xrow' = [xrow EXCEPT ![e] = NoRow]
      /\ UNCHANGED <<parent, inherits, survivorOf, suggestion, merge, misled, rekeys>>
  BY DEF FlagReview
<1>4. rekeys' \in 0 .. MaxRekeys
  BY <1>3 DEF AddedInv, AddedTypes
<1> HIDE DEF new
<1> QED BY <1>2, <1>3, <1>4, EntryReturns

LEMMA RekeyKeeps ==
    ASSUME AddedInv, NEW e \in XEntries, Rekey(e)
    PROVE  AddedInv' /\ Brings
<1>1. PICK o \in Originals : xrec' = [xrec EXCEPT ![e].status = "review", ![e].orig = o]
  BY DEF Rekey
<1>2. /\ rekeys < MaxRekeys /\ rekeys' = rekeys + 1
      /\ UNCHANGED <<xrow, parent, inherits, survivorOf, suggestion, merge, misled>>
  BY DEF Rekey
<1>3. PICK was \in Recs : was = xrec[e]
  BY DEF AddedInv, AddedTypes, XRecords
<1> DEFINE new == [was EXCEPT !.status = "review", !.orig = o]
<1>4. new \in Recs /\ new.status = "review"
  BY <1>3 DEF Recs
<1>5. xrec' = [xrec EXCEPT ![e] = new]
  BY <1>1, <1>3 DEF AddedInv, AddedTypes, XRecords
<1>6. rekeys' \in 0 .. MaxRekeys
  BY <1>2, AddedAssumption DEF AddedAssumption, AddedInv, AddedTypes
<1> HIDE DEF new
<1> QED BY <1>2, <1>4, <1>5, <1>6, EntryReturns

\* What judges suggest changes no record.
LEMMA SuggestionKeeps ==
    ASSUME AddedInv, suggestion' \in [Suggestions -> Suggesting], SuggestionsName',
           UNCHANGED <<xrec, xrow, parent, inherits, survivorOf, merge, misled, rekeys>>
    PROVE  AddedInv' /\ Brings
<1>1. AddedTypes'
  BY DEF AddedInv, AddedTypes
<1>2. EntriesShown' /\ KidsShown' /\ KidsStay'
  BY DEF AddedInv, EntriesShown, KidsShown, KidsStay, Live, Status
<1>3. MergeHolds'
  BY DEF AddedInv, MergeHolds, LiveKids, Live, Status
<1>4. Brings
  BY NothingBrought DEF Live, Status
<1> QED BY <1>1, <1>2, <1>3, <1>4 DEF AddedInv

LEMMA SuggestKeeps ==
    ASSUME AddedInv, NEW e \in XEntries, NEW s \in Suggestions, Suggest(e, s)
    PROVE  AddedInv' /\ Brings
<1> DEFINE open == [status |-> "open", on |-> e, as |-> NoRecord]
<1>1. /\ suggestion' = [suggestion EXCEPT ![s] = open]
      /\ UNCHANGED <<xrec, xrow, parent, inherits, survivorOf, merge, misled, rekeys>>
  BY DEF Suggest
<1>2. open \in Suggesting /\ open.as = NoRecord
  BY DEF Suggesting
<1> HIDE DEF open
<1>3. suggestion' \in [Suggestions -> Suggesting] /\ SuggestionsName'
  BY <1>1, <1>2 DEF AddedInv, AddedTypes, SuggestionsName
<1> QED BY <1>1, <1>3, SuggestionKeeps

LEMMA DismissKeeps ==
    ASSUME AddedInv, NEW e \in XEntries, DismissSuggestion(e)
    PROVE  AddedInv' /\ Brings
<1>1. /\ suggestion' = [s \in Suggestions |->
             IF suggestion[s].status = "open" /\ suggestion[s].on = e
             THEN NotMade ELSE suggestion[s]]
      /\ UNCHANGED <<xrec, xrow, parent, inherits, survivorOf, merge, misled, rekeys>>
  BY DEF DismissSuggestion
<1>2. NotMade \in Suggesting /\ NotMade.as = NoRecord
  BY DEF NotMade, Suggesting
<1>3. suggestion' \in [Suggestions -> Suggesting] /\ SuggestionsName'
  BY <1>1, <1>2 DEF AddedInv, AddedTypes, SuggestionsName
<1> QED BY <1>1, <1>3, SuggestionKeeps

\* A merge begins with what it reads, and may be refused.
LEMMA MergeReadKeeps ==
    ASSUME AddedInv, NEW d \in XEntries, NEW s \in XEntries, MergeReads(d, s)
    PROVE  AddedInv' /\ Brings
<1>1. /\ s # d /\ xrow[s] # NoRow
      /\ merge' = [dup |-> d, into |-> s, row |-> xrow[s], kids |-> LiveKids(d) \cup LiveKids(s)]
      /\ UNCHANGED <<xrec, xrow, parent, inherits, survivorOf, suggestion, misled, rekeys>>
  BY DEF MergeReads
<1>2. xrow[s] \in Rows
  BY <1>1 DEF AddedInv, AddedTypes, XRecords
<1>3. LiveKids(d) \cup LiveKids(s) \subseteq XChildren
  BY DEF LiveKids
<1>4. merge' \in Merging
  BY <1>1, <1>2, <1>3 DEF Merging
<1>5. /\ merge'.dup = d /\ merge'.into = s /\ merge'.row = xrow[s]
      /\ merge'.kids = LiveKids(d) \cup LiveKids(s)
  BY <1>1
<1>6. AddedTypes'
  BY <1>1, <1>4 DEF AddedInv, AddedTypes
<1>7. EntriesShown' /\ KidsShown' /\ KidsStay' /\ SuggestionsName'
  BY <1>1, SuggestionsStay DEF AddedInv, EntriesShown, KidsShown, KidsStay, Live, Status
<1>8. MergeHolds'
  <2>1. \A c \in XChildren : Live(c)' <=> Live(c)
    BY <1>1 DEF Live, Status
  <2>2. LiveKids(d)' = LiveKids(d)
    BY <1>1, <2>1 DEF LiveKids
  <2>3. \A c \in merge'.kids : c \in XChildren /\ Live(c)
    BY <1>5 DEF LiveKids
  <2>4. LiveKids(merge.dup)' \subseteq merge'.kids
    BY <1>5, <2>2 DEF LiveKids
  <2> QED BY <1>1, <1>2, <1>5, <2>1, <2>3, <2>4 DEF MergeHolds
<1>9. Brings
  BY <1>1, NothingBrought DEF Live, Status
<1> QED BY <1>6, <1>7, <1>8, <1>9 DEF AddedInv

LEMMA RefusalKeeps ==
    ASSUME AddedInv, MergeRefused
    PROVE  AddedInv' /\ Brings
<1>1. /\ merge' = NoMerge
      /\ UNCHANGED <<xrec, xrow, parent, inherits, survivorOf, suggestion, misled, rekeys>>
  BY DEF MergeRefused
<1>2. NoMerge \in Merging
  BY DEF NoMerge, Merging
<1>3. AddedTypes'
  BY <1>1, <1>2 DEF AddedInv, AddedTypes
<1>4. EntriesShown' /\ KidsShown' /\ KidsStay' /\ SuggestionsName'
  BY <1>1, SuggestionsStay DEF AddedInv, EntriesShown, KidsShown, KidsStay, Live, Status
<1>5. MergeHolds'
  BY <1>1 DEF MergeHolds, NoMerge
<1>6. Brings
  BY <1>1, NothingBrought DEF Live, Status
<1> QED BY <1>3, <1>4, <1>5, <1>6 DEF AddedInv

LEMMA ResolveChildKeeps ==
    ASSUME AddedInv, NEW c \in XChildren, ResolveChild(c)
    PROVE  AddedInv' /\ Brings
<1>1. PICK o \in Originals, out \in Outs :
          /\ xrow' = [xrow EXCEPT ![c] = [xrow[c] EXCEPT !.orig = o, !.out = out]]
          /\ inherits' = IF out = xrow[c].out THEN inherits ELSE inherits \ {c}
  BY DEF ResolveChild
<1>2. /\ Live(c) /\ UNCHANGED <<xrec, parent, survivorOf, suggestion, merge, misled, rekeys>>
  BY DEF ResolveChild
<1>3. AddedTypes /\ c \in XRecords /\ c \notin XEntries
  BY Apart DEF AddedInv, XRecords
<1>4. xrow[c] \in Rows
  BY <1>2, <1>3 DEF AddedInv, KidsShown, AddedTypes
<1> DEFINE shown == [xrow[c] EXCEPT !.orig = o, !.out = out]
<1>5. shown \in Rows
  BY <1>4 DEF Rows
<1>6. xrow' = [xrow EXCEPT ![c] = shown]
  BY <1>1
<1> HIDE DEF shown
<1>7. AddedTypes'
  BY <1>1, <1>2, <1>3, <1>5, <1>6 DEF AddedTypes
<1>8. \A r \in XRecords : xrow'[r] = IF r = c THEN shown ELSE xrow[r]
  BY <1>3, <1>6 DEF AddedTypes
<1>9. \A d \in XChildren : Live(d)' <=> Live(d)
  BY <1>2 DEF Live, Status
<1>10. EntriesShown' /\ KidsShown' /\ KidsStay'
  <2>1. EntriesShown'
    BY <1>2, <1>3, <1>8 DEF AddedInv, EntriesShown, Status, XRecords
  <2>2. KidsShown'
    BY <1>2, <1>5, <1>8, <1>9, Apart DEF AddedInv, KidsShown, XRecords
  <2>3. KidsStay'
    BY <1>2, <1>9 DEF AddedInv, KidsStay, Status
  <2> QED BY <2>1, <2>2, <2>3
<1>11. MergeHolds' /\ SuggestionsName'
  <2>1. LiveKids(merge.dup)' \subseteq LiveKids(merge.dup)
    BY <1>2, <1>9 DEF LiveKids
  <2>2. \A d \in merge.kids : d \in XChildren
    BY <1>3 DEF AddedTypes, Merging
  <2> QED BY <1>2, <1>9, <2>1, <2>2, MergeStays, SuggestionsStay
<1>12. Brings
  <2>1. \A e \in XEntries : xrow'[e] = xrow[e]
    BY <1>3, <1>8 DEF XRecords
  <2> QED BY <1>2, <1>9, <2>1, NothingBrought
<1> QED BY <1>7, <1>10, <1>11, <1>12 DEF AddedInv

LEMMA RemoveChildKeeps ==
    ASSUME AddedInv, NEW c \in XChildren, RemoveChild(c)
    PROVE  AddedInv' /\ Brings
<1> DEFINE new == [xrec[c] EXCEPT !.status = "rejected"]
<1>1. /\ Live(c) /\ c \notin merge.kids
      /\ xrec' = [xrec EXCEPT ![c] = new]
      /\ xrow' = [xrow EXCEPT ![c] = NoRow]
      /\ suggestion' = Reopened(c)
      /\ UNCHANGED <<parent, inherits, survivorOf, merge, misled, rekeys>>
  BY DEF RemoveChild, ChildUnlocked
<1>2. AddedTypes /\ c \in XRecords /\ c \notin XEntries
  BY Apart DEF AddedInv, XRecords
<1>3. new \in Recs /\ new.status = "rejected"
  <2>1. xrec[c] \in Recs
    BY <1>2 DEF AddedTypes
  <2> QED BY <2>1 DEF Recs
<1> HIDE DEF new
<1>4. /\ xrec' \in [XRecords -> Recs] /\ Status(c)' = "rejected"
      /\ \A q \in XRecords \ {c} : Status(q)' = Status(q)
  BY <1>1, <1>2, <1>3, RecordChanges
<1>5. /\ xrow' \in [XRecords -> Rows \cup {NoRow}]
      /\ \A r \in XRecords : xrow'[r] = IF r = c THEN NoRow ELSE xrow[r]
  BY <1>1, <1>2 DEF AddedTypes
<1>6. \A d \in XChildren : Live(d)' <=> Live(d) /\ d # c
  BY <1>2, <1>4 DEF Live, XRecords
<1>7. \A s \in Suggestions :
         IF suggestion[s].status = "accepted" /\ suggestion[s].as = c
         THEN suggestion'[s] = [suggestion[s] EXCEPT !.status = "open", !.as = NoRecord]
         ELSE suggestion'[s] = suggestion[s]
  BY <1>1 DEF Reopened
<1>8. ASSUME NEW s \in Suggestions
      PROVE  /\ suggestion'[s] \in Suggesting
             /\ suggestion'[s].as # NoRecord => suggestion'[s].status = "accepted"
             /\ suggestion[s].as = c => suggestion'[s].status = "open"
  <2>1. suggestion[s] \in Suggesting
    BY <1>2 DEF AddedTypes
  <2>2. suggestion[s].as # NoRecord => suggestion[s].status = "accepted"
    BY DEF AddedInv, SuggestionsName
  <2>3. c # NoRecord
    BY Apart
  <2>4. CASE suggestion[s].status = "accepted" /\ suggestion[s].as = c
    <3>1. suggestion'[s] = [suggestion[s] EXCEPT !.status = "open", !.as = NoRecord]
      BY <1>7, <2>4
    <3> QED BY <2>1, <3>1 DEF Suggesting
  <2>5. CASE ~(suggestion[s].status = "accepted" /\ suggestion[s].as = c)
    <3>1. suggestion'[s] = suggestion[s]
      BY <1>7, <2>5
    <3> QED BY <2>1, <2>2, <2>3, <2>5, <3>1
  <2> QED BY <2>4, <2>5
<1>9. suggestion' \in [Suggestions -> Suggesting]
  <2>1. suggestion' = [s \in Suggestions |-> suggestion'[s]]
    BY <1>1 DEF Reopened
  <2> QED BY <1>8, <2>1
<1>10. AddedTypes'
  BY <1>1, <1>2, <1>4, <1>5, <1>9 DEF AddedTypes
<1>11. EntriesShown'
  BY <1>2, <1>4, <1>5 DEF AddedInv, EntriesShown, XRecords
<1>12. KidsShown'
  BY <1>1, <1>5, <1>6 DEF AddedInv, KidsShown, XRecords
<1>13. KidsStay'
  <2> SUFFICES ASSUME NEW d \in XChildren, Live(d), d \notin misled
               PROVE  Status(parent[d])' # "rejected"
    BY <1>1, <1>6 DEF KidsStay, Status
  <2>1. parent[d] \in XEntries /\ Status(parent[d]) # "rejected"
    BY DEF AddedInv, KidsShown, KidsStay
  <2>2. parent[d] \in XRecords \ {c}
    BY <1>2, <2>1 DEF XRecords
  <2> QED BY <1>1, <1>4, <2>1, <2>2 DEF Status
<1>14. MergeHolds' /\ SuggestionsName'
  <2>1. LiveKids(merge.dup)' \subseteq LiveKids(merge.dup)
    BY <1>1, <1>6 DEF LiveKids
  <2>2. \A d \in merge.kids : d \in XChildren
    BY <1>2 DEF AddedTypes, Merging
  <2>3. SuggestionsName'
    BY <1>8 DEF SuggestionsName
  <2> QED BY <1>1, <1>6, <2>1, <2>2, <2>3, MergeStays
<1>15. Brings
  <2> SUFFICES ASSUME NEW d \in XChildren PROVE KidFollows(d) /\ Reopens(d)
    BY DEF Brings
  <2>1. Reopens(d)
    BY <1>6, <1>8 DEF Reopens
  <2>2. parent'[d] \in XEntries \cup {NoRecord} /\ parent'[d] = parent[d]
    BY <1>1, <1>2 DEF AddedTypes
  <2>3. \A e \in XEntries : xrow'[e] = xrow[e]
    BY <1>2, <1>5 DEF XRecords
  <2> QED BY <2>1, <2>2, <2>3 DEF KidFollows
<1> QED BY <1>10, <1>11, <1>12, <1>13, <1>14, <1>15 DEF AddedInv

\* A new child follows the row of its entry, as the children that are there do.
LEMMA ChildAdded ==
    ASSUME AddedInv, NEW e \in XEntries, NEW c \in XChildren, RowsUnlocked(e), ~ Live(c),
           xrow' \in [XRecords -> Rows \cup {NoRow}], xrow'[e] \in Rows, xrow'[c] \in Rows,
           \A f \in XEntries \ {e} : xrow'[f] = xrow[f],
           \A d \in XChildren \ {c} : Live(d) => xrow'[d] # NoRow,
           \A d \in XChildren :
               d = c \/ (Live(d) /\ parent[d] = e /\ xrow'[e] # xrow[e]) =>
                   /\ xrow'[d].rep = xrow'[e].rep
                   /\ TypeOf(xrow'[d].out) = TypeOf(xrow'[e].out)
                   /\ d \in inherits' => xrow'[d].out = xrow'[e].out,
           xrec' \in [XRecords -> Recs], Status(e)' = "validated", Status(c)' = "validated",
           \A q \in XRecords \ {e, c} : Status(q)' = Status(q),
           inherits' \subseteq XChildren, parent' = [parent EXCEPT ![c] = e],
           suggestion' \in [Suggestions -> Suggesting], SuggestionsName',
           UNCHANGED <<survivorOf, merge, misled, rekeys>>
    PROVE  AddedInv' /\ Brings
<1>1. AddedTypes /\ e \notin XChildren /\ c \notin XEntries
  BY Apart DEF AddedInv
<1>2. \A d \in XChildren : parent'[d] = IF d = c THEN e ELSE parent[d]
  BY <1>1 DEF AddedTypes
<1>3. AddedTypes'
  <2>1. parent' \in [XChildren -> XEntries \cup {NoRecord}]
    BY <1>1 DEF AddedTypes
  <2> QED BY <1>1, <2>1 DEF AddedTypes
<1>4. \A d \in XChildren : Live(d)' <=> Live(d) \/ d = c
  BY <1>1 DEF Live, XRecords
<1>5. \A f \in XEntries \ {e} : Status(f)' = Status(f)
  BY <1>1 DEF XRecords
<1>6. EntriesShown'
  <2>1. xrow'[e] # NoRow
    BY Apart
  <2> QED BY <1>5, <2>1 DEF AddedInv, EntriesShown
<1>7. KidsShown'
  <2>1. xrow'[c] # NoRow
    BY Apart
  <2> QED BY <1>2, <1>4, <2>1 DEF AddedInv, KidsShown
<1>8. KidsStay'
  <2> SUFFICES ASSUME NEW d \in XChildren, Live(d)', d \notin misled
               PROVE  xrec'[parent'[d]].status # "rejected"
    BY DEF KidsStay, Status
  <2>1. CASE d = c
    BY <1>2, <2>1 DEF Status
  <2>2. CASE d # c
    <3>1. /\ parent[d] \in XEntries /\ Status(parent[d]) # "rejected"
          /\ parent'[d] = parent[d]
      BY <1>2, <1>4, <2>2 DEF AddedInv, KidsShown, KidsStay
    <3>2. CASE parent[d] = e
      BY <3>1, <3>2 DEF Status
    <3>3. CASE parent[d] # e
      BY <1>5, <3>1, <3>3 DEF Status
    <3> QED BY <3>2, <3>3
  <2> QED BY <2>1, <2>2
<1>9. MergeHolds'
  <2>1. \A d \in merge.kids : d \in XChildren
    BY <1>1 DEF AddedTypes, Merging
  <2>2. merge # NoMerge => LiveKids(merge.dup)' \subseteq LiveKids(merge.dup)
    BY <1>2, <1>4 DEF LiveKids, RowsUnlocked
  <2> QED BY <1>4, <2>1, <2>2, MergeStays
<1>10. Brings
  <2> SUFFICES ASSUME NEW d \in XChildren PROVE KidFollows(d) /\ Reopens(d)
    BY DEF Brings
  <2>1. Reopens(d)
    BY <1>4 DEF Reopens
  <2>2. KidFollows(d)
    <3> SUFFICES ASSUME parent'[d] # NoRecord, Live(d)',
                        parent'[d] # parent[d] \/ xrow'[parent'[d]] # xrow[parent'[d]]
                 PROVE  Follows(d)'
      BY DEF KidFollows
    <3>1. parent'[d] = e /\ (d = c \/ (Live(d) /\ parent[d] = e /\ xrow'[e] # xrow[e]))
      <4>1. parent[d] \in XEntries \cup {NoRecord}
        BY <1>1 DEF AddedTypes
      <4> QED BY <1>2, <1>4, <4>1
    <3> QED BY <3>1 DEF Follows
  <2> QED BY <2>1, <2>2
<1> QED BY <1>3, <1>6, <1>7, <1>8, <1>9, <1>10 DEF AddedInv

LEMMA Accepts ==
    ASSUME AddedInv, NEW e \in XEntries, NEW c \in XChildren, NEW child, NEW follows, NEW rows,
           Adds(e, c, child, follows, rows, suggestion)
    PROVE  suggestion' \in [Suggestions -> Suggesting] /\ SuggestionsName'
<1>1. suggestion' = [s \in Suggestions |->
          IF suggestion[s].status = "open" /\ suggestion[s].on = e /\ child.orig = Suggested
          THEN [suggestion[s] EXCEPT !.status = "accepted", !.as = c] ELSE suggestion[s]]
  BY DEF Adds
<1>2. ASSUME NEW s \in Suggestions
      PROVE  /\ suggestion'[s] \in Suggesting
             /\ suggestion'[s].as # NoRecord => suggestion'[s].status = "accepted"
  <2>1. /\ suggestion[s] \in Suggesting
        /\ suggestion[s].as # NoRecord => suggestion[s].status = "accepted"
    BY DEF AddedInv, AddedTypes, SuggestionsName
  <2>2. \/ suggestion'[s] = [suggestion[s] EXCEPT !.status = "accepted", !.as = c]
        \/ suggestion'[s] = suggestion[s]
    BY <1>1
  <2> QED BY <2>1, <2>2 DEF Suggesting
<1> QED BY <1>1, <1>2 DEF SuggestionsName

LEMMA AddKeeps ==
    ASSUME AddedInv, NEW e \in XEntries, NEW c \in XChildren, AddOriginal(e, c)
    PROVE  AddedInv' /\ Brings
<1>1. PICK o \in Originals, out \in Outs, follows \in BOOLEAN :
          /\ Adds(e, c, ChildRow(xrow[e], o, out), follows, xrow, suggestion)
          /\ xrow' = [xrow EXCEPT ![c] = ChildRow(xrow[e], o, out)]
          /\ inherits' = IF follows THEN inherits \cup {c} ELSE inherits \ {c}
  BY DEF AddOriginal
<1> DEFINE child == ChildRow(xrow[e], o, out)
           new   == [xrec[c] EXCEPT !.status = "validated"]
<1>2. /\ Own(e) /\ Status(e) = "validated"
      /\ xrec' = [xrec EXCEPT ![c] = new]
      /\ UNCHANGED <<survivorOf, merge, misled, rekeys>>
  BY DEF AddOriginal
<1>3. AddedTypes /\ {e, c} \subseteq XRecords /\ e # c
  BY Apart DEF AddedInv, XRecords
<1>4. xrow[e] \in Rows
  BY <1>2, <1>3 DEF AddedInv, EntriesShown, AddedTypes
<1>5. /\ child \in Rows /\ child.rep = xrow[e].rep /\ child.out = out
  BY <1>4 DEF ChildRow, Rows
<1>6. /\ Status(c) = "unused" /\ TypeOf(out) = TypeOf(xrow[e].out)
      /\ follows => out = xrow[e].out
      /\ parent' = [parent EXCEPT ![c] = e]
  BY <1>1, <1>5 DEF Adds
<1>7. suggestion' \in [Suggestions -> Suggesting] /\ SuggestionsName'
  BY <1>1, Accepts
<1> HIDE DEF child
<1>8. xrow' = [xrow EXCEPT ![c] = child]
  BY <1>1 DEF child
<1>9. /\ xrow' \in [XRecords -> Rows \cup {NoRow}]
      /\ \A r \in XRecords : xrow'[r] = IF r = c THEN child ELSE xrow[r]
  BY <1>3, <1>5, <1>8 DEF AddedTypes
<1>10. new \in Recs /\ new.status = "validated"
  <2>1. xrec[c] \in Recs
    BY <1>3 DEF AddedTypes
  <2> QED BY <2>1 DEF Recs
<1> HIDE DEF new
<1>11. /\ xrec' \in [XRecords -> Recs] /\ Status(c)' = "validated"
       /\ \A q \in XRecords \ {c} : Status(q)' = Status(q)
  BY <1>2, <1>3, <1>10, RecordChanges
<1>12. /\ xrow'[e] = xrow[e] /\ xrow'[c] = child /\ Status(e)' = "validated" /\ ~ Live(c)
  BY <1>2, <1>3, <1>6, <1>9, <1>11 DEF Live
<1>13. /\ inherits' \subseteq XChildren
       /\ c \in inherits' => child.out = xrow[e].out
  BY <1>1, <1>3, <1>5, <1>6 DEF AddedTypes
<1>14. /\ \A f \in XEntries \ {e} : xrow'[f] = xrow[f]
       /\ \A d \in XChildren \ {c} : Live(d) => xrow'[d] # NoRow
  BY <1>3, <1>9, Apart DEF XRecords, AddedInv, KidsShown
<1>15. RowsUnlocked(e)
  BY <1>2 DEF Own
<1> QED BY <1>2, <1>4, <1>5, <1>6, <1>7, <1>9, <1>11, <1>12, <1>13, <1>14, <1>15, ChildAdded

LEMMA DraftKeeps ==
    ASSUME AddedInv, NEW e \in XEntries, NEW c \in XChildren, ResolveWithDraft(e, c)
    PROVE  AddedInv' /\ Brings
<1> DEFINE alone(shown) == [xrow EXCEPT ![e] = shown]
           synced(shown) == Synced(LiveKids(e), alone(shown), shown)
<1>1. PICK shown \in Rows, o \in Originals :
          /\ Blocked(LiveKids(e), alone(shown), shown) = {}
          /\ Adds(e, c, ChildRow(shown, o, shown.out), TRUE, synced(shown), suggestion)
          /\ xrow' = [synced(shown) EXCEPT ![c] = ChildRow(shown, o, shown.out)]
          /\ inherits' = inherits \cup Converted(LiveKids(e), alone(shown), shown) \cup {c}
          /\ xrec' = [xrec EXCEPT ![e].status = "validated", ![e].checked = TRUE,
                                  ![e].orig = shown.orig, ![c].status = "validated"]
  BY DEF ResolveWithDraft
<1> DEFINE kids  == LiveKids(e)
           rows  == alone(shown)
           after == synced(shown)
           child == ChildRow(shown, o, shown.out)
<1>2. Own(e) /\ UNCHANGED <<survivorOf, merge, misled, rekeys>>
  BY DEF ResolveWithDraft
<1>3. AddedTypes /\ {e, c} \subseteq XRecords /\ e # c /\ e \notin XChildren
  BY Apart DEF AddedInv, XRecords
<1>4. /\ Status(c) = "unused" /\ parent' = [parent EXCEPT ![c] = e]
      /\ suggestion' \in [Suggestions -> Suggesting] /\ SuggestionsName'
  BY <1>1, Accepts DEF Adds
<1>5. child \in Rows /\ child.rep = shown.rep /\ child.out = shown.out
  BY DEF ChildRow, Rows
<1>6. /\ kids \in SUBSET XChildren
      /\ \A d \in XChildren : d \in kids <=> parent[d] = e /\ Live(d)
  BY DEF LiveKids
<1>7. ~ Live(c) /\ c \notin kids
  BY <1>4, <1>6 DEF Live
<1>8. /\ rows \in [XRecords -> Rows \cup {NoRow}] /\ rows[e] = shown
      /\ \A r \in XRecords \ {e} : rows[r] = xrow[r]
  BY <1>3 DEF AddedTypes
<1>9. \A d \in kids : xrow[d] \in Rows /\ rows[d] = xrow[d]
  <2>1. \A d \in kids : xrow[d] \in Rows
    BY <1>3, <1>6 DEF AddedInv, KidsShown, AddedTypes, XRecords
  <2> QED BY <1>3, <1>6, <1>8, <2>1 DEF XRecords
<1> HIDE DEF child, kids, rows
<1>10. Blocked(kids, rows, shown) = {} /\ after = Synced(kids, rows, shown)
  BY <1>1 DEF kids, rows
<1>11. /\ xrow' = [after EXCEPT ![c] = child]
       /\ inherits' = inherits \cup Converted(kids, rows, shown) \cup {c}
  BY <1>1 DEF kids, rows, child
<1> HIDE DEF after
<1>12. /\ after \in [XRecords -> Rows \cup {NoRow}]
       /\ \A r \in XRecords \ kids : after[r] = rows[r]
       /\ \A d \in kids :
            /\ after[d] \in Rows
            /\ after[d].rep = shown.rep /\ TypeOf(after[d].out) = TypeOf(shown.out)
            /\ d \in inherits \cup Converted(kids, rows, shown) => after[d].out = shown.out
  <2> DEFINE new == Synced(kids, rows, shown)
  <2>1. /\ new \in [XRecords -> Rows \cup {NoRow}]
        /\ \A r \in XRecords \ kids : new[r] = rows[r]
        /\ \A d \in kids :
             /\ new[d] \in Rows
             /\ d \notin Blocked(kids, rows, shown) =>
                   /\ new[d].rep = shown.rep /\ TypeOf(new[d].out) = TypeOf(shown.out)
                   /\ d \in inherits \cup Converted(kids, rows, shown) => new[d].out = shown.out
    BY <1>3, <1>6, <1>8, <1>9, SyncedRows
  <2> HIDE DEF new
  <2>2. after = new
    BY <1>10 DEF new
  <2> QED BY <1>10, <2>1, <2>2
<1>13. /\ xrow' \in [XRecords -> Rows \cup {NoRow}]
       /\ \A r \in XRecords : xrow'[r] = IF r = c THEN child ELSE after[r]
  BY <1>3, <1>5, <1>11, <1>12
<1>14. xrow'[e] = shown /\ xrow'[c] = child
  BY <1>3, <1>6, <1>8, <1>12, <1>13
<1>15. \A f \in XEntries \ {e} : xrow'[f] = xrow[f]
  BY <1>3, <1>6, <1>8, <1>12, <1>13, Apart DEF XRecords
<1>16. \A d \in XChildren \ {c} : Live(d) => xrow'[d] # NoRow
  <2> SUFFICES ASSUME NEW d \in XChildren \ {c}, Live(d) PROVE xrow'[d] # NoRow
    OBVIOUS
  <2>1. d \in XRecords /\ xrow[d] # NoRow /\ d # e
    BY <1>3 DEF XRecords, AddedInv, KidsShown
  <2>2. CASE d \in kids
    BY <1>12, <1>13, <2>1, <2>2, Apart
  <2>3. CASE d \notin kids
    BY <1>8, <1>12, <1>13, <2>1, <2>3
  <2> QED BY <2>2, <2>3
<1>17. ASSUME NEW d \in XChildren, d = c \/ (Live(d) /\ parent[d] = e)
       PROVE  /\ xrow'[d].rep = shown.rep /\ TypeOf(xrow'[d].out) = TypeOf(shown.out)
              /\ d \in inherits' => xrow'[d].out = shown.out
  <2>1. CASE d = c
    BY <1>5, <1>14, <2>1
  <2>2. CASE d # c
    <3>1. d \in kids /\ d \in XRecords
      BY <1>6, <1>17, <2>2 DEF XRecords
    <3> QED BY <1>11, <1>12, <1>13, <2>2, <3>1
  <2> QED BY <2>1, <2>2
<1>18. /\ xrec' \in [XRecords -> Recs] /\ Status(e)' = "validated" /\ Status(c)' = "validated"
       /\ \A q \in XRecords \ {e, c} : Status(q)' = Status(q)
  <2>1. PICK was \in Recs : was = xrec[e]
    BY <1>3 DEF AddedTypes
  <2>2. PICK free \in Recs : free = xrec[c]
    BY <1>3 DEF AddedTypes
  <2> DEFINE now == [was EXCEPT !.status = "validated", !.checked = TRUE, !.orig = shown.orig]
             used == [free EXCEPT !.status = "validated"]
  <2>3. shown.orig \in Originals
    BY DEF Rows
  <2>4. now \in Recs /\ now.status = "validated"
    BY <2>1, <2>3 DEF Recs
  <2>5. used \in Recs /\ used.status = "validated"
    BY <2>2 DEF Recs
  <2>6. xrec' = [[xrec EXCEPT ![e] = now] EXCEPT ![c] = used]
    BY <1>1, <1>3, <2>1, <2>2 DEF AddedTypes
  <2> HIDE DEF now, used
  <2> QED BY <1>3, <2>4, <2>5, <2>6 DEF AddedTypes, Status
<1>19. inherits' \subseteq XChildren
  BY <1>3, <1>6, <1>11 DEF AddedTypes, Converted
<1>20. RowsUnlocked(e)
  BY <1>2 DEF Own
<1> QED BY <1>2, <1>4, <1>5, <1>7, <1>13, <1>14, <1>15, <1>16, <1>17, <1>18, <1>19, <1>20,
           ChildAdded

\* The children of a duplicate follow the row the merge read, which is the survivor's
\* unless that changed meanwhile.
LEMMA MergeCommitKeeps ==
    ASSUME AddedInv, MergeCommits
    PROVE  AddedInv' /\ Brings
<1>1. PICK d, s, kids, shown, rows, new :
          /\ d = merge.dup /\ s = merge.into /\ shown = merge.row
          /\ rows = [xrow EXCEPT ![d] = NoRow]
          /\ kids = IF \E c \in XChildren : parent[c] = d THEN merge.kids ELSE {}
          /\ new = [xrec[d] EXCEPT !.status = "rejected", !.checked = TRUE]
  OBVIOUS
<1>2. /\ d # NoRecord
      /\ survivorOf' = [survivorOf EXCEPT ![d] = s]
      /\ parent' = MovedTo(d, s)
      /\ suggestion' = MovedSuggestions(d, s)
      /\ xrow' = Synced(kids, rows, shown)
      /\ inherits' = inherits \cup Converted(kids, rows, shown)
      /\ xrec' = [xrec EXCEPT ![d].status = "rejected", ![d].checked = TRUE]
      /\ misled' = IF xrow[s] = shown THEN misled ELSE misled \cup merge.kids
      /\ merge' = NoMerge /\ rekeys' = rekeys
  BY <1>1 DEF MergeCommits
<1>3. /\ d \in XEntries /\ s \in XEntries \ {d} /\ shown \in Rows
      /\ \A c \in merge.kids : Live(c)
      /\ LiveKids(d) \subseteq merge.kids
  <2>1. merge # NoMerge
    BY <1>1, <1>2 DEF NoMerge
  <2> QED BY <1>1, <2>1 DEF AddedInv, MergeHolds
<1>4. AddedTypes /\ d \in XRecords /\ s \in XRecords /\ d \notin XChildren
  BY <1>3, Apart DEF AddedInv, XRecords
<1>5. merge.kids \subseteq XChildren
  BY <1>4 DEF AddedTypes, Merging
<1>6. /\ kids \in SUBSET XChildren /\ kids \subseteq merge.kids
      /\ (\E c \in XChildren : parent[c] = d) => kids = merge.kids
  BY <1>1, <1>5
<1>7. /\ rows \in [XRecords -> Rows \cup {NoRow}] /\ rows[d] = NoRow
      /\ \A r \in XRecords \ {d} : rows[r] = xrow[r]
  BY <1>1, <1>4 DEF AddedTypes
<1>8. \A c \in kids : c \in XRecords /\ c # d /\ xrow[c] \in Rows /\ rows[c] = xrow[c]
  <2>1. \A c \in kids : c \in XRecords /\ c # d /\ c \in XChildren /\ Live(c)
    BY <1>3, <1>4, <1>6 DEF XRecords
  <2>2. \A c \in kids : xrow[c] \in Rows
    BY <1>4, <2>1 DEF AddedInv, KidsShown, AddedTypes
  <2> QED BY <1>7, <2>1, <2>2
<1>9. /\ xrow' \in [XRecords -> Rows \cup {NoRow}]
      /\ \A r \in XRecords \ kids : xrow'[r] = rows[r]
      /\ \A c \in kids :
           /\ xrow'[c] \in Rows
           /\ \/ /\ xrow'[c].rep = shown.rep /\ TypeOf(xrow'[c].out) = TypeOf(shown.out)
                 /\ c \in inherits' => xrow'[c].out = shown.out
              \/ \E r \in XRecords \ {c} :
                     xrow'[r] # NoRow /\ Identity(xrow'[r]) = <<shown.rep, xrow'[c].orig>>
  <2> DEFINE after == Synced(kids, rows, shown)
  <2>1. /\ after \in [XRecords -> Rows \cup {NoRow}]
        /\ \A r \in XRecords \ kids : after[r] = rows[r]
        /\ \A c \in kids :
             /\ after[c] \in Rows
             /\ c \notin Blocked(kids, rows, shown) =>
                   /\ after[c].rep = shown.rep /\ TypeOf(after[c].out) = TypeOf(shown.out)
                   /\ c \in inherits \cup Converted(kids, rows, shown) => after[c].out = shown.out
             /\ c \in Blocked(kids, rows, shown) =>
                   \E r \in XRecords \ {c} :
                       after[r] # NoRow /\ Identity(after[r]) = <<shown.rep, after[c].orig>>
    BY <1>3, <1>4, <1>6, <1>7, <1>8, SyncedRows
  <2> HIDE DEF after
  <2>2. xrow' = after
    BY <1>2 DEF after
  <2> QED BY <1>2, <2>1, <2>2
<1>10. /\ xrow'[d] = NoRow
       /\ \A f \in XEntries \ {d} : xrow'[f] = xrow[f]
       /\ \A c \in XChildren \ kids : xrow'[c] = xrow[c]
  BY <1>4, <1>6, <1>7, <1>9, Apart DEF XRecords
<1>11. /\ xrec' \in [XRecords -> Recs] /\ Status(d)' = "rejected"
       /\ \A q \in XRecords \ {d} : Status(q)' = Status(q)
  <2>1. xrec[d] \in Recs
    BY <1>4 DEF AddedTypes
  <2>2. new \in Recs /\ new.status = "rejected"
    BY <1>1, <2>1 DEF Recs
  <2>3. xrec' = [xrec EXCEPT ![d] = new]
    BY <1>1, <1>2, <1>4 DEF AddedTypes
  <2> QED BY <1>4, <2>2, <2>3, RecordChanges
<1>12. \A c \in XChildren : Live(c)' <=> Live(c)
  BY <1>4, <1>11 DEF Live, XRecords
<1>13. \A c \in XChildren : parent'[c] = IF parent[c] = d THEN s ELSE parent[c]
  BY <1>2 DEF MovedTo
<1>14. \A x \in Suggestions :
          /\ suggestion'[x] \in Suggesting
          /\ suggestion'[x].as = suggestion[x].as /\ suggestion'[x].status = suggestion[x].status
  <2> SUFFICES ASSUME NEW x \in Suggestions
               PROVE  /\ suggestion'[x] \in Suggesting
                      /\ suggestion'[x].as = suggestion[x].as
                      /\ suggestion'[x].status = suggestion[x].status
    OBVIOUS
  <2>1. suggestion[x] \in Suggesting
    BY <1>4 DEF AddedTypes
  <2>2. suggestion'[x] = suggestion[x] \/ suggestion'[x] = [suggestion[x] EXCEPT !.on = s]
    BY <1>2 DEF MovedSuggestions
  <2> QED BY <1>3, <2>1, <2>2 DEF Suggesting
<1>15. AddedTypes'
  <2>1. parent' \in [XChildren -> XEntries \cup {NoRecord}]
    BY <1>2, <1>3, <1>4 DEF MovedTo, AddedTypes
  <2>2. suggestion' \in [Suggestions -> Suggesting]
    BY <1>2, <1>14 DEF MovedSuggestions
  <2>3. survivorOf' \in [XEntries -> XEntries \cup {NoRecord}]
    BY <1>2, <1>3, <1>4 DEF AddedTypes
  <2>4. inherits' \subseteq XChildren /\ misled' \subseteq XChildren
    BY <1>2, <1>4, <1>5, <1>6 DEF AddedTypes, Converted
  <2>5. merge' \in Merging /\ rekeys' \in 0 .. MaxRekeys
    BY <1>2, <1>4 DEF NoMerge, Merging, AddedTypes
  <2> QED BY <1>9, <1>11, <2>1, <2>2, <2>3, <2>4, <2>5 DEF AddedTypes
<1>16. EntriesShown'
  BY <1>10, <1>11 DEF AddedInv, EntriesShown, XRecords
<1>17. KidsShown'
  <2>1. \A c \in kids : xrow'[c] # NoRow
    BY <1>9, Apart
  <2> QED BY <1>3, <1>10, <1>12, <1>13, <2>1 DEF AddedInv, KidsShown
\* A live child of the duplicate is among those the merge moved; misled otherwise.
<1>18. ASSUME NEW c \in XChildren, Live(c), parent[c] = d, c \notin misled'
       PROVE  c \in kids /\ xrow[s] = shown
  <2>1. c \in merge.kids
    BY <1>3, <1>18 DEF LiveKids
  <2> QED BY <1>2, <1>6, <1>18, <2>1
<1>19. KidsStay'
  <2> SUFFICES ASSUME NEW c \in XChildren, Live(c), c \notin misled'
               PROVE  xrec'[parent'[c]].status # "rejected"
    BY <1>12 DEF KidsStay, Status
  <2>1. CASE parent[c] = d
    <3>1. xrow[s] # NoRow
      BY <1>3, <1>18, <2>1, Apart
    <3>2. Status(s) # "rejected"
      BY <1>3, <3>1 DEF AddedInv, EntriesShown
    <3> QED BY <1>3, <1>4, <1>11, <1>13, <2>1, <3>2 DEF Status
  <2>2. CASE parent[c] # d
    <3>1. c \notin misled /\ parent[c] \in XEntries
      BY <1>2 DEF AddedInv, KidsShown
    <3>2. Status(parent[c]) # "rejected"
      BY <3>1 DEF AddedInv, KidsStay
    <3> QED BY <1>11, <1>13, <2>2, <3>1, <3>2 DEF Status, XRecords
  <2> QED BY <2>1, <2>2
<1>20. MergeHolds' /\ SuggestionsName'
  BY <1>2, <1>14 DEF MergeHolds, SuggestionsName, AddedInv
<1>21. Brings
  <2> SUFFICES ASSUME NEW c \in XChildren PROVE KidFollows(c) /\ Reopens(c)
    BY DEF Brings
  <2>1. Reopens(c)
    BY <1>12 DEF Reopens
  <2>2. KidFollows(c)
    <3> SUFFICES ASSUME parent'[c] # NoRecord, Live(c)', c \notin misled',
                        parent'[c] # parent[c] \/ xrow'[parent'[c]] # xrow[parent'[c]]
                 PROVE  \/ Follows(c)'
                        \/ \E r \in XRecords \ {c} :
                               /\ xrow'[r] # NoRow
                               /\ Identity(xrow'[r]) = <<xrow'[parent'[c]].rep, xrow'[c].orig>>
      BY DEF KidFollows
    <3>1. parent[c] = d
      <4>1. parent[c] \in XEntries \cup {NoRecord}
        BY <1>4 DEF AddedTypes
      <4> QED BY <1>10, <1>13, <4>1
    <3>2. c \in kids /\ xrow[s] = shown /\ parent'[c] = s
      BY <1>12, <1>13, <1>18, <3>1
    <3>3. xrow'[s] = shown
      BY <1>3, <1>10, <3>2
    <3> QED BY <1>9, <3>2, <3>3 DEF Follows
  <2> QED BY <2>1, <2>2
<1> QED BY <1>15, <1>16, <1>17, <1>19, <1>20, <1>21 DEF AddedInv

LEMMA AddedStep ==
    ASSUME AddedInv, [AddedNext]_addedVars
    PROVE  AddedInv' /\ (Brings \/ UNCHANGED addedVars)
<1>1. \A e \in XEntries : xrec[e].checked \in BOOLEAN /\ xrec[e].orig \in Originals
  BY DEF AddedInv, AddedTypes, Recs, XRecords
<1>2. ASSUME NEW e \in XEntries, ConsensusPublishes(e)
      PROVE  AddedInv' /\ Brings
  <2>1. PICK o \in Originals, out \in Outs :
            Publishes(e, [rep |-> CodedRep, orig |-> o, out |-> out], xrec[e].checked, FALSE)
    BY <1>2 DEF ConsensusPublishes
  <2>2. [rep |-> CodedRep, orig |-> o, out |-> out] \in Rows
    BY Apart DEF Rows
  <2>3. UNCHANGED <<parent, survivorOf, suggestion, merge, misled, rekeys>>
    BY <1>2 DEF ConsensusPublishes
  <2> QED BY <1>1, <2>1, <2>2, <2>3, EntryPublishes
<1>3. ASSUME NEW e \in XEntries, ApproveParent(e)
      PROVE  AddedInv' /\ Brings
  <2>1. PICK out \in Outs :
            Publishes(e, [rep |-> CodedRep, orig |-> xrec[e].orig, out |-> out], TRUE, TRUE)
    BY <1>3 DEF ApproveParent
  <2>2. [rep |-> CodedRep, orig |-> xrec[e].orig, out |-> out] \in Rows
    BY <1>1, Apart DEF Rows
  <2>3. UNCHANGED <<parent, survivorOf, suggestion, merge, misled, rekeys>>
    BY <1>3 DEF ApproveParent
  <2> QED BY <2>1, <2>2, <2>3, EntryPublishes
<1>4. ASSUME NEW e \in XEntries, ResolvePublishes(e)
      PROVE  AddedInv' /\ Brings
  <2>1. PICK shown \in Rows : Publishes(e, shown, TRUE, TRUE)
    BY <1>4 DEF ResolvePublishes
  <2>2. UNCHANGED <<parent, survivorOf, suggestion, merge, misled, rekeys>>
    BY <1>4 DEF ResolvePublishes
  <2> QED BY <2>1, <2>2, EntryPublishes
<1>5. ASSUME NEW e \in XEntries, ConsensusRejects(e) \/ ResolveRejects(e) \/ RemoveOriginal(e)
      PROVE  AddedInv' /\ Brings
  <2>1. PICK checked \in BOOLEAN : RejectsEntry(e, checked)
    BY <1>1, <1>5 DEF ConsensusRejects, ResolveRejects, RemoveOriginal
  <2>2. RowsUnlocked(e)
    BY <1>5 DEF ConsensusRejects, ResolveRejects, RemoveOriginal, Own
  <2> QED BY <2>1, <2>2, EntryRejects
<1>6. ASSUME NEW e \in XEntries, FlagReview(e)
      PROVE  AddedInv' /\ Brings
  BY <1>6, FlagKeeps
<1>7. ASSUME NEW e \in XEntries, Rekey(e)
      PROVE  AddedInv' /\ Brings
  BY <1>7, RekeyKeeps
<1>8. ASSUME NEW e \in XEntries, DismissSuggestion(e)
      PROVE  AddedInv' /\ Brings
  BY <1>8, DismissKeeps
<1>9. ASSUME NEW e \in XEntries, NEW s \in Suggestions, Suggest(e, s)
      PROVE  AddedInv' /\ Brings
  BY <1>9, SuggestKeeps
<1>10. ASSUME NEW e \in XEntries, NEW c \in XChildren, AddOriginal(e, c)
       PROVE  AddedInv' /\ Brings
  BY <1>10, AddKeeps
<1>11. ASSUME NEW e \in XEntries, NEW c \in XChildren, ResolveWithDraft(e, c)
       PROVE  AddedInv' /\ Brings
  BY <1>11, DraftKeeps
<1>12. ASSUME NEW d \in XEntries, NEW s \in XEntries, MergeReads(d, s)
       PROVE  AddedInv' /\ Brings
  BY <1>12, MergeReadKeeps
<1>13. ASSUME NEW c \in XChildren, ResolveChild(c) \/ RemoveChild(c)
       PROVE  AddedInv' /\ Brings
  BY <1>13, ResolveChildKeeps, RemoveChildKeeps
<1>14. CASE MergeCommits
  BY <1>14, MergeCommitKeeps
<1>15. CASE MergeRefused
  BY <1>15, RefusalKeeps
<1>16. CASE UNCHANGED addedVars
  <2>1. UNCHANGED <<xrec, xrow, parent, inherits, survivorOf, suggestion, merge, misled, rekeys>>
    BY <1>16 DEF addedVars
  <2> QED BY <1>16, <2>1, SuggestionKeeps DEF AddedInv, AddedTypes, SuggestionsName
<1> QED BY <1>2, <1>3, <1>4, <1>5, <1>6, <1>7, <1>8, <1>9, <1>10, <1>11, <1>12, <1>13, <1>14,
           <1>15, <1>16 DEF AddedNext

\* Nothing of a rejected or merged entry stays in FLoRA, its added originals included, but
\* for those a merge moved to a survivor that was decided under it; and the types that hold
\* with it.
THEOREM NoChildIsLeftBehind == AddedSpec => [](AddedTypeOK /\ NothingIsLeftBehind)
<1>1. AddedInv /\ [AddedNext]_addedVars => AddedInv'
  BY AddedStep
<1>2. AddedInv => AddedTypeOK /\ NothingIsLeftBehind
  BY TypesAreTypes DEF AddedInv, NothingIsLeftBehind, KidsShown, KidsStay
<1> QED BY <1>1, <1>2, AddedInitially, PTL DEF AddedSpec

\* Whatever gives an entry another row, or a child another entry, brings the child in line
\* in the same step, unless its identity is taken; and a child that leaves FLoRA alone
\* leaves its suggestions open.
THEOREM ChildrenAreBroughtAlong == AddedSpec => ChildrenFollow
<1>1. AddedInv /\ [AddedNext]_addedVars => AddedInv'
  BY AddedStep
<1> DEFINE Along ==
        \A c \in XChildren :
           LET p == parent'[c] IN
           /\ (p # NoRecord /\ Live(c)' /\ xrow'[p] # NoRow /\ c \notin misled'
                 /\ (p # parent[c] \/ xrow'[p] # xrow[p]))
              => \/ Follows(c)'
                 \/ \E r \in XRecords \ {c} :
                        /\ xrow'[r] # NoRow
                        /\ Identity(xrow'[r]) = <<xrow'[p].rep, xrow'[c].orig>>
           /\ \A s \in Suggestions :
                 (Live(c) /\ ~ Live(c)' /\ suggestion[s].as = c /\ Status(parent[c])' # "rejected")
                 => suggestion'[s].status = "open"
<1>2. Brings => Along
  BY DEF Brings, KidFollows, Reopens
<1> HIDE DEF Along
<1>3. AddedInv /\ [AddedNext]_addedVars => [Along]_addedVars
  BY <1>2, AddedStep
<1>4. AddedSpec => [][Along]_addedVars
  BY <1>1, <1>3, AddedInitially, PTL DEF AddedSpec
<1> QED BY <1>4 DEF ChildrenFollow, Along

-----------------------------------------------------------------------------
(***************************************************************************)
(* The pool of connections, for any number of threads and connections.     *)
(***************************************************************************)
\* A thread has a connection in hand while it checks, uses or returns one, and else none.
InHand == {"checking", "working", "returning"}
HandsFull == \A t \in Threads : Has(t) # NoConnection <=> borrower[t].at \in InHand

PoolInv == PoolTypeOK /\ PoolIsSound /\ HandsFull

LEMMA PoolStartsSound == PoolInit => PoolInv
<1> SUFFICES ASSUME PoolInit PROVE PoolInv
  OBVIOUS
<1>1. /\ idleList \in Seq(Connections) /\ Len(idleList) = 0 /\ DOMAIN idleList = {}
      /\ ToSet(idleList) = {}
  BY DEF PoolInit, ToSet
<1>2. PoolTypeOK
  BY <1>1, PoolAssumption DEF PoolTypeOK, PoolInit, ClosedConn, Outside
<1>3. PoolIsSound
  BY <1>1, PoolAssumption DEF PoolIsSound, PoolInit, ClosedConn, Outside, Has
<1>4. HandsFull
  BY DEF HandsFull, InHand, PoolInit, Outside, Has
<1> QED BY <1>2, <1>3, <1>4 DEF PoolInv

\* What a thread's step does to the hands.
LEMMA OneHandMoves ==
    ASSUME PoolInv, NEW t \in Threads, NEW c \in Connections \cup {NoConnection},
           NEW place \in {"outside", "taking", "checking", "clearing", "opening",
                          "working", "returning"},
           Goes(t, place, c), c # NoConnection <=> place \in InHand
    PROVE  /\ borrower' \in [Threads -> [at : {"outside", "taking", "checking", "clearing",
                                               "opening", "working", "returning"},
                                         has : Connections \cup {NoConnection}]]
           /\ Has(t)' = c /\ \A u \in Threads \ {t} : Has(u)' = Has(u)
           /\ HandsFull'
<1>1. borrower \in [Threads -> [at : {"outside", "taking", "checking", "clearing", "opening",
                                      "working", "returning"},
                                has : Connections \cup {NoConnection}]]
  BY DEF PoolInv, PoolTypeOK
<1>2. \A u \in Threads : borrower'[u] = IF u = t THEN [at |-> place, has |-> c] ELSE borrower[u]
  BY <1>1 DEF Goes
<1>3. HandsFull
  BY DEF PoolInv
<1> QED BY <1>1, <1>2, <1>3 DEF Goes, HandsFull, Has

\* A pool is sound by what its list holds and the hands do.
Sorted(idle) ==
    /\ NoRepeats(idleList)
    /\ ToSet(idleList) = idle
    /\ \A t, u \in Threads : t # u /\ Has(t) # NoConnection => Has(t) # Has(u)
    /\ \A t \in Threads : Has(t) \notin idle
    /\ \A c \in Connections : conn[c].state = "open" => c \in idle \/ \E t \in Threads : Has(t) = c
    /\ \A c \in idle : conn[c].state = "open" /\ ~conn[c].inTransaction

LEMMA SoundIsSorted == \A idle : Sorted(idle) <=> PoolIsSound /\ ToSet(idleList) = idle
  BY DEF Sorted, PoolIsSound, NoRepeats

LEMMA Connected ==
    ASSUME PoolInv, NEW gone \in SUBSET Connections, conn' = ClosedNow(gone)
    PROVE  /\ conn' \in [Connections -> [state : {"open", "closed"}, inTransaction : BOOLEAN,
                                         aged : BOOLEAN, dropped : BOOLEAN]]
           /\ \A c \in gone : conn'[c] = ClosedConn
           /\ \A c \in Connections \ gone : conn'[c] = conn[c]
  BY DEF PoolInv, PoolTypeOK, ClosedNow, ClosedConn

LEMMA TakeKeeps ==
    ASSUME PoolInv, NEW t \in Threads, Take(t)
    PROVE  PoolInv'
<1>1. PICK rested \in SUBSET ToSet(idleList) :
        LET kept == Without(idleList, rested \cup {c \in ToSet(idleList) : conn[c].aged})
        IN /\ conn' = ClosedNow(ToSet(idleList) \ ToSet(kept))
           /\ IF kept = <<>> THEN idleList' = kept /\ Goes(t, "opening", NoConnection)
              ELSE idleList' = Left(kept) /\ Goes(t, "checking", Last(kept))
  BY DEF Take
<1> DEFINE expired == rested \cup {c \in ToSet(idleList) : conn[c].aged}
           kept == Without(idleList, expired)
<1>2. /\ idleList \in Seq(Connections) /\ Len(idleList) <= MaxIdle /\ MaxIdle \in Nat
      /\ ToSet(idleList) \subseteq Connections
  BY PoolAssumption DEF PoolInv, PoolTypeOK, ToSet
<1>3. /\ kept \in Seq(Connections) /\ ToSet(kept) = ToSet(idleList) \ expired
      /\ Len(kept) <= Len(idleList) /\ NoRepeats(kept)
  <2>1. NoRepeats(idleList)
    BY DEF PoolInv, PoolIsSound, NoRepeats
  <2> HIDE DEF expired
  <2> QED BY <1>2, <2>1, WithoutIsTheRest
<1>4. Sorted(ToSet(idleList))
  BY SoundIsSorted DEF PoolInv
<1>5. ToSet(idleList) \ ToSet(kept) \subseteq Connections
  BY <1>2
<1>6. conn' = ClosedNow(ToSet(idleList) \ ToSet(kept))
  BY <1>1
<1>7. CASE kept = <<>>
  <2>1. idleList' = <<>> /\ Goes(t, "opening", NoConnection)
    BY <1>1, <1>7
  <2> HIDE DEF kept
  <2>2. /\ ToSet(kept) = {} /\ ToSet(<<>>) = {} /\ <<>> \in Seq(Connections)
        /\ Len(<<>>) = 0 /\ NoRepeats(<<>>)
    BY <1>7 DEF ToSet, NoRepeats
  <2>3. Has(t)' = NoConnection /\ \A u \in Threads \ {t} : Has(u)' = Has(u)
    BY <2>1, OneHandMoves DEF InHand
  <2>4. Has(t) = NoConnection
    BY DEF PoolInv, HandsFull, InHand, Take
  <2>5. Sorted({})'
    BY <1>2, <1>4, <1>5, <1>6, <2>1, <2>2, <2>3, <2>4, Connected, PoolAssumption
       DEF Sorted, ClosedConn
  <2>6. PoolTypeOK'
    BY <1>2, <1>5, <1>6, <2>1, <2>2, Connected, OneHandMoves DEF PoolTypeOK, InHand
  <2>7. HandsFull'
    BY <2>1, OneHandMoves DEF InHand
  <2> QED BY <2>2, <2>1, <2>5, <2>6, <2>7, SoundIsSorted DEF PoolInv, Sorted, PoolIsSound, NoRepeats
<1>8. CASE kept # <<>>
  <2> DEFINE c == Last(kept)
  <2>1. idleList' = Left(kept) /\ Goes(t, "checking", c)
    BY <1>1, <1>8
  <2> HIDE DEF kept
  <2>2. /\ Left(kept) \in Seq(Connections) /\ Len(Left(kept)) <= Len(kept)
        /\ NoRepeats(Left(kept)) /\ ToSet(Left(kept)) = ToSet(kept) \ {c}
        /\ c \in ToSet(kept) /\ c \in Connections
    BY <1>3, <1>8, AllButTheLast DEF Left
  <2>3. c # NoConnection
    BY <2>2, PoolAssumption
  <2> HIDE DEF c
  <2>4. Has(t)' = c /\ \A u \in Threads \ {t} : Has(u)' = Has(u)
    BY <2>1, <2>2, <2>3, OneHandMoves DEF InHand
  <2>5. Has(t) = NoConnection
    BY DEF PoolInv, HandsFull, InHand, Take
  <2> DEFINE idle == ToSet(idleList)
             left == ToSet(kept) \ {c}
  <2>6. /\ \A d \in idle \ ToSet(kept) : conn'[d] = ClosedConn
        /\ \A d \in Connections \ (idle \ ToSet(kept)) : conn'[d] = conn[d]
        /\ left \subseteq idle /\ c \in idle /\ idle \subseteq Connections
    BY <1>2, <1>3, <1>5, <1>6, <2>2, Connected
  <2>7. /\ \A d \in left : conn'[d].state = "open" /\ ~conn'[d].inTransaction
        /\ \A d \in Connections :
              conn'[d].state = "open" => conn[d].state = "open" /\ d \notin idle \ ToSet(kept)
    BY <1>4, <2>6 DEF Sorted, ClosedConn
  <2> HIDE DEF idle, left
  <2>8. /\ \A u, w \in Threads : u # w /\ Has(u)' # NoConnection => Has(u)' # Has(w)'
        /\ \A u \in Threads : Has(u)' \notin left
    <3>1. /\ \A u, w \in Threads : u # w /\ Has(u) # NoConnection => Has(u) # Has(w)
          /\ \A u \in Threads : Has(u) \notin idle
      BY <1>4 DEF Sorted, idle
    <3> QED BY <2>3, <2>4, <2>6, <3>1 DEF left
  <2>9. \A d \in Connections : conn'[d].state = "open" =>
            d \in left \/ \E u \in Threads : Has(u)' = d
    <3>1. \A d \in Connections : conn[d].state = "open" =>
              d \in idle \/ \E u \in Threads : Has(u) = d
      BY <1>4 DEF Sorted, idle
    <3> QED BY <2>4, <2>5, <2>7, <3>1, PoolAssumption DEF left
  <2>10. PoolIsSound'
    <3>1. ToSet(idleList') = left /\ NoRepeats(idleList')
      BY <2>1, <2>2 DEF left
    <3> QED BY <2>7, <2>8, <2>9, <3>1 DEF PoolIsSound, NoRepeats
  <2>11. PoolTypeOK'
    BY <1>2, <1>3, <1>5, <1>6, <2>1, <2>2, <2>3, Connected, OneHandMoves DEF PoolTypeOK, InHand
  <2>12. HandsFull'
    BY <2>1, <2>2, <2>3, OneHandMoves DEF InHand
  <2> QED BY <2>10, <2>11, <2>12 DEF PoolInv
<1> QED BY <1>7, <1>8

LEMMA NothingIdle ==
    /\ <<>> \in Seq(Connections) /\ Len(<<>>) = 0 /\ Len(<<>>) <= MaxIdle
    /\ ToSet(<<>>) = {} /\ NoRepeats(<<>>)
  BY PoolAssumption DEF ToSet, NoRepeats

\* A thread that has nothing, then and now, disturbs nobody.
LEMMA EmptyHandedKeeps ==
    ASSUME PoolInv, NEW t \in Threads, NEW place \in {"taking", "outside"},
           borrower[t].at \notin InHand, Goes(t, place, NoConnection), UNCHANGED <<conn, idleList>>
    PROVE  PoolInv'
<1>1. Has(t) = NoConnection
  BY DEF PoolInv, HandsFull
<1>2. /\ Has(t)' = NoConnection /\ \A u \in Threads \ {t} : Has(u)' = Has(u)
      /\ HandsFull' /\ PoolTypeOK'
  BY OneHandMoves DEF InHand, PoolInv, PoolTypeOK
<1>3. \A u \in Threads : Has(u)' = Has(u)
  BY <1>1, <1>2
<1>4. PoolIsSound'
  BY <1>3 DEF PoolInv, PoolIsSound
<1> QED BY <1>2, <1>4 DEF PoolInv

LEMMA CheckKeeps ==
    ASSUME PoolInv, NEW t \in Threads, Check(t)
    PROVE  PoolInv'
<1> DEFINE c == Has(t)
<1>1. c \in Connections /\ c # NoConnection
  BY PoolAssumption DEF PoolInv, PoolTypeOK, HandsFull, InHand, Check, Has
<1>2. PoolIsSound /\ PoolTypeOK /\ idleList' = idleList
  BY DEF PoolInv, Check
<1>3. CASE conn[c].dropped
  <2>1. conn' = ClosedNow({c}) /\ Goes(t, "clearing", NoConnection)
    BY <1>3 DEF Check
  <2>2. /\ Has(t)' = NoConnection /\ \A u \in Threads \ {t} : Has(u)' = Has(u)
        /\ HandsFull'
    BY <2>1, OneHandMoves DEF InHand
  <2>3. PoolTypeOK'
    BY <1>1, <1>2, <2>1, OneHandMoves, Connected DEF InHand, PoolTypeOK
  <2>4. conn'[c] = ClosedConn /\ \A d \in Connections \ {c} : conn'[d] = conn[d]
    BY <1>1, <2>1, Connected
  <2>5. ToSet(idleList) \subseteq Connections /\ c \notin ToSet(idleList)
    BY <1>2 DEF PoolTypeOK, PoolIsSound, ToSet
  <2>6. PoolIsSound'
    BY <1>1, <1>2, <2>2, <2>4, <2>5, PoolAssumption DEF PoolIsSound, ClosedConn
  <2> QED BY <2>2, <2>3, <2>6 DEF PoolInv
<1>4. CASE ~conn[c].dropped
  <2>1. conn' = conn /\ Goes(t, "working", c)
    BY <1>4 DEF Check
  <2>2. /\ Has(t)' = c /\ \A u \in Threads \ {t} : Has(u)' = Has(u)
        /\ HandsFull' /\ PoolTypeOK'
    BY <1>1, <1>2, <2>1, OneHandMoves DEF InHand, PoolTypeOK
  <2>3. \A u \in Threads : Has(u)' = Has(u)
    BY <2>2
  <2>4. PoolIsSound'
    BY <1>2, <2>1, <2>3 DEF PoolIsSound
  <2> QED BY <2>2, <2>4 DEF PoolInv
<1> QED BY <1>3, <1>4

LEMMA ClearKeeps ==
    ASSUME PoolInv, NEW t \in Threads, ClearAfterDead(t)
    PROVE  PoolInv'
<1> DEFINE idle == ToSet(idleList)
<1>1. /\ conn' = ClosedNow(idle) /\ idleList' = <<>> /\ Goes(t, "taking", NoConnection)
      /\ Has(t) = NoConnection /\ PoolIsSound
  BY DEF ClearAfterDead, Clear, PoolInv, HandsFull, InHand
<1>2. idle \subseteq Connections
  BY DEF PoolInv, PoolTypeOK, ToSet
<1>3. /\ \A c \in idle : conn'[c] = ClosedConn
      /\ \A c \in Connections \ idle : conn'[c] = conn[c]
  BY <1>1, <1>2, Connected
<1>4. /\ Has(t)' = NoConnection /\ \A u \in Threads \ {t} : Has(u)' = Has(u)
      /\ HandsFull'
  BY <1>1, OneHandMoves DEF InHand
<1>5. PoolTypeOK'
  BY <1>1, <1>2, OneHandMoves, Connected, NothingIdle DEF InHand, PoolTypeOK
<1>6. \A u \in Threads : Has(u)' = Has(u)
  BY <1>1, <1>4
<1>7. PoolIsSound'
  BY <1>1, <1>2, <1>3, <1>6, NothingIdle DEF PoolIsSound, NoRepeats, ClosedConn
<1> QED BY <1>4, <1>5, <1>7 DEF PoolInv

LEMMA OpenKeeps ==
    ASSUME PoolInv, NEW t \in Threads, Open(t)
    PROVE  PoolInv'
<1>1. PICK c \in Connections :
        /\ conn[c].state = "closed" /\ \A u \in Threads : Has(u) # c
        /\ conn' = [conn EXCEPT ![c] = Fresh]
        /\ Goes(t, "working", c)
  BY DEF Open
<1>2. /\ PoolIsSound /\ PoolTypeOK /\ idleList' = idleList /\ Has(t) = NoConnection
      /\ c # NoConnection
  BY PoolAssumption DEF PoolInv, Open, HandsFull, InHand
<1>3. /\ Has(t)' = c /\ \A u \in Threads \ {t} : Has(u)' = Has(u)
      /\ HandsFull'
  BY <1>1, <1>2, OneHandMoves DEF InHand
<1>4. /\ conn'[c] = Fresh /\ \A d \in Connections \ {c} : conn'[d] = conn[d]
      /\ Fresh \in [state : {"open", "closed"}, inTransaction : BOOLEAN,
                    aged : BOOLEAN, dropped : BOOLEAN]
  <2>1. ClosedConn \in [state : {"open", "closed"}, inTransaction : BOOLEAN,
                        aged : BOOLEAN, dropped : BOOLEAN]
    BY DEF ClosedConn
  <2>2. Fresh \in [state : {"open", "closed"}, inTransaction : BOOLEAN,
                   aged : BOOLEAN, dropped : BOOLEAN]
    BY <2>1 DEF Fresh
  <2> QED BY <1>1, <1>2, <2>2 DEF PoolTypeOK
<1>5. PoolTypeOK'
  BY <1>1, <1>2, <1>4, OneHandMoves DEF InHand, PoolTypeOK
<1>6. ToSet(idleList) \subseteq Connections /\ c \notin ToSet(idleList)
  BY <1>1, <1>2 DEF PoolTypeOK, PoolIsSound, ToSet
<1>7. PoolIsSound'
  BY <1>1, <1>2, <1>3, <1>4, <1>6, PoolAssumption DEF PoolIsSound
<1> QED BY <1>3, <1>5, <1>7 DEF PoolInv

\* A transaction begins or ends on the connection in hand, or the client closes it.
LEMMA WorkKeeps ==
    ASSUME PoolInv, NEW t \in Threads, Query(t) \/ Finish(t)
    PROVE  PoolInv'
<1> DEFINE c == Has(t)
<1>1. c \in Connections /\ c # NoConnection
  BY PoolAssumption DEF PoolInv, PoolTypeOK, HandsFull, InHand, Query, Finish, Has
<1>2. PoolIsSound /\ PoolTypeOK /\ idleList' = idleList
  BY DEF PoolInv, Query, Finish
<1>3. /\ conn' \in [Connections -> [state : {"open", "closed"}, inTransaction : BOOLEAN,
                                     aged : BOOLEAN, dropped : BOOLEAN]]
      /\ conn'[c].state = "open" => conn[c].state = "open"
      /\ \A d \in Connections \ {c} : conn'[d] = conn[d]
  <2>1. \/ conn' = [conn EXCEPT ![c].inTransaction = TRUE]
        \/ conn' = [conn EXCEPT ![c].inTransaction = FALSE]
        \/ conn' = [conn EXCEPT ![c].state = "closed", ![c].inTransaction = FALSE]
        \/ conn' = conn
    BY DEF Query, Finish
  <2> HIDE DEF c
  <2>2. conn \in [Connections -> [state : {"open", "closed"}, inTransaction : BOOLEAN,
                                  aged : BOOLEAN, dropped : BOOLEAN]]
    BY <1>2 DEF PoolTypeOK
  <2> QED BY <1>1, <2>1, <2>2
<1>4. /\ \A u \in Threads : Has(u)' = Has(u)
      /\ HandsFull' /\ PoolTypeOK'
  <2>1. CASE Query(t)
    BY <1>2, <1>3, <2>1 DEF Query, PoolInv, PoolTypeOK, HandsFull, Has
  <2>2. CASE Finish(t)
    <3>1. Goes(t, "returning", c)
      BY <2>2 DEF Finish
    <3> QED BY <1>1, <1>2, <1>3, <3>1, OneHandMoves DEF InHand, PoolTypeOK
  <2> QED BY <2>1, <2>2
<1>5. ToSet(idleList) \subseteq Connections /\ c \notin ToSet(idleList)
  BY <1>2 DEF PoolTypeOK, PoolIsSound, ToSet
<1>6. PoolIsSound'
  BY <1>1, <1>2, <1>3, <1>4, <1>5 DEF PoolIsSound
<1> QED BY <1>4, <1>6 DEF PoolInv

LEMMA PutKeeps ==
    ASSUME PoolInv, NEW t \in Threads, Put(t)
    PROVE  PoolInv'
<1> DEFINE c == Has(t)
           idle == ToSet(idleList)
<1>1. c \in Connections /\ c # NoConnection
  BY PoolAssumption DEF PoolInv, PoolTypeOK, HandsFull, InHand, Put, Has
<1>2. PoolIsSound /\ PoolTypeOK /\ Goes(t, "outside", NoConnection)
  BY DEF PoolInv, Put
<1>3. /\ Has(t)' = NoConnection /\ \A u \in Threads \ {t} : Has(u)' = Has(u)
      /\ HandsFull'
  BY <1>2, OneHandMoves DEF InHand
<1>4. idle \subseteq Connections /\ c \notin idle /\ idleList \in Seq(Connections)
  BY <1>2 DEF PoolTypeOK, PoolIsSound, ToSet
<1>5. CASE Reusable(c) /\ ~conn[c].aged /\ Len(idleList) < MaxIdle
  <2>1. idleList' = Append(idleList, c) /\ conn' = conn
    BY <1>5 DEF Put
  <2>2. NoRepeats(idleList)
    BY <1>2 DEF PoolIsSound, NoRepeats
  <2>3. /\ ToSet(idleList') = idle \cup {c} /\ NoRepeats(idleList')
        /\ idleList' \in Seq(Connections) /\ Len(idleList') <= MaxIdle
    <3> HIDE DEF c
    <3>1. Len(idleList) \in Nat /\ MaxIdle \in Nat /\ Len(Append(idleList, c)) = Len(idleList) + 1
      BY <1>4, PoolAssumption
    <3>2. Len(Append(idleList, c)) <= MaxIdle
      BY <1>5, <3>1
    <3> QED BY <1>1, <1>4, <2>1, <2>2, <3>2, AppendedMembers, AppendedOnce
  <2>4. PoolTypeOK'
    BY <1>2, <2>1, <2>3, OneHandMoves DEF InHand, PoolTypeOK
  <2>5. PoolIsSound'
    BY <1>1, <1>2, <1>3, <1>4, <1>5, <2>1, <2>3, PoolAssumption
       DEF PoolIsSound, NoRepeats, Reusable
  <2> QED BY <1>3, <2>4, <2>5 DEF PoolInv
<1>6. CASE idleList' = idleList /\ conn' = ClosedNow({c})
  <2>1. conn'[c] = ClosedConn /\ \A d \in Connections \ {c} : conn'[d] = conn[d]
    BY <1>1, <1>6, Connected
  <2>2. PoolTypeOK'
    BY <1>1, <1>2, <1>6, OneHandMoves, Connected DEF InHand, PoolTypeOK
  <2>3. /\ \A u, w \in Threads : u # w /\ Has(u)' # NoConnection => Has(u)' # Has(w)'
        /\ \A u \in Threads : Has(u)' \notin idle
        /\ \A d \in Connections \ {c} : (\E u \in Threads : Has(u) = d) =>
              \E u \in Threads : Has(u)' = d
    BY <1>1, <1>2, <1>3, <1>4, PoolAssumption DEF PoolIsSound
  <2> HIDE DEF c
  <2>4. \A d \in Connections : conn[d].state = "open" =>
            d \in idle \/ \E u \in Threads : Has(u) = d
    BY <1>2 DEF PoolIsSound
  <2>5. \A d \in Connections : conn'[d].state = "open" =>
            d \in idle \/ \E u \in Threads : Has(u)' = d
    BY <2>1, <2>3, <2>4 DEF ClosedConn
  <2>6. \A d \in idle : conn'[d].state = "open" /\ ~conn'[d].inTransaction
    BY <1>2, <1>4, <2>1 DEF PoolIsSound
  <2>7. \A i, j \in DOMAIN idleList : i # j => idleList[i] # idleList[j]
    BY <1>2 DEF PoolIsSound
  <2>8. PoolIsSound'
    BY <1>6, <2>3, <2>5, <2>6, <2>7 DEF PoolIsSound
  <2> QED BY <1>3, <2>2, <2>8 DEF PoolInv
<1>7. CASE idleList' = <<>> /\ conn' = ClosedNow(idle \cup {c})
  <2>1. /\ \A d \in idle \cup {c} : conn'[d] = ClosedConn
        /\ \A d \in Connections \ (idle \cup {c}) : conn'[d] = conn[d]
    BY <1>1, <1>4, <1>7, Connected
  <2>2. PoolTypeOK'
    BY <1>1, <1>2, <1>4, <1>7, OneHandMoves, Connected, NothingIdle DEF InHand, PoolTypeOK
  <2>3. /\ \A u, w \in Threads : u # w /\ Has(u)' # NoConnection => Has(u)' # Has(w)'
        /\ \A u \in Threads : Has(u)' \notin {}
        /\ \A d \in Connections \ {c} : (\E u \in Threads : Has(u) = d) =>
              \E u \in Threads : Has(u)' = d
    BY <1>1, <1>2, <1>3, <1>4, PoolAssumption DEF PoolIsSound
  <2> HIDE DEF c
  <2>4. \A d \in Connections : conn[d].state = "open" =>
            d \in idle \/ \E u \in Threads : Has(u) = d
    BY <1>2 DEF PoolIsSound
  <2>5. \A d \in Connections : conn'[d].state = "open" => \E u \in Threads : Has(u)' = d
    BY <2>1, <2>3, <2>4 DEF ClosedConn
  <2>6. ToSet(idleList') = {} /\ NoRepeats(idleList')
    BY <1>7, NothingIdle
  <2>7. PoolIsSound'
    BY <2>3, <2>5, <2>6 DEF PoolIsSound, NoRepeats
  <2> QED BY <1>3, <2>2, <2>7 DEF PoolInv
<1> QED BY <1>5, <1>6, <1>7 DEF Put

\* The server drops connections, and connections age.
LEMMA OutsideKeeps ==
    ASSUME PoolInv,
           (\E gone \in {{c} : c \in Connections} \cup {Connections} : Drop(gone))
           \/ \E c \in Connections : Age(c)
    PROVE  PoolInv'
<1>1. /\ idleList' = idleList /\ borrower' = borrower
      /\ conn' \in [Connections -> [state : {"open", "closed"}, inTransaction : BOOLEAN,
                                     aged : BOOLEAN, dropped : BOOLEAN]]
      /\ \A c \in Connections : /\ conn'[c].state = conn[c].state
                                 /\ conn'[c].inTransaction = conn[c].inTransaction
  <2>1. conn \in [Connections -> [state : {"open", "closed"}, inTransaction : BOOLEAN,
                                  aged : BOOLEAN, dropped : BOOLEAN]]
    BY DEF PoolInv, PoolTypeOK
  <2>2. ASSUME NEW gone, Drop(gone)
        PROVE  /\ idleList' = idleList /\ borrower' = borrower
               /\ conn' = [c \in Connections |->
                      IF c \in gone /\ conn[c].state = "open"
                      THEN [conn[c] EXCEPT !.dropped = TRUE] ELSE conn[c]]
    BY <2>2 DEF Drop
  <2>3. ASSUME NEW c \in Connections, Age(c)
        PROVE  /\ idleList' = idleList /\ borrower' = borrower
               /\ conn' = [conn EXCEPT ![c].aged = TRUE]
    BY <2>3 DEF Age
  <2>4. CASE \E gone \in {{c} : c \in Connections} \cup {Connections} : Drop(gone)
    <3>1. PICK gone : Drop(gone)
      BY <2>4
    <3>2. conn' = [c \in Connections |->
                      IF c \in gone /\ conn[c].state = "open"
                      THEN [conn[c] EXCEPT !.dropped = TRUE] ELSE conn[c]]
      BY <2>2, <3>1
    <3>3. \A c \in Connections :
              /\ conn'[c] \in [state : {"open", "closed"}, inTransaction : BOOLEAN,
                               aged : BOOLEAN, dropped : BOOLEAN]
              /\ conn'[c].state = conn[c].state
              /\ conn'[c].inTransaction = conn[c].inTransaction
      BY <2>1, <3>2
    <3> QED BY <2>2, <3>1, <3>2, <3>3
  <2>5. CASE \E c \in Connections : Age(c)
    <3>1. PICK c \in Connections : Age(c)
      BY <2>5
    <3>2. /\ idleList' = idleList /\ borrower' = borrower
          /\ conn' = [conn EXCEPT ![c].aged = TRUE]
      BY <2>3, <3>1
    <3> QED BY <2>1, <3>2
  <2> QED BY <2>4, <2>5
<1>2. PoolTypeOK' /\ HandsFull' /\ ToSet(idleList) \subseteq Connections
  BY <1>1 DEF PoolInv, PoolTypeOK, HandsFull, Has, ToSet
<1>3. PoolIsSound'
  BY <1>1, <1>2 DEF PoolInv, PoolIsSound, Has
<1> QED BY <1>2, <1>3 DEF PoolInv

\* However threads borrow, check, clear, open and return, a connection is one thread's or
\* idle, once, an open one is somebody's, and what lies idle is open, out of a
\* transaction, and no more than MAX_IDLE.
THEOREM ConnectionsHaveOneUser == PoolSpec => [](PoolTypeOK /\ PoolIsSound)
<1>1. PoolInv /\ [PoolNext]_poolVars => PoolInv'
  <2> SUFFICES ASSUME PoolInv, [PoolNext]_poolVars PROVE PoolInv'
    OBVIOUS
  <2>1. CASE UNCHANGED poolVars
    BY <2>1 DEF poolVars, PoolInv, PoolTypeOK, PoolIsSound, HandsFull, Has
  <2>2. ASSUME NEW t \in Threads, Borrow(t) PROVE PoolInv'
    BY <2>2, EmptyHandedKeeps DEF Borrow, InHand
  <2>3. ASSUME NEW t \in Threads, OpenFails(t) PROVE PoolInv'
    BY <2>3, EmptyHandedKeeps DEF OpenFails, InHand
  <2>4. ASSUME NEW t \in Threads,
               \/ Take(t) \/ Check(t) \/ ClearAfterDead(t)
               \/ Open(t) \/ Query(t) \/ Finish(t) \/ Put(t)
        PROVE  PoolInv'
    BY <2>4, TakeKeeps, CheckKeeps, ClearKeeps, OpenKeeps, WorkKeeps, PutKeeps
  <2>5. ASSUME NEW c \in Connections, Drop({c}) \/ Age(c) PROVE PoolInv'
    BY <2>5, OutsideKeeps
  <2>6. CASE Drop(Connections)
    BY <2>6, OutsideKeeps
  <2> QED BY <2>1, <2>2, <2>3, <2>4, <2>5, <2>6 DEF PoolNext
<1>2. PoolInv => PoolTypeOK /\ PoolIsSound
  BY DEF PoolInv
<1> QED BY PoolStartsSound, <1>1, <1>2, PTL DEF PoolSpec

-----------------------------------------------------------------------------
-----------------------------------------------------------------------------
(***************************************************************************)
(* The parts together: a behaviour of the sum is one of each part.         *)
(***************************************************************************)
\* The types of every part, one seat of a record for a validator, a published row of its
\* own for every validated entry and one user for every connection.
THEOREM EveryPartIsSound == DeskSpec => []DeskInvariant
<1> DEFINE deskVars == <<part, addedVars, recoveryVars, paperVars, batchVars, poolVars>>
<1>1. DeskSpec => AddedSpec
  <2>1. DeskInit => AddedInit
    BY DEF DeskInit
  <2>2. [DeskNext]_deskVars => [AddedNext]_addedVars
    BY DEF DeskNext
  <2> QED BY <2>1, <2>2, PTL DEF DeskSpec, AddedSpec
<1>2. DeskSpec => SubmissionSpec
  <2>1. DeskInit => SubmissionInit
    BY DEF DeskInit
  <2>2. [DeskNext]_deskVars => [SubmissionNext]_recoveryVars
    BY DEF DeskNext
  <2> QED BY <2>1, <2>2, PTL DEF DeskSpec, SubmissionSpec
<1>3. DeskSpec => PaperSpec
  <2>1. DeskInit => PaperInit
    BY DEF DeskInit
  <2>2. [DeskNext]_deskVars => [PaperNext]_paperVars
    BY DEF DeskNext
  <2> QED BY <2>1, <2>2, PTL DEF DeskSpec, PaperSpec
<1>4. DeskSpec => BatchSpec
  <2>1. DeskInit => BatchInit
    BY DEF DeskInit
  <2>2. [DeskNext]_deskVars => [BatchNext]_batchVars
    BY DEF DeskNext
  <2> QED BY <2>1, <2>2, PTL DEF DeskSpec, BatchSpec
<1>5. DeskSpec => PoolSpec
  <2>1. DeskInit => PoolInit
    BY DEF DeskInit
  <2>2. [DeskNext]_deskVars => [PoolNext]_poolVars
    BY DEF DeskNext
  <2> QED BY <2>1, <2>2, PTL DEF DeskSpec, PoolSpec
<1>6. SubmissionSpec => []RecoveryInv
  BY RecoveryInitially, RecoveryStep, PTL DEF SubmissionSpec
<1>7. PaperInv => PaperTypeOK
  BY DEF PaperInv
<1>8. BatchInv => BatchTypeOK /\ ValidatedIsPublished
  BY DEF BatchInv, BatchShape, HeldWaits, Chosen, Entry, Batch, BatchTypeOK
<1>9. RecoveryInv => SubmissionTypeOK
  BY DEF RecoveryInv
<1>10. /\ (PaperTypeOK /\ OneSeatEach) /\ (BatchTypeOK /\ ValidatedIsPublished)
       /\ SubmissionTypeOK /\ AddedTypeOK /\ (PoolTypeOK /\ PoolIsSound)
       => DeskInvariant
  BY DEF DeskInvariant
<1> QED BY <1>1, <1>2, <1>3, <1>4, <1>5, <1>6, <1>7, <1>8, <1>9, <1>10,
           PaperInvariance, NobodyHasBothSeats, BatchInvariance, NoChildIsLeftBehind,
           ConnectionsHaveOneUser, PTL
==============================================================================
