------------------------------- MODULE DbPool -------------------------------
(***************************************************************************)
(* The idle connections a process keeps.  Threads borrow and return them;  *)
(* only the list is under a lock, so a thread checks, closes and opens     *)
(* connections while others take and return theirs.                        *)
(***************************************************************************)
EXTENDS Lists, FiniteSets, SequencesExt

CONSTANTS
    Threads,
    Connections,  \* bound: those ever open at once
    NoConnection,
    MaxIdle       \* DB_POOL_MAX_IDLE

ASSUME PoolAssumption == MaxIdle \in Nat /\ NoConnection \notin Connections

VARIABLES
    conn,      \* the client's side: open or closed, in a transaction, past MAX_AGE_SECONDS;
               \* and whether the server still has it
    idleList,  \* _idle, the latest return last
    borrower   \* each thread's place in cursor(), and the connection it has in hand

poolVars == <<conn, idleList, borrower>>

ClosedConn == [state |-> "closed", inTransaction |-> FALSE, aged |-> FALSE, dropped |-> FALSE]
Fresh == [ClosedConn EXCEPT !.state = "open"]
Outside == [at |-> "outside", has |-> NoConnection]

PoolTypeOK ==
    /\ conn \in [Connections -> [state : {"open", "closed"}, inTransaction : BOOLEAN,
                                 aged : BOOLEAN, dropped : BOOLEAN]]
    /\ idleList \in Seq(Connections) /\ Len(idleList) <= MaxIdle
    /\ borrower \in [Threads -> [at : {"outside", "taking", "checking", "clearing", "opening",
                                       "working", "returning"},
                                 has : Connections \cup {NoConnection}]]

PoolInit ==
    /\ conn = [c \in Connections |-> ClosedConn]
    /\ idleList = <<>>
    /\ borrower = [t \in Threads |-> Outside]

Has(t) == borrower[t].has
Goes(t, place, c) == borrower' = [borrower EXCEPT ![t] = [at |-> place, has |-> c]]
ClosedNow(gone) == [c \in Connections |-> IF c \in gone THEN ClosedConn ELSE conn[c]]

----------------------------------------------------------------------------
(***************************************************************************)
(* get().  Under the lock: the entries past a limit go, the last is taken. *)
(***************************************************************************)
Borrow(t) ==
    /\ borrower[t].at = "outside"
    /\ Goes(t, "taking", NoConnection)
    /\ UNCHANGED <<conn, idleList>>

Left(kept) == Front(kept)

\* `rested` are entries returned MAX_IDLE_SECONDS ago.
Take(t) ==
    /\ borrower[t].at = "taking"
    /\ \E rested \in SUBSET ToSet(idleList) :
        LET kept == Without(idleList, rested \cup {c \in ToSet(idleList) : conn[c].aged})
        IN /\ conn' = ClosedNow(ToSet(idleList) \ ToSet(kept))
           /\ IF kept = <<>> THEN idleList' = kept /\ Goes(t, "opening", NoConnection)
              ELSE idleList' = Left(kept) /\ Goes(t, "checking", Last(kept))

\* _alive: a message or a close of the server counts as dead.
Check(t) ==
    /\ borrower[t].at = "checking"
    /\ IF conn[Has(t)].dropped
         THEN conn' = ClosedNow({Has(t)}) /\ Goes(t, "clearing", NoConnection)
         ELSE conn' = conn /\ Goes(t, "working", Has(t))
    /\ UNCHANGED idleList

Clear == conn' = ClosedNow(ToSet(idleList)) /\ idleList' = <<>>

\* "The rest of the idle list went with it": then it starts again.
ClearAfterDead(t) ==
    /\ borrower[t].at = "clearing"
    /\ Clear
    /\ Goes(t, "taking", NoConnection)

Open(t) ==
    /\ borrower[t].at = "opening"
    /\ \E c \in Connections :
        /\ conn[c].state = "closed" /\ \A u \in Threads : Has(u) # c
        /\ conn' = [conn EXCEPT ![c] = Fresh]
        /\ Goes(t, "working", c)
    /\ UNCHANGED idleList

OpenFails(t) ==
    /\ borrower[t].at = "opening"
    /\ Goes(t, "outside", NoConnection)
    /\ UNCHANGED <<conn, idleList>>

----------------------------------------------------------------------------
(***************************************************************************)
(* cursor(): one transaction, committed or rolled back, and put().         *)
(***************************************************************************)
Query(t) ==
    /\ borrower[t].at = "working"
    /\ ~conn[Has(t)].inTransaction /\ ~conn[Has(t)].dropped
    /\ conn' = [conn EXCEPT ![Has(t)].inTransaction = TRUE]
    /\ UNCHANGED <<idleList, borrower>>

\* Committed, or rolled back; on a connection the server dropped both fail, and the
\* client closes it; an exit that is no Exception leaves the transaction open.
Finish(t) ==
    /\ borrower[t].at = "working"
    /\ LET c == Has(t)
       IN \/ ~conn[c].dropped /\ conn' = [conn EXCEPT ![c].inTransaction = FALSE]
          \/ /\ conn[c].dropped
             /\ conn' = [conn EXCEPT ![c].state = "closed", ![c].inTransaction = FALSE]
          \/ conn' = conn
    /\ Goes(t, "returning", Has(t))
    /\ UNCHANGED idleList

Reusable(c) == conn[c].state = "open" /\ ~conn[c].inTransaction

Put(t) ==
    /\ borrower[t].at = "returning"
    /\ LET c == Has(t)
       IN IF Reusable(c) /\ ~conn[c].aged
            THEN IF Len(idleList) < MaxIdle THEN idleList' = Append(idleList, c) /\ conn' = conn
                 ELSE idleList' = idleList /\ conn' = ClosedNow({c})
          ELSE IF conn[c].state = "closed"
            THEN idleList' = <<>> /\ conn' = ClosedNow(ToSet(idleList) \cup {c})
          ELSE idleList' = idleList /\ conn' = ClosedNow({c})
    /\ Goes(t, "outside", NoConnection)

\* The server restarts, fails over, or ends a session.
Drop(gone) ==
    /\ \E c \in gone : conn[c].state = "open" /\ ~conn[c].dropped
    /\ conn' = [c \in Connections |-> IF c \in gone /\ conn[c].state = "open"
                                        THEN [conn[c] EXCEPT !.dropped = TRUE] ELSE conn[c]]
    /\ UNCHANGED <<idleList, borrower>>

Age(c) ==
    /\ conn[c].state = "open" /\ ~conn[c].aged
    /\ conn' = [conn EXCEPT ![c].aged = TRUE]
    /\ UNCHANGED <<idleList, borrower>>

PoolNext ==
    \/ \E t \in Threads :
        \/ Borrow(t) \/ Take(t) \/ Check(t) \/ ClearAfterDead(t) \/ Open(t) \/ OpenFails(t)
        \/ Query(t) \/ Finish(t) \/ Put(t)
    \/ \E c \in Connections : Drop({c}) \/ Age(c)
    \/ Drop(Connections)

PoolSpec == PoolInit /\ [][PoolNext]_poolVars

----------------------------------------------------------------------------
\* However borrowing, clearing after a dead connection and returning interleave, a
\* connection is one thread's or idle, once; an open one is somebody's: none is left
\* behind open ("anything else is closed"); and "a connection goes back on the idle list
\* only when it is open, outside a transaction" (db_pool.py:15-18), so nobody works in
\* the transaction of another.
PoolIsSound ==
    /\ \A t, u \in Threads : t # u /\ Has(t) # NoConnection => Has(t) # Has(u)
    /\ \A t \in Threads : Has(t) \notin ToSet(idleList)
    /\ \A i, j \in DOMAIN idleList : i # j => idleList[i] # idleList[j]
    /\ \A c \in Connections :
          conn[c].state = "open" => c \in ToSet(idleList) \/ \E t \in Threads : Has(t) = c
    /\ \A c \in ToSet(idleList) : conn[c].state = "open" /\ ~conn[c].inTransaction
=============================================================================
