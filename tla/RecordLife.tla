----------------------------- MODULE RecordLife -----------------------------
(***************************************************************************)
(* What the validation workflow promises of its records, whoever acts and  *)
(* however handlers, admins, the import and the retry of the AI interleave: *)
(* a record is open, in review, published or rejected, it moves one at a   *)
(* time, and what the public sees of it changes only with a decision.      *)
(***************************************************************************)
CONSTANTS
    Entries,
    Identities,   \* what an entry may be published as
    Nothing       \* no identity, no survivor

VARIABLES
    life,      \* life[e]: "open", "review", "published" or "rejected"
    shown,     \* the identity the public finds e under, or Nothing
    survivor,  \* the entry e was merged into, or Nothing
    importing  \* whether an import of the extractor is running

lifeVars == <<life, shown, survivor, importing>>

Lives == {"open", "review", "published", "rejected"}

LifeTypeOK ==
    /\ life \in [Entries -> Lives]
    /\ shown \in [Entries -> Identities \cup {Nothing}]
    /\ survivor \in [Entries -> Entries \cup {Nothing}]
    /\ importing \in BOOLEAN

LifeInit ==
    /\ life = [e \in Entries |-> "open"]
    /\ shown = [e \in Entries |-> Nothing]
    /\ survivor = [e \in Entries |-> Nothing]
    /\ importing = FALSE

Becomes(e, state, identity) ==
    /\ life' = [life EXCEPT ![e] = state]
    /\ shown' = [shown EXCEPT ![e] = identity]

\* No other entry is found under identity.
Free(e, identity) == \A o \in Entries \ {e} : shown[o] # identity

\* Judgements, an answer of the AI or an assignment settle what is not decided.
Settle(e) ==
    /\ life[e] \in {"open", "review"}
    /\ \/ Becomes(e, "review", shown[e])
       \/ Becomes(e, "rejected", Nothing)
       \/ \E i \in Identities : Free(e, i) /\ Becomes(e, "published", i)
    /\ UNCHANGED <<survivor, importing>>

\* A decision of an admin, also on what is decided: it may rest on an old reading.
Approve(e) ==
    /\ \E i \in Identities : Free(e, i) /\ Becomes(e, "published", i)
    /\ UNCHANGED <<survivor, importing>>

Reject(e) == Becomes(e, "rejected", Nothing) /\ UNCHANGED <<survivor, importing>>

\* A duplicate goes to an entry that is published at that moment, and goes once.
Merge(e, o) ==
    /\ e # o /\ survivor[e] = Nothing
    /\ shown[o] # Nothing
    /\ Becomes(e, "rejected", Nothing)
    /\ survivor' = [survivor EXCEPT ![e] = o]
    /\ UNCHANGED importing

TakeBack(e) ==
    /\ life[e] = "published"
    /\ Becomes(e, "review", Nothing)
    /\ UNCHANGED <<survivor, importing>>

\* The import moves entries by what it read when it began, and shows or hides none.
Return(e, state) ==
    /\ importing
    /\ Becomes(e, state, shown[e])
    /\ UNCHANGED <<survivor, importing>>

StartOrEnd == importing' = ~importing /\ UNCHANGED <<life, shown, survivor>>

LifeNext ==
    \/ StartOrEnd
    \/ \E e \in Entries :
           \/ Settle(e) \/ Approve(e) \/ Reject(e) \/ TakeBack(e)
           \/ \E o \in Entries : Merge(e, o)
           \/ \E state \in {"open", "review"} : Return(e, state)

LifeSpec == LifeInit /\ [][LifeNext]_lifeVars

-----------------------------------------------------------------------------
\* What the public sees fits what was decided, and no two entries are one.
ShownAsDecided ==
    \A e \in Entries :
        /\ life[e] = "published" => shown[e] # Nothing
        /\ life[e] = "rejected" => shown[e] = Nothing
        /\ \A o \in Entries : e # o /\ shown[e] # Nothing => shown[e] # shown[o]
=============================================================================
