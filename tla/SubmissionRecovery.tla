------------------------- MODULE SubmissionRecovery -------------------------
(***************************************************************************)
(* Judgements on their way to the server: each browser keeps the ones not  *)
(* saved yet and sends them one at a time; a save the server rolled back   *)
(* earns a stamp with which the browser gives the slot up.  Calls may be   *)
(* lost, or served after the browser stopped waiting.                      *)
(*                                                                         *)
(* One slot of one record.  A validator has one browser (one tab).  The    *)
(* stamp is its number: each one issued for a submission replaces the one  *)
(* before.  `elapsed` says that expires_at has passed.                     *)
(***************************************************************************)
EXTENDS Integers, SequencesExt

CONSTANTS
    Writers, Submissions,
    WriterOf,        \* whose judgement a submission is
    Nobody,
    SubmitMaxAttempts,
    MaxSends,        \* bound: calls of /judge
    MaxClaims        \* bound: times the slot is handed out

ASSUME SubmissionAssumption ==
    /\ Nobody \notin Writers /\ Nobody \notin Submissions
    /\ WriterOf \in [Submissions -> Writers]
    /\ {SubmitMaxAttempts, MaxSends, MaxClaims} \subseteq Nat \ {0}

VARIABLES
    slot,     \* the row of validation_queue, and how often it was handed out
    release,  \* submission_failure_releases: a row per submission
    calls,    \* the requests under way
    item,     \* what the browser keeps with a submission, and what became of it
    line,     \* _submitQueue of each browser
    browser,  \* the awaited call, and the index read before it
    dialog,   \* the discard being confirmed, and the index read before it
    settled   \* auxiliary: the submissions the server saved, or whose slot it gave up or
              \* found to be nobody's or another's

recoveryVars == <<slot, release, calls, item, line, browser, dialog, settled>>

Fates == {"unwritten", "pending", "saved", "closed", "released", "discarded"}
NoRelease == [status |-> "none", stamp |-> 0, elapsed |-> FALSE]
NoReply == [says |-> "none", stamp |-> 0]
Idle == [awaits |-> "nothing", of |-> Nobody, index |-> 0, reply |-> NoReply]
NoDialog == [of |-> Nobody, index |-> 0]
Unwritten == [fate |-> "unwritten", attempts |-> 0, stamp |-> 0, sent |-> 0, blocked |-> FALSE]

Statuses == {"none", "save_failed", "released", "slot_closed", "expired", "saved_after_retry"}
Says == Statuses \cup {"saved", "gone", "refused", "failed", "replaced"}
Releases == [status : Statuses, stamp : Nat, elapsed : BOOLEAN]
Requests == [kind : {"judge", "rolled back", "release"}, of : Submissions, no : Nat, stamp : Nat]
Kept == [fate : Fates, attempts : Nat, stamp : Nat, sent : Nat, blocked : BOOLEAN]
Replies == [says : Says, stamp : Nat]
Waits == [awaits : {"nothing", "judge", "release"}, of : Submissions \cup {Nobody},
          index : Nat, reply : Replies]
Asked == [of : Submissions \cup {Nobody}, index : Nat]

SubmissionTypeOK ==
    /\ slot \in [holder : Writers \cup {Nobody}, judged : Submissions \cup {Nobody}, claims : Nat]
    /\ release \in [Submissions -> Releases]
    /\ calls \subseteq Requests
    /\ item \in [Submissions -> Kept]
    /\ line \in [Writers -> Seq(Submissions)]
    /\ browser \in [Writers -> Waits]
    /\ dialog \in [Writers -> Asked]

SubmissionInit ==
    /\ slot = [holder |-> Nobody, judged |-> Nobody, claims |-> 0]
    /\ release = [s \in Submissions |-> NoRelease]
    /\ calls = {}
    /\ item = [s \in Submissions |-> Unwritten]
    /\ line = [w \in Writers |-> <<>>]
    /\ browser = [w \in Writers |-> Idle]
    /\ dialog = [w \in Writers |-> NoDialog]
    /\ settled = {}

----------------------------------------------------------------------------
(***************************************************************************)
(* The server.                                                             *)
(***************************************************************************)
StillOwned(s) == slot.holder = WriterOf[s] /\ slot.judged = Nobody

Claim(w) ==
    /\ slot.holder = Nobody /\ slot.claims < MaxClaims
    /\ slot' = [slot EXCEPT !.holder = w, !.claims = @ + 1]
    /\ UNCHANGED <<release, calls, item, line, browser, dialog, settled>>

\* The reaper, a skip, an admin's decision on the record.
Vacate ==
    /\ slot.holder # Nobody /\ slot.judged = Nobody
    /\ slot' = [slot EXCEPT !.holder = Nobody]
    /\ UNCHANGED <<release, calls, item, line, browser, dialog, settled>>

\* The answer reaches the browser if it still waits for this call.
Answered(c, says, stamp) ==
    /\ calls' = calls \ {c}
    /\ LET w == WriterOf[c.of]
           waits == /\ browser[w].awaits = (IF c.kind = "release" THEN "release" ELSE "judge")
                    /\ browser[w].of = c.of /\ item[c.of].sent = c.no
                    /\ browser[w].reply = NoReply
       IN browser' = IF waits THEN [browser EXCEPT ![w].reply = [says |-> says, stamp |-> stamp]]
                     ELSE browser

\* _close_failure_row_after_retry, in the transaction of the judgement.
JudgeCommits(c) ==
    /\ c.kind = "judge" /\ StillOwned(c.of)
    /\ slot' = [slot EXCEPT !.judged = c.of]
    /\ release' = IF release[c.of].status = "save_failed"
                    THEN [release EXCEPT ![c.of].status = "saved_after_retry"] ELSE release
    /\ settled' = settled \cup {c.of}
    /\ Answered(c, "saved", 0)
    /\ UNCHANGED <<item, line, dialog>>

\* A 4xx: the slot is gone, or the request is refused (a session that ended).
JudgeRefuses(c) ==
    /\ c.kind = "judge"
    /\ \E says \in {"gone", "refused"} :
          /\ (says = "gone") => ~StillOwned(c.of)
          /\ settled' = IF says = "gone" THEN settled \cup {c.of} ELSE settled
          /\ Answered(c, says, 0)
    /\ UNCHANGED <<slot, release, item, line, dialog>>

\* A 5xx: everything is rolled back, then a second transaction issues the stamp.
JudgeRollsBack(c) ==
    /\ c.kind = "judge" /\ StillOwned(c.of)
    /\ calls' = (calls \ {c}) \cup {[c EXCEPT !.kind = "rolled back"]}
    /\ UNCHANGED <<slot, release, item, line, browser, dialog, settled>>

IssueStamp(c) ==
    /\ c.kind = "rolled back"
    /\ \/ LET stamp == release[c.of].stamp + 1
          IN /\ StillOwned(c.of)
             /\ release' = [release EXCEPT ![c.of] =
                              [status |-> "save_failed", stamp |-> stamp, elapsed |-> FALSE]]
             /\ Answered(c, "failed", stamp)
       \/ Answered(c, "failed", 0) /\ UNCHANGED release     \* not owned, or not persisted
    /\ UNCHANGED <<slot, item, line, dialog, settled>>

ReleaseFailedSubmission(c) ==
    /\ c.kind = "release"
    /\ LET row == release[c.of]
           Becomes(status) == release' = [release EXCEPT ![c.of].status = status]
           Same == UNCHANGED <<slot, release, settled>>
       IN \/ row.stamp # c.stamp /\ Same /\ Answered(c, "replaced", 0)
          \/ /\ row.stamp = c.stamp /\ row.status # "save_failed"
             /\ Same /\ Answered(c, row.status, 0)
          \/ /\ row.stamp = c.stamp /\ row.status = "save_failed" /\ row.elapsed
             /\ Becomes("expired") /\ UNCHANGED <<slot, settled>>
             /\ Answered(c, "expired", 0)
          \/ /\ row.stamp = c.stamp /\ row.status = "save_failed" /\ ~row.elapsed
             /\ settled' = settled \cup {c.of}
             /\ IF StillOwned(c.of)
                  THEN /\ slot' = [slot EXCEPT !.holder = Nobody, !.judged = Nobody]
                       /\ Becomes("released") /\ Answered(c, "released", 0)
                  ELSE UNCHANGED slot /\ Becomes("slot_closed") /\ Answered(c, "slot_closed", 0)
    /\ UNCHANGED <<item, line, dialog>>

Lapse(s) ==
    /\ release[s].status = "save_failed" /\ ~release[s].elapsed
    /\ release' = [release EXCEPT ![s].elapsed = TRUE]
    /\ UNCHANGED <<slot, calls, item, line, browser, dialog, settled>>

\* _expire_submission_failure_stamps, a scheduled job.
ExpireStamps ==
    /\ \E s \in Submissions : release[s].status = "save_failed" /\ release[s].elapsed
    /\ release' = [s \in Submissions |->
                     IF release[s].status = "save_failed" /\ release[s].elapsed
                       THEN [release[s] EXCEPT !.status = "expired"] ELSE release[s]]
    /\ UNCHANGED <<slot, calls, item, line, browser, dialog, settled>>

CallIsLost(c) ==
    /\ calls' = calls \ {c}
    /\ UNCHANGED <<slot, release, item, line, browser, dialog, settled>>

----------------------------------------------------------------------------
(***************************************************************************)
(* The browser.                                                            *)
(***************************************************************************)
EnqueueSubmit(s) ==
    /\ item[s].fate = "unwritten" /\ StillOwned(s)
    /\ item' = [item EXCEPT ![s].fate = "pending"]
    /\ line' = [line EXCEPT ![WriterOf[s]] = Append(@, s)]
    /\ UNCHANGED <<slot, release, calls, browser, dialog, settled>>

\* Array.splice(index, 1): nothing beyond the end.
Spliced(w, i) == [line EXCEPT ![w] = IF i \in DOMAIN @ THEN RemoveAt(@, i) ELSE @]

Resumes(w) == browser' = [browser EXCEPT ![w] = Idle]

\* The first that can be sent; its index is kept over the await.
SendFirst(w) ==
    /\ browser[w].awaits = "nothing"
    /\ \E i \in DOMAIN line[w] :
        LET s == line[w][i]
            no == item[s].sent + 1
        IN /\ ~item[s].blocked /\ \A j \in 1..(i - 1) : item[line[w][j]].blocked
           /\ MapThenSumSet(LAMBDA u : item[u].sent, Submissions) < MaxSends
           /\ item' = [item EXCEPT ![s].sent = no]
           /\ calls' = calls \cup {[kind |-> "judge", of |-> s, no |-> no, stamp |-> 0]}
           /\ browser' = [browser EXCEPT ![w] = [awaits |-> "judge", of |-> s, index |-> i,
                                                reply |-> NoReply]]
    /\ UNCHANGED <<slot, release, line, dialog, settled>>

Awaits(w, what, says) == browser[w].awaits = what /\ browser[w].reply.says \in says
Leaves(w, fate) ==
    /\ line' = Spliced(w, browser[w].index)
    /\ item' = [item EXCEPT ![browser[w].of].fate = fate]
    /\ Resumes(w)
    /\ UNCHANGED <<slot, release, calls, dialog, settled>>

SubmitSaved(w) == Awaits(w, "judge", {"saved"}) /\ Leaves(w, "saved")

\* Mutant of SubmitGone: every 4xx drops the entry.
MutSubmitGone(w) == Awaits(w, "judge", {"gone", "refused"}) /\ Leaves(w, "closed")

SubmitGone(w) == Awaits(w, "judge", {"gone"}) /\ Leaves(w, "closed")

\* No answer counts as a failure without a stamp.  A 4xx is not retried.
SubmitFailed(w) ==
    /\ Awaits(w, "judge", {"none", "failed", "refused"})
    /\ LET s == browser[w].of
           reply == browser[w].reply
           attempts == item[s].attempts + 1
           stamp == IF reply.stamp > 0 THEN reply.stamp ELSE item[s].stamp
           after == [item EXCEPT ![s].attempts = attempts, ![s].stamp = stamp]
           giveUp == reply.says = "refused" \/ attempts >= SubmitMaxAttempts
       IN \/ ~giveUp /\ item' = after /\ Resumes(w) /\ UNCHANGED calls
          \/ /\ giveUp /\ stamp = 0
             /\ item' = [after EXCEPT ![s].blocked = TRUE] /\ Resumes(w) /\ UNCHANGED calls
          \/ /\ giveUp /\ stamp > 0
             /\ item' = after
             /\ calls' = calls \cup {[kind |-> "release", of |-> s, no |-> item[s].sent,
                                      stamp |-> stamp]}
             /\ browser' = [browser EXCEPT ![w].awaits = "release", ![w].reply = NoReply]
    /\ UNCHANGED <<slot, release, line, dialog, settled>>

Authoritative == {"released", "slot_closed"}

SlotGivenUp(w) ==
    /\ Awaits(w, "release", Authoritative)
    /\ Leaves(w, IF browser[w].reply.says = "slot_closed" THEN "closed" ELSE "released")

ReleaseFailed(w) ==
    /\ browser[w].awaits = "release" /\ ~Awaits(w, "release", Authoritative)
    /\ item' = [item EXCEPT ![browser[w].of].blocked = TRUE]
    /\ Resumes(w)
    /\ UNCHANGED <<slot, release, calls, line, dialog, settled>>

\* The line is in localStorage; what was awaited is not.
Reload(w) ==
    /\ browser[w] # Idle \/ dialog[w] # NoDialog
    /\ Resumes(w) /\ dialog' = [dialog EXCEPT ![w] = NoDialog]
    /\ UNCHANGED <<slot, release, calls, item, line, settled>>

Retry(w, i) ==
    /\ item[line[w][i]].blocked
    /\ item' = [item EXCEPT ![line[w][i]].blocked = FALSE, ![line[w][i]].attempts = 0,
                           ![line[w][i]].stamp = 0]
    /\ UNCHANGED <<slot, release, calls, line, browser, dialog, settled>>

AskDiscard(w, i) ==
    /\ dialog[w] = NoDialog /\ item[line[w][i]].blocked
    /\ dialog' = [dialog EXCEPT ![w] = [of |-> line[w][i], index |-> i]]
    /\ UNCHANGED <<slot, release, calls, item, line, browser, settled>>

Discard(w) ==
    /\ dialog[w] # NoDialog
    /\ dialog' = [dialog EXCEPT ![w] = NoDialog]
    /\ \/ line' = Spliced(w, dialog[w].index)
          /\ item' = [item EXCEPT ![dialog[w].of].fate = "discarded"]
       \/ UNCHANGED <<line, item>>                          \* "Keep it"
    /\ UNCHANGED <<slot, release, calls, browser, settled>>

SubmissionNext ==
    \/ Vacate \/ ExpireStamps
    \/ \E s \in Submissions : Lapse(s) \/ EnqueueSubmit(s)
    \/ \E c \in calls :
        \/ JudgeCommits(c) \/ JudgeRefuses(c) \/ JudgeRollsBack(c) \/ IssueStamp(c)
        \/ ReleaseFailedSubmission(c) \/ CallIsLost(c)
    \/ \E w \in Writers :
        \/ Claim(w) \/ SendFirst(w) \/ SubmitSaved(w) \/ SubmitGone(w) \/ SubmitFailed(w)
        \/ SlotGivenUp(w) \/ ReleaseFailed(w) \/ Reload(w) \/ Discard(w)
        \/ \E i \in DOMAIN line[w] : Retry(w, i) \/ AskDiscard(w, i)

SubmissionSpec == SubmissionInit /\ [][SubmissionNext]_recoveryVars

----------------------------------------------------------------------------
\* What left a browser for another reason than the validator's own discard was saved, or
\* the server gave its slot up or had none for it: no failure "destroys the validator's
\* unsent work" (docs/app.js:4988).
AccountedFor ==
    \A s \in Submissions :
        /\ item[s].fate = "saved" => slot.judged = s
        /\ item[s].fate \in {"closed", "released"} => s \in settled

\* "Discard is the only manual action that removes the stored judgement"
\* (docs/app.js, above _pendingActions), and it removes the one it names.
PendingIsStored ==
    \A s \in Submissions : item[s].fate = "pending" => s \in ToSet(line[WriterOf[s]])
=============================================================================
