----------------------------- MODULE HeldCalls -----------------------------
(***************************************************************************)
(* A tool call that waits for a human (routd/pending_actions.go, spec      *)
(* 5/19).  The gate in front of every tools/call records a held row,       *)
(* announces it in the chat and suspends the call; reviewers answer with   *)
(* a command, a reaction or the REST face; the suspended waiter polls the  *)
(* row and runs or refuses the call, and closes the row when it gives up.  *)
(*                                                                         *)
(* The calls come from one folder.  Those in Pinned are of one shape, the  *)
(* one an `always` verdict writes a skip-approval rule for; the others     *)
(* declare no standing rule.                                               *)
(***************************************************************************)
EXTENDS Naturals

CONSTANTS Gated,       \* tools/call requests a hold rule covers
          Pinned,      \* those whose tool offers `always`
          Reviewers,   \* admins of the folder
          MaxFaults    \* store and delivery faults, and restarts of routd

ASSUME GatedAssumption == Pinned \subseteq Gated

ASSUME FaultsAssumption == MaxFaults \in Nat

VARIABLES status,   \* status[c]: the row's status, "none" when there is no row
          notice,   \* calls whose notice id is recorded on the row
          call,     \* call[c]: where the call's goroutine is
          review,   \* review[v]: the verdict v is about to commit
          skip,     \* the skip-approval rule of the Pinned shape is in acl
          acks,     \* acks[c]: how many reviewers were told theirs is the verdict
          faults,   \* faults so far
          excused   \* calls a fault or a restart has hit

heldVars == <<status, notice, call, review, skip, acks, faults, excused>>

Verdicts == {"approved", "rejected"}

Phases == {"new", "recording", "notifying", "waiting", "late", "lost",
           "ran", "refused", "gone"}

NoReview == [call |-> "none", verdict |-> "none", standing |-> FALSE]

Review == [call : Gated, verdict : Verdicts, standing : BOOLEAN]

HeldInit ==
    /\ status = [c \in Gated |-> "none"]
    /\ notice = {}
    /\ call = [c \in Gated |-> "new"]
    /\ review = [v \in Reviewers |-> NoReview]
    /\ skip = FALSE
    /\ acks = [c \in Gated |-> 0]
    /\ faults = 0
    /\ excused = {}

----------------------------------------------------------------------------
Fault(c) == /\ faults < MaxFaults
            /\ faults' = faults + 1
            /\ excused' = excused \cup {c}

NoFault == UNCHANGED <<faults, excused>>

Goto(c, from, to) == /\ call[c] = from
                     /\ call' = [call EXCEPT ![c] = to]

SetStatus(c, s) == status' = [status EXCEPT ![c] = s]

----------------------------------------------------------------------------
(* The gate.                                                               *)

(* CheckHold: a skip-approval row lets the call through; so does an acl    *)
(* that cannot be read.                                                    *)
CheckHold(c) ==
    /\ \/ c \in Pinned /\ skip /\ Goto(c, "new", "ran") /\ NoFault
       \/ ~(c \in Pinned /\ skip) /\ Goto(c, "new", "recording") /\ NoFault
       \/ Goto(c, "new", "ran") /\ Fault(c)
    /\ UNCHANGED <<status, notice, review, skip, acks>>

(* PutPendingAction.  A failure blocks the call; the row may be there all  *)
(* the same when only the store's answer was lost.                         *)
PutPendingAction(c) ==
    /\ \/ Goto(c, "recording", "notifying") /\ SetStatus(c, "held") /\ NoFault
       \/ /\ Goto(c, "recording", "refused")
          /\ SetStatus(c, "held") \/ UNCHANGED status
          /\ Fault(c)
    /\ UNCHANGED <<notice, review, skip, acks>>

(* notifyHeld: the notice goes out and its id is written on the row.  When *)
(* either fails the call waits without one.                                *)
notifyHeld(c) ==
    /\ Goto(c, "notifying", "waiting")
    /\ \/ notice' = notice \cup {c} /\ NoFault
       \/ notice' = notice /\ faults < MaxFaults /\ faults' = faults + 1
          /\ UNCHANGED excused
    /\ UNCHANGED <<status, review, skip, acks>>

(* Faulty: any answer is taken for an approval.                           *)
awaitAnswer(c) ==
    /\ status[c] # "held"
    /\ Goto(c, "waiting", "ran")
    /\ UNCHANGED <<status, notice, review, skip, acks, faults, excused>>

(* One poll of awaitVerdict that finds the row decided.                    *)
awaitVerdict(c) ==
    /\ status[c] # "held"
    /\ Goto(c, "waiting", IF status[c] = "approved" THEN "ran" ELSE "refused")
    /\ UNCHANGED <<status, notice, review, skip, acks, faults, excused>>

(* HoldWait is over, after a last poll that found the row held.            *)
HoldWaitEnds(c) == /\ Goto(c, "waiting", "late")
                   /\ UNCHANGED <<status, notice, review, skip, acks,
                                  faults, excused>>

(* Faulty: the row is not closed.                                         *)
leaveHeld(c) ==
    /\ Goto(c, "late", "refused")
    /\ UNCHANGED <<status, notice, review, skip, acks, faults, excused>>

(* expirePendingAction: close the row if it is still held.  A store error, *)
(* whether or not the write landed, counts as not having won.              *)
expirePendingAction(c) ==
    /\ \/ /\ status[c] = "held"
          /\ SetStatus(c, "expired")
          /\ Goto(c, "late", "refused")
          /\ NoFault
       \/ /\ status[c] # "held"
          /\ Goto(c, "late", "lost")
          /\ UNCHANGED status /\ NoFault
       \/ /\ Goto(c, "late", "lost")
          /\ (status[c] = "held" /\ SetStatus(c, "expired")) \/ UNCHANGED status
          /\ Fault(c)
    /\ UNCHANGED <<notice, review, skip, acks>>

(* Faulty: losing the expiry is answered like winning it.                 *)
giveUp(c) ==
    /\ Goto(c, "lost", "refused")
    /\ UNCHANGED <<status, notice, review, skip, acks, faults, excused>>

(* The end of awaitVerdict when the expiry did not win: the row is the     *)
(* record, if it can be read.                                              *)
readVerdict(c) ==
    /\ \/ Goto(c, "lost", IF status[c] = "approved" THEN "ran" ELSE "refused")
          /\ NoFault
       \/ Goto(c, "lost", "refused") /\ Fault(c)
    /\ UNCHANGED <<status, notice, review, skip, acks>>

----------------------------------------------------------------------------
(* The reviewers.                                                          *)

(* resolveHoldInto: the row is read as held, and `always` needs a rule the *)
(* notice could state.  A row that is not held is refused here.            *)
resolveHold(v, c, verdict, standing) ==
    /\ review[v] = NoReview
    /\ status[c] = "held"
    /\ standing => verdict = "approved" /\ c \in Pinned
    /\ review' = [review EXCEPT ![v] = [call |-> c, verdict |-> verdict,
                                        standing |-> standing]]
    /\ UNCHANGED <<status, notice, call, skip, acks, faults, excused>>

(* /approve, /reject, /always and the REST verbs name the call; a reaction *)
(* finds it only through the notice id, and has no `always`.               *)
Command(v) == \E c \in Gated, verdict \in Verdicts, standing \in BOOLEAN :
                  resolveHold(v, c, verdict, standing)

Reaction(v) == \E c \in notice, verdict \in Verdicts :
                   resolveHold(v, c, verdict, FALSE)

(* Faulty: the advisory read decides and two verdicts land, or a verdict    *)
(* lands on an expired row.                                                *)
CommitUnguarded(v) ==
    LET r == review[v] IN
    /\ r # NoReview
    /\ review' = [review EXCEPT ![v] = NoReview]
    /\ SetStatus(r.call, r.verdict)
    /\ skip' = (skip \/ r.standing)
    /\ acks' = [acks EXCEPT ![r.call] = @ + 1]
    /\ UNCHANGED <<notice, call, faults, excused>>

CommitLate(v) ==
    LET r == review[v] IN
    /\ r # NoReview
    /\ review' = [review EXCEPT ![v] = NoReview]
    /\ \/ /\ status[r.call] \notin Verdicts
          /\ SetStatus(r.call, r.verdict)
          /\ skip' = (skip \/ r.standing)
          /\ acks' = [acks EXCEPT ![r.call] = @ + 1]
       \/ status[r.call] \in Verdicts /\ UNCHANGED <<status, skip, acks>>
    /\ UNCHANGED <<notice, call, faults, excused>>

(* The guarded batch of the verdict and the rule, and the acknowledgement. *)
Commit(v) ==
    LET r == review[v] IN
    /\ r # NoReview
    /\ review' = [review EXCEPT ![v] = NoReview]
    /\ \/ /\ status[r.call] = "held"
          /\ SetStatus(r.call, r.verdict)
          /\ skip' = (skip \/ r.standing)
          /\ acks' = [acks EXCEPT ![r.call] = @ + 1]
          /\ NoFault
       \/ /\ status[r.call] # "held"
          /\ UNCHANGED <<status, skip, acks>> /\ NoFault
       \/ /\ status[r.call] = "held"      \* an error: written or not,
          /\ \/ UNCHANGED <<status, skip>>     \* and the reviewer is told Failed
             \/ SetStatus(r.call, r.verdict) /\ skip' = (skip \/ r.standing)
          /\ UNCHANGED acks
          /\ Fault(r.call)
    /\ UNCHANGED <<notice, call>>

----------------------------------------------------------------------------
(* routd restarts: every suspended call and every verdict in progress is   *)
(* gone, and the rows stay as they are.                                    *)
inFlight == {c \in Gated : call[c] \notin {"new", "ran", "refused", "gone"}}

Restart == /\ faults < MaxFaults
           /\ faults' = faults + 1
           /\ excused' = excused \cup inFlight
           /\ call' = [c \in Gated |-> IF c \in inFlight THEN "gone" ELSE call[c]]
           /\ review' = [v \in Reviewers |-> NoReview]
           /\ UNCHANGED <<status, notice, skip, acks>>

Waiter(c) == \/ PutPendingAction(c)
             \/ notifyHeld(c)
             \/ awaitVerdict(c)
             \/ HoldWaitEnds(c)
             \/ expirePendingAction(c)
             \/ readVerdict(c)

HeldNext ==
    \/ \E c \in Gated : CheckHold(c) \/ Waiter(c)
    \/ \E v \in Reviewers : Command(v) \/ Reaction(v) \/ Commit(v)
    \/ Restart

HeldSpec == HeldInit /\ [][HeldNext]_heldVars

(* A suspended goroutine goes on and its deadline comes; a verdict handler *)
(* runs to its end.  Nothing makes a human answer.                         *)
HeldFairSpec ==
    /\ HeldSpec
    /\ \A c \in Gated : WF_heldVars(Waiter(c))
    /\ \A v \in Reviewers : WF_heldVars(Commit(v))

----------------------------------------------------------------------------
(* Every variable has its type.                                            *)
HeldTypeOK ==
    /\ status \in [Gated -> {"none", "held", "expired"} \cup Verdicts]
    /\ notice \subseteq Gated
    /\ call \in [Gated -> Phases]
    /\ review \in [Reviewers -> Review \cup {NoReview}]
    /\ skip \in BOOLEAN
    /\ acks \in [Gated -> Nat]
    /\ faults \in 0 .. MaxFaults
    /\ excused \subseteq Gated

(* No call runs against its row: one that was held has run only if the row *)
(* says approved, however verdicts, the deadline, its expiry and faults    *)
(* interleave (awaitVerdict).                                              *)
RunsOnlyApproved ==
    \A c \in Gated : call[c] = "ran" => status[c] \in {"approved", "none"}

(* Of two reviewers who both read the row as held, one is told that the    *)
(* verdict is theirs, and theirs is the verdict the row keeps              *)
(* (resolvePendingActionInto's conditional write).                         *)
DecidedOnce ==
    \A c \in Gated : acks[c] <= 1 /\ (acks[c] = 1 => status[c] \in Verdicts)

(* A standing rule exists only beside a call approved with it: no race or  *)
(* crash leaves a rule whose verdict was lost (resolveHoldInto's batch).   *)
RuleHasVerdict == skip => \E c \in Pinned : status[c] = "approved"

(* A decided row is never decided again: neither an expiry nor a second    *)
(* verdict overwrites the first (expirePendingAction, Commit).             *)
VerdictStands ==
    [][\A c \in Gated : status[c] \in Verdicts \cup {"expired"}
                           => status'[c] = status[c]]_heldVars

(* An approval that was accepted reaches the call: it runs, even when the  *)
(* answer came between the last poll and the end of the wait, unless a     *)
(* fault or a restart hit that call.                                       *)
ApprovedRuns ==
    \A c \in Gated : (status[c] = "approved")
                        ~> (call[c] = "ran" \/ c \in excused)

(* Giving up closes the row: no row stays held with nobody suspended on    *)
(* it, where a later verdict would look accepted, unless a fault or a      *)
(* restart hit that call.                                                  *)
HeldRowCloses ==
    \A c \in Gated : (status[c] = "held")
                        ~> (status[c] # "held" \/ c \in excused)
============================================================================
