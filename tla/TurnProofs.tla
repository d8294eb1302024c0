----------------------------- MODULE TurnProofs -----------------------------
(***************************************************************************)
(* What holds of a turn for every retry budget and any number of crashes,  *)
(* and, in the second part, of the calls of a turn that a reviewer holds.  *)
(* The inductive invariant says of every stage that ends a turn, in the    *)
(* worker, in a submit and in the store, that the chat has its answer or   *)
(* an error is on record, and that no stage past the line's end sees the   *)
(* line open.                                                              *)
(***************************************************************************)
EXTENDS TurnLifecycle, HeldCalls, TLAPS

\* Something went to the chat, or some attempt's error is on record.
Accounted == delivered \/ told \/ result = "error"

\* The stages, of the worker and of a submit, past the turn's answer.
Ended ==
    \/ state = "done"
    \/ pc \in {"end_line", "close", "advance", "consumed"}
    \/ frame \in {"end_line", "close"}

IInv ==
    /\ TypeOK
    /\ addressed /\ Ended => Accounted
    /\ addressed /\ result = "success" => delivered
    /\ frame \in Closing => result # "none"
    /\ frame = "tell" => result = "error"
    /\ state = "done" \/ frame = "close" \/ pc = "close" => line # "open"
    /\ nudged <= 1
    /\ pc \in {"opened", "run"} => ~returned
    /\ pc \in {"opened", "run"} /\ result = "none" => state \in {"running", "expired"}

\* A turn starts accounted for: nothing has ended.
LEMMA InitIInv == Init => IInv
<1> SUFFICES ASSUME Init PROVE IInv
  OBVIOUS
<1>1. ~returned /\ returned \in BOOLEAN
  BY Zenon DEF Init
<1>2. reply \in BOOLEAN /\ liked \in BOOLEAN /\ told \in BOOLEAN /\ addressed \in BOOLEAN
  BY Zenon DEF Init
<1>3. retries \in 0..maxTurnRetry /\ crashes \in 0..MaxCrashes /\ nudged \in Nat
  BY RetryAssumption, CrashAssumption DEF Init
<1>4. /\ pc = "idle" /\ state = "absent" /\ result = "none" /\ nudged = 0
      /\ line = "none" /\ agent = "gone" /\ frame = "none"
  BY DEF Init
<1> QED
  BY <1>1, <1>2, <1>3, <1>4
  DEF IInv, TypeOK, Ended, Closing, Outcomes

\* No step of the worker loses track of the turn.
LEMMA WorkerStep ==
    ASSUME IInv,
           Refuse \/ OpenTurnContext \/ NotRun \/ dispatchRun \/ TransportFails
               \/ Returns \/ Settles
    PROVE  IInv'
<1> USE RetryAssumption, CrashAssumption
        DEF IInv, TypeOK, Accounted, Ended, delivered, Closing, Calls, Submits,
            Outcomes, storeVars, chatVars
<1>1. CASE Refuse BY <1>1 DEF Refuse
<1>2. CASE OpenTurnContext
  <2>1. CASE state = "done" BY <1>2, <2>1 DEF OpenTurnContext
  <2>2. CASE state # "done"
    <3>1. ~returned' /\ returned' \in BOOLEAN
      BY <1>2, <2>2, Zenon DEF OpenTurnContext
    <3> QED BY <1>2, <2>2, <3>1 DEF OpenTurnContext
  <2> QED BY <2>1, <2>2
<1>3. CASE NotRun BY <1>3 DEF NotRun
<1>4. CASE dispatchRun BY <1>4 DEF dispatchRun
<1>5. CASE TransportFails BY <1>5 DEF TransportFails
<1>6. CASE Returns BY <1>6 DEF Returns, RunReturns
<1>7. CASE IncrementRetryCount BY <1>7 DEF IncrementRetryCount, Retries
<1>8. CASE FinalFailure BY <1>8 DEF FinalFailure
<1>9. CASE CleanRun BY <1>9 DEF CleanRun
<1>10. CASE finishTurnLine BY <1>10 DEF finishTurnLine, endProgress
<1>11. CASE finishTurnState BY <1>11 DEF finishTurnState
<1>12. CASE advance BY <1>12 DEF advance
<1> QED BY <1>1, <1>2, <1>3, <1>4, <1>5, <1>6, <1>7, <1>8, <1>9, <1>10, <1>11,
           <1>12 DEF Settles

\* No call of the agent does, at whatever stage it is handled.
LEMMA HandlerStep == ASSUME IInv, Handler PROVE IInv'
<1> USE RetryAssumption, CrashAssumption
        DEF IInv, TypeOK, Accounted, Ended, delivered, Closing, Calls, Submits,
            Outcomes, storeVars, chatVars
<1>1. CASE HandleReply
  <2>1. reply' \in BOOLEAN /\ (reply => reply')
    BY <1>1, Zenon DEF HandleReply
  <2> QED BY <1>1, <2>1 DEF HandleReply
<1>2. CASE HandleLike BY <1>2 DEF HandleLike
<1>3. CASE submitStatus BY <1>3 DEF submitStatus, updateProgress, Handles
<1>4. CASE mcpCheckTurn BY <1>4 DEF mcpCheckTurn, Nudgeable, Handles
<1>5. CASE SubmitAgain BY <1>5 DEF SubmitAgain, AgentEnds, Handles
<1>6. CASE SubmitNudged BY <1>6 DEF SubmitNudged, Nudgeable, Handles
<1>7. CASE RecordTurnResult
      BY <1>7 DEF RecordTurnResult, Records, AgentEnds, Handles, owed
<1>8. CASE sendTurnNotice BY <1>8 DEF sendTurnNotice
<1>9. CASE SubmitEndsLine BY <1>9 DEF SubmitEndsLine, endProgress
<1>10. CASE SubmitCloses BY <1>10 DEF SubmitCloses
<1> QED BY <1>1, <1>2, <1>3, <1>4, <1>5, <1>6, <1>7, <1>8, <1>9, <1>10
        DEF Handler

\* Nor does a new call, the sweep, a crash or a stutter.
LEMMA EnvironmentStep ==
    ASSUME IInv,
           (\E a \in Calls : AgentCalls(a)) \/ SweepExpiredRunning \/ Crash
               \/ UNCHANGED vars
    PROVE  IInv'
<1> USE RetryAssumption, CrashAssumption
        DEF IInv, TypeOK, Accounted, Ended, delivered, Closing, Calls, Submits,
            Outcomes, storeVars, chatVars
<1>1. CASE \E a \in Calls : AgentCalls(a) BY <1>1 DEF AgentCalls
<1>2. CASE SweepExpiredRunning BY <1>2 DEF SweepExpiredRunning
<1>3. CASE Crash BY <1>3 DEF Crash
<1>4. CASE UNCHANGED vars BY <1>4 DEF vars
<1> QED BY <1>1, <1>2, <1>3, <1>4

\* Every reachable state of a turn is accounted for, under any interleaving of
\* the worker, the agent's calls, the sweep and crashes.
THEOREM Invariance == Spec => []IInv
<1>1. ASSUME IInv, [Next]_vars PROVE IInv'
  BY <1>1, WorkerStep, HandlerStep, EnvironmentStep DEF Next
<1> QED BY InitIInv, <1>1, PTL DEF Spec

\* The types, and the retry count within MAX_TURN_RETRY.
THEOREM TypeCorrect == Spec => []TypeOK
<1>1. IInv => TypeOK BY DEF IInv
<1> QED BY Invariance, <1>1, PTL

\* An addressed turn that ends without a word has an error on record.
THEOREM SilenceExplained == Spec => []SilentOnlyAfterError
<1>1. IInv => SilentOnlyAfterError
  BY DEF IInv, SilentOnlyAfterError, Ended, Accounted
<1> QED BY Invariance, <1>1, PTL

\* At most one nudge is handed out in the life of a turn.
THEOREM OneNudge == Spec => []NudgedOnce
<1>1. IInv => NudgedOnce BY DEF IInv, NudgedOnce
<1> QED BY Invariance, <1>1, PTL

\* The progress line of a turn that is done has been taken down.
THEOREM LineEnded == Spec => []LineEndsWithTurn
<1>1. IInv => LineEndsWithTurn BY DEF IInv, LineEndsWithTurn
<1> QED BY Invariance, <1>1, PTL

\* A turn that has replied and is done is not opened again: the retry asks for
\* no reply, the sweep for a running turn, the feed for one that is not done.
THEOREM RepliedStaysDone == Spec => RepliedTurnStaysDone
<1>1. ASSUME IInv, [Next]_vars
      PROVE  [state = "done" /\ reply => state' = "done"]_vars
  <2> SUFFICES ASSUME Next, state = "done", reply PROVE state' = "done"
    BY <1>1
  <2> USE DEF storeVars
  <2>1. CASE Refuse \/ OpenTurnContext \/ NotRun \/ dispatchRun \/ TransportFails \/ Returns
    BY <2>1 DEF Refuse, OpenTurnContext, NotRun, dispatchRun, TransportFails,
                Returns, RunReturns
  <2>2. CASE Settles
    BY <2>2 DEF Settles, IncrementRetryCount, Retries, FinalFailure, CleanRun,
                finishTurnLine, finishTurnState, advance
  <2>3. CASE Handler
    BY <2>3 DEF Handler, HandleReply, HandleLike, submitStatus, mcpCheckTurn,
                SubmitAgain, SubmitNudged, RecordTurnResult, Records,
                sendTurnNotice, SubmitEndsLine, SubmitCloses
  <2>4. CASE (\E a \in Calls : AgentCalls(a)) \/ SweepExpiredRunning \/ Crash
    BY <2>4 DEF AgentCalls, SweepExpiredRunning, Crash
  <2> QED BY <2>1, <2>2, <2>3, <2>4 DEF Next
<1> QED BY Invariance, <1>1, PTL DEF Spec, RepliedTurnStaysDone

\* A live agent's silence is not closed before its nudge, but for the sweep.
THEOREM NudgeFirst == Spec => NoticeAfterNudge
<1>1. ASSUME IInv, [Next]_vars
      PROVE  [frame = "success" /\ frame' = "tell" /\ pc = "run" =>
                  nudged = 1 \/ state = "expired"]_vars
  <2> SUFFICES ASSUME Next, frame = "success", frame' = "tell", pc = "run"
               PROVE  nudged = 1 \/ state = "expired"
    BY <1>1
  <2>1. RecordTurnResult
    BY DEF Next, Refuse, OpenTurnContext, NotRun, dispatchRun, TransportFails,
           Returns, RunReturns, Settles, IncrementRetryCount, FinalFailure,
           CleanRun, finishTurnLine, finishTurnState, advance, Handler,
           HandleReply, HandleLike, submitStatus, mcpCheckTurn, SubmitAgain,
           SubmitNudged, sendTurnNotice, SubmitEndsLine, SubmitCloses,
           AgentCalls, SweepExpiredRunning, Crash
  <2>2. ~delivered /\ owed /\ ~Nudgeable /\ result = "none"
    BY <2>1 DEF RecordTurnResult, Records
  <2> QED BY <1>1, <2>2 DEF Nudgeable, IInv, TypeOK
<1> QED BY Invariance, <1>1, PTL DEF Spec, NoticeAfterNudge

-----------------------------------------------------------------------------
(***************************************************************************)
(* The calls of a turn that wait for a reviewer: HeldCalls for any calls   *)
(* and reviewers and any number of faults.  A row is written only where it *)
(* is held, or by the call that has not recorded it yet: so whoever has    *)
(* read a decided row has read its last word.                              *)
(***************************************************************************)
\* A call that has not recorded its row has none; a verdict under way that
\* writes a rule approves a call of the rule's shape; and whoever was told that
\* the verdict is theirs has it on the row.
Unrecorded == \A c \in Gated : call[c] \in {"new", "recording"} => status[c] = "none"

RuleApproves ==
    \A v \in Reviewers :
        review[v].standing => review[v].verdict = "approved" /\ review[v].call \in Pinned

Told ==
    \A c \in Gated : acks[c] = 0 \/ (acks[c] = 1 /\ status[c] \in Verdicts)

HeldInv ==
    /\ HeldTypeOK
    /\ Unrecorded
    /\ RuleApproves
    /\ Told
    /\ RunsOnlyApproved
    /\ RuleHasVerdict

\* No call and no verdict exists at first.
LEMMA InitHeld == HeldInit => HeldInv
<1> SUFFICES ASSUME HeldInit PROVE HeldInv
  OBVIOUS
<1> USE FaultsAssumption DEF HeldInit
<1>1. HeldTypeOK
  <2>1. skip \in BOOLEAN
    BY Zenon
  <2> QED BY <2>1 DEF HeldTypeOK, Phases
<1>2. RuleApproves
  BY DEF RuleApproves, NoReview
<1> QED BY <1>1, <1>2 DEF HeldInv, Unrecorded, Told, RunsOnlyApproved, RuleHasVerdict

\* The gate and the suspended waiter: they write a row that is absent or held.
LEMMA WaiterStep ==
    ASSUME HeldInv, NEW c \in Gated, CheckHold(c) \/ Waiter(c)
    PROVE  HeldInv'
<1> USE GatedAssumption, FaultsAssumption
        DEF HeldInv, HeldTypeOK, Unrecorded, RuleApproves, Told, RunsOnlyApproved, RuleHasVerdict,
            Phases, Verdicts, Goto, SetStatus, Fault, NoFault
<1>1. CASE CheckHold(c) BY <1>1 DEF CheckHold
<1>2. CASE PutPendingAction(c) BY <1>2 DEF PutPendingAction
<1>3. CASE notifyHeld(c) BY <1>3 DEF notifyHeld
<1>4. CASE awaitVerdict(c) BY <1>4 DEF awaitVerdict
<1>5. CASE HoldWaitEnds(c) BY <1>5 DEF HoldWaitEnds
<1>6. CASE expirePendingAction(c) BY <1>6 DEF expirePendingAction
<1>7. CASE readVerdict(c) BY <1>7 DEF readVerdict
<1> QED BY <1>1, <1>2, <1>3, <1>4, <1>5, <1>6, <1>7 DEF Waiter

\* The reviewers: reading a row changes nothing of it.
LEMMA ReadStep ==
    ASSUME HeldInv, NEW v \in Reviewers, Command(v) \/ Reaction(v)
    PROVE  HeldInv'
<1> USE GatedAssumption
        DEF HeldInv, HeldTypeOK, Unrecorded, RuleApproves, Told, RunsOnlyApproved, RuleHasVerdict
<1>1. PICK c \in Gated, verdict \in Verdicts, standing \in BOOLEAN :
          resolveHold(v, c, verdict, standing)
  BY DEF Command, Reaction
<1>2. [call |-> c, verdict |-> verdict, standing |-> standing] \in Review
  BY DEF Review
<1>3. review' \in [Reviewers -> Review \cup {NoReview}]
  BY <1>1, <1>2 DEF resolveHold
<1>4. RuleApproves'
  BY <1>1 DEF resolveHold
<1> QED BY <1>1, <1>3, <1>4 DEF resolveHold

\* The batch of a verdict writes a held row and, with it, its rule.
LEMMA CommitStep ==
    ASSUME HeldInv, NEW v \in Reviewers, Commit(v)
    PROVE  HeldInv'
<1> USE GatedAssumption, FaultsAssumption
        DEF HeldInv, HeldTypeOK, Unrecorded, Told, RunsOnlyApproved, RuleHasVerdict, SetStatus, Fault,
            NoFault
<1> DEFINE r == review[v]
<1>1. r \in Review /\ r.call \in Gated /\ r.verdict \in Verdicts /\ r.standing \in BOOLEAN
  BY DEF Commit, Review
<1>2. review' \in [Reviewers -> Review \cup {NoReview}] /\ RuleApproves'
  BY DEF Commit, RuleApproves, NoReview
<1>3. CASE UNCHANGED <<status, skip, acks>>
  BY <1>1, <1>2, <1>3 DEF Commit
<1>4. CASE /\ status[r.call] = "held" /\ SetStatus(r.call, r.verdict)
           /\ skip' = (skip \/ r.standing)
  <2>1. skip' \in BOOLEAN
    BY <1>1, <1>4, Zenon
  <2>2. RuleHasVerdict'
    BY <1>1, <1>4 DEF RuleApproves
  <2>3. status' = [status EXCEPT ![r.call] = r.verdict] /\ status[r.call] = "held"
    BY <1>4
  <2> HIDE DEF r
  <2>4. UNCHANGED <<notice, call>> /\ faults' \in 0..MaxFaults /\ excused' \subseteq Gated
    BY <1>1 DEF Commit, r
  <2>5. acks' = acks \/ acks' = [acks EXCEPT ![r.call] = @ + 1]
    BY DEF Commit, r
  <2>6. acks[r.call] = 0 /\ r.verdict \in Verdicts
    BY <1>1, <2>3 DEF Verdicts
  <2>7. acks' \in [Gated -> Nat] /\ Told'
    BY <1>1, <2>3, <2>5, <2>6
  <2>8. status' \in [Gated -> {"none", "held", "expired"} \cup Verdicts]
    BY <1>1, <2>3
  <2>9. Unrecorded' /\ RunsOnlyApproved'
    BY <1>1, <2>3, <2>4
  <2> QED BY <1>2, <2>1, <2>2, <2>4, <2>7, <2>8, <2>9
<1> QED BY <1>3, <1>4 DEF Commit

\* A restart of routd leaves every row as it is.
LEMMA RestartStep == ASSUME HeldInv, Restart PROVE HeldInv'
<1> USE GatedAssumption, FaultsAssumption
        DEF HeldInv, HeldTypeOK, Unrecorded, RuleApproves, Told, RunsOnlyApproved, RuleHasVerdict,
            Phases, Verdicts, Restart, inFlight
<1>1. \A c \in Gated : call'[c] = "gone" \/ call'[c] = call[c]
  OBVIOUS
<1>2. RuleApproves'
  BY DEF NoReview
<1> QED BY <1>1, <1>2

\* Every reachable state of the held calls satisfies the invariant.
THEOREM HeldInvariance == HeldSpec => []HeldInv
<1>1. ASSUME HeldInv, UNCHANGED heldVars PROVE HeldInv'
  BY <1>1 DEF HeldInv, HeldTypeOK, Unrecorded, RuleApproves, Told, RunsOnlyApproved, RuleHasVerdict,
              heldVars
<1>2. ASSUME HeldInv, [HeldNext]_heldVars PROVE HeldInv'
  BY <1>1, <1>2, WaiterStep, ReadStep, CommitStep, RestartStep DEF HeldNext
<1> QED BY InitHeld, <1>2, PTL DEF HeldSpec

\* Every variable keeps its type.
THEOREM HeldTypeCorrect == HeldSpec => []HeldTypeOK
BY HeldInvariance, PTL DEF HeldInv

\* A call whose row says anything but approved does not run (awaitVerdict),
\* whoever answers, expires, fails or restarts in between.
THEOREM OnlyApprovedRun == HeldSpec => []RunsOnlyApproved
BY HeldInvariance, PTL DEF HeldInv

\* One reviewer at most is told that the verdict is theirs, and it is the one on
\* the row (resolvePendingActionInto).
THEOREM OneVerdict == HeldSpec => []DecidedOnce
<1>1. ASSUME HeldInv PROVE DecidedOnce
  <2> SUFFICES ASSUME NEW c \in Gated
               PROVE  acks[c] <= 1 /\ (acks[c] = 1 => status[c] \in Verdicts)
    BY DEF DecidedOnce
  <2>1. acks[c] = 0 \/ (acks[c] = 1 /\ status[c] \in Verdicts)
    BY <1>1 DEF HeldInv, Told
  <2>2. CASE acks[c] = 0
    BY <2>2
  <2>3. CASE acks[c] = 1 /\ status[c] \in Verdicts
    BY <2>3
  <2> QED BY <2>1, <2>2, <2>3
<1> QED BY HeldInvariance, <1>1, PTL

\* A skip-approval rule stands beside an approved call of its shape
\* (resolveHoldInto writes the two in one batch).
THEOREM RuleStandsByVerdict == HeldSpec => []RuleHasVerdict
BY HeldInvariance, PTL DEF HeldInv

\* A decided row is final (expirePendingAction and the verdict's batch are both
\* conditional on held, and nobody else writes a row that exists).
THEOREM VerdictIsFinal == HeldSpec => VerdictStands
<1>1. ASSUME HeldInv, [HeldNext]_heldVars
      PROVE  [\A c \in Gated : status[c] \in Verdicts \cup {"expired"}
                                  => status'[c] = status[c]]_heldVars
  <2> DEFINE Stands == \A c \in Gated : status[c] \in Verdicts \cup {"expired"}
                                            => status'[c] = status[c]
  <2> SUFFICES ASSUME HeldNext PROVE Stands
    BY <1>1
  <2>1. status \in [Gated -> {"none", "held", "expired"} \cup Verdicts] /\ Unrecorded
    BY <1>1 DEF HeldInv, HeldTypeOK
  <2>2. ASSUME status' = status PROVE Stands
    BY <2>2
  <2>3. ASSUME NEW c \in Gated, NEW s, status[c] \in {"none", "held"}, SetStatus(c, s)
        PROVE  Stands
    BY <2>1, <2>3 DEF SetStatus, Verdicts
  <2>4. ASSUME NEW c \in Gated, CheckHold(c) \/ Waiter(c) PROVE Stands
    <3>1. CASE PutPendingAction(c)
      BY <2>1, <2>2, <2>3, <3>1 DEF PutPendingAction, Goto, Unrecorded
    <3>2. CASE expirePendingAction(c)
      BY <2>2, <2>3, <3>2 DEF expirePendingAction
    <3>3. CASE CheckHold(c)
      BY <2>2, <3>3 DEF CheckHold
    <3>4. CASE notifyHeld(c) \/ awaitVerdict(c) \/ HoldWaitEnds(c) \/ readVerdict(c)
      BY <2>2, <3>4 DEF notifyHeld, awaitVerdict, HoldWaitEnds, readVerdict
    <3> QED BY <2>4, <3>1, <3>2, <3>3, <3>4 DEF Waiter
  <2>5. ASSUME NEW v \in Reviewers, Command(v) \/ Reaction(v) PROVE Stands
    BY <2>2, <2>5 DEF Command, Reaction, resolveHold
  <2>6. ASSUME NEW v \in Reviewers, Commit(v) PROVE Stands
    <3>1. review[v] \in Review \cup {NoReview} /\ review[v] # NoReview
      BY <1>1, <2>6 DEF HeldInv, HeldTypeOK, Commit
    <3>2. review[v].call \in Gated
      BY <3>1 DEF Review
    <3>3. \/ status' = status
          \/ status[review[v].call] = "held" /\ SetStatus(review[v].call, review[v].verdict)
      BY <2>6 DEF Commit
    <3> QED BY <2>2, <2>3, <3>2, <3>3
  <2>7. CASE Restart
    BY <2>2, <2>7 DEF Restart
  <2> QED BY <2>4, <2>5, <2>6, <2>7 DEF HeldNext
<1> QED BY HeldInvariance, <1>1, PTL DEF HeldSpec, VerdictStands
=============================================================================
