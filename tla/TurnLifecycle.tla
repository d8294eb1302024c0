---------------------------- MODULE TurnLifecycle ----------------------------
(***************************************************************************)
(* One turn of routd, from the batch that is fed to the cursor that passes *)
(* it: runTurn of routd/dispatch.go, the turn's item in turn_context and   *)
(* turn_results (store), and the calls the agent makes while the run is    *)
(* live (routd/turns.go, routd/mcp.go, routd/progress.go).                 *)
(*                                                                         *)
(* The worker, the agent and the hourly sweep interleave, and routd may    *)
(* crash between any two writes.  A batch that is not consumed is fed      *)
(* again with the same turn id.  The agent waits for the answer to a call  *)
(* before the next, so at most one is in flight; a run that is killed      *)
(* leaves its last call in flight.  A handler under lockTurn excludes the  *)
(* others.                                                                 *)
(*                                                                         *)
(* Abstractions.  The store answers.  A notice is told when its send is    *)
(* tried, since a failed one is only logged; so is the removal of a        *)
(* progress line.  A turn answers in the chat it came from.  runed never   *)
(* answers Steered.  The gateway's key, the session and the prompt are     *)
(* left out.                                                               *)
(***************************************************************************)
EXTENDS Integers

CONSTANTS
    maxTurnRetry,   \* MAX_TURN_RETRY
    MaxCrashes      \* bound on the crashes of routd

ASSUME RetryAssumption == maxTurnRetry \in Nat
ASSUME CrashAssumption == MaxCrashes \in Nat

VARIABLES
    pc,         \* where the worker is with the turn
    state,      \* turn_context: state
    retries,    \* retry_count
    returned,   \* run_returned
    addressed,  \* addressed: a person is owed an answer
    nudged,     \* nudged
    result,     \* turn_results: what was recorded first
    reply,      \* a bot row of the turn is sent or owed (TurnHasBotReply)
    liked,      \* a like, an edit or the like was recorded for the turn
    line,       \* the verb=status row: none, open, ended
    told,       \* a notice went to the chat
    agent,      \* the agent in the guest
    frame,      \* its call in flight, or the handler's progress in it
    crashes

storeVars == <<state, retries, returned, addressed, nudged, result>>
chatVars == <<reply, liked, line, told>>
vars == <<pc, storeVars, chatVars, agent, frame, crashes>>

Submits == {"success", "timed_out", "error"}
Calls == Submits \cup {"reply", "like", "status", "check"}

\* A submit that has recorded its result and still holds the turn's lock.
Closing == {"tell", "end_line", "close"}

delivered == reply \/ liked
owed == addressed \/ line # "none"

-----------------------------------------------------------------------------
Init ==
    /\ pc = "idle"
    /\ state = "absent"
    /\ retries = 0
    /\ returned = FALSE
    /\ addressed \in BOOLEAN
    /\ nudged = 0
    /\ result = "none"
    /\ reply = FALSE /\ liked = FALSE /\ told = FALSE
    /\ line = "none"
    /\ agent = "gone"
    /\ frame = "none"
    /\ crashes = 0

-----------------------------------------------------------------------------
\* The worker.  The folder has no group, or its budget is spent: the chat is
\* told and the batch consumed, before the turn has a context.
Refuse ==
    /\ pc = "idle"
    /\ told' = TRUE
    /\ pc' = "advance"
    /\ UNCHANGED <<storeVars, reply, liked, line, agent, frame, crashes>>

\* Faulty: a re-dispatch keeps the previous attempt's run_returned.
OpenKeepsReturned ==
    /\ pc = "idle"
    /\ \/ /\ state # "done"
          /\ state' = "running"
          /\ pc' = "opened"
       \/ /\ state = "done"
          /\ pc' = "advance"
          /\ UNCHANGED state
    /\ UNCHANGED <<retries, returned, addressed, nudged, result, chatVars,
                   agent, frame, crashes>>

\* The context is created or bound again; a turn that is done is skipped.
OpenTurnContext ==
    /\ pc = "idle"
    /\ \/ /\ state # "done"
          /\ state' = "running"
          /\ returned' = FALSE
          /\ pc' = "opened"
       \/ /\ state = "done"
          /\ pc' = "advance"
          /\ UNCHANGED <<state, returned>>
    /\ UNCHANGED <<retries, addressed, nudged, result, chatVars, agent, frame,
                   crashes>>

\* The gateway mints no key, runed is unreachable, or it answers Busy.
NotRun ==
    /\ pc = "opened"
    /\ pc' = "idle"
    /\ UNCHANGED <<storeVars, chatVars, agent, frame, crashes>>

dispatchRun ==
    /\ pc = "opened"
    /\ pc' = "run"
    /\ agent' = "working"
    /\ UNCHANGED <<storeVars, chatVars, frame, crashes>>

\* The request breaks off after the run has started: the guest goes with it.
TransportFails ==
    /\ pc = "run"
    /\ pc' = "idle"
    /\ agent' = "gone"
    /\ UNCHANGED <<storeVars, chatVars, frame, crashes>>

\* POST /v1/runs answers.  A run is clean when its agent has left by itself, and
\* not after a failure it has submitted.
RunReturns(outcome) ==
    /\ pc = "run"
    /\ outcome = "clean" => agent # "failed" /\ frame = "none"
    /\ outcome = "terminal" => agent # "finished"
    /\ returned' = TRUE
    /\ agent' = "gone"
    /\ pc' = outcome
    /\ UNCHANGED <<state, retries, addressed, nudged, result, chatVars, frame,
                   crashes>>

\* Faulty: a turn is retried whatever it has said to the chat.
RetriesAnyway == pc = "failed" /\ retries < maxTurnRetry

\* A failure is retried if it is not terminal, the chat has no reply, and the
\* retries are not spent.
Retries == pc = "failed" /\ ~reply /\ retries < maxTurnRetry

\* Faulty: the retry is not counted.
IncrementNothing ==
    /\ Retries
    /\ state' = "pending_retry"
    /\ pc' = "idle"
    /\ UNCHANGED <<retries, returned, addressed, nudged, result, chatVars, agent,
                   frame, crashes>>

\* RecordRetryAttempt: the count and the state in one write.  The batch counts
\* as refused, and is fed again.
IncrementRetryCount ==
    /\ Retries
    /\ retries' = retries + 1
    /\ state' = "pending_retry"
    /\ pc' = "idle"
    /\ UNCHANGED <<returned, addressed, nudged, result, chatVars, agent, frame,
                   crashes>>

\* The final failure is told to the chat.
FinalFailure ==
    /\ pc \in {"failed", "terminal"} /\ ~Retries
    /\ told' = TRUE
    /\ pc' = "end_line"
    /\ UNCHANGED <<storeVars, reply, liked, line, agent, frame, crashes>>

\* A clean run that has left neither a result nor a reply is told to the chat.
CleanRun ==
    /\ pc = "clean"
    /\ told' = (told \/ (result = "none" /\ ~reply))
    /\ pc' = "end_line"
    /\ UNCHANGED <<storeVars, reply, liked, line, agent, frame, crashes>>

\* finishTurn: the progress line goes first, the state last.
endProgress == line' = IF line = "open" THEN "ended" ELSE line

finishTurnLine ==
    /\ pc = "end_line" /\ frame \notin Closing
    /\ endProgress
    /\ pc' = "close"
    /\ UNCHANGED <<storeVars, reply, liked, told, agent, frame, crashes>>

finishTurnState ==
    /\ pc = "close"
    /\ state' = "done"
    /\ pc' = "advance"
    /\ UNCHANGED <<retries, returned, addressed, nudged, result, chatVars,
                   agent, frame, crashes>>

\* The batch is consumed: the cursor passes it.
advance ==
    /\ pc = "advance"
    /\ pc' = "consumed"
    /\ UNCHANGED <<storeVars, chatVars, agent, frame, crashes>>

-----------------------------------------------------------------------------
\* The agent makes its next call.
AgentCalls(call) ==
    /\ agent = "working" /\ frame = "none"
    /\ frame' = call
    /\ UNCHANGED <<pc, storeVars, chatVars, agent, crashes>>

\* A handler under lockTurn takes the call.
Handles(calls) == frame \in calls /\ pc # "close"

\* reply, send and the files: the row is sent or still owed, or dead-lettered.
HandleReply ==
    /\ frame = "reply"
    /\ reply' = TRUE \/ UNCHANGED reply
    /\ frame' = "none"
    /\ UNCHANGED <<pc, storeVars, liked, line, told, agent, crashes>>

HandleLike ==
    /\ frame = "like"
    /\ liked' = TRUE
    /\ frame' = "none"
    /\ UNCHANGED <<pc, storeVars, reply, line, told, agent, crashes>>

\* Faulty: an update after the turn's end opens the line.
updateProgressLate == line' = IF line = "none" /\ ~returned THEN "open" ELSE line

\* The first update sends the line, a later one edits it.  The edit of a line
\* that was taken down fails.
updateProgress ==
    line' = IF line = "none" /\ ~returned /\ state # "done" THEN "open" ELSE line

submitStatus ==
    /\ Handles({"status"})
    /\ updateProgress
    /\ frame' = "none"
    /\ UNCHANGED <<pc, storeVars, reply, liked, told, agent, crashes>>

\* checkTurn: one nudge, to an owed turn that runs and has delivered nothing.
Nudgeable == ~delivered /\ owed /\ nudged = 0 /\ state = "running" /\ ~returned

mcpCheckTurn ==
    /\ Handles({"check"})
    /\ nudged' = IF Nudgeable THEN nudged + 1 ELSE nudged
    /\ frame' = "none"
    /\ UNCHANGED <<pc, state, retries, returned, addressed, result, chatVars,
                   agent, crashes>>

\* The agent has its answer, and leaves.
AgentEnds(as) == agent' = IF agent = "working" THEN as ELSE agent

\* submit_turn.  A result was recorded before: nothing happens.
SubmitAgain ==
    /\ Handles(Submits) /\ result # "none"
    /\ frame' = "none"
    /\ AgentEnds(IF frame = "error" THEN "failed" ELSE "finished")
    /\ UNCHANGED <<pc, storeVars, chatVars, crashes>>

\* A silent success of an owed turn is held once: the agent goes on.
SubmitNudged ==
    /\ Handles({"success"}) /\ result = "none" /\ Nudgeable
    /\ nudged' = nudged + 1
    /\ frame' = "none"
    /\ UNCHANGED <<pc, state, retries, returned, addressed, result, chatVars,
                   agent, crashes>>

Records(status, next, as) ==
    /\ result' = status
    /\ frame' = next
    /\ AgentEnds(as)
    /\ UNCHANGED <<pc, state, retries, returned, addressed, nudged, chatVars,
                   crashes>>

\* Faulty: a silent success is recorded without a notice.
RecordTurnResultSilent ==
    /\ Handles(Submits) /\ result = "none"
    /\ \/ /\ frame = "success" /\ ~Nudgeable
          /\ Records("success", "end_line", "finished")
       \/ /\ frame = "timed_out"
          /\ Records("error", "tell", "finished")
       \/ /\ frame = "error"
          /\ Records("error", "end_line", "failed")

\* The first result is recorded.  A deadline, or the silence of an owed turn
\* that has had its nudge, is recorded as an error and told.
RecordTurnResult ==
    /\ Handles(Submits) /\ result = "none"
    /\ \/ /\ frame = "success" /\ (delivered \/ ~owed)
          /\ Records("success", "end_line", "finished")
       \/ /\ frame = "success" /\ ~delivered /\ owed /\ ~Nudgeable
          /\ Records("error", "tell", "finished")
       \/ /\ frame = "timed_out"
          /\ Records("error", "tell", "finished")
       \/ /\ frame = "error"
          /\ Records("error", "end_line", "failed")

sendTurnNotice ==
    /\ frame = "tell"
    /\ told' = TRUE
    /\ frame' = "end_line"
    /\ UNCHANGED <<pc, storeVars, reply, liked, line, agent, crashes>>

SubmitEndsLine ==
    /\ frame = "end_line"
    /\ endProgress
    /\ frame' = "close"
    /\ UNCHANGED <<pc, storeVars, reply, liked, told, agent, crashes>>

SubmitCloses ==
    /\ frame = "close"
    /\ state' = "done"
    /\ frame' = "none"
    /\ UNCHANGED <<pc, retries, returned, addressed, nudged, result, chatVars,
                   agent, crashes>>

-----------------------------------------------------------------------------
\* The hourly sweep: started_at is the first attempt's, so a retry that runs is
\* as stale as a turn nobody runs.
SweepExpiredRunning ==
    /\ state = "running"
    /\ state' = "expired"
    /\ UNCHANGED <<pc, retries, returned, addressed, nudged, result, chatVars,
                   agent, frame, crashes>>

\* routd dies, and with it the run: its request is gone.  The store keeps its
\* items, and the cursor has not passed the batch.
Crash ==
    /\ crashes < MaxCrashes
    /\ crashes' = crashes + 1
    /\ pc' = IF pc = "consumed" THEN pc ELSE "idle"
    /\ agent' = "gone"
    /\ frame' = "none"
    /\ UNCHANGED <<storeVars, chatVars>>

-----------------------------------------------------------------------------
Outcomes == {"clean", "failed", "terminal"}

Returns == \E outcome \in Outcomes : RunReturns(outcome)

Settles ==
    \/ IncrementRetryCount \/ FinalFailure \/ CleanRun
    \/ finishTurnLine \/ finishTurnState \/ advance

Handler ==
    \/ HandleReply \/ HandleLike \/ submitStatus \/ mcpCheckTurn
    \/ SubmitAgain \/ SubmitNudged \/ RecordTurnResult
    \/ sendTurnNotice \/ SubmitEndsLine \/ SubmitCloses

Next ==
    \/ Refuse \/ OpenTurnContext \/ NotRun \/ dispatchRun \/ TransportFails
    \/ Returns \/ Settles \/ Handler
    \/ \E call \in Calls : AgentCalls(call)
    \/ SweepExpiredRunning \/ Crash

Spec == Init /\ [][Next]_vars

\* The poll feeds the batch until it is consumed, a handler returns, runed is
\* not busy or away for ever, and not every run loses its connection: a run
\* has a deadline.
Fairness ==
    /\ WF_vars(OpenTurnContext)
    /\ WF_vars(Settles)
    /\ WF_vars(Handler)
    /\ SF_vars(dispatchRun)
    /\ SF_vars(Returns)

FairSpec == Spec /\ Fairness

-----------------------------------------------------------------------------
\* Types, with the retry count in its budget.
TypeOK ==
    /\ pc \in {"idle", "opened", "run", "end_line", "close", "advance", "consumed"}
              \cup Outcomes
    /\ state \in {"absent", "running", "pending_retry", "done", "expired"}
    /\ retries \in 0..maxTurnRetry
    /\ returned \in BOOLEAN
    /\ addressed \in BOOLEAN
    /\ nudged \in Nat
    /\ result \in {"none", "success", "error"}
    /\ reply \in BOOLEAN
    /\ liked \in BOOLEAN
    /\ line \in {"none", "open", "ended"}
    /\ told \in BOOLEAN
    /\ agent \in {"gone", "working", "finished", "failed"}
    /\ frame \in {"none"} \cup Calls \cup Closing
    /\ crashes \in 0..MaxCrashes

\* The only way to end without a word is an error some attempt has recorded:
\* no deliberate silence, no lost submit and no crash leads there by itself.
SilentOnlyAfterError ==
    pc = "consumed" /\ addressed /\ ~delivered /\ ~told => result = "error"

\* The agent gets one nudge, whatever attempts, hooks and submits ask for it.
NudgedOnce == nudged <= 1

\* No progress line outlives a turn that is done, with status calls, two closers
\* of the turn and crashes between line and state.
LineEndsWithTurn == pc = "consumed" /\ state = "done" => line # "open"

\* A live agent is not written off before it had its nudge, unless the sweep has
\* taken its running retry for a stale turn: nothing an earlier attempt has left
\* in the context cuts it short.
NoticeAfterNudge ==
    [][frame = "success" /\ frame' = "tell" /\ pc = "run" =>
           nudged = 1 \/ state = "expired"]_vars

\* A turn that has replied is not opened again once it is done.
RepliedTurnStaysDone == [][state = "done" /\ reply => state' = "done"]_vars

\* Every batch is consumed in the end: the retries run out, and neither a sweep
\* nor a lost race leaves the turn in a state that is never left.
TurnEnds == <>(pc = "consumed")
=============================================================================
