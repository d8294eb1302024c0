----------------------------- MODULE ChatCursor -----------------------------
(***************************************************************************)
(* The rows of one chat and the cursor that passes them: the worker        *)
(* processGroupMessages (routd/dispatch.go), the poll's own miss handling  *)
(* and the decision on a batch (pollOnce, routeMiss, resolveBatch,         *)
(* routd/loop.go), steering (routd/steer.go) and SetAgentCursor (store).   *)
(*                                                                         *)
(* A row is named by its position.  The worker and the poll run            *)
(* concurrently: the queue has one worker of a chat, and the poll          *)
(* decides a batch that resolves nowhere by itself.  Both write the        *)
(* cursor, without a condition.  A turn's id is the last row of its group. *)
(*                                                                         *)
(* Abstractions.  A row's kind says how it resolves; one folder.  What     *)
(* happens in a turn is TurnLifecycle's: here a turn is done or not, and   *)
(* consumed or not.  A row that isolateElevated cuts off is a group of its *)
(* own, as a row of another sender is.  The observed watermark, and        *)
(* the rows the breaker prunes, are left out.                              *)
(***************************************************************************)
EXTENDS Integers, Sequences, FiniteSets, FiniteSetsExt

CONSTANTS
    Senders,
    Arrivals,   \* the rows that may come in: a kind and a sender
    RouteReads, \* whether a read of the route table succeeds
    pollBatch,  \* rows a batch may have
    MaxRows,    \* bound on the rows of the chat
    MaxFaults   \* bound on crashes, failed writes of the cursor and late submits

ASSUME ReadsAssumption == RouteReads \subseteq BOOLEAN
ASSUME BatchAssumption == pollBatch \in Nat \ {0}
ASSUME BoundsAssumption == MaxRows \in Nat /\ MaxFaults \in Nat

VARIABLES
    log,        \* the chat's rows, oldest first
    cursor,     \* agent_cursor: the last row that is passed
    engaged,    \* the chat is engaged: its ambient rows dispatch
    done,       \* the turns whose context is done
    late,       \* groups given up whose submit may still be under way
    pc,         \* where the worker is
    job,        \* what the worker has of its batch
    poll,       \* the batch the poll has found to be a miss
    busy,       \* busyWait: the row a backoff window is open for, or 0
    faults,
    decided,    \* rows of which something was decided      (history)
    taken,      \* the turns that took a row and are done   (history)
    steered,    \* rows that were run as a command          (history)
    twice,      \* rows that were so more than once         (history)
    suspect     \* rows a fault or a late write has put up again (history)

history == <<decided, taken, steered, twice, suspect>>
vars == <<log, cursor, engaged, done, late, pc, job, poll, busy, faults, history>>

\* direct: the chat's route dispatches it.  ambient: dispatches only when the
\* chat is engaged, and is context otherwise.  command: a slash command.
\* sticky: another row that steer consumes when it is offered.  bot: output.
Kinds == {"direct", "ambient", "command", "sticky", "bot"}

ASSUME ArrivalsAssumption == Arrivals \subseteq [kind : Kinds, sender : Senders]

Positions == 1..MaxRows
NoJob ==
    [groups |-> {}, last |-> 0, offered |-> 0, steered |-> FALSE, finished |-> FALSE]

Init ==
    /\ log = <<>> /\ cursor = 0
    /\ engaged \in BOOLEAN
    /\ done = {} /\ late = {}
    /\ pc = "idle" /\ job = NoJob
    /\ poll = {} /\ busy = 0 /\ faults = 0
    /\ decided = {} /\ steered = {} /\ twice = {}
    /\ taken = [i \in Positions |-> {}]
    /\ suspect = {}

-----------------------------------------------------------------------------
\* NewMessagesForChat, from the cursor on.
Batch == {i \in (cursor + 1)..(cursor + pollBatch) : i <= Len(log)}

User(i) == log[i].kind # "bot"
Users(rows) == {i \in rows : User(i)}

\* resolveRows: without the route table only engagement is left.
Resolves(i, routesOK) ==
    User(i) /\ (engaged \/ (routesOK /\ log[i].kind # "ambient"))

\* steerRowIdx: the oldest command, else the newest user row.
steerRow(rows) ==
    LET commands == {i \in rows : log[i].kind = "command"}
    IN  IF commands # {} THEN Min(commands) ELSE Max(Users(rows))

Steers(i) == log[i].kind \in {"command", "sticky"}

\* consecutiveRuns: rows of one sender that no other row of the trigger divides.
consecutiveRuns(rows) ==
    {{j \in rows : \A k \in rows :
          k \in (i..j) \cup (j..i) => log[k].sender = log[i].sender} : i \in rows}

Decides(rows) == decided' = decided \cup rows

\* SetAgentCursor is unconditional and its error is dropped.  A write that is
\* lost, or that takes the cursor back, puts rows up that were decided before.
Moves(to) ==
    \/ /\ cursor' = to
       /\ suspect' = suspect \cup ((to + 1)..cursor)
       /\ UNCHANGED faults
    \/ /\ faults < MaxFaults
       /\ faults' = faults + 1
       /\ suspect' = suspect \cup ((cursor + 1)..to)
       /\ UNCHANGED cursor

-----------------------------------------------------------------------------
\* handleMessage and every other append: the row gets the newest position.
AppendMessage(row) ==
    /\ Len(log) < MaxRows
    /\ log' = Append(log, row)
    /\ UNCHANGED <<cursor, engaged, done, late, pc, job, poll, busy, faults, history>>

\* The agent or a person engages the chat; a stop, or time, ends it.
Engagement ==
    /\ engaged' = ~engaged
    /\ UNCHANGED <<log, cursor, done, late, pc, job, poll, busy, faults, history>>

\* A backoff window passes.
WindowPasses ==
    /\ busy # 0
    /\ busy' = 0
    /\ UNCHANGED <<log, cursor, engaged, done, late, pc, job, poll, faults, history>>

-----------------------------------------------------------------------------
\* The worker.  busyDeferred looks the window up under the newest user row.
Feeds == pc = "idle" /\ Batch # {} /\ (Users(Batch) # {} => busy # Max(Users(Batch)))

\* A batch of bot rows, or one that resolves nowhere, is passed as a whole.
FeedPassed(routesOK) ==
    /\ Feeds
    /\ \A i \in Batch : ~Resolves(i, routesOK)
    /\ pc' = "advance"
    /\ job' = [NoJob EXCEPT !.last = Max(Batch)]
    /\ busy' = IF Users(Batch) = {} THEN busy ELSE 0
    /\ Decides(Batch)
    /\ UNCHANGED <<log, cursor, engaged, done, late, poll, faults, taken, steered, twice, suspect>>

\* The rows that dispatch are grouped, the others are passed with them: user
\* rows as context of the folder, bot rows as output.
Takes(rows, routesOK, to, isSteered) ==
    LET trigger == {i \in rows : Resolves(i, routesOK)}
    IN  /\ \E i \in Batch : Resolves(i, routesOK)
        /\ job' = [groups |-> consecutiveRuns(trigger), last |-> to,
                   offered |-> steerRow(Batch), steered |-> isSteered,
                   finished |-> FALSE]
        /\ Decides((rows \ trigger) \cup (IF isSteered THEN trigger \cup {to} ELSE {}))
        /\ busy' = 0

FeedTurns(routesOK) ==
    /\ Feeds
    /\ Takes(Batch, routesOK, Max(Batch), FALSE)
    /\ ~Steers(steerRow(Batch))
    /\ pc' = "turns"
    /\ UNCHANGED <<log, cursor, engaged, done, late, poll, faults, taken, steered, twice, suspect>>

\* steer consumes the row it is offered and no other: the rows before it are
\* left to the turns of this worker, the rows behind it stay above the cursor.
\* A command may append a row of its own (/root, a topic prefix).
FeedSteer(routesOK) ==
    LET c == steerRow(Batch)
    IN  /\ Feeds
        /\ Takes({i \in Batch : i < c}, routesOK, c, TRUE)
        /\ Steers(c)
        /\ steered' = steered \cup {c}
        /\ twice' = twice \cup ({c} \cap steered)
        /\ \/ UNCHANGED log
           \/ /\ Len(log) < MaxRows
              /\ log' = Append(log, [kind |-> "direct", sender |-> log[c].sender])
        /\ pc' = "steered"
        /\ UNCHANGED <<cursor, engaged, done, late, poll, faults, taken, suspect>>

\* The command is passed before anything else can fail.
SteerAdvances ==
    /\ pc = "steered"
    /\ Moves(job.last)
    /\ busy' = 0
    /\ pc' = "turns"
    /\ UNCHANGED <<log, engaged, done, late, job, poll, decided, taken, steered, twice>>

-----------------------------------------------------------------------------
Current == CHOOSE g \in job.groups : \A h \in job.groups : Min(g) <= Min(h)
turnID == Max(Current)

Consumes ==
    /\ pc' = "turns"
    /\ job' = [job EXCEPT !.groups = @ \ {Current}, !.finished = TRUE]
    /\ Decides(Current)

\* runTurn consumes the group without a run: its turn is done, or it is refused
\* and the chat is told.
TurnPassed ==
    /\ pc = "turns" /\ job.groups # {}
    /\ Consumes
    /\ UNCHANGED <<log, cursor, engaged, done, late, poll, busy, faults, taken, steered, twice,
                   suspect>>

TurnStarts ==
    /\ pc = "turns" /\ job.groups # {}
    /\ turnID \notin done
    /\ pc' = "run"
    /\ UNCHANGED <<log, cursor, engaged, done, late, job, poll, busy, faults, history>>

Closes(g) ==
    /\ done' = done \cup {Max(g)}
    /\ taken' = [i \in Positions |->
                    IF i \in g THEN taken[i] \cup {Max(g)} ELSE taken[i]]

\* submit_turn closes the turn while the run is still up.
SubmitTurn ==
    /\ pc = "run"
    /\ Closes(Current)
    /\ UNCHANGED <<log, cursor, engaged, late, pc, job, poll, busy, faults, decided, steered,
                   twice, suspect>>

TurnFinishes ==
    /\ pc = "run"
    /\ Closes(Current)
    /\ Consumes
    /\ UNCHANGED <<log, cursor, engaged, late, poll, busy, faults, steered, twice, suspect>>

\* The handler of submit_turn outlives the worker's call (stop() waits for no
\* handler): it closes a turn the worker has given up, whose rows are up again.
LateSubmit(g) ==
    /\ Max(g) \notin done
    /\ Closes(g)
    /\ late' = late \ {g}
    /\ suspect' = suspect \cup g
    /\ UNCHANGED <<log, cursor, engaged, pc, job, poll, busy, faults, decided, steered, twice>>

\* The worker's call breaks off; the agent's submit may be under way by then.
GivesUp ==
    \/ UNCHANGED <<late, faults>>
    \/ /\ pc = "run" /\ turnID \notin done
       /\ faults < MaxFaults
       /\ faults' = faults + 1
       /\ late' = late \cup {Current}

\* Faulty: the turns that have finished stay above the cursor.
NotConsumedAtAll ==
    /\ pc \in {"turns", "run"} /\ job.groups # {}
    /\ pc' = "idle"
    /\ suspect' = IF turnID \in done THEN suspect \cup Current ELSE suspect
    /\ GivesUp
    /\ busy' \in {busy, job.offered}
    /\ job' = NoJob
    /\ UNCHANGED <<log, cursor, engaged, done, poll, decided, taken, steered, twice>>

\* The group is not consumed: runed is busy or away, its answer is lost, or the
\* turn is retried.  Nobody feeds again what a steer has left behind.  A backoff
\* is noted when runed has answered.
NotConsumed ==
    /\ pc \in {"turns", "run"} /\ job.groups # {}
    /\ suspect' = IF turnID \in done THEN suspect \cup Current ELSE suspect
    /\ GivesUp
    /\ \/ /\ job.finished /\ ~job.steered
          /\ pc' = "unfinished"
          /\ UNCHANGED <<job, busy>>
       \/ /\ ~(job.finished /\ ~job.steered)
          /\ pc' = "idle"
          /\ job' = NoJob
          /\ busy' \in {busy, job.offered}
    /\ UNCHANGED <<log, cursor, engaged, done, poll, decided, taken, steered, twice>>

\* The turns before it have finished: the cursor goes to the row before it.
advanceFinished ==
    /\ pc = "unfinished"
    /\ Moves(Min(Current) - 1)
    /\ busy' \in {0, job.offered}
    /\ pc' = "idle"
    /\ job' = NoJob
    /\ UNCHANGED <<log, engaged, done, late, poll, decided, taken, steered, twice>>

\* Faulty: the closing advance goes to the newest row there is.
advanceToNewest ==
    /\ \/ pc = "advance"
       \/ pc = "turns" /\ job.groups = {}
    /\ Moves(Len(log))
    /\ busy' = 0
    /\ pc' = "idle"
    /\ job' = NoJob
    /\ UNCHANGED <<log, engaged, done, late, poll, decided, taken, steered, twice>>

\* Faulty: the position past the last row is written.
advanceTooFar ==
    /\ \/ pc = "advance"
       \/ pc = "turns" /\ job.groups = {}
    /\ Moves(job.last + 1)
    /\ busy' = 0
    /\ pc' = "idle"
    /\ job' = NoJob
    /\ UNCHANGED <<log, engaged, done, late, poll, decided, taken, steered, twice>>

\* The closing advance.
advance ==
    /\ \/ pc = "advance"
       \/ pc = "turns" /\ job.groups = {}
    /\ Moves(job.last)
    /\ busy' = 0
    /\ pc' = "idle"
    /\ job' = NoJob
    /\ UNCHANGED <<log, engaged, done, late, poll, decided, taken, steered, twice>>

-----------------------------------------------------------------------------
\* pollOnce finds a batch that resolves nowhere, and handles the miss itself.
pollMiss(routesOK) ==
    /\ poll = {} /\ Users(Batch) # {}
    /\ \A i \in Batch : ~Resolves(i, routesOK)
    /\ poll' = Batch
    /\ UNCHANGED <<log, cursor, engaged, done, late, pc, job, busy, faults, history>>

routeMiss ==
    /\ poll # {}
    /\ Moves(Max(poll))
    /\ busy' = 0
    /\ Decides(poll)
    /\ poll' = {}
    /\ UNCHANGED <<log, engaged, done, late, pc, job, taken, steered, twice>>

\* routd dies with its handlers; the store keeps the log, the cursor and the turns.
Crash ==
    /\ faults < MaxFaults
    /\ faults' = faults + 1
    /\ pc' = "idle" /\ job' = NoJob /\ poll' = {} /\ busy' = 0 /\ late' = {}
    /\ suspect' = suspect \cup
          {i \in Positions : i > cursor /\ (taken[i] # {} \/ i \in steered)}
    /\ UNCHANGED <<log, cursor, engaged, done, decided, taken, steered, twice>>

-----------------------------------------------------------------------------
Feed(routesOK) == FeedPassed(routesOK) \/ FeedTurns(routesOK) \/ FeedSteer(routesOK)

Worker ==
    \/ \E routesOK \in RouteReads : Feed(routesOK)
    \/ SteerAdvances \/ advanceFinished \/ advance

Turn == TurnPassed \/ TurnStarts \/ SubmitTurn \/ TurnFinishes \/ NotConsumed

Poll == routeMiss \/ \E routesOK \in RouteReads : pollMiss(routesOK)

Next ==
    \/ \E row \in Arrivals : AppendMessage(row)
    \/ Engagement \/ WindowPasses \/ Worker \/ Turn \/ Poll \/ Crash
    \/ \E g \in late : LateSubmit(g)

Spec == Init /\ [][Next]_vars

-----------------------------------------------------------------------------
\* Types.
TypeOK ==
    /\ log \in Seq([kind : Kinds, sender : Senders]) /\ Len(log) <= MaxRows
    /\ cursor \in 0..Len(log)
    /\ engaged \in BOOLEAN
    /\ done \subseteq Positions
    /\ late \subseteq (SUBSET Positions) \ {{}}
    /\ pc \in {"idle", "advance", "turns", "steered", "run", "unfinished"}
    /\ job \in [groups : SUBSET SUBSET Positions, last : 0..MaxRows,
                offered : 0..MaxRows, steered : BOOLEAN, finished : BOOLEAN]
    /\ poll \subseteq Positions
    /\ busy \in 0..MaxRows
    /\ faults \in 0..MaxFaults
    /\ taken \in [Positions -> SUBSET Positions]
    /\ decided \cup steered \cup twice \cup suspect \subseteq Positions

\* The cursor passes no row that nobody has decided: whatever the worker, the
\* poll, a steer or a refusal move it to, what is below has had a turn, was
\* context, was missed, or was left behind by a steer.
NothingSkipped == \A i \in 1..cursor : i \in decided

\* Nothing is done twice - a row in two turns that are done, a command run
\* twice - unless the cursor was lost or taken back, the first turn's answer was
\* lost, or it came when the worker had given the turn up: a refusal after turns
\* that have finished does not feed those again under another id, and never runs
\* the command behind them again.
RepeatedOnlyIfSuspect ==
    /\ \A i \in Positions : Cardinality(taken[i]) > 1 => i \in suspect
    /\ twice \subseteq suspect
=============================================================================
