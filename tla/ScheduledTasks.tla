--------------------------- MODULE ScheduledTasks ---------------------------
(***************************************************************************)
(* One scheduled task: its row (store/tasks.go), the fire loop of timed    *)
(* (timed/split.go fireSplit) that claims it over HTTP, enqueues its       *)
(* prompt and re-arms it, the words of its owner and of the operator       *)
(* (routd scheduled_tasks_resource.go, dashd), and what routd does with a  *)
(* task in firing when it starts.                                          *)
(*                                                                         *)
(* timed works at one tick at a time, each served by a handler at routd    *)
(* that reads, then claims.  The client gives up after a while and the     *)
(* handler does not notice, so it may claim while the next tick is at      *)
(* work.  Either daemon dies on its own, and answers are lost.             *)
(*                                                                         *)
(* Abstractions.  Time is a small counter; a cron names every instant.     *)
(* A row of the chat is counted under the id it carries.  Prompts, chats   *)
(* and containment are left out, and so is a cron that does not parse.     *)
(***************************************************************************)
EXTENDS Integers, FiniteSets

CONSTANTS
    Ticks,     \* a tick of timed, and handlers at routd that outlived theirs
    MaxTime,   \* bound on the clock
    MaxOps,    \* bound on words of the owner
    MaxFaults  \* bound on crashes, timeouts and lost answers

ASSUME BoundsAssumption == MaxTime \in Nat \ {0} /\ MaxOps \in Nat /\ MaxFaults \in Nat

Times == 1..MaxTime
None == 0      \* no next_run

VARIABLES
    now,
    cron,      \* the task recurs
    status, nextRun,
    tick,      \* what each tick has of the task
    patch,     \* a PATCH between its read and its write
    restart,   \* routd's start-up has read the task in firing
    stored,    \* how many rows of the chat carry each run's id
    again,     \* how often each run was put up again          (history)
    ops, faults

store == <<status, nextRun>>
vars == <<now, cron, status, nextRun, tick, patch, restart, stored, again, ops, faults>>

Statuses == {"active", "firing", "paused", "completed", "cancelled", "error", "gone"}
NoTick == [pc |-> "idle", run |-> None]
NoPatch == [pc |-> "none", read |-> "active", status |-> "", run |-> None]

Init ==
    /\ now = 1
    /\ cron \in BOOLEAN
    /\ status = "active"
    /\ IF cron THEN nextRun = None ELSE nextRun \in Times
    /\ tick = [t \in Ticks |-> NoTick]
    /\ patch = NoPatch
    /\ restart = FALSE
    /\ stored = [run \in Times |-> 0] /\ again = [run \in Times |-> 0]
    /\ ops = 0 /\ faults = 0

Fault == faults < MaxFaults /\ faults' = faults + 1
Word == ops < MaxOps /\ ops' = ops + 1

\* core.NextRun: an instant after now.
NextInstant == {i \in Times : i > now}

Clock ==
    /\ now < MaxTime
    /\ now' = now + 1
    /\ UNCHANGED <<cron, status, nextRun, tick, patch, restart, stored, again, ops, faults>>

-----------------------------------------------------------------------------
\* DueTasks.  A task that was never given its next_run gets one, or has none.
fillNextRun ==
    /\ status = "active" /\ nextRun = None
    /\ \/ /\ cron /\ nextRun' \in NextInstant
          /\ UNCHANGED status
       \/ /\ ~cron
          /\ status' = "error"
          /\ UNCHANGED nextRun
    /\ UNCHANGED <<now, cron, tick, patch, restart, stored, again, ops, faults>>

Due == status = "active" /\ nextRun # None /\ nextRun <= now

\* Faulty: a run is due only when its instant is over.
readLate(t) ==
    /\ tick[t].pc = "idle" /\ \A u \in Ticks : tick[u].pc \in {"idle", "orphan"}
    /\ Due /\ nextRun < now
    /\ tick' = [tick EXCEPT ![t] = [pc |-> "read", run |-> nextRun]]
    /\ UNCHANGED <<now, cron, store, patch, restart, stored, again, ops, faults>>

\* Faulty: a tick begins whether or not the last one is through.
readOverlapping(t) ==
    /\ tick[t].pc = "idle"
    /\ Due
    /\ tick' = [tick EXCEPT ![t] = [pc |-> "read", run |-> nextRun]]
    /\ UNCHANGED <<now, cron, store, patch, restart, stored, again, ops, faults>>

\* fireSplit returns before the next tick; a handler it gave up on may be left.
readDue(t) ==
    /\ tick[t].pc = "idle" /\ \A u \in Ticks : tick[u].pc \in {"idle", "orphan"}
    /\ Due
    /\ tick' = [tick EXCEPT ![t] = [pc |-> "read", run |-> nextRun]]
    /\ UNCHANGED <<now, cron, store, patch, restart, stored, again, ops, faults>>

\* The client's timeout.
GiveUp(t) ==
    /\ tick[t].pc = "read"
    /\ Fault
    /\ tick' = [tick EXCEPT ![t].pc = "orphan"]
    /\ UNCHANGED <<now, cron, store, patch, restart, stored, again, ops>>

\* Faulty: whoever has read the task takes it.
claimAnyway(t) ==
    /\ tick[t].pc = "read"
    /\ status' = "firing"
    /\ tick' = [tick EXCEPT ![t].pc = "claimed"]
    /\ UNCHANGED <<now, cron, nextRun, patch, restart, stored, again, ops, faults>>

\* The claim asks for the status alone; the run is the one that was read.
\* Nobody hears of an orphan's claim.
claim(t) ==
    /\ tick[t].pc \in {"read", "orphan"}
    /\ \/ /\ status = "active"
          /\ status' = "firing"
          /\ tick' = [tick EXCEPT ![t] =
                IF tick[t].pc = "orphan" THEN NoTick ELSE [tick[t] EXCEPT !.pc = "claimed"]]
       \/ /\ status # "active"
          /\ tick' = [tick EXCEPT ![t] = NoTick]
          /\ UNCHANGED status
    /\ UNCHANGED <<now, cron, nextRun, patch, restart, stored, again, ops, faults>>

-----------------------------------------------------------------------------
\* The id of a fire is the run it is for; its stamp is the clock's.
fireID(t) == tick[t].run

\* A row is keyed by its stamp, then its id: a copy under an older stamp is not
\* looked for.  Only a stamp that the chat's newest row has overtaken makes
\* appendInstant search for the id, and then the copy is found.
Recorded(t) ==
    \/ stored' = [stored EXCEPT ![fireID(t)] = @ + 1]
    \/ stored[fireID(t)] > 0 /\ UNCHANGED stored

enqueue(t) ==
    /\ tick[t].pc = "claimed"
    /\ \/ /\ Recorded(t)
          /\ tick' = [tick EXCEPT ![t].pc = "enqueued"]
          /\ UNCHANGED faults
       \/ /\ Fault
          /\ Recorded(t) \/ UNCHANGED stored
          /\ tick' = [tick EXCEPT ![t].pc = "refused"]
    /\ UNCHANGED <<now, cron, store, patch, restart, again, ops>>

\* The run that a write puts up is up again.
Rearmed ==
    again' = IF status' = "active" /\ nextRun' # None /\ store' # store
             THEN [again EXCEPT ![nextRun'] = @ + 1] ELSE again

\* Faulty: a recurring task gets its instant and keeps its status.
RescheduleRunOnly(nextRunArg) ==
    \/ /\ status = "firing" /\ nextRunArg = None /\ cron
       /\ nextRun' \in NextInstant
       /\ UNCHANGED status
    \/ ~(status = "firing" /\ cron) /\ UNCHANGED store

\* RescheduleTask, for a task that is still firing.
RescheduleTask(nextRunArg) ==
    \/ /\ status = "firing" /\ nextRunArg # None
       /\ status' = "active" /\ nextRun' = nextRunArg
    \/ /\ status = "firing" /\ nextRunArg = None
       /\ IF cron
          THEN status' = "active" /\ nextRun' \in NextInstant
          ELSE status' = "completed" /\ nextRun' = None
    \/ status # "firing" /\ UNCHANGED store

\* After an error a one-shot goes back to the run it was claimed at.
reschedule(t) ==
    /\ tick[t].pc \in {"enqueued", "refused"}
    /\ \/ /\ tick[t].pc = "refused" /\ ~cron
          /\ RescheduleTask(tick[t].run) /\ Rearmed
          /\ UNCHANGED faults
       \/ /\ tick[t].pc = "enqueued" \/ cron
          /\ RescheduleTask(None)
          /\ UNCHANGED <<again, faults>>
       \/ Fault /\ UNCHANGED <<store, again>>
    /\ tick' = [tick EXCEPT ![t] = NoTick]
    /\ UNCHANGED <<now, cron, patch, restart, stored, ops>>

-----------------------------------------------------------------------------
\* pause_task writes the status as it is told to.
pauseTask ==
    /\ Word /\ status # "gone"
    /\ status' = "paused"
    /\ UNCHANGED <<now, cron, nextRun, tick, patch, restart, stored, again, faults>>

\* ResumeTaskInto, conditional on the pause it has read.
ResumeTask ==
    /\ Word /\ status = "paused"
    /\ status' = "active"
    /\ nextRun' = IF cron THEN None ELSE nextRun
    /\ Rearmed
    /\ UNCHANGED <<now, cron, tick, patch, restart, stored, faults>>

cancelTask ==
    /\ Word /\ status # "gone"
    /\ status' = "gone"
    /\ UNCHANGED <<now, cron, nextRun, tick, patch, restart, stored, again, faults>>

\* dashd: the transition is conditional on the status it starts from.
dashTransition ==
    /\ Word
    /\ \/ status = "active" /\ status' = "paused"
       \/ status \in {"active", "paused"} /\ status' = "cancelled"
    /\ UNCHANGED <<now, cron, nextRun, tick, patch, restart, stored, again, faults>>

\* PATCH and reschedule_task read the task, then write without a condition.
patchReads(to, run) ==
    /\ Word /\ status # "gone" /\ patch.pc = "none"
    /\ to # "" \/ run # None
    /\ patch' = [pc |-> "read", read |-> status, status |-> to, run |-> run]
    /\ UNCHANGED <<now, cron, store, tick, restart, stored, again, faults>>

patchWrites ==
    LET resumes == patch.status = "active" /\ patch.run = None /\ patch.read = "paused"
        to == IF patch.status = "" /\ patch.read \in {"completed", "firing"}
              THEN "active" ELSE patch.status
    IN  /\ patch.pc = "read"
        /\ \/ /\ resumes /\ status = "paused"
              /\ status' = "active"
              /\ nextRun' = IF cron THEN None ELSE nextRun
           \/ /\ ~resumes /\ status # "gone"
              /\ status' = IF to = "" THEN status ELSE to
              /\ nextRun' = IF patch.run = None THEN nextRun ELSE patch.run
           \/ /\ IF resumes THEN status # "paused" ELSE status = "gone"
              /\ UNCHANGED <<status, nextRun>>
        /\ Rearmed
        /\ patch' = NoPatch
        /\ UNCHANGED <<now, cron, tick, restart, stored, ops, faults>>

-----------------------------------------------------------------------------
\* timed dies: what a tick has claimed stays firing, and its handler goes on.
CrashTimed ==
    /\ Fault
    /\ tick' = [t \in Ticks |-> IF tick[t].pc \in {"read", "orphan"}
                               THEN [tick[t] EXCEPT !.pc = "orphan"] ELSE NoTick]
    /\ UNCHANGED <<now, cron, store, patch, restart, stored, again, ops>>

\* routd dies and starts: timed goes on, and routd serves while it recovers.
CrashRoutd ==
    /\ Fault
    /\ tick' = [t \in Ticks |-> IF tick[t].pc \in {"read", "orphan"} THEN NoTick ELSE tick[t]]
    /\ patch' = NoPatch
    /\ restart' = (status = "firing")
    /\ UNCHANGED <<now, cron, store, stored, again, ops>>

\* RecoverFiringTasks writes what it has read, without a condition.
RecoverFiringTasks ==
    /\ restart
    /\ restart' = FALSE
    /\ status' = IF status = "gone" THEN "gone" ELSE "active"
    /\ UNCHANGED nextRun /\ Rearmed
    /\ UNCHANGED <<now, cron, tick, patch, stored, ops, faults>>

-----------------------------------------------------------------------------
Fires(t) == readDue(t) \/ GiveUp(t) \/ claim(t) \/ enqueue(t) \/ reschedule(t)

Words ==
    \/ pauseTask \/ ResumeTask \/ cancelTask \/ dashTransition \/ patchWrites
    \/ \E to \in {"", "active", "paused"}, run \in Times \cup {None} : patchReads(to, run)

Next ==
    \/ Clock \/ fillNextRun \/ Words
    \/ \E t \in Ticks : Fires(t)
    \/ CrashTimed \/ CrashRoutd \/ RecoverFiringTasks

Spec == Init /\ [][Next]_vars

\* timed ticks every minute and at its start; every call has a timeout.
Fairness ==
    /\ WF_vars(\E t \in Ticks : readDue(t))
    /\ \A t \in Ticks : WF_vars(claim(t) \/ enqueue(t) \/ reschedule(t))
    /\ WF_vars(RecoverFiringTasks)

FairSpec == Spec /\ Fairness

-----------------------------------------------------------------------------
\* Types.
TypeOK ==
    /\ now \in Times /\ cron \in BOOLEAN
    /\ status \in Statuses
    /\ nextRun \in Times \cup {None}
    /\ tick \in [Ticks ->
          [pc : {"idle", "read", "orphan", "claimed", "enqueued", "refused"},
           run : Times \cup {None}]]
    /\ patch \in [pc : {"none", "read"}, read : Statuses, status : {"", "active", "paused"},
                  run : Times \cup {None}]
    /\ restart \in BOOLEAN
    /\ stored \in [Times -> Nat] /\ again \in [Times -> Nat]
    /\ ops \in 0..MaxOps /\ faults \in 0..MaxFaults

\* A run of a task reaches its chat once, and once more only for each time it
\* was put up again: by timed after an enqueue that seemed to fail, by routd's
\* start-up, or by its owner.  No claim from a stale read, no handler that
\* outlives its tick and no clock of a re-arm brings a run back by itself.
FiredAsArmed == \A run \in Times : stored[run] <= 1 + again[run]

\* Without a fault a task in firing is in the hands of a tick, which re-arms
\* it: no order of claims and owner's words strands it.
FiringHasTick ==
    status = "firing" /\ faults = 0 =>
        \E t \in Ticks : tick[t].pc \in {"claimed", "enqueued", "refused"}

\* A pause stands until its owner takes it back: not a tick's re-arm, only
\* routd's start-up may undo it.
PauseStands ==
    [][status = "paused" /\ status' # "paused" =>
          restart \/ ops' # ops \/ patch' # patch]_vars

\* A run that is due is fired, put off by its owner, or left to routd's next
\* start by a fault.
DueFires ==
    \A run \in Times :
        Due /\ nextRun = run ~>
            \/ stored[run] > 0
            \/ status \notin {"active", "firing"} \/ nextRun # run \/ faults > 0

=============================================================================
