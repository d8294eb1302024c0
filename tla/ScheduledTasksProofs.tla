------------------------ MODULE ScheduledTasksProofs ------------------------
(***************************************************************************)
(* ScheduledTasks for any number of left handlers and any bounds.  A tick  *)
(* goes on for minutes with a run it read once, and its claim asks for the *)
(* status alone.  That is safe because timed works at one tick at a time   *)
(* and a re-arm takes an instant after now: a run still to be stored is    *)
(* read by the tick, or claimed by it, or up, and is counted once in each. *)
(***************************************************************************)
EXTENDS ScheduledTasks, TLAPS

\* A tick that has read the task has read an instant that has come.
RunRead == \A t \in Ticks : tick[t].pc # "idle" => tick[t].run \in Times /\ tick[t].run <= now

\* timed works at one tick at a time.
Busy == {"read", "claimed", "enqueued", "refused"}

OneTick ==
    \A t, u \in Ticks : tick[t].pc \in Busy /\ tick[u].pc \in Busy => t = u

\* The rows a run may still get: from the tick that has read it, whose claim
\* takes the run off the task, or from a claim and from the task itself.
Has(pc, run) == \E t \in Ticks : tick[t].pc = pc /\ tick[t].run = run

Up(run) == IF status = "active" /\ nextRun = run THEN 1 ELSE 0

Claimed(run) == IF Has("claimed", run) THEN 1 ELSE 0

Owing(run) == IF Has("read", run) THEN 1 ELSE Up(run) + Claimed(run)

ArmedInv ==
    \A run \in Times :
        /\ stored[run] + Owing(run) <= 1 + again[run]
        /\ stored[run] # 0 => run <= now

\* A handler is left behind by a timeout or a crash.
LeftByFault == \A t \in Ticks : tick[t].pc = "orphan" => faults # 0

IInv ==
    /\ TypeOK
    /\ RunRead
    /\ OneTick
    /\ LeftByFault
    /\ FiringHasTick

TickRow == [pc : {"idle", "read", "orphan", "claimed", "enqueued", "refused"},
            run : Times \cup {None}]

PatchRow == [pc : {"none", "read"}, read : Statuses, status : {"", "active", "paused"},
             run : Times \cup {None}]

\* A task that has not been read by anybody.
LEMMA InitIInv == Init => IInv
<1> SUFFICES ASSUME Init PROVE IInv
  OBVIOUS
<1> USE BoundsAssumption DEF Init
<1>1. NoTick \in TickRow /\ NoPatch \in PatchRow
  BY DEF NoTick, NoPatch, TickRow, PatchRow, Statuses
<1>6. 1 \in Times
  BY DEF Times
<1>2. cron \in BOOLEAN /\ restart \in BOOLEAN
  BY Zenon
<1>3. nextRun \in Times \cup {None}
  OBVIOUS
<1>4. TypeOK
  <2>1. tick \in [Ticks -> TickRow] /\ patch \in PatchRow /\ status \in Statuses
    BY <1>1 DEF Statuses
  <2>2. /\ stored \in [Times -> Nat] /\ again \in [Times -> Nat]
        /\ ops \in 0..MaxOps /\ faults \in 0..MaxFaults
    OBVIOUS
  <2> QED BY <1>2, <1>3, <1>6, <2>1, <2>2 DEF TypeOK, TickRow, PatchRow
<1>5. RunRead /\ OneTick /\ LeftByFault
  <2>1. \A t \in Ticks : tick[t].pc = "idle"
    BY DEF NoTick
  <2> QED BY <2>1 DEF RunRead, OneTick, LeftByFault, Busy
<1> QED BY <1>4, <1>5 DEF IInv, FiringHasTick

\* What the provers need to know of the types, in both states.
LEMMA Typed ==
    ASSUME TypeOK
    PROVE  /\ tick \in [Ticks -> TickRow] /\ patch \in PatchRow /\ now \in Times /\ now \in Nat
           /\ stored \in [Times -> Nat] /\ again \in [Times -> Nat]
           /\ nextRun \in Times \cup {None} /\ status \in Statuses
           /\ faults \in 0..MaxFaults /\ ops \in 0..MaxOps
           /\ \A n \in Times : n # None /\ n \in Nat
<1>1. now \in Times
  BY DEF TypeOK
<1>2. \A n \in Times : n # None /\ n \in Nat
  BY BoundsAssumption DEF Times, None
<1> QED BY <1>1, <1>2 DEF TypeOK, TickRow, PatchRow

\* Putting a run up counts it and keeps the type.
LEMMA RearmedType ==
    ASSUME TypeOK, Rearmed, nextRun' \in Times \cup {None}
    PROVE  again' \in [Times -> Nat]
<1>1. again \in [Times -> Nat] /\ (nextRun' # None => nextRun' \in Times)
  BY Typed
<1> QED BY <1>1 DEF Rearmed

\* One tick moves to another pc with its run, or is over.
LEMMA TickMoves ==
    ASSUME IInv, NEW t \in Ticks, NEW to \in {"orphan", "claimed", "enqueued", "refused"},
           tick[t].pc \in Busy,
           tick' = [tick EXCEPT ![t].pc = to] \/ tick' = [tick EXCEPT ![t] = NoTick],
           UNCHANGED now, to = "orphan" => faults' # 0, faults # 0 => faults' # 0
    PROVE  /\ tick' \in [Ticks -> TickRow] /\ RunRead' /\ OneTick' /\ LeftByFault'
           /\ \A u \in Ticks : u # t => tick'[u] = tick[u]
           /\ \/ tick'[t].pc = to /\ tick'[t].run = tick[t].run
              \/ tick'[t] = NoTick
<1>1. tick \in [Ticks -> TickRow] /\ tick[t] \in TickRow
  BY Typed DEF IInv
<1>2. NoTick \in TickRow /\ NoTick.pc = "idle"
  BY DEF NoTick, TickRow
<1>3. /\ [tick[t] EXCEPT !.pc = to] \in TickRow
      /\ [tick[t] EXCEPT !.pc = to].pc = to /\ [tick[t] EXCEPT !.pc = to].run = tick[t].run
  BY <1>1 DEF TickRow
<1>4. /\ tick' \in [Ticks -> TickRow] /\ \A u \in Ticks : u # t => tick'[u] = tick[u]
      /\ tick'[t] = [tick[t] EXCEPT !.pc = to] \/ tick'[t] = NoTick
  BY <1>1, <1>2, <1>3
<1>5. RunRead'
  <2>1. tick[t].pc # "idle"
    BY DEF Busy
  <2> QED BY <1>2, <1>3, <1>4, <2>1 DEF IInv, RunRead
<1>6. OneTick'
  <2>1. \A u \in Ticks : tick'[u].pc \in Busy => tick[u].pc \in Busy
    BY <1>4
  <2> QED BY <2>1 DEF IInv, OneTick
<1>7. LeftByFault'
  <2> SUFFICES ASSUME NEW u \in Ticks, tick'[u].pc = "orphan" PROVE faults' # 0
    BY DEF LeftByFault
  <2>1. CASE u = t
    BY <1>2, <1>3, <1>4, <2>1
  <2>2. CASE u # t
    BY <1>4, <2>2 DEF IInv, LeftByFault
  <2> QED BY <2>1, <2>2
<1> QED BY <1>2, <1>3, <1>4, <1>5, <1>6, <1>7

\* The ticks.
LEMMA TickStep ==
    ASSUME IInv, NEW t \in Ticks, Fires(t)
    PROVE  IInv'
<1> USE BoundsAssumption
<1>1. /\ tick \in [Ticks -> TickRow] /\ patch \in PatchRow /\ now \in Times /\ now \in Nat
      /\ stored \in [Times -> Nat] /\ again \in [Times -> Nat]
      /\ nextRun \in Times \cup {None} /\ status \in Statuses
      /\ faults \in 0..MaxFaults /\ ops \in 0..MaxOps
      /\ \A n \in Times : n # None /\ n \in Nat
  BY Typed DEF IInv
<1>2. cron \in BOOLEAN /\ restart \in BOOLEAN
  BY DEF IInv, TypeOK
<1>3. UNCHANGED <<now, cron, patch, restart, ops>>
  BY DEF Fires, readDue, GiveUp, claim, enqueue, reschedule
<1>4. ASSUME tick' \in [Ticks -> TickRow], stored' \in [Times -> Nat], again' \in [Times -> Nat],
             nextRun' \in Times \cup {None}, status' \in Statuses, faults' \in 0..MaxFaults
      PROVE  TypeOK'
  BY <1>1, <1>2, <1>3, <1>4 DEF TypeOK, TickRow, PatchRow
<1>5. NoTick \in TickRow /\ NoTick.pc = "idle"
  BY DEF NoTick, TickRow
<1>6. /\ Fault => faults' \in 0..MaxFaults /\ faults' # 0
      /\ (Fault \/ UNCHANGED faults) => faults' \in 0..MaxFaults /\ (faults # 0 => faults' # 0)
  BY <1>1 DEF Fault
<1>7. CASE readDue(t)
  <2>1. /\ nextRun \in Times /\ nextRun <= now /\ tick[t].pc = "idle"
        /\ UNCHANGED <<status, nextRun, stored, again, faults>>
        /\ \A u \in Ticks : tick[u].pc \in {"idle", "orphan"}
    BY <1>1, <1>7 DEF readDue, Due, store
  <2>2. [pc |-> "read", run |-> nextRun] \in TickRow
    BY <2>1 DEF TickRow
  <2>3. /\ tick' \in [Ticks -> TickRow] /\ tick'[t] = [pc |-> "read", run |-> nextRun]
        /\ \A u \in Ticks : u # t => tick'[u] = tick[u]
    BY <1>1, <1>7, <2>2 DEF readDue
  <2>4. TypeOK'
    BY <1>1, <1>4, <2>1, <2>3
  <2>5. RunRead'
    BY <1>3, <2>1, <2>3 DEF IInv, RunRead
  <2>6. OneTick' /\ LeftByFault'
    BY <2>1, <2>3 DEF IInv, OneTick, LeftByFault, Busy
  <2>7. FiringHasTick'
    BY <2>1, <2>3 DEF IInv, FiringHasTick
  <2> QED BY <2>4, <2>5, <2>6, <2>7 DEF IInv
<1>8. CASE GiveUp(t)
  <2>1. /\ tick[t].pc = "read" /\ Fault /\ tick' = [tick EXCEPT ![t].pc = "orphan"]
        /\ UNCHANGED <<status, nextRun, stored, again>>
    BY <1>8 DEF GiveUp, store
  <2>2. tick' \in [Ticks -> TickRow] /\ RunRead' /\ OneTick' /\ LeftByFault'
    BY <1>3, <1>6, <2>1, TickMoves DEF Busy
  <2>3. TypeOK'
    BY <1>1, <1>4, <1>6, <2>1, <2>2
  <2> QED BY <1>6, <2>1, <2>2, <2>3 DEF IInv, FiringHasTick
<1>9. CASE claim(t)
  <2>1. /\ tick[t].pc \in {"read", "orphan"} /\ UNCHANGED <<nextRun, stored, again, faults>>
        /\ status' \in Statuses
    BY <1>1, <1>9 DEF claim, Statuses
  <2>2. CASE tick[t].pc = "read" /\ status' = "firing"
             /\ tick' = [tick EXCEPT ![t] = [tick[t] EXCEPT !.pc = "claimed"]]
    <3>1. /\ tick' \in [Ticks -> TickRow] /\ RunRead' /\ OneTick' /\ LeftByFault'
          /\ tick'[t].pc = "claimed" \/ tick'[t] = NoTick
      BY <1>1, <1>3, <2>1, <2>2, TickMoves DEF Busy
    <3>2. tick'[t].pc = "claimed"
      <4>1. [tick[t] EXCEPT !.pc = "claimed"].pc = "claimed"
        BY <1>1 DEF TickRow
      <4> QED BY <1>1, <2>2, <4>1
    <3>3. TypeOK'
      BY <1>1, <1>4, <2>1, <3>1
    <3>4. FiringHasTick'
      BY <3>2 DEF FiringHasTick
    <3> QED BY <3>1, <3>3, <3>4 DEF IInv
  <2>3. CASE tick' = [tick EXCEPT ![t] = NoTick]
             /\ (tick[t].pc = "orphan" \/ (status # "active" /\ UNCHANGED status))
    <3>1. /\ tick' \in [Ticks -> TickRow] /\ tick'[t] = NoTick
          /\ \A u \in Ticks : u # t => tick'[u] = tick[u]
      BY <1>1, <1>5, <2>3
    <3>2. TypeOK'
      BY <1>1, <1>4, <2>1, <3>1
    <3>3. RunRead'
      BY <1>3, <1>5, <3>1 DEF IInv, RunRead
    <3>4. OneTick' /\ LeftByFault'
      BY <1>5, <2>1, <3>1 DEF IInv, OneTick, LeftByFault, Busy
    <3>5. FiringHasTick'
      BY <2>1, <2>3, <3>1 DEF IInv, FiringHasTick, LeftByFault
    <3> QED BY <3>2, <3>3, <3>4, <3>5 DEF IInv
  <2> QED BY <1>9, <2>1, <2>2, <2>3 DEF claim
<1>10. CASE enqueue(t)
  <2>1. /\ tick[t].pc = "claimed" /\ tick[t].run \in Times /\ UNCHANGED <<status, nextRun, again>>
        /\ (Fault \/ UNCHANGED faults)
    BY <1>10 DEF enqueue, IInv, RunRead, store
  <2>2. PICK pc \in {"enqueued", "refused"} : tick' = [tick EXCEPT ![t].pc = pc]
    BY <1>10 DEF enqueue
  <2>3. tick' \in [Ticks -> TickRow] /\ RunRead' /\ OneTick' /\ LeftByFault'
    BY <1>3, <1>6, <2>1, <2>2, TickMoves DEF Busy
  <2>4. tick'[t].pc = pc
    BY <1>1, <2>2 DEF TickRow
  <2>5. stored' \in [Times -> Nat]
    BY <1>1, <1>10, <2>1 DEF enqueue, Recorded, fireID
  <2>6. TypeOK'
    BY <1>1, <1>4, <1>6, <2>1, <2>3, <2>5
  <2>7. FiringHasTick'
    BY <2>4 DEF FiringHasTick
  <2> QED BY <2>3, <2>6, <2>7 DEF IInv
<1>11. CASE reschedule(t)
  <2>1. /\ tick[t].pc \in {"enqueued", "refused"} /\ tick[t].run \in Times
        /\ tick' = [tick EXCEPT ![t] = NoTick] /\ UNCHANGED stored
    BY <1>11 DEF reschedule, IInv, RunRead
  <2>2. \/ status' \in {"active", "completed"} /\ nextRun' \in Times \cup {None}
           /\ UNCHANGED faults /\ (Rearmed \/ UNCHANGED again)
        \/ status # "firing" /\ UNCHANGED <<status, nextRun, faults>>
           /\ (Rearmed \/ UNCHANGED again)
        \/ Fault /\ UNCHANGED <<status, nextRun, again>>
    BY <1>11, <2>1 DEF reschedule, RescheduleTask, store, NextInstant
  <2>3. /\ status' \in Statuses /\ nextRun' \in Times \cup {None}
        /\ faults' \in 0..MaxFaults /\ (Fault \/ UNCHANGED faults)
    BY <1>1, <1>6, <2>2 DEF Statuses
  <2>4. again' \in [Times -> Nat]
    BY <1>1, <2>2, <2>3, RearmedType DEF IInv
  <2>5. tick' \in [Ticks -> TickRow] /\ RunRead' /\ OneTick' /\ LeftByFault'
    BY <1>3, <1>6, <2>1, <2>3, TickMoves DEF Busy
  <2>6. TypeOK'
    BY <1>1, <1>4, <2>1, <2>3, <2>4, <2>5
  <2>7. FiringHasTick'
    <3>1. CASE Fault
      BY <1>6, <3>1 DEF FiringHasTick
    <3>2. CASE status' # "firing"
      BY <3>2 DEF FiringHasTick
    <3> QED BY <2>2, <3>1, <3>2
  <2> QED BY <2>5, <2>6, <2>7 DEF IInv
<1> QED BY <1>7, <1>8, <1>9, <1>10, <1>11 DEF Fires

\* Everybody else: none of them makes a task firing, and none takes a tick's run.
LEMMA OtherStep ==
    ASSUME IInv,
           Clock \/ fillNextRun \/ Words \/ CrashTimed \/ CrashRoutd \/ RecoverFiringTasks
    PROVE  IInv'
<1> USE BoundsAssumption
<1>1. /\ tick \in [Ticks -> TickRow] /\ stored \in [Times -> Nat] /\ again \in [Times -> Nat]
      /\ nextRun \in Times \cup {None} /\ status \in Statuses /\ now \in Times
      /\ faults \in 0..MaxFaults /\ ops \in 0..MaxOps /\ patch \in PatchRow
      /\ \A n \in Times : n # None /\ n \in Nat
  BY Typed DEF IInv
<1>2. cron \in BOOLEAN /\ restart \in BOOLEAN
  BY DEF IInv, TypeOK
<1>3. UNCHANGED <<cron, stored>>
  BY DEF Clock, fillNextRun, Words, pauseTask, ResumeTask, cancelTask, dashTransition,
         patchWrites, patchReads, CrashTimed, CrashRoutd, RecoverFiringTasks
<1>4. NoTick \in TickRow /\ NoTick.pc = "idle" /\ NoPatch \in PatchRow
  BY DEF NoTick, TickRow, NoPatch, PatchRow, None, Statuses
<1>5. now' \in Times /\ now <= now'
  <2>1. CASE Clock
    BY <1>1, <2>1 DEF Clock, Times
  <2>2. CASE UNCHANGED now
    BY <1>1, <2>2
  <2> QED BY <2>1, <2>2 DEF fillNextRun, Words, pauseTask, ResumeTask, cancelTask,
         dashTransition, patchWrites, patchReads, CrashTimed, CrashRoutd, RecoverFiringTasks
<1>6. status' \in Statuses /\ (status' = "firing" => status = "firing")
  BY <1>1 DEF Clock, fillNextRun, Words, pauseTask, ResumeTask, cancelTask, dashTransition,
         patchWrites, patchReads, CrashTimed, CrashRoutd, RecoverFiringTasks, Statuses, store,
         PatchRow
<1>7. nextRun' \in Times \cup {None}
  BY <1>1 DEF Clock, fillNextRun, Words, pauseTask, ResumeTask, cancelTask, dashTransition,
         patchWrites, patchReads, CrashTimed, CrashRoutd, RecoverFiringTasks, store, PatchRow,
         NextInstant
<1>8. patch' \in PatchRow
  <2>1. ASSUME NEW to \in {"", "active", "paused"}, NEW run \in Times \cup {None},
               patchReads(to, run)
        PROVE  patch' \in PatchRow
    BY <1>1, <2>1 DEF patchReads, PatchRow
  <2> QED BY <1>1, <1>4, <2>1 DEF Clock, fillNextRun, Words, pauseTask, ResumeTask, cancelTask,
         dashTransition, patchWrites, CrashTimed, CrashRoutd, RecoverFiringTasks
<1>9. restart' \in BOOLEAN
  BY <1>2, Zenon DEF Clock, fillNextRun, Words, pauseTask, ResumeTask, cancelTask,
         dashTransition, patchWrites, patchReads, CrashTimed, CrashRoutd, RecoverFiringTasks
<1>10. ops' \in 0..MaxOps
  <2>1. Word => ops' \in 0..MaxOps
    BY <1>1 DEF Word
  <2> QED BY <1>1, <2>1 DEF Clock, fillNextRun, Words, pauseTask, ResumeTask, cancelTask,
         dashTransition, patchWrites, patchReads, CrashTimed, CrashRoutd, RecoverFiringTasks
<1>11. /\ faults' \in 0..MaxFaults /\ (faults # 0 => faults' # 0)
       /\ faults' = 0 => faults = 0 /\ tick' = tick
  <2>1. Fault => faults' \in 0..MaxFaults /\ faults' # 0
    BY <1>1 DEF Fault
  <2> QED BY <1>1, <2>1 DEF Clock, fillNextRun, Words, pauseTask, ResumeTask, cancelTask,
         dashTransition, patchWrites, patchReads, CrashTimed, CrashRoutd, RecoverFiringTasks
<1>12. /\ tick' \in [Ticks -> TickRow]
       /\ \A t \in Ticks : \/ tick'[t] = tick[t] \/ tick'[t] = NoTick
                           \/ /\ tick[t].pc \in {"read", "orphan"} /\ faults' # 0
                              /\ tick'[t].pc = "orphan" /\ tick'[t].run = tick[t].run
  <2>1. CASE UNCHANGED tick
    BY <1>1, <2>1
  <2>2. CASE CrashRoutd
    BY <1>1, <1>4, <2>2 DEF CrashRoutd
  <2>3. CASE CrashTimed
    <3>1. \A t \in Ticks : /\ [tick[t] EXCEPT !.pc = "orphan"] \in TickRow
                           /\ [tick[t] EXCEPT !.pc = "orphan"].pc = "orphan"
                           /\ [tick[t] EXCEPT !.pc = "orphan"].run = tick[t].run
      BY <1>1 DEF TickRow
    <3>2. faults' # 0
      BY <1>1, <2>3 DEF CrashTimed, Fault
    <3> QED BY <1>1, <1>4, <2>3, <3>1, <3>2 DEF CrashTimed
  <2> QED BY <2>1, <2>2, <2>3 DEF Clock, fillNextRun, Words, pauseTask, ResumeTask, cancelTask,
         dashTransition, patchWrites, patchReads, RecoverFiringTasks
<1>a. again' \in [Times -> Nat]
  <2>1. Rearmed \/ UNCHANGED again
    BY DEF Clock, fillNextRun, Words, pauseTask, ResumeTask, cancelTask, dashTransition,
         patchWrites, patchReads, CrashTimed, CrashRoutd, RecoverFiringTasks
  <2> QED BY <1>1, <1>7, <2>1, RearmedType DEF IInv
<1>13. TypeOK'
  BY <1>1, <1>2, <1>3, <1>5, <1>6, <1>7, <1>8, <1>9, <1>10, <1>11, <1>12, <1>a
     DEF TypeOK, TickRow, PatchRow
<1>14. RunRead'
  <2> SUFFICES ASSUME NEW t \in Ticks, tick'[t].pc # "idle"
               PROVE  tick'[t].run \in Times /\ tick'[t].run <= now'
    BY DEF RunRead
  <2>1. tick'[t].run = tick[t].run /\ tick[t].pc # "idle"
    BY <1>4, <1>12
  <2>2. tick[t].run \in Times /\ tick[t].run <= now
    BY <2>1 DEF IInv, RunRead
  <2>3. now \in Nat /\ now' \in Nat /\ tick[t].run \in Nat
    BY <1>1, <1>5, <2>2
  <2> QED BY <1>5, <2>1, <2>2, <2>3
<1>15. OneTick' /\ LeftByFault'
  <2>1. \A t \in Ticks : /\ tick'[t].pc \in Busy => tick[t].pc \in Busy
                         /\ tick'[t].pc = "orphan" => tick[t].pc = "orphan" \/ faults' # 0
    BY <1>4, <1>12 DEF Busy
  <2> QED BY <1>11, <2>1 DEF IInv, OneTick, LeftByFault
<1>16. FiringHasTick'
  BY <1>6, <1>11 DEF IInv, FiringHasTick
<1> QED BY <1>13, <1>14, <1>15, <1>16 DEF IInv

\* Every reachable state of a task satisfies the invariant.
THEOREM Invariance == Spec => []IInv
<1>1. ASSUME IInv, UNCHANGED vars PROVE IInv'
  BY <1>1 DEF IInv, TypeOK, RunRead, OneTick, LeftByFault, FiringHasTick, vars
<1>2. ASSUME IInv, [Next]_vars PROVE IInv'
  BY <1>1, <1>2, TickStep, OtherStep DEF Next
<1> QED BY InitIInv, <1>2, PTL DEF Spec

\* Every variable keeps its type.
THEOREM TypeCorrect == Spec => []TypeOK
BY Invariance, PTL DEF IInv

-----------------------------------------------------------------------------
\* What the counts are.
LEMMA Counts ==
    ASSUME IInv, NEW run \in Times
    PROVE  /\ Up(run) \in {0, 1} /\ Up(run)' \in {0, 1}
           /\ Claimed(run) \in {0, 1} /\ Claimed(run)' \in {0, 1}
           /\ Owing(run) = IF Has("read", run) THEN 1 ELSE Up(run) + Claimed(run)
           /\ Owing(run)' = IF Has("read", run)' THEN 1 ELSE Up(run)' + Claimed(run)'
           /\ stored[run] \in Nat /\ again[run] \in Nat /\ run \in Nat /\ now \in Nat
           /\ Has("read", run) => ~Has("claimed", run)
<1>1. /\ Up(run) \in {0, 1} /\ Up(run)' \in {0, 1}
      /\ Claimed(run) \in {0, 1} /\ Claimed(run)' \in {0, 1}
  BY DEF Up, Claimed
<1>2. stored[run] \in Nat /\ again[run] \in Nat /\ run \in Nat /\ now \in Nat
  BY Typed DEF IInv
<1>3. Has("read", run) => ~Has("claimed", run)
  BY DEF IInv, OneTick, Has, Busy
<1> QED BY <1>1, <1>2, <1>3 DEF Owing

\* Nobody takes the run up, but for a re-arm that is counted.
LEMMA Kept ==
    ASSUME IInv, ArmedInv, NEW run \in Times, stored'[run] = stored[run],
           again'[run] \in Nat, again[run] <= again'[run],
           Has("read", run)' => Has("read", run), Has("claimed", run)' => Has("claimed", run),
           Up(run)' <= Up(run) + (again'[run] - again[run])
    PROVE  stored'[run] + Owing(run)' <= 1 + again'[run]
<1>1. stored[run] + Owing(run) <= 1 + again[run]
  BY DEF ArmedInv
<1>2. /\ Up(run) \in {0, 1} /\ Up(run)' \in {0, 1}
      /\ Claimed(run) \in {0, 1} /\ Claimed(run)' \in {0, 1}
      /\ Owing(run) = IF Has("read", run) THEN 1 ELSE Up(run) + Claimed(run)
      /\ Owing(run)' = IF Has("read", run)' THEN 1 ELSE Up(run)' + Claimed(run)'
      /\ stored[run] \in Nat /\ again[run] \in Nat
      /\ Has("read", run) => ~Has("claimed", run)
  BY Counts
<1>3. Claimed(run)' <= Claimed(run) /\ (~Has("claimed", run) => Claimed(run)' = 0)
  <2>1. Claimed(run)' = IF Has("claimed", run)' THEN 1 ELSE 0
    BY DEF Claimed
  <2>2. Claimed(run) = IF Has("claimed", run) THEN 1 ELSE 0
    BY DEF Claimed
  <2> QED BY <2>1, <2>2
<1>4. CASE Has("read", run)
  <2>1. Owing(run) = 1 /\ Owing(run)' <= 1
    BY <1>2, <1>3, <1>4
  <2>2. Owing(run)' \in {0, 1, 2}
    BY <1>2
  <2> QED BY <1>1, <1>2, <2>1, <2>2
<1>5. CASE ~Has("read", run)
  <2>1. Owing(run) = Up(run) + Claimed(run) /\ Owing(run)' = Up(run)' + Claimed(run)'
    BY <1>2, <1>5
  <2> QED BY <1>1, <1>2, <1>3, <2>1
<1> QED BY <1>4, <1>5

\* An instant after now has no row and no tick.
LEMMA Coming ==
    ASSUME IInv, ArmedInv, NEW run \in Times, run > now, stored'[run] = stored[run],
           again'[run] \in Nat,
           Has("read", run)' => Has("read", run), Has("claimed", run)' => Has("claimed", run)
    PROVE  stored'[run] + Owing(run)' <= 1 + again'[run]
<1>1. run \in Nat /\ now \in Nat /\ Up(run)' \in {0, 1} /\ stored[run] \in Nat
      /\ Owing(run)' = IF Has("read", run)' THEN 1 ELSE Up(run)' + Claimed(run)'
  BY Counts
<1>2. ~(run <= now)
  BY <1>1
<1>3. stored[run] = 0
  BY <1>2 DEF ArmedInv
<1>4. ~Has("read", run) /\ ~Has("claimed", run)
  BY <1>2 DEF Has, IInv, RunRead
<1>5. Claimed(run)' = 0
  <2>1. Claimed(run)' = IF Has("claimed", run)' THEN 1 ELSE 0
    BY DEF Claimed
  <2> QED BY <1>4, <2>1
<1>6. Owing(run)' = Up(run)' + 0
  BY <1>1, <1>4, <1>5
<1> QED BY <1>1, <1>3, <1>6

\* A write that puts a run up counts it.
LEMMA Rearms ==
    ASSUME IInv, Rearmed, nextRun' \in Times \cup {None}, NEW run \in Times
    PROVE  /\ again'[run] \in Nat /\ again[run] <= again'[run]
           /\ Up(run)' <= Up(run) + (again'[run] - again[run])
<1>1. again \in [Times -> Nat] /\ run # None
  BY Typed DEF IInv
<1>2. Up(run) \in {0, 1} /\ again[run] \in Nat
  BY Counts
<1>3. CASE status' = "active" /\ nextRun' = run /\ store' # store
  <2>1. again'[run] = again[run] + 1
    BY <1>1, <1>3 DEF Rearmed
  <2>2. Up(run)' = 1
    BY <1>3 DEF Up
  <2> QED BY <1>2, <2>1, <2>2
<1>4. CASE status' = "active" /\ nextRun' = run /\ store' = store
  <2>1. again' = again /\ Up(run)' = Up(run)
    BY <1>4 DEF Rearmed, Up, store
  <2> QED BY <1>2, <2>1
<1>5. CASE ~(status' = "active" /\ nextRun' = run)
  <2>1. Up(run)' = 0
    BY <1>5 DEF Up
  <2>2. again'[run] = again[run]
    <3>1. CASE again' = again
      BY <3>1
    <3>2. CASE /\ status' = "active" /\ nextRun' # None
               /\ again' = [again EXCEPT ![nextRun'] = @ + 1]
      BY <1>1, <1>5, <3>2
    <3> QED BY <3>1, <3>2 DEF Rearmed
  <2> QED BY <1>2, <2>1, <2>2
<1> QED BY <1>3, <1>4, <1>5

\* The status and the run stay, or the task is not active afterwards.
LEMMA NotUp ==
    ASSUME IInv, NEW run \in Times, UNCHANGED again, UNCHANGED store \/ status' # "active"
    PROVE  /\ again'[run] \in Nat /\ again[run] <= again'[run]
           /\ Up(run)' <= Up(run) + (again'[run] - again[run])
<1>1. Up(run) \in {0, 1} /\ again[run] \in Nat
  BY Counts
<1>2. Up(run)' = Up(run) \/ Up(run)' = 0
  BY DEF Up, store
<1> QED BY <1>1, <1>2

\* The ticks: a run moves from the task to the tick, to the claim, to the chat.
LEMMA TickArmed ==
    ASSUME IInv, IInv', ArmedInv, NEW t \in Ticks, Fires(t), NEW run \in Times
    PROVE  stored'[run] + Owing(run)' <= 1 + again'[run]
<1>0. /\ tick \in [Ticks -> TickRow] /\ stored \in [Times -> Nat] /\ again \in [Times -> Nat]
      /\ nextRun \in Times \cup {None} /\ (\A n \in Times : n # None)
  BY Typed DEF IInv
<1>a. tick' \in [Ticks -> TickRow] /\ nextRun' \in Times \cup {None}
  BY DEF IInv, TypeOK, TickRow
<1>b. /\ Up(run) \in {0, 1} /\ Up(run)' \in {0, 1}
      /\ Claimed(run) \in {0, 1} /\ Claimed(run)' \in {0, 1}
      /\ Owing(run) = IF Has("read", run) THEN 1 ELSE Up(run) + Claimed(run)
      /\ Owing(run)' = IF Has("read", run)' THEN 1 ELSE Up(run)' + Claimed(run)'
      /\ stored[run] \in Nat /\ again[run] \in Nat
      /\ stored[run] + Owing(run) <= 1 + again[run]
  BY Counts DEF ArmedInv
<1>c. \A u \in Ticks : u # t => tick'[u] = tick[u]
  BY <1>0 DEF Fires, readDue, GiveUp, claim, enqueue, reschedule
\* The tick ends or is left: nobody else's run appears.
<1>d. ASSUME tick'[t].pc \notin {"read", "claimed"}
      PROVE  /\ Has("read", run)' => Has("read", run)
             /\ Has("claimed", run)' => Has("claimed", run)
  <2>1. \A u \in Ticks : tick'[u].pc \in {"read", "claimed"} => tick'[u] = tick[u]
    BY <1>c, <1>d
  <2> QED BY <2>1 DEF Has
<1>e. NoTick.pc = "idle"
  BY DEF NoTick
<1>1. CASE readDue(t)
  <2>1. /\ UNCHANGED <<status, nextRun, stored, again>> /\ status = "active"
        /\ \A u \in Ticks : tick[u].pc \in {"idle", "orphan"}
    BY <1>1 DEF readDue, Due, store
  <2>2. ~Has("read", run) /\ ~Has("claimed", run)
    BY <2>1 DEF Has
  <2>3. Owing(run) = Up(run) /\ Claimed(run) = 0
    <3>1. Claimed(run) = 0
      BY <2>2 DEF Claimed
    <3> QED BY <1>b, <2>2, <3>1
  <2>4. tick'[t].pc = "read" /\ tick'[t].run = nextRun
    BY <1>0, <1>1 DEF readDue
  <2>5. ~Has("claimed", run)' /\ (Has("read", run)' => run = nextRun)
    BY <1>c, <2>1, <2>4 DEF Has
  <2>6. Claimed(run)' = 0
    BY <2>5 DEF Claimed
  <2>7. Up(run)' = Up(run) /\ (run = nextRun => Up(run) = 1)
    BY <2>1 DEF Up
  <2>8. Owing(run)' = Up(run)
    <3>1. CASE Has("read", run)'
      BY <1>b, <2>5, <2>7, <3>1
    <3>2. CASE ~Has("read", run)'
      <4>1. Owing(run)' = Up(run)' + 0
        BY <1>b, <2>6, <3>2
      <4> QED BY <1>b, <2>7, <4>1
    <3> QED BY <3>1, <3>2
  <2>9. stored'[run] = stored[run] /\ again'[run] = again[run]
    BY <2>1
  <2> QED BY <1>b, <2>3, <2>8, <2>9
<1>2. CASE GiveUp(t)
  <2>1. tick'[t].pc = "orphan"
    BY <1>0, <1>2 DEF GiveUp, TickRow
  <2>2. UNCHANGED <<store, stored, again>>
    BY <1>2 DEF GiveUp
  <2> QED BY <1>d, <2>1, <2>2, Kept, NotUp
<1>3. CASE claim(t)
  <2>0. UNCHANGED <<nextRun, stored, again>>
    BY <1>3 DEF claim
  <2>1. CASE tick' = [tick EXCEPT ![t] = NoTick] /\ (UNCHANGED status \/ status' = "firing")
    <3>1. tick'[t].pc = "idle"
      BY <1>0, <1>e, <2>1
    <3>2. UNCHANGED store \/ status' # "active"
      BY <2>0, <2>1 DEF store
    <3> QED BY <1>d, <2>0, <3>1, <3>2, Kept, NotUp
  <2>2. CASE /\ tick[t].pc = "read" /\ status' = "firing"
             /\ tick' = [tick EXCEPT ![t] = [tick[t] EXCEPT !.pc = "claimed"]]
    <3>1. tick'[t].pc = "claimed" /\ tick'[t].run = tick[t].run
      <4>1. /\ [tick[t] EXCEPT !.pc = "claimed"].pc = "claimed"
            /\ [tick[t] EXCEPT !.pc = "claimed"].run = tick[t].run
        BY <1>0 DEF TickRow
      <4> QED BY <1>0, <2>2, <4>1
    <3>2. \A u \in Ticks : u # t => tick'[u].pc \notin {"read", "claimed"}
      <4>1. \A u \in Ticks : u # t => tick[u].pc \notin Busy
        BY <2>2 DEF IInv, OneTick, Busy
      <4> QED BY <1>c, <4>1 DEF Busy
    <3>3. ~Has("read", run)' /\ (Has("claimed", run)' => run = tick[t].run)
      BY <3>1, <3>2 DEF Has
    <3>4. Up(run)' = 0
      BY <2>2 DEF Up
    <3>5. stored'[run] = stored[run] /\ again'[run] = again[run]
      BY <2>0
    <3>6. Owing(run)' = Claimed(run)'
      <4>1. Owing(run)' = 0 + Claimed(run)'
        BY <1>b, <3>3, <3>4
      <4> QED BY <1>b, <4>1
    <3>7. CASE Has("claimed", run)'
      <4>1. Has("read", run)
        BY <2>2, <3>3, <3>7 DEF Has
      <4>2. Owing(run) = 1
        BY <1>b, <4>1
      <4> QED BY <1>b, <3>5, <3>6, <4>2
    <3>8. CASE ~Has("claimed", run)'
      <4>1. Claimed(run)' = 0
        BY <3>8 DEF Claimed
      <4>2. Owing(run) \in {0, 1, 2}
        BY <1>b
      <4> QED BY <1>b, <3>5, <3>6, <4>1, <4>2
    <3> QED BY <3>7, <3>8
  <2> QED BY <1>3, <2>1, <2>2 DEF claim
<1>4. CASE enqueue(t)
  <2>0. UNCHANGED <<store, again>> /\ tick[t].pc = "claimed"
    BY <1>4 DEF enqueue
  <2>1. tick'[t].pc \notin {"read", "claimed"}
    <3>1. PICK pc \in {"enqueued", "refused"} : tick' = [tick EXCEPT ![t].pc = pc]
      BY <1>4 DEF enqueue
    <3>2. tick'[t].pc = pc
      BY <1>0, <3>1 DEF TickRow
    <3> QED BY <3>2
  <2>2. CASE run # tick[t].run
    <3>1. stored'[run] = stored[run]
      BY <1>0, <1>4, <2>2 DEF enqueue, Recorded, fireID
    <3> QED BY <1>d, <2>0, <2>1, <3>1, Kept, NotUp
  <2>3. CASE run = tick[t].run
    <3>1. stored'[run] \in {stored[run], stored[run] + 1}
      BY <1>0, <1>4, <2>3 DEF enqueue, Recorded, fireID
    <3>2. \A u \in Ticks : u # t => tick[u].pc \notin {"read", "claimed"}
      BY <2>0 DEF IInv, OneTick, Busy
    <3>3. ~Has("read", run) /\ Has("claimed", run)
      BY <2>0, <2>3, <3>2 DEF Has
    <3>4. ~Has("read", run)' /\ ~Has("claimed", run)'
      BY <1>c, <2>1, <3>2 DEF Has
    <3>5. Claimed(run) = 1 /\ Claimed(run)' = 0
      BY <3>3, <3>4 DEF Claimed
    <3>6. Up(run)' = Up(run)
      BY <2>0 DEF Up, store
    <3>7. Owing(run) = Up(run) + 1 /\ Owing(run)' = Up(run) + 0
      BY <1>b, <3>3, <3>4, <3>5, <3>6
    <3>8. again'[run] = again[run]
      BY <2>0
    <3> QED BY <1>b, <3>1, <3>7, <3>8
  <2> QED BY <2>2, <2>3
<1>5. CASE reschedule(t)
  <2>0. stored' = stored /\ tick'[t].pc = "idle"
    BY <1>0, <1>5, <1>e DEF reschedule
  <2>1. CASE Rearmed
    BY <1>a, <1>d, <2>0, <2>1, Kept, Rearms
  <2>2. CASE UNCHANGED again /\ RescheduleTask(None)
    <3>1. CASE UNCHANGED store \/ status' # "active"
      BY <1>d, <2>0, <2>2, <3>1, Kept, NotUp
    <3>2. CASE nextRun' \in NextInstant
      <4>1. CASE run = nextRun'
        <5>1. run > now /\ again'[run] \in Nat
          BY <1>b, <2>2, <3>2, <4>1 DEF NextInstant
        <5> QED BY <1>d, <2>0, <5>1, Coming
      <4>2. CASE run # nextRun'
        <5>1. Up(run)' = 0
          BY <4>2 DEF Up
        <5>2. again'[run] = again[run]
          BY <2>2
        <5>3. again[run] <= again'[run] /\ Up(run)' <= Up(run) + (again'[run] - again[run])
          BY <1>b, <5>1, <5>2
        <5> QED BY <1>b, <1>d, <2>0, <5>2, <5>3, Kept
      <4> QED BY <4>1, <4>2
    <3> QED BY <2>2, <3>1, <3>2 DEF RescheduleTask
  <2>3. CASE UNCHANGED <<store, again>>
    BY <1>d, <2>0, <2>3, Kept, NotUp
  <2> QED BY <1>5, <2>1, <2>2, <2>3 DEF reschedule
<1> QED BY <1>1, <1>2, <1>3, <1>4, <1>5 DEF Fires

\* Everybody else puts a run up by a counted re-arm, or an instant to come.
LEMMA OtherArmed ==
    ASSUME IInv, IInv', ArmedInv,
           Clock \/ fillNextRun \/ Words \/ CrashTimed \/ CrashRoutd \/ RecoverFiringTasks,
           NEW run \in Times
    PROVE  stored'[run] + Owing(run)' <= 1 + again'[run]
<1>0. tick \in [Ticks -> TickRow] /\ nextRun' \in Times \cup {None}
  BY Typed DEF IInv, TypeOK
<1>1. stored' = stored
  BY DEF Clock, fillNextRun, Words, pauseTask, ResumeTask, cancelTask, dashTransition,
         patchWrites, patchReads, CrashTimed, CrashRoutd, RecoverFiringTasks
<1>2. Has("read", run)' => Has("read", run)
  <2>1. \A t \in Ticks : tick'[t].pc = "read" => tick'[t] = tick[t]
    <3>1. CASE UNCHANGED tick
      BY <3>1
    <3>2. CASE CrashRoutd
      BY <3>2 DEF CrashRoutd, NoTick
    <3>3. CASE CrashTimed
      <4>1. \A t \in Ticks : [tick[t] EXCEPT !.pc = "orphan"].pc = "orphan"
        BY <1>0 DEF TickRow
      <4> QED BY <3>3, <4>1 DEF CrashTimed, NoTick
    <3> QED BY <3>1, <3>2, <3>3 DEF Clock, fillNextRun, Words, pauseTask, ResumeTask, cancelTask,
         dashTransition, patchWrites, patchReads, RecoverFiringTasks
  <2> QED BY <2>1 DEF Has
<1>3. Has("claimed", run)' => Has("claimed", run)
  <2>1. \A t \in Ticks : tick'[t].pc = "claimed" => tick'[t] = tick[t]
    <3>1. CASE UNCHANGED tick
      BY <3>1
    <3>2. CASE CrashRoutd
      BY <3>2 DEF CrashRoutd, NoTick
    <3>3. CASE CrashTimed
      <4>1. \A t \in Ticks : [tick[t] EXCEPT !.pc = "orphan"].pc = "orphan"
        BY <1>0 DEF TickRow
      <4> QED BY <3>3, <4>1 DEF CrashTimed, NoTick
    <3> QED BY <3>1, <3>2, <3>3 DEF Clock, fillNextRun, Words, pauseTask, ResumeTask, cancelTask,
         dashTransition, patchWrites, patchReads, RecoverFiringTasks
  <2> QED BY <2>1 DEF Has
<1>4. CASE Rearmed
  BY <1>0, <1>1, <1>2, <1>3, <1>4, Kept, Rearms
<1>5. CASE UNCHANGED again /\ (UNCHANGED store \/ status' # "active")
  BY <1>1, <1>2, <1>3, <1>5, Kept, NotUp
<1>6. CASE fillNextRun
  <2>1. UNCHANGED again
    BY <1>6 DEF fillNextRun
  <2>2. CASE nextRun' \in NextInstant
    <3>0. Up(run) \in {0, 1} /\ again[run] \in Nat
      BY Counts
    <3>1. CASE run = nextRun'
      <4>1. run > now /\ again'[run] \in Nat
        BY <2>1, <2>2, <3>0, <3>1 DEF NextInstant
      <4> QED BY <1>1, <1>2, <1>3, <4>1, Coming
    <3>2. CASE run # nextRun'
      <4>1. Up(run)' = 0
        BY <3>2 DEF Up
      <4>2. again'[run] = again[run]
        BY <2>1
      <4>3. again[run] <= again'[run] /\ Up(run)' <= Up(run) + (again'[run] - again[run])
        BY <3>0, <4>1, <4>2
      <4> QED BY <1>1, <1>2, <1>3, <3>0, <4>2, <4>3, Kept
    <3> QED BY <3>1, <3>2
  <2>3. CASE status' # "active"
    BY <1>5, <2>1, <2>3
  <2> QED BY <1>6, <2>2, <2>3 DEF fillNextRun
<1> QED BY <1>4, <1>5, <1>6 DEF Clock, Words, pauseTask, ResumeTask, cancelTask, dashTransition,
         patchWrites, patchReads, CrashTimed, CrashRoutd, RecoverFiringTasks, store

\* Every step keeps the count.
LEMMA NextArmed ==
    IInv /\ IInv' /\ ArmedInv /\ [Next]_vars => ArmedInv'
<1> SUFFICES ASSUME IInv, IInv', ArmedInv, [Next]_vars PROVE ArmedInv'
  OBVIOUS
<1>1. CASE UNCHANGED vars
  BY <1>1 DEF vars, ArmedInv, Owing, Up, Claimed, Has
<1>2. CASE Next
  <2>1. \A run \in Times : stored'[run] + Owing(run)' <= 1 + again'[run]
    BY <1>2, TickArmed, OtherArmed DEF Next
  <2>2. now \in Nat /\ now' \in Nat /\ now <= now'
    <3>1. now' = now \/ now' = now + 1
      BY <1>2 DEF Next, Fires, readDue, GiveUp, claim, enqueue, reschedule, Clock, fillNextRun,
           Words, pauseTask, ResumeTask, cancelTask, dashTransition, patchWrites, patchReads,
           CrashTimed, CrashRoutd, RecoverFiringTasks
    <3>2. now \in Nat
      BY Typed DEF IInv
    <3> QED BY <3>1, <3>2
  <2>3. ASSUME NEW run \in Times, stored'[run] # 0 PROVE run <= now'
    <3>0. run \in Nat /\ (stored[run] # 0 => run <= now)
      BY Counts DEF ArmedInv
    <3>1. \/ stored'[run] = stored[run]
          \/ \E t \in Ticks : tick[t].pc = "claimed" /\ tick[t].run = run
      <4>1. ASSUME NEW t \in Ticks, enqueue(t)
            PROVE  stored'[run] = stored[run] \/ (tick[t].pc = "claimed" /\ tick[t].run = run)
        <5>1. stored \in [Times -> Nat]
          BY Typed DEF IInv
        <5> QED BY <4>1, <5>1 DEF enqueue, Recorded, fireID
      <4>2. (\A t \in Ticks : ~enqueue(t)) => stored' = stored
        BY <1>2 DEF Next, Fires, readDue, GiveUp, claim, reschedule, Clock, fillNextRun,
           Words, pauseTask, ResumeTask, cancelTask, dashTransition, patchWrites, patchReads,
           CrashTimed, CrashRoutd, RecoverFiringTasks
      <4> QED BY <4>1, <4>2
    <3>2. run <= now
      BY <2>3, <3>0, <3>1 DEF IInv, RunRead
    <3> QED BY <2>2, <3>0, <3>2
  <2> QED BY <2>1, <2>3 DEF ArmedInv
<1> QED BY <1>1, <1>2

\* A run of a task is stored once, and once more at most for each time timed,
\* routd's start-up or the owner puts it up again (fireSplit, DueTasks' claim
\* on the status alone, RescheduleTask's next instant).
THEOREM AsArmed == Spec => []FiredAsArmed
<1>1. Init => ArmedInv
  <2> SUFFICES ASSUME Init, NEW run \in Times
               PROVE  stored[run] + Owing(run) <= 1 + again[run] /\ stored[run] = 0
    BY DEF ArmedInv
  <2>1. stored[run] = 0 /\ again[run] = 0 /\ \A t \in Ticks : tick[t].pc = "idle"
    BY DEF Init, NoTick
  <2>2. Claimed(run) = 0 /\ ~Has("read", run)
    BY <2>1 DEF Claimed, Has
  <2>3. Up(run) \in {0, 1}
    BY DEF Up
  <2>4. Owing(run) = Up(run) + 0
    BY <2>2 DEF Owing
  <2> QED BY <2>1, <2>3, <2>4
<1>2. IInv /\ ArmedInv => FiredAsArmed
  <2> SUFFICES ASSUME IInv, ArmedInv, NEW run \in Times PROVE stored[run] <= 1 + again[run]
    BY DEF FiredAsArmed
  <2>1. /\ Up(run) \in {0, 1} /\ Claimed(run) \in {0, 1}
        /\ Owing(run) = IF Has("read", run) THEN 1 ELSE Up(run) + Claimed(run)
        /\ stored[run] \in Nat /\ again[run] \in Nat
        /\ stored[run] + Owing(run) <= 1 + again[run]
    BY Counts DEF ArmedInv
  <2>2. Owing(run) \in {0, 1, 2}
    BY <2>1
  <2> QED BY <2>1, <2>2
<1> QED BY Invariance, NextArmed, <1>1, <1>2, PTL DEF Spec

-----------------------------------------------------------------------------
\* Without a fault a task in firing is in the hands of a tick, whatever its
\* owner says meanwhile (DueTasks' claim and RescheduleTask).
THEOREM FiringIsHeld == Spec => []FiringHasTick
BY Invariance, PTL DEF IInv

\* A pause is undone by its owner or by routd's start-up, and by no tick
\* (RescheduleTask and the claim are conditional on the status).
THEOREM PauseIsKept == Spec => PauseStands
<1>1. ASSUME IInv, [Next]_vars
      PROVE  [status = "paused" /\ status' # "paused" =>
                restart \/ ops' # ops \/ patch' # patch]_vars
  <2> SUFFICES ASSUME Next, status = "paused", status' # "paused"
               PROVE  restart \/ ops' # ops \/ patch' # patch
    BY <1>1
  <2>0. ops \in 0..MaxOps
    BY <1>1 DEF IInv, TypeOK
  <2>1. ops \in Nat
    BY <2>0, BoundsAssumption
  <2>2. ASSUME Word PROVE ops' # ops
    BY <2>1, <2>2 DEF Word
  <2>3. ASSUME patchWrites PROVE patch' # patch
    <3>1. patch.pc = "read" /\ patch' = NoPatch
      BY <2>3 DEF patchWrites
    <3>2. NoPatch.pc = "none"
      BY DEF NoPatch
    <3> QED BY <3>1, <3>2
  <2>4. ASSUME NEW t \in Ticks, Fires(t) PROVE FALSE
    BY <2>4 DEF Fires, readDue, GiveUp, claim, enqueue, reschedule, RescheduleTask, store
  <2>5. CASE Words
    BY <2>2, <2>3, <2>5 DEF Words, pauseTask, ResumeTask, cancelTask, dashTransition, patchReads
  <2>6. ~Clock /\ ~fillNextRun /\ ~CrashTimed /\ ~CrashRoutd
    BY DEF Clock, fillNextRun, CrashTimed, CrashRoutd, store
  <2>7. CASE RecoverFiringTasks
    BY <2>7 DEF RecoverFiringTasks
  <2> QED BY <2>4, <2>5, <2>6, <2>7 DEF Next
<1> QED BY Invariance, <1>1, PTL DEF Spec, PauseStands
=============================================================================
