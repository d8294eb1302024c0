----------------------------- MODULE GroupQueue -----------------------------
(***************************************************************************)
(* The dispatch queue of routd (queue/queue.go).  A chat with new messages *)
(* is enqueued; the queue starts one worker goroutine (runForGroup) for it *)
(* unless the chat already has one, the folder the chat resolves to is     *)
(* held by another chat, or MaxConcurrent workers are live.  A chat that   *)
(* cannot start is parked and started by the drain that ends some worker.  *)
(*                                                                         *)
(* Every operation holds q.mu from its first to its last access of the     *)
(* state, so each is one action.  The worker's call of processMessages     *)
(* runs outside the mutex: it is the time between the step that starts a   *)
(* worker and its Finish step.                                             *)
(*                                                                         *)
(* Abstractions.  The slice waitingGroups, which never holds a chat twice, *)
(* is the set waitingGroups of its elements with the relation ahead, the   *)
(* pairs <<c, d>> with c in front of d.  The clock of the outage log is    *)
(* the three-valued depDown.  The parked callback (a typing indicator) and *)
(* the log lines are left out.                                             *)
(***************************************************************************)
EXTENDS Integers, FiniteSets

CONSTANTS
    Chats,          \* chat JIDs
    Folders,        \* what folderForJid may answer
    NoFolder,       \* the empty answer: no exclusivity asked for
    NoChat,         \* a folder nobody holds
    MaxConcurrent   \* MAX_CONCURRENT_CONTAINERS

ASSUME ChatsAssumption == IsFiniteSet(Chats) /\ NoChat \notin Chats
ASSUME FoldersAssumption == NoFolder \notin Folders
ASSUME MaxAssumption == MaxConcurrent \in Nat \ {0}

VARIABLES
    active,         \* groups[c].active
    failures,       \* groups[c].consecutiveFailures
    activeCount,
    activeFolders,  \* folder -> the chat that holds it
    waitingGroups,  \* the parked chats
    ahead,          \* their order
    shuttingDown,
    depDown,        \* depDownSince against the clock
    depDownLoud,
    target,         \* what folderForJid answers for the chat now
    workers         \* live runForGroup goroutines, by chat and folder taken

queueVars == <<active, activeCount, activeFolders, waitingGroups, ahead>>
planeVars == <<depDown, depDownLoud>>
vars == <<queueVars, planeVars, failures, shuttingDown, target, workers>>

circuitBreakerThreshold == 3

Keys == Folders \cup {NoFolder}

\* Outcomes of processMessages as runForGroup tells them apart.  "ok" is any
\* nil error, that of a call which asked nothing of the plane included (an empty
\* or all-bot batch, a busy deferral, a route miss).
Outcomes == {"ok", "dependency_down", "failed"}

-----------------------------------------------------------------------------
New ==
    /\ active = [c \in Chats |-> FALSE]
    /\ failures = [c \in Chats |-> 0]
    /\ activeCount = 0
    /\ activeFolders = [f \in Folders |-> NoChat]
    /\ waitingGroups = {}
    /\ ahead = {}
    /\ shuttingDown = FALSE
    /\ depDown = "reachable"
    /\ depDownLoud = FALSE

Init ==
    /\ New
    /\ target \in [Chats -> Keys]
    /\ workers = [c \in Chats |-> [k \in Keys |-> 0]]

-----------------------------------------------------------------------------
\* Shutdown has not been called.
Admitting == ~shuttingDown

\* Faulty: the holder of the folder is not looked at.
FolderNeverBusy(c, holders) == FALSE

\* The folder chat c resolves to is held by some other chat, in holders.
FolderBusy(c, holders) ==
    /\ target[c] # NoFolder
    /\ holders[target[c]] \notin {NoChat, c}

\* activateLocked and the goroutine its callers start, for every chat of S on
\* top of the given active flags, count, folder holders and workers.  The
\* chats of S resolve to different folders.
activateLocked(S, act, count, holders, live) ==
    /\ active' = [c \in Chats |-> act[c] \/ c \in S]
    /\ activeCount' = count + Cardinality(S)
    /\ activeFolders' = [f \in Folders |->
           IF \E c \in S : target[c] = f
           THEN CHOOSE c \in S : target[c] = f
           ELSE holders[f]]
    /\ workers' = [c \in Chats |-> [k \in Keys |->
           IF c \in S /\ k = target[c] THEN live[c][k] + 1 ELSE live[c][k]]]

\* Faulty: a parked chat goes to the front of the slice.
parkInFront(c) ==
    /\ waitingGroups' = waitingGroups \cup {c}
    /\ ahead' = IF c \in waitingGroups THEN ahead
                ELSE ahead \cup ({c} \X waitingGroups)

\* A chat is appended to waitingGroups unless it is there.
park(c) ==
    /\ waitingGroups' = waitingGroups \cup {c}
    /\ ahead' = IF c \in waitingGroups THEN ahead
                ELSE ahead \cup (waitingGroups \X {c})

\* Faulty: a started waiter stays in the slice.
unparkNothing(S) == UNCHANGED <<waitingGroups, ahead>>

unpark(S) ==
    /\ waitingGroups' = waitingGroups \ S
    /\ ahead' = {p \in ahead : p[1] \notin S /\ p[2] \notin S}

-----------------------------------------------------------------------------
\* Faulty: the streak is kept.
KeepStreak(c) == UNCHANGED failures

\* A message for a chat whose breaker is open closes it.
ResetStreak(c) ==
    failures' = [failures EXCEPT ![c] =
                     IF @ >= circuitBreakerThreshold THEN 0 ELSE @]

EnqueueMessageCheck(c) ==
    /\ Admitting
    /\ ResetStreak(c)
    /\ \/ /\ active[c]
          /\ UNCHANGED <<queueVars, workers>>
       \/ /\ ~active[c]
          /\ FolderBusy(c, activeFolders) \/ activeCount >= MaxConcurrent
          /\ park(c)
          /\ UNCHANGED <<active, activeCount, activeFolders, workers>>
       \/ /\ ~active[c]
          /\ ~FolderBusy(c, activeFolders) /\ activeCount < MaxConcurrent
          /\ activateLocked({c}, active, activeCount, activeFolders, workers)
          /\ UNCHANGED <<waitingGroups, ahead>>
    /\ UNCHANGED <<planeVars, shuttingDown, target>>

Shutdown ==
    /\ ~shuttingDown
    /\ shuttingDown' = TRUE
    /\ UNCHANGED <<queueVars, planeVars, failures, target, workers>>

-----------------------------------------------------------------------------
clearDependencyDown ==
    /\ depDown' = "reachable"
    /\ depDownLoud' = FALSE

logDependencyDown ==
    /\ depDown' = IF depDown = "reachable" THEN "grace" ELSE depDown
    /\ depDownLoud' = (depDownLoud \/ depDown = "overdue")

\* The outcome of processMessages is charged to the chat or to the plane.
Charge(c, outcome) ==
    \/ /\ outcome = "ok"
       /\ failures' = [failures EXCEPT ![c] = 0]
       /\ clearDependencyDown
    \/ /\ outcome = "dependency_down"
       /\ UNCHANGED failures
       /\ logDependencyDown
    \/ /\ outcome = "failed"
       /\ failures' = [failures EXCEPT ![c] = @ + 1]
       /\ clearDependencyDown

\* Faulty: the pass takes the waiters in no particular order.
PassesUnordered(picked, count, holders) ==
    LET taken(c) == \/ FolderBusy(c, holders)
                    \/ /\ target[c] # NoFolder
                       /\ \E p \in picked \ {c} : target[p] = target[c]
    IN  /\ count + Cardinality(picked) <= MaxConcurrent
        /\ \A c \in picked : ~taken(c)
        /\ \A c \in waitingGroups \ picked :
               taken(c) \/ count + Cardinality(picked) >= MaxConcurrent

\* The greedy pass of the drain over waitingGroups, from count live workers:
\* picked is what it takes.  It starts a waiter unless the bound is reached or
\* another chat holds the waiter's folder, one it has just started included.
Passes(picked, count, holders) ==
    LET before(c) == {p \in picked : <<p, c>> \in ahead}
        taken(c)  == \/ FolderBusy(c, holders)
                     \/ /\ target[c] # NoFolder
                        /\ \E p \in before(c) : target[p] = target[c]
    IN  /\ count + Cardinality(picked) <= MaxConcurrent
        /\ \A c \in picked : ~taken(c)
        /\ \A c \in waitingGroups \ picked :
               taken(c) \/ count + Cardinality(before(c)) >= MaxConcurrent

drainWaitingLocked(act, count, holders, live) ==
    \E picked \in SUBSET waitingGroups :
        /\ Passes(picked, count, holders)
        /\ unpark(picked)
        /\ activateLocked(picked, act, count, holders, live)

\* What runForGroup deletes: one folder of the chat, if it has any.
Released(c) ==
    LET owned == {f \in Folders : activeFolders[f] = c}
    IN  IF owned = {} THEN {activeFolders}
        ELSE {[activeFolders EXCEPT ![f] = NoChat] : f \in owned}

\* processMessages of a worker of chat c that took key k has returned.
runForGroup(c, k, outcome) ==
    /\ workers[c][k] > 0
    /\ Charge(c, outcome)
    /\ \E holders \in Released(c) :
           LET act  == [active EXCEPT ![c] = FALSE]
               live == [workers EXCEPT ![c][k] = @ - 1]
           IN  \/ /\ Admitting
                  /\ drainWaitingLocked(act, activeCount - 1, holders, live)
               \/ /\ ~Admitting
                  /\ activateLocked({}, act, activeCount - 1, holders, live)
                  /\ UNCHANGED <<waitingGroups, ahead>>
    /\ UNCHANGED <<shuttingDown, target>>

-----------------------------------------------------------------------------
\* The environment.  The chat's batch now resolves to another folder: a new
\* message with another route, an @name prefix, a lapsed engagement.
Reroute(c, k) ==
    /\ target' = [target EXCEPT ![c] = k]
    /\ UNCHANGED <<queueVars, planeVars, failures, shuttingDown, workers>>

\* dependencyDownGrace has passed since the plane was first found unreachable.
GraceElapses ==
    /\ depDown = "grace"
    /\ depDown' = "overdue"
    /\ UNCHANGED <<queueVars, depDownLoud, failures, shuttingDown, target,
                   workers>>

Step ==
    \/ \E c \in Chats : EnqueueMessageCheck(c)
    \/ \E c \in Chats, k \in Keys, o \in Outcomes : runForGroup(c, k, o)
    \/ Shutdown
    \/ GraceElapses

\* A parked chat keeps the folder it was parked for.
Next == Step \/ \E c \in Chats \ waitingGroups, k \in Keys : Reroute(c, k)

\* As in routd: any chat may come to resolve elsewhere, parked or not, and the
\* answer is never empty (folderForJid falls back to the chat itself).
NextRerouted == Step \/ \E c \in Chats, f \in Folders : Reroute(c, f)

Spec == Init /\ [][Next]_vars
SpecRerouted == Init /\ target \in [Chats -> Folders] /\ [][NextRerouted]_vars

\* Every processMessages returns: runs, calls and store accesses time out.
Fairness ==
    \A c \in Chats, k \in Keys :
        WF_vars(\E o \in Outcomes : runForGroup(c, k, o))

FairSpec == Spec /\ Fairness

-----------------------------------------------------------------------------
\* Types.  A chat stands in waitingGroups once: ahead orders the parked chats.
TypeOK ==
    /\ active \in [Chats -> BOOLEAN]
    /\ failures \in [Chats -> Nat]
    /\ activeCount \in Nat
    /\ activeFolders \in [Folders -> Chats \cup {NoChat}]
    /\ waitingGroups \in SUBSET Chats
    /\ ahead \in SUBSET (waitingGroups \X waitingGroups)
    /\ \A c, d \in waitingGroups :
           c # d => (<<c, d>> \in ahead <=> <<d, c>> \notin ahead)
    /\ shuttingDown \in BOOLEAN
    /\ depDown \in {"reachable", "grace", "overdue"}
    /\ depDownLoud \in BOOLEAN
    /\ target \in [Chats -> Keys]
    /\ workers \in [Chats -> [Keys -> Nat]]

Working(c, k) == workers[c][k] > 0

\* "One live turn per group": a chat never has two runForGroup goroutines,
\* whatever mix of enqueues and drains started them.
OneWorkerPerChat ==
    \A c \in Chats : \A k, l \in Keys :
        Working(c, k) /\ Working(c, l) => k = l /\ workers[c][k] = 1

\* Folder exclusivity across chats: two live workers never took one folder.
FolderExclusive ==
    \A f \in Folders : \A c, d \in Chats :
        Working(c, f) /\ Working(d, f) => c = d /\ workers[c][f] = 1

\* activeCount, which the bound is checked against, is the number of chats
\* with a live worker, and never passes the bound: the increments of
\* activateLocked and the decrements of runForGroup stay paired.
SlotsAccounted ==
    /\ activeCount = Cardinality({c \in Chats : \E k \in Keys : Working(c, k)})
    /\ activeCount <= MaxConcurrent

\* One live turn per chat and per folder, and the count the bound is checked
\* against is that of the live turns.
Exclusion == OneWorkerPerChat /\ FolderExclusive /\ SlotsAccounted

\* No lost wakeup: while the queue admits work, every parked chat still waits
\* for something a live worker will give back.  Nothing but a worker's end
\* drains, so a startable waiter would sleep until some unrelated run ends.
NoLostWakeup ==
    ~shuttingDown => \A c \in waitingGroups :
        activeCount >= MaxConcurrent \/ FolderBusy(c, activeFolders)

\* A breaker that opened is closed before the chat runs again: EnqueueMessageCheck
\* is the only place that closes it, and a drain starts a chat without looking,
\* so no worker and no parked chat may have an open breaker, whatever failures,
\* outages and parkings came before, and the streak stops at the threshold.
BreakerClosedOnDispatch ==
    \A c \in Chats :
        /\ failures[c] <= circuitBreakerThreshold
        /\ active[c] \/ c \in waitingGroups => failures[c] < circuitBreakerThreshold

\* The drain never starts a waiter past one in front of it that could have
\* started instead: whom it passes over is held up by a folder, and not by one
\* that the same drain gave to a waiter behind it.
NoOvertaking ==
    [][\A c, d \in waitingGroups :
          <<c, d>> \in ahead /\ d \notin waitingGroups' /\ c \in waitingGroups'
              => /\ FolderBusy(c, activeFolders')
                 /\ <<c, activeFolders'[target[c]]>> \notin ahead]_vars

\* A parked chat is started, unless the process shuts down first.
ParkedChatStarts ==
    \A c \in Chats : c \in waitingGroups ~> (active[c] \/ shuttingDown)
=============================================================================
