----------------------------- MODULE RunManager -----------------------------
(***************************************************************************)
(* runed, the execution plane: the claim-or-reject Manager of              *)
(* runed/manager.go over the spawns and circuit_breaker tables of          *)
(* runed/runstore, and the lifecycle of one KVM guest per agent turn       *)
(* (runed/qemu.go, runed/vmrecord.go) or of one hold (runed/hold.go).      *)
(*                                                                         *)
(* A run is one POST /v1/runs or POST /v1/holds.  Its handler takes one    *)
(* step per store write and per change on the host, since a kill, another  *)
(* request, a dropped connection or a crash may come between any two.      *)
(* admit holds m.mu around its reads and its insert, so it is one step.    *)
(*                                                                         *)
(* Abstractions.  Of a turn's host processes only QEMU is kept, which the  *)
(* reap ends first.  A process sent SIGKILL is gone.  The session log, the *)
(* steer callbacks (no operation reads them) and the audit are left out.   *)
(***************************************************************************)
EXTENDS Integers, FiniteSets

CONSTANTS
    Runs,       \* run ids: each is admitted at most once
    Folders,
    Killers,    \* concurrent DELETE /v1/runs/{id} and POST /v1/runs/stop
    MaxRun,     \* MAX_CONCURRENT_CONTAINERS
    circuitBreakerThreshold,
    NoRun

ASSUME RunsAssumption == IsFiniteSet(Runs) /\ NoRun \notin Runs
ASSUME MaxRunAssumption == MaxRun \in Nat \ {0}
ASSUME ThresholdAssumption == circuitBreakerThreshold \in Nat \ {0}

VARIABLES
    pc,         \* where the run's handler is
    folder, kind,
    row,        \* state of the run's item in spawns
    result,     \* what the executor returned
    dropped,    \* the request's context is cancelled: routd is gone
    record,     \* the VM record on disk
    cid,        \* the slot of the guest, its CID, ports and tap
    guest,      \* a QEMU process of this run is alive
    released,   \* the hold's release channel is closed
    killer,     \* what each kill is at
    streak,     \* consecutive failures of the folder in circuit_breaker
    phase       \* runed itself: down, swept (records reaped), up

hostVars == <<record, cid, guest>>
tableVars == <<row, streak>>
vars == <<pc, folder, kind, result, dropped, released, killer, phase,
          hostVars, tableVars>>

PCs == {"idle", "requested", "admitted", "started", "launching", "booting",
        "guest", "holding", "reaping", "ended", "recorded", "done"}
RowStates == {"absent", "queued", "running", "exited", "error", "killed"}
terminalStates == {"exited", "error", "killed"}

Slots == 1..MaxRun

\* The VM record on disk: none, without or with QEMU's pid.
RecordStates == {"none", "unnamed", "named"}

\* Where a kill is, of which run, and the record as it has read it.
Kills == [at : {"idle", "load", "reap", "row"}, run : Runs \cup {NoRun},
          seen : RecordStates]
NoKill == [at |-> "idle", run |-> NoRun, seen |-> "none"]

\* Where a handler still is at work.
AtWork(r) == pc[r] \notin {"idle", "done"}

-----------------------------------------------------------------------------
Init ==
    /\ pc = [r \in Runs |-> "idle"]
    /\ folder \in [Runs -> Folders]
    /\ kind \in [Runs -> {"agent", "hold"}]
    /\ row = [r \in Runs |-> "absent"]
    /\ result = [r \in Runs |-> "none"]
    /\ dropped = [r \in Runs |-> FALSE]
    /\ record = [r \in Runs |-> "none"]
    /\ cid = [r \in Runs |-> 0]
    /\ guest = [r \in Runs |-> FALSE]
    /\ released = [r \in Runs |-> FALSE]
    /\ killer = [k \in Killers |-> NoKill]
    /\ streak = [f \in Folders |-> 0]
    /\ phase = "up"

-----------------------------------------------------------------------------
\* Faulty: only a run that has started holds its folder.
LiveOnceRunning(r) == row[r] = "running"

\* The run still holds its folder's slot: its state is not terminal.
Live(r) == row[r] \notin terminalStates \cup {"absent"}

LiveSpawnInFolder(f) == {r \in Runs : Live(r) /\ folder[r] = f}
LiveAgentSpawns == {r \in Runs : Live(r) /\ kind[r] = "agent"}

\* Faulty: the bound is one too high.
UnderCapPlusOne == Cardinality(LiveAgentSpawns) <= MaxRun

UnderCap == Cardinality(LiveAgentSpawns) < MaxRun

\* The consecutive failures of a folder, in the circuit_breaker table.
RecordFailure(f) == streak' = [streak EXCEPT ![f] = @ + 1]
ClearFailures(f) == streak' = [streak EXCEPT ![f] = 0]

\* Run: a request arrives, and an agent's resets an open breaker.  Hold does not.
Request(r) ==
    /\ phase = "up" /\ pc[r] = "idle"
    /\ pc' = [pc EXCEPT ![r] = "requested"]
    /\ \/ /\ kind[r] = "agent" /\ streak[folder[r]] >= circuitBreakerThreshold
          /\ ClearFailures(folder[r])
       \/ /\ kind[r] = "hold" \/ streak[folder[r]] < circuitBreakerThreshold
          /\ UNCHANGED streak
    /\ UNCHANGED <<folder, kind, row, result, dropped, hostVars, released,
                   killer, phase>>

\* The connection of an agent's request breaks.  A hold's handler is detached
\* from its request.
DropRequest(r) ==
    /\ AtWork(r) /\ ~dropped[r] /\ kind[r] = "agent"
    /\ dropped' = [dropped EXCEPT ![r] = TRUE]
    /\ UNCHANGED <<pc, folder, kind, result, hostVars, tableVars, released,
                   killer, phase>>

admit(r) ==
    /\ pc[r] = "requested"
    /\ \/ \* busy, or the store call fails on the cancelled context
          /\ \/ dropped[r]
             \/ LiveSpawnInFolder(folder[r]) # {}
             \/ kind[r] = "agent" /\ ~UnderCap
          /\ pc' = [pc EXCEPT ![r] = "done"]
          /\ UNCHANGED row
       \/ /\ ~dropped[r]
          /\ LiveSpawnInFolder(folder[r]) = {}
          /\ kind[r] = "agent" => UnderCap
          /\ row' = [row EXCEPT ![r] = "queued"]
          /\ pc' = [pc EXCEPT ![r] = "admitted"]
    /\ UNCHANGED <<folder, kind, result, dropped, hostVars, released, killer,
                   streak, phase>>

\* The claim is taken if it is still queued; otherwise nothing is launched.
StartSpawn(r) ==
    /\ pc[r] = "admitted"
    /\ \/ /\ ~dropped[r] /\ row[r] = "queued"
          /\ row' = [row EXCEPT ![r] = "running"]
          /\ pc' = [pc EXCEPT ![r] = IF kind[r] = "hold" THEN "holding" ELSE "started"]
       \/ /\ dropped[r] \/ row[r] # "queued"
          /\ pc' = [pc EXCEPT ![r] = "done"]
          /\ UNCHANGED row
    /\ UNCHANGED <<folder, kind, result, dropped, hostVars, released, killer,
                   streak, phase>>

-----------------------------------------------------------------------------
\* The guest of a turn.  liveCIDs reads the records on disk.
liveCIDs == {cid[r] : r \in {q \in Runs : record[q] # "none"}}

\* The window is as wide as the cap: a cap of 5 needs 5 CIDs.
FreeCIDs == Slots \ liveCIDs

ReturnsAs(r, res, next) ==
    /\ result' = [result EXCEPT ![r] = res]
    /\ pc' = [pc EXCEPT ![r] = next]

\* A turn that cannot be rendered, or finds no free CID, ends before its record.
CannotStart(r) ==
    /\ pc[r] = "started"
    /\ ReturnsAs(r, "failed", "ended")
    /\ UNCHANGED <<folder, kind, dropped, hostVars, tableVars, released,
                   killer, phase>>

\* The record, before anything is started.
allocate(r) ==
    /\ pc[r] = "started"
    /\ \E c \in FreeCIDs :
           /\ \A d \in FreeCIDs : c <= d
           /\ cid' = [cid EXCEPT ![r] = c]
    /\ record' = [record EXCEPT ![r] = "unnamed"]
    /\ pc' = [pc EXCEPT ![r] = "launching"]
    /\ UNCHANGED <<folder, kind, result, dropped, guest, tableVars, released,
                   killer, phase>>

\* One of the steps fails: a share, the tap, the proxy, a port, QEMU itself, or
\* the save of QEMU's pid.
LaunchFails(r) ==
    /\ pc[r] \in {"launching", "booting"}
    /\ ReturnsAs(r, "failed", "reaping")
    /\ UNCHANGED <<folder, kind, dropped, hostVars, tableVars, released,
                   killer, phase>>

\* QEMU starts.  Its ports are held by no other turn and its CID by no other
\* guest, or the step before fails.  The saves on the way write the record
\* again if a kill has removed it.
StartQemu(r) ==
    /\ pc[r] = "launching"
    /\ \A q \in Runs \ {r} : cid[q] = cid[r] =>
           ~guest[q] /\ pc[q] \notin {"booting", "guest"}
    /\ guest' = [guest EXCEPT ![r] = TRUE]
    /\ record' = [record EXCEPT ![r] = "unnamed"]
    /\ pc' = [pc EXCEPT ![r] = "booting"]
    /\ UNCHANGED <<folder, kind, result, dropped, cid, tableVars, released,
                   killer, phase>>

\* QEMU's pid is saved in the record.
SaveQemuPid(r) ==
    /\ pc[r] = "booting"
    /\ record' = [record EXCEPT ![r] = "named"]
    /\ pc' = [pc EXCEPT ![r] = "guest"]
    /\ UNCHANGED <<folder, kind, result, dropped, cid, guest, tableVars,
                   released, killer, phase>>

\* The guest's exit frame: its agent is done, and QEMU gone or on its way out.
GuestExits(r) ==
    /\ pc[r] = "guest" /\ guest[r]
    /\ guest' \in {guest, [guest EXCEPT ![r] = FALSE]}
    /\ \E res \in {"ok", "failed"} : ReturnsAs(r, res, "reaping")
    /\ UNCHANGED <<folder, kind, dropped, record, cid, tableVars, released,
                   killer, phase>>

\* A guest without a handler powers off by itself.
OrphanExits(r) ==
    /\ pc[r] = "done" /\ guest[r]
    /\ guest' = [guest EXCEPT ![r] = FALSE]
    /\ UNCHANGED <<pc, folder, kind, result, dropped, record, cid, tableVars,
                   released, killer, phase>>

\* The handler stops waiting for a guest: the deadline has come, or the request
\* is gone, or somebody else has ended QEMU and no exit frame came.
GuestGivenUp(r) ==
    /\ pc[r] = "guest"
    /\ ReturnsAs(r, "failed", "reaping")
    /\ UNCHANGED <<folder, kind, dropped, hostVars, tableVars, released,
                   killer, phase>>

\* Faulty: the record goes and the guest stays.
reapForgets(r, seen) ==
    /\ record' = [record EXCEPT ![r] = "none"]
    /\ UNCHANGED <<guest, cid>>

\* QEMU first if the record, as it was seen, names it; then the record.
reapVM(r, seen) ==
    /\ record' = [record EXCEPT ![r] = "none"]
    /\ guest' = IF seen = "named" THEN [guest EXCEPT ![r] = FALSE] ELSE guest
    /\ UNCHANGED cid

\* Faulty: a staging tree that will not go keeps the record, and its CID.
TeardownKeepsRecord(r) ==
    /\ pc[r] = "reaping"
    /\ guest' = [guest EXCEPT ![r] = FALSE]
    /\ pc' = [pc EXCEPT ![r] = "ended"]
    /\ UNCHANGED <<folder, kind, result, dropped, record, cid, tableVars,
                   released, killer, phase>>

\* The teardown at the end of the turn.  The handler's own copy of the record
\* names QEMU whatever the file says.
Teardown(r) ==
    /\ pc[r] = "reaping"
    /\ record' = [record EXCEPT ![r] = "none"]
    /\ guest' = [guest EXCEPT ![r] = FALSE]
    /\ cid' = [cid EXCEPT ![r] = 0]
    /\ pc' = [pc EXCEPT ![r] = "ended"]
    /\ UNCHANGED <<folder, kind, result, dropped, tableVars, released, killer,
                   phase>>

\* A hold ends by its release or at the deadline.
HoldEnds(r) ==
    /\ pc[r] = "holding"
    /\ \/ released[r] /\ ReturnsAs(r, "ok", "ended")
       \/ ReturnsAs(r, "failed", "ended")
    /\ released' = [released EXCEPT ![r] = FALSE]
    /\ UNCHANGED <<folder, kind, dropped, hostVars, tableVars, killer, phase>>

-----------------------------------------------------------------------------
\* Faulty: the teardown relabels a run an operator has killed.
EndSpawnRelabels(r) ==
    /\ pc[r] = "ended"
    /\ row' = IF dropped[r] THEN row
              ELSE [row EXCEPT ![r] = IF result[r] = "failed" THEN "error" ELSE "exited"]
    /\ pc' = [pc EXCEPT ![r] = "recorded"]
    /\ UNCHANGED <<folder, kind, result, dropped, hostVars, released, killer,
                   streak, phase>>

\* The end is recorded unless the run was killed, or its request is gone: the
\* write runs under the request's context.
EndSpawn(r) ==
    /\ pc[r] = "ended"
    /\ row' = IF dropped[r] \/ row[r] \in {"killed", "absent"} THEN row
              ELSE [row EXCEPT ![r] = IF result[r] = "failed" THEN "error" ELSE "exited"]
    /\ pc' = [pc EXCEPT ![r] = "recorded"]
    /\ UNCHANGED <<folder, kind, result, dropped, hostVars, released, killer,
                   streak, phase>>

\* An agent's failure is counted, its clean end clears the streak.
endRun(r) ==
    /\ pc[r] = "recorded"
    /\ ReturnsAs(r, "none", "done")
    /\ \/ /\ kind[r] = "agent" /\ ~dropped[r] /\ result[r] = "failed"
          /\ RecordFailure(folder[r])
       \/ /\ kind[r] = "agent" /\ ~dropped[r] /\ result[r] # "failed"
          /\ ClearFailures(folder[r])
       \/ /\ kind[r] = "hold" \/ dropped[r]
          /\ UNCHANGED streak
    /\ UNCHANGED <<folder, kind, row, dropped, hostVars, released, killer, phase>>

-----------------------------------------------------------------------------
\* Kill, by run id or, from StopFolder, of the folder's live run.  First the
\* row is read.
KillReads(k, r) ==
    /\ phase = "up" /\ killer[k].at = "idle"
    /\ Live(r)
    /\ killer' = [killer EXCEPT ![k] = [at |-> "load", run |-> r, seen |-> "none"]]
    /\ UNCHANGED <<pc, folder, kind, result, dropped, hostVars, tableVars,
                   released, phase>>

\* Then the executor's Kill: a hold is released, of a guest the record on disk
\* is read, if there is one.
KillLoads(k) ==
    /\ killer[k].at = "load"
    /\ LET r == killer[k].run
           goesTo(at) == killer' = [killer EXCEPT ![k] =
                             [at |-> at, run |-> r, seen |-> record[r]]]
       IN  \/ /\ kind[r] = "hold"
              /\ released' = [released EXCEPT ![r] = TRUE]
              /\ goesTo("row")
           \/ /\ kind[r] = "agent" /\ record[r] = "none"
              /\ goesTo("row")
              /\ UNCHANGED released
           \/ /\ kind[r] = "agent" /\ record[r] # "none"
              /\ goesTo("reap")
              /\ UNCHANGED released
    /\ UNCHANGED <<pc, folder, kind, result, dropped, hostVars, tableVars, phase>>

\* What the record named when it was read is ended, and the record removed.
KillReaps(k) ==
    /\ killer[k].at = "reap"
    /\ reapVM(killer[k].run, killer[k].seen)
    /\ killer' = [killer EXCEPT ![k] =
                      [at |-> "row", run |-> killer[k].run, seen |-> "none"]]
    /\ UNCHANGED <<pc, folder, kind, result, dropped, released, tableVars, phase>>

\* Then the row, if the run is still live.
KillSpawn(k) ==
    /\ killer[k].at = "row"
    /\ LET r == killer[k].run
       IN  row' = IF Live(r) THEN [row EXCEPT ![r] = "killed"] ELSE row
    /\ killer' = [killer EXCEPT ![k] = NoKill]
    /\ UNCHANGED <<pc, folder, kind, result, dropped, hostVars, released,
                   streak, phase>>

\* The killer's own request breaks off before the row is written.
KillDropped(k) ==
    /\ killer[k].at = "row"
    /\ killer' = [killer EXCEPT ![k] = NoKill]
    /\ UNCHANGED <<pc, folder, kind, result, dropped, hostVars, tableVars,
                   released, phase>>

-----------------------------------------------------------------------------
\* runed dies: its handlers and kills are gone, the guests stay.
Crash ==
    /\ phase # "down"
    /\ phase' = "down"
    /\ pc' = [r \in Runs |-> IF AtWork(r) THEN "done" ELSE pc[r]]
    /\ result' = [r \in Runs |-> "none"]
    /\ killer' = [k \in Killers |-> NoKill]
    /\ released' = [r \in Runs |-> FALSE]
    /\ UNCHANGED <<folder, kind, dropped, hostVars, tableVars>>

\* The next runed first reaps every record on disk ...
sweep ==
    /\ phase = "down"
    /\ phase' = "swept"
    /\ guest' = [r \in Runs |-> guest[r] /\ record[r] # "named"]
    /\ record' = [r \in Runs |-> "none"]
    /\ UNCHANGED <<pc, folder, kind, result, dropped, cid, tableVars, released,
                   killer>>

\* Faulty: a claim that had not started is not an orphan.
ExpireOrphansRunning ==
    /\ phase = "swept"
    /\ phase' = "up"
    /\ row' = [r \in Runs |-> IF row[r] = "running" THEN "exited" ELSE row[r]]
    /\ UNCHANGED <<pc, folder, kind, result, dropped, hostVars, streak,
                   released, killer>>

\* ... then ends every spawn that still holds a slot.
ExpireOrphans ==
    /\ phase = "swept"
    /\ phase' = "up"
    /\ row' = [r \in Runs |-> IF Live(r) THEN "exited" ELSE row[r]]
    /\ UNCHANGED <<pc, folder, kind, result, dropped, hostVars, streak,
                   released, killer>>

\* The hourly sweep drops a row past its retention.  The run deadline is far
\* shorter, so the row's handler is over.
DropSpawn(r) ==
    /\ phase = "up" /\ row[r] # "absent" /\ ~AtWork(r)
    /\ row' = [row EXCEPT ![r] = "absent"]
    /\ UNCHANGED <<pc, folder, kind, result, dropped, hostVars, streak,
                   released, killer, phase>>

-----------------------------------------------------------------------------
Handler(r) ==
    \/ admit(r) \/ StartSpawn(r)
    \/ CannotStart(r) \/ allocate(r) \/ LaunchFails(r) \/ StartQemu(r)
    \/ SaveQemuPid(r) \/ GuestExits(r) \/ GuestGivenUp(r) \/ Teardown(r)
    \/ HoldEnds(r) \/ EndSpawn(r) \/ endRun(r)

KillGoesOn(k) == KillLoads(k) \/ KillReaps(k) \/ KillSpawn(k) \/ KillDropped(k)

Step ==
    \/ \E r \in Runs : Request(r) \/ DropRequest(r) \/ Handler(r)
                      \/ OrphanExits(r) \/ DropSpawn(r)
    \/ \E k \in Killers : KillGoesOn(k)
    \/ sweep \/ ExpireOrphans

Next == Step \/ Crash \/ \E k \in Killers, r \in Runs : KillReads(k, r)

Spec == Init /\ [][Next]_vars

\* Kills of a run whose guest is up, and crashes that find every guest named by
\* its record.
NextOrderly ==
    \/ Step
    \/ Crash /\ \A r \in Runs : guest[r] => record[r] = "named"
    \/ \E k \in Killers, r \in Runs : KillReads(k, r) /\ pc[r] \in {"guest", "holding"}

SpecOrderly == Init /\ [][NextOrderly]_vars

\* Handlers and kills make progress: every wait in them has a deadline, the
\* longest being the run's own (RUNED_RUN_TIMEOUT).  runed is restarted, and
\* does not crash in every single start.
Fairness ==
    /\ \A r \in Runs : WF_vars(Handler(r))
    /\ \A k \in Killers : WF_vars(KillGoesOn(k))
    /\ WF_vars(sweep)
    /\ SF_vars(ExpireOrphans)

FairSpec == Spec /\ Fairness

-----------------------------------------------------------------------------
\* Types.  A turn's CID stays in the window, and a kill under way has a run.
TypeOK ==
    /\ pc \in [Runs -> PCs]
    /\ folder \in [Runs -> Folders]
    /\ kind \in [Runs -> {"agent", "hold"}]
    /\ row \in [Runs -> RowStates]
    /\ result \in [Runs -> {"none", "ok", "failed"}]
    /\ dropped \in [Runs -> BOOLEAN]
    /\ record \in [Runs -> RecordStates]
    /\ cid \in [Runs -> Slots \cup {0}]
    /\ guest \in [Runs -> BOOLEAN]
    /\ released \in [Runs -> BOOLEAN]
    /\ killer \in [Killers -> Kills]
    /\ \A k \in Killers : killer[k].at # "idle" => killer[k].run \in Runs
    /\ streak \in [Folders -> Nat]
    /\ phase \in {"down", "swept", "up"}

\* A folder's slot is claimed by at most one run, in every state the crash,
\* the sweeps and the kills leave the table in.
OneClaimPerFolder ==
    \A r, q \in Runs : Live(r) /\ Live(q) /\ folder[r] = folder[q] => r = q

\* The live agent runs never exceed MAX_CONCURRENT_CONTAINERS.
CapRespected == Cardinality(LiveAgentSpawns) <= MaxRun

\* The claims of the spawns table stay within one per folder and the cap.
ClaimsBounded == OneClaimPerFolder /\ CapRespected

\* A live row has a handler that will end it, unless its request was dropped
\* or runed is not up: no other way leads to a slot nobody gives back.
SlotHasHandler ==
    phase = "up" => \A r \in Runs : Live(r) => AtWork(r) \/ dropped[r]

\* A terminal row never changes again but for its removal: no teardown relabels
\* a kill, no start resurrects a killed claim, no kill relabels a finished run.
TerminalIsFinal ==
    [][\A r \in Runs : row[r] \in terminalStates =>
           row'[r] \in {row[r], "absent"}]_vars

\* "A folder runs one guest at a time."
OneGuestPerFolder ==
    \A r, q \in Runs : guest[r] /\ guest[q] /\ folder[r] = folder[q] => r = q

\* A guest is alive only under a live row: the slot is not given away before
\* the guest is gone.
GuestHoldsSlot == \A r \in Runs : guest[r] => Live(r)

\* No admitted turn fails for want of a CID: there is a free one for every turn
\* the cap lets through.
CidForEveryTurn ==
    phase = "up" => \A r \in Runs : pc[r] = "started" => FreeCIDs # {}

\* Every slot is given back, unless the request behind it was dropped.
SlotFreed ==
    \A r \in Runs : Live(r) ~> (~Live(r) \/ dropped[r])
=============================================================================
