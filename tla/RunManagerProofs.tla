-------------------------- MODULE RunManagerProofs --------------------------
(***************************************************************************)
(* Safety of the run manager for every set of runs, folders and kills and  *)
(* every cap.  Claims, the first inductive invariant, is about the spawns  *)
(* table alone and holds however kills, dropped requests, crashes and      *)
(* sweeps interleave.  Guests, the second, ties the table to the QEMU      *)
(* processes of the host and holds of SpecOrderly only.                    *)
(***************************************************************************)
EXTENDS RunManager, FiniteSetTheorems, TLAPS

\* Between the claim taken and its end recorded.
Executing == {"started", "launching", "booting", "guest", "holding", "reaping", "ended"}

\* What the place of a handler says about its row.  runed has handlers only
\* while it is up, so ExpireOrphans meets no row of theirs.
RowFollowsHandler ==
    \A r \in Runs :
        /\ phase # "up" => ~AtWork(r)
        /\ pc[r] \in {"idle", "requested"} => row[r] = "absent"
        /\ pc[r] = "admitted" => row[r] # "running"
        /\ pc[r] \in Executing => row[r] \in {"running", "killed"}
        /\ pc[r] = "recorded" => ~Live(r) \/ dropped[r]

Claims ==
    /\ TypeOK
    /\ OneClaimPerFolder
    /\ CapRespected
    /\ RowFollowsHandler
    /\ SlotHasHandler

-----------------------------------------------------------------------------
\* The agents among the runs are finitely many.
LEMMA AgentsFinite ==
    /\ IsFiniteSet(LiveAgentSpawns)
    /\ Cardinality(LiveAgentSpawns) \in Nat
BY RunsAssumption, FS_Subset, FS_CardinalityType DEF LiveAgentSpawns

\* A step that adds no live agent respects the cap.
LEMMA FewerAgents ==
    ASSUME CapRespected, LiveAgentSpawns' \subseteq LiveAgentSpawns
    PROVE  CapRespected'
<1>1. IsFiniteSet(LiveAgentSpawns') /\ Cardinality(LiveAgentSpawns') <= Cardinality(LiveAgentSpawns)
  BY AgentsFinite, FS_Subset
<1>2. Cardinality(LiveAgentSpawns') \in Nat
  BY <1>1, FS_CardinalityType
<1> QED
  BY <1>1, <1>2, AgentsFinite, MaxRunAssumption DEF CapRespected

\* A step that adds one live agent below the cap respects it.
LEMMA OneMoreAgent ==
    ASSUME UnderCap, NEW r, LiveAgentSpawns' \subseteq LiveAgentSpawns \cup {r}
    PROVE  CapRespected'
<1> DEFINE S == LiveAgentSpawns
<1>1. IsFiniteSet(S \cup {r}) /\ Cardinality(S \cup {r}) <= Cardinality(S) + 1
  <2>1. Cardinality(S \cup {r}) = IF r \in S THEN Cardinality(S) ELSE Cardinality(S) + 1
    BY AgentsFinite, FS_AddElement
  <2> QED BY <2>1, AgentsFinite, FS_AddElement
<1>2. Cardinality(LiveAgentSpawns') <= Cardinality(S \cup {r})
  BY <1>1, FS_Subset
<1>3. Cardinality(LiveAgentSpawns') \in Nat /\ Cardinality(S \cup {r}) \in Nat
  BY <1>1, FS_Subset, FS_CardinalityType
<1> HIDE DEF S
<1> QED
  BY <1>1, <1>2, <1>3, AgentsFinite, MaxRunAssumption DEF CapRespected, UnderCap, S

-----------------------------------------------------------------------------
\* runed starts with an empty table and no handlers.
LEMMA InitClaims == Init => Claims
<1> SUFFICES ASSUME Init PROVE Claims
  OBVIOUS
<1>1. TypeOK
  BY DEF Init, TypeOK, PCs, RowStates, RecordStates, Kills, NoKill, Slots
<1>2. OneClaimPerFolder /\ RowFollowsHandler /\ SlotHasHandler
  BY DEF Init, OneClaimPerFolder, RowFollowsHandler, Executing, AtWork, SlotHasHandler, Live
<1>3. CapRespected
  <2>1. LiveAgentSpawns = {}
    BY DEF Init, LiveAgentSpawns, Live
  <2> QED BY <2>1, FS_EmptySet, MaxRunAssumption DEF CapRespected
<1> QED
  BY <1>1, <1>2, <1>3 DEF Claims

\* Every step keeps the types.
LEMMA StepTypes == TypeOK /\ [Next]_vars => TypeOK'
<1> SUFFICES ASSUME TypeOK, [Next]_vars PROVE TypeOK'
  OBVIOUS
<1> USE DEF TypeOK, PCs, RowStates, RecordStates, Kills, NoKill, hostVars, tableVars
<1>1. ASSUME NEW r \in Runs, Request(r) PROVE TypeOK'
  BY <1>1, ThresholdAssumption DEF Request, ClearFailures
<1>2. ASSUME NEW r \in Runs, DropRequest(r) PROVE TypeOK'
  BY <1>2 DEF DropRequest
<1>3. ASSUME NEW r \in Runs, admit(r) PROVE TypeOK'
  BY <1>3 DEF admit
<1>4. ASSUME NEW r \in Runs, StartSpawn(r) PROVE TypeOK'
  BY <1>4 DEF StartSpawn
<1>5. ASSUME NEW r \in Runs, CannotStart(r) \/ LaunchFails(r) \/ GuestGivenUp(r) PROVE TypeOK'
  BY <1>5 DEF CannotStart, LaunchFails, GuestGivenUp, ReturnsAs
<1>6. ASSUME NEW r \in Runs, allocate(r) PROVE TypeOK'
  BY <1>6 DEF allocate, FreeCIDs
<1>7. ASSUME NEW r \in Runs, StartQemu(r) \/ SaveQemuPid(r) PROVE TypeOK'
  BY <1>7 DEF StartQemu, SaveQemuPid
<1>8. ASSUME NEW r \in Runs, GuestExits(r) \/ OrphanExits(r) PROVE TypeOK'
  <2>1. guest' \in [Runs -> BOOLEAN]
    BY <1>8 DEF GuestExits, OrphanExits
  <2> QED BY <1>8, <2>1 DEF GuestExits, OrphanExits, ReturnsAs
<1>9. ASSUME NEW r \in Runs, Teardown(r) PROVE TypeOK'
  BY <1>9 DEF Teardown
<1>10. ASSUME NEW r \in Runs, HoldEnds(r) PROVE TypeOK'
  BY <1>10 DEF HoldEnds, ReturnsAs
<1>11. ASSUME NEW r \in Runs, EndSpawn(r) PROVE TypeOK'
  BY <1>11 DEF EndSpawn
<1>12. ASSUME NEW r \in Runs, endRun(r) PROVE TypeOK'
  BY <1>12 DEF endRun, ReturnsAs, RecordFailure, ClearFailures
<1>13. ASSUME NEW r \in Runs, DropSpawn(r) PROVE TypeOK'
  BY <1>13 DEF DropSpawn
<1>14. ASSUME NEW k \in Killers, NEW r \in Runs, KillReads(k, r) PROVE TypeOK'
  BY <1>14 DEF KillReads
<1>15. ASSUME NEW k \in Killers, KillLoads(k) \/ KillReaps(k) PROVE TypeOK'
  <2> DEFINE r == killer[k].run
  <2>1. r \in Runs
    BY <1>15 DEF KillLoads, KillReaps
  <2>2. /\ guest' \in {guest, [guest EXCEPT ![r] = FALSE]}
        /\ record' \in {record, [record EXCEPT ![r] = "none"]}
        /\ released' \in {released, [released EXCEPT ![r] = TRUE]}
        /\ UNCHANGED <<pc, folder, kind, result, dropped, cid, row, streak, phase>>
    BY <1>15 DEF KillLoads, KillReaps, reapVM
  <2>3. \E at \in {"reap", "row"}, seen \in RecordStates :
            killer' = [killer EXCEPT ![k] = [at |-> at, run |-> r, seen |-> seen]]
    <3>1. CASE KillLoads(k)
      BY <3>1 DEF KillLoads
    <3>2. CASE KillReaps(k)
      BY <3>2 DEF KillReaps, Kills, RecordStates
    <3> QED BY <1>15, <3>1, <3>2
  <2> HIDE DEF r
  <2>4. guest' \in [Runs -> BOOLEAN] /\ released' \in [Runs -> BOOLEAN]
    BY <2>1, <2>2
  <2>5. /\ killer' \in [Killers -> Kills]
        /\ \A j \in Killers : killer'[j].at # "idle" => killer'[j].run \in Runs
    BY <2>1, <2>3 DEF Kills
  <2> QED BY <2>1, <2>2, <2>4, <2>5
<1>16. ASSUME NEW k \in Killers, KillSpawn(k) \/ KillDropped(k) PROVE TypeOK'
  BY <1>16 DEF KillSpawn, KillDropped, Live
<1>17. CASE Crash
  BY <1>17 DEF Crash
<1>18. CASE sweep
  BY <1>18 DEF sweep
<1>19. CASE ExpireOrphans
  BY <1>19 DEF ExpireOrphans
<1>20. CASE UNCHANGED vars
  BY <1>20 DEF vars
<1> QED
  BY <1>1, <1>2, <1>3, <1>4, <1>5, <1>6, <1>7, <1>8, <1>9, <1>10, <1>11, <1>12,
     <1>13, <1>14, <1>15, <1>16, <1>17, <1>18, <1>19, <1>20
  DEF Next, Step, Handler, KillGoesOn

-----------------------------------------------------------------------------
\* Only admit makes a claim: a step under which no run becomes live keeps the
\* claims exclusive and below the cap.
LEMMA NoNewClaim ==
    ASSUME OneClaimPerFolder, CapRespected, UNCHANGED <<folder, kind>>,
           \A r \in Runs : Live(r)' => Live(r)
    PROVE  OneClaimPerFolder' /\ CapRespected'
<1>1. OneClaimPerFolder'
  BY DEF OneClaimPerFolder
<1>2. CapRespected'
  <2>1. LiveAgentSpawns' \subseteq LiveAgentSpawns
    BY DEF LiveAgentSpawns
  <2> QED BY <2>1, FewerAgents
<1> QED BY <1>1, <1>2

\* admit claims a folder nobody holds.
LEMMA AdmitClaims ==
    ASSUME Claims, NEW r \in Runs, admit(r)
    PROVE  OneClaimPerFolder' /\ CapRespected'
<1> USE DEF Claims
<1>1. CASE UNCHANGED row
  BY <1>1, NoNewClaim DEF admit, Live
<1>2. CASE /\ LiveSpawnInFolder(folder[r]) = {}
           /\ kind[r] = "agent" => UnderCap
           /\ row' = [row EXCEPT ![r] = "queued"]
  <2>1. UNCHANGED <<folder, kind>> /\ \A q \in Runs \ {r} : Live(q)' <=> Live(q)
    BY <1>2 DEF admit, Live, TypeOK
  <2>2. OneClaimPerFolder'
    BY <1>2, <2>1 DEF OneClaimPerFolder, LiveSpawnInFolder
  <2>3. CapRespected'
    <3>1. CASE kind[r] = "agent"
      <4>1. LiveAgentSpawns' \subseteq LiveAgentSpawns \cup {r}
        BY <2>1 DEF LiveAgentSpawns
      <4> QED BY <1>2, <3>1, <4>1, OneMoreAgent
    <3>2. CASE kind[r] # "agent"
      <4>1. LiveAgentSpawns' \subseteq LiveAgentSpawns
        BY <2>1, <3>2 DEF LiveAgentSpawns
      <4> QED BY <4>1, FewerAgents
    <3> QED BY <3>1, <3>2
  <2> QED BY <2>2, <2>3
<1> QED
  BY <1>1, <1>2 DEF admit

\* A step of a handler that leaves the table alone and is not its last.
LEMMA TableUntouched ==
    ASSUME Claims, NEW r \in Runs, NEW p,
           pc[r] \in Executing, p \in Executing,
           pc' = [pc EXCEPT ![r] = p],
           UNCHANGED <<row, folder, kind, dropped, phase>>
    PROVE  /\ OneClaimPerFolder' /\ CapRespected'
           /\ RowFollowsHandler' /\ SlotHasHandler'
<1>1. \A q \in Runs : Live(q)' <=> Live(q)
  BY DEF Live
<1>2. OneClaimPerFolder' /\ CapRespected'
  BY <1>1, NoNewClaim DEF Claims
<1>3. RowFollowsHandler'
  BY <1>1 DEF Claims, TypeOK, RowFollowsHandler, Executing, AtWork
<1>4. SlotHasHandler'
  BY <1>1 DEF Claims, TypeOK, Executing, SlotHasHandler, AtWork
<1> QED BY <1>2, <1>3, <1>4

\* Every step of runed keeps the table's claims.
LEMMA NextClaims == Claims /\ [Next]_vars => Claims'
<1> SUFFICES ASSUME Claims, [Next]_vars
             PROVE  /\ OneClaimPerFolder' /\ CapRespected'
                    /\ RowFollowsHandler' /\ SlotHasHandler'
  BY StepTypes DEF Claims
<1> DEFINE Goal == /\ OneClaimPerFolder' /\ CapRespected'
                   /\ RowFollowsHandler' /\ SlotHasHandler'
<1>1. ASSUME NEW r \in Runs, Request(r) PROVE Goal
  <2>1. \A q \in Runs : Live(q)' <=> Live(q)
    BY <1>1 DEF Request, Live
  <2>2. OneClaimPerFolder' /\ CapRespected'
    BY <1>1, <2>1, NoNewClaim DEF Claims, Request
  <2>3. RowFollowsHandler' /\ SlotHasHandler'
    BY <1>1, <2>1 DEF Claims, TypeOK, Request, RowFollowsHandler, Executing, SlotHasHandler, AtWork
  <2> QED BY <2>2, <2>3
<1>2. ASSUME NEW r \in Runs, DropRequest(r) PROVE Goal
  <2>1. \A q \in Runs : (Live(q)' <=> Live(q)) /\ (AtWork(q)' <=> AtWork(q))
    BY <1>2 DEF DropRequest, tableVars, Live, AtWork
  <2>2. OneClaimPerFolder' /\ CapRespected'
    BY <1>2, <2>1, NoNewClaim DEF Claims, DropRequest
  <2>3. RowFollowsHandler' /\ SlotHasHandler'
    BY <1>2, <2>1 DEF Claims, TypeOK, DropRequest, tableVars, RowFollowsHandler, Executing, AtWork, SlotHasHandler
  <2> QED BY <2>2, <2>3
<1>3. ASSUME NEW r \in Runs, admit(r) PROVE Goal
  <2>1. RowFollowsHandler' /\ SlotHasHandler'
    BY <1>3 DEF Claims, TypeOK, admit, RowFollowsHandler, Executing, SlotHasHandler, AtWork, Live, terminalStates
  <2> QED BY <1>3, <2>1, AdmitClaims
<1>4. ASSUME NEW r \in Runs, StartSpawn(r) PROVE Goal
  <2>1. \A q \in Runs : Live(q)' <=> Live(q)
    BY <1>4 DEF Claims, TypeOK, StartSpawn, Live, terminalStates
  <2>2. OneClaimPerFolder' /\ CapRespected'
    BY <1>4, <2>1, NoNewClaim DEF Claims, StartSpawn
  <2>3. RowFollowsHandler'
    BY <1>4 DEF Claims, TypeOK, StartSpawn, RowFollowsHandler, Executing, AtWork, Live
  <2>4. SlotHasHandler'
    BY <1>4 DEF Claims, TypeOK, RowStates, StartSpawn, RowFollowsHandler, Executing, SlotHasHandler, AtWork, Live, terminalStates
  <2> QED BY <2>2, <2>3, <2>4
<1>5. ASSUME NEW r \in Runs,
             \/ CannotStart(r) \/ LaunchFails(r) \/ GuestGivenUp(r) \/ allocate(r)
             \/ StartQemu(r) \/ SaveQemuPid(r) \/ GuestExits(r) \/ Teardown(r)
             \/ HoldEnds(r)
      PROVE Goal
  <2>1. UNCHANGED <<row, folder, kind, dropped, phase>> /\ pc[r] \in Executing
    BY <1>5 DEF CannotStart, LaunchFails, GuestGivenUp, allocate, StartQemu, SaveQemuPid,
                GuestExits, Teardown, HoldEnds, tableVars, Executing
  <2>2. PICK p \in Executing : pc' = [pc EXCEPT ![r] = p]
    BY <1>5 DEF CannotStart, LaunchFails, GuestGivenUp, allocate, StartQemu, SaveQemuPid,
                GuestExits, Teardown, HoldEnds, ReturnsAs, Executing
  <2> QED BY <2>1, <2>2, TableUntouched
<1>6. ASSUME NEW r \in Runs, OrphanExits(r) PROVE Goal
  <2>1. UNCHANGED <<row, folder, kind, pc, dropped, phase>>
    BY <1>6 DEF OrphanExits, tableVars
  <2> QED BY <2>1, NoNewClaim DEF Claims, RowFollowsHandler, Executing, SlotHasHandler, Live, AtWork
<1>7. ASSUME NEW r \in Runs, EndSpawn(r) PROVE Goal
  <2>1. UNCHANGED <<folder, kind, dropped, phase>> /\ \A q \in Runs : Live(q)' => Live(q)
    BY <1>7 DEF Claims, TypeOK, RowStates, EndSpawn, Live, terminalStates
  <2>2. OneClaimPerFolder' /\ CapRespected'
    BY <2>1, NoNewClaim DEF Claims
  <2>3. RowFollowsHandler'
    BY <1>7 DEF Claims, TypeOK, RowStates, EndSpawn, RowFollowsHandler, Executing, AtWork, Live, terminalStates
  <2>4. SlotHasHandler'
    BY <1>7, <2>1 DEF Claims, TypeOK, EndSpawn, SlotHasHandler, AtWork
  <2> QED BY <2>2, <2>3, <2>4
<1>8. ASSUME NEW r \in Runs, endRun(r) PROVE Goal
  <2>1. UNCHANGED <<row, folder, kind, dropped, phase>> /\ \A q \in Runs : Live(q)' <=> Live(q)
    BY <1>8 DEF endRun, Live
  <2>2. OneClaimPerFolder' /\ CapRespected'
    BY <2>1, NoNewClaim DEF Claims
  <2>3. RowFollowsHandler' /\ SlotHasHandler'
    BY <1>8, <2>1 DEF Claims, TypeOK, endRun, ReturnsAs, RowFollowsHandler, Executing, SlotHasHandler, AtWork
  <2> QED BY <2>2, <2>3
<1>9. ASSUME NEW r \in Runs, DropSpawn(r) PROVE Goal
  <2>1. UNCHANGED <<pc, folder, kind, dropped, phase>> /\ \A q \in Runs : Live(q)' => Live(q)
    BY <1>9 DEF Claims, TypeOK, DropSpawn, Live
  <2>2. OneClaimPerFolder' /\ CapRespected'
    BY <2>1, NoNewClaim DEF Claims
  <2>3. RowFollowsHandler' /\ SlotHasHandler'
    BY <1>9, <2>1 DEF Claims, TypeOK, DropSpawn, RowFollowsHandler, Executing, SlotHasHandler, AtWork
  <2> QED BY <2>2, <2>3
<1>10. ASSUME NEW k \in Killers, NEW r \in Runs, KillReads(k, r) PROVE Goal
  <2>1. UNCHANGED <<row, folder, kind, pc, dropped, phase>>
    BY <1>10 DEF KillReads, tableVars
  <2> QED BY <2>1, NoNewClaim DEF Claims, RowFollowsHandler, Executing, SlotHasHandler, Live, AtWork
<1>11. ASSUME NEW k \in Killers, KillLoads(k) \/ KillReaps(k) \/ KillDropped(k) PROVE Goal
  <2>1. UNCHANGED <<row, folder, kind, pc, dropped, phase>>
    BY <1>11 DEF KillLoads, KillReaps, KillDropped, tableVars
  <2> QED BY <2>1, NoNewClaim DEF Claims, RowFollowsHandler, Executing, SlotHasHandler, Live, AtWork
<1>12. ASSUME NEW k \in Killers, KillSpawn(k) PROVE Goal
  <2>1. /\ UNCHANGED <<pc, folder, kind, dropped, phase>>
        /\ \A q \in Runs : row'[q] = row[q] \/ (Live(q) /\ row'[q] = "killed")
    BY <1>12 DEF Claims, TypeOK, KillSpawn
  <2>2. \A q \in Runs : Live(q)' => Live(q)
    BY <2>1 DEF Live, terminalStates
  <2>3. OneClaimPerFolder' /\ CapRespected'
    BY <2>1, <2>2, NoNewClaim DEF Claims
  <2>4. RowFollowsHandler'
    BY <2>1, <2>2 DEF Claims, TypeOK, RowFollowsHandler, Executing, AtWork, Live
  <2>5. SlotHasHandler'
    BY <2>1, <2>2 DEF Claims, SlotHasHandler, AtWork
  <2> QED BY <2>3, <2>4, <2>5
<1>13. CASE Crash
  <2>1. UNCHANGED <<row, folder, kind, dropped>> /\ phase' = "down"
    BY <1>13 DEF Crash, tableVars
  <2>2. \A r \in Runs : pc'[r] = "done" \/ (pc'[r] = pc[r] /\ pc[r] \in {"idle", "done"})
    BY <1>13 DEF Crash, AtWork
  <2>3. RowFollowsHandler' /\ SlotHasHandler'
    BY <2>1, <2>2 DEF Claims, RowFollowsHandler, Executing, AtWork, SlotHasHandler
  <2> QED BY <2>1, <2>3, NoNewClaim DEF Claims, Live
<1>14. CASE sweep
  <2>1. UNCHANGED <<row, folder, kind, pc, dropped>> /\ phase = "down" /\ phase' = "swept"
    BY <1>14 DEF sweep, tableVars
  <2> QED BY <2>1, NoNewClaim DEF Claims, RowFollowsHandler, Executing, AtWork, SlotHasHandler, Live
<1>15. CASE ExpireOrphans
  <2>1. /\ UNCHANGED <<pc, folder, kind, dropped>> /\ phase = "swept" /\ phase' = "up"
        /\ \A q \in Runs : row'[q] = IF Live(q) THEN "exited" ELSE row[q]
    BY <1>15 DEF ExpireOrphans
  <2>2. \A q \in Runs : ~Live(q)'
    BY <2>1 DEF Live, terminalStates
  <2>3. RowFollowsHandler' /\ SlotHasHandler'
    BY <2>1, <2>2 DEF Claims, RowFollowsHandler, Executing, AtWork, SlotHasHandler, Live
  <2> QED BY <2>1, <2>2, <2>3, NoNewClaim DEF Claims
<1>16. CASE UNCHANGED vars
  <2>1. UNCHANGED <<row, folder, kind, pc, dropped, phase>>
    BY <1>16 DEF vars, tableVars
  <2> QED BY <2>1, NoNewClaim DEF Claims, RowFollowsHandler, Executing, SlotHasHandler, Live, AtWork
<1> QED
  BY <1>1, <1>2, <1>3, <1>4, <1>5, <1>6, <1>7, <1>8, <1>9, <1>10, <1>11, <1>12,
     <1>13, <1>14, <1>15, <1>16
  DEF Next, Step, Handler, KillGoesOn

\* Types, one claim per folder, the cap, and a handler for every slot, in every
\* reachable state of runed.
THEOREM ClaimsInvariant == Spec => []Claims
<1>1. Init => Claims
  BY InitClaims
<1>2. Claims /\ [Next]_vars => Claims'
  BY NextClaims
<1> QED
  BY <1>1, <1>2, PTL DEF Spec

\* Every variable of the model keeps its type, the CID its window included.
THEOREM TypeCorrect == Spec => []TypeOK
<1>1. Claims => TypeOK
  BY DEF Claims
<1> QED
  BY <1>1, ClaimsInvariant, PTL

\* However requests, kills, crashes and sweeps interleave, a folder is claimed
\* by at most one run, and the live agent runs stay within the cap.
THEOREM Bounded == Spec => []ClaimsBounded
<1>1. Claims => ClaimsBounded
  BY DEF Claims, ClaimsBounded
<1> QED
  BY ClaimsInvariant, <1>1, PTL

\* While runed is up only a dropped request leaves a slot without a handler.
THEOREM Handled == Spec => []SlotHasHandler
<1>1. Claims => SlotHasHandler
  BY DEF Claims
<1> QED
  BY <1>1, ClaimsInvariant, PTL

-----------------------------------------------------------------------------
\* A terminal row stays as it is until the retention sweep removes it.
THEOREM Final == Spec => TerminalIsFinal
<1> DEFINE Kept == \A r \in Runs : row[r] \in terminalStates =>
                       row'[r] \in {row[r], "absent"}
<1>1. ASSUME Claims, [Next]_vars PROVE Kept
  <2>1. CASE UNCHANGED row
    BY <2>1
  <2>2. ASSUME NEW r \in Runs, admit(r) PROVE Kept
    BY <1>1, <2>2 DEF Claims, TypeOK, RowFollowsHandler, admit, terminalStates
  <2>3. ASSUME NEW r \in Runs, StartSpawn(r) PROVE Kept
    BY <1>1, <2>3 DEF Claims, TypeOK, StartSpawn, terminalStates
  <2>4. ASSUME NEW r \in Runs, EndSpawn(r) PROVE Kept
    BY <1>1, <2>4 DEF Claims, TypeOK, RowFollowsHandler, Executing, EndSpawn, terminalStates
  <2>5. ASSUME NEW k \in Killers, KillSpawn(k) PROVE Kept
    BY <1>1, <2>5 DEF Claims, TypeOK, KillSpawn, Live
  <2>6. CASE ExpireOrphans
    BY <2>6 DEF ExpireOrphans, Live
  <2>7. ASSUME NEW r \in Runs, DropSpawn(r) PROVE Kept
    BY <1>1, <2>7 DEF Claims, TypeOK, DropSpawn
  <2> QED
    BY <1>1, <2>1, <2>2, <2>3, <2>4, <2>5, <2>6, <2>7
    DEF Next, Step, Handler, KillGoesOn, vars, tableVars, Request, DropRequest, CannotStart,
        allocate, LaunchFails, StartQemu, SaveQemuPid, GuestExits, GuestGivenUp, Teardown,
        HoldEnds, endRun, OrphanExits, KillReads, KillLoads, KillReaps, KillDropped,
        Crash, sweep
<1>2. Claims /\ [Next]_vars => [Kept]_vars
  BY <1>1
<1> QED
  BY <1>2, ClaimsInvariant, PTL DEF Spec, TerminalIsFinal
-----------------------------------------------------------------------------
\* The handlers of guests, which a hold never has.
WithGuest == {"started", "launching", "booting", "guest", "reaping"}

\* The host and the table, when kills come late and crashes find guests named.
GuestsOfRuns ==
    \A r \in Runs :
        /\ guest[r] => Live(r)
        /\ pc[r] \in WithGuest => kind[r] = "agent"
        /\ pc[r] = "holding" => kind[r] = "hold"
        /\ pc[r] \in {"started", "launching", "booting"} => row[r] = "running"
        /\ kind[r] = "hold" => ~guest[r] /\ record[r] = "none"
        /\ guest[r] => pc[r] \in {"booting", "guest", "reaping"} \/ phase = "down"
        /\ guest[r] /\ phase = "down" => record[r] = "named"
        /\ pc[r] = "guest" => record[r] # "unnamed"
        /\ guest[r] => record[r] # "none"

\* A kill under way is of a run that starts nothing any more.
KillsOfRuns ==
    \A k \in Killers : killer[k].at # "idle" =>
        /\ pc[killer[k].run] \in {"guest", "holding", "reaping", "ended", "recorded", "done"}
        /\ record[killer[k].run] # "unnamed"
        /\ phase = "up"
        /\ killer[k].at = "reap" => killer[k].seen = "named"
        /\ killer[k].at = "row" => ~guest[killer[k].run]

Guests == Claims /\ GuestsOfRuns /\ KillsOfRuns

\* ... and with no guest on the host.
LEMMA InitGuests == Init => Guests
BY InitClaims DEF Init, Guests, GuestsOfRuns, KillsOfRuns, WithGuest, NoKill

\* Every orderly step keeps guests tied to their rows and records.
LEMMA NextGuests == Guests /\ [NextOrderly]_vars => Guests'
<1> SUFFICES ASSUME Guests, [NextOrderly]_vars PROVE GuestsOfRuns' /\ KillsOfRuns'
  <2>1. [NextOrderly]_vars => [Next]_vars
    BY DEF NextOrderly, Next
  <2> QED BY <2>1, NextClaims DEF Guests
<1>0. TypeOK /\ RowFollowsHandler /\ GuestsOfRuns /\ KillsOfRuns
  BY DEF Guests, Claims
<1> DEFINE Goal == GuestsOfRuns' /\ KillsOfRuns'
<1> USE <1>0 DEF TypeOK, hostVars, tableVars, GuestsOfRuns, KillsOfRuns, WithGuest, Live, terminalStates, NoKill
<1>1. ASSUME NEW r \in Runs, Request(r) PROVE Goal
  BY <1>1 DEF Request
<1>2. ASSUME NEW r \in Runs, DropRequest(r) PROVE Goal
  BY <1>2 DEF DropRequest
<1>3. ASSUME NEW r \in Runs, admit(r) PROVE Goal
  BY <1>3 DEF admit
<1>4. ASSUME NEW r \in Runs, StartSpawn(r) PROVE Goal
  <2>1. /\ UNCHANGED <<guest, record, kind, killer, phase>> /\ pc[r] = "admitted"
        /\ \A q \in Runs \ {r} : row'[q] = row[q] /\ pc'[q] = pc[q]
        /\ \/ row'[r] = "running" /\ pc'[r] = IF kind[r] = "hold" THEN "holding" ELSE "started"
           \/ row'[r] = row[r] /\ pc'[r] = "done"
    BY <1>4 DEF StartSpawn
  <2>2. GuestsOfRuns'
    BY <2>1
  <2>3. KillsOfRuns'
    BY <2>1
  <2> QED BY <2>2, <2>3
<1>5. ASSUME NEW r \in Runs, CannotStart(r) \/ LaunchFails(r) \/ GuestGivenUp(r) PROVE Goal
  BY <1>5 DEF CannotStart, LaunchFails, GuestGivenUp, ReturnsAs
<1>6. ASSUME NEW r \in Runs, allocate(r) PROVE Goal
  BY <1>6 DEF allocate, RowFollowsHandler, AtWork
<1>7. ASSUME NEW r \in Runs, StartQemu(r) PROVE Goal
  BY <1>7 DEF StartQemu, RowFollowsHandler, AtWork
<1>8. ASSUME NEW r \in Runs, SaveQemuPid(r) PROVE Goal
  BY <1>8 DEF SaveQemuPid
<1>9. ASSUME NEW r \in Runs, GuestExits(r) PROVE Goal
  BY <1>9 DEF GuestExits, ReturnsAs
<1>10. ASSUME NEW r \in Runs, OrphanExits(r) PROVE Goal
  BY <1>10 DEF OrphanExits
<1>11. ASSUME NEW r \in Runs, Teardown(r) PROVE Goal
  BY <1>11 DEF Teardown
<1>12. ASSUME NEW r \in Runs, HoldEnds(r) PROVE Goal
  BY <1>12 DEF HoldEnds, ReturnsAs
<1>13. ASSUME NEW r \in Runs, EndSpawn(r) PROVE Goal
  BY <1>13 DEF EndSpawn, RowFollowsHandler, AtWork
<1>14. ASSUME NEW r \in Runs, endRun(r) PROVE Goal
  BY <1>14 DEF endRun, ReturnsAs
<1>15. ASSUME NEW r \in Runs, DropSpawn(r) PROVE Goal
  BY <1>15 DEF DropSpawn, AtWork
<1>16. ASSUME NEW k \in Killers, NEW r \in Runs, KillReads(k, r), pc[r] \in {"guest", "holding"}
       PROVE Goal
  BY <1>16 DEF KillReads
<1>17. ASSUME NEW k \in Killers, KillLoads(k) \/ KillReaps(k) PROVE Goal
  <2> DEFINE r == killer[k].run
  <2>1. /\ r \in Runs /\ record[r] # "unnamed"
        /\ pc[r] \in {"guest", "holding", "reaping", "ended", "recorded", "done"}
    BY <1>17 DEF KillLoads, KillReaps
  <2>2. UNCHANGED <<pc, folder, kind, row, phase>>
    BY <1>17 DEF KillLoads, KillReaps
  <2>3. \E at \in {"reap", "row"}, seen \in RecordStates :
            /\ killer' = [killer EXCEPT ![k] = [at |-> at, run |-> r, seen |-> seen]]
            /\ at = "reap" => seen = "named"
            /\ at = "row" => ~guest'[r]
            /\ record'[r] \in {record[r], "none"}
            /\ guest'[r] => guest[r] /\ record'[r] = record[r]
            /\ \A q \in Runs \ {r} : guest'[q] = guest[q] /\ record'[q] = record[q]
    <3>1. CASE KillLoads(k)
      BY <2>1, <3>1 DEF KillLoads, RecordStates
    <3>2. CASE KillReaps(k)
      <4>1. /\ guest' = [guest EXCEPT ![r] = FALSE] /\ record' = [record EXCEPT ![r] = "none"]
            /\ killer[k] \in Kills /\ killer[k].seen = "named"
        BY <3>2 DEF KillReaps, reapVM
      <4>2. killer' = [killer EXCEPT ![k] = [at |-> "row", run |-> r, seen |-> "none"]]
        BY <3>2, <4>1 DEF KillReaps, Kills, RecordStates
      <4> HIDE DEF r
      <4> QED BY <2>1, <4>1, <4>2 DEF RecordStates
    <3> QED BY <1>17, <3>1, <3>2
  <2>4. PICK at \in {"reap", "row"}, seen \in RecordStates :
            /\ killer' = [killer EXCEPT ![k] = [at |-> at, run |-> r, seen |-> seen]]
            /\ at = "reap" => seen = "named"
            /\ at = "row" => ~guest'[r]
            /\ record'[r] \in {record[r], "none"}
            /\ guest'[r] => guest[r] /\ record'[r] = record[r]
            /\ \A q \in Runs \ {r} : guest'[q] = guest[q] /\ record'[q] = record[q]
    BY <2>3
  <2>5. GuestsOfRuns'
    BY <2>1, <2>2, <2>4
  <2>6. KillsOfRuns'
    BY <1>17, <2>1, <2>2, <2>4 DEF KillLoads, KillReaps
  <2> QED BY <2>5, <2>6
<1>18. ASSUME NEW k \in Killers, KillSpawn(k) PROVE Goal
  BY <1>18 DEF KillSpawn
<1>19. ASSUME NEW k \in Killers, KillDropped(k) PROVE Goal
  BY <1>19 DEF KillDropped
<1>20. CASE Crash /\ \A r \in Runs : guest[r] => record[r] = "named"
  BY <1>20 DEF Crash, AtWork
<1>21. CASE sweep
  BY <1>21 DEF sweep
<1>22. CASE ExpireOrphans
  BY <1>22 DEF ExpireOrphans, RowFollowsHandler, AtWork
<1>23. CASE UNCHANGED vars
  BY <1>23 DEF vars
<1> QED
  BY <1>1, <1>2, <1>3, <1>4, <1>5, <1>6, <1>7, <1>8, <1>9, <1>10, <1>11, <1>12,
     <1>13, <1>14, <1>15, <1>16, <1>17, <1>18, <1>19, <1>20, <1>21, <1>22, <1>23
  DEF NextOrderly, Step, Handler, KillGoesOn

\* When no kill overtakes a launch and no crash falls between the start of QEMU
\* and the save of its pid, a slot is given back only after its guest is gone.
THEOREM GuestsHoldSlots == SpecOrderly => []GuestHoldsSlot
<1>1. Init => Guests
  BY InitGuests
<1>2. Guests /\ [NextOrderly]_vars => Guests'
  BY NextGuests
<1>3. Guests => GuestHoldsSlot
  BY DEF Guests, GuestsOfRuns, GuestHoldsSlot
<1> QED
  BY <1>1, <1>2, <1>3, PTL DEF SpecOrderly

\* Under the same conditions a folder runs one guest at a time.
THEOREM OneGuest == SpecOrderly => []OneGuestPerFolder
<1>1. Init => Guests
  BY InitGuests
<1>2. Guests /\ [NextOrderly]_vars => Guests'
  BY NextGuests
<1>3. Guests => OneGuestPerFolder
  BY DEF Guests, Claims, GuestsOfRuns, OneClaimPerFolder, OneGuestPerFolder
<1> QED
  BY <1>1, <1>2, <1>3, PTL DEF SpecOrderly

-----------------------------------------------------------------------------
\* A record on the disk of a runed that is up belongs to a live turn on its way,
\* and a kill that is about to write the row has left none behind.
RecordsOfRuns ==
    /\ \A r \in Runs : record[r] # "none" /\ phase # "down" =>
           pc[r] \in {"launching", "booting", "guest", "reaping"} /\ Live(r)
    /\ \A k \in Killers : killer[k].at = "row" => record[killer[k].run] = "none"

\* With no record before the first run.
LEMMA InitRecords == Init => RecordsOfRuns
BY DEF Init, RecordsOfRuns, NoKill

\* Every orderly step keeps the records to the live turns.
LEMMA NextRecords == Guests /\ RecordsOfRuns /\ [NextOrderly]_vars => RecordsOfRuns'
<1> SUFFICES ASSUME Guests, RecordsOfRuns, [NextOrderly]_vars PROVE RecordsOfRuns'
  OBVIOUS
<1>0. TypeOK /\ RowFollowsHandler /\ GuestsOfRuns /\ KillsOfRuns /\ RecordsOfRuns
  BY DEF Guests, Claims
<1> USE <1>0 DEF TypeOK, hostVars, tableVars, RecordsOfRuns, Live, terminalStates, NoKill
<1>1. ASSUME NEW r \in Runs, Request(r) \/ DropRequest(r) PROVE RecordsOfRuns'
  BY <1>1 DEF Request, DropRequest
<1>2. ASSUME NEW r \in Runs, admit(r) \/ StartSpawn(r) PROVE RecordsOfRuns'
  BY <1>2 DEF admit, StartSpawn
<1>3. ASSUME NEW r \in Runs, CannotStart(r) \/ LaunchFails(r) \/ GuestGivenUp(r) PROVE RecordsOfRuns'
  BY <1>3 DEF CannotStart, LaunchFails, GuestGivenUp, ReturnsAs
<1>4. ASSUME NEW r \in Runs, allocate(r) \/ StartQemu(r) \/ SaveQemuPid(r) PROVE RecordsOfRuns'
  <2>1. /\ UNCHANGED <<row, killer, phase>> /\ pc[r] \in {"started", "launching", "booting"}
        /\ pc'[r] \in {"launching", "booting", "guest"}
        /\ \A q \in Runs \ {r} : pc'[q] = pc[q] /\ record'[q] = record[q]
    BY <1>4 DEF allocate, StartQemu, SaveQemuPid
  <2>2. row[r] = "running" /\ \A k \in Killers : killer[k].at # "idle" => killer[k].run # r
    BY <2>1 DEF GuestsOfRuns, KillsOfRuns
  <2> QED BY <2>1, <2>2
<1>5. ASSUME NEW r \in Runs, GuestExits(r) \/ OrphanExits(r) PROVE RecordsOfRuns'
  BY <1>5 DEF GuestExits, OrphanExits, ReturnsAs
<1>6. ASSUME NEW r \in Runs, Teardown(r) PROVE RecordsOfRuns'
  BY <1>6 DEF Teardown
<1>7. ASSUME NEW r \in Runs, HoldEnds(r) PROVE RecordsOfRuns'
  BY <1>7 DEF HoldEnds, ReturnsAs
<1>8. ASSUME NEW r \in Runs, EndSpawn(r) \/ endRun(r) PROVE RecordsOfRuns'
  BY <1>8 DEF EndSpawn, endRun, ReturnsAs
<1>9. ASSUME NEW r \in Runs, DropSpawn(r) PROVE RecordsOfRuns'
  BY <1>9 DEF DropSpawn, AtWork
<1>10. ASSUME NEW k \in Killers, NEW r \in Runs, KillReads(k, r) PROVE RecordsOfRuns'
  BY <1>10 DEF KillReads
<1>11. ASSUME NEW k \in Killers, KillLoads(k) PROVE RecordsOfRuns'
  <2> DEFINE r == killer[k].run
  <2>1. /\ UNCHANGED <<pc, row, record, phase>> /\ r \in Runs
        /\ \A j \in Killers \ {k} : killer'[j] = killer[j]
        /\ killer'[k].run = r /\ (killer'[k].at = "row" => record[r] = "none")
    BY <1>11 DEF KillLoads, GuestsOfRuns
  <2> QED BY <2>1
<1>12. ASSUME NEW k \in Killers, KillReaps(k) PROVE RecordsOfRuns'
  BY <1>12 DEF KillReaps, reapVM
<1>13. ASSUME NEW k \in Killers, KillSpawn(k) \/ KillDropped(k) PROVE RecordsOfRuns'
  BY <1>13 DEF KillSpawn, KillDropped
<1>14. CASE Crash
  BY <1>14 DEF Crash
<1>15. CASE sweep \/ ExpireOrphans
  BY <1>15 DEF sweep, ExpireOrphans, RowFollowsHandler, AtWork, KillsOfRuns
<1>16. CASE UNCHANGED vars
  BY <1>16 DEF vars
<1> QED
  BY <1>1, <1>2, <1>3, <1>4, <1>5, <1>6, <1>7, <1>8, <1>9, <1>10, <1>11, <1>12,
     <1>13, <1>14, <1>15, <1>16
  DEF NextOrderly, Step, Handler, KillGoesOn

\* As many slots are taken as there are records, at most.
LEMMA SlotsTaken ==
    ASSUME NEW S, IsFiniteSet(S), {q \in Runs : record[q] # "none"} \subseteq S
    PROVE  IsFiniteSet(liveCIDs) /\ Cardinality(liveCIDs) <= Cardinality(S)
<1> DEFINE Q == {q \in Runs : record[q] # "none"}
           f == [q \in Q |-> cid[q]]
<1>1. IsFiniteSet(Q) /\ Cardinality(Q) <= Cardinality(S)
  BY FS_Subset
<1>2. f \in Surjection(Q, liveCIDs)
  BY DEF liveCIDs, Surjection
<1>3. IsFiniteSet(liveCIDs) /\ Cardinality(liveCIDs) <= Cardinality(Q)
  BY <1>1, <1>2, FS_Surjection
<1>4. Cardinality(liveCIDs) \in Nat /\ Cardinality(Q) \in Nat /\ Cardinality(S) \in Nat
  BY <1>1, <1>3, FS_CardinalityType
<1> QED
  BY <1>1, <1>3, <1>4

\* The turn at its start is one of the live agents and has no record, so the
\* cap leaves it a slot.
LEMMA FreeCID ==
    ASSUME Guests, RecordsOfRuns, phase = "up", NEW r \in Runs, pc[r] = "started"
    PROVE  FreeCIDs # {}
<1> DEFINE A == LiveAgentSpawns
<1>1. r \in A /\ record[r] = "none"
  BY DEF Guests, GuestsOfRuns, WithGuest, RecordsOfRuns, LiveAgentSpawns, Live, terminalStates
<1>2. {q \in Runs : record[q] # "none"} \subseteq A \ {r}
  BY <1>1 DEF Guests, Claims, TypeOK, GuestsOfRuns, RecordsOfRuns, LiveAgentSpawns
<1>3. IsFiniteSet(A \ {r}) /\ Cardinality(A \ {r}) = Cardinality(A) - 1
  BY <1>1, AgentsFinite, FS_RemoveElement
<1>4. IsFiniteSet(liveCIDs) /\ Cardinality(liveCIDs) <= Cardinality(A \ {r})
  BY <1>2, <1>3, SlotsTaken
<1>5. Cardinality(A) \in Nat /\ Cardinality(liveCIDs) \in Nat /\ Cardinality(A) <= MaxRun
  BY <1>4, AgentsFinite, FS_CardinalityType DEF Guests, Claims, CapRespected
<1>6. Cardinality(Slots) = MaxRun /\ IsFiniteSet(Slots)
  BY FS_Interval, MaxRunAssumption DEF Slots
<1>7. ASSUME FreeCIDs = {} PROVE FALSE
  <2>1. Slots \subseteq liveCIDs
    BY <1>7 DEF FreeCIDs
  <2>2. Cardinality(Slots) <= Cardinality(liveCIDs)
    BY <1>4, <2>1, FS_Subset
  <2> HIDE DEF A
  <2> QED BY <1>3, <1>4, <1>5, <1>6, <2>2, MaxRunAssumption
<1> QED
  BY <1>7

\* Under the same conditions no admitted turn finds the window of CIDs used up:
\* whoever holds a slot of the window holds one of the cap.
THEOREM CidsSuffice == SpecOrderly => []CidForEveryTurn
<1>1. Init => Guests /\ RecordsOfRuns
  BY InitGuests, InitRecords
<1>2. Guests /\ RecordsOfRuns /\ [NextOrderly]_vars => Guests' /\ RecordsOfRuns'
  BY NextGuests, NextRecords
<1>3. Guests /\ RecordsOfRuns => CidForEveryTurn
  BY FreeCID DEF CidForEveryTurn
<1> QED
  BY <1>1, <1>2, <1>3, PTL DEF SpecOrderly
=============================================================================
