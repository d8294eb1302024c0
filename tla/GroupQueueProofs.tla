-------------------------- MODULE GroupQueueProofs --------------------------
(***************************************************************************)
(* Safety of the dispatch queue for every set of chats, every set of       *)
(* folders and every bound.  The inductive invariant IInv says that the    *)
(* four books the queue keeps on live work (active, activeCount,           *)
(* activeFolders and the goroutines themselves) agree, and that a parked   *)
(* chat has neither a worker nor anything to start with.                   *)
(***************************************************************************)
EXTENDS GroupQueue, FiniteSetTheorems, TLAPS

\* The books agree.  Parameters, so that the states in the middle of
\* runForGroup, between the release and the drain, can be spoken of.
Consistent(act, count, holders, live) ==
    /\ act \in [Chats -> BOOLEAN]
    /\ count \in Nat
    /\ holders \in [Folders -> Chats \cup {NoChat}]
    /\ live \in [Chats -> [Keys -> Nat]]
    /\ count = Cardinality({c \in Chats : act[c]})
    /\ \A c \in Chats : act[c] <=> \E k \in Keys : live[c][k] > 0
    /\ \A c \in Chats : \A k \in Keys : live[c][k] <= 1
    /\ \A c \in Chats : \A k, l \in Keys :
           live[c][k] > 0 /\ live[c][l] > 0 => k = l
    /\ \A f \in Folders : \A c \in Chats : holders[f] = c <=> live[c][f] > 0

IInv ==
    /\ TypeOK
    /\ Consistent(active, activeCount, activeFolders, workers)
    /\ activeCount <= MaxConcurrent
    /\ \A c \in waitingGroups : ~active[c]
    /\ NoLostWakeup
    /\ BreakerClosedOnDispatch

\* A set of chats may start together: none has a worker, no folder of theirs
\* is held, and no two of them share one.
Startable(S, act, holders) ==
    /\ S \in SUBSET Chats
    /\ \A c \in S : ~act[c]
    /\ \A c \in S : target[c] # NoFolder => holders[target[c]] = NoChat
    /\ \A c, d \in S : target[c] = target[d] /\ target[c] # NoFolder => c = d

-----------------------------------------------------------------------------
\* Starting the chats of a startable set keeps the books in agreement.
LEMMA Starting ==
    ASSUME NEW act, NEW count, NEW holders, NEW live, NEW S,
           target \in [Chats -> Keys],
           Consistent(act, count, holders, live),
           Startable(S, act, holders),
           activateLocked(S, act, count, holders, live)
    PROVE  /\ Consistent(active', activeCount', activeFolders', workers')
           /\ activeCount' = count + Cardinality(S)
           /\ Cardinality(S) \in Nat
<1> DEFINE old == {c \in Chats : act[c]}
<1>1. IsFiniteSet(S) /\ IsFiniteSet(old) /\ S \cap old = {}
  BY ChatsAssumption, FS_Subset DEF Startable
<1>2. Cardinality(S \cup old) = Cardinality(S) + Cardinality(old)
  <2>1. Cardinality(S \cap old) = 0
    BY <1>1, FS_EmptySet
  <2>2. Cardinality(S) \in Nat /\ Cardinality(old) \in Nat
    BY <1>1, FS_CardinalityType
  <2> HIDE DEF old
  <2>3. Cardinality(S \cup old) = Cardinality(S) + Cardinality(old) - Cardinality(S \cap old)
    BY <1>1, FS_Union
  <2> QED BY <2>1, <2>2, <2>3
<1>3. Cardinality(S) \in Nat
  BY <1>1, FS_CardinalityType
<1>4. active' \in [Chats -> BOOLEAN] /\ {c \in Chats : active'[c]} = S \cup old
  BY DEF activateLocked, Consistent, Startable
<1>5. activeCount' \in Nat /\ activeCount' = Cardinality({c \in Chats : active'[c]})
  <2>1. count \in Nat /\ count = Cardinality(old) /\ activeCount' = count + Cardinality(S)
    BY DEF activateLocked, Consistent
  <2> HIDE DEF old
  <2> QED BY <1>2, <1>3, <1>4, <2>1
<1>6. /\ workers' \in [Chats -> [Keys -> Nat]]
      /\ \A c \in Chats : \A k \in Keys :
             workers'[c][k] = IF c \in S /\ k = target[c] THEN live[c][k] + 1
                              ELSE live[c][k]
  BY DEF activateLocked, Consistent
<1>7. \A c \in S : \A k \in Keys : live[c][k] = 0
  BY DEF Consistent, Startable
<1>8. \A c \in Chats : active'[c] <=> \E k \in Keys : workers'[c][k] > 0
  <2> SUFFICES ASSUME NEW c \in Chats
               PROVE  active'[c] <=> \E k \in Keys : workers'[c][k] > 0
    OBVIOUS
  <2>1. CASE c \in S
    BY <2>1, <1>4, <1>6, <1>7
  <2>2. CASE c \notin S
    BY <2>2, <1>4, <1>6 DEF Consistent, activateLocked
  <2> QED BY <2>1, <2>2
<1>9. \A c \in Chats : \A k \in Keys : workers'[c][k] <= 1
  BY <1>6, <1>7 DEF Consistent
<1>10. \A c \in Chats : \A k, l \in Keys :
           workers'[c][k] > 0 /\ workers'[c][l] > 0 => k = l
  BY <1>6, <1>7 DEF Consistent
<1>11. activeFolders' \in [Folders -> Chats \cup {NoChat}]
  BY DEF activateLocked, Consistent, Startable
<1>12. \A f \in Folders : \A c \in Chats :
           activeFolders'[f] = c <=> workers'[c][f] > 0
  <2> SUFFICES ASSUME NEW f \in Folders, NEW c \in Chats
               PROVE  activeFolders'[f] = c <=> workers'[c][f] > 0
    OBVIOUS
  <2>0. f \in Keys /\ f # NoFolder
    BY FoldersAssumption DEF Keys
  <2>1. CASE \E d \in S : target[d] = f
    <3>1. PICK d \in S : target[d] = f
      BY <2>1
    <3>2. activeFolders'[f] = d
      BY <2>0, <3>1 DEF activateLocked, Startable
    <3>3. holders[f] = NoChat
      BY <2>0, <3>1 DEF Startable
    <3>4. live[c][f] = 0
      BY <2>0, <3>3, ChatsAssumption DEF Consistent
    <3>5. c \in S /\ target[c] = f <=> c = d
      BY <2>0, <3>1 DEF Startable
    <3> QED BY <1>6, <2>0, <3>2, <3>4, <3>5 DEF Startable
  <2>2. CASE ~ \E d \in S : target[d] = f
    BY <1>6, <2>0, <2>2 DEF activateLocked, Consistent
  <2> QED BY <2>1, <2>2
<1>13. activeCount' = count + Cardinality(S)
  BY DEF activateLocked
<1> QED BY <1>3, <1>4, <1>5, <1>6, <1>8, <1>9, <1>10, <1>11, <1>12, <1>13 DEF Consistent

\* The worker's half of runForGroup, before it drains, keeps them too.
LEMMA Ending ==
    ASSUME NEW c \in Chats, NEW k \in Keys, NEW holders \in Released(c),
           Consistent(active, activeCount, activeFolders, workers),
           workers[c][k] > 0
    PROVE  /\ Consistent([active EXCEPT ![c] = FALSE], activeCount - 1, holders,
                         [workers EXCEPT ![c][k] = @ - 1])
           /\ activeCount > 0
           /\ \A f \in Folders : holders[f] = IF activeFolders[f] = c THEN NoChat
                                              ELSE activeFolders[f]
<1> DEFINE act == [active EXCEPT ![c] = FALSE]
           live == [workers EXCEPT ![c][k] = @ - 1]
           old == {d \in Chats : active[d]}
<1>1. active[c] /\ workers[c][k] = 1 /\ \A l \in Keys : l # k => workers[c][l] = 0
  BY DEF Consistent
<1>2. /\ live \in [Chats -> [Keys -> Nat]]
      /\ \A l \in Keys : live[c][l] = 0
      /\ \A d \in Chats : d # c => live[d] = workers[d]
  BY <1>1 DEF Consistent
<1>3. act \in [Chats -> BOOLEAN] /\ {d \in Chats : act[d]} = old \ {c}
  BY DEF Consistent
<1>4. IsFiniteSet(old) /\ c \in old
  BY <1>1, ChatsAssumption, FS_Subset
<1>5. Cardinality(old \ {c}) = Cardinality(old) - 1 /\ Cardinality(old \ {c}) \in Nat
  BY <1>4, FS_RemoveElement, FS_CardinalityType, FS_Subset
<1>6. activeCount - 1 \in Nat /\ activeCount - 1 = Cardinality({d \in Chats : act[d]})
  BY <1>3, <1>5 DEF Consistent
<1>7. \A f \in Folders : activeFolders[f] = c => f = k
  BY <1>1 DEF Consistent, Keys
<1>8. /\ holders \in [Folders -> Chats \cup {NoChat}]
      /\ \A f \in Folders : holders[f] = IF activeFolders[f] = c THEN NoChat
                                         ELSE activeFolders[f]
  BY <1>7 DEF Released, Consistent
<1>9. \A f \in Folders : \A d \in Chats : holders[f] = d <=> live[d][f] > 0
  <2> SUFFICES ASSUME NEW f \in Folders, NEW d \in Chats
               PROVE  holders[f] = d <=> live[d][f] > 0
    OBVIOUS
  <2>1. CASE d = c
    BY <1>2, <1>8, <2>1, ChatsAssumption DEF Keys
  <2>2. CASE d # c
    BY <1>2, <1>8, <2>2, ChatsAssumption DEF Consistent
  <2> QED BY <2>1, <2>2
<1>10. /\ \A d \in Chats : act[d] <=> \E l \in Keys : live[d][l] > 0
       /\ \A d \in Chats : \A l \in Keys : live[d][l] <= 1
       /\ \A d \in Chats : \A l, m \in Keys :
              live[d][l] > 0 /\ live[d][m] > 0 => l = m
  BY <1>2, <1>3 DEF Consistent
<1> HIDE DEF act, live
<1>11. Consistent(act, activeCount - 1, holders, live)
  BY <1>2, <1>3, <1>6, <1>8, <1>9, <1>10 DEF Consistent
<1>12. activeCount > 0
  BY <1>6 DEF Consistent
<1> QED BY <1>8, <1>11, <1>12 DEF act, live

-----------------------------------------------------------------------------
\* Parking a chat keeps waitingGroups an ordered list without repetitions.
LEMMA Parking ==
    ASSUME TypeOK, NEW c \in Chats, park(c)
    PROVE  /\ waitingGroups' \in SUBSET Chats
           /\ ahead' \in SUBSET (waitingGroups' \X waitingGroups')
           /\ \A d, e \in waitingGroups' :
                  d # e => (<<d, e>> \in ahead' <=> <<e, d>> \notin ahead')
<1>1. CASE c \in waitingGroups
  BY <1>1 DEF TypeOK, park
<1>2. CASE c \notin waitingGroups
  <2>1. ahead' = ahead \cup (waitingGroups \X {c}) /\ waitingGroups' = waitingGroups \cup {c}
    BY <1>2 DEF park
  <2>2. \A d \in waitingGroups : <<d, c>> \in ahead' /\ <<c, d>> \notin ahead'
    BY <1>2, <2>1 DEF TypeOK
  <2>3. \A d, e \in waitingGroups : <<d, e>> \in ahead' <=> <<d, e>> \in ahead
    BY <1>2, <2>1
  <2> QED BY <2>1, <2>2, <2>3 DEF TypeOK
<1> QED BY <1>1, <1>2

\* So does removing some.
LEMMA Unparking ==
    ASSUME TypeOK, NEW S \in SUBSET waitingGroups, unpark(S)
    PROVE  /\ waitingGroups' \in SUBSET Chats
           /\ ahead' \in SUBSET (waitingGroups' \X waitingGroups')
           /\ \A d, e \in waitingGroups' :
                  d # e => (<<d, e>> \in ahead' <=> <<e, d>> \notin ahead')
BY DEF TypeOK, unpark

\* The initial state satisfies the invariant.
LEMMA InitIInv == Init => IInv
<1> SUFFICES ASSUME Init PROVE IInv
  OBVIOUS
<1> USE DEF Init, New
<1>1. TypeOK
  BY ChatsAssumption DEF TypeOK
<1>2. {c \in Chats : active[c]} = {}
  OBVIOUS
<1>3. activeCount = Cardinality({c \in Chats : active[c]})
  BY <1>2, FS_EmptySet
<1>4. Consistent(active, activeCount, activeFolders, workers)
  BY <1>3, ChatsAssumption DEF Consistent, Keys
<1> QED BY <1>1, <1>4, MaxAssumption
        DEF IInv, NoLostWakeup, BreakerClosedOnDispatch, circuitBreakerThreshold

\* What an enqueue does to the list, the books and the streak.
LEMMA EnqueueIInv ==
    ASSUME IInv, NEW c \in Chats, EnqueueMessageCheck(c)
    PROVE  IInv'
<1> USE DEF IInv
<1>1. /\ failures' \in [Chats -> Nat]
      /\ BreakerClosedOnDispatch
      /\ \A d \in Chats : failures'[d] <= circuitBreakerThreshold
      /\ \A d \in Chats : d # c => failures'[d] = failures[d]
      /\ failures'[c] < circuitBreakerThreshold
  BY DEF EnqueueMessageCheck, ResetStreak, TypeOK, BreakerClosedOnDispatch,
         circuitBreakerThreshold
<1>2. /\ target' = target /\ shuttingDown' = shuttingDown /\ ~shuttingDown
      /\ depDown' = depDown /\ depDownLoud' = depDownLoud
  BY DEF EnqueueMessageCheck, planeVars, Admitting
<1>3. CASE active[c] /\ UNCHANGED <<queueVars, workers>>
  BY <1>1, <1>2, <1>3
     DEF queueVars, TypeOK, Consistent, NoLostWakeup, FolderBusy,
         BreakerClosedOnDispatch
<1>4. CASE /\ ~active[c]
           /\ FolderBusy(c, activeFolders) \/ activeCount >= MaxConcurrent
           /\ park(c)
           /\ UNCHANGED <<active, activeCount, activeFolders, workers>>
  <2>1. TypeOK'
    BY <1>1, <1>2, <1>4, Parking DEF TypeOK
  <2>2. Consistent(active, activeCount, activeFolders, workers)'
    BY <1>4 DEF Consistent
  <2>3. waitingGroups' = waitingGroups \cup {c}
    BY <1>4 DEF park
  <2>4. NoLostWakeup'
    BY <1>2, <1>4, <2>3 DEF NoLostWakeup, FolderBusy
  <2>5. BreakerClosedOnDispatch'
    BY <1>1, <1>4, <2>3 DEF BreakerClosedOnDispatch, circuitBreakerThreshold
  <2> QED BY <1>4, <2>1, <2>2, <2>3, <2>4, <2>5
<1>5. CASE /\ ~active[c]
           /\ ~FolderBusy(c, activeFolders) /\ activeCount < MaxConcurrent
           /\ activateLocked({c}, active, activeCount, activeFolders, workers)
           /\ UNCHANGED <<waitingGroups, ahead>>
  <2>1. Startable({c}, active, activeFolders)
    BY <1>5 DEF Startable, FolderBusy, Consistent, TypeOK, Keys
  <2>2. /\ Consistent(active', activeCount', activeFolders', workers')
        /\ activeCount' = activeCount + Cardinality({c})
    BY <1>5, <2>1, Starting DEF TypeOK
  <2>3. activeCount' = activeCount + 1
    BY <2>2, FS_Singleton
  <2>4. TypeOK'
    BY <1>1, <1>2, <1>5, <2>2 DEF TypeOK, Consistent
  <2>5. c \notin waitingGroups
    BY <1>2, <1>5, MaxAssumption DEF NoLostWakeup, TypeOK
  <2>6. \A d \in waitingGroups' : ~active'[d]
    BY <1>5, <2>5 DEF activateLocked, TypeOK
  <2>7. NoLostWakeup'
    <3>1. ASSUME NEW d \in waitingGroups
          PROVE  target[d] # NoFolder /\ activeFolders'[target[d]] \notin {NoChat, d}
      <4>1. FolderBusy(d, activeFolders)
        BY <1>2, <1>5, MaxAssumption DEF NoLostWakeup, TypeOK
      <4>2. target[d] \in Folders /\ target[d] # NoFolder
        BY <4>1 DEF FolderBusy, TypeOK, Keys
      <4>3. activeFolders'[target[d]] \in {c, activeFolders[target[d]]}
        BY <1>5, <4>2 DEF activateLocked
      <4> QED BY <2>5, <4>1, <4>2, <4>3, ChatsAssumption DEF FolderBusy
    <3> QED BY <1>2, <1>5, <3>1 DEF NoLostWakeup, FolderBusy
  <2>8. BreakerClosedOnDispatch'
    BY <1>1, <1>5 DEF BreakerClosedOnDispatch, activateLocked, circuitBreakerThreshold
  <2> QED BY <1>5, <2>2, <2>3, <2>4, <2>6, <2>7, <2>8, MaxAssumption DEF TypeOK
<1> QED BY <1>3, <1>4, <1>5 DEF EnqueueMessageCheck

\* The drain of runForGroup, from books that agree and a free slot.
LEMMA DrainIInv ==
    ASSUME TypeOK, NEW act, NEW count, NEW holders, NEW live,
           Consistent(act, count, holders, live),
           count < MaxConcurrent,
           \A c \in waitingGroups : ~act[c],
           UNCHANGED target,
           drainWaitingLocked(act, count, holders, live)
    PROVE  /\ Consistent(active', activeCount', activeFolders', workers')
           /\ activeCount' <= MaxConcurrent
           /\ waitingGroups' \in SUBSET waitingGroups
           /\ ahead' \in SUBSET (waitingGroups' \X waitingGroups')
           /\ \A d, e \in waitingGroups' :
                  d # e => (<<d, e>> \in ahead' <=> <<e, d>> \notin ahead')
           /\ \A c \in waitingGroups' : ~active'[c]
           /\ \A c \in Chats : active'[c] => act[c] \/ c \in waitingGroups
           /\ \A c \in waitingGroups' :
                  activeCount' >= MaxConcurrent \/ FolderBusy(c, activeFolders)'
<1>1. PICK picked \in SUBSET waitingGroups :
          /\ Passes(picked, count, holders)
          /\ unpark(picked)
          /\ activateLocked(picked, act, count, holders, live)
  BY DEF drainWaitingLocked
<1>2. waitingGroups' = waitingGroups \ picked
  BY <1>1 DEF unpark
<1>3. \A c \in waitingGroups : target[c] # NoFolder =>
          target[c] \in Folders /\ holders[target[c]] # c
  BY DEF TypeOK, Keys, Consistent
<1>4. Startable(picked, act, holders)
  <2>1. \A c \in picked : target[c] # NoFolder => holders[target[c]] = NoChat
    BY <1>1, <1>3 DEF Passes, FolderBusy
  <2>2. ASSUME NEW c \in picked, NEW d \in picked, c # d,
               target[c] = target[d], target[c] # NoFolder
        PROVE  FALSE
    <3>1. <<c, d>> \in ahead \/ <<d, c>> \in ahead
      BY <2>2 DEF TypeOK
    <3> QED BY <1>1, <2>2, <3>1 DEF Passes
  <2> QED BY <2>1, <2>2 DEF Startable, TypeOK
<1>5. /\ Consistent(active', activeCount', activeFolders', workers')
      /\ activeCount' = count + Cardinality(picked)
      /\ Cardinality(picked) \in Nat
  BY <1>1, <1>4, Starting DEF TypeOK
<1>6. activeCount' <= MaxConcurrent
  BY <1>1, <1>5 DEF Passes
<1>7. \A c \in Chats : active'[c] <=> act[c] \/ c \in picked
  BY <1>1 DEF activateLocked
<1>8. ASSUME NEW c \in waitingGroups \ picked
      PROVE  activeCount' >= MaxConcurrent \/ FolderBusy(c, activeFolders)'
  <2> DEFINE before == {p \in picked : <<p, c>> \in ahead}
  <2>1. CASE FolderBusy(c, holders)
    <3>1. target[c] \in Folders /\ target[c] # NoFolder /\ holders[target[c]] \notin {NoChat, c}
      BY <2>1 DEF FolderBusy, TypeOK, Keys
    <3>2. ~ \E p \in picked : target[p] = target[c]
      BY <1>4, <3>1 DEF Startable
    <3>3. activeFolders'[target[c]] = holders[target[c]]
      BY <1>1, <3>1, <3>2 DEF activateLocked
    <3> QED BY <3>1, <3>3 DEF FolderBusy
  <2>2. CASE target[c] # NoFolder /\ \E p \in before : target[p] = target[c]
    <3>1. target[c] \in Folders
      BY <1>3, <2>2
    <3>2. activeFolders'[target[c]] \in picked
      BY <1>1, <2>2, <3>1 DEF activateLocked
    <3> QED BY <2>2, <3>2, ChatsAssumption DEF FolderBusy, TypeOK
  <2>3. CASE count + Cardinality(before) >= MaxConcurrent
    <3>1. IsFiniteSet(picked)
      BY ChatsAssumption, FS_Subset DEF TypeOK
    <3>2. Cardinality(before) \in Nat /\ Cardinality(before) <= Cardinality(picked)
      BY <3>1, FS_Subset, FS_CardinalityType
    <3> HIDE DEF before
    <3> QED BY <1>5, <2>3, <3>2, MaxAssumption DEF Consistent
  <2> QED BY <1>1, <2>1, <2>2, <2>3 DEF Passes
<1> QED BY <1>1, <1>2, <1>5, <1>6, <1>7, <1>8, Unparking DEF TypeOK

\* The end of a worker, with its drain unless the queue shuts down.
LEMMA FinishIInv ==
    ASSUME IInv, NEW c \in Chats, NEW k \in Keys, NEW o \in Outcomes,
           runForGroup(c, k, o)
    PROVE  IInv'
<1> USE DEF IInv
<1> DEFINE act == [active EXCEPT ![c] = FALSE]
           live == [workers EXCEPT ![c][k] = @ - 1]
<1>1. PICK holders \in Released(c) :
          \/ /\ Admitting
             /\ drainWaitingLocked(act, activeCount - 1, holders, live)
          \/ /\ ~Admitting
             /\ activateLocked({}, act, activeCount - 1, holders, live)
             /\ UNCHANGED <<waitingGroups, ahead>>
  BY DEF runForGroup
<1>2. Consistent(act, activeCount - 1, holders, live) /\ activeCount > 0
  BY Ending DEF runForGroup
<1>3. /\ failures' \in [Chats -> Nat]
      /\ depDown' \in {"reachable", "grace", "overdue"}
      /\ depDownLoud' \in BOOLEAN
  <2> USE DEF runForGroup, Charge, TypeOK
  <2>1. failures' \in [Chats -> Nat]
    OBVIOUS
  <2>2. depDown' \in {"reachable", "grace", "overdue"}
    BY DEF clearDependencyDown, logDependencyDown
  <2>3. depDownLoud' \in BOOLEAN
    BY Zenon DEF clearDependencyDown, logDependencyDown
  <2> QED BY <2>1, <2>2, <2>3
<1>4. active[c]
  BY DEF runForGroup, Consistent
<1>5. /\ \A d \in Chats : d # c => failures'[d] = failures[d]
      /\ failures'[c] <= circuitBreakerThreshold
  BY <1>4 DEF runForGroup, Charge, TypeOK, BreakerClosedOnDispatch, circuitBreakerThreshold
<1>6. target' = target /\ shuttingDown' = shuttingDown
  BY DEF runForGroup
<1>7. /\ act \in [Chats -> BOOLEAN] /\ ~act[c]
      /\ \A d \in Chats : act[d] => active[d]
      /\ \A d \in waitingGroups : ~act[d]
  BY <1>4 DEF TypeOK
<1>8. activeCount - 1 < MaxConcurrent /\ activeCount - 1 \in Nat
  BY <1>2, MaxAssumption DEF TypeOK
<1> HIDE DEF act, live
<1>9. CASE drainWaitingLocked(act, activeCount - 1, holders, live)
  <2>1. /\ Consistent(active', activeCount', activeFolders', workers')
        /\ activeCount' <= MaxConcurrent
        /\ waitingGroups' \in SUBSET waitingGroups
        /\ ahead' \in SUBSET (waitingGroups' \X waitingGroups')
        /\ \A d, e \in waitingGroups' :
               d # e => (<<d, e>> \in ahead' <=> <<e, d>> \notin ahead')
        /\ \A d \in waitingGroups' : ~active'[d]
        /\ \A d \in Chats : active'[d] => act[d] \/ d \in waitingGroups
        /\ \A d \in waitingGroups' :
               activeCount' >= MaxConcurrent \/ FolderBusy(d, activeFolders)'
    BY <1>2, <1>6, <1>7, <1>8, <1>9, DrainIInv
  <2>2. TypeOK'
    BY <1>3, <1>6, <2>1 DEF TypeOK, Consistent
  <2>3. BreakerClosedOnDispatch'
    <3>1. c \notin waitingGroups /\ ~active'[c]
      BY <1>4, <1>7, <2>1
    <3> QED BY <1>5, <1>7, <2>1, <3>1 DEF BreakerClosedOnDispatch
  <2> QED BY <2>1, <2>2, <2>3 DEF NoLostWakeup
<1>10. CASE /\ ~Admitting
            /\ activateLocked({}, act, activeCount - 1, holders, live)
            /\ UNCHANGED <<waitingGroups, ahead>>
  <2>1. Startable({}, act, holders)
    BY DEF Startable
  <2>2. /\ Consistent(active', activeCount', activeFolders', workers')
        /\ activeCount' = activeCount - 1 + Cardinality({})
    BY <1>2, <1>10, <2>1, Starting DEF TypeOK
  <2>3. activeCount' = activeCount - 1
    BY <1>8, <2>2, FS_EmptySet
  <2>4. \A d \in Chats : active'[d] = act[d]
    BY <1>7, <1>10 DEF activateLocked
  <2>5. TypeOK'
    BY <1>3, <1>6, <1>10, <2>2 DEF TypeOK, Consistent
  <2>6. BreakerClosedOnDispatch'
    BY <1>4, <1>5, <1>7, <1>10, <2>4 DEF BreakerClosedOnDispatch
  <2>7. NoLostWakeup'
    BY <1>6, <1>10 DEF NoLostWakeup, Admitting
  <2> QED BY <1>7, <1>8, <1>10, <2>2, <2>3, <2>4, <2>5, <2>6, <2>7, MaxAssumption DEF TypeOK
<1> QED BY <1>1, <1>9, <1>10

\* Every step of the queue and of its environment preserves the invariant.
LEMMA NextIInv == IInv /\ [Next]_vars => IInv'
<1> SUFFICES ASSUME IInv, [Next]_vars PROVE IInv'
  OBVIOUS
<1>1. CASE \E c \in Chats : EnqueueMessageCheck(c)
  BY <1>1, EnqueueIInv
<1>2. CASE \E c \in Chats, k \in Keys, o \in Outcomes : runForGroup(c, k, o)
  BY <1>2, FinishIInv
<1>3. CASE Shutdown
  BY <1>3 DEF IInv, Shutdown, TypeOK, Consistent, NoLostWakeup, BreakerClosedOnDispatch,
              queueVars, planeVars
<1>4. CASE GraceElapses
  BY <1>4 DEF IInv, GraceElapses, TypeOK, Consistent, NoLostWakeup, FolderBusy,
              BreakerClosedOnDispatch, queueVars
<1>5. CASE \E c \in Chats \ waitingGroups, k \in Keys : Reroute(c, k)
  <2>1. PICK c \in Chats \ waitingGroups, k \in Keys : Reroute(c, k)
    BY <1>5
  <2>2. target' \in [Chats -> Keys] /\ \A d \in waitingGroups : target'[d] = target[d]
    BY <2>1 DEF IInv, TypeOK, Reroute
  <2> QED BY <2>1, <2>2 DEF IInv, Reroute, TypeOK, Consistent, NoLostWakeup, FolderBusy,
                            BreakerClosedOnDispatch, queueVars, planeVars
<1>6. CASE UNCHANGED vars
  BY <1>6 DEF IInv, vars, TypeOK, Consistent, NoLostWakeup, FolderBusy,
              BreakerClosedOnDispatch, queueVars, planeVars
<1> QED BY <1>1, <1>2, <1>3, <1>4, <1>5, <1>6 DEF Next, Step

\* The invariant holds in every reachable state.
THEOREM Invariance == Spec => []IInv
BY InitIInv, NextIInv, PTL DEF Spec

-----------------------------------------------------------------------------
\* Every variable keeps its type, and a chat is parked at most once.
THEOREM TypeCorrect == Spec => []TypeOK
BY Invariance, PTL DEF IInv

\* What the agreement of the books means for the workers.
LEMMA BooksAgree == IInv => Exclusion
<1> SUFFICES ASSUME IInv PROVE OneWorkerPerChat /\ FolderExclusive /\ SlotsAccounted
  BY DEF Exclusion
<1> USE DEF IInv, Consistent, Working
<1>1. OneWorkerPerChat
  BY DEF OneWorkerPerChat
<1>2. FolderExclusive
  <2> SUFFICES ASSUME NEW f \in Folders, NEW c \in Chats, NEW d \in Chats,
                      Working(c, f), Working(d, f)
               PROVE  c = d /\ workers[c][f] = 1
    BY DEF FolderExclusive
  <2>1. activeFolders[f] = c /\ activeFolders[f] = d
    OBVIOUS
  <2> QED BY <2>1 DEF Keys
<1>3. {c \in Chats : \E k \in Keys : Working(c, k)} = {c \in Chats : active[c]}
  OBVIOUS
<1>4. SlotsAccounted
  BY <1>3 DEF SlotsAccounted
<1> QED BY <1>1, <1>2, <1>4

\* A chat never has two live workers (runForGroup), as long as a parked chat
\* keeps its folder; two live workers never took the same folder; activeCount
\* counts them and stays within maxConcurrent.
THEOREM Exclusive == Spec => []Exclusion
BY Invariance, BooksAgree, PTL

\* A parked chat that could start never waits for an unrelated worker's end.
THEOREM Wakeup == Spec => []NoLostWakeup
BY Invariance, PTL DEF IInv

\* A chat is dispatched and parked only with its circuit breaker closed.
THEOREM Breaker == Spec => []BreakerClosedOnDispatch
BY Invariance, PTL DEF IInv
-----------------------------------------------------------------------------
\* A drain that starts d and leaves c, who stood in front of d.
LEMMA DrainOrder ==
    ASSUME TypeOK, NEW act, NEW count, NEW holders, NEW live,
           Consistent(act, count, holders, live),
           \A e \in waitingGroups : ~act[e],
           drainWaitingLocked(act, count, holders, live),
           NEW c \in waitingGroups, NEW d \in waitingGroups,
           <<c, d>> \in ahead, d \notin waitingGroups', c \in waitingGroups'
    PROVE  /\ FolderBusy(c, activeFolders')
           /\ <<c, activeFolders'[target[c]]>> \notin ahead
<1>1. PICK picked \in SUBSET waitingGroups :
          /\ Passes(picked, count, holders)
          /\ unpark(picked)
          /\ activateLocked(picked, act, count, holders, live)
  BY DEF drainWaitingLocked
<1>2. d \in picked /\ c \notin picked /\ c # d
  BY <1>1 DEF unpark
<1>3. \A p, q \in waitingGroups : p # q /\ <<p, q>> \in ahead => <<q, p>> \notin ahead
  BY DEF TypeOK
<1> DEFINE before == {p \in picked : <<p, c>> \in ahead}
<1>4. count + Cardinality(before) < MaxConcurrent
  <2>1. before \subseteq picked \ {d}
    BY <1>2, <1>3
  <2>2. IsFiniteSet(picked) /\ IsFiniteSet(picked \ {d})
    BY ChatsAssumption, FS_Subset DEF TypeOK
  <2>3. Cardinality(picked \ {d}) = Cardinality(picked) - 1
    BY <1>2, <2>2, FS_RemoveElement
  <2> HIDE DEF before
  <2>4. Cardinality(before) <= Cardinality(picked \ {d}) /\ IsFiniteSet(before)
    BY <2>1, <2>2, FS_Subset
  <2>5. /\ Cardinality(before) \in Nat /\ Cardinality(picked) \in Nat
        /\ count \in Nat /\ count + Cardinality(picked) <= MaxConcurrent
    BY <1>1, <2>2, <2>4, FS_CardinalityType DEF Passes, Consistent
  <2> QED BY <2>3, <2>4, <2>5, MaxAssumption
<1>5. FolderBusy(c, holders)
      \/ (target[c] # NoFolder /\ \E p \in before : target[p] = target[c])
  <2>1. count \in Nat /\ Cardinality(before) \in Nat
    <3>1. IsFiniteSet(picked) /\ before \subseteq picked
      BY ChatsAssumption, FS_Subset DEF TypeOK
    <3> HIDE DEF before
    <3> QED BY <3>1, FS_Subset, FS_CardinalityType DEF Consistent
  <2>2. \/ FolderBusy(c, holders)
        \/ (target[c] # NoFolder /\ \E p \in before : target[p] = target[c])
        \/ count + Cardinality(before) >= MaxConcurrent
    BY <1>1, <1>2 DEF Passes
  <2> HIDE DEF before
  <2> QED BY <1>4, <2>1, <2>2, MaxAssumption
<1>6. target[c] \in Folders /\ target[c] # NoFolder
  BY <1>5 DEF FolderBusy, TypeOK, Keys
<1>7. \A p \in picked : target[p] # NoFolder => holders[target[p]] = NoChat
  BY <1>1 DEF Passes, FolderBusy, TypeOK, Keys, Consistent
<1>8. CASE FolderBusy(c, holders)
  <2>1. holders[target[c]] \in Chats /\ holders[target[c]] # c
    BY <1>6, <1>8 DEF FolderBusy, Consistent
  <2>2. ~ \E p \in picked : target[p] = target[c]
    BY <1>6, <1>7, <2>1, ChatsAssumption
  <2>3. activeFolders'[target[c]] = holders[target[c]]
    BY <1>1, <1>6, <2>2 DEF activateLocked
  <2>4. act[holders[target[c]]]
    BY <1>6, <2>1 DEF Consistent, Keys
  <2>5. holders[target[c]] \notin waitingGroups
    BY <2>4
  <2> QED BY <1>6, <2>1, <2>3, <2>5, ChatsAssumption DEF FolderBusy, TypeOK
<1>9. CASE \E p \in before : target[p] = target[c]
  <2>1. PICK p \in before : target[p] = target[c]
    BY <1>9
  <2>2. \A q \in picked : target[q] = target[c] => q = p
    <3> SUFFICES ASSUME NEW q \in picked, target[q] = target[c], q # p PROVE FALSE
      OBVIOUS
    <3>1. <<p, q>> \in ahead \/ <<q, p>> \in ahead
      BY <2>1 DEF TypeOK
    <3> QED BY <1>1, <1>6, <2>1, <3>1 DEF Passes
  <2>3. activeFolders'[target[c]] = p
    BY <1>1, <1>6, <2>1, <2>2 DEF activateLocked
  <2>4. p \in Chats /\ p # c /\ <<p, c>> \in ahead /\ p \in waitingGroups
    BY <1>2, <2>1 DEF TypeOK
  <2> QED BY <1>3, <1>6, <2>3, <2>4, ChatsAssumption DEF FolderBusy
<1> QED BY <1>5, <1>8, <1>9

\* No waiter is started past one in front of it but for a folder that neither
\* of them can give it (drainWaitingLocked).
THEOREM InOrder == Spec => NoOvertaking
<1>1. ASSUME IInv, [Next]_vars
      PROVE  [\A c, d \in waitingGroups :
                <<c, d>> \in ahead /\ d \notin waitingGroups' /\ c \in waitingGroups'
                    => /\ FolderBusy(c, activeFolders')
                       /\ <<c, activeFolders'[target[c]]>> \notin ahead]_vars
  <2> SUFFICES ASSUME Next, NEW c \in waitingGroups, NEW d \in waitingGroups,
                      <<c, d>> \in ahead, d \notin waitingGroups', c \in waitingGroups'
               PROVE  /\ FolderBusy(c, activeFolders')
                      /\ <<c, activeFolders'[target[c]]>> \notin ahead
    BY <1>1
  <2>1. PICK e \in Chats, k \in Keys, o \in Outcomes : runForGroup(e, k, o)
    <3>1. ~UNCHANGED waitingGroups
      OBVIOUS
    <3>2. ASSUME NEW e \in Chats, EnqueueMessageCheck(e) PROVE FALSE
      BY <3>2 DEF EnqueueMessageCheck, park, queueVars
    <3> QED BY <3>1, <3>2 DEF Next, Step, Shutdown, GraceElapses, Reroute, queueVars
  <2> DEFINE act == [active EXCEPT ![e] = FALSE]
             live == [workers EXCEPT ![e][k] = @ - 1]
  <2>2. PICK holders \in Released(e) : drainWaitingLocked(act, activeCount - 1, holders, live)
    BY <2>1 DEF runForGroup
  <2>3. Consistent(act, activeCount - 1, holders, live)
    BY <1>1, <2>1, Ending DEF IInv, runForGroup
  <2>4. \A w \in waitingGroups : ~act[w]
    BY <1>1 DEF IInv, TypeOK
  <2> HIDE DEF act, live
  <2> QED BY <1>1, <2>2, <2>3, <2>4, DrainOrder DEF IInv
<1> QED BY Invariance, <1>1, PTL DEF Spec, NoOvertaking
=============================================================================
