-------------------------- MODULE ChatCursorProofs --------------------------
(***************************************************************************)
(* Safety of the chat's cursor for every log, batch size and number of     *)
(* faults.  ChatInv, the inductive invariant, says of the batch of the     *)
(* worker and of the miss of the poll what their late writes of the cursor *)
(* will find: Passable, that no undecided row is passed, SteeredSettled    *)
(* and TakenSettled, that what has been run and is above the cursor is     *)
(* about to be passed.                                                     *)
(***************************************************************************)
EXTENDS ChatCursor, FiniteSetTheorems, TLAPS

\* The groups of a batch do not interleave: of two, one ends before the other begins.
Ordered(groups) ==
    \A g, h \in groups :
        g = h \/ (\A a \in g, b \in h : a < b) \/ (\A a \in g, b \in h : b < a)

\* What the place of the worker says about its batch.
JobShape ==
    /\ job.last <= Len(log)
    /\ \A g \in job.groups : g # {} /\ g \subseteq 1..job.last
    /\ Ordered(job.groups)
    /\ pc \in {"idle", "advance"} => job.groups = {}
    /\ pc \in {"run", "unfinished"} => job.groups # {}
    /\ pc = "steered" => job.steered
    /\ pc = "unfinished" => ~job.steered
    /\ poll \subseteq 1..Len(log)

\* Wherever the cursor may be moved to next, what is below is decided, or is
\* decided by the turns and the miss that come before the move.
Passable ==
    /\ \A i \in 1..cursor : i \in decided
    /\ \A i \in 1..job.last : i \in decided \/ \E g \in job.groups : i \in g
    /\ job.steered => \A i \in 1..job.last : i \in decided
    /\ \A m \in poll : \A i \in 1..m : i \in decided \cup poll

\* A row below the cursor, or one it is known to be put up again.
Settled(i) == i <= cursor \/ i \in suspect

\* A command above the cursor is the one the worker is about to pass.
SteeredSettled ==
    /\ \A i \in steered : Settled(i) \/ (pc = "steered" /\ i = job.last)
    /\ job.steered /\ pc # "steered" => \A i \in 1..job.last : Settled(i)
    /\ twice \subseteq suspect

\* The row's turn has finished, and the worker is to pass it with its batch.
Finished(i) ==
    /\ pc \in {"turns", "run", "unfinished"} /\ ~job.steered
    /\ i <= job.last
    /\ job.finished
    /\ \A g \in job.groups : \A j \in g : i < j

\* A row above the cursor that a turn has taken is in the turn that runs, or in
\* one that has finished before it; what waits for its turn has not had one.
TakenSettled ==
    /\ \A i \in Positions : taken[i] \subseteq done
    /\ \A i \in Positions : taken[i] # {} =>
           Settled(i) \/ Finished(i) \/ (pc = "run" /\ i \in Current)
    /\ \A g \in job.groups : \A i \in g : \A t \in taken[i] :
           i \in suspect \/ (pc = "run" /\ g = Current /\ t = Max(g))
    /\ \A i \in Positions : i \in suspect \/ \A t, u \in taken[i] : t = u

ChatInv == TypeOK /\ JobShape /\ Passable /\ SteeredSettled /\ TakenSettled

-----------------------------------------------------------------------------
\* A set of numbers that has a member has a least one, and Min is it.
LEMMA MinOf ==
    ASSUME NEW S, S \subseteq Nat, S # {}
    PROVE  Min(S) \in S /\ \A y \in S : Min(S) <= y
<1> DEFINE Less == {ss \in Nat \X Nat : ss[1] < ss[2]}
<1>1. \E x \in S : \A y \in S : ~(<<y, x>> \in Less)
  <2>1. IsWellFoundedOn(Less, Nat)
    BY NatLessThanWellFounded DEF OpToRel
  <2> QED BY <2>1, WFMin
<1>2. \E x \in S : \A y \in S : x <= y
  <2>1. PICK x \in S : \A y \in S : ~(<<y, x>> \in Less)
    BY <1>1
  <2>2. ASSUME NEW y \in S, ~(x <= y) PROVE FALSE
    <3>1. <<y, x>> \in Nat \X Nat /\ y < x
      BY <2>2
    <3>2. <<y, x>> \in Less
      BY <3>1
    <3> QED BY <2>1, <3>2
  <2> QED BY <2>2
<1> QED
  BY <1>2 DEF Min

\* A bounded one has a greatest, and Max is it.
LEMMA MaxOf ==
    ASSUME NEW n \in Nat, NEW S, S \subseteq 0..n, S # {}
    PROVE  Max(S) \in S /\ \A y \in S : y <= Max(S)
<1> DEFINE T == {k \in Nat : n - k \in S}
<1>1. T \subseteq Nat /\ T # {}
  <2>1. PICK x \in S : TRUE
    OBVIOUS
  <2>2. x \in 0..n /\ n - x \in Nat /\ n - (n - x) = x
    BY <2>1
  <2> QED BY <2>1, <2>2
<1>2. Min(T) \in T /\ \A y \in T : Min(T) <= y
  <2> HIDE DEF T
  <2> QED BY <1>1, MinOf
<1>3. \E x \in S : \A y \in S : x >= y
  <2>1. PICK m \in Nat : n - m \in S /\ \A y \in T : m <= y
    BY <1>2
  <2>2. ASSUME NEW y \in S PROVE n - m >= y
    <3>1. y \in 0..n /\ n - y \in Nat /\ n - (n - y) = y
      OBVIOUS
    <3>2. n - y \in T
      BY <3>1
    <3>3. m <= n - y
      BY <2>1, <3>2
    <3> QED BY <3>1, <3>3
  <2> QED BY <2>1, <2>2
<1> QED
  BY <1>3 DEF Max

\* Rows of one sender with no other between: the runs cover the trigger, and
\* of two runs one ends before the other begins.
LEMMA Runs ==
    ASSUME NEW rows, rows \subseteq Nat
    PROVE  /\ \A i \in rows : \E g \in consecutiveRuns(rows) : i \in g
           /\ \A g \in consecutiveRuns(rows) : g # {} /\ g \subseteq rows
           /\ Ordered(consecutiveRuns(rows))
<1> DEFINE run(i) == {j \in rows : \A k \in rows :
                         k \in (i..j) \cup (j..i) => log[k].sender = log[i].sender}
<1>1. \A i \in rows : i \in run(i)
  OBVIOUS
<1>2. ASSUME NEW i \in rows, NEW j \in run(i) PROVE run(j) = run(i)
  <2>1. j \in rows /\ i \in Nat /\ j \in Nat
    OBVIOUS
  <2>2. \A k \in rows : k \in (i..j) \cup (j..i) => log[k].sender = log[i].sender
    OBVIOUS
  <2>3. log[j].sender = log[i].sender
    BY <2>1, <2>2
  <2>4. \A l \in rows : \A k \in (i..l) \cup (l..i) :
            k \in (i..j) \cup (j..i) \/ k \in (j..l) \cup (l..j)
    BY <2>1
  <2>5. \A l \in rows : \A k \in (j..l) \cup (l..j) :
            k \in (i..j) \cup (j..i) \/ k \in (i..l) \cup (l..i)
    BY <2>1
  <2>6. run(i) \subseteq run(j)
    BY <2>2, <2>3, <2>5
  <2>7. run(j) \subseteq run(i)
    BY <2>2, <2>3, <2>4
  <2> QED BY <2>6, <2>7
<1>3. ASSUME NEW i \in rows, NEW a \in run(i), NEW c \in run(i), NEW b \in rows, c <= b, b <= a
      PROVE  b \in run(i)
  <2>1. run(c) = run(i)
    BY <1>2
  <2>2. a \in run(c) /\ c \in rows /\ a \in rows
    BY <2>1
  <2>3. \A k \in rows : k \in (c..b) \cup (b..c) => k \in (c..a) \cup (a..c)
    BY <1>3, <2>2
  <2>4. b \in run(c)
    BY <2>2, <2>3
  <2> QED BY <2>1, <2>4
<1>4. consecutiveRuns(rows) = {run(i) : i \in rows}
  BY DEF consecutiveRuns
<1>5. ASSUME NEW i \in rows, NEW l \in rows
      PROVE  \/ run(i) = run(l)
             \/ \A a \in run(i), b \in run(l) : a < b
             \/ \A a \in run(i), b \in run(l) : b < a
  <2>1. SUFFICES ASSUME NEW a \in run(i), NEW b \in run(l), ~(a < b),
                        NEW c \in run(i), NEW d \in run(l), ~(d < c)
                 PROVE  run(i) = run(l)
    OBVIOUS
  <2>2. a \in rows /\ b \in rows /\ c \in rows /\ d \in rows /\ b <= a /\ c <= d
    BY <2>1
  <2>3. CASE c <= b
    <3>1. b \in run(i)
      BY <1>3, <2>2, <2>3
    <3> QED BY <1>2, <3>1
  <2>4. CASE b <= c
    <3>1. c \in run(l)
      BY <1>3, <2>2, <2>4
    <3> QED BY <1>2, <3>1
  <2> QED BY <2>2, <2>3, <2>4
<1> HIDE DEF run
<1>6. Ordered(consecutiveRuns(rows))
  BY <1>4, <1>5 DEF Ordered
<1>7. \A g \in consecutiveRuns(rows) : g # {} /\ g \subseteq rows
  BY <1>1, <1>4 DEF run
<1> QED
  BY <1>1, <1>4, <1>6, <1>7

-----------------------------------------------------------------------------
JobType == [groups : SUBSET SUBSET Positions, last : 0..MaxRows,
            offered : 0..MaxRows, steered : BOOLEAN, finished : BOOLEAN]

\* The batch is what follows the cursor, without a gap.
LEMMA BatchOf ==
    ASSUME TypeOK
    PROVE  /\ Len(log) \in Nat /\ 1..Len(log) \subseteq Positions
           /\ Batch \subseteq (cursor + 1)..Len(log)
           /\ Batch # {} => /\ Max(Batch) \in Batch
                            /\ \A y \in Batch : y <= Max(Batch)
           /\ \A m \in Batch : \A i \in (cursor + 1)..m : i \in Batch
<1>1. Len(log) \in Nat /\ cursor \in Nat /\ MaxRows \in Nat /\ pollBatch \in Nat
  BY BoundsAssumption, BatchAssumption DEF TypeOK
<1>2. Batch \subseteq (cursor + 1)..Len(log) /\ Batch \subseteq 0..Len(log)
  BY <1>1 DEF Batch
<1>3. Batch # {} => Max(Batch) \in Batch /\ \A y \in Batch : y <= Max(Batch)
  BY <1>1, <1>2, MaxOf
<1>4. \A m \in Batch : \A i \in (cursor + 1)..m : i \in Batch
  BY <1>1 DEF Batch
<1>5. 1..Len(log) \subseteq Positions
  BY <1>1 DEF TypeOK, Positions
<1> QED
  BY <1>1, <1>2, <1>3, <1>4, <1>5

\* The row that steer is offered is one of the batch.
LEMMA SteerOf ==
    ASSUME TypeOK, \E i \in Batch : User(i)
    PROVE  steerRow(Batch) \in Batch
<1> DEFINE commands == {i \in Batch : log[i].kind = "command"}
<1>1. Len(log) \in Nat /\ Batch \subseteq 0..Len(log) /\ cursor \in Nat
  BY BatchOf DEF TypeOK
<1>2. commands # {} => Min(commands) \in commands
  <2>1. commands \subseteq Nat
    BY <1>1
  <2> HIDE DEF commands
  <2> QED BY <2>1, MinOf
<1>3. Max(Users(Batch)) \in Users(Batch)
  <2>1. Users(Batch) \subseteq 0..Len(log) /\ Users(Batch) # {}
    BY <1>1 DEF Users
  <2> QED BY <1>1, <2>1, MaxOf
<1> QED
  BY <1>2, <1>3 DEF steerRow, Users

\* The group whose turn it is comes before every other group that waits.
LEMMA CurrentOf ==
    ASSUME TypeOK, JobShape, job.groups # {}
    PROVE  /\ Current \in job.groups /\ Current \subseteq 1..job.last
           /\ Min(Current) \in Current /\ \A i \in Current : Min(Current) <= i
           /\ turnID \in Current
           /\ \A h \in job.groups : h = Current \/ \A a \in Current, b \in h : a < b
<1>1. job.last \in Nat /\ \A g \in job.groups : g # {} /\ g \subseteq 1..job.last
  BY BoundsAssumption DEF TypeOK, JobShape
<1>2. \A g \in job.groups : Min(g) \in g /\ \A i \in g : Min(g) <= i
  BY <1>1, MinOf
<1>3. \A g \in job.groups : Max(g) \in g
  <2>1. \A g \in job.groups : g \subseteq 0..job.last
    BY <1>1
  <2> QED BY <1>1, <2>1, MaxOf
<1>4. Current \in job.groups /\ \A h \in job.groups : Min(Current) <= Min(h)
  <2> DEFINE mins == {Min(g) : g \in job.groups}
  <2>1. mins # {} /\ mins \subseteq Nat
    BY <1>1, <1>2
  <2>2. Min(mins) \in mins /\ \A y \in mins : Min(mins) <= y
    <3> HIDE DEF mins
    <3> QED BY <2>1, MinOf
  <2>3. \E g \in job.groups : \A h \in job.groups : Min(g) <= Min(h)
    BY <2>2
  <2> QED BY <2>3 DEF Current
<1>5. ASSUME NEW h \in job.groups, h # Current, NEW a \in Current, NEW b \in h PROVE a < b
  <2>1. Min(Current) \in Current /\ Min(h) \in h /\ Min(Current) <= Min(h)
    BY <1>2, <1>4
  <2>2. Min(Current) \in Nat /\ Min(h) \in Nat
    BY <1>1, <1>4, <2>1
  <2>3. ~(\A x \in Current, y \in h : y < x)
    BY <2>1, <2>2
  <2> QED BY <1>4, <1>5, <2>3 DEF JobShape, Ordered
<1> QED
  BY <1>1, <1>2, <1>3, <1>4, <1>5 DEF turnID

\* A write of the cursor, made or lost, settles what it was to pass and
\* unsettles nothing.
LEMMA MovesSettles ==
    ASSUME TypeOK, NEW to \in 0..Len(log), Moves(to)
    PROVE  /\ cursor' \in {cursor, to}
           /\ faults' \in 0..MaxFaults
           /\ suspect \subseteq suspect' /\ suspect' \subseteq Positions
           /\ \A i \in Positions : Settled(i) => Settled(i)'
           /\ \A i \in 1..to : Settled(i)'
<1>1. /\ Len(log) \in Nat /\ cursor \in 0..Len(log) /\ suspect \subseteq Positions
      /\ faults \in 0..MaxFaults /\ MaxFaults \in Nat /\ 1..Len(log) \subseteq Positions
  BY BatchOf, BoundsAssumption DEF TypeOK
<1>2. CASE /\ cursor' = to
           /\ suspect' = suspect \cup ((to + 1)..cursor)
           /\ UNCHANGED faults
  <2>1. (to + 1)..cursor \subseteq 1..Len(log)
    BY <1>1
  <2>2. \A i \in Positions : Settled(i) => Settled(i)'
    BY <1>1, <1>2 DEF Settled, Positions
  <2>3. \A i \in 1..to : Settled(i)'
    BY <1>2 DEF Settled
  <2> QED BY <1>1, <1>2, <2>1, <2>2, <2>3
<1>3. CASE /\ faults < MaxFaults
           /\ faults' = faults + 1
           /\ suspect' = suspect \cup ((cursor + 1)..to)
           /\ UNCHANGED cursor
  <2>1. (cursor + 1)..to \subseteq 1..Len(log)
    BY <1>1
  <2>2. \A i \in Positions : Settled(i) => Settled(i)'
    BY <1>1, <1>3 DEF Settled
  <2>3. \A i \in 1..to : Settled(i)'
    BY <1>1, <1>3 DEF Settled
  <2> QED BY <1>1, <1>3, <2>1, <2>2, <2>3
<1> QED
  BY <1>2, <1>3 DEF Moves

-----------------------------------------------------------------------------
\* What a feed puts before the worker: groups of rows above the cursor, with
\* every other row up to the last decided, and with all of them when steered.
LEMMA FeedGives ==
    ASSUME TypeOK, NEW routesOK, Feed(routesOK)
    PROVE  /\ pc = "idle"
           /\ job' \in JobType /\ job'.last \in Batch /\ ~job'.finished
           /\ \A g \in job'.groups : g # {} /\ g \subseteq (cursor + 1)..job'.last
           /\ Ordered(job'.groups)
           /\ decided \subseteq decided' /\ decided' \subseteq Positions
           /\ \A i \in (cursor + 1)..job'.last : i \in decided' \/ \E g \in job'.groups : i \in g
           /\ job'.steered => \A i \in (cursor + 1)..job'.last : i \in decided'
           /\ \/ pc' = "advance" /\ job'.groups = {} /\ ~job'.steered
              \/ pc' = "turns" /\ ~job'.steered
              \/ pc' = "steered" /\ job'.steered
           /\ \/ pc' # "steered" /\ UNCHANGED <<log, steered, twice>>
              \/ /\ pc' = "steered"
                 /\ steered' = steered \cup {job'.last}
                 /\ twice' = twice \cup ({job'.last} \cap steered)
                 /\ log' \in Seq([kind : Kinds, sender : Senders])
                 /\ Len(log') \in Len(log)..MaxRows
           /\ busy' \in 0..MaxRows
           /\ UNCHANGED <<cursor, engaged, done, late, poll, faults, taken, suspect>>
<1>1. /\ Len(log) \in Nat /\ cursor \in Nat /\ MaxRows \in Nat /\ Len(log) <= MaxRows
      /\ log \in Seq([kind : Kinds, sender : Senders])
      /\ Batch \subseteq (cursor + 1)..Len(log) /\ Batch \subseteq Positions
      /\ decided \subseteq Positions /\ busy \in 0..MaxRows
  BY BatchOf, BoundsAssumption DEF TypeOK
<1>0. \A i \in Batch : i \in Nat /\ i \in 0..MaxRows /\ i \in 1..Len(log) /\ i > cursor
  BY <1>1
<1>2. CASE FeedPassed(routesOK)
  <2>1. Max(Batch) \in Batch
    BY <1>2, BatchOf DEF FeedPassed, Feeds
  <2>2. job' = [groups |-> {}, last |-> Max(Batch), offered |-> 0, steered |-> FALSE,
                finished |-> FALSE]
    BY <1>2 DEF FeedPassed, NoJob
  <2>3. job' \in JobType
    <3>1. Max(Batch) \in 0..MaxRows
      BY <1>0, <2>1
    <3>2. 0 \in 0..MaxRows
      BY BoundsAssumption
    <3> QED BY <2>2, <3>1, <3>2 DEF JobType
  <2>4. decided' = decided \cup Batch
    BY <1>2 DEF FeedPassed, Decides
  <2>5. \A i \in (cursor + 1)..Max(Batch) : i \in Batch
    BY <2>1, BatchOf
  <2>6. busy' \in 0..MaxRows
    BY <1>1, <1>2 DEF FeedPassed
  <2>7. /\ pc = "idle" /\ pc' = "advance"
        /\ UNCHANGED <<log, cursor, engaged, done, late, poll, faults, taken, steered, twice, suspect>>
    BY <1>2 DEF FeedPassed, Feeds
  <2>8. /\ job'.last = Max(Batch) /\ job'.groups = {} /\ ~job'.finished /\ ~job'.steered
        /\ Ordered(job'.groups)
    BY <2>2 DEF Ordered
  <2> QED BY <1>1, <2>1, <2>3, <2>4, <2>5, <2>6, <2>7, <2>8
<1>3. ASSUME NEW rows, rows \subseteq Batch, NEW to \in Batch, NEW isSteered \in BOOLEAN,
             \A i \in (cursor + 1)..to : i \in rows \/ (isSteered /\ i = to),
             \A i \in rows : i <= to,
             Takes(rows, routesOK, to, isSteered)
      PROVE  /\ job' \in JobType /\ job'.last = to /\ ~job'.finished /\ job'.steered = isSteered
             /\ \A g \in job'.groups : g # {} /\ g \subseteq (cursor + 1)..to
             /\ Ordered(job'.groups)
             /\ decided \subseteq decided' /\ decided' \subseteq Positions
             /\ \A i \in (cursor + 1)..to : i \in decided' \/ \E g \in job'.groups : i \in g
             /\ isSteered => \A i \in (cursor + 1)..to : i \in decided'
             /\ busy' \in 0..MaxRows
  <2> DEFINE trigger == {i \in rows : Resolves(i, routesOK)}
  <2>1. /\ job' = [groups |-> consecutiveRuns(trigger), last |-> to,
                   offered |-> steerRow(Batch), steered |-> isSteered, finished |-> FALSE]
        /\ decided' = decided \cup
              ((rows \ trigger) \cup (IF isSteered THEN trigger \cup {to} ELSE {}))
        /\ busy' = 0
        /\ \E i \in Batch : User(i)
    BY <1>3 DEF Takes, Decides, Resolves
  <2>2. steerRow(Batch) \in Batch
    BY <2>1, SteerOf
  <2>3. trigger \subseteq rows /\ trigger \subseteq Nat
    BY <1>0, <1>3
  <2> HIDE DEF trigger
  <2>4. /\ \A i \in trigger : \E g \in consecutiveRuns(trigger) : i \in g
        /\ \A g \in consecutiveRuns(trigger) : g # {} /\ g \subseteq trigger
        /\ Ordered(consecutiveRuns(trigger))
    BY <2>3, Runs
  <2>5. trigger \subseteq (cursor + 1)..to
    BY <1>1, <1>3, <2>3
  <2>6. job' \in JobType
    <3>1. to \in 0..MaxRows /\ steerRow(Batch) \in 0..MaxRows
      BY <1>0, <1>3, <2>2
    <3>2. consecutiveRuns(trigger) \in SUBSET SUBSET Positions
      BY <1>1, <1>3, <2>3, <2>4
    <3> QED BY <2>1, <3>1, <3>2 DEF JobType
  <2>7. decided \subseteq decided' /\ decided' \subseteq Positions
    BY <1>1, <1>3, <2>1, <2>3
  <2>8. \A i \in (cursor + 1)..to : i \in decided' \/ \E g \in job'.groups : i \in g
    BY <1>3, <2>1, <2>4
  <2>9. isSteered => \A i \in (cursor + 1)..to : i \in decided'
    BY <1>3, <2>1
  <2>10. /\ job'.groups = consecutiveRuns(trigger) /\ job'.last = to
         /\ ~job'.finished /\ job'.steered = isSteered
    BY <2>1
  <2>11. \A g \in job'.groups : g # {} /\ g \subseteq (cursor + 1)..to
    BY <2>4, <2>5, <2>10
  <2>12. Ordered(job'.groups)
    BY <2>4, <2>10
  <2>13. busy' \in 0..MaxRows
    BY <1>1, <2>1
  <2> QED BY <2>6, <2>7, <2>8, <2>9, <2>10, <2>11, <2>12, <2>13
<1>4. CASE FeedTurns(routesOK)
  <2>1. /\ Batch # {} /\ pc = "idle" /\ pc' = "turns" /\ Takes(Batch, routesOK, Max(Batch), FALSE)
        /\ UNCHANGED <<log, cursor, engaged, done, late, poll, faults, taken, steered, twice, suspect>>
    BY <1>4 DEF FeedTurns, Feeds
  <2>2. /\ Max(Batch) \in Batch /\ \A i \in Batch : i <= Max(Batch)
        /\ \A i \in (cursor + 1)..Max(Batch) : i \in Batch
    BY <2>1, BatchOf
  <2> QED BY <2>1, <2>2, <1>3
<1>5. CASE FeedSteer(routesOK)
  <2> DEFINE c == steerRow(Batch)
             rows == {i \in Batch : i < c}
  <2>1. /\ pc = "idle" /\ pc' = "steered" /\ Takes(rows, routesOK, c, TRUE)
        /\ steered' = steered \cup {c} /\ twice' = twice \cup ({c} \cap steered)
        /\ UNCHANGED <<cursor, engaged, done, late, poll, faults, taken, suspect>>
        /\ \/ UNCHANGED log
           \/ /\ Len(log) < MaxRows
              /\ log' = Append(log, [kind |-> "direct", sender |-> log[c].sender])
    BY <1>5 DEF FeedSteer, Feeds
  <2>2. c \in Batch
    <3>1. \E i \in Batch : User(i)
      BY <2>1 DEF Takes, Resolves
    <3> QED BY <3>1, SteerOf
  <2>3. /\ rows \subseteq Batch /\ \A i \in rows : i <= c
        /\ \A i \in (cursor + 1)..c : i \in rows \/ i = c
    <3>1. \A i \in (cursor + 1)..c : i \in Batch
      BY <2>2, BatchOf
    <3> HIDE DEF c
    <3> QED BY <1>1, <2>2, <3>1
  <2>4. log' \in Seq([kind : Kinds, sender : Senders]) /\ Len(log') \in Len(log)..MaxRows
    <3>1. [kind |-> "direct", sender |-> log[c].sender] \in [kind : Kinds, sender : Senders]
      <4>1. log[c] \in [kind : Kinds, sender : Senders]
        <5>1. c \in 1..Len(log)
          BY <1>0, <2>2
        <5> DEFINE R == [kind : Kinds, sender : Senders]
        <5>2. log \in Seq(R)
          BY <1>1
        <5>3. log[c] \in R
          <6> HIDE DEF c, R
          <6> QED BY <5>1, <5>2
        <5> QED BY <5>3
      <4> QED BY <4>1 DEF Kinds
    <3> DEFINE new == [kind |-> "direct", sender |-> log[c].sender]
    <3>2. log' = log \/ (Len(log) < MaxRows /\ log' = Append(log, new))
      BY <2>1
    <3>3. new \in [kind : Kinds, sender : Senders]
      BY <3>1
    <3> HIDE DEF new
    <3>4. CASE log' = log
      BY <1>1, <3>4
    <3>5. CASE Len(log) < MaxRows /\ log' = Append(log, new)
      <4>1. log' \in Seq([kind : Kinds, sender : Senders]) /\ Len(log') = Len(log) + 1
        BY <1>1, <3>3, <3>5
      <4> QED BY <1>1, <3>5, <4>1
    <3> QED BY <3>2, <3>4, <3>5
  <2> HIDE DEF c, rows
  <2> QED BY <2>1, <2>2, <2>3, <2>4, <1>3
<1> QED
  BY <1>2, <1>4, <1>5 DEF Feed

\* An empty desk.
LEMMA Empty ==
    /\ NoJob \in JobType
    /\ NoJob.groups = {} /\ NoJob.last = 0 /\ ~NoJob.steered /\ ~NoJob.finished
<1>1. 0 \in 0..MaxRows
  BY BoundsAssumption
<1> QED
  BY <1>1 DEF NoJob, JobType

\* A consumed group leaves the desk, and its rows are decided.
LEMMA Consumed ==
    ASSUME TypeOK, JobShape, job.groups # {}, Consumes
    PROVE  /\ pc' = "turns" /\ job' \in JobType
           /\ job'.groups = job.groups \ {Current}
           /\ job'.last = job.last /\ job'.steered = job.steered /\ job'.finished
           /\ decided' = decided \cup Current /\ decided' \subseteq Positions
<1>1. job \in JobType /\ decided \subseteq Positions
  BY DEF TypeOK, JobType
<1>2. job' = [job EXCEPT !.groups = job.groups \ {Current}, !.finished = TRUE]
  BY DEF Consumes
<1>3. /\ job'.groups = job.groups \ {Current}
      /\ job'.last = job.last /\ job'.steered = job.steered /\ job'.finished
      /\ job' \in JobType
  <2> DEFINE rest == job.groups \ {Current}
  <2>1. rest \in SUBSET SUBSET Positions
    BY <1>1 DEF JobType
  <2> HIDE DEF rest
  <2> QED BY <1>1, <1>2, <2>1 DEF JobType, rest
<1>4. Current \subseteq Positions
  BY <1>1, CurrentOf DEF JobType
<1> QED
  BY <1>1, <1>3, <1>4 DEF Consumes, Decides

\* Where the worker writes the cursor, and what it has on its desk then.
LEMMA WorkerMoves ==
    ASSUME TypeOK, JobShape, SteerAdvances \/ advanceFinished \/ advance
    PROVE  \E to \in 0..Len(log) :
              /\ Moves(to) /\ busy' \in 0..MaxRows
              /\ UNCHANGED <<log, engaged, done, late, poll, decided, taken, steered, twice>>
              /\ \/ pc = "steered" /\ to = job.last /\ pc' = "turns" /\ UNCHANGED job
                 \/ /\ pc = "unfinished" /\ job.groups # {} /\ to = Min(Current) - 1
                    /\ pc' = "idle" /\ job' = NoJob
                 \/ /\ pc \in {"advance", "turns"} /\ job.groups = {} /\ to = job.last
                    /\ pc' = "idle" /\ job' = NoJob
<1>1. /\ Len(log) \in Nat /\ job.last \in 0..Len(log) /\ 0 \in 0..MaxRows
      /\ job.offered \in 0..MaxRows
  <2>1. Len(log) \in Nat /\ job.last \in 0..MaxRows /\ job.last <= Len(log)
    BY BatchOf DEF TypeOK, JobShape
  <2> QED BY <2>1, BoundsAssumption DEF TypeOK
<1>2. CASE SteerAdvances
  BY <1>1, <1>2 DEF SteerAdvances
<1>3. CASE advanceFinished
  <2>1. job.groups # {}
    BY <1>3 DEF advanceFinished, JobShape
  <2>2. Min(Current) \in 1..job.last
    BY <2>1, CurrentOf
  <2>3. Min(Current) - 1 \in 0..Len(log)
    BY <1>1, <2>2
  <2> QED BY <1>1, <1>3, <2>1, <2>3 DEF advanceFinished
<1>4. CASE advance
  <2>1. pc \in {"advance", "turns"} /\ job.groups = {}
    BY <1>4 DEF advance, JobShape
  <2> QED BY <1>1, <1>4, <2>1 DEF advance
<1> QED
  BY <1>2, <1>3, <1>4

\* The miss that is handled is of rows there are.
LEMMA MissMoves ==
    ASSUME TypeOK, JobShape, routeMiss
    PROVE  /\ Max(poll) \in poll /\ Max(poll) \in 0..Len(log) /\ Moves(Max(poll))
           /\ \A i \in poll : i <= Max(poll)
<1>1. Len(log) \in Nat /\ poll \subseteq 0..Len(log) /\ poll # {}
  BY BatchOf DEF JobShape, routeMiss
<1>2. Max(poll) \in poll /\ \A i \in poll : i <= Max(poll)
  BY <1>1, MaxOf
<1> QED
  BY <1>1, <1>2 DEF routeMiss

\* A group given up is of rows there may be, and its last row names its turn.
LEMMA LateOf ==
    ASSUME TypeOK, NEW g \in late
    PROVE  g \subseteq Positions /\ Max(g) \in g /\ Max(g) \in Positions
<1>1. g \subseteq Positions /\ g # {} /\ MaxRows \in Nat
  BY BoundsAssumption DEF TypeOK
<1>2. g \subseteq 0..MaxRows
  BY <1>1 DEF Positions
<1>3. Max(g) \in g
  BY <1>1, <1>2, MaxOf
<1> QED
  BY <1>1, <1>3

\* Turns go on within the batch: what they leave alone.
LEMMA TurnKeeps ==
    ASSUME Turn
    PROVE  /\ UNCHANGED <<log, cursor, engaged, poll, steered, twice>>
           /\ job.groups # {} \/ pc = "run"
BY DEF Turn, TurnPassed, TurnStarts, SubmitTurn, TurnFinishes, NotConsumed, history

-----------------------------------------------------------------------------
\* The chat starts empty.
LEMMA InitChat == Init => ChatInv
<1> SUFFICES ASSUME Init PROVE ChatInv
  OBVIOUS
<1>1. log = <<>> /\ Len(log) = 0 /\ log \in Seq([kind : Kinds, sender : Senders])
  BY DEF Init
<1>2. 0 \in 0..MaxRows /\ 0 \in 0..MaxFaults /\ MaxRows \in Nat
  BY BoundsAssumption
<1>3. job \in JobType /\ job.groups = {} /\ job.last = 0 /\ ~job.steered /\ ~job.finished
  BY Empty DEF Init
<1>4. TypeOK
  <2>1. engaged \in BOOLEAN
    BY DEF Init
  <2>2. taken \in [Positions -> SUBSET Positions]
    BY DEF Init
  <2> QED BY <1>1, <1>2, <1>3, <2>1, <2>2 DEF Init, TypeOK, JobType
<1>5. JobShape
  BY <1>1, <1>3 DEF Init, JobShape, Ordered
<1>6. Passable /\ SteeredSettled
  BY <1>3 DEF Init, Passable, SteeredSettled
<1>7. TakenSettled
  BY <1>3 DEF Init, TakenSettled
<1> QED
  BY <1>4, <1>5, <1>6, <1>7 DEF ChatInv

\* Every step keeps the types and the shape of the batch.
LEMMA StepShape == TypeOK /\ JobShape /\ [Next]_vars => TypeOK' /\ JobShape'
<1> SUFFICES ASSUME TypeOK, JobShape, [Next]_vars PROVE TypeOK' /\ JobShape'
  OBVIOUS
<1> DEFINE Goal == TypeOK' /\ JobShape'
<1>0. /\ Len(log) \in Nat /\ cursor \in Nat /\ MaxRows \in Nat /\ 1..Len(log) \subseteq Positions
      /\ job \in JobType
  BY BatchOf, BoundsAssumption DEF TypeOK, JobType
<1>1. ASSUME NEW row \in Arrivals, AppendMessage(row) PROVE Goal
  <2>1. /\ row \in [kind : Kinds, sender : Senders]
        /\ log \in Seq([kind : Kinds, sender : Senders])
        /\ log' = Append(log, row) /\ Len(log) < MaxRows
    BY <1>1, ArrivalsAssumption DEF AppendMessage, TypeOK
  <2>2. log' \in Seq([kind : Kinds, sender : Senders]) /\ Len(log') = Len(log) + 1
    BY <2>1
  <2>3. Len(log') <= MaxRows /\ cursor \in 0..Len(log') /\ poll \subseteq 1..Len(log')
        /\ job.last <= Len(log')
    <3>1. cursor \in 0..Len(log) /\ poll \subseteq 1..Len(log) /\ job.last <= Len(log)
          /\ job.last \in 0..MaxRows
      BY DEF TypeOK, JobShape
    <3> QED BY <1>0, <2>1, <2>2, <3>1
  <2>4. UNCHANGED <<cursor, engaged, done, late, pc, job, poll, busy, faults, decided, taken, steered, twice, suspect>>
    BY <1>1 DEF AppendMessage, history
  <2>5. TypeOK'
    BY <2>2, <2>3, <2>4 DEF TypeOK
  <2> QED BY <2>3, <2>4, <2>5 DEF JobShape
<1>2. CASE Engagement
  <2>1. engaged' \in BOOLEAN
    BY <1>2 DEF Engagement
  <2> QED BY <1>2, <2>1 DEF Engagement, history, TypeOK, JobShape
<1>3. CASE WindowPasses
  BY <1>0, <1>3 DEF WindowPasses, history, TypeOK, JobShape
<1>4. ASSUME NEW routesOK \in RouteReads, Feed(routesOK) PROVE Goal
  <2>1. /\ job' \in JobType /\ job'.last \in Batch
        /\ \A g \in job'.groups : g # {} /\ g \subseteq (cursor + 1)..job'.last
        /\ Ordered(job'.groups)
        /\ decided' \subseteq Positions
        /\ \/ pc' = "advance" /\ job'.groups = {} /\ ~job'.steered
           \/ pc' = "turns" /\ ~job'.steered
           \/ pc' = "steered" /\ job'.steered
        /\ \/ pc' # "steered" /\ UNCHANGED <<log, steered, twice>>
           \/ /\ steered' = steered \cup {job'.last}
              /\ twice' = twice \cup ({job'.last} \cap steered)
              /\ log' \in Seq([kind : Kinds, sender : Senders])
              /\ Len(log') \in Len(log)..MaxRows
        /\ busy' \in 0..MaxRows
        /\ UNCHANGED <<cursor, engaged, done, late, poll, faults, taken, suspect>>
    BY <1>4, FeedGives
  <2>2. job'.last \in 1..Len(log) /\ job'.last \in Positions
    BY <1>0, <2>1, BatchOf
  <2>3. log' \in Seq([kind : Kinds, sender : Senders]) /\ Len(log') \in Len(log)..MaxRows
    BY <1>0, <2>1 DEF TypeOK
  <2>4. cursor \in 0..Len(log') /\ poll \subseteq 1..Len(log') /\ job'.last <= Len(log')
        /\ Len(log') <= MaxRows
    <3>1. cursor \in 0..Len(log) /\ poll \subseteq 1..Len(log)
      BY DEF TypeOK, JobShape
    <3> QED BY <1>0, <2>2, <2>3, <3>1
  <2>5. steered' \subseteq Positions /\ twice' \subseteq Positions
    BY <2>1, <2>2 DEF TypeOK
  <2>6. TypeOK'
    BY <2>1, <2>3, <2>4, <2>5 DEF TypeOK, JobType
  <2>7. \A g \in job'.groups : g # {} /\ g \subseteq 1..job'.last
    BY <1>0, <2>1
  <2> QED BY <2>1, <2>4, <2>6, <2>7 DEF JobShape
<1>5. CASE SteerAdvances \/ advanceFinished \/ advance
  <2>1. PICK to \in 0..Len(log) :
              /\ Moves(to) /\ busy' \in 0..MaxRows
              /\ UNCHANGED <<log, engaged, done, late, poll, decided, taken, steered, twice>>
              /\ \/ pc = "steered" /\ to = job.last /\ pc' = "turns" /\ UNCHANGED job
                 \/ pc' = "idle" /\ job' = NoJob
    BY <1>5, WorkerMoves
  <2>2. cursor' \in 0..Len(log) /\ faults' \in 0..MaxFaults /\ suspect' \subseteq Positions
    BY <2>1, MovesSettles DEF TypeOK
  <2>3. job' \in JobType
    BY <1>0, <2>1, Empty
  <2>4. TypeOK'
    BY <2>1, <2>2, <2>3 DEF TypeOK, JobType
  <2>5. CASE pc' = "turns" /\ UNCHANGED job
    BY <2>1, <2>4, <2>5 DEF JobShape
  <2>6. CASE pc' = "idle" /\ job' = NoJob
    <3>1. job'.groups = {} /\ job'.last = 0 /\ UNCHANGED <<log, poll>>
      BY <2>1, <2>6, Empty
    <3> QED BY <1>0, <2>4, <2>6, <3>1 DEF JobShape, Ordered
  <2> QED BY <2>1, <2>5, <2>6
<1>6. CASE Turn
  <2>0. /\ UNCHANGED <<log, cursor, engaged, poll, steered, twice>>
        /\ job.groups # {}
    BY <1>6, TurnKeeps DEF JobShape
  <2>1. Current \in job.groups /\ turnID \in Current /\ Current \subseteq Positions
    BY <1>0, <2>0, CurrentOf DEF JobType
  <2>2. CASE TurnPassed \/ TurnFinishes
    <3>1. /\ pc' = "turns" /\ job' \in JobType
          /\ job'.groups = job.groups \ {Current}
          /\ job'.last = job.last /\ job'.steered = job.steered /\ job'.finished
          /\ decided' \subseteq Positions
      BY <2>0, <2>2, Consumed DEF TurnPassed, TurnFinishes
    <3>2. UNCHANGED <<late, busy, faults, suspect>>
      BY <2>2 DEF TurnPassed, TurnFinishes
    <3>3. done' \subseteq Positions /\ taken' \in [Positions -> SUBSET Positions]
      BY <2>1, <2>2 DEF TurnPassed, TurnFinishes, Closes, turnID, TypeOK
    <3>4. TypeOK'
      BY <2>0, <3>1, <3>2, <3>3 DEF TypeOK, JobType
    <3>5. JobShape'
      BY <2>0, <3>1 DEF JobShape, Ordered
    <3> QED BY <3>4, <3>5
  <2>3. CASE TurnStarts
    BY <2>0, <2>3 DEF TurnStarts, history, TypeOK, JobShape
  <2>4. CASE SubmitTurn
    <3>1. done' \subseteq Positions /\ taken' \in [Positions -> SUBSET Positions]
      BY <2>1, <2>4 DEF SubmitTurn, Closes, turnID, TypeOK
    <3> QED BY <2>0, <2>4, <3>1 DEF SubmitTurn, TypeOK, JobShape
  <2>5. CASE NotConsumed
    <3>0. faults' \in 0..MaxFaults /\ late' \subseteq (SUBSET Positions) \ {{}}
      <4>1. /\ faults \in 0..MaxFaults /\ MaxFaults \in Nat
            /\ late \subseteq (SUBSET Positions) \ {{}} /\ Current # {}
        BY <2>1, BoundsAssumption DEF TypeOK
      <4>2. /\ faults' = faults \/ (faults < MaxFaults /\ faults' = faults + 1)
            /\ late' = late \/ late' = late \cup {Current}
        BY <2>5 DEF NotConsumed, GivesUp
      <4> HIDE DEF Current
      <4> QED BY <2>1, <4>1, <4>2
    <3>1. /\ suspect' \subseteq Positions
          /\ UNCHANGED <<done, decided, taken>>
      BY <2>1, <2>5 DEF NotConsumed, TypeOK
    <3>2. \/ pc' = "unfinished" /\ ~job.steered /\ UNCHANGED <<job, busy>>
          \/ pc' = "idle" /\ job' = NoJob /\ busy' \in {busy, job.offered}
      BY <2>5 DEF NotConsumed
    <3>3. busy' \in 0..MaxRows /\ job' \in JobType
      <4>1. job.offered \in 0..MaxRows /\ busy \in 0..MaxRows
        BY DEF TypeOK
      <4> QED BY <1>0, <3>2, <4>1, Empty
    <3>4. TypeOK'
      BY <2>0, <3>0, <3>1, <3>2, <3>3 DEF TypeOK, JobType
    <3>5. JobShape'
      BY <1>0, <2>0, <3>2, Empty DEF JobShape, Ordered
    <3> QED BY <3>4, <3>5
  <2> QED BY <1>6, <2>2, <2>3, <2>4, <2>5 DEF Turn
<1>7. ASSUME NEW routesOK \in RouteReads, pollMiss(routesOK) PROVE Goal
  <2>1. poll' = Batch /\ Batch \subseteq 1..Len(log)
    BY <1>0, <1>7, BatchOf DEF pollMiss
  <2> QED BY <1>0, <1>7, <2>1 DEF pollMiss, history, TypeOK, JobShape
<1>8. CASE routeMiss
  <2>1. cursor' \in 0..Len(log) /\ faults' \in 0..MaxFaults /\ suspect' \subseteq Positions
    BY <1>8, MissMoves, MovesSettles DEF TypeOK
  <2>2. decided' \subseteq Positions
    BY <1>0, <1>8 DEF routeMiss, Decides, TypeOK
  <2>3. poll' = {} /\ busy' = 0 /\ UNCHANGED <<log, engaged, done, late, pc, job, taken, steered, twice>>
    BY <1>8 DEF routeMiss
  <2>4. TypeOK'
    BY <1>0, <2>1, <2>2, <2>3 DEF TypeOK
  <2> QED BY <2>3, <2>4 DEF JobShape
<1>9. CASE Crash
  <2>1. /\ faults' \in 0..MaxFaults /\ suspect' \subseteq Positions
        /\ pc' = "idle" /\ job' = NoJob /\ poll' = {} /\ busy' = 0 /\ late' = {}
        /\ UNCHANGED <<log, cursor, engaged, done, decided, taken, steered, twice>>
    <3>1. faults \in 0..MaxFaults /\ faults < MaxFaults /\ faults' = faults + 1
      BY <1>9 DEF Crash, TypeOK
    <3>2. faults' \in 0..MaxFaults
      BY <3>1, BoundsAssumption
    <3> QED BY <1>9, <3>2 DEF Crash, TypeOK
  <2>2. TypeOK'
    BY <1>0, <2>1, Empty DEF TypeOK, JobType
  <2> QED BY <1>0, <2>1, <2>2, Empty DEF JobShape, Ordered
<1>10. ASSUME NEW g \in late, LateSubmit(g) PROVE Goal
  <2>1. g \subseteq Positions /\ Max(g) \in Positions
    BY <1>10, LateOf
  <2>2. /\ done' = done \cup {Max(g)} /\ late' = late \ {g} /\ suspect' = suspect \cup g
        /\ taken' = [i \in Positions |-> IF i \in g THEN taken[i] \cup {Max(g)} ELSE taken[i]]
        /\ UNCHANGED <<log, cursor, engaged, pc, job, poll, busy, faults, decided, steered, twice>>
    BY <1>10 DEF LateSubmit, Closes
  <2>3. TypeOK'
    BY <2>1, <2>2 DEF TypeOK
  <2> QED BY <2>2, <2>3 DEF JobShape
<1>11. CASE UNCHANGED vars
  BY <1>11 DEF vars, history, TypeOK, JobShape
<1> QED
  BY <1>1, <1>2, <1>3, <1>4, <1>5, <1>6, <1>7, <1>8, <1>9, <1>10, <1>11 DEF Next, Worker, Poll

-----------------------------------------------------------------------------
\* Whatever writes the cursor next, no undecided row is below.
LEMMA StepPassable == TypeOK /\ JobShape /\ Passable /\ [Next]_vars => Passable'
<1> SUFFICES ASSUME TypeOK, JobShape, Passable, [Next]_vars PROVE Passable'
  OBVIOUS
<1>0. /\ Len(log) \in Nat /\ cursor \in Nat /\ job.last \in 0..Len(log)
      /\ poll \subseteq 1..Len(log)
  <2>1. Len(log) \in Nat /\ cursor \in 0..Len(log) /\ job.last \in 0..MaxRows /\ job.last <= Len(log)
    BY BatchOf DEF TypeOK, JobShape
  <2> QED BY <2>1 DEF JobShape
<1>1. CASE (\E row \in Arrivals : AppendMessage(row)) \/ Engagement \/ WindowPasses
  <2>1. UNCHANGED <<cursor, pc, job, poll, history>>
    BY <1>1 DEF AppendMessage, Engagement, WindowPasses
  <2> QED BY <2>1 DEF history, Passable
<1>2. ASSUME NEW routesOK \in RouteReads, Feed(routesOK) PROVE Passable'
  <2>1. /\ job'.last \in Batch /\ decided \subseteq decided'
        /\ \A i \in (cursor + 1)..job'.last : i \in decided' \/ \E g \in job'.groups : i \in g
        /\ job'.steered => \A i \in (cursor + 1)..job'.last : i \in decided'
        /\ UNCHANGED <<cursor, poll>>
    BY <1>2, FeedGives
  <2>2. job'.last \in Nat
    BY <1>0, <2>1, BatchOf
  <2>3. \A i \in 1..job'.last : i \in 1..cursor \/ i \in (cursor + 1)..job'.last
    BY <1>0, <2>2
  <2> QED BY <2>1, <2>3 DEF Passable
<1>3. CASE SteerAdvances \/ advanceFinished \/ advance
  <2>1. PICK to \in 0..Len(log) :
              /\ Moves(to)
              /\ UNCHANGED <<poll, decided>>
              /\ \/ pc = "steered" /\ to = job.last /\ UNCHANGED job
                 \/ /\ pc = "unfinished" /\ job.groups # {} /\ to = Min(Current) - 1
                    /\ job' = NoJob
                 \/ job.groups = {} /\ to = job.last /\ job' = NoJob
    BY <1>3, WorkerMoves
  <2>2. cursor' \in {cursor, to}
    BY <2>1, MovesSettles
  <2>3. \A i \in 1..to : i \in decided
    <3>1. CASE pc = "steered" /\ to = job.last
      BY <3>1 DEF JobShape, Passable
    <3>2. CASE job.groups = {} /\ to = job.last
      BY <3>2 DEF Passable
    <3>3. CASE job.groups # {} /\ to = Min(Current) - 1
      <4>1. /\ Current \in job.groups /\ Current \subseteq 1..job.last
            /\ Min(Current) \in Current /\ \A i \in Current : Min(Current) <= i
            /\ \A h \in job.groups : h = Current \/ \A a \in Current, b \in h : a < b
        BY <3>3, CurrentOf
      <4>2. \A g \in job.groups : \A b \in g : b \in Nat /\ Min(Current) <= b
        <5>1. Min(Current) \in Nat /\ \A g \in job.groups : g \subseteq Nat
          BY <1>0, <4>1 DEF JobShape
        <5> QED BY <4>1, <5>1
      <4>3. Min(Current) \in 1..job.last
        BY <4>1
      <4> HIDE DEF Current
      <4>4. ASSUME NEW i \in 1..to PROVE i \in decided
        <5>1. i \in 1..job.last /\ i < Min(Current)
          BY <1>0, <3>3, <4>3
        <5>2. ~\E g \in job.groups : i \in g
          BY <4>2, <4>3, <5>1
        <5> QED BY <5>1, <5>2 DEF Passable
      <4> QED BY <4>4
    <3> QED BY <2>1, <3>1, <3>2, <3>3
  <2>4. \A i \in 1..cursor' : i \in decided'
    BY <2>1, <2>2, <2>3 DEF Passable
  <2> QED BY <2>1, <2>4, Empty DEF Passable
<1>4. CASE Turn
  <2>0. UNCHANGED <<cursor, poll>> /\ job.groups # {}
    BY <1>4, TurnKeeps DEF JobShape
  <2>1. CASE TurnPassed \/ TurnFinishes
    <3>1. /\ job'.groups = job.groups \ {Current}
          /\ job'.last = job.last /\ job'.steered = job.steered
          /\ decided' = decided \cup Current
      BY <2>0, <2>1, Consumed DEF TurnPassed, TurnFinishes
    <3> QED BY <2>0, <3>1 DEF Passable
  <2>2. CASE TurnStarts \/ SubmitTurn
    BY <2>0, <2>2 DEF TurnStarts, SubmitTurn, history, Passable
  <2>3. CASE NotConsumed
    <3>1. decided' = decided /\ (job' = job \/ job' = NoJob)
      BY <2>3 DEF NotConsumed
    <3> QED BY <2>0, <3>1, Empty DEF Passable
  <2> QED BY <1>4, <2>1, <2>2, <2>3 DEF Turn
<1>5. ASSUME NEW routesOK \in RouteReads, pollMiss(routesOK) PROVE Passable'
  <2>1. poll' = Batch /\ UNCHANGED <<cursor, job, decided>>
    BY <1>5 DEF pollMiss, history
  <2>2. \A m \in Batch : m \in Nat /\ \A i \in (cursor + 1)..m : i \in Batch
    BY <1>0, BatchOf
  <2>3. \A m \in Batch : \A i \in 1..m : i \in 1..cursor \/ i \in (cursor + 1)..m
    BY <1>0, <2>2
  <2> QED BY <2>1, <2>2, <2>3 DEF Passable
<1>6. CASE routeMiss
  <2>1. /\ Max(poll) \in poll /\ cursor' \in {cursor, Max(poll)}
        /\ decided' = decided \cup poll /\ poll' = {} /\ UNCHANGED job
    BY <1>6, MissMoves, MovesSettles DEF routeMiss, Decides
  <2>2. \A i \in 1..Max(poll) : i \in decided'
    BY <2>1 DEF Passable
  <2> QED BY <2>1, <2>2 DEF Passable
<1>7. CASE Crash
  BY <1>7, Empty DEF Crash, Passable
<1>8. ASSUME NEW g \in late, LateSubmit(g) PROVE Passable'
  BY <1>8 DEF LateSubmit, Passable
<1>9. CASE UNCHANGED vars
  BY <1>9 DEF vars, history, Passable
<1> QED
  BY <1>1, <1>2, <1>3, <1>4, <1>5, <1>6, <1>7, <1>8, <1>9 DEF Next, Worker, Poll

\* A command that has been run is passed, or known to be put up again.
LEMMA StepSteered ==
    TypeOK /\ JobShape /\ SteeredSettled /\ [Next]_vars => SteeredSettled'
<1> SUFFICES ASSUME TypeOK, JobShape, SteeredSettled, [Next]_vars PROVE SteeredSettled'
  OBVIOUS
<1>0. /\ Len(log) \in Nat /\ cursor \in Nat /\ job.last \in 0..Len(log)
      /\ steered \subseteq Positions /\ 1..job.last \subseteq Positions
  <2>1. Len(log) \in Nat /\ cursor \in 0..Len(log) /\ job.last \in 0..MaxRows /\ job.last <= Len(log)
        /\ MaxRows \in Nat
    BY BatchOf, BoundsAssumption DEF TypeOK, JobShape
  <2> QED BY <2>1 DEF TypeOK, Positions
<1>1. CASE (\E row \in Arrivals : AppendMessage(row)) \/ Engagement \/ WindowPasses
  <2>1. UNCHANGED <<cursor, pc, job, poll, history>>
    BY <1>1 DEF AppendMessage, Engagement, WindowPasses
  <2> QED BY <2>1 DEF history, SteeredSettled, Settled
<1>2. ASSUME NEW routesOK \in RouteReads, Feed(routesOK) PROVE SteeredSettled'
  <2>1. /\ pc = "idle" /\ job'.last \in Batch /\ UNCHANGED <<cursor, suspect>>
        /\ pc' # "steered" => ~job'.steered
        /\ \/ pc' # "steered" /\ UNCHANGED <<log, steered, twice>>
           \/ /\ pc' = "steered"
              /\ steered' = steered \cup {job'.last}
              /\ twice' = twice \cup ({job'.last} \cap steered)
    BY <1>2, FeedGives
  <2>2. ~(job'.last <= cursor)
    BY <1>0, <2>1, BatchOf
  <2>3. \A i \in steered : Settled(i)
    BY <2>1 DEF SteeredSettled
  <2>4. twice' \subseteq suspect
    BY <2>1, <2>2, <2>3 DEF SteeredSettled, Settled
  <2> QED BY <2>1, <2>3, <2>4 DEF SteeredSettled, Settled
<1>3. CASE SteerAdvances \/ advanceFinished \/ advance
  <2>1. PICK to \in 0..Len(log) :
              /\ Moves(to) /\ UNCHANGED <<steered, twice>>
              /\ \/ pc = "steered" /\ to = job.last /\ pc' = "turns" /\ UNCHANGED job
                 \/ pc # "steered" /\ pc' = "idle" /\ job' = NoJob
    BY <1>3, WorkerMoves
  <2>2. /\ suspect \subseteq suspect'
        /\ \A i \in Positions : Settled(i) => Settled(i)'
        /\ \A i \in 1..to : Settled(i)'
    BY <2>1, MovesSettles
  <2>3. \A i \in steered' : Settled(i)'
    <3>1. \A i \in Positions : i = job.last => i \in 1..job.last
      BY <1>0 DEF Positions
    <3> QED BY <1>0, <2>1, <2>2, <3>1 DEF SteeredSettled
  <2>4. job'.steered => \A i \in 1..job'.last : Settled(i)'
    BY <2>1, <2>2, Empty
  <2> QED BY <2>1, <2>2, <2>3, <2>4 DEF SteeredSettled
<1>4. CASE Turn
  <2>0. UNCHANGED <<cursor, steered, twice>> /\ pc # "steered"
    BY <1>4, TurnKeeps DEF Turn, TurnPassed, TurnStarts, SubmitTurn, TurnFinishes, NotConsumed
  <2>1. suspect \subseteq suspect'
    BY <1>4 DEF Turn, TurnPassed, TurnStarts, SubmitTurn, TurnFinishes, NotConsumed, history
  <2>2. \A i : Settled(i) => Settled(i)'
    BY <2>0, <2>1 DEF Settled
  <2>3. job'.steered => job.steered /\ job'.last = job.last
    <3>1. CASE TurnPassed \/ TurnFinishes
      <4>1. job.groups # {}
        BY <3>1 DEF TurnPassed, TurnFinishes, JobShape
      <4> QED BY <3>1, <4>1, Consumed DEF TurnPassed, TurnFinishes
    <3>2. CASE TurnStarts \/ SubmitTurn
      BY <3>2 DEF TurnStarts, SubmitTurn
    <3>3. CASE NotConsumed
      <4>1. job' = job \/ job' = NoJob
        BY <3>3 DEF NotConsumed
      <4> QED BY <4>1, Empty
    <3> QED BY <1>4, <3>1, <3>2, <3>3 DEF Turn
  <2> QED BY <2>0, <2>1, <2>2, <2>3 DEF SteeredSettled
<1>5. ASSUME NEW routesOK \in RouteReads, pollMiss(routesOK) PROVE SteeredSettled'
  BY <1>5 DEF pollMiss, history, SteeredSettled, Settled
<1>6. CASE routeMiss
  <2>1. /\ suspect \subseteq suspect' /\ UNCHANGED <<pc, job, steered, twice>>
        /\ \A i \in Positions : Settled(i) => Settled(i)'
    BY <1>6, MissMoves, MovesSettles DEF routeMiss
  <2> QED BY <1>0, <2>1 DEF SteeredSettled
<1>7. CASE Crash
  <2>1. /\ job' = NoJob /\ suspect \subseteq suspect' /\ UNCHANGED <<cursor, steered, twice>>
        /\ \A i \in Positions : i > cursor /\ i \in steered => i \in suspect'
    BY <1>7 DEF Crash
  <2>2. \A i \in steered : Settled(i)'
    BY <1>0, <2>1 DEF Settled, Positions
  <2> QED BY <2>1, <2>2, Empty DEF SteeredSettled
<1>8. ASSUME NEW g \in late, LateSubmit(g) PROVE SteeredSettled'
  BY <1>8 DEF LateSubmit, SteeredSettled, Settled
<1>9. CASE UNCHANGED vars
  BY <1>9 DEF vars, history, SteeredSettled, Settled
<1> QED
  BY <1>1, <1>2, <1>3, <1>4, <1>5, <1>6, <1>7, <1>8, <1>9 DEF Next, Worker, Poll

\* A row that a turn has taken is passed, known to be put up again, or about to
\* be passed; a row that waits for its turn has had none.
LEMMA StepTaken ==
    TypeOK /\ JobShape /\ SteeredSettled /\ TakenSettled /\ [Next]_vars => TakenSettled'
<1> SUFFICES ASSUME TypeOK, JobShape, SteeredSettled, TakenSettled, [Next]_vars
             PROVE  TakenSettled'
  OBVIOUS
<1>0. /\ Len(log) \in Nat /\ cursor \in Nat /\ job.last \in 0..Len(log)
      /\ 1..Len(log) \subseteq Positions /\ Positions \subseteq Nat
      /\ \A g \in job.groups : g \subseteq Positions /\ g \subseteq 1..job.last
  <2>1. Len(log) \in Nat /\ cursor \in 0..Len(log) /\ job.last \in 0..MaxRows /\ job.last <= Len(log)
        /\ MaxRows \in Nat /\ job.groups \subseteq SUBSET Positions
    BY BatchOf, BoundsAssumption DEF TypeOK, JobShape
  <2> QED BY <2>1 DEF TypeOK, Positions, JobShape
\* No row is taken, no group comes or goes: it is enough that what is settled,
\* finished or running stays so.
<1>1. CASE (\E row \in Arrivals : AppendMessage(row)) \/ Engagement \/ WindowPasses
           \/ (\E routesOK \in RouteReads : pollMiss(routesOK)) \/ UNCHANGED vars
  <2>1. UNCHANGED <<cursor, pc, job, done, taken, suspect>>
    BY <1>1 DEF AppendMessage, Engagement, WindowPasses, pollMiss, vars, history
  <2> QED BY <2>1 DEF TakenSettled, Settled, Finished, Current
<1>2. ASSUME NEW routesOK \in RouteReads, Feed(routesOK) PROVE TakenSettled'
  <2>1. /\ pc = "idle" /\ job'.last \in Batch /\ pc' \in {"advance", "turns", "steered"}
        /\ \A g \in job'.groups : g # {} /\ g \subseteq (cursor + 1)..job'.last
        /\ UNCHANGED <<cursor, done, taken, suspect>>
    BY <1>2, FeedGives
  <2>2. \A i \in Positions : taken[i] # {} => Settled(i)
    BY <2>1 DEF TakenSettled, Finished
  <2>3. job'.last \in 1..Len(log)
    BY <1>0, <2>1, BatchOf
  <2>4. \A g \in job'.groups : \A i \in g : i \in Positions /\ ~(i <= cursor)
    BY <1>0, <2>1, <2>3
  <2>5. \A g \in job'.groups : \A i \in g : \A t \in taken[i] : i \in suspect
    BY <2>2, <2>4 DEF Settled
  <2> QED BY <2>1, <2>2, <2>5 DEF TakenSettled, Settled
<1>3. CASE SteerAdvances \/ advanceFinished \/ advance
  <2>1. PICK to \in 0..Len(log) :
              /\ Moves(to) /\ UNCHANGED <<done, taken>>
              /\ \/ pc = "steered" /\ to = job.last /\ pc' = "turns" /\ UNCHANGED job
                 \/ /\ pc = "unfinished" /\ job.groups # {} /\ to = Min(Current) - 1
                    /\ pc' = "idle" /\ job' = NoJob
                 \/ /\ pc \in {"advance", "turns"} /\ job.groups = {} /\ to = job.last
                    /\ pc' = "idle" /\ job' = NoJob
    BY <1>3, WorkerMoves
  <2>2. /\ suspect \subseteq suspect'
        /\ \A i \in Positions : Settled(i) => Settled(i)'
        /\ \A i \in 1..to : Settled(i)'
    BY <2>1, MovesSettles
  <2>3. ASSUME NEW i \in Positions, taken[i] # {} PROVE Settled(i)'
    <3>1. Settled(i) \/ Finished(i)
      BY <2>1, <2>3 DEF TakenSettled
    <3>2. CASE Finished(i)
      <4>1. i \in 1..to
        <5>1. i <= job.last /\ i \in Nat /\ i # 0 /\ pc # "steered"
          BY <1>0, <3>2 DEF Finished, Positions
        <5>2. CASE to = job.last
          BY <1>0, <5>1, <5>2
        <5>3. CASE job.groups # {} /\ to = Min(Current) - 1
          <6>1. Min(Current) \in Current /\ Current \in job.groups
            BY <5>3, CurrentOf
          <6>2. Min(Current) \in Nat /\ i < Min(Current)
            BY <1>0, <3>2, <6>1 DEF Finished
          <6> QED BY <5>1, <5>3, <6>2
        <5> QED BY <2>1, <5>2, <5>3
      <4> QED BY <2>2, <4>1
    <3> QED BY <2>2, <3>1, <3>2
  <2>4. \A g \in job'.groups : \A i \in g : \A t \in taken[i] : i \in suspect'
    BY <2>1, <2>2, Empty DEF TakenSettled
  <2> QED BY <2>1, <2>2, <2>3, <2>4 DEF TakenSettled
<1>4. CASE Turn
  <2>0. UNCHANGED cursor /\ job.groups # {}
    BY <1>4, TurnKeeps DEF JobShape
  <2>1. /\ Current \in job.groups /\ Current \subseteq 1..job.last /\ turnID = Max(Current)
        /\ turnID \in Current /\ Current \subseteq Positions
        /\ \A h \in job.groups : h = Current \/ \A a \in Current, b \in h : a < b
    BY <1>0, <2>0, CurrentOf DEF turnID
  <2>2. \A h \in job.groups : h # Current => \A i \in h : i \notin Current
    <3>1. \A h \in job.groups : \A i \in h : i \in Nat
      BY <1>0
    <3> QED BY <2>1, <3>1
  <2>3. taken \in [Positions -> SUBSET Positions]
    BY DEF TypeOK
  \* A turn that closes finds its rows in no other.
  <2>4. ASSUME Closes(Current), pc = "run"
        PROVE  /\ \A i \in Positions : taken'[i] = IF i \in Current THEN taken[i] \cup {turnID}
                                                                   ELSE taken[i]
               /\ \A i \in Positions : taken'[i] \subseteq done'
               /\ \A i \in Positions : i \in suspect \/ \A t, u \in taken'[i] : t = u
               /\ \A g \in job.groups : \A i \in g : \A t \in taken'[i] :
                      i \in suspect \/ (g = Current /\ t = Max(g))
    <3>1. \A i \in Positions : taken'[i] = IF i \in Current THEN taken[i] \cup {turnID}
                                                            ELSE taken[i]
      BY <2>4 DEF Closes, turnID
    <3>2. done' = done \cup {turnID}
      BY <2>4 DEF Closes, turnID
    <3>3. \A i \in Current : i \in suspect \/ \A t \in taken[i] : t = turnID
      BY <2>1, <2>4 DEF TakenSettled
    <3> HIDE DEF turnID, Current
    <3>4. \A i \in Positions : taken'[i] \subseteq done'
      BY <3>1, <3>2 DEF TakenSettled
    <3>5. \A i \in Positions : i \in suspect \/ \A t, u \in taken'[i] : t = u
      BY <3>1, <3>3 DEF TakenSettled
    <3>6. \A g \in job.groups : \A i \in g : \A t \in taken'[i] :
              i \in suspect \/ (g = Current /\ t = Max(g))
      <4>1. SUFFICES ASSUME NEW g \in job.groups, NEW i \in g, NEW t \in taken'[i]
                     PROVE  i \in suspect \/ (g = Current /\ t = Max(g))
        OBVIOUS
      <4>2. i \in Positions
        BY <1>0
      <4>3. CASE t \in taken[i]
        BY <4>3 DEF TakenSettled
      <4>4. CASE t \notin taken[i]
        <5>1. i \in Current /\ t = turnID
          BY <3>1, <4>2, <4>4
        <5> QED BY <2>1, <2>2, <5>1
      <4> QED BY <4>3, <4>4
    <3> QED BY <3>1, <3>4, <3>5, <3>6
  <2>5. CASE TurnPassed \/ TurnFinishes
    <3>1. /\ pc' = "turns" /\ job'.groups = job.groups \ {Current}
          /\ job'.last = job.last /\ job'.steered = job.steered /\ job'.finished
      BY <2>0, <2>5, Consumed DEF TurnPassed, TurnFinishes
    <3>2. UNCHANGED suspect /\ pc \in {"turns", "run"}
      BY <2>5 DEF TurnPassed, TurnFinishes
    <3>3. ASSUME NEW i \in Positions, taken[i] # {} \/ i \in Current,
                 pc # "run" => i \notin Current
          PROVE  Settled(i)' \/ Finished(i)'
      <4>1. CASE Settled(i)
        BY <2>0, <3>2, <4>1 DEF Settled
      <4>2. CASE Finished(i)
        BY <3>1, <4>2 DEF Finished
      <4>3. CASE i \in Current
        <5>1. i <= job.last /\ i \in 1..job.last
          BY <1>0, <2>1, <4>3
        <5>2. CASE job.steered
          BY <2>0, <3>2, <5>1, <5>2 DEF SteeredSettled, Settled
        <5>3. CASE ~job.steered
          <6>1. \A g \in job'.groups : \A j \in g : i < j
            BY <2>1, <3>1, <4>3
          <6> QED BY <3>1, <5>1, <5>3, <6>1 DEF Finished
        <5> QED BY <5>2, <5>3
      <4> QED BY <3>3, <4>1, <4>2, <4>3 DEF TakenSettled
    <3>4. CASE TurnPassed
      <4>1. UNCHANGED <<done, taken>> /\ pc = "turns"
        BY <3>4 DEF TurnPassed
      <4>2. \A i \in Positions : taken[i] # {} => Settled(i)' \/ Finished(i)'
        <5>1. ASSUME NEW i \in Positions, taken[i] # {} PROVE Settled(i)' \/ Finished(i)'
          <6>1. Settled(i) \/ Finished(i)
            BY <4>1, <5>1 DEF TakenSettled
          <6> QED BY <2>0, <3>1, <3>2, <6>1 DEF Settled, Finished
        <5> QED BY <5>1
      <4>3. \A g \in job'.groups : \A i \in g : \A t \in taken[i] : i \in suspect
        BY <3>1, <4>1 DEF TakenSettled
      <4> QED BY <3>2, <4>1, <4>2, <4>3 DEF TakenSettled
    <3>5. CASE TurnFinishes
      <4>1. Closes(Current) /\ pc = "run"
        BY <3>5 DEF TurnFinishes
      <4>2. \A i \in Positions : taken'[i] # {} => taken[i] # {} \/ i \in Current
        BY <2>4, <4>1
      <4>3. \A i \in Positions : taken'[i] # {} => Settled(i)' \/ Finished(i)'
        BY <3>3, <4>1, <4>2
      <4>4. \A g \in job'.groups : \A i \in g : \A t \in taken'[i] : i \in suspect
        BY <2>4, <3>1, <4>1
      <4> QED BY <2>4, <3>2, <4>1, <4>3, <4>4 DEF TakenSettled
    <3> QED BY <2>5, <3>4, <3>5
  <2>6. CASE TurnStarts
    <3>1. UNCHANGED <<cursor, job, done, taken, suspect>> /\ pc = "turns" /\ pc' = "run"
      BY <2>6 DEF TurnStarts, history
    <3> QED BY <3>1 DEF TakenSettled, Settled, Finished
  <2>7. CASE SubmitTurn
    <3>1. Closes(Current) /\ pc = "run" /\ UNCHANGED <<cursor, pc, job, suspect>>
      BY <2>7 DEF SubmitTurn
    <3>2. \A i \in Positions : taken'[i] # {} => taken[i] # {} \/ i \in Current
      BY <2>4, <3>1
    <3>3. Current' = Current
      BY <3>1 DEF Current
    <3>4. \A i \in Positions : taken'[i] # {} => Settled(i)' \/ Finished(i)' \/ i \in Current
      BY <3>1, <3>2 DEF TakenSettled, Settled, Finished
    <3> HIDE DEF Current
    <3> QED BY <2>4, <3>1, <3>3, <3>4 DEF TakenSettled
  <2>8. CASE NotConsumed
    <3>1. /\ pc \in {"turns", "run"} /\ UNCHANGED <<done, taken>>
          /\ suspect' = IF turnID \in done THEN suspect \cup Current ELSE suspect
          /\ \/ job.finished /\ ~job.steered /\ pc' = "unfinished" /\ UNCHANGED job
             \/ ~(job.finished /\ ~job.steered) /\ pc' = "idle" /\ job' = NoJob
      BY <2>8 DEF NotConsumed
    <3>2. suspect \subseteq suspect'
      BY <3>1
    <3>3. \A i \in Current : taken[i] # {} => i \in suspect'
      <4>1. \A i \in Current : \A t \in taken[i] : i \in suspect \/ t = turnID
        BY <2>1 DEF TakenSettled
      <4>2. \A i \in Current : taken[i] \subseteq done
        BY <2>1 DEF TakenSettled
      <4> QED BY <3>1, <4>1, <4>2
    <3>4. ASSUME NEW i \in Positions, taken[i] # {} PROVE Settled(i)' \/ Finished(i)'
      <4>1. CASE Settled(i)
        BY <2>0, <3>2, <4>1 DEF Settled
      <4>2. CASE i \in Current
        BY <3>3, <3>4, <4>2 DEF Settled
      <4>3. CASE Finished(i)
        BY <3>1, <4>3 DEF Finished
      <4> QED BY <3>4, <4>1, <4>2, <4>3 DEF TakenSettled
    <3>5. \A g \in job'.groups : \A i \in g : \A t \in taken[i] : i \in suspect'
      <4>1. \A g \in job.groups : \A i \in g : \A t \in taken[i] : i \in suspect \/ g = Current
        BY DEF TakenSettled
      <4>2. job'.groups = {} \/ job'.groups = job.groups
        BY <3>1, Empty
      <4> QED BY <3>2, <3>3, <4>1, <4>2
    <3> QED BY <3>1, <3>2, <3>4, <3>5 DEF TakenSettled
  <2> QED BY <1>4, <2>5, <2>6, <2>7, <2>8 DEF Turn
<1>5. CASE routeMiss
  <2>1. /\ suspect \subseteq suspect' /\ UNCHANGED <<pc, job, done, taken>>
        /\ \A i \in Positions : Settled(i) => Settled(i)'
    BY <1>5, MissMoves, MovesSettles DEF routeMiss
  <2>2. Current' = Current /\ \A i : Finished(i)' <=> Finished(i)
    BY <2>1 DEF Current, Finished
  <2> HIDE DEF Current
  <2> QED BY <2>1, <2>2 DEF TakenSettled
<1>6. CASE Crash
  <2>1. /\ job' = NoJob /\ pc' = "idle" /\ suspect \subseteq suspect' /\ UNCHANGED <<cursor, done, taken>>
        /\ \A i \in Positions : i > cursor /\ taken[i] # {} => i \in suspect'
    BY <1>6 DEF Crash
  <2>2. \A i \in Positions : taken[i] # {} => Settled(i)'
    BY <1>0, <2>1 DEF Settled
  <2> QED BY <2>1, <2>2, Empty DEF TakenSettled
\* The rows of a turn that closes late become suspect.
<1>7. ASSUME NEW g \in late, LateSubmit(g) PROVE TakenSettled'
  <2>1. g \subseteq Positions /\ Max(g) \in Positions
    BY <1>7, LateOf
  <2>2. /\ done' = done \cup {Max(g)} /\ suspect' = suspect \cup g
        /\ \A i \in Positions : taken'[i] = IF i \in g THEN taken[i] \cup {Max(g)} ELSE taken[i]
        /\ UNCHANGED <<cursor, pc, job>>
    BY <1>7 DEF LateSubmit, Closes
  <2>3. /\ \A i \in Positions : i \in suspect' \/ taken'[i] = taken[i]
        /\ \A i \in Positions : taken'[i] \subseteq done'
    BY <2>1, <2>2 DEF TakenSettled
  <2>4. /\ Current' = Current /\ \A i : Finished(i)' <=> Finished(i)
        /\ \A i : Settled(i) => Settled(i)'
        /\ \A i : i \in suspect' => Settled(i)'
    BY <2>2 DEF Current, Finished, Settled
  <2> HIDE DEF Current
  <2>5. \A i \in Positions : taken'[i] # {} =>
            Settled(i)' \/ Finished(i)' \/ (pc' = "run" /\ i \in Current)
    BY <2>2, <2>3, <2>4 DEF TakenSettled
  <2>6. \A h \in job.groups : \A i \in h : \A t \in taken'[i] :
            i \in suspect' \/ (pc' = "run" /\ h = Current /\ t = Max(h))
    BY <1>0, <2>2, <2>3 DEF TakenSettled
  <2>7. \A i \in Positions : i \in suspect' \/ \A t, u \in taken'[i] : t = u
    BY <2>2, <2>3 DEF TakenSettled
  <2> QED BY <2>2, <2>3, <2>4, <2>5, <2>6, <2>7 DEF TakenSettled
<1> QED
  BY <1>1, <1>2, <1>3, <1>4, <1>5, <1>6, <1>7 DEF Next, Worker, Poll

-----------------------------------------------------------------------------
\* The invariant of the chat holds in every reachable state.
THEOREM ChatInvariant == Spec => []ChatInv
<1>1. Init => ChatInv
  BY InitChat
<1>2. ChatInv /\ [Next]_vars => ChatInv'
  BY StepShape, StepPassable, StepSteered, StepTaken DEF ChatInv
<1> QED
  BY <1>1, <1>2, PTL DEF Spec

\* Every variable keeps its type, and the cursor stays within the log.
THEOREM TypeCorrect == Spec => []TypeOK
<1>1. ChatInv => TypeOK
  BY DEF ChatInv
<1> QED
  BY <1>1, ChatInvariant, PTL

\* Worker, poll, steers, refusals, crashes and lost writes in any order: the
\* cursor never passes a row that nobody has decided.
THEOREM NoneSkipped == Spec => []NothingSkipped
<1>1. ChatInv => NothingSkipped
  BY DEF ChatInv, Passable, NothingSkipped
<1> QED
  BY <1>1, ChatInvariant, PTL

\* A set with at most one member has no more than one.
LEMMA AtMostOne ==
    ASSUME NEW S, \A t, u \in S : t = u
    PROVE  ~(Cardinality(S) > 1)
<1>1. CASE S = {}
  BY <1>1, FS_EmptySet
<1>2. CASE S # {}
  <2>1. PICK t \in S : TRUE
    BY <1>2
  <2>2. S = {t}
    BY <2>1
  <2> QED BY <2>2, FS_Singleton
<1> QED
  BY <1>1, <1>2

\* No row is in two turns that are done and no command is run twice, but where
\* a write of the cursor was lost or taken back, an answer was lost, or it came
\* after the worker had given the turn up.
THEOREM RepeatsAreSuspect == Spec => []RepeatedOnlyIfSuspect
<1>1. ASSUME ChatInv PROVE RepeatedOnlyIfSuspect
  <2>1. \A i \in Positions : i \in suspect \/ \A t, u \in taken[i] : t = u
    BY <1>1 DEF ChatInv, TakenSettled
  <2>2. \A i \in Positions : i \in suspect \/ ~(Cardinality(taken[i]) > 1)
    BY <2>1, AtMostOne
  <2> QED BY <1>1, <2>2 DEF ChatInv, SteeredSettled, RepeatedOnlyIfSuspect
<1>2. ChatInv => RepeatedOnlyIfSuspect
  BY <1>1
<1> QED
  BY <1>2, ChatInvariant, PTL
=============================================================================
