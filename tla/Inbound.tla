------------------------------ MODULE Inbound ------------------------------
(***************************************************************************)
(* A message on its way in: an adapter delivers a platform event to routd  *)
(* (chanlib SendMessage), keeps it when routd is away (chanlib inbound.go, *)
(* chanstore inbound_pending.go) or leaves it on the platform's cursor     *)
(* (teled poll), and routd appends it to its chat (routd handleMessages,   *)
(* store putMessage and appendInstant).                                    *)
(*                                                                         *)
(* A row's key is its instant and its id, so an id is not a key: an append *)
(* reads the chat's newest key, looks for its own id when its instant is   *)
(* not past it, and puts under "absent".  Handlers of one chat run side by *)
(* side, and a handler goes on after its caller's timeout.                 *)
(*                                                                         *)
(* One chat.  Messages are numbered in the order they happen.  Instants    *)
(* count nanoseconds from the start, Second of them to a second.           *)
(***************************************************************************)
EXTENDS Naturals, FiniteSets, FiniteSetsExt

CONSTANTS Msgs,        \* the messages, 1 .. n
          MaxRefused,  \* how many of them routd may refuse as formed (400)
          Handlers,    \* requests routd serves at a time
          Mixes,       \* which message is of which kind: the mixes of kinds looked at
          Second,      \* nanoseconds to a second: more than a chat has rows
          MaxTime,     \* bound on the clock, in seconds
          MaxFaults    \* bound on timeouts, crashes and failed writes

(* pull: a Telegram message, stamped by the platform.  press: a button     *)
(* pressed there, stamped by teled when it polls.  push: an event slakd or *)
(* discd has consumed, stamped once.                                       *)
Kinds == {"pull", "press", "push"}

ASSUME MixesAssumption == Mixes \subseteq [Msgs -> Kinds]
ASSUME MsgsAssumption == Msgs \subseteq Nat \ {0} /\ MaxRefused \in Nat
ASSUME BoundsAssumption == /\ MaxTime \in Nat /\ MaxFaults \in Nat
                           /\ Second \in Nat \ {0}

VARIABLES
    kind,
    refused,   \* the messages routd refuses as formed
    clock,
    sent,      \* sent[m]: the second m happened, or Never
    send,      \* send[m]: the SendMessage or sweep under way for m
    retained,  \* the ids in inbound_pending
    offset,    \* teled's offset: the last update it is past
    saved,     \* the offset on its disk
    handler,   \* handler[h]: a POST /v1/messages in routd
    rows,      \* the chat's rows, each [at, msg]
    cursor,    \* the key the poll loop has fed up to
    fed,       \* the rows it has fed                               (history)
    refusedYet,\* push messages dropped because routd refused them  (history)
    raced,     \* messages whose put met a chat that had grown      (history)
    excused,   \* push messages a crash or a failed write has lost  (history)
    faults

vars == <<kind, refused, clock, sent, send, retained, offset, saved, handler, rows, cursor, fed,
          refusedYet, raced, excused, faults>>

Never == MaxTime + 1
Quiet == [pc |-> "idle", by |-> "nobody", tries |-> 0, own |-> 0]
Free == [pc |-> "free", msg |-> 0, own |-> 0, floor |-> [at |-> 0, msg |-> 0],
         at |-> 0, size |-> 0, heard |-> FALSE]

Init ==
    /\ kind \in Mixes
    /\ refused \in {r \in SUBSET Msgs : Cardinality(r) <= MaxRefused}
    /\ clock = 0
    /\ sent = [m \in Msgs |-> Never]
    /\ send = [m \in Msgs |-> Quiet]
    /\ retained = {}
    /\ offset = 0 /\ saved = 0
    /\ handler = [h \in Handlers |-> Free]
    /\ rows = {} /\ fed = {}
    /\ cursor = [at |-> 0, msg |-> 0]
    /\ refusedYet = {} /\ raced = {} /\ excused = {}
    /\ faults = 0

Fault == faults < MaxFaults /\ faults' = faults + 1

\* MsgStamp: keys order by instant, then by id.
Below(a, b) == a.at < b.at \/ (a.at = b.at /\ a.msg < b.msg)

stored(m) == \E row \in rows : row.msg = m

\* What no step changes, and what a step of one side leaves to the others.
given == <<kind, refused>>
routdVars == <<handler, rows, raced>>
pollVars == <<cursor, fed>>
adapterVars == <<send, retained, offset, saved, refusedYet, excused>>

-----------------------------------------------------------------------------
Tick ==
    /\ clock < MaxTime
    /\ clock' = clock + 1
    /\ UNCHANGED <<given, sent, faults, routdVars, pollVars, adapterVars>>

Begin(m, who, second) ==
    /\ send[m].pc = "idle"
    /\ send' = [send EXCEPT ![m] = [pc |-> "post", by |-> who, tries |-> 0,
                                    own |-> second * Second]]

\* The event happens.  Discord's gateway is done with it at once; slakd's 200 goes
\* out when the dispatch returns, and that Slack may send the event again after a
\* crash before that is left out: it could only bring back what is lost here.
Happen(m) ==
    /\ sent[m] = Never
    /\ \A k \in Msgs : k < m => sent[k] # Never
    /\ sent' = [sent EXCEPT ![m] = clock]
    /\ \/ kind[m] = "push" /\ Begin(m, "event", clock)
       \/ kind[m] # "push" /\ UNCHANGED send
    /\ UNCHANGED <<given, clock, retained, offset, saved, refusedYet, excused, faults,
                   routdVars, pollVars>>

pulled == {m \in Msgs : kind[m] # "push" /\ sent[m] # Never}

\* teled handles the updates past its offset one at a time, oldest first.
poll(m) ==
    /\ m \in pulled /\ m > offset
    /\ \A k \in pulled : k > offset => k >= m /\ send[k].pc = "idle"
    /\ Begin(m, "poll", IF kind[m] = "press" THEN clock ELSE sent[m])
    /\ UNCHANGED <<given, clock, sent, retained, offset, saved, refusedYet, excused, faults,
                   routdVars, pollVars>>

\* Faulty: what is due is read with the comparison turned.
sweepRecent(m) ==
    /\ m \in retained /\ sent[m] = clock
    /\ \A k \in Msgs : send[k].by # "sweep"
    /\ Begin(m, "sweep", sent[m])
    /\ UNCHANGED <<given, clock, sent, retained, offset, saved, refusedYet, excused, faults,
                   routdVars, pollVars>>

\* SweepInboundOnce takes what is due, one message after the other.
SweepInboundOnce(m) ==
    /\ m \in retained
    /\ \A k \in Msgs : send[k].by # "sweep"
    /\ Begin(m, "sweep", sent[m])
    /\ UNCHANGED <<given, clock, sent, retained, offset, saved, refusedYet, excused, faults,
                   routdVars, pollVars>>

-----------------------------------------------------------------------------
\* postInbound: two attempts.

Dial(m) ==
    LET free == {k \in Handlers : handler[k].pc = "free"}
        h == CHOOSE k \in free : TRUE
    IN  /\ send[m].pc = "post" /\ free # {}
        /\ send' = [send EXCEPT ![m].pc = "wait"]
        /\ handler' = [handler EXCEPT ![h] =
              [Free EXCEPT !.pc = "floor", !.msg = m, !.own = send[m].own, !.heard = TRUE]]
        /\ UNCHANGED <<given, clock, sent, retained, offset, saved, refusedYet, excused, faults,
                       rows, raced, pollVars>>

\* The attempt is over without an answer of 200.
tried(m) == IF send[m].tries = 0 THEN [send[m] EXCEPT !.pc = "post", !.tries = 1]
                                 ELSE [send[m] EXCEPT !.pc = "failed"]

\* The client's timeout, a restarting routd, a token authd cannot vouch for.
\* The attempts are half a second apart: one outage can take both.
Unanswered(m) ==
    /\ IF send[m].tries = 1 /\ m \notin refused THEN UNCHANGED faults ELSE Fault
    /\ send[m].pc \in {"post", "wait"}
    /\ send' = [send EXCEPT ![m] = tried(m)]
    /\ handler' = [h \in Handlers |->
          IF handler[h].msg = m THEN [handler[h] EXCEPT !.heard = FALSE] ELSE handler[h]]
    /\ UNCHANGED <<given, clock, sent, retained, offset, saved, refusedYet, excused,
                   rows, raced, pollVars>>

\* A delete that fails is logged, and the row is delivered again.
dropPending(m) ==
    \/ retained' = retained \ {m} /\ UNCHANGED faults
    \/ UNCHANGED retained /\ Fault

\* Faulty: teled saves the offset it will ask for next.
offsetPast(m) ==
    /\ offset' = m /\ saved' = m + 1
    /\ UNCHANGED <<retained, faults>>

\* What the caller does with a 200: teled moves its offset and saves it, the
\* sweep drops the row.
accepted(m) ==
    CASE send[m].by = "poll" ->
             /\ offset' = m
             /\ (saved' = m /\ UNCHANGED faults) \/ (UNCHANGED saved /\ Fault)
             /\ UNCHANGED retained
      [] send[m].by = "sweep" -> dropPending(m) /\ UNCHANGED <<offset, saved>>
      [] OTHER -> UNCHANGED <<offset, saved, retained, faults>>

\* Faulty: teled moves on past an update it has not delivered.
moveOn(m) ==
    /\ send[m].pc = "failed"
    /\ send' = [send EXCEPT ![m] = Quiet]
    /\ offset' = IF send[m].by = "poll" THEN m ELSE offset
    /\ retained' = IF send[m].by = "event" THEN retained \cup {m} ELSE retained
    /\ UNCHANGED <<given, clock, sent, saved, refusedYet, excused, faults, routdVars, pollVars>>

\* retainInbound after both attempts failed; the poll and the sweep come again
\* by themselves.  The retention rides the store routd rides, so its write may
\* fail with it, and nobody holds the message.
retainInbound(m) ==
    /\ send[m].pc = "failed"
    /\ send' = [send EXCEPT ![m] = Quiet]
    /\ \/ /\ retained' = IF send[m].by = "event" THEN retained \cup {m} ELSE retained
          /\ UNCHANGED excused
       \/ /\ send[m].by = "event"
          /\ excused' = excused \cup {m}
          /\ UNCHANGED retained
    /\ UNCHANGED <<given, clock, sent, offset, saved, refusedYet, faults, routdVars, pollVars>>

\* PermanentIngress: a 400 at the second attempt is final for an adapter that
\* retains, and for teled, which has no retention, a failure like any other.
refusedFor(m) ==
    /\ refusedYet' = IF kind[m] = "push" THEN refusedYet \cup {m} ELSE refusedYet
    /\ IF send[m].by = "sweep" THEN dropPending(m) ELSE UNCHANGED <<retained, faults>>

-----------------------------------------------------------------------------
\* handleMessages: its checks, then putMessage's two reads and its batch.

Answered(h) == handler' = [handler EXCEPT ![h] = Free]

Refuse(h) ==
    LET m == handler[h].msg
    IN  /\ handler[h].pc = "floor" /\ m \in refused
        /\ Answered(h)
        /\ \/ /\ handler[h].heard /\ send[m].tries = 0
              /\ send' = [send EXCEPT ![m] = tried(m)]
              /\ UNCHANGED <<refusedYet, retained, faults>>
           \/ /\ handler[h].heard /\ send[m].tries = 1
              /\ send' = [send EXCEPT ![m] = Quiet]
              /\ refusedFor(m)
           \/ ~handler[h].heard /\ UNCHANGED <<refusedYet, retained, faults, send>>
        /\ UNCHANGED <<given, clock, sent, offset, saved, excused, rows, raced, pollVars>>

\* The instant is settled: what is left is the put.
toPut(r, at, size) ==
    [Free EXCEPT !.pc = "put", !.msg = r.msg, !.at = at, !.size = size, !.heard = r.heard]

\* newestMessageKey; an instant past it is the row's own.
readFloor(h) ==
    LET r == handler[h]
        floor == CHOOSE k \in rows : \A o \in rows : ~Below(k, o)
        mine == [at |-> r.own, msg |-> r.msg]
    IN  /\ r.pc = "floor" /\ r.msg \notin refused
        /\ handler' = [handler EXCEPT ![h] =
              IF rows = {} \/ Below(floor, mine)
              THEN toPut(r, r.own, Cardinality(rows))
              ELSE [r EXCEPT !.pc = "held", !.floor = floor, !.size = Cardinality(rows)]]
        /\ UNCHANGED <<given, clock, sent, faults, rows, raced, pollVars, adapterVars>>

\* Faulty: the id is not looked for, or the instant is not moved.
floorOnly(h) ==
    LET r == handler[h]
    IN  /\ r.pc = "held"
        /\ handler' = [handler EXCEPT ![h] = toPut(r, r.floor.at + 1, r.size)]
        /\ UNCHANGED <<given, clock, sent, faults, rows, raced, pollVars, adapterVars>>

ownInstant(h) ==
    LET r == handler[h]
    IN  /\ r.pc = "held"
        /\ handler' = [handler EXCEPT ![h] = toPut(r, r.own, r.size)]
        /\ UNCHANGED <<given, clock, sent, faults, rows, raced, pollVars, adapterVars>>

\* A redelivery keeps the stored row's instant; a late message goes one
\* nanosecond past the newest.
appendInstant(h) ==
    LET r == handler[h]
        mine == {row \in rows : row.msg = r.msg /\ row.at >= r.own}
    IN  /\ r.pc = "held"
        /\ handler' = [handler EXCEPT ![h] = toPut(r,
              IF mine = {} THEN r.floor.at + 1 ELSE Max({row.at : row \in mine}), r.size)]
        /\ UNCHANGED <<given, clock, sent, faults, rows, raced, pollVars, adapterVars>>

\* The guarded batch; a refused put is an accepted message.
putMessage(h) ==
    LET r == handler[h]
        row == [at |-> r.at, msg |-> r.msg]
    IN  /\ r.pc = "put"
        /\ rows' = rows \cup {row}
        /\ raced' = IF row \notin rows /\ Cardinality(rows) # r.size
                    THEN raced \cup {r.msg} ELSE raced
        /\ handler' = [handler EXCEPT ![h] =
              [Free EXCEPT !.pc = "done", !.msg = r.msg, !.heard = r.heard]]
        /\ UNCHANGED <<given, clock, sent, faults, pollVars, adapterVars>>

\* The 200 arrives, or nobody is waiting for it.
Reply(h) ==
    LET m == handler[h].msg
    IN  /\ handler[h].pc = "done"
        /\ Answered(h)
        /\ IF handler[h].heard
           THEN accepted(m) /\ send' = [send EXCEPT ![m] = Quiet]
           ELSE UNCHANGED <<offset, saved, retained, faults, send>>
        /\ UNCHANGED <<given, clock, sent, refusedYet, excused, rows, raced, pollVars>>

\* The poll loop feeds every row past the cursor (NewMessagesForChat).
Feed ==
    LET new == {row \in rows : Below(cursor, row)}
    IN  /\ new # {}
        /\ fed' = fed \cup new
        /\ cursor' = CHOOSE k \in new : \A o \in new : ~Below(k, o)
        /\ UNCHANGED <<given, clock, sent, faults, routdVars, adapterVars>>

-----------------------------------------------------------------------------
\* routd dies: its handlers end where they are, and their callers hear nothing.
CrashRoutd ==
    /\ Fault
    /\ handler' = [h \in Handlers |-> Free]
    /\ send' = [m \in Msgs |-> IF send[m].pc = "wait" THEN tried(m) ELSE send[m]]
    /\ UNCHANGED <<given, clock, sent, retained, offset, saved, refusedYet, excused, rows,
                   raced, pollVars>>

\* The adapter dies: what it had consumed and not retained is gone.
CrashAdapter ==
    /\ Fault
    /\ send' = [m \in Msgs |-> Quiet]
    /\ handler' = [h \in Handlers |-> [handler[h] EXCEPT !.heard = FALSE]]
    /\ excused' = excused \cup {m \in Msgs : send[m].by = "event"}
    /\ offset' = saved
    /\ UNCHANGED <<given, clock, sent, retained, saved, refusedYet, rows, raced, pollVars>>

-----------------------------------------------------------------------------
Delivers(m) == poll(m) \/ SweepInboundOnce(m) \/ Dial(m) \/ retainInbound(m)

Serves(h) == Refuse(h) \/ readFloor(h) \/ appendInstant(h) \/ putMessage(h) \/ Reply(h)

Next ==
    \/ Tick \/ Feed \/ CrashRoutd \/ CrashAdapter
    \/ \E m \in Msgs : Happen(m) \/ Delivers(m) \/ Unanswered(m)
    \/ \E h \in Handlers : Serves(h)

Spec == Init /\ [][Next]_vars

\* A send goes on, a handler runs to its end, teled polls and the sweep comes
\* round to every row it holds.
Fairness ==
    /\ \A m \in Msgs : WF_vars(Delivers(m))
    /\ \A h \in Handlers : WF_vars(Serves(h))

FairSpec == Spec /\ Fairness

-----------------------------------------------------------------------------
\* Types.
TypeOK ==
    /\ kind \in [Msgs -> Kinds]
    /\ refused \subseteq Msgs
    /\ clock \in 0..MaxTime
    /\ sent \in [Msgs -> 0..Never]
    /\ send \in [Msgs -> [pc : {"idle", "post", "wait", "failed"},
                          by : {"nobody", "event", "poll", "sweep"},
                          tries : 0..1, own : Nat]]
    /\ retained \subseteq {m \in Msgs : kind[m] = "push"}
    /\ offset \in {0} \cup Msgs /\ saved \in {0} \cup Msgs
    /\ handler \in [Handlers ->
          [pc : {"free", "floor", "held", "put", "done"}, msg : {0} \cup Msgs, own : Nat,
           floor : [at : Nat, msg : {0} \cup Msgs], at : Nat, size : Nat, heard : BOOLEAN]]
    /\ rows \subseteq [at : Nat, msg : Msgs] /\ fed \subseteq rows
    /\ cursor \in [at : Nat, msg : {0} \cup Msgs]
    /\ refusedYet \subseteq refused /\ raced \subseteq Msgs /\ excused \subseteq Msgs
    /\ faults \in 0..MaxFaults

\* "An inbound is delivered exactly once" (specs/5/34): two attempts, the next
\* poll, the sweep and handlers that outlive their callers leave one row per
\* message.  It fails only where the chat grew between the two reads of an
\* append and its put, and for a button, which teled stamps anew at every poll.
StoredOnce ==
    \A m \in Msgs : \/ Cardinality({row \in rows : row.msg = m}) <= 1
                    \/ m \in raced \/ kind[m] = "press"

\* No row lands under the cursor, where it is never fed, however late the
\* platform's own instant is; but for the same window of an append.
NotBuried == \A row \in rows : Below(cursor, row) \/ row \in fed \/ row.msg \in raced

\* Somebody holds every message that has happened: routd has its row, or it is
\* in inbound_pending, in a send, or still past teled's offset.  Only a refusal
\* and, for what the platform has been told is taken, a crash or a failed
\* write let go of it.
HeldSomewhere ==
    \A m \in Msgs : sent[m] # Never =>
        \/ stored(m)
        \/ kind[m] # "push" /\ m > offset /\ m > saved
        \/ kind[m] = "push" /\ (m \in retained \/ send[m].pc # "idle")
        \/ m \in refusedYet \/ m \in excused

\* A message that has happened reaches routd, through any outage that ends,
\* unless it is refused or lost as above, or teled stands before an older
\* update that routd refuses.
Arrives ==
    \A m \in Msgs :
        sent[m] # Never ~>
            \/ stored(m) \/ m \in refusedYet \/ m \in excused
            \/ kind[m] # "push" /\ \E k \in refused : kind[k] # "push" /\ k <= m
=============================================================================
