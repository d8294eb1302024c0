--------------------------- MODULE InboundProofs ---------------------------
(***************************************************************************)
(* Inbound for any messages, handlers and faults.  IngressInv, the         *)
(* inductive invariant, follows a message from its holder to its row:      *)
(* SendHolds and HeardOnce say who sends it and which handler is heard,    *)
(* HandlerKnows what a handler's two reads of the chat are still worth at  *)
(* its put, and RowsOrdered that the chat has a newest row to read.        *)
(***************************************************************************)
EXTENDS Inbound, FiniteSetTheorems, TLAPS

\* The second of a message that its platform, or the adapter once, has stamped.
Stamp(m) == sent[m] * Second

Stamped(m) == kind[m] # "press"

\* What is past its offset teled has still to deliver: messages happen in their
\* order, and the saved offset is never ahead.
OffsetInOrder ==
    /\ \A m, k \in Msgs : k < m /\ sent[m] # Never => sent[k] # Never
    /\ offset \in Msgs => sent[offset] # Never
    /\ saved <= offset

\* A send is by whoever holds the message.
SendHolds ==
    \A m \in Msgs :
        /\ m \in retained => sent[m] # Never
        /\ send[m].pc = "idle" <=> send[m].by = "nobody"
        /\ send[m].pc # "idle" => sent[m] # Never
        /\ send[m].pc # "idle" /\ Stamped(m) => send[m].own = Stamp(m)
        /\ send[m].by \in {"event", "sweep"} => kind[m] = "push"
        /\ send[m].by = "sweep" => m \in retained
        /\ send[m].by = "poll" => /\ m \in pulled /\ m > offset
                                  /\ \A k \in pulled : k > offset => k >= m

\* A handler that is heard is the one its send waits for.
HeardOnce ==
    /\ \A h \in Handlers : handler[h].heard =>
           /\ handler[h].msg \in Msgs
           /\ send[handler[h].msg].pc = "wait"
    /\ \A h, g \in Handlers :
           handler[h].heard /\ handler[g].heard /\ handler[h].msg = handler[g].msg => h = g

\* The chat has a newest row, and so has every part of it.
RowsOrdered ==
    /\ IsFiniteSet(rows)
    /\ \A S \in SUBSET rows : S # {} => \E k \in S : \A o \in S : ~Below(k, o)
    /\ \A row \in rows : /\ sent[row.msg] # Never
                         /\ Stamped(row.msg) => row.at >= Stamp(row.msg)
    /\ cursor \in fed \cup {[at |-> 0, msg |-> 0]}

\* The row a put is about to write is there, or the chat has grown since its
\* newest key was read, or the row goes past all others and is the message's first.
PutFits(r) ==
    LET row == [at |-> r.at, msg |-> r.msg]
    IN  \/ row \in rows
        \/ r.size # Cardinality(rows)
        \/ (\A o \in rows : Below(o, row)) /\ (Stamped(r.msg) => ~stored(r.msg))

\* What a handler knows of the chat at each of its steps.
Knows(r) ==
    /\ r.pc # "free" => r.msg \in Msgs /\ sent[r.msg] # Never
    /\ r.pc \in {"floor", "held"} /\ Stamped(r.msg) => r.own = Stamp(r.msg)
    /\ r.pc \in {"held", "put"} => r.size <= Cardinality(rows)
    /\ r.pc = "held" =>
           /\ r.floor.at >= r.own
           /\ r.size = Cardinality(rows) => \A o \in rows : ~Below(r.floor, o)
    /\ r.pc = "put" =>
           /\ Stamped(r.msg) => r.at >= Stamp(r.msg)
           /\ PutFits(r)
    /\ r.pc = "done" => stored(r.msg)

HandlerKnows == \A h \in Handlers : Knows(handler[h])

\* One row for each message that is stamped once, but for the races.
SingleRow ==
    \A m \in Msgs : Stamped(m) => m \in raced \/
        \A a, b \in rows : a.msg = m /\ b.msg = m => a = b

IngressInv ==
    /\ TypeOK /\ OffsetInOrder /\ SendHolds /\ HeardOnce /\ RowsOrdered /\ HandlerKnows
    /\ SingleRow /\ NotBuried /\ HeldSomewhere

-----------------------------------------------------------------------------
Sends == [pc : {"idle", "post", "wait", "failed"}, by : {"nobody", "event", "poll", "sweep"},
          tries : 0..1, own : Nat]
Keys == [at : Nat, msg : {0} \cup Msgs]
Requests == [pc : {"free", "floor", "held", "put", "done"}, msg : {0} \cup Msgs, own : Nat,
             floor : Keys, at : Nat, size : Nat, heard : BOOLEAN]

\* The types as the proofs use them.
LEMMA Types ==
    ASSUME TypeOK
    PROVE  /\ send \in [Msgs -> Sends] /\ handler \in [Handlers -> Requests]
           /\ rows \subseteq [at : Nat, msg : Msgs] /\ rows \subseteq Keys
           /\ cursor \in Keys
           /\ offset \in Nat /\ saved \in Nat
           /\ \A m \in Msgs : m \in Nat /\ m # 0 /\ sent[m] \in Nat
           /\ MaxTime \in Nat /\ clock \in Nat /\ clock # Never /\ Never \in Nat
<1>1. MaxTime \in Nat /\ clock \in 0..MaxTime
  BY BoundsAssumption DEF TypeOK
<1>2. clock \in Nat /\ clock # Never /\ Never \in Nat
  BY <1>1 DEF Never
<1>3. \A m \in Msgs : m \in Nat /\ m # 0
  BY MsgsAssumption
<1>4. \A m \in Msgs : sent[m] \in Nat
  <2>1. \A m \in Msgs : sent[m] \in 0..Never
    BY DEF TypeOK
  <2> QED BY <1>2, <2>1
<1>5. offset \in Nat /\ saved \in Nat
  BY <1>3 DEF TypeOK
<1>6. send \in [Msgs -> Sends] /\ handler \in [Handlers -> Requests] /\ cursor \in Keys
  BY DEF TypeOK, Sends, Requests, Keys
<1>7. rows \subseteq [at : Nat, msg : Msgs] /\ rows \subseteq Keys
  BY DEF TypeOK, Keys
<1> QED
  BY <1>1, <1>2, <1>3, <1>4, <1>5, <1>6, <1>7

\* An instant is a number of nanoseconds.
LEMMA StampNat == ASSUME TypeOK, NEW m \in Msgs PROVE Stamp(m) \in Nat
<1>1. sent[m] \in Nat /\ Second \in Nat
  BY Types, BoundsAssumption
<1>2. ASSUME NEW a \in Nat, NEW b \in Nat PROVE a * b \in Nat
  OBVIOUS
<1> QED
  BY <1>1, <1>2 DEF Stamp

\* Keys are ordered, totally.
LEMMA KeyOrder ==
    ASSUME NEW a \in Keys, NEW b \in Keys, NEW c \in Keys
    PROVE  /\ ~Below(a, a)
           /\ Below(a, b) \/ Below(b, a) \/ a = b
           /\ Below(a, b) => ~Below(b, a)
           /\ Below(a, b) /\ Below(b, c) => Below(a, c)
           /\ Below(a, b) /\ ~Below(c, b) => Below(a, c)
           /\ ~Below(b, a) /\ Below(b, c) => Below(a, c)
<1>1. \A k \in Keys : k.at \in Nat /\ k.msg \in Nat
  <2>1. \A m \in {0} \cup Msgs : m \in Nat
    BY MsgsAssumption
  <2> QED BY <2>1 DEF Keys
<1>2. \A j, k \in Keys : j.at = k.at /\ j.msg = k.msg => j = k
  BY DEF Keys
<1> QED
  BY <1>1, <1>2 DEF Below

\* What readFloor reads: the newest row.
LEMMA Newest ==
    ASSUME TypeOK, RowsOrdered, rows # {}
    PROVE  LET floor == CHOOSE k \in rows : \A o \in rows : ~Below(k, o)
           IN  floor \in rows /\ \A o \in rows : ~Below(floor, o)
<1>1. \E k \in rows : \A o \in rows : ~Below(k, o)
  BY DEF RowsOrdered
<1> QED
  BY <1>1

\* The latest instant of some of the rows is the instant of one of them.
LEMMA LatestOf ==
    ASSUME TypeOK, RowsOrdered, NEW S, S \subseteq rows, S # {}
    PROVE  \E k \in S : Max({row.at : row \in S}) = k.at
<1> DEFINE ats == {row.at : row \in S}
<1>1. PICK k \in S : \A o \in S : ~Below(k, o)
  BY DEF RowsOrdered
<1>2. \A o \in S : o.at \in Nat /\ k.at >= o.at
  <2>1. \A o \in S : o.at \in Nat
    BY Types
  <2> QED BY <1>1, <2>1 DEF Below
<1>3. k.at \in ats /\ \A y \in ats : k.at >= y
  BY <1>2
<1>4. Max(ats) \in ats
  BY <1>3 DEF Max
<1> QED
  BY <1>4

\* A new row leaves the chat with a newest row, and each part of it.
LEMMA OneMoreRow ==
    ASSUME TypeOK, RowsOrdered, NEW row \in Keys
    PROVE  \A S \in SUBSET (rows \cup {row}) : S # {} => \E k \in S : \A o \in S : ~Below(k, o)
<1> SUFFICES ASSUME NEW S \in SUBSET (rows \cup {row}), S # {}
             PROVE  \E k \in S : \A o \in S : ~Below(k, o)
  OBVIOUS
<1>1. S \subseteq Keys
  BY Types
<1>2. CASE S \ {row} = {}
  <2>1. S = {row}
    BY <1>2
  <2> QED BY <2>1, KeyOrder
<1>3. CASE S \ {row} # {}
  <2>1. PICK k \in S \ {row} : \A o \in S \ {row} : ~Below(k, o)
    BY <1>3 DEF RowsOrdered
  <2>2. CASE Below(k, row)
    <3>1. row \in S \/ row \notin S
      OBVIOUS
    <3>2. \A o \in S : ~Below(row, o)
      BY <1>1, <2>1, <2>2, KeyOrder
    <3>3. CASE row \in S
      BY <3>2, <3>3
    <3>4. CASE row \notin S
      BY <2>1, <3>4
    <3> QED BY <3>3, <3>4
  <2>3. CASE ~Below(k, row)
    BY <2>1, <2>3
  <2> QED BY <2>2, <2>3
<1> QED
  BY <1>2, <1>3

\* A key that the handler has settled, and what it keeps of the request.
LEMMA ToPut ==
    ASSUME NEW r \in Requests, NEW at \in Nat, NEW size \in Nat
    PROVE  /\ toPut(r, at, size) \in Requests
           /\ toPut(r, at, size).pc = "put" /\ toPut(r, at, size).msg = r.msg
           /\ toPut(r, at, size).at = at /\ toPut(r, at, size).size = size
           /\ toPut(r, at, size).heard = r.heard
<1>1. [at |-> 0, msg |-> 0] \in Keys
  BY DEF Keys
<1> QED
  BY <1>1 DEF toPut, Free, Requests

\* The same of a request that is known to be it.
LEMMA IsToPut ==
    ASSUME NEW q \in Requests, NEW at \in Nat, NEW size \in Nat, NEW r \in Requests,
           r = toPut(q, at, size)
    PROVE  r.pc = "put" /\ r.msg = q.msg /\ r.at = at /\ r.size = size /\ r.heard = q.heard
BY ToPut

\* Nothing under way is of the right type, too.
LEMMA Idle ==
    /\ Quiet \in Sends /\ Free \in Requests
    /\ Quiet.pc = "idle" /\ Quiet.by = "nobody"
    /\ Free.pc = "free" /\ Free.msg = 0 /\ ~Free.heard
<1>1. [at |-> 0, msg |-> 0] \in Keys
  BY DEF Keys
<1> QED
  BY <1>1 DEF Quiet, Free, Sends, Requests

\* An attempt that is over is tried again, or has failed, for the same sender.
LEMMA TriedOnce ==
    ASSUME TypeOK, NEW m \in Msgs
    PROVE  /\ tried(m) \in Sends /\ tried(m).pc \in {"post", "failed"}
           /\ tried(m).by = send[m].by /\ tried(m).own = send[m].own
<1>1. send[m] \in Sends
  BY Types
<1> QED
  <2>1. /\ [send[m] EXCEPT !.pc = "post", !.tries = 1] \in Sends
        /\ [send[m] EXCEPT !.pc = "failed"] \in Sends
    <3>1. 1 \in 0..1
      OBVIOUS
    <3>2. ASSUME NEW s \in Sends
          PROVE  /\ [s EXCEPT !.pc = "post", !.tries = 1] \in Sends
                 /\ [s EXCEPT !.pc = "failed"] \in Sends
      BY <3>1 DEF Sends
    <3> QED BY <1>1, <3>2
  <2>2. CASE send[m].tries = 0
    BY <1>1, <2>1, <2>2 DEF tried, Sends
  <2>3. CASE send[m].tries # 0
    BY <1>1, <2>1, <2>3 DEF tried, Sends
  <2> QED BY <2>2, <2>3

-----------------------------------------------------------------------------
\* A send dials: a free handler takes the message, and the send waits for it.
LEMMA DialTakes ==
    ASSUME TypeOK, NEW m \in Msgs, Dial(m)
    PROVE  \E h \in Handlers, r \in Requests, s \in Sends :
              /\ handler[h].pc = "free" /\ handler' = [handler EXCEPT ![h] = r]
              /\ r.pc = "floor" /\ r.msg = m /\ r.own = send[m].own /\ r.heard
              /\ send[m].pc = "post" /\ send' = [send EXCEPT ![m] = s]
              /\ s.pc = "wait" /\ s.by = send[m].by /\ s.own = send[m].own
<1> DEFINE free == {k \in Handlers : handler[k].pc = "free"}
           r == [Free EXCEPT !.pc = "floor", !.msg = m, !.own = send[m].own, !.heard = TRUE]
           s == [send[m] EXCEPT !.pc = "wait"]
<1>1. send[m] \in Sends /\ Free \in Requests
  BY Types, Idle
<1>2. PICK h \in Handlers : handler[h].pc = "free" /\ handler' = [handler EXCEPT ![h] = r]
  BY DEF Dial
<1>3. r \in Requests /\ r.pc = "floor" /\ r.msg = m /\ r.own = send[m].own /\ r.heard
  BY <1>1 DEF Requests, Sends
<1>4. s \in Sends /\ s.pc = "wait" /\ s.by = send[m].by /\ s.own = send[m].own
  BY <1>1 DEF Sends
<1>5. send[m].pc = "post" /\ send' = [send EXCEPT ![m] = s]
  BY Types DEF Dial
<1> HIDE DEF r, s
<1> QED
  BY <1>2, <1>3, <1>4, <1>5

\* A send begins.
LEMMA Begins ==
    ASSUME TypeOK, NEW m \in Msgs, NEW who \in {"event", "poll", "sweep"}, NEW second \in Nat,
           Begin(m, who, second)
    PROVE  \E s \in Sends : /\ send[m].pc = "idle" /\ send' = [send EXCEPT ![m] = s]
                            /\ s.pc = "post" /\ s.by = who /\ s.own = second * Second
<1>1. second * Second \in Nat
  <2>1. ASSUME NEW a \in Nat, NEW b \in Nat PROVE a * b \in Nat
    OBVIOUS
  <2> QED BY <2>1, BoundsAssumption
<1> DEFINE s == [pc |-> "post", by |-> who, tries |-> 0, own |-> second * Second]
<1>2. s \in Sends
  BY <1>1 DEF Sends
<1> QED
  BY <1>2 DEF Begin

\* The first read: the instant is the message's own, past every row, or the
\* newest row is not past.
LEMMA FloorRead ==
    ASSUME TypeOK, RowsOrdered, NEW h \in Handlers, handler[h].msg \in Msgs, readFloor(h)
    PROVE  \E r \in Requests :
              /\ handler[h].pc = "floor" /\ handler' = [handler EXCEPT ![h] = r]
              /\ r.msg = handler[h].msg /\ r.heard = handler[h].heard
              /\ r.size = Cardinality(rows)
              /\ \/ /\ r.pc = "put" /\ r.at = handler[h].own
                    /\ \A o \in rows : Below(o, [at |-> r.at, msg |-> r.msg])
                 \/ /\ r.pc = "held" /\ r.own = handler[h].own /\ r.floor.at >= r.own
                    /\ \A o \in rows : ~Below(r.floor, o)
<1>0. PICK q \in Requests : q = handler[h]
  BY Types
<1> DEFINE floor == CHOOSE k \in rows : \A o \in rows : ~Below(k, o)
           mine == [at |-> q.own, msg |-> q.msg]
<1>1. q \in Requests /\ mine \in Keys /\ rows \subseteq Keys /\ Cardinality(rows) \in Nat
      /\ q.own \in Nat
  <2>1. q \in Requests /\ rows \subseteq Keys
    BY <1>0, Types
  <2>2. Cardinality(rows) \in Nat
    BY FS_CardinalityType DEF RowsOrdered
  <2> QED BY <2>1, <2>2 DEF Requests, Keys
<1>2. rows # {} => floor \in rows /\ \A o \in rows : ~Below(floor, o)
  BY Newest
<1>3. handler[h].pc = "floor" /\ handler' = [handler EXCEPT ![h] =
              IF rows = {} \/ Below(floor, mine)
              THEN toPut(q, q.own, Cardinality(rows))
              ELSE [q EXCEPT !.pc = "held", !.floor = floor, !.size = Cardinality(rows)]]
  BY <1>0 DEF readFloor
<1> HIDE DEF floor, mine
<1>4. CASE rows = {} \/ Below(floor, mine)
  <2>0. PICK r \in Requests : r = toPut(q, q.own, Cardinality(rows))
    BY <1>1, ToPut
  <2>1. /\ r.pc = "put" /\ r.msg = q.msg /\ r.at = q.own
        /\ r.size = Cardinality(rows) /\ r.heard = q.heard
    BY <1>1, <2>0, IsToPut
  <2>2. \A o \in rows : Below(o, mine)
    BY <1>1, <1>2, <1>4, KeyOrder
  <2>3. handler' = [handler EXCEPT ![h] = r]
    BY <1>3, <1>4, <2>0
  <2>4. mine = [at |-> r.at, msg |-> r.msg]
    BY <2>1 DEF mine
  <2> QED BY <1>3, <2>1, <2>2, <2>3, <2>4, <1>0
<1>5. CASE ~(rows = {} \/ Below(floor, mine))
  <2> DEFINE r == [q EXCEPT !.pc = "held", !.floor = floor, !.size = Cardinality(rows)]
  <2>1. floor \in Keys /\ \A o \in rows : ~Below(floor, o)
    BY <1>1, <1>2, <1>5
  <2>2. /\ r \in Requests /\ r.pc = "held" /\ r.msg = q.msg /\ r.own = q.own
        /\ r.floor = floor /\ r.size = Cardinality(rows) /\ r.heard = q.heard
    BY <1>1, <2>1 DEF Requests
  <2>3. floor.at >= q.own
    <3>1. floor.at \in Nat /\ ~(floor.at < mine.at) /\ mine.at = q.own
      BY <1>5, <2>1 DEF Below, Keys, mine
    <3> QED BY <1>1, <3>1
  <2>4. handler' = [handler EXCEPT ![h] = r]
    BY <1>3, <1>5
  <2> HIDE DEF r
  <2> QED BY <1>3, <2>1, <2>2, <2>3, <2>4, <1>0
<1> QED
  BY <1>4, <1>5

\* The second: the instant of a row the message has, or one past the newest.
LEMMA InstantSettled ==
    ASSUME TypeOK, RowsOrdered, NEW h \in Handlers, handler[h].msg \in Msgs, appendInstant(h)
    PROVE  \E r \in Requests :
              /\ handler[h].pc = "held" /\ handler' = [handler EXCEPT ![h] = r]
              /\ r.pc = "put" /\ r.msg = handler[h].msg /\ r.heard = handler[h].heard
              /\ r.size = handler[h].size
              /\ \/ r.at >= handler[h].own /\ [at |-> r.at, msg |-> r.msg] \in rows
                 \/ /\ r.at = handler[h].floor.at + 1
                    /\ ~\E row \in rows : row.msg = r.msg /\ row.at >= handler[h].own
<1>0. PICK q \in Requests : q = handler[h]
  BY Types
<1> DEFINE mine == {row \in rows : row.msg = q.msg /\ row.at >= q.own}
           at == IF mine = {} THEN q.floor.at + 1 ELSE Max({row.at : row \in mine})
<1>1. q \in Requests /\ q.size \in Nat /\ q.floor.at \in Nat
  BY DEF Requests, Keys
<1>2. handler[h].pc = "held" /\ handler' = [handler EXCEPT ![h] = toPut(q, at, q.size)]
  BY <1>0 DEF appendInstant
<1>3. mine # {} => \E k \in mine : Max({row.at : row \in mine}) = k.at
  <2>1. mine \subseteq rows
    OBVIOUS
  <2> HIDE DEF mine
  <2> QED BY <2>1, LatestOf
<1>4. CASE mine # {}
  <2>1. PICK k \in mine : at = k.at
    BY <1>3, <1>4
  <2>2. k \in rows /\ k.msg = q.msg /\ k.at >= q.own /\ k.at \in Nat
        /\ k = [at |-> k.at, msg |-> k.msg]
    BY Types
  <2> HIDE DEF mine, at
  <2>0. PICK r \in Requests : r = toPut(q, at, q.size)
    BY <1>1, <2>1, <2>2, ToPut
  <2>3. /\ r.pc = "put" /\ r.msg = q.msg /\ r.at = at /\ r.size = q.size /\ r.heard = q.heard
    BY <1>1, <2>0, <2>1, <2>2, IsToPut
  <2>4. r.at >= q.own /\ [at |-> r.at, msg |-> r.msg] \in rows
    BY <2>1, <2>2, <2>3
  <2> QED BY <1>2, <2>0, <2>3, <2>4, <1>0
<1>5. CASE mine = {}
  <2>1. at = q.floor.at + 1 /\ at \in Nat
    BY <1>1, <1>5
  <2>2. ~\E row \in rows : row.msg = q.msg /\ row.at >= q.own
    BY <1>5
  <2> HIDE DEF mine, at
  <2>0. PICK r \in Requests : r = toPut(q, at, q.size)
    BY <1>1, <2>1, ToPut
  <2>3. /\ r.pc = "put" /\ r.msg = q.msg /\ r.at = at /\ r.size = q.size /\ r.heard = q.heard
    BY <1>1, <2>0, <2>1, IsToPut
  <2> QED BY <1>2, <2>0, <2>1, <2>2, <2>3, <1>0
<1> QED
  BY <1>4, <1>5

\* The put: the row is there, and the handler is done.
LEMMA PutDone ==
    ASSUME TypeOK, NEW h \in Handlers, handler[h].msg \in Msgs, putMessage(h)
    PROVE  \E r \in Requests :
              /\ handler[h].pc = "put" /\ handler' = [handler EXCEPT ![h] = r]
              /\ r.pc = "done" /\ r.msg = handler[h].msg /\ r.heard = handler[h].heard
              /\ rows' = rows \cup {[at |-> handler[h].at, msg |-> handler[h].msg]}
<1> DEFINE q == handler[h]
           r == [Free EXCEPT !.pc = "done", !.msg = q.msg, !.heard = q.heard]
<1>1. q \in Requests /\ Free \in Requests
  BY Types, Idle
<1> HIDE DEF q
<1>2. r \in Requests /\ r.pc = "done" /\ r.msg = q.msg /\ r.heard = q.heard
  BY <1>1 DEF Requests
<1> HIDE DEF r
<1> QED
  BY <1>2 DEF putMessage, q, r

\* A caller that hangs up leaves the request as it is.
LEMMA Deaf ==
    ASSUME NEW r \in Requests
    PROVE  /\ [r EXCEPT !.heard = FALSE] \in Requests
           /\ ~[r EXCEPT !.heard = FALSE].heard
           /\ [r EXCEPT !.heard = FALSE].pc = r.pc /\ [r EXCEPT !.heard = FALSE].msg = r.msg
           /\ [r EXCEPT !.heard = FALSE].own = r.own /\ [r EXCEPT !.heard = FALSE].at = r.at
           /\ [r EXCEPT !.heard = FALSE].floor = r.floor
           /\ [r EXCEPT !.heard = FALSE].size = r.size
BY DEF Requests

\* A handler that is not free serves a message that has happened.
LEMMA Serving ==
    ASSUME IngressInv, NEW h \in Handlers, handler[h].pc # "free"
    PROVE  handler[h].msg \in Msgs /\ sent[handler[h].msg] # Never
BY DEF IngressInv, HandlerKnows, Knows

-----------------------------------------------------------------------------
\* Types are kept.
LEMMA StepTypes == ASSUME IngressInv, Next PROVE TypeOK'
<1>0. TypeOK /\ RowsOrdered /\ SendHolds
  BY DEF IngressInv
<1>a. /\ send \in [Msgs -> Sends] /\ handler \in [Handlers -> Requests]
      /\ cursor \in Keys /\ rows \subseteq [at : Nat, msg : Msgs]
  BY <1>0, Types
<1>b. Fault => faults' \in 0..MaxFaults
  BY <1>0, BoundsAssumption DEF Fault, TypeOK
<1> USE DEF given, routdVars, pollVars, adapterVars
<1>1. CASE Tick
  <2>1. clock' \in 0..MaxTime
    BY <1>0, <1>1, BoundsAssumption DEF Tick, TypeOK
  <2> QED BY <1>0, <1>1, <2>1 DEF Tick, TypeOK
<1>2. CASE Feed
  <2> DEFINE new == {row \in rows : Below(cursor, row)}
  <2>1. \E k \in new : \A o \in new : ~Below(k, o)
    <3>1. new \subseteq rows /\ new # {}
      BY <1>2 DEF Feed
    <3> HIDE DEF new
    <3> QED BY <1>0, <3>1 DEF RowsOrdered
  <2>2. cursor' \in new /\ fed' = fed \cup new
    BY <1>2, <2>1 DEF Feed
  <2>3. cursor' \in [at : Nat, msg : {0} \cup Msgs] /\ fed' \subseteq rows
    BY <1>0, <2>2 DEF TypeOK
  <2> QED BY <1>0, <1>2, <2>3 DEF Feed, TypeOK
<1>3. CASE CrashRoutd
  <2>1. handler' \in [Handlers -> Requests]
    BY <1>3, Idle DEF CrashRoutd
  <2>2. send' \in [Msgs -> Sends]
    BY <1>0, <1>a, <1>3, TriedOnce DEF CrashRoutd
  <2> QED BY <1>0, <1>b, <1>3, <2>1, <2>2 DEF CrashRoutd, TypeOK, Sends, Requests, Keys
<1>4. CASE CrashAdapter
  <2>1. handler' \in [Handlers -> Requests]
    BY <1>a, <1>4, Deaf DEF CrashAdapter
  <2>2. send' \in [Msgs -> Sends]
    BY <1>4, Idle DEF CrashAdapter
  <2>3. excused' \subseteq Msgs
    BY <1>0, <1>4 DEF CrashAdapter, TypeOK
  <2> QED BY <1>0, <1>b, <1>4, <2>1, <2>2, <2>3 DEF CrashAdapter, TypeOK, Sends, Requests, Keys
<1>5. ASSUME NEW m \in Msgs, Happen(m) PROVE TypeOK'
  <2>1. sent' \in [Msgs -> 0..Never]
    <3>1. clock \in 0..Never
      BY <1>0, BoundsAssumption DEF TypeOK, Never
    <3> QED BY <1>0, <1>5, <3>1 DEF Happen, TypeOK
  <2>2. send' \in [Msgs -> Sends]
    <3>1. CASE UNCHANGED send
      BY <1>a, <3>1
    <3>2. CASE Begin(m, "event", clock)
      BY <1>0, <1>a, <3>2, Types, Begins
    <3> QED BY <1>5, <3>1, <3>2 DEF Happen
  <2> QED BY <1>0, <1>5, <2>1, <2>2 DEF Happen, TypeOK, Sends
<1>6. ASSUME NEW m \in Msgs, poll(m) PROVE TypeOK'
  <2>1. PICK s \in Nat : Begin(m, "poll", s)
    BY <1>0, <1>6, Types DEF poll
  <2>2. send' \in [Msgs -> Sends]
    BY <1>0, <1>a, <2>1, Begins
  <2> QED BY <1>0, <1>6, <2>2 DEF poll, TypeOK, Sends
<1>7. ASSUME NEW m \in Msgs, SweepInboundOnce(m) PROVE TypeOK'
  <2>2. send' \in [Msgs -> Sends]
    BY <1>0, <1>a, <1>7, Types, Begins DEF SweepInboundOnce
  <2> QED BY <1>0, <1>7, <2>2 DEF SweepInboundOnce, TypeOK, Sends
<1>8. ASSUME NEW m \in Msgs, Dial(m) PROVE TypeOK'
  <2>1. send' \in [Msgs -> Sends] /\ handler' \in [Handlers -> Requests]
    BY <1>0, <1>a, <1>8, DialTakes
  <2> QED BY <1>0, <1>8, <2>1 DEF Dial, TypeOK, Sends, Requests, Keys
<1>9. ASSUME NEW m \in Msgs, retainInbound(m) PROVE TypeOK'
  <2>1. send' \in [Msgs -> Sends]
    BY <1>a, <1>9, Idle DEF retainInbound
  <2>2. retained' \subseteq {k \in Msgs : kind[k] = "push"} /\ excused' \subseteq Msgs
    BY <1>0, <1>9 DEF retainInbound, TypeOK, SendHolds
  <2> QED BY <1>0, <1>9, <2>1, <2>2 DEF retainInbound, TypeOK, Sends
<1>10. ASSUME NEW m \in Msgs, Unanswered(m) PROVE TypeOK'
  <2>1. send' \in [Msgs -> Sends]
    BY <1>0, <1>a, <1>10, TriedOnce DEF Unanswered
  <2>2. handler' \in [Handlers -> Requests]
    BY <1>a, <1>10, Deaf DEF Unanswered
  <2>3. faults' \in 0..MaxFaults
    BY <1>0, <1>b, <1>10 DEF Unanswered, TypeOK
  <2> QED BY <1>0, <1>10, <2>1, <2>2, <2>3 DEF Unanswered, TypeOK, Sends, Requests, Keys
<1>11. ASSUME NEW h \in Handlers, Refuse(h) PROVE TypeOK'
  <2>1. PICK m \in Msgs : m = handler[h].msg
    BY <1>11, Serving DEF Refuse
  <2>2. send' \in [Msgs -> Sends]
    BY <1>0, <1>a, <1>11, <2>1, TriedOnce, Idle DEF Refuse
  <2>3. handler' \in [Handlers -> Requests]
    BY <1>a, <1>11, Idle DEF Refuse, Answered
  <2>4. faults' \in 0..MaxFaults /\ retained' \subseteq retained
    BY <1>0, <1>b, <1>11 DEF Refuse, refusedFor, dropPending, TypeOK
  <2>5. refusedYet' \subseteq refused
    <3>1. m \in refused /\ refusedYet' \in {refusedYet, refusedYet \cup {m}}
      BY <1>11, <2>1, Zenon DEF Refuse, refusedFor
    <3> QED BY <1>0, <3>1 DEF TypeOK
  <2>6. UNCHANGED <<kind, refused, clock, sent, offset, saved, excused, rows, raced, cursor, fed>>
    BY <1>11 DEF Refuse
  <2> QED BY <1>0, <2>2, <2>3, <2>4, <2>5, <2>6 DEF TypeOK, Sends, Requests, Keys
<1>12. ASSUME NEW h \in Handlers, readFloor(h) PROVE TypeOK'
  <2>1. handler[h].msg \in Msgs
    BY <1>12, Serving DEF readFloor
  <2>2. handler' \in [Handlers -> Requests]
    BY <1>0, <1>a, <1>12, <2>1, FloorRead
  <2> QED BY <1>0, <1>12, <2>2 DEF readFloor, TypeOK, Requests, Keys
<1>13. ASSUME NEW h \in Handlers, appendInstant(h) PROVE TypeOK'
  <2>1. handler[h].msg \in Msgs
    BY <1>13, Serving DEF appendInstant
  <2>2. handler' \in [Handlers -> Requests]
    BY <1>0, <1>a, <1>13, <2>1, InstantSettled
  <2> QED BY <1>0, <1>13, <2>2 DEF appendInstant, TypeOK, Requests, Keys
<1>14. ASSUME NEW h \in Handlers, putMessage(h) PROVE TypeOK'
  <2>1. handler[h].msg \in Msgs /\ handler[h].at \in Nat
    BY <1>a, <1>14, Serving DEF putMessage, Requests
  <2>2. handler' \in [Handlers -> Requests]
    BY <1>0, <1>a, <1>14, <2>1, PutDone
  <2>3. rows' \subseteq [at : Nat, msg : Msgs] /\ fed \subseteq rows' /\ raced' \subseteq Msgs
    BY <1>0, <1>14, <2>1 DEF putMessage, TypeOK
  <2> QED BY <1>0, <1>14, <2>2, <2>3 DEF putMessage, TypeOK, Requests, Keys
<1>15. ASSUME NEW h \in Handlers, Reply(h) PROVE TypeOK'
  <2>1. PICK m \in Msgs : m = handler[h].msg
    BY <1>15, Serving DEF Reply
  <2>2. send' \in [Msgs -> Sends]
    BY <1>a, <1>15, <2>1, Idle DEF Reply
  <2>3. handler' \in [Handlers -> Requests]
    BY <1>a, <1>15, Idle DEF Reply, Answered
  <2>4. /\ faults' \in 0..MaxFaults /\ retained' \subseteq retained
        /\ offset' \in {0} \cup Msgs /\ saved' \in {0} \cup Msgs
    <3>1. CASE handler[h].heard
      <4>1. accepted(m)
        BY <1>15, <2>1, <3>1 DEF Reply
      <4> QED BY <1>0, <1>b, <4>1 DEF accepted, dropPending, TypeOK
    <3>2. CASE ~handler[h].heard
      BY <1>0, <1>15, <3>2 DEF Reply, TypeOK
    <3> QED BY <3>1, <3>2
  <2>5. UNCHANGED <<kind, refused, clock, sent, refusedYet, excused, rows, raced, cursor, fed>>
    BY <1>15 DEF Reply
  <2> QED BY <1>0, <2>2, <2>3, <2>4, <2>5 DEF TypeOK, Sends, Requests, Keys
<1> QED
  BY <1>1, <1>2, <1>3, <1>4, <1>5, <1>6, <1>7, <1>8, <1>9, <1>10, <1>11, <1>12, <1>13, <1>14,
     <1>15 DEF Next, Delivers, Serves

-----------------------------------------------------------------------------
\* What no step undoes: the kinds, the second a message happened, a row.
LEMMA Lasting ==
    ASSUME IngressInv, Next
    PROVE  /\ kind' = kind /\ refused' = refused
           /\ rows \subseteq rows'
           /\ \A m \in Msgs : sent[m] # Never => sent'[m] = sent[m] /\ sent'[m] # Never
<1>0. TypeOK
  BY DEF IngressInv
<1> USE DEF given, routdVars, pollVars, adapterVars
<1>1. kind' = kind /\ refused' = refused
  BY DEF Next, Delivers, Serves, Tick, Feed, CrashRoutd, CrashAdapter, Happen, poll, Dial,
         SweepInboundOnce, retainInbound, Unanswered, Refuse, readFloor, appendInstant,
         putMessage, Reply
<1>2. rows \subseteq rows'
  BY DEF Next, Delivers, Serves, Tick, Feed, CrashRoutd, CrashAdapter, Happen, poll, Dial,
         SweepInboundOnce, retainInbound, Unanswered, Refuse, readFloor, appendInstant,
         putMessage, Reply
<1>3. sent' = sent \/ \E m \in Msgs : Happen(m)
  BY DEF Next, Delivers, Serves, Tick, Feed, CrashRoutd, CrashAdapter, poll, Dial,
         SweepInboundOnce, retainInbound, Unanswered, Refuse, readFloor, appendInstant,
         putMessage, Reply
<1>4. ASSUME NEW m \in Msgs, sent[m] # Never PROVE sent'[m] = sent[m]
  BY <1>0, <1>3, <1>4 DEF Happen, TypeOK
<1>5. Never' = Never
  BY DEF Never
<1> QED
  BY <1>1, <1>2, <1>4, <1>5

\* Messages happen in their order, and the offset follows what has happened.
LEMMA StepOffset == ASSUME IngressInv, Next PROVE OffsetInOrder'
<1>0. TypeOK /\ OffsetInOrder /\ SendHolds
  BY DEF IngressInv
<1>a. \A m \in Msgs : m \in Nat /\ m # 0
  BY MsgsAssumption
<1>b. offset \in Nat /\ saved \in Nat /\ Never' = Never
  BY <1>0, Types DEF Never
<1> USE DEF given, routdVars, pollVars, adapterVars
<1>1. ASSUME NEW m \in Msgs, Happen(m) PROVE OffsetInOrder'
  <2>1. sent'[m] # Never /\ (\A k \in Msgs : k # m => sent'[k] = sent[k])
    BY <1>0, <1>1, Types DEF Happen, TypeOK
  <2>2. \A k \in Msgs : k < m => sent[k] # Never
    BY <1>1 DEF Happen
  <2>3. \A k \in Msgs : sent[k] # Never => sent'[k] # Never
    BY <2>1
  <2>4. \A k, j \in Msgs : k < j /\ sent'[j] # Never => sent'[k] # Never
    BY <1>0, <2>1, <2>2, <2>3 DEF OffsetInOrder
  <2>5. offset' = offset /\ saved' = saved
    BY <1>1 DEF Happen
  <2> QED BY <1>0, <1>b, <2>3, <2>4, <2>5 DEF OffsetInOrder
<1>2. CASE CrashAdapter
  <2>1. saved \in Msgs => sent[saved] # Never
    <3>1. SUFFICES ASSUME saved \in Msgs PROVE sent[saved] # Never
      OBVIOUS
    <3>2. offset \in Msgs /\ (saved < offset \/ saved = offset)
      BY <1>0, <1>a, <1>b, <3>1 DEF OffsetInOrder, TypeOK
    <3> QED BY <1>0, <3>1, <3>2 DEF OffsetInOrder
  <2>2. offset' = saved /\ saved' = saved /\ sent' = sent
    BY <1>2 DEF CrashAdapter
  <2> QED BY <1>0, <1>b, <2>1, <2>2 DEF OffsetInOrder
<1>3. ASSUME NEW h \in Handlers, Reply(h) PROVE OffsetInOrder'
  <2>1. PICK m \in Msgs : m = handler[h].msg /\ sent[m] # Never
    BY <1>3, Serving DEF Reply
  <2>2. sent' = sent
    BY <1>3 DEF Reply
  <2>3. CASE handler[h].heard /\ send[m].by = "poll"
    <3>1. m > offset /\ offset' = m /\ (saved' = m \/ saved' = saved)
      BY <1>0, <1>3, <2>1, <2>3 DEF Reply, accepted, SendHolds
    <3>2. saved' <= offset'
      BY <1>0, <1>a, <1>b, <3>1 DEF OffsetInOrder
    <3> QED BY <1>0, <1>b, <2>1, <2>2, <3>1, <3>2 DEF OffsetInOrder
  <2>4. CASE ~(handler[h].heard /\ send[m].by = "poll")
    <3>1. offset' = offset /\ saved' = saved
      BY <1>3, <2>1, <2>4 DEF Reply, accepted
    <3> QED BY <1>0, <1>b, <2>2, <3>1 DEF OffsetInOrder
  <2> QED BY <2>3, <2>4
<1>4. CASE UNCHANGED <<sent, offset, saved>>
  BY <1>0, <1>b, <1>4 DEF OffsetInOrder
<1> QED
  BY <1>1, <1>2, <1>3, <1>4
  DEF Next, Delivers, Serves, Tick, Feed, CrashRoutd, poll, Dial, SweepInboundOnce,
      retainInbound, Unanswered, Refuse, readFloor, appendInstant, putMessage

\* Whoever sends a message holds it: one send after the other.
LEMMA StepSends == ASSUME IngressInv, Next PROVE SendHolds'
<1>0. TypeOK /\ OffsetInOrder /\ SendHolds
  BY DEF IngressInv
<1>a. \A m \in Msgs : m \in Nat /\ m # 0 /\ send[m] \in Sends
  BY <1>0, Types
<1>b. offset \in Nat /\ Never' = Never /\ clock \in Nat /\ clock # Never /\ send \in [Msgs -> Sends]
  BY <1>0, Types DEF Never
<1>c. kind' = kind
  BY Lasting
<1> USE DEF given, routdVars, pollVars, adapterVars
<1>1. ASSUME NEW m \in Msgs, Happen(m) PROVE SendHolds'
  <2>1. /\ sent[m] = Never /\ sent'[m] = clock /\ retained' = retained /\ offset' = offset
        /\ \A k \in Msgs : k # m => sent'[k] = sent[k]
    BY <1>0, <1>1 DEF Happen, TypeOK
  <2>2. send[m].pc = "idle"
    BY <1>0, <2>1 DEF SendHolds
  <2>3. \A k \in Msgs : send[k].by = "poll" =>
            /\ k \in pulled' /\ k > offset
            /\ \A j \in pulled' : j > offset => j >= k
    <3> SUFFICES ASSUME NEW k \in Msgs, send[k].by = "poll"
                 PROVE  /\ k \in pulled' /\ k > offset
                        /\ \A j \in pulled' : j > offset => j >= k
      OBVIOUS
    <3>1. k \in pulled /\ k > offset /\ (\A j \in pulled : j > offset => j >= k) /\ k # m
      BY <1>0, <2>1, <2>2 DEF SendHolds, pulled
    <3>2. m > k
      BY <1>0, <1>a, <2>1, <3>1 DEF OffsetInOrder, pulled
    <3>3. \A j \in pulled' : j \in pulled \/ j = m
      BY <1>b, <1>c, <2>1 DEF pulled
    <3>4. k \in pulled'
      BY <1>b, <1>c, <2>1, <3>1 DEF pulled
    <3> QED BY <1>a, <3>1, <3>2, <3>3, <3>4
  <2>4. CASE UNCHANGED send
    <3>1. \A k \in Msgs : send[k].pc # "idle" => k # m
      BY <2>2
    <3> QED BY <1>0, <1>b, <1>c, <2>1, <2>3, <2>4, <3>1 DEF SendHolds, Stamp, Stamped
  <2>5. CASE kind[m] = "push" /\ Begin(m, "event", clock)
    <3>1. PICK s \in Sends : /\ send' = [send EXCEPT ![m] = s]
                             /\ s.pc = "post" /\ s.by = "event" /\ s.own = clock * Second
      BY <1>0, <1>b, <2>5, Begins
    <3>2. send'[m] = s /\ \A k \in Msgs : k # m => send'[k] = send[k]
      BY <1>b, <3>1
    <3> QED BY <1>0, <1>b, <1>c, <2>1, <2>3, <2>5, <3>1, <3>2 DEF SendHolds, Stamp, Stamped
  <2> QED BY <1>1, <2>4, <2>5 DEF Happen
<1>2. ASSUME NEW m \in Msgs, NEW s \in Sends, send' = [send EXCEPT ![m] = s],
             UNCHANGED <<sent, offset>>,
             retained' \subseteq retained \cup {m}, retained \ {m} \subseteq retained',
             m \in retained' => sent[m] # Never,
             s.pc = "idle" <=> s.by = "nobody",
             s.pc # "idle" => sent[m] # Never,
             s.pc # "idle" /\ Stamped(m) => s.own = Stamp(m),
             s.by \in {"event", "sweep"} => kind[m] = "push",
             s.by = "sweep" => m \in retained',
             s.by = "poll" => m \in pulled /\ m > offset /\ \A k \in pulled : k > offset => k >= m
      PROVE  SendHolds'
  <2>1. send'[m] = s /\ \A k \in Msgs : k # m => send'[k] = send[k]
    BY <1>b, <1>2
  <2>2. pulled' = pulled
    BY <1>c, <1>2, <1>b DEF pulled
  <2>3. \A k \in Msgs : Stamp(k)' = Stamp(k) /\ Stamped(k)' = Stamped(k)
    BY <1>c, <1>2 DEF Stamp, Stamped
  <2> QED BY <1>0, <1>2, <1>b, <1>c, <2>1, <2>2, <2>3 DEF SendHolds
<1>3. ASSUME NEW m \in Msgs, poll(m) PROVE SendHolds'
  <2> DEFINE sec == IF kind[m] = "press" THEN clock ELSE sent[m]
  <2>1. sec \in Nat /\ Begin(m, "poll", sec) /\ m \in pulled /\ m > offset
        /\ (\A k \in pulled : k > offset => k >= m)
    BY <1>0, <1>3, Types DEF poll
  <2>2. Stamped(m) => sec * Second = Stamp(m)
    BY DEF Stamped, Stamp
  <2> HIDE DEF sec
  <2>3. PICK s \in Sends : /\ send' = [send EXCEPT ![m] = s]
                           /\ s.pc = "post" /\ s.by = "poll" /\ s.own = sec * Second
    BY <1>0, <2>1, Begins
  <2>4. UNCHANGED <<sent, retained, offset>>
    BY <1>3 DEF poll
  <2>5. sent[m] # Never
    BY <2>1 DEF pulled
  <2> QED BY <1>2, <2>1, <2>2, <2>3, <2>4, <2>5
<1>4. ASSUME NEW m \in Msgs, SweepInboundOnce(m) PROVE SendHolds'
  <2>1. Begin(m, "sweep", sent[m]) /\ m \in retained /\ kind[m] = "push" /\ sent[m] \in Nat
    BY <1>0, <1>4, Types DEF SweepInboundOnce, TypeOK
  <2>3. PICK s \in Sends : /\ send' = [send EXCEPT ![m] = s]
                           /\ s.pc = "post" /\ s.by = "sweep" /\ s.own = sent[m] * Second
    BY <1>0, <2>1, Begins
  <2>4. UNCHANGED <<sent, retained, offset>>
    BY <1>4 DEF SweepInboundOnce
  <2>5. sent[m] # Never
    BY <1>0, <2>1 DEF SendHolds
  <2> QED BY <1>2, <2>1, <2>3, <2>4, <2>5 DEF Stamp
<1>5. ASSUME NEW m \in Msgs, NEW s \in Sends, send' = [send EXCEPT ![m] = s],
             UNCHANGED <<sent, offset, retained>>, send[m].pc # "idle",
             s.pc # "idle", s.by = send[m].by, s.own = send[m].own
      PROVE  SendHolds'
  <2>1. /\ s.by # "nobody" /\ sent[m] # Never /\ (Stamped(m) => s.own = Stamp(m))
        /\ s.by \in {"event", "sweep"} => kind[m] = "push"
        /\ s.by = "sweep" => m \in retained
        /\ s.by = "poll" => /\ m \in pulled /\ m > offset
                           /\ \A k \in pulled : k > offset => k >= m
    BY <1>0, <1>5 DEF SendHolds
  <2> QED BY <1>2, <1>5, <2>1
<1>6. ASSUME NEW m \in Msgs, send' = [send EXCEPT ![m] = Quiet], UNCHANGED <<sent, offset>>,
             retained' \subseteq retained \cup {m}, retained \ {m} \subseteq retained',
             m \in retained' => sent[m] # Never
      PROVE  SendHolds'
  BY <1>2, <1>6, Idle
<1>7. ASSUME NEW m \in Msgs, Dial(m) PROVE SendHolds'
  <2>1. PICK s \in Sends : /\ send[m].pc = "post" /\ send' = [send EXCEPT ![m] = s]
                           /\ s.pc = "wait" /\ s.by = send[m].by /\ s.own = send[m].own
    BY <1>0, <1>7, DialTakes
  <2>2. UNCHANGED <<sent, offset, retained>>
    BY <1>7 DEF Dial
  <2> QED BY <1>5, <2>1, <2>2
<1>8. ASSUME NEW m \in Msgs, Unanswered(m) PROVE SendHolds'
  <2>1. PICK s \in Sends : /\ send' = [send EXCEPT ![m] = s] /\ send[m].pc \in {"post", "wait"}
                           /\ s.pc # "idle" /\ s.by = send[m].by /\ s.own = send[m].own
    BY <1>0, <1>8, TriedOnce DEF Unanswered
  <2>2. UNCHANGED <<sent, offset, retained>>
    BY <1>8 DEF Unanswered
  <2> QED BY <1>5, <2>1, <2>2
<1>9. ASSUME NEW m \in Msgs, retainInbound(m) PROVE SendHolds'
  <2>1. send[m].pc # "idle" /\ sent[m] # Never
    BY <1>0, <1>9 DEF retainInbound, SendHolds
  <2>2. /\ send' = [send EXCEPT ![m] = Quiet] /\ UNCHANGED <<sent, offset>>
        /\ retained' \subseteq retained \cup {m} /\ retained \ {m} \subseteq retained'
    BY <1>9 DEF retainInbound
  <2> QED BY <1>6, <2>1, <2>2
<1>10. ASSUME NEW h \in Handlers, Refuse(h) PROVE SendHolds'
  <2>1. PICK m \in Msgs : m = handler[h].msg /\ sent[m] # Never
    BY <1>10, Serving DEF Refuse
  <2>2. UNCHANGED <<sent, offset>>
    BY <1>10 DEF Refuse
  <2>3. CASE send' = [send EXCEPT ![m] = tried(m)] /\ UNCHANGED retained /\ handler[h].heard
    <3>1. send[m].pc = "wait"
      BY <2>1, <2>3 DEF IngressInv, HeardOnce
    <3>2. PICK s \in Sends : /\ send' = [send EXCEPT ![m] = s]
                             /\ s.pc # "idle" /\ s.by = send[m].by /\ s.own = send[m].own
      BY <1>0, <2>3, TriedOnce
    <3> QED BY <1>5, <2>2, <2>3, <3>1, <3>2
  <2>4. CASE send' = [send EXCEPT ![m] = Quiet] /\ refusedFor(m)
    <3>1. retained' \subseteq retained \cup {m} /\ retained \ {m} \subseteq retained'
      BY <2>4 DEF refusedFor, dropPending
    <3> QED BY <1>6, <2>1, <2>2, <2>4, <3>1
  <2>5. CASE UNCHANGED <<retained, send>>
    BY <1>0, <1>b, <1>c, <2>2, <2>5 DEF SendHolds, pulled, Stamp, Stamped
  <2> QED BY <1>10, <2>1, <2>3, <2>4, <2>5 DEF Refuse
<1>11. ASSUME NEW h \in Handlers, Reply(h) PROVE SendHolds'
  <2>1. PICK m \in Msgs : m = handler[h].msg /\ sent[m] # Never
    BY <1>11, Serving DEF Reply
  <2>2. sent' = sent
    BY <1>11 DEF Reply
  <2>3. CASE ~handler[h].heard
    <3>1. UNCHANGED <<sent, offset, retained, send>>
      BY <1>11, <2>3 DEF Reply
    <3> QED BY <1>0, <1>b, <1>c, <3>1 DEF SendHolds, pulled, Stamp, Stamped
  <2>4. CASE handler[h].heard
    <3>1. accepted(m) /\ send' = [send EXCEPT ![m] = Quiet]
      BY <1>11, <2>1, <2>4 DEF Reply
    <3>2. CASE send[m].by = "poll"
      <4>1. offset' = m /\ retained' = retained
        BY <3>1, <3>2 DEF accepted
      <4>2. \A k \in Msgs : k # m => send[k].by # "poll"
        BY <1>0, <1>a, <3>2 DEF SendHolds
      <4>3. send'[m] = Quiet /\ \A k \in Msgs : k # m => send'[k] = send[k]
        BY <1>b, <3>1
      <4>4. \A k \in Msgs : send'[k].by # "poll"
        BY <4>2, <4>3, Idle
      <4>5. \A k \in Msgs : Stamp(k)' = Stamp(k) /\ Stamped(k)' = Stamped(k)
        BY <1>c, <2>2 DEF Stamp, Stamped
      <4> QED BY <1>0, <1>b, <1>c, <2>2, <4>1, <4>3, <4>4, <4>5, Idle DEF SendHolds
    <3>3. CASE send[m].by # "poll"
      <4>1. /\ UNCHANGED <<sent, offset>> /\ retained' \subseteq retained \cup {m}
            /\ retained \ {m} \subseteq retained'
        BY <2>2, <3>1, <3>3 DEF accepted, dropPending
      <4> QED BY <1>6, <2>1, <3>1, <4>1
    <3> QED BY <3>2, <3>3
  <2> QED BY <2>3, <2>4
<1>12. CASE CrashRoutd
  <2>1. UNCHANGED <<sent, offset, retained>>
    BY <1>12 DEF CrashRoutd
  <2>2. \A m \in Msgs : /\ send'[m].pc = "idle" <=> send[m].pc = "idle"
                        /\ send'[m].by = send[m].by /\ send'[m].own = send[m].own
    <3> SUFFICES ASSUME NEW m \in Msgs
                 PROVE  /\ send'[m].pc = "idle" <=> send[m].pc = "idle"
                        /\ send'[m].by = send[m].by /\ send'[m].own = send[m].own
      OBVIOUS
    <3>1. send'[m] = IF send[m].pc = "wait" THEN tried(m) ELSE send[m]
      BY <1>12 DEF CrashRoutd
    <3> QED BY <1>0, <3>1, TriedOnce
  <2>3. pulled' = pulled /\ \A k \in Msgs : Stamp(k)' = Stamp(k) /\ Stamped(k)' = Stamped(k)
    BY <1>b, <1>c, <2>1 DEF Stamp, Stamped, pulled
  <2> QED BY <1>0, <1>b, <1>c, <2>1, <2>2, <2>3 DEF SendHolds
<1>13. CASE CrashAdapter
  <2>1. UNCHANGED <<sent, retained>> /\ \A m \in Msgs : send'[m] = Quiet
    BY <1>13 DEF CrashAdapter
  <2> QED BY <1>0, <1>b, <2>1, Idle DEF SendHolds
<1>14. CASE UNCHANGED <<sent, offset, retained, send>>
  BY <1>0, <1>b, <1>c, <1>14 DEF SendHolds, pulled, Stamp, Stamped
<1> QED
  BY <1>1, <1>3, <1>4, <1>7, <1>8, <1>9, <1>10, <1>11, <1>12, <1>13, <1>14
  DEF Next, Delivers, Serves, Tick, Feed, readFloor, appendInstant, putMessage

-----------------------------------------------------------------------------
\* A send waits for one handler: the others that serve its message are the
\* attempts it has given up.
LEMMA StepHeard == ASSUME IngressInv, Next PROVE HeardOnce'
<1>0. TypeOK /\ SendHolds /\ HeardOnce /\ RowsOrdered
  BY DEF IngressInv
<1>a. send \in [Msgs -> Sends] /\ handler \in [Handlers -> Requests]
  BY <1>0, Types
<1> USE DEF given, routdVars, pollVars, adapterVars
<1>1. ASSUME NEW m \in Msgs, NEW s \in Sends, send[m].pc # "wait",
             send' = [send EXCEPT ![m] = s], handler' = handler
      PROVE  HeardOnce'
  BY <1>0, <1>a, <1>1 DEF HeardOnce
<1>2. ASSUME NEW h \in Handlers, NEW r \in Requests, handler' = [handler EXCEPT ![h] = r],
             r.heard => handler[h].heard /\ r.msg = handler[h].msg,
             \/ send' = send
             \/ /\ ~r.heard /\ handler[h].heard
                /\ \E s \in Sends : send' = [send EXCEPT ![handler[h].msg] = s]
      PROVE  HeardOnce'
  <2>1. handler'[h] = r /\ \A g \in Handlers : g # h => handler'[g] = handler[g]
    BY <1>a, <1>2
  <2>2. CASE send' = send
    BY <1>0, <1>2, <2>1, <2>2 DEF HeardOnce
  <2>3. CASE /\ ~r.heard /\ handler[h].heard
             /\ \E s \in Sends : send' = [send EXCEPT ![handler[h].msg] = s]
    <3>1. \A g \in Handlers : g # h /\ handler[g].heard => handler[g].msg # handler[h].msg
      BY <1>0, <2>3 DEF HeardOnce
    <3>2. \A g \in Handlers : handler'[g].heard => g # h
      BY <2>1, <2>3
    <3>3. \A g \in Handlers : handler'[g].heard =>
              handler[g].heard /\ send'[handler[g].msg] = send[handler[g].msg]
      BY <1>0, <1>a, <2>1, <2>3, <3>1, <3>2 DEF HeardOnce
    <3> QED BY <1>0, <2>1, <3>2, <3>3 DEF HeardOnce
  <2> QED BY <1>2, <2>2, <2>3
<1>3. ASSUME NEW m \in Msgs, Happen(m) PROVE HeardOnce'
  <2>1. handler' = handler
    BY <1>3 DEF Happen
  <2>2. CASE UNCHANGED send
    BY <1>0, <2>1, <2>2 DEF HeardOnce
  <2>3. CASE Begin(m, "event", clock)
    BY <1>0, <1>1, <2>1, <2>3, Types, Begins
  <2> QED BY <1>3, <2>2, <2>3 DEF Happen
<1>4. ASSUME NEW m \in Msgs, poll(m) PROVE HeardOnce'
  <2>1. PICK s \in Nat : Begin(m, "poll", s)
    BY <1>0, <1>4, Types DEF poll
  <2>2. handler' = handler
    BY <1>4 DEF poll
  <2> QED BY <1>0, <1>1, <2>1, <2>2, Begins
<1>5. ASSUME NEW m \in Msgs, SweepInboundOnce(m) PROVE HeardOnce'
  BY <1>0, <1>1, <1>5, Types, Begins DEF SweepInboundOnce
<1>6. ASSUME NEW m \in Msgs, retainInbound(m) PROVE HeardOnce'
  BY <1>1, <1>6, Idle DEF retainInbound
<1>7. ASSUME NEW m \in Msgs, Dial(m) PROVE HeardOnce'
  <2>1. PICK h \in Handlers, r \in Requests, s \in Sends :
              /\ handler[h].pc = "free" /\ handler' = [handler EXCEPT ![h] = r]
              /\ r.msg = m /\ send[m].pc = "post" /\ send' = [send EXCEPT ![m] = s]
              /\ s.pc = "wait"
    BY <1>0, <1>7, DialTakes
  <2>2. handler'[h] = r /\ \A g \in Handlers : g # h => handler'[g] = handler[g]
    BY <1>a, <2>1
  <2>3. send'[m].pc = "wait" /\ \A k \in Msgs : k # m => send'[k] = send[k]
    BY <1>a, <2>1
  <2>4. \A g \in Handlers : handler[g].heard => handler[g].msg # m
    BY <1>0, <2>1 DEF HeardOnce
  <2> QED BY <1>0, <2>1, <2>2, <2>3, <2>4 DEF HeardOnce
<1>8. ASSUME NEW m \in Msgs, Unanswered(m) PROVE HeardOnce'
  <2>1. \A h \in Handlers : handler'[h].heard =>
            handler'[h] = handler[h] /\ handler[h].msg # m
    BY <1>a, <1>8, Deaf DEF Unanswered
  <2>2. \A k \in Msgs : k # m => send'[k] = send[k]
    BY <1>a, <1>8 DEF Unanswered
  <2> QED BY <1>0, <2>1, <2>2 DEF HeardOnce
<1>9. ASSUME NEW h \in Handlers, Refuse(h) PROVE HeardOnce'
  <2>1. PICK m \in Msgs : m = handler[h].msg
    BY <1>9, Serving DEF Refuse
  <2>2. handler' = [handler EXCEPT ![h] = Free]
    BY <1>9 DEF Refuse, Answered
  <2>3. \/ send' = send
        \/ handler[h].heard /\ \E s \in Sends : send' = [send EXCEPT ![m] = s]
    BY <1>0, <1>9, <2>1, TriedOnce, Idle DEF Refuse
  <2> QED BY <1>2, <2>1, <2>2, <2>3, Idle
<1>10. ASSUME NEW h \in Handlers, Reply(h) PROVE HeardOnce'
  <2>1. handler' = [handler EXCEPT ![h] = Free]
    BY <1>10 DEF Reply, Answered
  <2>2. \/ send' = send
        \/ handler[h].heard /\ \E s \in Sends : send' = [send EXCEPT ![handler[h].msg] = s]
    BY <1>10, Idle DEF Reply
  <2> QED BY <1>2, <2>1, <2>2, Idle
<1>11. ASSUME NEW h \in Handlers, readFloor(h) PROVE HeardOnce'
  <2>1. PICK r \in Requests : /\ handler' = [handler EXCEPT ![h] = r]
                              /\ r.msg = handler[h].msg /\ r.heard = handler[h].heard
    BY <1>0, <1>11, Serving, FloorRead DEF readFloor
  <2>2. send' = send
    BY <1>11 DEF readFloor
  <2> QED BY <1>2, <2>1, <2>2
<1>12. ASSUME NEW h \in Handlers, appendInstant(h) PROVE HeardOnce'
  <2>1. PICK r \in Requests : /\ handler' = [handler EXCEPT ![h] = r]
                              /\ r.msg = handler[h].msg /\ r.heard = handler[h].heard
    BY <1>0, <1>12, Serving, InstantSettled DEF appendInstant
  <2>2. send' = send
    BY <1>12 DEF appendInstant
  <2> QED BY <1>2, <2>1, <2>2
<1>13. ASSUME NEW h \in Handlers, putMessage(h) PROVE HeardOnce'
  <2>1. PICK r \in Requests : /\ handler' = [handler EXCEPT ![h] = r]
                              /\ r.msg = handler[h].msg /\ r.heard = handler[h].heard
    BY <1>0, <1>13, Serving, PutDone DEF putMessage
  <2>2. send' = send
    BY <1>13 DEF putMessage
  <2> QED BY <1>2, <2>1, <2>2
<1>14. CASE CrashRoutd
  <2>1. \A h \in Handlers : ~handler'[h].heard
    BY <1>14, Idle DEF CrashRoutd
  <2> QED BY <2>1 DEF HeardOnce
<1>15. CASE CrashAdapter
  <2>1. \A h \in Handlers : ~handler'[h].heard
    BY <1>a, <1>15, Deaf DEF CrashAdapter
  <2> QED BY <2>1 DEF HeardOnce
<1>16. CASE UNCHANGED <<send, handler>>
  BY <1>0, <1>16 DEF HeardOnce
<1> QED
  BY <1>3, <1>4, <1>5, <1>6, <1>7, <1>8, <1>9, <1>10, <1>11, <1>12, <1>13, <1>14, <1>15, <1>16
  DEF Next, Delivers, Serves, Tick, Feed

\* The chat keeps a newest row, its rows are of what has happened, and the
\* cursor is a row that was fed.
LEMMA StepRows == ASSUME IngressInv, Next PROVE RowsOrdered'
<1>0. TypeOK /\ RowsOrdered /\ HandlerKnows
  BY DEF IngressInv
<1>a. rows \subseteq [at : Nat, msg : Msgs] /\ Never' = Never
  BY <1>0, Types DEF Never
<1>b. kind' = kind /\ \A m \in Msgs : sent[m] # Never => sent'[m] = sent[m] /\ sent'[m] # Never
  BY Lasting
<1>c. ASSUME NEW row \in [at : Nat, msg : Msgs], sent[row.msg] # Never,
             Stamped(row.msg) => row.at >= Stamp(row.msg)
      PROVE  sent'[row.msg] # Never' /\ (Stamped(row.msg) => row.at >= Stamp(row.msg))'
  <2>1. sent'[row.msg] = sent[row.msg] /\ row.msg \in Msgs
    BY <1>b, <1>c
  <2>2. Stamp(row.msg)' = Stamp(row.msg) /\ Stamped(row.msg)' = Stamped(row.msg)
    BY <1>b, <2>1 DEF Stamp, Stamped
  <2> QED BY <1>a, <1>c, <2>1, <2>2
<1> USE DEF given, routdVars, pollVars, adapterVars
<1>1. CASE Feed
  <2> DEFINE new == {row \in rows : Below(cursor, row)}
  <2>1. \E k \in new : \A o \in new : ~Below(k, o)
    <3>1. new \subseteq rows /\ new # {}
      BY <1>1 DEF Feed
    <3> HIDE DEF new
    <3> QED BY <1>0, <3>1 DEF RowsOrdered
  <2>2. cursor' \in fed' /\ rows' = rows /\ sent' = sent
    BY <1>1, <2>1 DEF Feed
  <2> QED BY <1>0, <1>a, <1>b, <1>c, <2>2 DEF RowsOrdered
<1>2. ASSUME NEW h \in Handlers, putMessage(h) PROVE RowsOrdered'
  <2>1. handler[h] \in Requests /\ handler[h].msg \in Msgs /\ handler[h].pc = "put"
    BY <1>0, <1>2, Types, Serving DEF putMessage
  <2>2. PICK row \in [at : Nat, msg : Msgs] :
            row = [at |-> handler[h].at, msg |-> handler[h].msg] /\ rows' = rows \cup {row}
    BY <1>2, <2>1 DEF putMessage, Requests
  <2>3. sent[row.msg] # Never /\ (Stamped(row.msg) => row.at >= Stamp(row.msg))
    BY <1>0, <2>1, <2>2 DEF HandlerKnows, Knows
  <2>4. row \in Keys
    BY <2>2 DEF Keys
  <2>5. \A S \in SUBSET rows' : S # {} => \E k \in S : \A o \in S : ~Below(k, o)
    BY <1>0, <2>2, <2>4, OneMoreRow
  <2>6. IsFiniteSet(rows')
    BY <1>0, <2>2, FS_AddElement DEF RowsOrdered
  <2>7. cursor' = cursor /\ fed' = fed
    BY <1>2 DEF putMessage
  <2>8. \A k \in rows' : /\ sent'[k.msg] # Never'
                         /\ (Stamped(k.msg) => k.at >= Stamp(k.msg))'
    <3> SUFFICES ASSUME NEW k \in rows'
                 PROVE  sent'[k.msg] # Never' /\ (Stamped(k.msg) => k.at >= Stamp(k.msg))'
      OBVIOUS
    <3>1. PICK j \in [at : Nat, msg : Msgs] : j = k
      BY <1>a, <2>2
    <3>2. sent[j.msg] # Never /\ (Stamped(j.msg) => j.at >= Stamp(j.msg))
      BY <1>0, <2>2, <2>3, <3>1 DEF RowsOrdered
    <3>3. sent'[j.msg] # Never' /\ (Stamped(j.msg) => j.at >= Stamp(j.msg))'
      BY <1>c, <3>2
    <3> QED BY <3>1, <3>3
  <2> QED BY <1>0, <2>5, <2>6, <2>7, <2>8 DEF RowsOrdered
<1>3. CASE UNCHANGED <<rows, cursor, fed>>
  BY <1>0, <1>a, <1>c, <1>3 DEF RowsOrdered
<1> QED
  BY <1>1, <1>2, <1>3
  DEF Next, Delivers, Serves, Tick, CrashRoutd, CrashAdapter, Happen, poll, Dial,
      SweepInboundOnce, retainInbound, Unanswered, Refuse, readFloor, appendInstant, Reply

-----------------------------------------------------------------------------
\* A chat that a row is added to has grown, or had the row.
LEMMA Grown ==
    ASSUME TypeOK, RowsOrdered, NEW row, rows' = rows \cup {row}
    PROVE  /\ Cardinality(rows) \in Nat /\ Cardinality(rows') \in Nat
           /\ rows' = rows \/ Cardinality(rows') = Cardinality(rows) + 1
<1>1. IsFiniteSet(rows)
  BY DEF RowsOrdered
<1> QED
  BY <1>1, FS_AddElement, FS_CardinalityType

\* What a handler knows is still so after a step of others: where a row was
\* added, the size it read is behind.
LEMMA KnowsKept ==
    ASSUME IngressInv, Next, NEW q \in Requests, Knows(q), NEW r \in Requests,
           r.pc = q.pc, r.msg = q.msg, r.own = q.own, r.floor = q.floor, r.at = q.at,
           r.size = q.size,
           rows' = rows \/ \E row : rows' = rows \cup {row}
    PROVE  Knows(r)'
<1>0. TypeOK /\ RowsOrdered
  BY DEF IngressInv
<1>a. /\ kind' = kind /\ rows \subseteq rows' /\ Never' = Never
      /\ \A m \in Msgs : sent[m] # Never => sent'[m] = sent[m] /\ sent'[m] # Never
  BY Lasting DEF Never
<1>b. q.size \in Nat
  BY DEF Requests
<1>1. CASE r.pc = "free"
  BY <1>1 DEF Knows
<1>2. CASE r.pc # "free"
  <2>1. r.msg \in Msgs /\ sent[r.msg] # Never
    BY <1>2 DEF Knows
  <2>2. sent'[r.msg] # Never' /\ Stamp(r.msg)' = Stamp(r.msg) /\ Stamped(r.msg)' = Stamped(r.msg)
    BY <1>a, <2>1 DEF Stamp, Stamped
  <2>3. stored(r.msg) => stored(r.msg)'
    BY <1>a DEF stored
  <2>4. CASE rows' = rows
    <3>1. PutFits(q) => PutFits(r)'
      BY <2>2, <2>4 DEF PutFits, stored
    <3> QED BY <1>2, <2>1, <2>2, <2>3, <2>4, <3>1 DEF Knows
  <2>5. CASE rows' # rows
    <3>1. Cardinality(rows) \in Nat /\ Cardinality(rows') = Cardinality(rows) + 1
      BY <1>0, <2>5, Grown
    <3>2. r.pc \in {"held", "put"} => r.size <= Cardinality(rows') /\ r.size # Cardinality(rows')
      BY <1>b, <3>1 DEF Knows
    <3>3. r.pc = "put" => PutFits(r)'
      BY <3>2 DEF PutFits
    <3> QED BY <1>2, <2>1, <2>2, <2>3, <3>2, <3>3 DEF Knows
  <2> QED BY <2>4, <2>5
<1> QED
  BY <1>1, <1>2

\* Each step of a handler leaves it with what the next one counts on.
LEMMA StepKnows == ASSUME IngressInv, Next PROVE HandlerKnows'
<1>0. TypeOK /\ RowsOrdered /\ HandlerKnows /\ SendHolds
  BY DEF IngressInv
<1>a. handler \in [Handlers -> Requests]
  BY <1>0, Types
<1>b. Knows(Free)'
  BY Idle DEF Knows
<1>c. kind' = kind /\ Never' = Never
  BY Lasting DEF Never
<1>1. ASSUME rows' = rows \/ \E row : rows' = rows \cup {row}, NEW h \in Handlers,
             handler'[h] = handler[h]
      PROVE  Knows(handler[h])'
  <2>1. PICK r \in Requests : r = handler[h] /\ r = handler'[h]
    BY <1>a, <1>1
  <2>2. Knows(r)
    BY <1>0, <2>1 DEF HandlerKnows
  <2>3. Knows(r)'
    BY <1>1, <2>2, KnowsKept
  <2> QED BY <2>1, <2>3
<1>2. ASSUME rows' = rows \/ \E row : rows' = rows \cup {row}, NEW h \in Handlers,
             NEW r \in Requests, handler' = [handler EXCEPT ![h] = r], Knows(r)'
      PROVE  HandlerKnows'
  <2>1. handler'[h] = r /\ \A g \in Handlers : g # h => handler'[g] = handler[g]
    BY <1>a, <1>2
  <2>2. \A g \in Handlers : g # h => Knows(handler[g])'
    BY <1>1, <1>2, <2>1
  <2>3. Knows(handler[h])'
    BY <1>2, <2>1
  <2> QED BY <2>2, <2>3 DEF HandlerKnows
<1>3. ASSUME rows' = rows, \A h \in Handlers : handler'[h] = handler[h] \/
                               handler'[h] = [handler[h] EXCEPT !.heard = FALSE]
      PROVE  HandlerKnows'
  <2> SUFFICES ASSUME NEW h \in Handlers PROVE Knows(handler[h])'
    BY DEF HandlerKnows
  <2>1. CASE handler'[h] = handler[h]
    BY <1>1, <1>3, <2>1
  <2>2. CASE handler'[h] = [handler[h] EXCEPT !.heard = FALSE]
    <3>1. PICK q \in Requests : q = handler[h]
      BY <1>a
    <3>2. PICK r \in Requests : r = [q EXCEPT !.heard = FALSE]
      BY Deaf
    <3>3. /\ r.pc = q.pc /\ r.msg = q.msg /\ r.own = q.own /\ r.floor = q.floor
          /\ r.at = q.at /\ r.size = q.size
      BY <3>2, Deaf
    <3>4. Knows(q)
      BY <1>0, <3>1 DEF HandlerKnows
    <3>5. Knows(r)'
      BY <1>3, <3>3, <3>4, KnowsKept
    <3>6. handler'[h] = r
      BY <2>2, <3>1, <3>2
    <3> QED BY <3>5, <3>6
  <2> QED BY <1>3, <2>1, <2>2
<1> USE DEF given, routdVars, pollVars, adapterVars
<1>4. ASSUME NEW m \in Msgs, Dial(m) PROVE HandlerKnows'
  <2>1. PICK h \in Handlers, r \in Requests :
              /\ handler' = [handler EXCEPT ![h] = r]
              /\ r.pc = "floor" /\ r.msg = m /\ r.own = send[m].own /\ send[m].pc = "post"
    BY <1>0, <1>4, DialTakes
  <2>2. rows' = rows /\ sent' = sent
    BY <1>4 DEF Dial
  <2>3. sent[m] # Never /\ (Stamped(m) => r.own = Stamp(m))
    BY <1>0, <2>1 DEF SendHolds
  <2>4. sent'[m] # Never' /\ (Stamped(m)' => r.own = Stamp(m)')
    BY <1>c, <2>2, <2>3 DEF Stamp, Stamped
  <2>5. Knows(r)'
    BY <2>1, <2>4 DEF Knows
  <2> QED BY <1>2, <2>1, <2>2, <2>5
<1>5. ASSUME NEW m \in Msgs, Unanswered(m) PROVE HandlerKnows'
  <2>1. rows' = rows /\ \A h \in Handlers : handler'[h] = handler[h] \/
                               handler'[h] = [handler[h] EXCEPT !.heard = FALSE]
    BY <1>5 DEF Unanswered
  <2> QED BY <1>3, <2>1
<1>6. CASE CrashAdapter
  <2>1. rows' = rows /\ \A h \in Handlers : handler'[h] = [handler[h] EXCEPT !.heard = FALSE]
    BY <1>6 DEF CrashAdapter
  <2> QED BY <1>3, <2>1
<1>7. CASE CrashRoutd
  <2>1. \A h \in Handlers : handler'[h] = Free
    BY <1>7 DEF CrashRoutd
  <2>2. Free' = Free
    BY DEF Free
  <2> QED BY <1>b, <2>1, <2>2 DEF HandlerKnows
<1>8. ASSUME NEW h \in Handlers, Answered(h), rows' = rows PROVE HandlerKnows'
  <2>1. PICK r \in Requests : r = Free
    BY Idle
  <2>2. Knows(r)'
    BY <2>1, Idle DEF Knows
  <2> QED BY <1>2, <1>8, <2>1, <2>2 DEF Answered
<1>9. ASSUME NEW h \in Handlers, Refuse(h) PROVE HandlerKnows'
  BY <1>8, <1>9 DEF Refuse
<1>10. ASSUME NEW h \in Handlers, Reply(h) PROVE HandlerKnows'
  BY <1>8, <1>10 DEF Reply
<1>11. ASSUME NEW h \in Handlers, readFloor(h) PROVE HandlerKnows'
  <2>0. PICK q \in Requests : q = handler[h]
    BY <1>a
  <2>1. q.pc = "floor" /\ q.msg \in Msgs /\ sent[q.msg] # Never
        /\ (Stamped(q.msg) => q.own = Stamp(q.msg)) /\ q.own \in Nat
    BY <1>0, <1>11, <2>0 DEF readFloor, HandlerKnows, Knows, Requests
  <2>2. PICK r \in Requests :
              /\ handler' = [handler EXCEPT ![h] = r]
              /\ r.msg = q.msg /\ r.size = Cardinality(rows)
              /\ \/ /\ r.pc = "put" /\ r.at = q.own
                    /\ \A o \in rows : Below(o, [at |-> r.at, msg |-> r.msg])
                 \/ /\ r.pc = "held" /\ r.own = q.own /\ r.floor.at >= r.own
                    /\ \A o \in rows : ~Below(r.floor, o)
    BY <1>0, <1>11, <2>0, <2>1, FloorRead
  <2>3. rows' = rows /\ sent' = sent
    BY <1>11 DEF readFloor
  <2>4. r.msg \in Msgs /\ sent'[r.msg] # Never' /\ r.size \in Nat /\ r.size = Cardinality(rows)'
        /\ Stamp(r.msg)' = Stamp(q.msg) /\ Stamped(r.msg)' = Stamped(q.msg)
    BY <1>c, <2>1, <2>2, <2>3 DEF Stamp, Stamped, Requests
  <2>5. ASSUME r.pc = "held" PROVE Knows(r)'
    BY <2>1, <2>2, <2>3, <2>4, <2>5 DEF Knows
  <2>6. ASSUME r.pc = "put" PROVE Knows(r)'
    <3> DEFINE row == [at |-> r.at, msg |-> r.msg]
    <3>1. r.at = q.own /\ \A o \in rows : Below(o, row)
      BY <2>2, <2>6
    <3>2. Stamped(r.msg)' => ~stored(r.msg)'
      <4> SUFFICES ASSUME Stamped(q.msg), NEW o \in rows, o.msg = r.msg PROVE FALSE
        BY <2>3, <2>4 DEF stored
      <4>1. o.at >= q.own /\ o.at \in Nat
        BY <1>0, <2>1, <2>2, Types DEF RowsOrdered
      <4>2. row.at = q.own /\ row.msg = o.msg /\ o.msg \in Nat
        BY <1>0, <3>1, Types
      <4>3. Below(o, row)
        BY <3>1
      <4> HIDE DEF row
      <4> QED BY <2>1, <4>1, <4>2, <4>3 DEF Below
    <3>3. PutFits(r)'
      BY <2>3, <3>1, <3>2 DEF PutFits
    <3>4. Stamped(r.msg)' => r.at >= Stamp(r.msg)'
      BY <2>1, <2>4, <3>1
    <3> QED BY <2>3, <2>4, <2>6, <3>3, <3>4 DEF Knows
  <2>7. Knows(r)'
    BY <2>2, <2>5, <2>6
  <2> QED BY <1>2, <2>2, <2>3, <2>7
<1>12. ASSUME NEW h \in Handlers, appendInstant(h) PROVE HandlerKnows'
  <2>0. PICK q \in Requests : q = handler[h]
    BY <1>a
  <2>1. /\ q.pc = "held" /\ q.msg \in Msgs /\ sent[q.msg] # Never
        /\ (Stamped(q.msg) => q.own = Stamp(q.msg)) /\ q.size <= Cardinality(rows)
        /\ q.floor.at >= q.own
        /\ (q.size = Cardinality(rows) => \A o \in rows : ~Below(q.floor, o))
    BY <1>0, <1>12, <2>0 DEF appendInstant, HandlerKnows, Knows
  <2>a. q.own \in Nat /\ q.floor \in Keys /\ q.floor.at \in Nat /\ q.size \in Nat
    BY DEF Requests, Keys
  <2>2. PICK r \in Requests :
              /\ handler' = [handler EXCEPT ![h] = r]
              /\ r.pc = "put" /\ r.msg = q.msg /\ r.size = q.size
              /\ \/ r.at >= q.own /\ [at |-> r.at, msg |-> r.msg] \in rows
                 \/ /\ r.at = q.floor.at + 1
                    /\ ~\E row \in rows : row.msg = r.msg /\ row.at >= q.own
    BY <1>0, <1>12, <2>0, <2>1, InstantSettled
  <2>3. rows' = rows /\ sent' = sent
    BY <1>12 DEF appendInstant
  <2>4. r.msg \in Msgs /\ sent'[r.msg] # Never'
        /\ Stamp(r.msg)' = Stamp(q.msg) /\ Stamped(r.msg)' = Stamped(q.msg)
    BY <1>c, <2>1, <2>2, <2>3 DEF Stamp, Stamped
  <2>5. Stamped(r.msg)' => r.at >= Stamp(r.msg)'
    <3>1. r.at >= q.own
      BY <2>1, <2>2, <2>a
    <3> QED BY <2>1, <2>4, <3>1
  <2>6. PutFits(r)'
    <3> DEFINE row == [at |-> r.at, msg |-> r.msg]
    <3>1. CASE row \in rows
      BY <2>3, <3>1 DEF PutFits
    <3>2. CASE row \notin rows /\ q.size = Cardinality(rows)
      <4>1. r.at = q.floor.at + 1 /\ ~\E o \in rows : o.msg = r.msg /\ o.at >= q.own
        BY <2>2, <3>2
      <4>2. \A o \in rows : Below(o, row)
        <5> SUFFICES ASSUME NEW o \in rows PROVE Below(o, row)
          OBVIOUS
        <5>1. ~Below(q.floor, o) /\ o.at \in Nat
          BY <1>0, <2>1, <3>2, Types
        <5>2. o.at < row.at
          BY <2>a, <4>1, <5>1 DEF Below
        <5> HIDE DEF row
        <5> QED BY <5>2 DEF Below
      <4>3. Stamped(r.msg)' => ~stored(r.msg)'
        <5> SUFFICES ASSUME Stamped(q.msg), NEW o \in rows, o.msg = r.msg PROVE FALSE
          BY <2>3, <2>4 DEF stored
        <5>1. o.at >= q.own
          BY <1>0, <2>1, <2>2 DEF RowsOrdered
        <5> QED BY <4>1, <5>1
      <4> QED BY <2>3, <4>2, <4>3 DEF PutFits
    <3>3. CASE q.size # Cardinality(rows)
      BY <2>2, <2>3, <3>3 DEF PutFits
    <3> QED BY <3>1, <3>2, <3>3
  <2>7. Knows(r)'
    BY <2>1, <2>2, <2>3, <2>4, <2>5, <2>6 DEF Knows
  <2> QED BY <1>2, <2>2, <2>3, <2>7
<1>13. ASSUME NEW h \in Handlers, putMessage(h) PROVE HandlerKnows'
  <2>1. handler[h].msg \in Msgs /\ sent[handler[h].msg] # Never
    BY <1>13, Serving DEF putMessage
  <2>2. PICK m \in Msgs, row \in [at : Nat, msg : Msgs] : m = handler[h].msg
            /\ row = [at |-> handler[h].at, msg |-> handler[h].msg] /\ rows' = rows \cup {row}
    BY <1>a, <1>13, <2>1 DEF putMessage, Requests
  <2>3. PICK r \in Requests : /\ handler' = [handler EXCEPT ![h] = r]
                              /\ r.pc = "done" /\ r.msg = m
    BY <1>0, <1>13, <2>1, <2>2, PutDone
  <2>4. row \in rows' /\ row.msg = m /\ sent'[m] # Never'
    BY <2>1, <2>2, Lasting
  <2>5. Knows(r)'
    BY <2>3, <2>4 DEF Knows, stored
  <2> QED BY <1>2, <2>2, <2>3, <2>5
<1>14. CASE rows' = rows /\ handler' = handler
  BY <1>1, <1>14 DEF HandlerKnows
<1> QED
  BY <1>4, <1>5, <1>6, <1>7, <1>9, <1>10, <1>11, <1>12, <1>13, <1>14
  DEF Next, Delivers, Serves, Tick, Feed, Happen, poll, SweepInboundOnce, retainInbound

-----------------------------------------------------------------------------
\* A put adds a message's first row, or the row it has, or meets a chat that
\* grew; and what it adds is past the cursor.
LEMMA StepStored == ASSUME IngressInv, Next PROVE SingleRow' /\ NotBuried'
<1>0. TypeOK /\ RowsOrdered /\ HandlerKnows /\ SingleRow /\ NotBuried
  BY DEF IngressInv
<1>a. kind' = kind
  BY Lasting
<1>b. rows \subseteq Keys /\ cursor \in Keys /\ rows \subseteq [at : Nat, msg : Msgs]
  BY <1>0, Types
<1> USE DEF given, routdVars, pollVars, adapterVars
<1>1. ASSUME NEW h \in Handlers, putMessage(h) PROVE SingleRow' /\ NotBuried'
  <2>0. PICK r \in Requests : r = handler[h]
    BY <1>0, Types
  <2>1. r.pc = "put" /\ r.msg \in Msgs /\ r.at \in Nat /\ PutFits(r)
    BY <1>0, <1>1, <2>0, Serving DEF putMessage, HandlerKnows, Knows, Requests
  <2>2. PICK row \in [at : Nat, msg : Msgs] : row = [at |-> r.at, msg |-> r.msg]
    BY <2>1
  <2>3. /\ rows' = rows \cup {row} /\ cursor' = cursor /\ fed' = fed
        /\ raced' = IF row \notin rows /\ Cardinality(rows) # r.size
                    THEN raced \cup {r.msg} ELSE raced
    BY <1>1, <2>0, <2>2 DEF putMessage
  <2>4. raced \subseteq raced'
    BY <2>3
  <2>5. CASE row \in rows
    <3>1. rows' = rows
      BY <2>3, <2>5
    <3> QED BY <1>0, <1>a, <2>3, <2>4, <3>1 DEF SingleRow, NotBuried, Stamped
  <2>6. CASE row \notin rows /\ Cardinality(rows) # r.size
    <3>1. row.msg \in raced'
      BY <2>2, <2>3, <2>6
    <3> QED BY <1>0, <1>a, <2>2, <2>3, <2>4, <3>1 DEF SingleRow, NotBuried, Stamped
  <2>7. CASE row \notin rows /\ Cardinality(rows) = r.size
    <3>1. (\A o \in rows : Below(o, row)) /\ (Stamped(r.msg) => ~stored(r.msg))
      BY <2>1, <2>2, <2>7 DEF PutFits
    <3>2. Below(cursor, row)
      <4>1. CASE cursor \in fed
        BY <1>0, <3>1, <4>1 DEF TypeOK
      <4>2. CASE cursor = [at |-> 0, msg |-> 0]
        <5>1. row.at \in Nat /\ row.msg \in Nat /\ row.msg # 0
          BY <2>2, MsgsAssumption
        <5>2. cursor.at = 0 /\ cursor.msg = 0
          BY <4>2
        <5> QED BY <5>1, <5>2 DEF Below
      <4> QED BY <1>0, <4>1, <4>2 DEF RowsOrdered
    <3>3. NotBuried'
      BY <1>0, <2>3, <2>4, <3>2 DEF NotBuried
    <3>4. SingleRow'
      <4> SUFFICES ASSUME NEW m \in Msgs, Stamped(m), m \notin raced',
                          NEW a \in rows', NEW b \in rows', a.msg = m, b.msg = m
                   PROVE  a = b
        BY <1>a DEF SingleRow, Stamped
      <4>1. CASE m = r.msg
        BY <2>2, <2>3, <3>1, <4>1 DEF stored
      <4>2. CASE m # r.msg
        BY <1>0, <2>2, <2>3, <2>4, <4>2 DEF SingleRow
      <4> QED BY <4>1, <4>2
    <3> QED BY <3>3, <3>4
  <2> QED BY <2>5, <2>6, <2>7
<1>2. CASE Feed
  <2> DEFINE new == {row \in rows : Below(cursor, row)}
  <2>1. fed' = fed \cup new /\ UNCHANGED <<rows, raced>>
    BY <1>2 DEF Feed
  <2> QED BY <1>0, <1>a, <2>1 DEF SingleRow, NotBuried, Stamped
<1>3. CASE UNCHANGED <<rows, raced, cursor, fed>>
  BY <1>0, <1>a, <1>3 DEF SingleRow, NotBuried, Stamped
<1> QED
  BY <1>1, <1>2, <1>3
  DEF Next, Delivers, Serves, Tick, CrashRoutd, CrashAdapter, Happen, poll, Dial,
      SweepInboundOnce, retainInbound, Unanswered, Refuse, readFloor, appendInstant, Reply

\* Who lets go of a message has given it to another, or it is refused or lost.
LEMMA StepHeld == ASSUME IngressInv, Next PROVE HeldSomewhere'
<1>0. /\ TypeOK /\ OffsetInOrder /\ SendHolds /\ HeardOnce /\ HandlerKnows /\ HeldSomewhere
  BY DEF IngressInv
<1>a. /\ kind' = kind /\ Never' = Never /\ rows \subseteq rows'
      /\ \A m \in Msgs : sent[m] # Never => sent'[m] = sent[m] /\ sent'[m] # Never
  BY Lasting DEF Never
<1>b. \A m \in Msgs : stored(m) => stored(m)'
  BY <1>a DEF stored
<1>c. send \in [Msgs -> Sends] /\ offset \in Nat /\ saved \in Nat
      /\ \A m \in Msgs : m \in Nat /\ m # 0
  BY <1>0, Types
<1> USE DEF given, routdVars, pollVars, adapterVars
\* A step of the sends alone, which lets go of none but m.
<1>1. ASSUME NEW m \in Msgs, UNCHANGED <<sent, offset, saved>>,
             retained \ {m} \subseteq retained',
             refusedYet \subseteq refusedYet', excused \subseteq excused',
             \A k \in Msgs : k # m => send'[k] = send[k],
             kind[m] = "push" => \/ stored(m) \/ m \in retained' \/ send'[m].pc # "idle"
                                 \/ m \in refusedYet' \/ m \in excused'
      PROVE  HeldSomewhere'
  BY <1>0, <1>a, <1>b, <1>1 DEF HeldSomewhere
<1>2. ASSUME UNCHANGED <<sent, offset, saved, retained, refusedYet, excused>>,
             \A k \in Msgs : send[k].pc # "idle" => send'[k].pc # "idle"
      PROVE  HeldSomewhere'
  BY <1>0, <1>a, <1>b, <1>2 DEF HeldSomewhere
<1>3. ASSUME NEW m \in Msgs, NEW s \in Sends, send' = [send EXCEPT ![m] = s], s.pc # "idle",
             UNCHANGED <<sent, offset, saved, retained, refusedYet, excused>>
      PROVE  HeldSomewhere'
  BY <1>2, <1>3, <1>c
<1>4. ASSUME NEW m \in Msgs, Happen(m) PROVE HeldSomewhere'
  <2>1. /\ sent[m] = Never /\ \A k \in Msgs : k # m => sent'[k] = sent[k]
        /\ UNCHANGED <<offset, saved, retained, refusedYet, excused>>
    BY <1>0, <1>4 DEF Happen, TypeOK
  <2>2. offset < m /\ saved < m
    <3>1. offset < m
      <4>1. CASE offset = 0
        BY <1>c, <4>1
      <4>2. CASE offset \in Msgs
        <5>1. offset # m /\ ~(m < offset)
          BY <1>0, <2>1, <4>2 DEF OffsetInOrder
        <5> QED BY <1>c, <5>1
      <4> QED BY <1>0, <4>1, <4>2 DEF TypeOK
    <3>2. saved <= offset
      BY <1>0 DEF OffsetInOrder
    <3> QED BY <1>c, <3>1, <3>2
  <2>3. /\ kind[m] = "push" => send'[m].pc # "idle"
        /\ \A k \in Msgs : k # m => send'[k] = send[k]
    <3>1. CASE kind[m] # "push" /\ UNCHANGED send
      BY <3>1
    <3>2. CASE Begin(m, "event", clock)
      BY <1>0, <1>c, <3>2, Types, Begins
    <3> QED BY <1>4, <3>1, <3>2 DEF Happen
  <2> QED BY <1>0, <1>a, <1>b, <1>c, <2>1, <2>2, <2>3 DEF HeldSomewhere
<1>5. ASSUME NEW m \in Msgs, poll(m) PROVE HeldSomewhere'
  <2>1. PICK sec \in Nat : Begin(m, "poll", sec)
    BY <1>0, <1>5, Types DEF poll
  <2>2. PICK s \in Sends : send' = [send EXCEPT ![m] = s] /\ s.pc # "idle"
    BY <1>0, <2>1, Begins
  <2> QED BY <1>3, <1>5, <2>2 DEF poll
<1>6. ASSUME NEW m \in Msgs, SweepInboundOnce(m) PROVE HeldSomewhere'
  <2>2. PICK s \in Sends : send' = [send EXCEPT ![m] = s] /\ s.pc # "idle"
    BY <1>0, <1>6, Types, Begins DEF SweepInboundOnce
  <2> QED BY <1>3, <1>6, <2>2 DEF SweepInboundOnce
<1>7. ASSUME NEW m \in Msgs, Dial(m) PROVE HeldSomewhere'
  <2>2. PICK s \in Sends : send' = [send EXCEPT ![m] = s] /\ s.pc # "idle"
    BY <1>0, <1>7, DialTakes
  <2> QED BY <1>3, <1>7, <2>2 DEF Dial
<1>8. ASSUME NEW m \in Msgs, Unanswered(m) PROVE HeldSomewhere'
  <2>2. PICK s \in Sends : send' = [send EXCEPT ![m] = s] /\ s.pc # "idle"
    BY <1>0, <1>8, TriedOnce DEF Unanswered
  <2> QED BY <1>3, <1>8, <2>2 DEF Unanswered
<1>9. ASSUME NEW m \in Msgs, retainInbound(m) PROVE HeldSomewhere'
  <2>1. \A k \in Msgs : k # m => send'[k] = send[k]
    BY <1>c, <1>9 DEF retainInbound
  <2>2. kind[m] = "push" => m \in retained' \/ m \in excused'
    <3>1. kind[m] = "push" => send[m].by \in {"event", "sweep"}
      <4>1. send[m].by \in {"nobody", "event", "poll", "sweep"} /\ send[m].pc = "failed"
        BY <1>c, <1>9 DEF Sends, retainInbound
      <4> QED BY <1>0, <4>1 DEF SendHolds, pulled
    <3> QED BY <1>0, <1>9, <3>1 DEF retainInbound, SendHolds
  <2> QED BY <1>1, <1>9, <2>1, <2>2 DEF retainInbound
<1>10. ASSUME NEW h \in Handlers, Refuse(h) PROVE HeldSomewhere'
  <2>1. PICK m \in Msgs : m = handler[h].msg
    BY <1>10, Serving DEF Refuse
  <2>2. UNCHANGED <<sent, offset, saved, excused>>
    BY <1>10 DEF Refuse
  <2>3. CASE /\ handler[h].heard /\ send' = [send EXCEPT ![m] = tried(m)]
             /\ UNCHANGED <<refusedYet, retained, faults>>
    <3>1. tried(m) \in Sends /\ tried(m).pc # "idle"
      BY <1>0, TriedOnce
    <3> QED BY <1>3, <2>2, <2>3, <3>1
  <2>4. CASE send' = [send EXCEPT ![m] = Quiet] /\ refusedFor(m)
    <3>1. \A k \in Msgs : k # m => send'[k] = send[k]
      BY <1>c, <2>4
    <3>2. retained \ {m} \subseteq retained' /\ refusedYet \subseteq refusedYet'
          /\ (kind[m] = "push" => m \in refusedYet')
      BY <2>4 DEF refusedFor, dropPending
    <3> QED BY <1>1, <2>2, <3>1, <3>2
  <2>5. CASE UNCHANGED <<refusedYet, retained, faults, send>>
    BY <1>2, <2>2, <2>5
  <2> QED BY <1>10, <2>1, <2>3, <2>4, <2>5 DEF Refuse
<1>11. ASSUME NEW h \in Handlers, Reply(h) PROVE HeldSomewhere'
  <2>1. PICK m \in Msgs : m = handler[h].msg /\ stored(m)
    BY <1>0, <1>11, Serving DEF Reply, HandlerKnows, Knows
  <2>2. UNCHANGED <<sent, refusedYet, excused>>
    BY <1>11 DEF Reply
  <2>3. CASE ~handler[h].heard
    BY <1>2, <1>11, <2>2, <2>3 DEF Reply
  <2>4. CASE handler[h].heard
    <3>1. accepted(m) /\ send' = [send EXCEPT ![m] = Quiet]
      BY <1>11, <2>1, <2>4 DEF Reply
    <3>2. \A k \in Msgs : k # m => send'[k] = send[k]
      BY <1>c, <3>1
    <3>3. CASE send[m].by # "poll"
      <4>1. UNCHANGED <<offset, saved>> /\ retained \ {m} \subseteq retained'
        BY <3>1, <3>3 DEF accepted, dropPending
      <4> QED BY <1>1, <2>1, <2>2, <3>2, <4>1
    <3>4. CASE send[m].by = "poll"
      <4>1. offset' = m /\ saved' \in {m, saved} /\ retained' = retained
        BY <3>1, <3>4 DEF accepted
      <4>2. m \in pulled /\ m > offset /\ \A k \in pulled : k > offset => k >= m
        BY <1>0, <3>4 DEF SendHolds
      <4>3. kind[m] # "push" /\ stored(m)'
        BY <1>b, <2>1, <4>2 DEF pulled
      <4>4. \A k \in pulled : k > offset /\ k # m => k > offset' /\ (k > saved => k > saved')
        BY <1>c, <4>1, <4>2 DEF pulled
      <4> QED
        <5> SUFFICES ASSUME NEW k \in Msgs, sent'[k] # Never, k # m, ~stored(k)',
                            k \notin refusedYet', k \notin excused'
                     PROVE  \/ kind'[k] # "push" /\ k > offset' /\ k > saved'
                            \/ kind'[k] = "push" /\ (k \in retained' \/ send'[k].pc # "idle")
          BY <1>a, <4>3 DEF HeldSomewhere
        <5>1. \/ kind[k] # "push" /\ k > offset /\ k > saved
              \/ kind[k] = "push" /\ (k \in retained \/ send[k].pc # "idle")
          BY <1>0, <1>b, <2>2 DEF HeldSomewhere
        <5>2. kind[k] # "push" => k \in pulled
          BY <2>2 DEF pulled
        <5> QED BY <1>a, <3>2, <4>1, <4>4, <5>1, <5>2
    <3> QED BY <3>3, <3>4
  <2> QED BY <2>3, <2>4
<1>12. CASE CrashRoutd
  <2>1. \A k \in Msgs : send[k].pc # "idle" => send'[k].pc # "idle"
    BY <1>0, <1>12, TriedOnce DEF CrashRoutd
  <2> QED BY <1>2, <1>12, <2>1 DEF CrashRoutd
<1>13. CASE CrashAdapter
  <2>1. offset' = saved /\ UNCHANGED <<sent, saved, retained, refusedYet>>
        /\ excused' = excused \cup {m \in Msgs : send[m].by = "event"}
    BY <1>13 DEF CrashAdapter
  <2>2. \A m \in Msgs : kind[m] = "push" /\ send[m].pc # "idle" => m \in retained \/ m \in excused'
    <3> SUFFICES ASSUME NEW m \in Msgs, kind[m] = "push", send[m].pc # "idle"
                 PROVE  m \in retained \/ m \in excused'
      OBVIOUS
    <3>1. send[m].by \in {"nobody", "event", "poll", "sweep"}
      BY <1>c DEF Sends
    <3>2. send[m].by # "nobody" /\ send[m].by # "poll"
      BY <1>0 DEF SendHolds, pulled
    <3> QED BY <1>0, <2>1, <3>1, <3>2 DEF SendHolds
  <2> QED BY <1>0, <1>a, <1>b, <2>1, <2>2 DEF HeldSomewhere
<1>14. CASE UNCHANGED <<sent, offset, saved, retained, refusedYet, excused, send>>
  BY <1>2, <1>14
<1> QED
  BY <1>4, <1>5, <1>6, <1>7, <1>8, <1>9, <1>10, <1>11, <1>12, <1>13, <1>14
  DEF Next, Delivers, Serves, Tick, Feed, readFloor, appendInstant, putMessage

-----------------------------------------------------------------------------
\* Before anything has happened nobody holds anything.
LEMMA InitIngress == ASSUME Init PROVE IngressInv
<1>1. TypeOK
  <2>1. kind \in [Msgs -> Kinds] /\ refused \subseteq Msgs
    BY MixesAssumption DEF Init
  <2>2. clock \in 0..MaxTime /\ faults \in 0..MaxFaults /\ Never \in 0..Never
    BY BoundsAssumption DEF Init, Never
  <2>3. send \in [Msgs -> Sends] /\ handler \in [Handlers -> Requests]
    BY Idle DEF Init
  <2> QED BY <2>1, <2>2, <2>3 DEF Init, TypeOK, Sends, Requests, Keys
<1>2. OffsetInOrder
  <2>1. 0 \notin Msgs
    BY MsgsAssumption
  <2> QED BY <2>1 DEF Init, OffsetInOrder
<1>3. SendHolds
  BY Idle DEF Init, SendHolds
<1>4. HeardOnce /\ HandlerKnows
  BY Idle DEF Init, HeardOnce, HandlerKnows, Knows
<1>5. RowsOrdered
  BY FS_EmptySet DEF Init, RowsOrdered
<1>6. SingleRow /\ NotBuried /\ HeldSomewhere
  BY DEF Init, SingleRow, NotBuried, HeldSomewhere
<1> QED
  BY <1>1, <1>2, <1>3, <1>4, <1>5, <1>6 DEF IngressInv

\* A set without two different members has at most one.
LEMMA AtMostOne ==
    ASSUME NEW S, \A a, b \in S : a = b
    PROVE  Cardinality(S) <= 1
<1>1. CASE S = {}
  BY <1>1, FS_EmptySet
<1>2. CASE S # {}
  <2>1. PICK a \in S : S = {a}
    BY <1>2
  <2> QED BY <2>1, FS_Singleton
<1> QED
  BY <1>1, <1>2

\* Every step keeps the invariant: the adapter's two attempts, its polls and
\* sweeps, routd's handlers side by side, and the crashes of either.
THEOREM IngressInvariant == Spec => []IngressInv
<1>1. Init => IngressInv
  BY InitIngress
<1>2. IngressInv /\ [Next]_vars => IngressInv'
  <2> SUFFICES ASSUME IngressInv, [Next]_vars PROVE IngressInv'
    OBVIOUS
  <2>1. CASE Next
    BY <2>1, StepTypes, StepOffset, StepSends, StepHeard, StepRows, StepKnows, StepStored,
       StepHeld DEF IngressInv
  <2>2. CASE UNCHANGED vars
    <3> USE DEF vars, Never, Stamp, Stamped, pulled, stored
    <3>1. TypeOK'
      BY <2>2 DEF IngressInv, TypeOK
    <3>2. OffsetInOrder' /\ SendHolds' /\ HeardOnce'
      BY <2>2 DEF IngressInv, OffsetInOrder, SendHolds, HeardOnce
    <3>3. RowsOrdered' /\ SingleRow' /\ NotBuried' /\ HeldSomewhere'
      BY <2>2 DEF IngressInv, RowsOrdered, SingleRow, NotBuried, HeldSomewhere
    <3>4. HandlerKnows'
      BY <2>2 DEF IngressInv, HandlerKnows, Knows, PutFits
    <3> QED BY <3>1, <3>2, <3>3, <3>4 DEF IngressInv
  <2> QED BY <2>1, <2>2
<1> QED
  BY <1>1, <1>2, PTL DEF Spec

\* TypeOK for any messages, handlers, mixes of kinds and faults.
THEOREM TypeCorrect == Spec => []TypeOK
<1>1. IngressInv => TypeOK
  BY DEF IngressInv
<1> QED
  BY <1>1, IngressInvariant, PTL

\* StoredOnce: handlers that outlive their callers, polls and sweeps leave one
\* row for a message, but for a race of an append and a button's second stamp.
THEOREM OneRowEach == Spec => []StoredOnce
<1>1. IngressInv => StoredOnce
  <2> SUFFICES ASSUME IngressInv, NEW m \in Msgs, m \notin raced, kind[m] # "press"
               PROVE  Cardinality({row \in rows : row.msg = m}) <= 1
    BY DEF StoredOnce
  <2> DEFINE mine == {row \in rows : row.msg = m}
  <2>1. \A a, b \in mine : a = b
    BY DEF IngressInv, SingleRow, Stamped
  <2> HIDE DEF mine
  <2>2. Cardinality(mine) <= 1
    BY <2>1, AtMostOne
  <2> QED BY <2>2 DEF mine
<1> QED
  BY <1>1, IngressInvariant, PTL

\* NotBuried: a row is past the cursor or fed, whatever its message's instant.
THEOREM NoneBuried == Spec => []NotBuried
<1>1. IngressInv => NotBuried
  BY DEF IngressInv
<1> QED
  BY <1>1, IngressInvariant, PTL

\* HeldSomewhere: who lets go of a message has seen its row stored, or given it
\* to inbound_pending, or it is refused or excused.
THEOREM NeverLetGo == Spec => []HeldSomewhere
<1>1. IngressInv => HeldSomewhere
  BY DEF IngressInv
<1> QED
  BY <1>1, IngressInvariant, PTL
=============================================================================
