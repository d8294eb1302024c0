------------------------------ MODULE Outbound ------------------------------
(***************************************************************************)
(* A message on its way out: the send that a tool, a progress update or a  *)
(* daemon makes inline (ipc putOutboundRow, routd deliverRow and           *)
(* handleOutbound), the row and the delivery item stored after it (store   *)
(* message_delivery.go), routd's sweep of what is still owed (loop.go),    *)
(* the end of a turn's progress line, the operator's replay, and the       *)
(* adapter's ledger that posts a key once (chanlib dedup.go, chanstore).   *)
(*                                                                         *)
(* A call runs at the adapter on its own: routd gives up on it after 30    *)
(* seconds, the adapter does not notice.  Both daemons crash; the two      *)
(* stores survive.                                                         *)
(*                                                                         *)
(* Abstractions.  Time: a row is due some time after its last attempt.     *)
(* A post is a sequence of chunks.  Places, threads and wording are left   *)
(* out, and so are muted groups and disabled channels, which send nothing. *)
(***************************************************************************)
EXTENDS Integers, FiniteSets

CONSTANTS
    Rows, Calls, NoRow,
    Kinds,             \* the kinds a run looks at
    Chunks,            \* chunks of a post
    maxOutboundRetry,
    MaxReplays,        \* bound on replays of a row
    MaxFaults          \* bound on crashes and failed writes

\* text: a tool's text.  status: a progress line.  file: a document.
\* daemon: POST /v1/outbound, sent without a key.  notice: stored pending.
AllKinds == {"text", "status", "file", "daemon", "notice"}

ASSUME KindsAssumption == Kinds \subseteq AllKinds
ASSUME NoRowAssumption == NoRow \notin Rows
ASSUME BoundsAssumption ==
    /\ Chunks \in Nat \ {0} /\ maxOutboundRetry \in Nat \ {0}
    /\ MaxReplays \in Nat /\ MaxFaults \in Nat

VARIABLES
    kind,
    stage,     \* of the inline send: new, sending, stored, lost
    item,      \* the delivery item: none, pending, failed
    attempts,  \* of the item
    named,     \* the row carries a platform id
    ending,    \* of a progress line: no, read (no platform id was found), yes
    claim,     \* the adapter's ledger: none, inflight, sent
    call,      \* the calls at the adapter
    sweep,     \* the rows routd's sweep has read, and the one it is sending
    shown,     \* how often the platform took the last chunk   (history)
    begun,     \* how often it took the first chunk            (history)
    torn,      \* rows refused for good behind their first chunk (history)
    replays,
    faults

vars == <<kind, stage, item, attempts, named, ending, claim, call, sweep, shown, begun, torn,
          replays, faults>>

Answers == {"ok", "permanent", "transient"}
Free == [row |-> NoRow, keyed |-> FALSE, from |-> "nobody", pc |-> "free", chunk |-> 1]
Idle == [list |-> {}, row |-> NoRow]

Init ==
    /\ kind \in [Rows -> Kinds]
    /\ stage = [r \in Rows |-> "new"]
    /\ item = [r \in Rows |-> "none"]
    /\ attempts = [r \in Rows |-> 0]
    /\ named = [r \in Rows |-> FALSE]
    /\ ending = [r \in Rows |-> "no"]
    /\ claim = [r \in Rows |-> "none"]
    /\ call = [c \in Calls |-> Free]
    /\ sweep = Idle
    /\ shown = [r \in Rows |-> 0] /\ begun = [r \in Rows |-> 0]
    /\ torn = {}
    /\ replays = [r \in Rows |-> 0]
    /\ faults = 0

Fault == faults < MaxFaults /\ faults' = faults + 1

-----------------------------------------------------------------------------
\* trySend: one call, and its answer or the client's timeout.
Dials(c, r, sender, withKey) ==
    /\ call[c].pc = "free"
    /\ call' = [call EXCEPT ![c] =
          [row |-> r, keyed |-> withKey, from |-> sender, pc |-> "arrived", chunk |-> 1]]

\* Nobody waits for the call any more.
Left(c) == IF call[c].pc \in Answers THEN Free ELSE [call[c] EXCEPT !.from = "nobody"]

\* A timeout, a refused connection and an adapter that died look alike.
Hears(r, sender, answer) ==
    \E c \in Calls :
        /\ call[c].row = r /\ call[c].from = sender
        /\ \/ call[c].pc = answer /\ call' = [call EXCEPT ![c] = Free]
           \/ answer = "transient" /\ call' = [call EXCEPT ![c] = Left(c)]

\* Faulty: a timeout is taken for a send.
statusUnlessRefused(k, answer) == IF answer = "permanent" THEN "failed" ELSE "none"

\* The status the caller stores the row under.
statusAfter(k, answer) ==
    CASE answer = "ok" -> "none"
      [] answer # "ok" /\ k \in {"file", "daemon"} -> "failed"
      [] answer = "permanent" /\ k = "text" -> "failed"
      [] OTHER -> "pending"

sendInline(c, r) ==
    /\ stage[r] = "new" /\ kind[r] # "notice"
    /\ stage' = [stage EXCEPT ![r] = "sending"]
    /\ Dials(c, r, "inline", kind[r] # "daemon")
    /\ UNCHANGED <<kind, item, attempts, named, ending, claim, sweep, shown, begun, torn,
                   replays, faults>>

\* The row is stored only now; a failed write is logged.
PutOutbound(r, answer) ==
    /\ stage[r] = "sending"
    /\ Hears(r, "inline", answer)
    /\ \/ /\ stage' = [stage EXCEPT ![r] = "stored"]
          /\ item' = [item EXCEPT ![r] = statusAfter(kind[r], answer)]
          /\ named' = [named EXCEPT ![r] = answer = "ok"]
          /\ UNCHANGED faults
       \/ /\ Fault
          /\ stage' = [stage EXCEPT ![r] = "lost"]
          /\ UNCHANGED <<item, named>>
    /\ UNCHANGED <<kind, attempts, ending, claim, sweep, shown, begun, torn, replays>>

\* QueueIssueNotice and the release announcement store first and send nothing.
QueueNotice(r) ==
    /\ stage[r] = "new" /\ kind[r] = "notice"
    /\ stage' = [stage EXCEPT ![r] = "stored"]
    /\ item' = [item EXCEPT ![r] = "pending"]
    /\ UNCHANGED <<kind, attempts, named, ending, claim, call, sweep, shown, begun, torn,
                   replays, faults>>

-----------------------------------------------------------------------------
\* endProgress reads the line's row; a line that has a platform id is deleted
\* there, one that has none is dead-lettered.  The sweep does not hold lockTurn.
endProgress(r) ==
    /\ kind[r] = "status" /\ stage[r] = "stored"
    /\ ~named[r] /\ ending[r] = "no"
    /\ ending' = [ending EXCEPT ![r] = "read"]
    /\ UNCHANGED <<kind, stage, item, attempts, named, claim, call, sweep, shown, begun, torn,
                   replays, faults>>

DeadLetter(r) ==
    /\ item' = [item EXCEPT ![r] = "failed"]
    /\ attempts' = [attempts EXCEPT ![r] = 0]

\* The line's content is rewritten last: before that the turn may end again.
endStatusRow(r) ==
    /\ ending[r] = "read"
    /\ DeadLetter(r)
    /\ \/ ending' = [ending EXCEPT ![r] = "yes"] /\ UNCHANGED faults
       \/ ending' = [ending EXCEPT ![r] = "no"] /\ Fault
    /\ UNCHANGED <<kind, stage, named, claim, call, sweep, shown, begun, torn, replays>>

\* Another look at the item than the sweep's, so nothing is read before it.
ReplayDeadLetter(r) ==
    /\ item[r] = "failed" /\ replays[r] < MaxReplays
    /\ item' = [item EXCEPT ![r] = "pending"]
    /\ attempts' = [attempts EXCEPT ![r] = 0]
    /\ replays' = [replays EXCEPT ![r] = @ + 1]
    /\ UNCHANGED <<kind, stage, named, ending, claim, call, sweep, shown, begun, torn, faults>>

-----------------------------------------------------------------------------
\* maybeRetryOutbound reads what is due, then sends row by row.
PendingOutbound(due) ==
    /\ sweep = Idle /\ due # {}
    /\ \A r \in due : item[r] = "pending"
    /\ sweep' = [sweep EXCEPT !.list = due]
    /\ UNCHANGED <<kind, stage, item, attempts, named, ending, claim, call, shown, begun, torn,
                   replays, faults>>

sweepSends(c, r) ==
    /\ sweep.row = NoRow /\ r \in sweep.list
    /\ sweep' = [list |-> sweep.list \ {r}, row |-> r]
    /\ Dials(c, r, "sweep", TRUE)
    /\ UNCHANGED <<kind, stage, item, attempts, named, ending, claim, shown, begun, torn,
                   replays, faults>>

\* The delete in the batch is unconditional, and only of the pending item.
MarkDelivered(r) ==
    /\ item' = [item EXCEPT ![r] = IF @ = "pending" THEN "none" ELSE @]
    /\ named' = [named EXCEPT ![r] = TRUE]
    /\ UNCHANGED attempts

\* Faulty: a failure is not counted.
failUncounted(r) == UNCHANGED <<item, attempts, named>>

\* An item that is gone has been settled by somebody else: nothing to count.
RecordDeliveryFailure(r) ==
    /\ IF item[r] # "pending"
       THEN UNCHANGED <<item, attempts>>
       ELSE LET n == attempts[r] + 1
            IN  /\ attempts' = [attempts EXCEPT ![r] = n]
                /\ item' = [item EXCEPT ![r] = IF n < maxOutboundRetry THEN @ ELSE "failed"]
    /\ UNCHANGED named

\* A write that fails is logged, and the row stays what it was; the count and
\* the move to the dead letters are two writes.
sweepHears(answer) ==
    LET r == sweep.row
    IN  /\ r # NoRow
        /\ Hears(r, "sweep", answer)
        /\ \/ /\ CASE answer = "ok" -> MarkDelivered(r)
                   [] answer = "permanent" -> DeadLetter(r) /\ UNCHANGED named
                   [] answer = "transient" -> RecordDeliveryFailure(r)
              /\ UNCHANGED faults
           \/ /\ Fault
              /\ \/ UNCHANGED attempts
                 \/ /\ answer = "transient" /\ item[r] = "pending"
                    /\ attempts' = [attempts EXCEPT ![r] = @ + 1]
              /\ UNCHANGED <<item, named>>
        /\ sweep' = [sweep EXCEPT !.row = NoRow]
        /\ UNCHANGED <<kind, stage, ending, claim, shown, begun, torn, replays>>

-----------------------------------------------------------------------------
\* The adapter.  A caller that has gone hears nothing.
Replies(c, answer) ==
    call' = [call EXCEPT ![c] =
        IF call[c].from = "nobody" THEN Free ELSE [call[c] EXCEPT !.pc = answer]]

\* The gate answers 401 to a token it cannot check; routd reads every 4xx as
\* permanent (classifyStatus).
Unauthorized(c) ==
    /\ call[c].pc = "arrived"
    /\ Replies(c, "permanent")
    /\ UNCHANGED <<kind, stage, item, attempts, named, ending, claim, sweep, shown, begun,
                   torn, replays, faults>>

\* Faulty: the ledger is written and not read.
claimAgain(c) ==
    /\ call[c].pc = "arrived"
    /\ claim' = [claim EXCEPT ![call[c].row] = IF call[c].keyed THEN "inflight" ELSE @]
    /\ call' = [call EXCEPT ![c].pc = "post"]
    /\ UNCHANGED <<kind, stage, item, attempts, named, ending, sweep, shown, begun, torn,
                   replays, faults>>

\* ClaimDelivery is a put of an absent item; without a key there is no ledger.
ClaimDelivery(c) ==
    LET r == call[c].row
    IN  /\ call[c].pc = "arrived"
        /\ \/ /\ call[c].keyed => claim[r] = "none"
              /\ claim' = [claim EXCEPT ![r] = IF call[c].keyed THEN "inflight" ELSE @]
              /\ call' = [call EXCEPT ![c].pc = "post"]
           \/ /\ call[c].keyed /\ claim[r] # "none"
              /\ Replies(c, IF claim[r] = "sent" THEN "ok" ELSE "transient")
              /\ UNCHANGED claim
        /\ UNCHANGED <<kind, stage, item, attempts, named, ending, sweep, shown, begun, torn,
                       replays, faults>>

\* The platform takes the next chunk.
Taken(c) ==
    LET r == call[c].row
    IN  /\ begun' = [begun EXCEPT ![r] = IF call[c].chunk = 1 THEN @ + 1 ELSE @]
        /\ shown' = [shown EXCEPT ![r] = IF call[c].chunk = Chunks THEN @ + 1 ELSE @]

post(c) ==
    /\ call[c].pc = "post"
    /\ Taken(c)
    /\ call' = [call EXCEPT ![c] =
          IF call[c].chunk = Chunks THEN [call[c] EXCEPT !.pc = "record"]
                                    ELSE [call[c] EXCEPT !.chunk = call[c].chunk + 1]]
    /\ UNCHANGED <<kind, stage, item, attempts, named, ending, claim, sweep, torn, replays,
                   faults>>

\* A refusal as formed (400, 403) releases at any chunk; a rate limit, which
\* proves that nothing was taken, only at the first.
postRefused(c) ==
    /\ call[c].pc = "post"
    /\ \/ /\ call' = [call EXCEPT ![c].pc = "release permanent"]
          /\ torn' = IF call[c].chunk = 1 THEN torn ELSE torn \cup {call[c].row}
       \/ /\ call[c].chunk = 1
          /\ call' = [call EXCEPT ![c].pc = "release transient"]
          /\ UNCHANGED torn
    /\ UNCHANGED <<kind, stage, item, attempts, named, ending, claim, sweep, shown, begun,
                   replays, faults>>

\* Any other error: the chunk may have been taken, and the claim stays.
postUnsure(c) ==
    /\ call[c].pc = "post"
    /\ Taken(c) \/ UNCHANGED <<shown, begun>>
    /\ Replies(c, "transient")
    /\ UNCHANGED <<kind, stage, item, attempts, named, ending, claim, sweep, torn, replays,
                   faults>>

ReleaseUnsentClaim(c) ==
    LET r == call[c].row
    IN  /\ call[c].pc \in {"release permanent", "release transient"}
        /\ Replies(c, IF call[c].pc = "release permanent" THEN "permanent" ELSE "transient")
        /\ \/ /\ claim' = [claim EXCEPT ![r] =
                     IF call[c].keyed /\ @ = "inflight" THEN "none" ELSE @]
              /\ UNCHANGED faults
           \/ /\ call[c].keyed /\ Fault
              /\ UNCHANGED claim
        /\ UNCHANGED <<kind, stage, item, attempts, named, ending, sweep, shown, begun, torn,
                       replays>>

\* Delivered either way; when the record fails the key stays inflight.
RecordDelivered(c) ==
    LET r == call[c].row
    IN  /\ call[c].pc = "record"
        /\ Replies(c, "ok")
        /\ \/ /\ claim' = [claim EXCEPT ![r] = IF call[c].keyed THEN "sent" ELSE @]
              /\ UNCHANGED faults
           \/ /\ call[c].keyed /\ Fault
              /\ UNCHANGED claim
        /\ UNCHANGED <<kind, stage, item, attempts, named, ending, sweep, shown, begun, torn,
                       replays>>

-----------------------------------------------------------------------------
\* routd dies: what it had sent and not stored has no row, and its calls go on.
CrashRoutd ==
    /\ Fault
    /\ stage' = [r \in Rows |-> IF stage[r] = "sending" THEN "lost" ELSE stage[r]]
    /\ ending' = [r \in Rows |-> IF ending[r] = "read" THEN "no" ELSE ending[r]]
    /\ sweep' = Idle
    /\ call' = [c \in Calls |-> Left(c)]
    /\ UNCHANGED <<kind, item, attempts, named, claim, shown, begun, torn, replays>>

\* The adapter dies: its calls break off where they are.
CrashAdapter ==
    /\ Fault
    /\ call' = [c \in Calls |->
          IF call[c].from = "nobody" THEN Free
          ELSE IF call[c].pc \in Answers THEN call[c]
          ELSE [call[c] EXCEPT !.pc = "transient"]]
    /\ UNCHANGED <<kind, stage, item, attempts, named, ending, claim, sweep, shown, begun,
                   torn, replays>>

-----------------------------------------------------------------------------
Inline ==
    \/ \E c \in Calls, r \in Rows : sendInline(c, r)
    \/ \E r \in Rows, answer \in Answers : PutOutbound(r, answer)
    \/ \E r \in Rows : QueueNotice(r) \/ endProgress(r) \/ endStatusRow(r)

Sweep ==
    \/ \E due \in SUBSET Rows : PendingOutbound(due)
    \/ \E c \in Calls, r \in Rows : sweepSends(c, r)
    \/ \E answer \in Answers : sweepHears(answer)

Attempts(c) ==
    \/ Unauthorized(c) \/ ClaimDelivery(c) \/ post(c) \/ postRefused(c) \/ postUnsure(c)
    \/ ReleaseUnsentClaim(c) \/ RecordDelivered(c)

Next ==
    \/ Inline \/ Sweep
    \/ \E c \in Calls : Attempts(c)
    \/ \E r \in Rows : ReplayDeadLetter(r)
    \/ CrashRoutd \/ CrashAdapter

Spec == Init /\ [][Next]_vars

\* The poll loop sweeps every half minute and a row's backoff ends; a call
\* that is made returns, or the client's timeout ends the wait for it.
Fairness ==
    /\ \A r \in Rows :
          SF_vars(\E due \in SUBSET Rows : r \in due /\ PendingOutbound(due))
    /\ WF_vars(\E c \in Calls, r \in Rows : sweepSends(c, r))
    /\ WF_vars(\E answer \in Answers : sweepHears(answer))
    /\ \A c \in Calls : WF_vars(Attempts(c))

FairSpec == Spec /\ Fairness

-----------------------------------------------------------------------------
Posting == {"post", "record", "release permanent", "release transient"}

CallRow ==
    {k \in [row : Rows \cup {NoRow}, keyed : BOOLEAN, from : {"inline", "sweep", "nobody"},
            pc : Answers \cup Posting \cup {"free", "arrived"}, chunk : 1..Chunks] :
        k.pc = "free" => k.from = "nobody"}

\* Types.
TypeOK ==
    /\ kind \in [Rows -> Kinds]
    /\ stage \in [Rows -> {"new", "sending", "stored", "lost"}]
    /\ item \in [Rows -> {"none", "pending", "failed"}]
    /\ attempts \in [Rows -> Nat]
    /\ named \in [Rows -> BOOLEAN] /\ ending \in [Rows -> {"no", "read", "yes"}]
    /\ claim \in [Rows -> {"none", "inflight", "sent"}]
    /\ call \in [Calls -> CallRow]
    /\ sweep \in [list : SUBSET Rows, row : Rows \cup {NoRow}]
    /\ shown \in [Rows -> Nat] /\ begun \in [Rows -> Nat]
    /\ torn \in SUBSET Rows
    /\ replays \in [Rows -> 0..MaxReplays]
    /\ faults \in 0..MaxFaults

\* However often a message with a key is sent, by the tool, the sweep and the
\* sweep after a replay, and whichever of the two daemons dies, the platform
\* gets it once: its last chunk, and its first as well, unless the platform
\* refused a later chunk for good, which releases the claim with the first one
\* shown (classifySendErr, deliverOnce).
ShownOnce ==
    \A r \in Rows : kind[r] # "daemon" =>
        shown[r] <= 1 /\ (begun[r] <= 1 \/ r \in torn)

\* A row that owes a delivery is delivered or ends among the dead letters: no
\* outage of the adapter keeps it with the sweep for ever.
OwedSettles == \A r \in Rows : item[r] = "pending" ~> item[r] # "pending"

\* The ledger, the item and the row together keep what Delivery promises:
\* nothing is taken for delivered that the platform does not have, nothing
\* owed is dropped, and only an operator's replay brings a message again.
Owner(r) ==
    CASE stage[r] # "stored" -> "unborn"
      [] stage[r] = "stored" /\ item[r] = "none" -> "delivered"
      [] stage[r] = "stored" /\ item[r] = "pending" -> "owed"
      [] stage[r] = "stored" /\ item[r] = "failed" -> "abandoned"

Promise == INSTANCE Delivery WITH
    lines <- {r \in Rows : kind[r] = "status"},
    owner <- [r \in Rows |-> Owner(r)],
    reopened <- replays

ImplementsDelivery == Promise!Spec
=============================================================================
