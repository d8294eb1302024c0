--------------------------- MODULE OutboundProofs ---------------------------
(***************************************************************************)
(* Outbound for any rows, calls, chunks and bounds: a message with a key   *)
(* is shown once, and the whole implements Delivery.                       *)
(*                                                                         *)
(* The argument is about who may still post.  A call that holds the claim  *)
(* of a row and has not posted is the only one, and while there is one the *)
(* platform has nothing of the row; a claim goes back only from such a     *)
(* call.  A row that was sent without a key has one more poster, the call  *)
(* made before it was stored; the sweep joins it only after a replay.  The *)
(* same argument counts first chunks, of rows never refused behind one.    *)
(***************************************************************************)
EXTENDS Outbound, TLAPS

\* The call has the row's claim and has not posted; the call needs no claim and
\* has not posted.
Holding(k) == k.keyed /\ k.pc \in Posting \ {"record"}

Fresh(k) == ~k.keyed /\ k.pc \in {"arrived", "post"}

Swept == sweep.list \cup ({sweep.row} \ {NoRow})

\* What a call at the adapter knows.
CallInv ==
    \A c \in Calls :
        call[c].pc # "free" =>
            /\ call[c].row \in Rows
            /\ stage[call[c].row] # "new"
            /\ ~call[c].keyed => kind[call[c].row] = "daemon"
            /\ call[c].keyed /\ kind[call[c].row] = "daemon" => replays[call[c].row] # 0
            /\ call[c].pc \in {"ok", "record"} => shown[call[c].row] # 0
            /\ call[c].keyed /\ call[c].pc \in Posting => claim[call[c].row] = "inflight"
            /\ Holding(call[c]) => /\ shown[call[c].row] \in {0, 1}
                                   /\ kind[call[c].row] # "daemon" => shown[call[c].row] = 0
            /\ Fresh(call[c]) => /\ shown[call[c].row] \in {0, 1}
                                 /\ claim[call[c].row] = "none" => shown[call[c].row] = 0

\* Two calls for one row.
PairInv ==
    \A c, d \in Calls :
        /\ c # d /\ call[c].row = call[d].row
        /\ call[c].pc # "free" /\ call[d].pc # "free"
        => /\ ~(call[c].keyed /\ call[c].pc \in Posting /\ call[d].keyed /\ call[d].pc \in Posting)
           /\ call[c].keyed \/ call[d].keyed
           /\ Fresh(call[c]) /\ Holding(call[d]) => shown[call[c].row] = 0

\* A row: its item, the sweep's stale list, the ledger and the platform.
RowInv ==
    \A r \in Rows :
        /\ stage[r] = "new" => shown[r] = 0 /\ r \notin Swept
        /\ item[r] # "none" => stage[r] = "stored"
        /\ ending[r] # "no" => kind[r] = "status" /\ stage[r] = "stored"
        /\ r \in Swept => item[r] # "none"
        /\ r \in sweep.list => sweep.row # r
        /\ claim[r] = "sent" => shown[r] # 0
        /\ kind[r] # "daemon" => shown[r] \in {0, 1} /\ (shown[r] # 0 => claim[r] # "none")
        /\ kind[r] = "daemon" /\ claim[r] = "none" => shown[r] \in {0, 1}
        /\ kind[r] = "daemon" /\ replays[r] = 0 =>
               claim[r] = "none" /\ item[r] # "pending" /\ r \notin Swept

IInv == TypeOK /\ CallInv /\ PairInv /\ RowInv

-----------------------------------------------------------------------------
\* A call moves on without posting and without touching the ledger, or is over.
Calms(d) ==
    \/ call'[d].pc = "free"
    \/ /\ call[d].pc # "free"
       /\ call'[d].row = call[d].row /\ call'[d].keyed = call[d].keyed
       /\ \/ call'[d].pc = call[d].pc
          \/ call'[d].pc \in {"permanent", "transient"}
          \/ call'[d].pc = "ok" /\ shown[call[d].row] # 0
          \/ call[d].pc = "post" /\ call'[d].pc \in {"release permanent", "release transient"}

\* Such calls keep what is said of calls.
LEMMA Calmer ==
    ASSUME TypeOK, CallInv, PairInv,
           UNCHANGED <<kind, claim, shown>>,
           \A r \in Rows : replays[r] # 0 => replays'[r] # 0,
           \A r \in Rows : stage'[r] = "new" => stage[r] = "new",
           \A d \in Calls : Calms(d)
    PROVE  CallInv' /\ PairInv'
<1>1. \A d \in Calls : call'[d].pc # "free" =>
          /\ call[d].pc # "free" /\ call'[d].row = call[d].row
          /\ call'[d].keyed = call[d].keyed
          /\ call'[d].pc \in {"ok", "record"} => shown[call[d].row] # 0
          /\ call'[d].pc \in Posting => call[d].pc \in Posting
          /\ Holding(call'[d]) => Holding(call[d])
          /\ Fresh(call'[d]) => Fresh(call[d])
  BY DEF Calms, CallInv, Posting, Holding, Fresh
<1>2. CallInv'
  BY <1>1 DEF CallInv
<1>3. PairInv'
  BY <1>1 DEF PairInv
<1> QED BY <1>2, <1>3

\* The last chunk is taken from a call that may post: it was its row's turn.
LEMMA Shows ==
    ASSUME IInv, NEW c \in Calls, call[c].pc = "post",
           shown' = [shown EXCEPT ![call[c].row] = @ + 1],
           UNCHANGED <<kind, stage, item, ending, claim, sweep, replays>>,
           \A d \in Calls : d # c => call'[d] = call[d],
           \/ call'[c].pc = "free"
           \/ /\ call'[c].row = call[c].row /\ call'[c].keyed = call[c].keyed
              /\ call'[c].pc \in {"record", "transient"}
    PROVE  CallInv' /\ PairInv' /\ RowInv' /\ shown[call[c].row] <= replays[call[c].row]
<1> DEFINE r == call[c].row
<1>0. r \in Rows
  BY DEF IInv, CallInv
<1>1. r \in Rows /\ shown \in [Rows -> Nat] /\ replays[r] \in Nat
  <2>1. shown \in [Rows -> Nat] /\ replays[r] \in 0..MaxReplays
    BY <1>0 DEF IInv, TypeOK
  <2> QED BY <1>0, <2>1, BoundsAssumption
<1>2. shown'[r] = shown[r] + 1 /\ \A s \in Rows : s # r => shown'[s] = shown[s]
  BY <1>1
<1>3. Holding(call[c]) \/ Fresh(call[c])
  BY DEF Holding, Fresh, Posting
<1>4. ~Holding(call'[c]) /\ ~Fresh(call'[c])
  BY DEF Holding, Fresh, Posting
<1>5. call[c].keyed => claim[r] = "inflight"
  BY DEF IInv, CallInv, Posting
<1>6. \A d \in Calls : d # c /\ call[d].pc # "free" /\ call[d].row = r
          => /\ Holding(call[d]) => shown[r] = 0 /\ ~Holding(call[c]) /\ kind[r] = "daemon"
             /\ Fresh(call[d]) => shown[r] = 0 /\ call[c].keyed
  BY <1>3, <1>5 DEF IInv, CallInv, PairInv, Holding, Fresh, Posting
<1>7. CallInv'
  <2> SUFFICES ASSUME NEW d \in Calls, call'[d].pc # "free"
               PROVE  /\ call'[d].row \in Rows
                      /\ stage[call'[d].row] # "new"
                      /\ ~call'[d].keyed => kind[call'[d].row] = "daemon"
                      /\ call'[d].keyed /\ kind[call'[d].row] = "daemon"
                            => replays[call'[d].row] # 0
                      /\ call'[d].pc \in {"ok", "record"} => shown'[call'[d].row] # 0
                      /\ call'[d].keyed /\ call'[d].pc \in Posting
                            => claim[call'[d].row] = "inflight"
                      /\ Holding(call'[d]) =>
                            /\ shown'[call'[d].row] \in {0, 1}
                            /\ kind[call'[d].row] # "daemon" => shown'[call'[d].row] = 0
                      /\ Fresh(call'[d]) =>
                            /\ shown'[call'[d].row] \in {0, 1}
                            /\ claim[call'[d].row] = "none" => shown'[call'[d].row] = 0
    BY DEF CallInv, Holding, Fresh
  <2>1. CASE d = c
    BY <1>1, <1>2, <1>4, <1>5, <2>1 DEF IInv, CallInv
  <2>2. CASE d # c /\ call[d].row # r
    BY <1>2, <2>2 DEF IInv, CallInv
  <2>3. CASE d # c /\ call[d].row = r
    BY <1>1, <1>2, <1>5, <1>6, <2>3 DEF IInv, CallInv
  <2> QED BY <2>1, <2>2, <2>3
<1>8. PairInv'
  <2> SUFFICES ASSUME NEW d \in Calls, NEW e \in Calls, d # e, call'[d].row = call'[e].row,
                      call'[d].pc # "free", call'[e].pc # "free"
               PROVE  /\ ~(/\ call'[d].keyed /\ call'[d].pc \in Posting
                           /\ call'[e].keyed /\ call'[e].pc \in Posting)
                      /\ call'[d].keyed \/ call'[e].keyed
                      /\ Fresh(call'[d]) /\ Holding(call'[e]) => shown'[call'[d].row] = 0
    BY DEF PairInv, Holding, Fresh
  <2>1. CASE d = c
    <3>1. call[e].row = call[d].row /\ call[e].pc # "free" /\ call'[e] = call[e]
          /\ call'[d].keyed = call[d].keyed
      BY <2>1
    <3> QED BY <1>4, <2>1, <3>1 DEF IInv, PairInv, Posting
  <2>4. CASE e = c
    <3>1. call[d].row = call[e].row /\ call[d].pc # "free" /\ call'[d] = call[d]
          /\ call'[e].keyed = call[e].keyed
      BY <2>4
    <3> QED BY <1>4, <2>4, <3>1 DEF IInv, PairInv, Posting
  <2>2. CASE d # c /\ e # c /\ call[d].row # r
    BY <1>2, <2>2 DEF IInv, PairInv, CallInv
  <2>3. CASE d # c /\ e # c /\ call[d].row = r
    <3>1. /\ call'[d] = call[d] /\ call'[e] = call[e] /\ call[e].row = r
          /\ call[d].pc # "free" /\ call[e].pc # "free"
      BY <2>3
    <3>2. ~(Fresh(call[d]) /\ Holding(call[e]))
      BY <1>3, <1>6, <2>3, <3>1 DEF Fresh
    <3> QED BY <2>3, <3>1, <3>2 DEF IInv, PairInv
  <2> QED BY <2>1, <2>2, <2>3, <2>4
<1>9. shown[r] \in {0, 1} /\ (kind[r] # "daemon" => shown[r] = 0 /\ claim[r] = "inflight")
      /\ (kind[r] = "daemon" /\ claim[r] = "none" => shown[r] = 0)
  BY <1>3, <1>5 DEF IInv, CallInv, Holding, Fresh
<1>10. RowInv'
  BY <1>1, <1>2, <1>9 DEF IInv, RowInv, CallInv, Swept
<1>11. shown[r] <= replays[r]
  <2>1. CASE replays[r] # 0
    BY <1>1, <1>9, <2>1
  <2>2. CASE ~(replays[r] # 0)
    BY <1>1, <1>9, <2>2 DEF IInv, RowInv
  <2> QED BY <2>1, <2>2
<1> QED BY <1>7, <1>8, <1>10, <1>11

\* A new call: the sweep's always has a key, and the one without is its row's
\* first.
LEMMA Dialled ==
    ASSUME IInv, NEW c \in Calls, NEW r \in Rows, NEW key \in BOOLEAN,
           NEW sender \in {"inline", "sweep"}, Dials(c, r, sender, key),
           UNCHANGED <<kind, claim, shown, replays>>,
           stage'[r] # "new",
           \A s \in Rows : stage'[s] = "new" => stage[s] = "new",
           ~key => kind[r] = "daemon" /\ stage[r] = "new",
           key /\ kind[r] = "daemon" => replays[r] # 0
    PROVE  CallInv' /\ PairInv' /\ call' \in [Calls -> CallRow]
<1> DEFINE k == [row |-> r, keyed |-> key, from |-> sender, pc |-> "arrived", chunk |-> 1]
<1>1. call \in [Calls -> CallRow] /\ k \in CallRow
  BY BoundsAssumption DEF IInv, TypeOK, CallRow
<1>2. /\ call' \in [Calls -> CallRow] /\ call'[c] = k
      /\ \A d \in Calls : d # c => call'[d] = call[d]
  BY <1>1 DEF Dials
<1>3. /\ call'[c].row = r /\ call'[c].keyed = key /\ call'[c].pc = "arrived"
      /\ ~Holding(call'[c]) /\ (Fresh(call'[c]) => ~key)
  BY <1>2 DEF Holding, Fresh, Posting
<1>4. ~key => shown[r] = 0 /\ \A d \in Calls : call[d].pc = "free" \/ call[d].row # r
  BY DEF IInv, CallInv, RowInv
<1>5. "arrived" \notin Posting /\ "arrived" \notin {"ok", "record"}
  BY DEF Posting
<1>6. CallInv'
  <2> SUFFICES ASSUME NEW d \in Calls, call'[d].pc # "free"
               PROVE  /\ call'[d].row \in Rows
                      /\ stage'[call'[d].row] # "new"
                      /\ ~call'[d].keyed => kind[call'[d].row] = "daemon"
                      /\ call'[d].keyed /\ kind[call'[d].row] = "daemon"
                            => replays[call'[d].row] # 0
                      /\ call'[d].pc \in {"ok", "record"} => shown[call'[d].row] # 0
                      /\ call'[d].keyed /\ call'[d].pc \in Posting
                            => claim[call'[d].row] = "inflight"
                      /\ Holding(call'[d]) =>
                            /\ shown[call'[d].row] \in {0, 1}
                            /\ kind[call'[d].row] # "daemon" => shown[call'[d].row] = 0
                      /\ Fresh(call'[d]) =>
                            /\ shown[call'[d].row] \in {0, 1}
                            /\ claim[call'[d].row] = "none" => shown[call'[d].row] = 0
    BY DEF CallInv, Holding, Fresh
  <2>1. CASE d = c
    BY <1>3, <1>4, <1>5, <2>1
  <2>2. CASE d # c
    BY <1>2, <2>2 DEF IInv, CallInv
  <2> QED BY <2>1, <2>2
<1>7. PairInv'
  <2> SUFFICES ASSUME NEW d \in Calls, NEW e \in Calls, d # e, call'[d].row = call'[e].row,
                      call'[d].pc # "free", call'[e].pc # "free"
               PROVE  /\ ~(/\ call'[d].keyed /\ call'[d].pc \in Posting
                           /\ call'[e].keyed /\ call'[e].pc \in Posting)
                      /\ call'[d].keyed \/ call'[e].keyed
                      /\ Fresh(call'[d]) /\ Holding(call'[e]) => shown[call'[d].row] = 0
    BY DEF PairInv, Holding, Fresh
  <2>1. CASE d = c
    <3>1. call[e].row = r /\ call[e].pc # "free"
      BY <1>2, <1>3, <2>1
    <3> QED BY <1>3, <1>4, <1>5, <2>1, <3>1
  <2>2. CASE e = c
    <3>1. call[d].row = r /\ call[d].pc # "free"
      BY <1>2, <1>3, <2>2
    <3> QED BY <1>3, <1>4, <1>5, <2>2, <3>1
  <2>3. CASE d # c /\ e # c
    BY <1>2, <2>3 DEF IInv, PairInv
  <2> QED BY <2>1, <2>2, <2>3
<1> QED BY <1>2, <1>6, <1>7

\* The adapter answers, to a caller or to nobody.
LEMMA Replied ==
    ASSUME TypeOK, NEW c \in Calls, NEW answer \in Answers, Replies(c, answer)
    PROVE  /\ call' \in [Calls -> CallRow]
           /\ \A d \in Calls : d # c => call'[d] = call[d]
           /\ \/ call'[c].pc = "free"
              \/ /\ call'[c].row = call[c].row /\ call'[c].keyed = call[c].keyed
                 /\ call'[c].pc = answer
<1>1. call \in [Calls -> CallRow] /\ call[c] \in CallRow
  BY DEF TypeOK
<1>2. Free \in CallRow /\ Free.pc = "free"
  BY BoundsAssumption DEF Free, CallRow
<1>3. [call[c] EXCEPT !.pc = answer] \in CallRow
  BY <1>1 DEF CallRow, Answers
<1>4. /\ call' \in [Calls -> CallRow]
      /\ \A d \in Calls : d # c => call'[d] = call[d]
      /\ call'[c] = IF call[c].from = "nobody" THEN Free ELSE [call[c] EXCEPT !.pc = answer]
  BY <1>1, <1>2, <1>3 DEF Replies
<1>5. /\ [call[c] EXCEPT !.pc = answer].row = call[c].row
      /\ [call[c] EXCEPT !.pc = answer].keyed = call[c].keyed
      /\ [call[c] EXCEPT !.pc = answer].pc = answer
  BY <1>1 DEF CallRow
<1> QED BY <1>2, <1>4, <1>5

\* routd hears of a call, or gives it up.
LEMMA Heard ==
    ASSUME TypeOK, CallInv, NEW r \in Rows, NEW sender \in {"inline", "sweep"},
           NEW answer \in Answers, Hears(r, sender, answer)
    PROVE  /\ call' \in [Calls -> CallRow]
           /\ \A d \in Calls : Calms(d)
           /\ answer = "ok" => shown[r] # 0
<1>1. PICK c \in Calls :
          /\ call[c].row = r /\ call[c].from = sender
          /\ \/ call[c].pc = answer /\ call' = [call EXCEPT ![c] = Free]
             \/ answer = "transient" /\ call' = [call EXCEPT ![c] = Left(c)]
  BY DEF Hears
<1>2. call \in [Calls -> CallRow] /\ call[c] \in CallRow
  BY DEF TypeOK
<1>3. Free \in CallRow /\ Free.pc = "free"
  BY BoundsAssumption DEF Free, CallRow
<1>4. /\ [call[c] EXCEPT !.from = "nobody"] \in CallRow
      /\ [call[c] EXCEPT !.from = "nobody"].row = call[c].row
      /\ [call[c] EXCEPT !.from = "nobody"].keyed = call[c].keyed
      /\ [call[c] EXCEPT !.from = "nobody"].pc = call[c].pc
  BY <1>2 DEF CallRow
<1>5. \A d \in Calls : d # c => call'[d] = call[d]
  BY <1>1, <1>2
<1>6. call'[c] = Free \/ call'[c] = [call[c] EXCEPT !.from = "nobody"]
  BY <1>1, <1>2 DEF Left
<1>7. call' \in [Calls -> CallRow]
  BY <1>1, <1>2, <1>3, <1>4 DEF Left
<1>8. \A d \in Calls : Calms(d)
  BY <1>3, <1>4, <1>5, <1>6 DEF Calms
<1>9. answer = "ok" => shown[r] # 0
  BY <1>1 DEF CallInv
<1> QED BY <1>7, <1>8, <1>9

\* A claim is put where there is none; a call without a key needs none.
LEMMA Claimed ==
    ASSUME IInv, NEW c \in Calls, call[c].pc = "arrived",
           call[c].keyed => claim[call[c].row] = "none",
           claim' = [claim EXCEPT ![call[c].row] = IF call[c].keyed THEN "inflight" ELSE @],
           call' = [call EXCEPT ![c].pc = "post"],
           UNCHANGED <<kind, stage, item, ending, shown, sweep, replays>>
    PROVE  CallInv' /\ PairInv' /\ RowInv' /\ call' \in [Calls -> CallRow]
           /\ claim' \in [Rows -> {"none", "inflight", "sent"}]
<1> DEFINE r == call[c].row
<1>1. r \in Rows
  BY DEF IInv, CallInv
<1>2. /\ call \in [Calls -> CallRow] /\ claim \in [Rows -> {"none", "inflight", "sent"}]
      /\ shown \in [Rows -> Nat]
  BY DEF IInv, TypeOK
<1>3. [call[c] EXCEPT !.pc = "post"] \in CallRow
  <2>1. call[c] \in CallRow
    BY <1>2
  <2> QED BY <2>1 DEF CallRow, Posting
<1>4. /\ call' \in [Calls -> CallRow]
      /\ call'[c] = [call[c] EXCEPT !.pc = "post"]
      /\ \A d \in Calls : d # c => call'[d] = call[d]
  BY <1>2, <1>3
<1>5. call'[c].row = r /\ call'[c].keyed = call[c].keyed /\ call'[c].pc = "post"
  BY <1>2, <1>4 DEF CallRow
<1>6. /\ claim' \in [Rows -> {"none", "inflight", "sent"}]
      /\ claim'[r] = IF call[c].keyed THEN "inflight" ELSE claim[r]
      /\ \A s \in Rows : s # r => claim'[s] = claim[s]
  BY <1>1, <1>2
<1>7. /\ Holding(call'[c]) <=> call[c].keyed
      /\ Fresh(call'[c]) <=> ~call[c].keyed
      /\ Fresh(call[c]) <=> ~call[c].keyed
  BY <1>5 DEF Holding, Fresh, Posting
<1>8. call[c].keyed => /\ shown[r] \in {0, 1}
                       /\ kind[r] # "daemon" => shown[r] = 0
                       /\ \A d \in Calls : d # c /\ call[d].pc # "free" /\ call[d].row = r =>
                             /\ ~(call[d].keyed /\ call[d].pc \in Posting)
                             /\ Fresh(call[d]) => shown[r] = 0
  BY <1>1, <1>2 DEF IInv, CallInv, RowInv
<1>9. CallInv'
  <2> SUFFICES ASSUME NEW d \in Calls, call'[d].pc # "free"
               PROVE  /\ call'[d].row \in Rows
                      /\ stage[call'[d].row] # "new"
                      /\ ~call'[d].keyed => kind[call'[d].row] = "daemon"
                      /\ call'[d].keyed /\ kind[call'[d].row] = "daemon"
                            => replays[call'[d].row] # 0
                      /\ call'[d].pc \in {"ok", "record"} => shown[call'[d].row] # 0
                      /\ call'[d].keyed /\ call'[d].pc \in Posting
                            => claim'[call'[d].row] = "inflight"
                      /\ Holding(call'[d]) =>
                            /\ shown[call'[d].row] \in {0, 1}
                            /\ kind[call'[d].row] # "daemon" => shown[call'[d].row] = 0
                      /\ Fresh(call'[d]) =>
                            /\ shown[call'[d].row] \in {0, 1}
                            /\ claim'[call'[d].row] = "none" => shown[call'[d].row] = 0
    BY DEF CallInv, Holding, Fresh
  <2>1. CASE d = c
    BY <1>1, <1>5, <1>6, <1>7, <1>8, <2>1 DEF IInv, CallInv
  <2>2. CASE d # c /\ call[d].row # r
    BY <1>4, <1>6, <2>2 DEF IInv, CallInv
  <2>3. CASE d # c /\ call[d].row = r
    BY <1>4, <1>6, <1>8, <2>3 DEF IInv, CallInv
  <2> QED BY <2>1, <2>2, <2>3
<1>10. PairInv'
  <2> SUFFICES ASSUME NEW d \in Calls, NEW e \in Calls, d # e, call'[d].row = call'[e].row,
                      call'[d].pc # "free", call'[e].pc # "free"
               PROVE  /\ ~(/\ call'[d].keyed /\ call'[d].pc \in Posting
                           /\ call'[e].keyed /\ call'[e].pc \in Posting)
                      /\ call'[d].keyed \/ call'[e].keyed
                      /\ Fresh(call'[d]) /\ Holding(call'[e]) => shown[call'[d].row] = 0
    BY DEF PairInv, Holding, Fresh
  <2>1. CASE d = c
    <3>1. call[e].row = r /\ call[e].pc # "free" /\ call'[e] = call[e]
      BY <1>4, <1>5, <2>1
    <3> QED BY <1>5, <1>7, <1>8, <2>1, <3>1 DEF IInv, PairInv
  <2>2. CASE e = c
    <3>1. call[d].row = r /\ call[d].pc # "free" /\ call'[d] = call[d]
      BY <1>4, <1>5, <2>2
    <3> QED BY <1>5, <1>7, <1>8, <2>2, <3>1 DEF IInv, PairInv
  <2>3. CASE d # c /\ e # c
    BY <1>4, <2>3 DEF IInv, PairInv
  <2> QED BY <2>1, <2>2, <2>3
<1>11. call[c].keyed /\ kind[r] = "daemon" => replays[r] # 0
  BY DEF IInv, CallInv
<1>12. RowInv'
  BY <1>1, <1>2, <1>6, <1>11 DEF IInv, RowInv, Swept
<1> QED BY <1>4, <1>6, <1>9, <1>10, <1>12

\* The claim's holder lets go of it, unsent, or records it, sent.
LEMMA Settled ==
    ASSUME IInv, NEW c \in Calls, NEW to \in {"none", "sent"},
           call[c].keyed,
           \/ to = "none" /\ call[c].pc \in {"release permanent", "release transient"}
           \/ to = "sent" /\ call[c].pc = "record",
           claim' = [claim EXCEPT ![call[c].row] = to],
           \A d \in Calls : d # c => call'[d] = call[d],
           \/ call'[c].pc = "free"
           \/ /\ call'[c].row = call[c].row /\ call'[c].keyed = call[c].keyed
              /\ call'[c].pc \in Answers
              /\ call'[c].pc = "ok" => to = "sent",
           UNCHANGED <<kind, stage, item, ending, shown, sweep, replays>>
    PROVE  CallInv' /\ PairInv' /\ RowInv' /\ claim' \in [Rows -> {"none", "inflight", "sent"}]
<1> DEFINE r == call[c].row
<1>1. r \in Rows /\ claim[r] = "inflight" /\ (to = "sent" => shown[r] # 0)
  BY DEF IInv, CallInv, Posting
<1>2. claim \in [Rows -> {"none", "inflight", "sent"}] /\ shown \in [Rows -> Nat]
  BY DEF IInv, TypeOK
<1>3. /\ claim' \in [Rows -> {"none", "inflight", "sent"}] /\ claim'[r] = to
      /\ \A s \in Rows : s # r => claim'[s] = claim[s]
  BY <1>1, <1>2
<1>4. call'[c].pc \notin Posting \cup {"arrived"} /\ ~Holding(call'[c]) /\ ~Fresh(call'[c])
  BY DEF Answers, Posting, Holding, Fresh
<1>5. to = "none" => Holding(call[c]) /\ shown[r] \in {0, 1} /\ (kind[r] # "daemon" => shown[r] = 0)
  BY DEF IInv, CallInv, Holding, Posting
<1>6. \A d \in Calls : d # c /\ call[d].pc # "free" /\ call[d].row = r =>
          /\ ~(call[d].keyed /\ call[d].pc \in Posting)
          /\ to = "none" /\ Fresh(call[d]) => shown[r] = 0
  BY <1>5 DEF IInv, PairInv, Posting
<1>7. CallInv'
  <2> SUFFICES ASSUME NEW d \in Calls, call'[d].pc # "free"
               PROVE  /\ call'[d].row \in Rows
                      /\ stage[call'[d].row] # "new"
                      /\ ~call'[d].keyed => kind[call'[d].row] = "daemon"
                      /\ call'[d].keyed /\ kind[call'[d].row] = "daemon"
                            => replays[call'[d].row] # 0
                      /\ call'[d].pc \in {"ok", "record"} => shown[call'[d].row] # 0
                      /\ call'[d].keyed /\ call'[d].pc \in Posting
                            => claim'[call'[d].row] = "inflight"
                      /\ Holding(call'[d]) =>
                            /\ shown[call'[d].row] \in {0, 1}
                            /\ kind[call'[d].row] # "daemon" => shown[call'[d].row] = 0
                      /\ Fresh(call'[d]) =>
                            /\ shown[call'[d].row] \in {0, 1}
                            /\ claim'[call'[d].row] = "none" => shown[call'[d].row] = 0
    BY DEF CallInv, Holding, Fresh
  <2>1. CASE d = c
    BY <1>1, <1>4, <2>1 DEF IInv, CallInv, Posting
  <2>2. CASE d # c
    <3>1. call'[d] = call[d] /\ call[d].pc # "free" /\ call[d].row \in Rows
      BY <2>2 DEF IInv, CallInv
    <3>2. CASE call[d].row # r
      <4>1. claim'[call[d].row] = claim[call[d].row]
        BY <1>3, <3>1, <3>2
      <4>2. /\ stage[call[d].row] # "new"
            /\ ~call[d].keyed => kind[call[d].row] = "daemon"
            /\ call[d].keyed /\ kind[call[d].row] = "daemon" => replays[call[d].row] # 0
            /\ call[d].pc \in {"ok", "record"} => shown[call[d].row] # 0
            /\ call[d].keyed /\ call[d].pc \in Posting => claim[call[d].row] = "inflight"
            /\ Holding(call[d]) => /\ shown[call[d].row] \in {0, 1}
                                   /\ kind[call[d].row] # "daemon" => shown[call[d].row] = 0
            /\ Fresh(call[d]) => /\ shown[call[d].row] \in {0, 1}
                                 /\ claim[call[d].row] = "none" => shown[call[d].row] = 0
        BY <3>1 DEF IInv, CallInv
      <4> HIDE DEF r
      <4> QED BY <3>1, <4>1, <4>2
    <3>3. CASE call[d].row = r
      <4>1. /\ ~(call[d].keyed /\ call[d].pc \in Posting)
            /\ to = "none" /\ Fresh(call[d]) => shown[r] = 0
        BY <1>6, <2>2, <3>1, <3>3
      <4>2. Fresh(call[d]) => (claim'[r] = "none" => shown[r] = 0)
        BY <1>3, <4>1
      <4>3. ~Holding(call[d])
        BY <4>1 DEF Holding
      <4>4. /\ stage[r] # "new" /\ (~call[d].keyed => kind[r] = "daemon")
            /\ call[d].keyed /\ kind[r] = "daemon" => replays[r] # 0
            /\ call[d].pc \in {"ok", "record"} => shown[r] # 0
            /\ Fresh(call[d]) => shown[r] \in {0, 1}
        BY <3>1, <3>3 DEF IInv, CallInv
      <4> HIDE DEF r
      <4> QED BY <3>1, <3>3, <4>1, <4>2, <4>3, <4>4
    <3> QED BY <3>2, <3>3
  <2> QED BY <2>1, <2>2
<1>8. PairInv'
  <2> SUFFICES ASSUME NEW d \in Calls, NEW e \in Calls, d # e, call'[d].row = call'[e].row,
                      call'[d].pc # "free", call'[e].pc # "free"
               PROVE  /\ ~(/\ call'[d].keyed /\ call'[d].pc \in Posting
                           /\ call'[e].keyed /\ call'[e].pc \in Posting)
                      /\ call'[d].keyed \/ call'[e].keyed
                      /\ Fresh(call'[d]) /\ Holding(call'[e]) => shown[call'[d].row] = 0
    BY DEF PairInv, Holding, Fresh
  <2>1. CASE d = c \/ e = c
    BY <1>4, <2>1
  <2>2. CASE d # c /\ e # c
    BY <2>2 DEF IInv, PairInv
  <2> QED BY <2>1, <2>2
<1>9. kind[r] = "daemon" => replays[r] # 0
  BY DEF IInv, CallInv, Posting
<1>10. RowInv'
  <2>1. ASSUME NEW s \in Rows
        PROVE  /\ claim'[s] = "sent" => shown[s] # 0
               /\ kind[s] # "daemon" => shown[s] \in {0, 1} /\ (shown[s] # 0 => claim'[s] # "none")
               /\ kind[s] = "daemon" /\ claim'[s] = "none" => shown[s] \in {0, 1}
               /\ kind[s] = "daemon" /\ replays[s] = 0 =>
                     claim'[s] = "none" /\ item[s] # "pending" /\ s \notin Swept
    <3>1. CASE s # r
      <4>1. claim'[s] = claim[s]
        BY <1>3, <3>1
      <4> QED BY <4>1 DEF IInv, RowInv
    <3>2. CASE s = r
      <4>1. CASE to = "none"
        <5>1. claim'[r] = "none" /\ shown[r] \in {0, 1} /\ (kind[r] # "daemon" => shown[r] = 0)
          BY <1>3, <1>5, <4>1
        <5>2. ~(kind[r] = "daemon" /\ replays[r] = 0)
          BY <1>9
        <5> HIDE DEF r
        <5> QED BY <3>2, <5>1, <5>2
      <4>2. CASE to = "sent"
        <5>1. kind[r] # "daemon" => shown[r] \in {0, 1}
          BY <1>1 DEF IInv, RowInv
        <5> QED BY <1>1, <1>3, <1>9, <3>2, <4>2, <5>1
      <4> QED BY <4>1, <4>2
    <3> QED BY <3>1, <3>2
  <2> QED BY <2>1 DEF IInv, RowInv, Swept
<1> QED BY <1>3, <1>7, <1>8, <1>10
-----------------------------------------------------------------------------
\* Nobody is posting and nothing is stored.
LEMMA InitIInv ==
    Init => IInv
<1> SUFFICES ASSUME Init PROVE IInv
  OBVIOUS
<1>1. Free \in CallRow /\ Free.pc = "free"
  BY BoundsAssumption DEF Free, CallRow
<1>2. \A c \in Calls : call[c].pc = "free"
  BY <1>1 DEF Init
<1>3. call \in [Calls -> CallRow]
  BY <1>1 DEF Init
<1>4. sweep \in [list : SUBSET Rows, row : Rows \cup {NoRow}] /\ sweep.list = {}
      /\ Swept = {}
  BY DEF Init, Idle, Swept
<1>5. 0 \in 0..MaxReplays /\ 0 \in 0..MaxFaults
  BY BoundsAssumption
<1>6. TypeOK
  BY <1>3, <1>4, <1>5 DEF Init, TypeOK
<1>7. CallInv /\ PairInv
  BY <1>2 DEF CallInv, PairInv
<1>8. RowInv
  BY <1>4 DEF Init, RowInv
<1> QED BY <1>6, <1>7, <1>8 DEF IInv

\* The adapter works at a call: the rows at routd stay, and the platform is
\* given a message only as often as it was asked for.
LEMMA AdapterInv ==
    ASSUME IInv, NEW c \in Calls, Attempts(c)
    PROVE  /\ IInv'
           /\ UNCHANGED <<kind, stage, item, replays>>
           /\ \/ UNCHANGED shown
              \/ \E r \in Rows : /\ shown[r] <= replays[r]
                                 /\ shown' = [shown EXCEPT ![r] = @ + 1]
<1> USE DEF IInv
<1> DEFINE r == call[c].row
<1>0. UNCHANGED <<kind, stage, item, attempts, named, ending, sweep, replays>>
  BY DEF Attempts, Unauthorized, ClaimDelivery, post, postRefused, postUnsure,
         ReleaseUnsentClaim, RecordDelivered
<1>a. faults' \in 0..MaxFaults
  <2>1. UNCHANGED faults \/ Fault
    BY DEF Attempts, Unauthorized, ClaimDelivery, post, postRefused, postUnsure,
           ReleaseUnsentClaim, RecordDelivered
  <2>2. faults \in 0..MaxFaults
    BY DEF TypeOK
  <2> QED BY <2>1, <2>2, BoundsAssumption DEF Fault
<1>b. call[c].pc # "free" => r \in Rows
  BY DEF CallInv
<1>c. call \in [Calls -> CallRow] /\ shown \in [Rows -> Nat] /\ begun \in [Rows -> Nat]
      /\ torn \in SUBSET Rows
  BY DEF TypeOK
\* A call that answers or moves on, with the ledger and the platform as they were.
<1>d. ASSUME call' \in [Calls -> CallRow], begun' \in [Rows -> Nat], torn' \in SUBSET Rows,
             UNCHANGED <<claim, shown>>, \A d \in Calls : Calms(d)
      PROVE  IInv' /\ UNCHANGED shown
  <2>1. CallInv' /\ PairInv'
    BY <1>0, <1>d, Calmer
  <2>2. RowInv'
    BY <1>0, <1>d DEF RowInv, Swept
  <2>3. TypeOK'
    BY <1>0, <1>a, <1>d DEF TypeOK
  <2> QED BY <1>d, <2>1, <2>2, <2>3
<1>e. ASSUME NEW answer \in {"permanent", "transient"}, Replies(c, answer),
             call[c].pc # "free"
      PROVE  call' \in [Calls -> CallRow] /\ \A d \in Calls : Calms(d)
  BY <1>e, Replied DEF Calms, Answers
<1>1. CASE Unauthorized(c)
  <2>1. call[c].pc # "free" /\ Replies(c, "permanent") /\ UNCHANGED <<claim, shown, begun, torn>>
    BY <1>1 DEF Unauthorized
  <2> QED BY <1>0, <1>c, <1>d, <1>e, <2>1
<1>2. CASE ClaimDelivery(c)
  <2>0. call[c].pc = "arrived" /\ UNCHANGED <<shown, begun, torn>>
    BY <1>2 DEF ClaimDelivery
  <2>1. CASE /\ call[c].keyed => claim[r] = "none"
             /\ claim' = [claim EXCEPT ![r] = IF call[c].keyed THEN "inflight" ELSE @]
             /\ call' = [call EXCEPT ![c].pc = "post"]
    <3>1. CallInv' /\ PairInv' /\ RowInv' /\ call' \in [Calls -> CallRow]
          /\ claim' \in [Rows -> {"none", "inflight", "sent"}]
      BY <1>0, <2>0, <2>1, Claimed
    <3>2. TypeOK'
      BY <1>0, <1>a, <2>0, <3>1 DEF TypeOK
    <3> QED BY <1>0, <2>0, <3>1, <3>2
  <2>2. CASE /\ call[c].keyed /\ claim[r] # "none"
             /\ Replies(c, IF claim[r] = "sent" THEN "ok" ELSE "transient")
             /\ UNCHANGED claim
    <3>1. CASE claim[r] = "sent"
      <4>1. Replies(c, "ok") /\ shown[r] # 0
        BY <1>b, <2>0, <2>2, <3>1 DEF RowInv
      <4>2. call' \in [Calls -> CallRow] /\ \A d \in Calls : Calms(d)
        BY <2>0, <4>1, Replied DEF Calms, Answers
      <4> QED BY <1>0, <1>c, <1>d, <2>0, <2>2, <4>2
    <3>2. CASE claim[r] # "sent"
      <4>1. Replies(c, "transient")
        BY <2>2, <3>2
      <4> QED BY <1>0, <1>c, <1>d, <1>e, <2>0, <2>2, <4>1
    <3> QED BY <3>1, <3>2
  <2> QED BY <1>2, <2>1, <2>2 DEF ClaimDelivery
<1>3. CASE post(c)
  <2>0. call[c].pc = "post" /\ Taken(c) /\ UNCHANGED <<claim, torn>> /\ r \in Rows
        /\ call[c] \in CallRow
    BY <1>3, <1>b, <1>c DEF post
  <2>1. begun' \in [Rows -> Nat] /\ shown' \in [Rows -> Nat]
    BY <1>c, <2>0 DEF Taken
  <2>2. CASE call[c].chunk = Chunks
    <3>1. shown' = [shown EXCEPT ![r] = @ + 1]
      BY <2>0, <2>2 DEF Taken
    <3>2. call' = [call EXCEPT ![c] = [call[c] EXCEPT !.pc = "record"]]
      BY <1>3, <1>c, <2>2 DEF post
    <3>3. /\ [call[c] EXCEPT !.pc = "record"] \in CallRow
          /\ [call[c] EXCEPT !.pc = "record"].row = r
          /\ [call[c] EXCEPT !.pc = "record"].keyed = call[c].keyed
          /\ [call[c] EXCEPT !.pc = "record"].pc = "record"
      BY <2>0 DEF CallRow, Posting
    <3>4. call' \in [Calls -> CallRow] /\ call'[c] = [call[c] EXCEPT !.pc = "record"]
          /\ \A d \in Calls : d # c => call'[d] = call[d]
      BY <1>c, <3>2, <3>3
    <3>5. CallInv' /\ PairInv' /\ RowInv' /\ shown[r] <= replays[r]
      BY <1>0, <2>0, <3>1, <3>3, <3>4, Shows
    <3>6. TypeOK'
      BY <1>0, <1>a, <2>0, <2>1, <3>4 DEF TypeOK
    <3> QED BY <1>0, <2>0, <3>1, <3>5, <3>6
  <2>3. CASE call[c].chunk # Chunks
    <3>1. shown' = shown
      BY <1>c, <2>0, <2>3 DEF Taken
    <3>2. call' = [call EXCEPT ![c] = [call[c] EXCEPT !.chunk = call[c].chunk + 1]]
      BY <1>3, <1>c, <2>3 DEF post
    <3>3. call[c].chunk + 1 \in 1..Chunks
      BY <2>0, <2>3, BoundsAssumption DEF CallRow
    <3>4. /\ [call[c] EXCEPT !.chunk = call[c].chunk + 1] \in CallRow
          /\ [call[c] EXCEPT !.chunk = call[c].chunk + 1].row = r
          /\ [call[c] EXCEPT !.chunk = call[c].chunk + 1].keyed = call[c].keyed
          /\ [call[c] EXCEPT !.chunk = call[c].chunk + 1].pc = call[c].pc
      BY <2>0, <3>3 DEF CallRow
    <3>5. call' \in [Calls -> CallRow] /\ call'[c] = [call[c] EXCEPT !.chunk = call[c].chunk + 1]
          /\ \A d \in Calls : d # c => call'[d] = call[d]
      BY <1>c, <3>2, <3>4
    <3>6. \A d \in Calls : Calms(d)
      BY <2>0, <3>4, <3>5 DEF Calms
    <3> QED BY <1>0, <1>c, <1>d, <2>0, <2>1, <3>1, <3>5, <3>6
  <2> QED BY <2>2, <2>3
<1>4. CASE postRefused(c)
  <2>1. PICK to \in {"release permanent", "release transient"} :
            call' = [call EXCEPT ![c].pc = to]
    BY <1>4 DEF postRefused
  <2>2. call[c].pc = "post" /\ UNCHANGED <<claim, shown, begun>> /\ call[c] \in CallRow
    BY <1>4, <1>c DEF postRefused
  <2>3. /\ [call[c] EXCEPT !.pc = to] \in CallRow
        /\ [call[c] EXCEPT !.pc = to].row = r
        /\ [call[c] EXCEPT !.pc = to].keyed = call[c].keyed
        /\ [call[c] EXCEPT !.pc = to].pc = to
    BY <2>2 DEF CallRow, Posting
  <2>4. call' \in [Calls -> CallRow] /\ call'[c] = [call[c] EXCEPT !.pc = to]
        /\ \A d \in Calls : d # c => call'[d] = call[d]
    BY <1>c, <2>1, <2>3
  <2>5. \A d \in Calls : Calms(d)
    BY <2>2, <2>3, <2>4 DEF Calms
  <2>6. torn' \in SUBSET Rows
    BY <1>4, <1>b, <1>c, <2>2 DEF postRefused
  <2> QED BY <1>0, <1>c, <1>d, <2>2, <2>4, <2>5, <2>6
<1>5. CASE postUnsure(c)
  <2>0. call[c].pc = "post" /\ Replies(c, "transient") /\ UNCHANGED <<claim, torn>> /\ r \in Rows
        /\ (Taken(c) \/ UNCHANGED <<shown, begun>>)
    BY <1>5, <1>b DEF postUnsure
  <2>1. begun' \in [Rows -> Nat] /\ shown' \in [Rows -> Nat]
    BY <1>c, <2>0 DEF Taken
  <2>2. CASE Taken(c) /\ call[c].chunk = Chunks
    <3>1. shown' = [shown EXCEPT ![r] = @ + 1]
      BY <2>2 DEF Taken
    <3>2. call' \in [Calls -> CallRow] /\ (\A d \in Calls : d # c => call'[d] = call[d])
          /\ \/ call'[c].pc = "free"
             \/ /\ call'[c].row = r /\ call'[c].keyed = call[c].keyed
                /\ call'[c].pc = "transient"
      BY <2>0, Replied DEF Answers
    <3>3. CallInv' /\ PairInv' /\ RowInv' /\ shown[r] <= replays[r]
      BY <1>0, <2>0, <3>1, <3>2, Shows
    <3>4. TypeOK'
      BY <1>0, <1>a, <2>0, <2>1, <3>2 DEF TypeOK
    <3> QED BY <1>0, <2>0, <3>1, <3>3, <3>4
  <2>3. CASE ~(Taken(c) /\ call[c].chunk = Chunks)
    <3>1. shown' = shown
      BY <1>c, <2>0, <2>3 DEF Taken
    <3> QED BY <1>0, <1>c, <1>d, <1>e, <2>0, <2>1, <3>1
  <2> QED BY <2>2, <2>3
<1>6. CASE ReleaseUnsentClaim(c)
  <2>0. /\ call[c].pc \in {"release permanent", "release transient"}
        /\ call[c].pc # "free" /\ UNCHANGED <<shown, begun, torn>>
    BY <1>6 DEF ReleaseUnsentClaim
  <2>1. PICK answer \in {"permanent", "transient"} : Replies(c, answer)
    BY <1>6 DEF ReleaseUnsentClaim
  <2>2. call[c].keyed => claim[r] = "inflight"
    BY <2>0 DEF CallInv, Posting
  <2>3. CASE call[c].keyed /\ claim' # claim
    <3>1. claim' = [claim EXCEPT ![r] = "none"]
      BY <1>6, <2>2, <2>3 DEF ReleaseUnsentClaim
    <3>2. call' \in [Calls -> CallRow] /\ (\A d \in Calls : d # c => call'[d] = call[d])
          /\ \/ call'[c].pc = "free"
             \/ /\ call'[c].row = r /\ call'[c].keyed = call[c].keyed
                /\ call'[c].pc \in Answers /\ call'[c].pc # "ok"
      BY <2>1, Replied DEF Answers
    <3>3. CallInv' /\ PairInv' /\ RowInv' /\ claim' \in [Rows -> {"none", "inflight", "sent"}]
      BY <1>0, <2>0, <2>3, <3>1, <3>2, Settled
    <3>4. TypeOK'
      BY <1>0, <1>a, <2>0, <3>2, <3>3 DEF TypeOK
    <3> QED BY <1>0, <2>0, <3>3, <3>4
  <2>4. CASE claim' = claim
    BY <1>0, <1>c, <1>d, <1>e, <2>0, <2>1, <2>4
  <2>5. ~call[c].keyed => claim' = claim
    <3>1. claim \in [Rows -> {"none", "inflight", "sent"}]
      BY DEF TypeOK
    <3> QED BY <1>6, <3>1 DEF ReleaseUnsentClaim
  <2> QED BY <2>3, <2>4, <2>5
<1>7. CASE RecordDelivered(c)
  <2>0. call[c].pc = "record" /\ Replies(c, "ok") /\ UNCHANGED <<shown, begun, torn>>
    BY <1>7 DEF RecordDelivered
  <2>1. call' \in [Calls -> CallRow] /\ (\A d \in Calls : d # c => call'[d] = call[d])
        /\ \/ call'[c].pc = "free"
           \/ /\ call'[c].row = r /\ call'[c].keyed = call[c].keyed
              /\ call'[c].pc = "ok"
    BY <2>0, Replied DEF Answers
  <2>2. CASE call[c].keyed /\ claim' # claim
    <3>1. claim' = [claim EXCEPT ![r] = "sent"]
      BY <1>7, <2>2 DEF RecordDelivered
    <3>2. CallInv' /\ PairInv' /\ RowInv' /\ claim' \in [Rows -> {"none", "inflight", "sent"}]
      BY <1>0, <2>0, <2>1, <2>2, <3>1, Settled DEF Answers
    <3>3. TypeOK'
      BY <1>0, <1>a, <2>0, <2>1, <3>2 DEF TypeOK
    <3> QED BY <1>0, <2>0, <3>2, <3>3
  <2>3. CASE claim' = claim
    <3>1. shown[r] # 0
      BY <2>0 DEF CallInv
    <3>2. \A d \in Calls : Calms(d)
      BY <2>0, <2>1, <3>1 DEF Calms
    <3> QED BY <1>0, <1>c, <1>d, <2>0, <2>1, <2>3, <3>2
  <2>4. ~call[c].keyed => claim' = claim
    <3>1. claim \in [Rows -> {"none", "inflight", "sent"}]
      BY DEF TypeOK
    <3> QED BY <1>7, <3>1 DEF RecordDelivered
  <2> QED BY <2>2, <2>3, <2>4
<1> QED BY <1>1, <1>2, <1>3, <1>4, <1>5, <1>6, <1>7 DEF Attempts

\* A fault is counted up to its bound.
LEMMA Counted ==
    ASSUME TypeOK, UNCHANGED faults \/ Fault
    PROVE  faults' \in 0..MaxFaults
<1>1. faults \in 0..MaxFaults
  BY DEF TypeOK
<1> QED BY <1>1, BoundsAssumption DEF Fault

\* routd sends, stores and ends lines: it gives the platform nothing itself.
LEMMA InlineInv ==
    ASSUME IInv, Inline
    PROVE  IInv'
<1> USE DEF IInv
<1>0. \A r \in Rows : stage[r] # "stored" => item[r] = "none" /\ r \notin Swept /\ ending[r] = "no"
  BY DEF RowInv, TypeOK
<1>1. ASSUME NEW c \in Calls, NEW r \in Rows, sendInline(c, r)
      PROVE  IInv'
  <2>1. /\ stage[r] = "new" /\ kind[r] # "notice"
        /\ stage' = [stage EXCEPT ![r] = "sending"]
        /\ Dials(c, r, "inline", kind[r] # "daemon")
        /\ UNCHANGED <<kind, item, attempts, named, ending, claim, sweep, shown, begun, torn,
                       replays, faults>>
    BY <1>1 DEF sendInline
  <2>2. stage \in [Rows -> {"new", "sending", "stored", "lost"}]
    BY DEF TypeOK
  <2>3. /\ stage' \in [Rows -> {"new", "sending", "stored", "lost"}]
        /\ stage'[r] = "sending" /\ \A s \in Rows : s # r => stage'[s] = stage[s]
    BY <2>1, <2>2
  <2>4. CallInv' /\ PairInv' /\ call' \in [Calls -> CallRow]
    <3>1. (kind[r] # "daemon") \in BOOLEAN
      OBVIOUS
    <3>2. \A s \in Rows : stage'[s] = "new" => stage[s] = "new"
      BY <2>3
    <3> QED BY <2>1, <2>3, <3>1, <3>2, Dialled
  <2>5. TypeOK'
    BY <2>1, <2>3, <2>4 DEF TypeOK
  <2>6. RowInv'
    BY <1>0, <2>1, <2>3 DEF RowInv, Swept
  <2> QED BY <2>4, <2>5, <2>6
<1>2. ASSUME NEW r \in Rows, NEW answer \in Answers, PutOutbound(r, answer)
      PROVE  IInv'
  <2>1. /\ stage[r] = "sending" /\ Hears(r, "inline", answer)
        /\ UNCHANGED <<kind, attempts, ending, claim, sweep, shown, begun, torn, replays>>
        /\ UNCHANGED faults \/ Fault
    BY <1>2 DEF PutOutbound
  <2>2. call' \in [Calls -> CallRow] /\ (\A d \in Calls : Calms(d))
    BY <2>1, Heard
  <2>3. /\ stage \in [Rows -> {"new", "sending", "stored", "lost"}]
        /\ item \in [Rows -> {"none", "pending", "failed"}]
        /\ named \in [Rows -> BOOLEAN]
    BY DEF TypeOK
  <2>4. PICK to \in {"stored", "lost"} : stage' = [stage EXCEPT ![r] = to]
    BY <1>2 DEF PutOutbound
  <2>5. /\ stage' \in [Rows -> {"new", "sending", "stored", "lost"}]
        /\ stage'[r] = to /\ \A s \in Rows : s # r => stage'[s] = stage[s]
    BY <2>3, <2>4
  <2>6. statusAfter(kind[r], answer) \in {"none", "pending", "failed"}
        /\ (kind[r] = "daemon" => statusAfter(kind[r], answer) # "pending")
    BY DEF statusAfter, Answers
  <2>7. /\ item' \in [Rows -> {"none", "pending", "failed"}]
        /\ item'[r] # "none" => to = "stored"
        /\ kind[r] = "daemon" => item'[r] # "pending"
        /\ \A s \in Rows : s # r => item'[s] = item[s]
    <3>1. CASE /\ stage' = [stage EXCEPT ![r] = "stored"]
               /\ item' = [item EXCEPT ![r] = statusAfter(kind[r], answer)]
      <4>1. stage'[r] = "stored"
        BY <2>3, <3>1
      <4> QED BY <2>3, <2>5, <2>6, <3>1, <4>1
    <3>2. CASE item' = item
      BY <1>0, <2>1, <2>3, <3>2
    <3> QED BY <1>2, <3>1, <3>2 DEF PutOutbound
  <2>8. named' \in [Rows -> BOOLEAN]
    <3>1. CASE named' = [named EXCEPT ![r] = answer = "ok"]
      BY <2>3, <3>1
    <3>2. CASE named' = named
      BY <2>3, <3>2
    <3> QED BY <1>2, <3>1, <3>2 DEF PutOutbound
  <2>9. CallInv' /\ PairInv'
    <3>1. \A s \in Rows : stage'[s] = "new" => stage[s] = "new"
      BY <2>5
    <3> QED BY <2>1, <2>2, <3>1, Calmer
  <2>10. TypeOK'
    BY <2>1, <2>2, <2>5, <2>7, <2>8, Counted DEF TypeOK
  <2>11. RowInv'
    BY <1>0, <2>1, <2>5, <2>7 DEF RowInv, Swept
  <2> QED BY <2>9, <2>10, <2>11
<1>3. ASSUME NEW r \in Rows, QueueNotice(r)
      PROVE  IInv'
  <2>1. /\ stage[r] = "new" /\ kind[r] = "notice"
        /\ stage' = [stage EXCEPT ![r] = "stored"] /\ item' = [item EXCEPT ![r] = "pending"]
        /\ UNCHANGED <<kind, attempts, named, ending, claim, call, sweep, shown, begun, torn,
                       replays, faults>>
    BY <1>3 DEF QueueNotice
  <2>2. /\ stage' \in [Rows -> {"new", "sending", "stored", "lost"}]
        /\ item' \in [Rows -> {"none", "pending", "failed"}]
        /\ stage'[r] = "stored" /\ item'[r] = "pending"
        /\ \A s \in Rows : s # r => stage'[s] = stage[s] /\ item'[s] = item[s]
    BY <2>1 DEF TypeOK
  <2>3. CallInv' /\ PairInv'
    <3>1. \A s \in Rows : stage'[s] = "new" => stage[s] = "new"
      BY <2>2
    <3>2. \A d \in Calls : Calms(d)
      BY <2>1 DEF Calms
    <3> QED BY <2>1, <3>1, <3>2, Calmer
  <2>4. TypeOK'
    BY <2>1, <2>2 DEF TypeOK
  <2>5. RowInv'
    BY <1>0, <2>1, <2>2 DEF RowInv, Swept
  <2> QED BY <2>3, <2>4, <2>5
<1>4. ASSUME NEW r \in Rows, endProgress(r)
      PROVE  IInv'
  <2>1. /\ kind[r] = "status" /\ stage[r] = "stored"
        /\ ending' = [ending EXCEPT ![r] = "read"]
        /\ UNCHANGED <<kind, stage, item, attempts, named, claim, call, sweep, shown, begun, torn,
                       replays, faults>>
    BY <1>4 DEF endProgress
  <2>2. /\ ending' \in [Rows -> {"no", "read", "yes"}]
        /\ \A s \in Rows : s # r => ending'[s] = ending[s]
    BY <2>1 DEF TypeOK
  <2>3. CallInv' /\ PairInv'
    <3>1. \A d \in Calls : Calms(d)
      BY <2>1 DEF Calms
    <3> QED BY <2>1, <3>1, Calmer
  <2>4. TypeOK'
    BY <2>1, <2>2 DEF TypeOK
  <2>5. RowInv'
    BY <2>1, <2>2 DEF RowInv, Swept
  <2> QED BY <2>3, <2>4, <2>5
<1>5. ASSUME NEW r \in Rows, endStatusRow(r)
      PROVE  IInv'
  <2>1. /\ ending[r] = "read"
        /\ item' = [item EXCEPT ![r] = "failed"] /\ attempts' = [attempts EXCEPT ![r] = 0]
        /\ UNCHANGED <<kind, stage, named, claim, call, sweep, shown, begun, torn, replays>>
        /\ UNCHANGED faults \/ Fault
    BY <1>5 DEF endStatusRow, DeadLetter
  <2>2. PICK to \in {"yes", "no"} : ending' = [ending EXCEPT ![r] = to]
    BY <1>5 DEF endStatusRow
  <2>3. /\ ending' \in [Rows -> {"no", "read", "yes"}]
        /\ item' \in [Rows -> {"none", "pending", "failed"}] /\ item'[r] = "failed"
        /\ attempts' \in [Rows -> Nat]
        /\ \A s \in Rows : s # r => ending'[s] = ending[s] /\ item'[s] = item[s]
    BY <2>1, <2>2 DEF TypeOK
  <2>4. kind[r] = "status" /\ stage[r] = "stored"
    BY <2>1 DEF RowInv
  <2>5. CallInv' /\ PairInv'
    <3>1. \A d \in Calls : Calms(d)
      BY <2>1 DEF Calms
    <3> QED BY <2>1, <3>1, Calmer
  <2>6. TypeOK'
    BY <2>1, <2>3, Counted DEF TypeOK
  <2>7. RowInv'
    BY <2>1, <2>3, <2>4 DEF RowInv, Swept
  <2> QED BY <2>5, <2>6, <2>7
<1> QED BY <1>1, <1>2, <1>3, <1>4, <1>5 DEF Inline

\* The sweep reads what is owed and sends it with the row's key.
LEMMA SweepInv ==
    ASSUME IInv, Sweep
    PROVE  IInv'
<1> USE DEF IInv
<1>1. ASSUME NEW due \in SUBSET Rows, PendingOutbound(due)
      PROVE  IInv'
  <2>1. /\ sweep = Idle /\ \A r \in due : item[r] = "pending"
        /\ sweep' = [sweep EXCEPT !.list = due]
        /\ UNCHANGED <<kind, stage, item, attempts, named, ending, claim, call, shown, begun, torn,
                       replays, faults>>
    BY <1>1 DEF PendingOutbound
  <2>2. /\ sweep' \in [list : SUBSET Rows, row : Rows \cup {NoRow}]
        /\ sweep'.list = due /\ sweep'.row = NoRow /\ Swept' = due
    BY <2>1 DEF Idle, Swept
  <2>3. CallInv' /\ PairInv'
    <3>1. \A d \in Calls : Calms(d)
      BY <2>1 DEF Calms
    <3> QED BY <2>1, <3>1, Calmer
  <2>4. TypeOK'
    BY <2>1, <2>2 DEF TypeOK
  <2>5. RowInv'
    BY <2>1, <2>2, NoRowAssumption DEF RowInv
  <2> QED BY <2>3, <2>4, <2>5
<1>2. ASSUME NEW c \in Calls, NEW r \in Rows, sweepSends(c, r)
      PROVE  IInv'
  <2>1. /\ r \in sweep.list /\ sweep' = [list |-> sweep.list \ {r}, row |-> r]
        /\ Dials(c, r, "sweep", TRUE)
        /\ UNCHANGED <<kind, stage, item, attempts, named, ending, claim, shown, begun, torn,
                       replays, faults>>
    BY <1>2 DEF sweepSends
  <2>2. /\ sweep' \in [list : SUBSET Rows, row : Rows \cup {NoRow}]
        /\ sweep'.list = sweep.list \ {r} /\ sweep'.row = r
        /\ r \in Swept /\ Swept' \subseteq Swept
    BY <2>1 DEF TypeOK, Swept
  <2>3. stage[r] # "new" /\ (kind[r] = "daemon" => replays[r] # 0)
    BY <2>2 DEF RowInv
  <2>4. CallInv' /\ PairInv' /\ call' \in [Calls -> CallRow]
    BY <2>1, <2>3, Dialled
  <2>5. TypeOK'
    BY <2>1, <2>2, <2>4 DEF TypeOK
  <2>6. RowInv'
    BY <2>1, <2>2 DEF RowInv
  <2> QED BY <2>4, <2>5, <2>6
<1>3. ASSUME NEW answer \in Answers, sweepHears(answer)
      PROVE  IInv'
  <2> DEFINE r == sweep.row
  <2>1. /\ r # NoRow /\ Hears(r, "sweep", answer)
        /\ sweep' = [sweep EXCEPT !.row = NoRow]
        /\ UNCHANGED <<kind, stage, ending, claim, shown, begun, torn, replays>>
        /\ UNCHANGED faults \/ Fault
    BY <1>3 DEF sweepHears
  <2>2. r \in Rows /\ r \in Swept
    BY <2>1 DEF TypeOK, Swept
  <2>3. call' \in [Calls -> CallRow] /\ (\A d \in Calls : Calms(d))
    BY <2>1, <2>2, Heard
  <2>4. /\ sweep' \in [list : SUBSET Rows, row : Rows \cup {NoRow}]
        /\ Swept' \subseteq Swept /\ r \notin Swept'
        /\ sweep'.list \subseteq Rows /\ sweep'.row = NoRow
    BY <2>1, <2>2 DEF TypeOK, Swept, RowInv
  <2>5. item[r] # "none" /\ stage[r] = "stored"
    BY <2>2 DEF RowInv
  <2>6. /\ item \in [Rows -> {"none", "pending", "failed"}]
        /\ attempts \in [Rows -> Nat] /\ named \in [Rows -> BOOLEAN]
    BY DEF TypeOK
  <2>7. /\ item' \in [Rows -> {"none", "pending", "failed"}]
        /\ attempts' \in [Rows -> Nat] /\ named' \in [Rows -> BOOLEAN]
        /\ \A s \in Rows : s # r => item'[s] = item[s]
        /\ item'[r] = "pending" => item[r] = "pending"
    <3>1. CASE answer = "ok" /\ MarkDelivered(r)
      BY <2>2, <2>6, <3>1 DEF MarkDelivered
    <3>2. CASE answer = "permanent" /\ DeadLetter(r) /\ UNCHANGED named
      BY <2>2, <2>6, <3>2 DEF DeadLetter
    <3>3. CASE answer = "transient" /\ RecordDeliveryFailure(r)
      BY <2>2, <2>6, <3>3 DEF RecordDeliveryFailure
    <3>4. CASE UNCHANGED <<item, named>>
               /\ (UNCHANGED attempts \/ attempts' = [attempts EXCEPT ![r] = @ + 1])
      BY <2>2, <2>6, <3>4
    <3> QED BY <1>3, <3>1, <3>2, <3>3, <3>4 DEF sweepHears, Answers
  <2>8. CallInv' /\ PairInv'
    BY <2>1, <2>3, Calmer
  <2>9. TypeOK'
    BY <2>1, <2>3, <2>4, <2>7, Counted DEF TypeOK
  <2>10. RowInv'
    <3> HIDE DEF r
    <3> QED BY <2>1, <2>2, <2>4, <2>5, <2>7, NoRowAssumption DEF RowInv
  <2> QED BY <2>8, <2>9, <2>10
<1> QED BY <1>1, <1>2, <1>3 DEF Sweep

\* The operator's replay, and the two crashes.
LEMMA RestInv ==
    ASSUME IInv, (\E r \in Rows : ReplayDeadLetter(r)) \/ CrashRoutd \/ CrashAdapter
    PROVE  IInv'
<1> USE DEF IInv
<1>0. Free \in CallRow /\ Free.pc = "free"
  BY BoundsAssumption DEF Free, CallRow
<1>a. call \in [Calls -> CallRow]
  BY DEF TypeOK
<1>1. ASSUME NEW r \in Rows, ReplayDeadLetter(r)
      PROVE  IInv'
  <2>1. /\ item[r] = "failed" /\ replays[r] < MaxReplays
        /\ item' = [item EXCEPT ![r] = "pending"] /\ attempts' = [attempts EXCEPT ![r] = 0]
        /\ replays' = [replays EXCEPT ![r] = @ + 1]
        /\ UNCHANGED <<kind, stage, named, ending, claim, call, sweep, shown, begun, torn, faults>>
    BY <1>1 DEF ReplayDeadLetter
  <2>2. /\ item' \in [Rows -> {"none", "pending", "failed"}] /\ item'[r] = "pending"
        /\ attempts' \in [Rows -> Nat]
        /\ \A s \in Rows : s # r => item'[s] = item[s] /\ replays'[s] = replays[s]
    BY <2>1 DEF TypeOK
  <2>3. replays \in [Rows -> 0..MaxReplays]
    BY DEF TypeOK
  <2>4. replays[r] + 1 \in 0..MaxReplays /\ replays[r] + 1 # 0
    BY <2>1, <2>3, BoundsAssumption
  <2>5. replays' \in [Rows -> 0..MaxReplays] /\ replays'[r] # 0
    BY <2>1, <2>3, <2>4
  <2>6. CallInv' /\ PairInv'
    <3>1. \A d \in Calls : Calms(d)
      BY <2>1 DEF Calms
    <3>2. \A s \in Rows : replays[s] # 0 => replays'[s] # 0
      BY <2>2, <2>5
    <3> QED BY <2>1, <3>1, <3>2, Calmer
  <2>7. TypeOK'
    BY <2>1, <2>2, <2>5 DEF TypeOK
  <2>8. RowInv'
    BY <2>1, <2>2, <2>5 DEF RowInv, Swept
  <2> QED BY <2>6, <2>7, <2>8
<1>2. CASE CrashRoutd
  <2>1. /\ Fault /\ sweep' = Idle
        /\ stage' = [r \in Rows |-> IF stage[r] = "sending" THEN "lost" ELSE stage[r]]
        /\ ending' = [r \in Rows |-> IF ending[r] = "read" THEN "no" ELSE ending[r]]
        /\ call' = [c \in Calls |-> Left(c)]
        /\ UNCHANGED <<kind, item, attempts, named, claim, shown, begun, torn, replays>>
    BY <1>2 DEF CrashRoutd
  <2>2. /\ stage' \in [Rows -> {"new", "sending", "stored", "lost"}]
        /\ \A r \in Rows : (stage'[r] = "new" => stage[r] = "new")
                          /\ (stage[r] = "stored" => stage'[r] = "stored")
        /\ ending' \in [Rows -> {"no", "read", "yes"}]
        /\ \A r \in Rows : ending'[r] # "no" => ending[r] # "no"
    BY <2>1 DEF TypeOK
  <2>3. /\ sweep' \in [list : SUBSET Rows, row : Rows \cup {NoRow}]
        /\ Swept' = {} /\ sweep'.list = {}
    BY <2>1 DEF Idle, Swept
  <2>4. ASSUME NEW d \in Calls
        PROVE  call'[d] \in CallRow /\ Calms(d)
    <3>1. /\ [call[d] EXCEPT !.from = "nobody"] \in CallRow
          /\ [call[d] EXCEPT !.from = "nobody"].row = call[d].row
          /\ [call[d] EXCEPT !.from = "nobody"].keyed = call[d].keyed
          /\ [call[d] EXCEPT !.from = "nobody"].pc = call[d].pc
      BY <1>a DEF CallRow
    <3>2. call'[d] = Free \/ call'[d] = [call[d] EXCEPT !.from = "nobody"]
      BY <2>1 DEF Left
    <3> QED BY <1>0, <3>1, <3>2 DEF Calms
  <2>5. call' \in [Calls -> CallRow]
    BY <2>1, <2>4
  <2>6. CallInv' /\ PairInv'
    BY <2>1, <2>2, <2>4, Calmer
  <2>7. TypeOK'
    BY <2>1, <2>2, <2>3, <2>5, Counted DEF TypeOK
  <2>8. RowInv'
    BY <2>1, <2>2, <2>3 DEF RowInv
  <2> QED BY <2>6, <2>7, <2>8
<1>3. CASE CrashAdapter
  <2>1. /\ Fault
        /\ call' = [c \in Calls |->
              IF call[c].from = "nobody" THEN Free
              ELSE IF call[c].pc \in Answers THEN call[c]
              ELSE [call[c] EXCEPT !.pc = "transient"]]
        /\ UNCHANGED <<kind, stage, item, attempts, named, ending, claim, sweep, shown, begun, torn,
                       replays>>
    BY <1>3 DEF CrashAdapter
  <2>2. ASSUME NEW d \in Calls
        PROVE  call'[d] \in CallRow /\ Calms(d)
    <3>1. /\ [call[d] EXCEPT !.pc = "transient"] \in CallRow
          /\ [call[d] EXCEPT !.pc = "transient"].row = call[d].row
          /\ [call[d] EXCEPT !.pc = "transient"].keyed = call[d].keyed
          /\ [call[d] EXCEPT !.pc = "transient"].pc = "transient"
      BY <1>a DEF CallRow, Answers
    <3>2. \/ call'[d] = Free \/ call'[d] = call[d]
          \/ call[d].pc # "free" /\ call'[d] = [call[d] EXCEPT !.pc = "transient"]
      BY <1>a, <2>1 DEF CallRow
    <3> QED BY <1>0, <1>a, <3>1, <3>2 DEF Calms
  <2>3. call' \in [Calls -> CallRow]
    BY <2>1, <2>2
  <2>4. CallInv' /\ PairInv'
    BY <2>1, <2>2, Calmer
  <2>5. TypeOK'
    BY <2>1, <2>3, Counted DEF TypeOK
  <2>6. RowInv'
    BY <2>1 DEF RowInv, Swept
  <2> QED BY <2>4, <2>5, <2>6
<1> QED BY <1>1, <1>2, <1>3

\* Every step keeps the invariant.
LEMMA NextInv ==
    IInv /\ [Next]_vars => IInv'
<1> SUFFICES ASSUME IInv, [Next]_vars PROVE IInv'
  OBVIOUS
<1>1. CASE UNCHANGED vars
  BY <1>1 DEF vars, IInv, TypeOK, CallInv, PairInv, RowInv, Swept, Holding, Fresh
<1>2. CASE Next
  BY <1>2, InlineInv, SweepInv, AdapterInv, RestInv DEF Next
<1> QED BY <1>1, <1>2

\* So it always holds.
LEMMA Invariance ==
    Spec => []IInv
<1> QED BY InitIInv, NextInv, PTL DEF Spec

\* Rows, items, the ledger and the calls keep their types.
THEOREM TypeCorrect ==
    Spec => []TypeOK
<1>1. IInv => TypeOK
  BY DEF IInv
<1> QED BY Invariance, <1>1, PTL

-----------------------------------------------------------------------------
\* A row that goes out with a key and was never refused behind its first chunk.
Whole(r) == kind[r] # "daemon" /\ r \notin torn

\* The call may give the platform a first chunk, or give the claim back.
Risky(k) ==
    \/ k.pc = "post" /\ k.chunk = 1
    \/ k.pc \in {"release permanent", "release transient"}

\* The first chunk: shown once, under the claim, and never while a call may
\* show it or let somebody else show it.
BegunInv ==
    /\ \A r \in Rows : Whole(r) => begun[r] \in {0, 1} /\ (begun[r] # 0 => claim[r] # "none")
    /\ \A c \in Calls : Risky(call[c]) /\ Whole(call[c].row) => begun[call[c].row] = 0

\* No first chunk is shown, and no claim is given back over one.
LEMMA Quiet ==
    ASSUME BegunInv, UNCHANGED <<kind, begun>>, torn \subseteq torn',
           \A r \in Rows : Whole(r)' /\ begun[r] # 0 /\ claim[r] # "none" => claim'[r] # "none",
           \A d \in Calls : Risky(call'[d]) /\ call'[d].row \notin torn'
                => Risky(call[d]) /\ call'[d].row = call[d].row
    PROVE  BegunInv'
<1>1. \A r : Whole(r)' => Whole(r)
  BY DEF Whole
<1>2. \A r \in Rows : Whole(r)' =>
          begun'[r] \in {0, 1} /\ (begun'[r] # 0 => claim'[r] # "none")
  BY <1>1 DEF BegunInv
<1>3. ASSUME NEW d \in Calls, Risky(call'[d]), kind'[call'[d].row] # "daemon",
             call'[d].row \notin torn'
      PROVE  begun'[call'[d].row] = 0
  BY <1>3 DEF BegunInv, Whole
<1> QED BY <1>2, <1>3 DEF BegunInv, Whole, Risky

\* A call that is dialled, heard of or broken off does not become risky.
LEMMA RoutdQuiet ==
    ASSUME IInv, BegunInv,
           Inline \/ Sweep \/ (\E r \in Rows : ReplayDeadLetter(r)) \/ CrashRoutd \/ CrashAdapter
    PROVE  BegunInv'
<1>1. UNCHANGED <<kind, claim, begun, torn>>
  BY DEF Inline, Sweep, sendInline, PutOutbound, QueueNotice, endProgress, endStatusRow,
         PendingOutbound, sweepSends, sweepHears, ReplayDeadLetter, CrashRoutd, CrashAdapter
<1>2. call \in [Calls -> CallRow]
  BY DEF IInv, TypeOK
<1>3. ~Risky(Free)
  BY DEF Risky, Free
<1>4. ASSUME NEW d \in Calls
      PROVE  /\ [call[d] EXCEPT !.from = "nobody"].row = call[d].row
             /\ [call[d] EXCEPT !.from = "nobody"].pc = call[d].pc
             /\ [call[d] EXCEPT !.from = "nobody"].chunk = call[d].chunk
             /\ [call[d] EXCEPT !.pc = "transient"].pc = "transient"
  BY <1>2 DEF CallRow
<1>5. ASSUME NEW c \in Calls, NEW r, NEW sender, NEW key, Dials(c, r, sender, key),
             NEW d \in Calls, Risky(call'[d])
      PROVE  Risky(call[d]) /\ call'[d].row = call[d].row
  <2>1. CASE d = c
    <3>1. call'[d] = [row |-> r, keyed |-> key, from |-> sender, pc |-> "arrived", chunk |-> 1]
      BY <1>2, <1>5, <2>1 DEF Dials
    <3>2. call'[d].pc = "arrived"
      BY <3>1
    <3>3. ~Risky(call'[d])
      BY <3>2 DEF Risky
    <3> QED BY <1>5, <3>3
  <2>2. CASE d # c
    BY <1>2, <1>5, <2>2 DEF Dials
  <2> QED BY <2>1, <2>2
<1>6. ASSUME NEW r, NEW sender, NEW answer, Hears(r, sender, answer),
             NEW d \in Calls, Risky(call'[d])
      PROVE  Risky(call[d]) /\ call'[d].row = call[d].row
  <2>1. PICK c \in Calls : \/ call' = [call EXCEPT ![c] = Free]
                          \/ call' = [call EXCEPT ![c] = Left(c)]
    BY <1>6 DEF Hears
  <2>2. call'[d] \in {call[d], Free, [call[d] EXCEPT !.from = "nobody"]}
    BY <1>2, <2>1 DEF Left
  <2> QED BY <1>3, <1>4, <1>6, <2>2 DEF Risky
<1>7. ASSUME CrashRoutd \/ CrashAdapter, NEW d \in Calls, Risky(call'[d])
      PROVE  Risky(call[d]) /\ call'[d].row = call[d].row
  <2>1. call'[d] \in {call[d], Free, [call[d] EXCEPT !.from = "nobody"],
                      [call[d] EXCEPT !.pc = "transient"]}
    BY <1>7 DEF CrashRoutd, CrashAdapter, Left
  <2> QED BY <1>3, <1>4, <1>7, <2>1 DEF Risky
<1>8. \A d \in Calls : Risky(call'[d]) => Risky(call[d]) /\ call'[d].row = call[d].row
  <2>1. CASE \E c \in Calls, r \in Rows : sendInline(c, r) \/ sweepSends(c, r)
    BY <1>5, <2>1 DEF sendInline, sweepSends
  <2>2. CASE \E r \in Rows, answer \in Answers : PutOutbound(r, answer)
    BY <1>6, <2>2 DEF PutOutbound
  <2>3. CASE \E answer \in Answers : sweepHears(answer)
    BY <1>6, <2>3 DEF sweepHears
  <2>4. CASE UNCHANGED call
    BY <2>4
  <2>5. CASE CrashRoutd \/ CrashAdapter
    BY <1>7, <2>5
  <2> QED BY <2>1, <2>2, <2>3, <2>4, <2>5
      DEF Inline, Sweep, QueueNotice, endProgress, endStatusRow, PendingOutbound,
          ReplayDeadLetter
<1> QED BY <1>1, <1>8, Quiet

\* The platform takes a first chunk from the one call that holds the claim.
LEMMA Begins ==
    ASSUME IInv, BegunInv, NEW c \in Calls, call[c].pc = "post", call[c].chunk = 1,
           begun' = [begun EXCEPT ![call[c].row] = @ + 1], UNCHANGED <<kind, claim, torn>>,
           ~Risky(call'[c]), \A d \in Calls : d # c => call'[d] = call[d]
    PROVE  BegunInv'
<1> DEFINE r == call[c].row
<1>1. r \in Rows /\ begun \in [Rows -> Nat] /\ Risky(call[c])
  BY DEF IInv, CallInv, TypeOK, Risky
<1>2. Whole(r) => begun[r] = 0 /\ claim[r] = "inflight"
  BY <1>1 DEF BegunInv, Whole, IInv, CallInv, Posting
<1>3. begun'[r] = begun[r] + 1 /\ \A s \in Rows : s # r => begun'[s] = begun[s]
  BY <1>1
<1>4. \A s \in Rows : Whole(s)' =>
          begun'[s] \in {0, 1} /\ (begun'[s] # 0 => claim'[s] # "none")
  BY <1>2, <1>3 DEF BegunInv, Whole
<1>5. ASSUME NEW d \in Calls, Risky(call'[d]), kind[call'[d].row] # "daemon",
             call'[d].row \notin torn
      PROVE  begun'[call'[d].row] = 0
  <2>1. d # c /\ call'[d] = call[d] /\ Risky(call[d]) /\ call[d].pc # "free"
    BY <1>5 DEF Risky
  <2>2. call[d].row \in Rows /\ call[d].keyed /\ call[d].pc \in Posting
    BY <1>5, <2>1 DEF IInv, CallInv, Risky, Posting
  <2>3. CASE call[d].row = r
    <3>1. call[c].keyed /\ call[c].pc \in Posting
      BY <1>5, <2>1, <2>3 DEF IInv, CallInv, Posting
    <3> QED BY <2>1, <2>2, <2>3, <3>1 DEF IInv, PairInv
  <2>4. CASE call[d].row # r
    BY <1>3, <1>5, <2>1, <2>2, <2>4 DEF BegunInv, Whole
  <2> QED BY <2>3, <2>4
<1> QED BY <1>4, <1>5 DEF BegunInv, Whole, Risky

\* The adapter's steps: a claim is taken where nothing was begun, given back
\* where nothing was begun or the row is torn.
LEMMA AdapterBegun ==
    ASSUME IInv, BegunInv, NEW c \in Calls, Attempts(c)
    PROVE  BegunInv'
<1> DEFINE r == call[c].row
<1>0. UNCHANGED kind /\ torn \subseteq torn'
  BY DEF Attempts, Unauthorized, ClaimDelivery, post, postRefused, postUnsure,
         ReleaseUnsentClaim, RecordDelivered
<1>1. /\ call \in [Calls -> CallRow] /\ begun \in [Rows -> Nat] /\ TypeOK
      /\ claim \in [Rows -> {"none", "inflight", "sent"}]
  BY DEF IInv, TypeOK
<1>2. call[c].pc # "free" => r \in Rows
  BY DEF IInv, CallInv
<1>3. ASSUME NEW answer \in Answers, Replies(c, answer)
      PROVE  ~Risky(call'[c]) /\ \A d \in Calls : d # c => call'[d] = call[d]
  BY <1>1, <1>3, Replied DEF Risky, Answers
<1>4. CASE Unauthorized(c)
  <2>1. ~Risky(call'[c]) /\ (\A d \in Calls : d # c => call'[d] = call[d])
        /\ UNCHANGED <<claim, begun>>
    BY <1>3, <1>4 DEF Unauthorized, Answers
  <2> QED BY <1>0, <2>1, Quiet
<1>5. CASE ClaimDelivery(c)
  <2>0. UNCHANGED <<begun, torn>> /\ call[c].pc = "arrived" /\ r \in Rows
    BY <1>2, <1>5 DEF ClaimDelivery
  <2>1. CASE /\ call[c].keyed => claim[r] = "none"
             /\ claim' = [claim EXCEPT ![r] = IF call[c].keyed THEN "inflight" ELSE @]
             /\ call' = [call EXCEPT ![c].pc = "post"]
    <3>1. /\ call'[c] = [call[c] EXCEPT !.pc = "post"]
          /\ \A d \in Calls : d # c => call'[d] = call[d]
      BY <1>1, <2>1
    <3>2. call'[c].row = r
      BY <1>1, <3>1 DEF CallRow
    <3>3. \A s \in Rows : claim[s] # "none" => claim'[s] # "none"
      BY <1>1, <2>0, <2>1
    <3>4. Whole(r) => begun[r] = 0
      <4>1. kind[r] # "daemon" => call[c].keyed
        BY <2>0 DEF IInv, CallInv
      <4> QED BY <2>0, <2>1, <4>1 DEF BegunInv, Whole
    <3>5. \A s \in Rows : Whole(s)' =>
              begun'[s] \in {0, 1} /\ (begun'[s] # 0 => claim'[s] # "none")
      BY <1>0, <2>0, <3>3 DEF BegunInv, Whole
    <3>6. \A d \in Calls : Risky(call'[d]) /\ kind[call'[d].row] # "daemon"
              /\ call'[d].row \notin torn => begun[call'[d].row] = 0
      BY <3>1, <3>2, <3>4 DEF BegunInv, Whole
    <3> QED BY <1>0, <2>0, <3>5, <3>6 DEF BegunInv, Whole, Risky
  <2>2. CASE /\ Replies(c, IF claim[r] = "sent" THEN "ok" ELSE "transient")
             /\ UNCHANGED claim
    <3>1. ~Risky(call'[c]) /\ \A d \in Calls : d # c => call'[d] = call[d]
      <4>1. (IF claim[r] = "sent" THEN "ok" ELSE "transient") \in Answers
        BY DEF Answers
      <4> QED BY <1>3, <2>2, <4>1
    <3> QED BY <1>0, <2>0, <2>2, <3>1, Quiet
  <2> QED BY <1>5, <2>1, <2>2 DEF ClaimDelivery
<1>6. CASE post(c) \/ postUnsure(c)
  <2>0. /\ call[c].pc = "post" /\ UNCHANGED <<claim, torn>> /\ r \in Rows
        /\ Taken(c) \/ begun' = begun
    BY <1>2, <1>6 DEF post, postUnsure
  <2>1. ~Risky(call'[c]) /\ \A d \in Calls : d # c => call'[d] = call[d]
    <3>1. CASE post(c)
      <4>1. call[c].chunk \in 1..Chunks
        BY <1>1 DEF CallRow
      <4>2. /\ [call[c] EXCEPT !.pc = "record"].pc = "record"
            /\ [call[c] EXCEPT !.chunk = call[c].chunk + 1].pc = "post"
            /\ [call[c] EXCEPT !.chunk = call[c].chunk + 1].chunk = call[c].chunk + 1
        BY <1>1, <2>0 DEF CallRow
      <4>3. call[c].chunk + 1 # 1
        BY <4>1, BoundsAssumption
      <4>4. /\ call'[c] \in {[call[c] EXCEPT !.pc = "record"],
                             [call[c] EXCEPT !.chunk = call[c].chunk + 1]}
            /\ \A d \in Calls : d # c => call'[d] = call[d]
        BY <1>1, <3>1 DEF post
      <4> QED BY <4>2, <4>3, <4>4 DEF Risky
    <3>2. CASE postUnsure(c)
      BY <1>3, <3>2 DEF postUnsure, Answers
    <3> QED BY <1>6, <3>1, <3>2
  <2>2. CASE Taken(c) /\ call[c].chunk = 1
    <3>1. begun' = [begun EXCEPT ![call[c].row] = @ + 1]
      BY <2>2 DEF Taken
    <3> QED BY <1>0, <2>0, <2>1, <2>2, <3>1, Begins
  <2>3. CASE ~(Taken(c) /\ call[c].chunk = 1)
    <3>1. begun' = begun
      BY <1>1, <2>0, <2>3 DEF Taken
    <3> QED BY <1>0, <2>0, <2>1, <3>1, Quiet
  <2> QED BY <2>2, <2>3
<1>7. CASE postRefused(c)
  <2>1. PICK to \in {"release permanent", "release transient"} :
            call' = [call EXCEPT ![c].pc = to]
    BY <1>7 DEF postRefused
  <2>2. /\ call[c].pc = "post" /\ UNCHANGED <<claim, begun>>
        /\ call[c].chunk = 1 \/ r \in torn'
    BY <1>7 DEF postRefused
  <2>3. call'[c] = [call[c] EXCEPT !.pc = to] /\ \A d \in Calls : d # c => call'[d] = call[d]
    BY <1>1, <2>1
  <2>4. call'[c].row = r
    <3>1. call[c] \in CallRow
      BY <1>1
    <3>2. [call[c] EXCEPT !.pc = to].row = r
      BY <3>1 DEF CallRow
    <3> QED BY <2>3, <3>2
  <2>5. \A d \in Calls : Risky(call'[d]) /\ call'[d].row \notin torn'
            => Risky(call[d]) /\ call'[d].row = call[d].row
    BY <2>2, <2>3, <2>4 DEF Risky
  <2> QED BY <1>0, <2>2, <2>5, Quiet
<1>8. CASE ReleaseUnsentClaim(c)
  <2>1. /\ call[c].pc \in {"release permanent", "release transient"} /\ Risky(call[c])
        /\ UNCHANGED <<begun, torn>> /\ r \in Rows
    BY <1>2, <1>8 DEF ReleaseUnsentClaim, Risky
  <2>2. ~Risky(call'[c]) /\ \A d \in Calls : d # c => call'[d] = call[d]
    <3>1. PICK answer \in Answers : Replies(c, answer)
      BY <1>8 DEF ReleaseUnsentClaim, Answers
    <3> QED BY <1>3, <3>1
  <2>3. \A s \in Rows : s # r => claim'[s] = claim[s]
    BY <1>1, <1>8 DEF ReleaseUnsentClaim
  <2>4. Whole(r) => begun[r] = 0
    BY <2>1 DEF BegunInv
  <2>5. \A s \in Rows : Whole(s)' => Whole(s)
    BY <1>0 DEF Whole
  <2> QED BY <1>0, <2>1, <2>2, <2>3, <2>4, <2>5, Quiet
<1>9. CASE RecordDelivered(c)
  <2>1. UNCHANGED <<begun, torn>>
    BY <1>9 DEF RecordDelivered
  <2>2. ~Risky(call'[c]) /\ \A d \in Calls : d # c => call'[d] = call[d]
    BY <1>3, <1>9 DEF RecordDelivered, Answers
  <2>3. \A s \in Rows : claim[s] # "none" => claim'[s] # "none"
    BY <1>1, <1>9 DEF RecordDelivered
  <2> QED BY <1>0, <2>1, <2>2, <2>3, Quiet
<1> QED BY <1>4, <1>5, <1>6, <1>7, <1>8, <1>9 DEF Attempts

\* Every step keeps it.
LEMMA NextBegun ==
    IInv /\ BegunInv /\ [Next]_vars => BegunInv'
<1> SUFFICES ASSUME IInv, BegunInv, [Next]_vars PROVE BegunInv'
  OBVIOUS
<1>1. CASE UNCHANGED vars
  BY <1>1 DEF vars, BegunInv, Whole, Risky
<1>2. CASE Next
  BY <1>2, RoutdQuiet, AdapterBegun DEF Next
<1> QED BY <1>1, <1>2

\* However often a keyed message is sent and whichever daemon dies, the
\* platform takes its last chunk once, and its first once as well but for a
\* row it refused for good behind the first (chanlib's ledger, dedup.go, and
\* the adapters' releaseIfUnsent).
THEOREM Once ==
    Spec => []ShownOnce
<1>1. Init => BegunInv
  <2> SUFFICES ASSUME Init PROVE BegunInv
    OBVIOUS
  <2>1. \A c \in Calls : ~Risky(call[c])
    BY DEF Init, Free, Risky
  <2>2. \A r \in Rows : begun[r] = 0
    BY DEF Init
  <2> QED BY <2>1, <2>2 DEF BegunInv
<1>2. IInv /\ BegunInv => ShownOnce
  <2> SUFFICES ASSUME IInv, BegunInv, NEW r \in Rows, kind[r] # "daemon"
               PROVE  shown[r] <= 1 /\ (begun[r] <= 1 \/ r \in torn)
    BY DEF ShownOnce
  <2>1. shown[r] \in {0, 1}
    BY DEF IInv, RowInv
  <2>2. r \in torn \/ begun[r] \in {0, 1}
    BY DEF BegunInv, Whole
  <2> QED BY <2>1, <2>2
<1> QED BY Invariance, NextBegun, <1>1, <1>2, PTL DEF Spec

-----------------------------------------------------------------------------
\* One row's owner changes; the platform is given nothing.
Moves(r, o) ==
    /\ UNCHANGED <<kind, shown>>
    /\ Owner(r)' = o
    /\ \A s \in Rows : s # r => Owner(s)' = Owner(s)

\* Every owner stays, and Delivery does not move.
LEMMA Stutters ==
    ASSUME UNCHANGED <<kind, shown, replays>>, \A s \in Rows : Owner(s)' = Owner(s)
    PROVE  UNCHANGED Promise!vars
<1>1. [s \in Rows |-> Owner(s)]' = [s \in Rows |-> Owner(s)]
  OBVIOUS
<1> QED BY <1>1 DEF Promise!vars

\* The mapped owners change in one place.
LEMMA Moved ==
    ASSUME NEW r \in Rows, NEW o, Moves(r, o)
    PROVE  /\ [s \in Rows |-> Owner(s)]' = [[s \in Rows |-> Owner(s)] EXCEPT ![r] = o]
           /\ UNCHANGED {s \in Rows : kind[s] = "status"}
           /\ UNCHANGED shown
<1> QED BY DEF Moves

\* Delivery's steps, one row at a time.  A row that is stored is owed.
LEMMA Owes ==
    ASSUME NEW r \in Rows, Moves(r, "owed"), Owner(r) = "unborn", UNCHANGED replays
    PROVE  Promise!Next
<1>1. Promise!Owe(r)
  BY Moved DEF Promise!Owe
<1> QED BY <1>1 DEF Promise!Next

\* A row the platform has is taken for delivered.
LEMMA Delivers ==
    ASSUME TypeOK, NEW r \in Rows, Moves(r, "delivered"), Owner(r) \in {"unborn", "owed"},
           shown[r] # 0, UNCHANGED replays
    PROVE  Promise!Next
<1>1. shown[r] > 0
  <2>1. shown[r] \in Nat
    BY DEF TypeOK
  <2> QED BY <2>1
<1>2. Promise!Deliver(r)
  BY <1>1, Moved DEF Promise!Deliver
<1> QED BY <1>2 DEF Promise!Next

\* A row goes to the dead letters.
LEMMA Abandons ==
    ASSUME NEW r \in Rows, Moves(r, "abandoned"), UNCHANGED replays,
           \/ Owner(r) \in {"unborn", "owed"}
           \/ kind[r] = "status" /\ Owner(r) = "delivered"
    PROVE  Promise!Next
<1>1. Promise!Abandon(r)
  BY Moved DEF Promise!Abandon
<1> QED BY <1>1 DEF Promise!Next

\* A replay.
LEMMA Reopens ==
    ASSUME NEW r \in Rows, Moves(r, "owed"), Owner(r) = "abandoned",
           replays' = [replays EXCEPT ![r] = @ + 1]
    PROVE  Promise!Next
<1>1. Promise!Reopen(r)
  BY Moved DEF Promise!Reopen
<1> QED BY <1>1 DEF Promise!Next

\* Who has a row, before and after a step.
LEMMA Owned ==
    ASSUME NEW r \in Rows
    PROVE  /\ stage[r] # "stored" => Owner(r) = "unborn"
           /\ stage[r] = "stored" /\ item[r] = "none" => Owner(r) = "delivered"
           /\ stage[r] = "stored" /\ item[r] = "pending" => Owner(r) = "owed"
           /\ stage[r] = "stored" /\ item[r] = "failed" => Owner(r) = "abandoned"
           /\ stage'[r] # "stored" => Owner(r)' = "unborn"
           /\ stage'[r] = "stored" /\ item'[r] = "none" => Owner(r)' = "delivered"
           /\ stage'[r] = "stored" /\ item'[r] = "pending" => Owner(r)' = "owed"
           /\ stage'[r] = "stored" /\ item'[r] = "failed" => Owner(r)' = "abandoned"
           /\ stage'[r] = stage[r] /\ item'[r] = item[r] => Owner(r)' = Owner(r)
<1> QED BY DEF Owner

\* The inline send and the end of a line.
LEMMA InlineRefines ==
    ASSUME IInv, Inline
    PROVE  [Promise!Next]_(Promise!vars)
<1> USE DEF IInv
<1>0. /\ stage \in [Rows -> {"new", "sending", "stored", "lost"}]
      /\ item \in [Rows -> {"none", "pending", "failed"}]
  BY DEF TypeOK
<1>1. ASSUME NEW c \in Calls, NEW r \in Rows, sendInline(c, r)
      PROVE  UNCHANGED Promise!vars
  <2>1. /\ stage[r] = "new" /\ stage' = [stage EXCEPT ![r] = "sending"]
        /\ UNCHANGED <<kind, item, shown, replays>>
    BY <1>1 DEF sendInline
  <2>2. stage'[r] = "sending" /\ \A s \in Rows : s # r => stage'[s] = stage[s]
    BY <1>0, <2>1
  <2>3. \A s \in Rows : Owner(s)' = Owner(s)
    BY <2>1, <2>2, Owned
  <2> QED BY <2>1, <2>3, Stutters
<1>2. ASSUME NEW r \in Rows, NEW answer \in Answers, PutOutbound(r, answer)
      PROVE  [Promise!Next]_(Promise!vars)
  <2>1. /\ stage[r] = "sending" /\ Hears(r, "inline", answer)
        /\ UNCHANGED <<kind, shown, replays>>
    BY <1>2 DEF PutOutbound
  <2>2. answer = "ok" => shown[r] # 0
    BY <2>1, Heard
  <2>3. CASE /\ stage' = [stage EXCEPT ![r] = "stored"]
             /\ item' = [item EXCEPT ![r] = statusAfter(kind[r], answer)]
    <3>1. /\ stage'[r] = "stored" /\ item'[r] = statusAfter(kind[r], answer)
          /\ \A s \in Rows : s # r => stage'[s] = stage[s] /\ item'[s] = item[s]
      BY <1>0, <2>3
    <3>2. /\ statusAfter(kind[r], answer) \in {"none", "pending", "failed"}
          /\ statusAfter(kind[r], answer) = "none" => answer = "ok"
      BY DEF statusAfter, Answers
    <3>3. Owner(r) = "unborn" /\ \A s \in Rows : s # r => Owner(s)' = Owner(s)
      BY <2>1, <3>1, Owned
    <3>4. CASE item'[r] = "none"
      <4>1. Moves(r, "delivered") /\ shown[r] # 0
        BY <2>1, <2>2, <3>1, <3>2, <3>3, <3>4, Owned DEF Moves
      <4> QED BY <2>1, <3>3, <4>1, Delivers
    <3>5. CASE item'[r] = "pending"
      <4>1. Moves(r, "owed")
        BY <2>1, <3>1, <3>3, <3>5, Owned DEF Moves
      <4> QED BY <2>1, <3>3, <4>1, Owes
    <3>6. CASE item'[r] = "failed"
      <4>1. Moves(r, "abandoned")
        BY <2>1, <3>1, <3>3, <3>6, Owned DEF Moves
      <4> QED BY <2>1, <3>3, <4>1, Abandons
    <3> QED BY <3>1, <3>2, <3>4, <3>5, <3>6
  <2>4. CASE stage' = [stage EXCEPT ![r] = "lost"] /\ UNCHANGED item
    <3>1. stage'[r] = "lost" /\ \A s \in Rows : s # r => stage'[s] = stage[s]
      BY <1>0, <2>4
    <3>2. \A s \in Rows : Owner(s)' = Owner(s)
      BY <2>1, <2>4, <3>1, Owned
    <3> QED BY <2>1, <3>2, Stutters
  <2> QED BY <1>2, <2>3, <2>4 DEF PutOutbound
<1>3. ASSUME NEW r \in Rows, QueueNotice(r)
      PROVE  Promise!Next
  <2>1. /\ stage[r] = "new" /\ stage' = [stage EXCEPT ![r] = "stored"]
        /\ item' = [item EXCEPT ![r] = "pending"] /\ UNCHANGED <<kind, shown, replays>>
    BY <1>3 DEF QueueNotice
  <2>2. /\ stage'[r] = "stored" /\ item'[r] = "pending"
        /\ \A s \in Rows : s # r => stage'[s] = stage[s] /\ item'[s] = item[s]
    BY <1>0, <2>1
  <2>3. Owner(r) = "unborn" /\ Moves(r, "owed")
    BY <2>1, <2>2, Owned DEF Moves
  <2> QED BY <2>1, <2>3, Owes
<1>4. ASSUME NEW r \in Rows, endProgress(r)
      PROVE  UNCHANGED Promise!vars
  <2>1. UNCHANGED <<kind, stage, item, shown, replays>>
    BY <1>4 DEF endProgress
  <2>2. \A s \in Rows : Owner(s)' = Owner(s)
    BY <2>1, Owned
  <2> QED BY <2>1, <2>2, Stutters
<1>5. ASSUME NEW r \in Rows, endStatusRow(r)
      PROVE  [Promise!Next]_(Promise!vars)
  <2>1. /\ ending[r] = "read" /\ item' = [item EXCEPT ![r] = "failed"]
        /\ UNCHANGED <<kind, stage, shown, replays>>
    BY <1>5 DEF endStatusRow, DeadLetter
  <2>2. kind[r] = "status" /\ stage[r] = "stored"
    BY <2>1 DEF RowInv
  <2>3. item'[r] = "failed" /\ \A s \in Rows : s # r => item'[s] = item[s]
    BY <1>0, <2>1
  <2>4. Moves(r, "abandoned")
    BY <2>1, <2>2, <2>3, Owned DEF Moves
  <2>5. CASE item[r] = "failed"
    <3>1. \A s \in Rows : Owner(s)' = Owner(s)
      BY <2>1, <2>3, <2>5, Owned
    <3> QED BY <2>1, <3>1, Stutters
  <2>6. CASE item[r] # "failed"
    <3>1. Owner(r) \in {"delivered", "owed"}
      BY <1>0, <2>2, <2>6, Owned
    <3> QED BY <2>1, <2>2, <2>4, <3>1, Abandons
  <2> QED BY <2>5, <2>6
<1> QED BY <1>1, <1>2, <1>3, <1>4, <1>5 DEF Inline

\* The sweep: what it marks delivered was shown, what it gives up it owed.
LEMMA SweepRefines ==
    ASSUME IInv, Sweep
    PROVE  [Promise!Next]_(Promise!vars)
<1> USE DEF IInv
<1>1. ASSUME UNCHANGED <<kind, stage, item, shown, replays>>
      PROVE  UNCHANGED Promise!vars
  <2>1. \A s \in Rows : Owner(s)' = Owner(s)
    BY <1>1, Owned
  <2> QED BY <1>1, <2>1, Stutters
<1>2. ASSUME NEW due \in SUBSET Rows, PendingOutbound(due)
      PROVE  UNCHANGED Promise!vars
  BY <1>1, <1>2 DEF PendingOutbound
<1>3. ASSUME NEW c \in Calls, NEW r \in Rows, sweepSends(c, r)
      PROVE  UNCHANGED Promise!vars
  BY <1>1, <1>3 DEF sweepSends
<1>4. ASSUME NEW answer \in Answers, sweepHears(answer)
      PROVE  [Promise!Next]_(Promise!vars)
  <2>0. PICK r \in Rows : r = sweep.row
    BY <1>4 DEF sweepHears, TypeOK
  <2>1. Hears(r, "sweep", answer) /\ UNCHANGED <<kind, stage, shown, replays>>
    BY <1>4, <2>0 DEF sweepHears
  <2>2. r \in Rows /\ r \in Swept
    BY <2>0, NoRowAssumption DEF Swept
  <2>3. answer = "ok" => shown[r] # 0
    BY <2>1, <2>2, Heard
  <2>4. stage[r] = "stored" /\ item[r] # "none"
    BY <2>2 DEF RowInv
  <2>5. item \in [Rows -> {"none", "pending", "failed"}]
    BY DEF TypeOK
  <2>6. /\ \A s \in Rows : s # r => item'[s] = item[s]
        /\ \/ item'[r] = item[r]
           \/ item[r] = "pending" /\ item'[r] = "failed"
           \/ item[r] = "pending" /\ item'[r] = "none" /\ answer = "ok"
    <3>1. CASE answer = "ok" /\ MarkDelivered(r)
      BY <2>2, <2>5, <3>1 DEF MarkDelivered
    <3>2. CASE answer = "permanent" /\ DeadLetter(r)
      BY <2>2, <2>4, <2>5, <3>2 DEF DeadLetter
    <3>3. CASE answer = "transient" /\ RecordDeliveryFailure(r)
      BY <2>2, <2>5, <3>3 DEF RecordDeliveryFailure
    <3>4. CASE UNCHANGED item
      BY <3>4
    <3> QED BY <1>4, <2>0, <3>1, <3>2, <3>3, <3>4 DEF sweepHears, Answers
  <2>7. CASE item'[r] = item[r]
    <3>1. \A s \in Rows : Owner(s)' = Owner(s)
      BY <2>1, <2>6, <2>7, Owned
    <3> QED BY <2>1, <3>1, Stutters
  <2>8. CASE item[r] = "pending" /\ item'[r] = "failed"
    <3>1. Owner(r) = "owed" /\ Moves(r, "abandoned")
      BY <2>1, <2>2, <2>4, <2>6, <2>8, Owned DEF Moves
    <3> QED BY <2>1, <2>2, <3>1, Abandons
  <2>9. CASE item[r] = "pending" /\ item'[r] = "none" /\ answer = "ok"
    <3>1. Owner(r) = "owed" /\ Moves(r, "delivered") /\ shown[r] # 0
      BY <2>1, <2>2, <2>3, <2>4, <2>6, <2>9, Owned DEF Moves
    <3> QED BY <2>1, <2>2, <3>1, Delivers
  <2> QED BY <2>6, <2>7, <2>8, <2>9
<1> QED BY <1>2, <1>3, <1>4 DEF Sweep

\* Every other step, and no step.
LEMMA NextRefines ==
    ASSUME IInv, [Next]_vars
    PROVE  [Promise!Next]_(Promise!vars)
<1>1. ASSUME NEW c \in Calls, Attempts(c)
      PROVE  [Promise!Next]_(Promise!vars)
  <2>1. UNCHANGED <<kind, stage, item, replays>>
    BY <1>1, AdapterInv
  <2>2. \A s \in Rows : Owner(s)' = Owner(s)
    BY <2>1, Owned
  <2>3. CASE UNCHANGED shown
    BY <2>1, <2>2, <2>3, Stutters
  <2>4. ASSUME NEW r \in Rows, shown[r] <= replays[r], shown' = [shown EXCEPT ![r] = @ + 1]
        PROVE  Promise!Next
    <3>1. [s \in Rows |-> Owner(s)]' = [s \in Rows |-> Owner(s)]
      BY <2>2
    <3>2. Promise!Show(r)
      BY <2>1, <2>4, <3>1 DEF Promise!Show
    <3> QED BY <3>2 DEF Promise!Next
  <2> QED BY <1>1, <2>3, <2>4, AdapterInv
<1>2. ASSUME NEW r \in Rows, ReplayDeadLetter(r)
      PROVE  Promise!Next
  <2>1. /\ item[r] = "failed" /\ item' = [item EXCEPT ![r] = "pending"]
        /\ replays' = [replays EXCEPT ![r] = @ + 1]
        /\ UNCHANGED <<kind, stage, shown>>
    BY <1>2 DEF ReplayDeadLetter
  <2>2. TypeOK /\ stage[r] = "stored"
    BY <2>1 DEF IInv, RowInv
  <2>3. item'[r] = "pending" /\ \A s \in Rows : s # r => item'[s] = item[s]
    BY <2>1, <2>2 DEF TypeOK
  <2>4. Owner(r) = "abandoned" /\ Moves(r, "owed")
    BY <2>1, <2>2, <2>3, Owned DEF Moves
  <2> QED BY <2>1, <2>4, Reopens
<1>3. CASE CrashRoutd
  <2>1. /\ stage' = [r \in Rows |-> IF stage[r] = "sending" THEN "lost" ELSE stage[r]]
        /\ UNCHANGED <<kind, item, shown, replays>>
    BY <1>3 DEF CrashRoutd
  <2>2. \A s \in Rows : \/ stage'[s] = stage[s]
                        \/ stage[s] # "stored" /\ stage'[s] # "stored"
    BY <2>1
  <2>3. \A s \in Rows : Owner(s)' = Owner(s)
    BY <2>1, <2>2, Owned
  <2> QED BY <2>1, <2>3, Stutters
<1>4. CASE CrashAdapter \/ UNCHANGED vars
  <2>1. UNCHANGED <<kind, stage, item, shown, replays>>
    BY <1>4 DEF CrashAdapter, vars
  <2>2. \A s \in Rows : Owner(s)' = Owner(s)
    BY <2>1, Owned
  <2> QED BY <2>1, <2>2, Stutters
<1> QED BY <1>1, <1>2, <1>3, <1>4, InlineRefines, SweepRefines DEF Next

\* The inline sends, the sweep, the replay and the adapter's ledger implement
\* Delivery: nothing passes for delivered that the platform does not have,
\* nothing owed is dropped, and only a replay brings a message again.
THEOREM Refinement ==
    Spec => ImplementsDelivery
<1>1. Init => Promise!Init
  <2> SUFFICES ASSUME Init PROVE Promise!Init
    OBVIOUS
  <2>1. \A r \in Rows : Owner(r) = "unborn"
    BY DEF Init, Owner
  <2>2. [r \in Rows |-> Owner(r)] = [r \in Rows |-> "unborn"]
    BY <2>1
  <2> QED BY <2>2 DEF Init, Promise!Init
<1>2. IInv /\ [Next]_vars => [Promise!Next]_(Promise!vars)
  BY NextRefines
<1> QED BY <1>1, <1>2, Invariance, PTL DEF Spec, ImplementsDelivery, Promise!Spec
=============================================================================
