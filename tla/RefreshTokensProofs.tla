------------------------ MODULE RefreshTokensProofs ------------------------
(***************************************************************************)
(* RefreshTokens for any set of families and of requests and any bounds.   *)
(* The batch that rotates a token is right because of what a handler still *)
(* knows of a token it looked up long ago: that it exists, and of which    *)
(* family it is.  Everything else it re-checks in the batch.               *)
(***************************************************************************)
EXTENDS RefreshTokens, TLAPS

\* A secret not generated yet has no row; one that was has a row of a known
\* family; and a family that was never started has not been revoked.
Written == \A t \in Tokens :
              IF t <= issued
              THEN token[t].family \in Families /\ family[token[t].family].known
              ELSE token[t] = AbsentToken

UnknownAlive == \A f \in Families : ~family[f].known => ~family[f].revoked

\* A handler past its lookup has a token that was written, and its family.
LookedUp == \A r \in Requests :
               req[r].pc \in {"found", "scoped", "counted", "reuse"} =>
                  /\ req[r].tok \in 1 .. issued
                  /\ req[r].fam = token[req[r].tok].family
                  /\ req[r].fam \in Families

\* A handler asked no later than now, and the scope it is about to write is no
\* older than its request.
Snapshot == \A r \in Requests :
               /\ req[r].asked <= grants
               /\ req[r].pc \in {"login", "scoped", "counted"} => req[r].scope >= req[r].asked

IInv == /\ TypeOK
        /\ Written
        /\ UnknownAlive
        /\ LookedUp
        /\ Snapshot
        /\ OneUnused
        /\ FreshScope

\* No session exists at first.
LEMMA InitIInv == Init => IInv
<1> SUFFICES ASSUME Init PROVE IInv
  OBVIOUS
<1> USE BoundsAssumption, FamilyAssumption DEF Init, Tokens
<1>1. AbsentToken \in TokenRow /\ Idle \in Handler
  BY DEF AbsentToken, TokenRow, Idle, Handler
<1>2. [known |-> FALSE, revoked |-> FALSE, rotations |-> 0] \in FamilyRow
  BY DEF FamilyRow
<1>3. TypeOK
  BY <1>1, <1>2 DEF TypeOK
<1>4. Written /\ UnknownAlive
  BY DEF Written, UnknownAlive
<1>5. LookedUp /\ Snapshot
  BY DEF LookedUp, Snapshot, Idle
<1>6. OneUnused /\ FreshScope
  BY DEF OneUnused, FreshScope, AbsentToken
<1> QED BY <1>3, <1>4, <1>5, <1>6 DEF IInv

\* The tables are left alone, and handler r alone moves, to a record that keeps
\* what the invariant says of it.
LEMMA HandlerStep ==
    ASSUME IInv, NEW r \in Requests, NEW h \in Handler,
           req' = [req EXCEPT ![r] = h],
           UNCHANGED <<token, family, issued, held, grants>>,
           faults' \in 0 .. MaxFaults, excused' \subseteq Families,
           h.pc \in {"found", "scoped", "counted", "reuse"} =>
              /\ h.tok \in 1 .. issued
              /\ h.fam = token[h.tok].family
              /\ h.fam \in Families,
           h.asked <= grants,
           h.pc \in {"login", "scoped", "counted"} => h.scope >= h.asked
    PROVE  IInv'
<1>1. req \in [Requests -> Handler]
  BY DEF IInv, TypeOK
<1>2. \A q \in Requests : req'[q] = IF q = r THEN h ELSE req[q]
  BY <1>1
<1>3. TypeOK'
  BY <1>1 DEF IInv, TypeOK
<1>4. LookedUp'
  BY <1>2 DEF IInv, LookedUp
<1>5. Snapshot'
  BY <1>2 DEF IInv, Snapshot
<1> QED BY <1>3, <1>4, <1>5 DEF IInv, Written, UnknownAlive, OneUnused, unused, FreshScope

\* What a fault leaves.
LEMMA FaultTyped ==
    ASSUME TypeOK, NEW f \in Families \cup {NoFamily}, Fault(f) \/ NoFault
    PROVE  faults' \in 0 .. MaxFaults /\ excused' \subseteq Families
BY BoundsAssumption DEF TypeOK, Fault, NoFault

\* The steps that only read: the lookup, the grants, the counter, a lost race,
\* and every answer that follows no write.
LEMMA ReadStep ==
    ASSUME IInv, NEW r \in Requests,
           \/ BeginLogin(r) \/ LoginFails(r) \/ RefreshTokenBySecret(r)
           \/ FetchGrants(r) \/ familyRotations(r) \/ LoseRace(r) \/ RotateFails(r)
    PROVE  IInv'
<1> USE BoundsAssumption DEF Answer
<1>1. /\ req[r] \in Handler /\ grants \in Nat /\ grants \in 0 .. MaxGrants
      /\ held \subseteq 1 .. issued /\ issued \in 0 .. MaxTokens
      /\ token \in [Tokens -> TokenRow] /\ family \in [Families -> FamilyRow] /\ TypeOK
  BY DEF IInv, TypeOK
<1>2. /\ req[r].asked <= grants
      /\ req[r].pc \in {"scoped", "counted"} => req[r].scope >= req[r].asked
  BY DEF IInv, Snapshot
<1>3. req[r].pc \in {"found", "scoped", "counted", "reuse"} =>
         /\ req[r].tok \in 1 .. issued
         /\ req[r].fam = token[req[r].tok].family
         /\ req[r].fam \in Families
  BY DEF IInv, LookedUp
<1>4. req[r].fam \in Families \cup {NoFamily}
  BY <1>1 DEF Handler
<1>5. (Fault(req[r].fam) \/ Fault(NoFamily) \/ NoFault)
         => faults' \in 0 .. MaxFaults /\ excused' \subseteq Families
  BY <1>1, <1>4, FaultTyped
<1>6. UNCHANGED <<faults, excused>> => faults' \in 0 .. MaxFaults /\ excused' \subseteq Families
  BY <1>5 DEF NoFault
<1>7. ASSUME req' = [req EXCEPT ![r] = Idle], UNCHANGED <<token, family, issued, held, grants>>,
             faults' \in 0 .. MaxFaults, excused' \subseteq Families
      PROVE  IInv'
  <2>1. Idle \in Handler /\ Idle.asked <= grants
    BY <1>1 DEF Idle, Handler
  <2>2. Idle.pc \notin {"found", "scoped", "counted", "reuse", "login"}
    BY DEF Idle
  <2> QED BY <1>7, <2>1, <2>2, HandlerStep
<1>8. CASE BeginLogin(r)
  <2> DEFINE h == [Idle EXCEPT !.pc = "login", !.scope = grants, !.asked = grants]
  <2>1. Idle \in Handler /\ h.pc = "login" /\ h.asked = grants /\ h.scope = grants
    BY <1>1 DEF Idle, Handler
  <2>4. h \in Handler /\ h.pc \notin {"found", "scoped", "counted", "reuse"}
    BY <1>1, <2>1 DEF Handler
  <2>2. req' = [req EXCEPT ![r] = h] /\ UNCHANGED <<token, family, issued, held, grants>>
    BY <1>8 DEF BeginLogin
  <2>3. faults' \in 0 .. MaxFaults /\ excused' \subseteq Families
    BY <1>6, <1>8 DEF BeginLogin
  <2>5. h.asked <= grants /\ h.scope >= h.asked
    BY <1>1, <2>1
  <2> HIDE DEF h
  <2> QED BY <2>2, <2>3, <2>4, <2>5, HandlerStep
<1>9. CASE RefreshTokenBySecret(r)
  <2>1. PICK t \in held :
            /\ req' = [req EXCEPT ![r] = [Idle EXCEPT
                          !.pc = IF token[t].used THEN "reuse" ELSE "found",
                          !.tok = t, !.fam = token[t].family,
                          !.scope = token[t].scope, !.asked = grants]]
            /\ UNCHANGED <<token, family, issued, held, grants, faults, excused>>
    BY <1>9 DEF RefreshTokenBySecret
  <2> DEFINE h == [Idle EXCEPT !.pc = IF token[t].used THEN "reuse" ELSE "found",
                               !.tok = t, !.fam = token[t].family,
                               !.scope = token[t].scope, !.asked = grants]
  <2>2. t \in 1 .. issued /\ t \in Tokens /\ t \in 0 .. MaxTokens
    BY <1>1 DEF Tokens
  <2>3. token[t] \in TokenRow /\ token[t].family \in Families /\ token[t].scope \in Nat
    BY <1>1, <2>2 DEF IInv, Written, TokenRow
  <2>4. h \in Handler /\ h.tok = t /\ h.fam = token[t].family /\ h.asked = grants
    BY <1>1, <2>2, <2>3 DEF Idle, Handler
  <2>5. h.pc \notin {"login", "scoped", "counted"}
    BY DEF Idle
  <2>6. faults' \in 0 .. MaxFaults /\ excused' \subseteq Families
    BY <1>6, <2>1
  <2>7. req' = [req EXCEPT ![r] = h]
    BY <2>1
  <2>8. h.tok \in 1 .. issued /\ h.fam = token[h.tok].family /\ h.fam \in Families
    BY <2>2, <2>3, <2>4
  <2>9. h.asked <= grants /\ UNCHANGED <<token, family, issued, held, grants>>
    BY <1>1, <2>1, <2>4
  <2> HIDE DEF h
  <2> QED BY <2>4, <2>5, <2>6, <2>7, <2>8, <2>9, HandlerStep
<1>10. CASE FetchGrants(r)
  <2>1. CASE Answer(r) /\ Fault(req[r].fam)
    BY <1>5, <1>7, <1>10, <2>1 DEF FetchGrants
  <2>2. CASE req' = [req EXCEPT ![r].pc = "scoped", ![r].scope = grants] /\ NoFault
    <3> DEFINE h == [req[r] EXCEPT !.pc = "scoped", !.scope = grants]
    <3>1. /\ h \in Handler /\ h.pc = "scoped" /\ h.scope = grants /\ h.asked = req[r].asked
          /\ h.tok = req[r].tok /\ h.fam = req[r].fam
      BY <1>1 DEF Handler
    <3>2. req' = [req EXCEPT ![r] = h]
      BY <1>1, <2>2 DEF IInv, TypeOK
    <3>3. req[r].pc = "found" /\ UNCHANGED <<token, family, issued, held, grants>>
      BY <1>10 DEF FetchGrants
    <3> HIDE DEF h
    <3> QED BY <1>1, <1>2, <1>3, <1>5, <2>2, <3>1, <3>2, <3>3, HandlerStep
  <2> QED BY <1>10, <2>1, <2>2 DEF FetchGrants
<1>11. CASE familyRotations(r)
  <2>1. CASE Answer(r) /\ Fault(req[r].fam)
    BY <1>5, <1>7, <1>11, <2>1 DEF familyRotations
  <2>2. CASE /\ req' = [req EXCEPT ![r].pc = "counted",
                                   ![r].rotations = family[req[r].fam].rotations]
             /\ NoFault
    <3> DEFINE h == [req[r] EXCEPT !.pc = "counted",
                                   !.rotations = family[req[r].fam].rotations]
    <3>1. req[r].pc = "scoped" /\ UNCHANGED <<token, family, issued, held, grants>>
      BY <1>11 DEF familyRotations
    <3>2. family[req[r].fam].rotations \in Nat
      BY <1>1, <1>3, <3>1 DEF FamilyRow
    <3>3. /\ h \in Handler /\ h.pc = "counted" /\ h.scope = req[r].scope
          /\ h.asked = req[r].asked /\ h.tok = req[r].tok /\ h.fam = req[r].fam
      BY <1>1, <3>2 DEF Handler
    <3>4. req' = [req EXCEPT ![r] = h]
      BY <1>1, <2>2 DEF IInv, TypeOK
    <3> HIDE DEF h
    <3> QED BY <1>1, <1>2, <1>3, <1>5, <2>2, <3>1, <3>3, <3>4, HandlerStep
  <2> QED BY <1>11, <2>1, <2>2 DEF familyRotations
<1>12. CASE LoseRace(r)
  <2> DEFINE h == [req[r] EXCEPT !.pc = "reuse"]
  <2>1. /\ h \in Handler /\ h.pc = "reuse" /\ h.asked = req[r].asked
        /\ h.tok = req[r].tok /\ h.fam = req[r].fam
    BY <1>1 DEF Handler
  <2>2. req' = [req EXCEPT ![r] = h] /\ req[r].pc = "counted"
    BY <1>1, <1>12 DEF IInv, TypeOK, LoseRace
  <2>3. UNCHANGED <<token, family, issued, held, grants>>
    BY <1>12 DEF LoseRace
  <2>4. faults' \in 0 .. MaxFaults /\ excused' \subseteq Families
    BY <1>6, <1>12 DEF LoseRace
  <2> HIDE DEF h
  <2> QED BY <1>1, <1>2, <1>3, <2>1, <2>2, <2>3, <2>4, HandlerStep
<1>13. CASE RotateFails(r)
  BY <1>5, <1>7, <1>13 DEF RotateFails
<1>14. CASE LoginFails(r)
  BY <1>5, <1>7, <1>14 DEF LoginFails
<1> QED BY <1>8, <1>9, <1>10, <1>11, <1>12, <1>13, <1>14

\* A new secret of family f, whose one unspent token, if it has one, is spent in
\* the same batch: what issueSession and the rotation have in common.
LEMMA NewToken ==
    ASSUME IInv, NEW f \in Families, NEW row \in TokenRow,
           row.family = f, ~row.used, row.scope >= row.asked,
           issued < MaxTokens, issued' = issued + 1,
           token' \in [Tokens -> TokenRow], token'[issued + 1] = row,
           \A t \in 1 .. issued : /\ token'[t].family = token[t].family
                                  /\ token'[t].scope = token[t].scope
                                  /\ token'[t].asked = token[t].asked
                                  /\ token[t].family # f => token'[t].used = token[t].used
                                  /\ token[t].family = f => token'[t].used,
           \A t \in Tokens : t > issued + 1 => token'[t] = token[t],
           family' \in [Families -> FamilyRow], family'[f].known,
           \A g \in Families : g # f => family'[g] = family[g]
    PROVE  Written' /\ OneUnused' /\ FreshScope'
<1> USE BoundsAssumption, FamilyAssumption DEF Tokens
<1>1. issued \in 0 .. MaxTokens /\ token \in [Tokens -> TokenRow]
  BY DEF IInv, TypeOK
<1>2. \A t \in Tokens : t \in 1 .. issued \/ t = issued + 1 \/ t > issued + 1
  BY <1>1
<1>3. \A t \in 1 .. issued : token[t].family \in Families /\ family[token[t].family].known
  BY <1>1 DEF IInv, Written
<1>4. \A t \in Tokens : t > issued => token[t] = AbsentToken
  BY <1>1 DEF IInv, Written
<1>5. Written'
  BY <1>1, <1>2, <1>3, <1>4 DEF Written
<1>6. FreshScope'
  <2> SUFFICES ASSUME NEW t \in Tokens PROVE token'[t].scope >= token'[t].asked
    BY DEF FreshScope
  <2> QED BY <1>1, <1>2 DEF IInv, FreshScope
<1>7. ASSUME NEW g \in Families, family'[g].known PROVE \E t \in Tokens : unused(g)' = {t}
  <2>1. CASE g = f
    <3>1. \A t \in Tokens : (token'[t].family = f /\ ~token'[t].used) <=> t = issued + 1
      <4>1. ASSUME NEW t \in 1 .. issued PROVE ~(token'[t].family = f /\ ~token'[t].used)
        BY <4>1
      <4>2. token'[issued + 1].family = f /\ ~token'[issued + 1].used
        OBVIOUS
      <4>3. ASSUME NEW t \in Tokens, t > issued + 1 PROVE token'[t].family # f
        BY <1>1, <1>4, <4>3 DEF AbsentToken
      <4> QED BY <1>1, <1>2, <4>1, <4>2, <4>3
    <3> QED BY <1>1, <2>1, <3>1 DEF unused
  <2>2. CASE g # f
    <3>1. family[g].known
      BY <1>7, <2>2
    <3>2. PICK t \in Tokens : unused(g) = {t}
      BY <3>1 DEF IInv, OneUnused
    <3>3. \A u \in Tokens : (token'[u].family = g /\ ~token'[u].used)
                               <=> (token[u].family = g /\ ~token[u].used)
      BY <1>1, <1>2, <1>4, <2>2 DEF AbsentToken
    <3> QED BY <3>2, <3>3 DEF unused
  <2> QED BY <2>1, <2>2
<1> QED BY <1>5, <1>6, <1>7 DEF OneUnused

\* A family's item alone changes, and the family stays as known as it was.
LEMMA RevokeStep ==
    ASSUME IInv, NEW f \in Families, family[f].known, revoked(f),
           UNCHANGED <<token, issued, held, grants>>,
           req' = req \/ \E r \in Requests : req' = [req EXCEPT ![r] = Idle],
           faults' \in 0 .. MaxFaults, excused' \subseteq Families
    PROVE  IInv'
<1>1. /\ family \in [Families -> FamilyRow] /\ req \in [Requests -> Handler]
      /\ grants \in 0 .. MaxGrants
  BY DEF IInv, TypeOK
<1>2. [family[f] EXCEPT !.revoked = TRUE] \in FamilyRow
  BY <1>1 DEF FamilyRow
<1>3. family' \in [Families -> FamilyRow]
  BY <1>1, <1>2 DEF revoked
<1>4. /\ \A g \in Families : family'[g].known <=> family[g].known
      /\ \A g \in Families : g # f => family'[g] = family[g]
  BY <1>1 DEF revoked, FamilyRow
<1>5. Idle \in Handler /\ Idle.asked = 0
  BY BoundsAssumption DEF Idle, Handler
<1>6. Idle.pc \notin {"found", "scoped", "counted", "reuse", "login"}
  BY DEF Idle
<1>7. req' \in [Requests -> Handler] /\ \A r \in Requests : req'[r] = req[r] \/ req'[r] = Idle
  BY <1>1, <1>5
<1>8. TypeOK'
  BY <1>3, <1>7 DEF IInv, TypeOK
<1>9. LookedUp'
  BY <1>6, <1>7 DEF IInv, LookedUp
<1>10. Snapshot'
  BY <1>1, <1>5, <1>6, <1>7 DEF IInv, Snapshot
<1>11. Written' /\ UnknownAlive'
  BY <1>4 DEF IInv, Written, UnknownAlive
<1>12. OneUnused' /\ FreshScope'
  BY <1>4 DEF IInv, OneUnused, unused, FreshScope
<1> QED BY <1>8, <1>9, <1>10, <1>11, <1>12 DEF IInv

\* A sign-in writes a family and its first token.
LEMMA StartStep ==
    ASSUME IInv, NEW r \in Requests, StartRefreshFamily(r)
    PROVE  IInv'
<1> USE BoundsAssumption, FamilyAssumption
<1>1. PICK f \in Families :
          /\ req[r].pc = "login" /\ ~family[f].known
          /\ issued < MaxTokens /\ issued' = issued + 1
          /\ token' = [token EXCEPT ![issued + 1] =
                         [family |-> f, scope |-> req[r].scope,
                          asked |-> req[r].asked, used |-> FALSE]]
          /\ family' = [family EXCEPT ![f] =
                          [known |-> TRUE, revoked |-> FALSE, rotations |-> 1]]
          /\ Deliver(issued + 1, f)
          /\ Answer(r)
          /\ UNCHANGED grants
  BY DEF StartRefreshFamily
<1> DEFINE row == [family |-> f, scope |-> req[r].scope, asked |-> req[r].asked, used |-> FALSE]
<1>2. /\ token \in [Tokens -> TokenRow] /\ family \in [Families -> FamilyRow]
      /\ issued \in 0 .. MaxTokens /\ req[r] \in Handler /\ TypeOK
  BY DEF IInv, TypeOK
<1>3. row \in TokenRow /\ row.family = f /\ ~row.used
  BY <1>2 DEF TokenRow, Handler
<1>4. row.scope >= row.asked
  BY <1>1 DEF IInv, Snapshot
<1>5. token' \in [Tokens -> TokenRow] /\ token'[issued + 1] = row
  BY <1>1, <1>2, <1>3 DEF Tokens
<1>6. \A t \in Tokens : t # issued + 1 => token'[t] = token[t]
  BY <1>1, <1>2
<1>7. family' \in [Families -> FamilyRow] /\ family'[f].known /\ ~family'[f].revoked
  BY <1>1, <1>2 DEF FamilyRow
<1>8. \A g \in Families : g # f => family'[g] = family[g]
  BY <1>1, <1>2
<1>9. \A t \in 1 .. issued : t \in Tokens /\ t # issued + 1 /\ token[t].family # f
  BY <1>1, <1>2 DEF IInv, Written, Tokens
<1>10. Written' /\ OneUnused' /\ FreshScope'
  <2> HIDE DEF row
  <2>1. issued < MaxTokens /\ issued' = issued + 1
    BY <1>1
  <2>2. \A t \in 1 .. issued : token'[t] = token[t]
    BY <1>6, <1>9
  <2>3. \A t \in Tokens : t > issued + 1 => token'[t] = token[t]
    BY <1>2, <1>6 DEF Tokens
  <2> QED BY <1>3, <1>4, <1>5, <1>7, <1>8, <1>9, <2>1, <2>2, <2>3, NewToken
<1>11. (Fault(f) \/ NoFault) /\ held' \subseteq held \cup {issued + 1}
  BY <1>1 DEF Deliver
<1>12. faults' \in 0 .. MaxFaults /\ excused' \subseteq Families
  BY <1>2, <1>11, FaultTyped
<1>13. held' \subseteq 1 .. issued'
  BY <1>1, <1>2, <1>11 DEF TypeOK
<1>14. Idle \in Handler /\ Idle.asked = 0
  BY DEF Idle, Handler
<1>15. Idle.pc \notin {"found", "scoped", "counted", "reuse", "login"}
  BY DEF Idle
<1>16. req' \in [Requests -> Handler] /\ \A q \in Requests : req'[q] = req[q] \/ req'[q] = Idle
  BY <1>1, <1>2, <1>14 DEF Answer, TypeOK
<1>17. TypeOK'
  BY <1>1, <1>2, <1>5, <1>7, <1>12, <1>13, <1>16 DEF TypeOK
<1>18. LookedUp'
  <2> SUFFICES ASSUME NEW q \in Requests, req'[q].pc \in {"found", "scoped", "counted", "reuse"}
               PROVE  /\ req'[q].tok \in 1 .. issued'
                      /\ req'[q].fam = token'[req'[q].tok].family
                      /\ req'[q].fam \in Families
    BY DEF LookedUp
  <2>1. req'[q] = req[q]
    BY <1>15, <1>16
  <2>2. /\ req[q].tok \in 1 .. issued /\ req[q].fam \in Families
        /\ req[q].fam = token[req[q].tok].family
    BY <2>1 DEF IInv, LookedUp
  <2>3. token'[req[q].tok] = token[req[q].tok] /\ req[q].tok \in 1 .. issued'
    BY <1>1, <1>2, <1>6, <1>9, <2>2
  <2> QED BY <2>1, <2>2, <2>3
<1>19. Snapshot'
  BY <1>1, <1>2, <1>14, <1>15, <1>16 DEF IInv, Snapshot, TypeOK
<1>20. UnknownAlive'
  BY <1>7, <1>8 DEF IInv, UnknownAlive
<1> QED BY <1>10, <1>17, <1>18, <1>19, <1>20 DEF IInv

\* What the batch of a rotation does to the tables.
LEMMA RotateTables ==
    ASSUME IInv, NEW r \in Requests, Rotate(r)
    PROVE  /\ req[r].fam \in Families /\ family[req[r].fam].known
           /\ ~family[req[r].fam].revoked
           /\ req[r].tok \in 1 .. issued /\ token[req[r].tok].family = req[r].fam
           /\ issued < MaxTokens /\ issued' = issued + 1
           /\ token' \in [Tokens -> TokenRow]
           /\ token'[issued + 1] = [family |-> req[r].fam, scope |-> req[r].scope,
                                    asked |-> req[r].asked, used |-> FALSE]
           /\ token'[req[r].tok] = [token[req[r].tok] EXCEPT !.used = TRUE]
           /\ \A t \in Tokens : t # issued + 1 /\ t # req[r].tok => token'[t] = token[t]
           /\ family' \in [Families -> FamilyRow]
           /\ family'[req[r].fam].known /\ ~family'[req[r].fam].revoked
           /\ \A g \in Families : g # req[r].fam => family'[g] = family[g]
<1> USE BoundsAssumption, FamilyAssumption
<1>1. /\ req[r].pc = "counted" /\ claimable(r) /\ rotated(r)
  BY DEF Rotate
<1>2. /\ token \in [Tokens -> TokenRow] /\ family \in [Families -> FamilyRow]
      /\ issued \in 0 .. MaxTokens /\ req[r] \in Handler
  BY DEF IInv, TypeOK
<1>3. /\ req[r].tok \in 1 .. issued /\ token[req[r].tok].family = req[r].fam
      /\ req[r].fam \in Families
  BY <1>1 DEF IInv, LookedUp
<1>4. family[req[r].fam].known
  BY <1>2, <1>3 DEF IInv, Written, Tokens
<1>5. /\ [family |-> req[r].fam, scope |-> req[r].scope,
          asked |-> req[r].asked, used |-> FALSE] \in TokenRow
      /\ req[r].rotations + 1 \in Nat
  BY <1>2, <1>3 DEF TokenRow, Handler
<1>6. req[r].tok \in Tokens /\ req[r].tok # issued + 1
  BY <1>2, <1>3 DEF Tokens
<1>7. [token[req[r].tok] EXCEPT !.used = TRUE] \in TokenRow
  BY <1>2, <1>6 DEF TokenRow
<1>8. issued < MaxTokens /\ issued' = issued + 1 /\ issued + 1 \in Tokens
  BY <1>1, <1>2 DEF rotated, Tokens
<1>9. /\ token' \in [Tokens -> TokenRow]
      /\ token'[issued + 1] = [family |-> req[r].fam, scope |-> req[r].scope,
                               asked |-> req[r].asked, used |-> FALSE]
      /\ token'[req[r].tok] = [token[req[r].tok] EXCEPT !.used = TRUE]
      /\ \A t \in Tokens : t # issued + 1 /\ t # req[r].tok => token'[t] = token[t]
  BY <1>1, <1>2, <1>5, <1>6, <1>7, <1>8 DEF rotated
<1>10. [family[req[r].fam] EXCEPT !.rotations = req[r].rotations + 1] \in FamilyRow
  BY <1>2, <1>3, <1>5 DEF FamilyRow
<1>11. /\ family' \in [Families -> FamilyRow]
       /\ family'[req[r].fam] = [family[req[r].fam] EXCEPT !.rotations = req[r].rotations + 1]
       /\ \A g \in Families : g # req[r].fam => family'[g] = family[g]
  BY <1>1, <1>2, <1>3, <1>10 DEF rotated
<1>12. /\ family'[req[r].fam].known /\ ~family'[req[r].fam].revoked
       /\ ~family[req[r].fam].revoked
  BY <1>1, <1>2, <1>3, <1>4, <1>11 DEF FamilyRow, claimable
<1> QED BY <1>3, <1>4, <1>8, <1>9, <1>11, <1>12

\* A rotation: of the family's tokens only the presented one was unspent, and the
\* batch spends it as it writes the next.
LEMMA RotateStep ==
    ASSUME IInv, NEW r \in Requests, Rotate(r)
    PROVE  IInv'
<1> USE BoundsAssumption, FamilyAssumption
<1> DEFINE f == req[r].fam
           row == [family |-> f, scope |-> req[r].scope, asked |-> req[r].asked, used |-> FALSE]
<1>1. /\ token \in [Tokens -> TokenRow] /\ family \in [Families -> FamilyRow]
      /\ issued \in 0 .. MaxTokens /\ req[r] \in Handler /\ TypeOK
  BY DEF IInv, TypeOK
<1>2. /\ f \in Families /\ family[f].known
      /\ req[r].tok \in 1 .. issued /\ token[req[r].tok].family = f
      /\ issued < MaxTokens /\ issued' = issued + 1
      /\ token' \in [Tokens -> TokenRow] /\ token'[issued + 1] = row
      /\ family' \in [Families -> FamilyRow]
      /\ family'[f].known /\ ~family'[f].revoked
      /\ \A g \in Families : g # f => family'[g] = family[g]
  BY RotateTables
<1>3. /\ token'[req[r].tok] = [token[req[r].tok] EXCEPT !.used = TRUE]
      /\ \A t \in Tokens : t # issued + 1 /\ t # req[r].tok => token'[t] = token[t]
  BY RotateTables
<1>4. req[r].pc = "counted" /\ ~token[req[r].tok].used
  BY DEF Rotate, claimable
<1>5. row \in TokenRow /\ row.family = f /\ ~row.used /\ row.scope = req[r].scope
      /\ row.asked = req[r].asked
  BY <1>1, <1>2 DEF TokenRow, Handler
<1>6. row.scope >= row.asked
  BY <1>4, <1>5 DEF IInv, Snapshot
<1>7. req[r].tok \in Tokens /\ req[r].tok # issued + 1 /\ req[r].tok \in unused(f)
  BY <1>1, <1>2, <1>4 DEF Tokens, unused
<1>8. \A t \in Tokens : token[t].family = f /\ t # req[r].tok => token[t].used
  <2>1. PICK t \in Tokens : unused(f) = {t}
    BY <1>2 DEF IInv, OneUnused
  <2> QED BY <1>7, <2>1 DEF unused
<1>9. ASSUME NEW t \in 1 .. issued
      PROVE  /\ token'[t].family = token[t].family
             /\ token'[t].scope = token[t].scope
             /\ token'[t].asked = token[t].asked
             /\ token[t].family # f => token'[t].used = token[t].used
             /\ token[t].family = f => token'[t].used
  <2>1. t \in Tokens /\ t # issued + 1
    BY <1>1 DEF Tokens
  <2>2. CASE t = req[r].tok
    BY <1>1, <1>2, <1>3, <2>1, <2>2 DEF TokenRow
  <2>3. CASE t # req[r].tok
    BY <1>3, <1>8, <2>1, <2>3
  <2> QED BY <2>2, <2>3
<1>10. \A t \in Tokens : t > issued + 1 => token'[t] = token[t]
  BY <1>1, <1>2, <1>3 DEF Tokens
<1>11. Written' /\ OneUnused' /\ FreshScope'
  <2> HIDE DEF row, f
  <2> QED BY <1>2, <1>5, <1>6, <1>9, <1>10, NewToken
<1>12. /\ UNCHANGED grants /\ Answer(r) /\ (Fault(f) \/ NoFault)
       /\ held' \subseteq held \cup {issued + 1}
  BY DEF Rotate, Deliver
<1>13. faults' \in 0 .. MaxFaults /\ excused' \subseteq Families
  BY <1>1, <1>2, <1>12, FaultTyped
<1>14. held' \subseteq 1 .. issued'
  BY <1>1, <1>2, <1>12 DEF TypeOK
<1>15. Idle \in Handler /\ Idle.asked = 0
  BY DEF Idle, Handler
<1>16. Idle.pc \notin {"found", "scoped", "counted", "reuse", "login"}
  BY DEF Idle
<1>17. req' \in [Requests -> Handler] /\ \A q \in Requests : req'[q] = req[q] \/ req'[q] = Idle
  BY <1>1, <1>12, <1>15 DEF Answer, TypeOK
<1>18. TypeOK'
  BY <1>1, <1>2, <1>12, <1>13, <1>14, <1>17 DEF TypeOK
<1>19. LookedUp'
  <2> SUFFICES ASSUME NEW q \in Requests, req'[q].pc \in {"found", "scoped", "counted", "reuse"}
               PROVE  /\ req'[q].tok \in 1 .. issued'
                      /\ req'[q].fam = token'[req'[q].tok].family
                      /\ req'[q].fam \in Families
    BY DEF LookedUp
  <2>1. req'[q] = req[q]
    BY <1>16, <1>17
  <2>2. /\ req[q].tok \in 1 .. issued /\ req[q].fam \in Families
        /\ req[q].fam = token[req[q].tok].family
    BY <2>1 DEF IInv, LookedUp
  <2>3. token'[req[q].tok].family = token[req[q].tok].family /\ req[q].tok \in 1 .. issued'
    BY <1>1, <1>2, <1>9, <2>2
  <2> QED BY <2>1, <2>2, <2>3
<1>20. Snapshot'
  BY <1>1, <1>12, <1>15, <1>16, <1>17 DEF IInv, Snapshot, TypeOK
<1>21. UnknownAlive'
  BY <1>2 DEF IInv, UnknownAlive
<1> QED BY <1>11, <1>18, <1>19, <1>20, <1>21 DEF IInv

\* Every reachable state of the sessions satisfies the invariant.
THEOREM Invariance == Spec => []IInv
<1>1. ASSUME IInv, UNCHANGED vars PROVE IInv'
  BY <1>1 DEF IInv, TypeOK, Written, UnknownAlive, LookedUp, Snapshot, OneUnused, unused,
              FreshScope, vars
<1>2. ASSUME IInv, NEW r \in Requests, RevokeAfterReuse(r) PROVE IInv'
  <2>1. req[r].fam \in Families /\ req[r].tok \in 1 .. issued
        /\ req[r].fam = token[req[r].tok].family
    BY <1>2 DEF RevokeAfterReuse, IInv, LookedUp
  <2>2. family[req[r].fam].known
    BY <1>2, <2>1, BoundsAssumption DEF IInv, Written, TypeOK, Tokens
  <2>3. faults' \in 0 .. MaxFaults /\ excused' \subseteq Families
    BY <1>2, <2>1, FaultTyped DEF RevokeAfterReuse, IInv
  <2>4. CASE revoked(req[r].fam)
    BY <1>2, <2>1, <2>2, <2>3, <2>4, RevokeStep DEF RevokeAfterReuse, Answer
  <2>5. CASE UNCHANGED family
    <3>1. Idle \in Handler /\ Idle.asked <= grants
      BY <1>2, BoundsAssumption DEF Idle, Handler, IInv, TypeOK
    <3>2. Idle.pc \notin {"found", "scoped", "counted", "reuse", "login"}
      BY DEF Idle
    <3> QED BY <1>2, <2>3, <2>5, <3>1, <3>2, HandlerStep DEF RevokeAfterReuse, Answer
  <2> QED BY <1>2, <2>4, <2>5 DEF RevokeAfterReuse
<1>3. ASSUME IInv, NEW f \in Families, RevokeFamily(f) PROVE IInv'
  <2>1. faults' \in 0 .. MaxFaults /\ excused' \subseteq Families
    BY <1>3 DEF RevokeFamily, IInv, TypeOK
  <2> QED BY <1>3, <2>1, RevokeStep DEF RevokeFamily
<1>4. ASSUME IInv, ChangeGrants PROVE IInv'
  <2>1. TypeOK'
    BY <1>4, BoundsAssumption DEF ChangeGrants, IInv, TypeOK
  <2>2. Snapshot'
    <3>1. \A r \in Requests : req[r].asked \in Nat
      BY <1>4 DEF IInv, TypeOK, Handler
    <3> QED BY <1>4, <3>1, BoundsAssumption DEF ChangeGrants, IInv, TypeOK, Snapshot
  <2> QED BY <1>4, <2>1, <2>2 DEF ChangeGrants, IInv, Written, UnknownAlive, LookedUp,
                                  OneUnused, unused, FreshScope
<1>5. ASSUME IInv, [Next]_vars PROVE IInv'
  BY <1>1, <1>2, <1>3, <1>4, <1>5, ReadStep, StartStep, RotateStep DEF Next, Continue
<1> QED BY InitIInv, <1>5, PTL DEF Spec

\* Every variable keeps its type, and nobody holds a secret that was not generated.
THEOREM TypeCorrect == Spec => []TypeOK
BY Invariance, PTL DEF IInv

\* A started session has exactly one unspent token, however redeems, revocations,
\* sign-ins and faults interleave (ClaimAndRotateRefresh).
THEOREM OneSuccessor == Spec => []OneUnused
BY Invariance, PTL DEF IInv

\* No token is written with a scope older than the request that wrote it
\* (Refresh's re-snapshot of the grants, failing closed).
THEOREM ScopeIsFresh == Spec => []FreshScope
BY Invariance, PTL DEF IInv

\* A revoked family is final: its item and its unspent token are never written
\* again, by requests that looked it up alive either.
THEOREM DeadIsFinal == Spec => DeadStaysDead
<1>1. ASSUME IInv, [Next]_vars
      PROVE  [\A f \in Families :
                 family[f].revoked => /\ family'[f] = family[f]
                                      /\ unused(f)' = unused(f)]_vars
  <2> DEFINE Stays == \A f \in Families :
                         family[f].revoked => /\ family'[f] = family[f]
                                              /\ unused(f)' = unused(f)
  <2> SUFFICES ASSUME Next PROVE Stays
    BY <1>1
  <2>1. /\ token \in [Tokens -> TokenRow] /\ family \in [Families -> FamilyRow]
        /\ issued \in 0 .. MaxTokens
    BY <1>1 DEF IInv, TypeOK
  <2>2. ASSUME UNCHANGED <<token, family>> PROVE Stays
    BY <2>2 DEF unused
  <2>3. ASSUME NEW f \in Families, revoked(f), UNCHANGED token PROVE Stays
    <3> SUFFICES ASSUME NEW g \in Families, family[g].revoked
                 PROVE  family'[g] = family[g] /\ unused(g)' = unused(g)
      OBVIOUS
    <3>1. family'[g] = IF g = f THEN [family[g] EXCEPT !.revoked = TRUE] ELSE family[g]
      BY <2>1, <2>3 DEF revoked
    <3>2. family[g] \in FamilyRow /\ family[g].revoked = TRUE
      BY <2>1 DEF FamilyRow
    <3>3. [family[g] EXCEPT !.revoked = TRUE] = family[g]
      BY <3>2 DEF FamilyRow
    <3> QED BY <2>3, <3>1, <3>3 DEF unused
  <2>4. ASSUME NEW r \in Requests, StartRefreshFamily(r) PROVE Stays
    <3>1. PICK f \in Families :
              /\ ~family[f].known /\ issued < MaxTokens
              /\ token' = [token EXCEPT ![issued + 1] =
                             [family |-> f, scope |-> req[r].scope,
                              asked |-> req[r].asked, used |-> FALSE]]
              /\ family' = [family EXCEPT ![f] =
                              [known |-> TRUE, revoked |-> FALSE, rotations |-> 1]]
      BY <2>4 DEF StartRefreshFamily
    <3>2. ~family[f].revoked
      BY <1>1, <3>1 DEF IInv, UnknownAlive
    <3>3. issued + 1 \in Tokens /\ token[issued + 1] = AbsentToken
      BY <1>1, <2>1, <3>1, BoundsAssumption DEF IInv, Written, Tokens
    <3>4. /\ \A t \in Tokens : t # issued + 1 => token'[t] = token[t]
          /\ token'[issued + 1].family = f /\ token[issued + 1].family = NoFamily
      BY <2>1, <3>1, <3>3 DEF AbsentToken
    <3> SUFFICES ASSUME NEW g \in Families, family[g].revoked
                 PROVE  family'[g] = family[g] /\ unused(g)' = unused(g)
      OBVIOUS
    <3>5. g # f
      BY <3>2
    <3>6. \A t \in Tokens : (token'[t].family = g /\ ~token'[t].used)
                               <=> (token[t].family = g /\ ~token[t].used)
      BY <3>4, <3>5, FamilyAssumption
    <3> QED BY <2>1, <3>1, <3>5, <3>6 DEF unused
  <2>5. ASSUME NEW r \in Requests, Rotate(r) PROVE Stays
    <3> DEFINE f == req[r].fam
    <3>1. /\ ~family[f].revoked /\ f \in Families
          /\ req[r].tok \in 1 .. issued /\ token[req[r].tok].family = f
          /\ issued < MaxTokens
          /\ \A g \in Families : g # f => family'[g] = family[g]
          /\ \A t \in Tokens : t # issued + 1 /\ t # req[r].tok => token'[t] = token[t]
      BY <1>1, <2>5, RotateTables
    <3>2. token'[issued + 1].family = f
      <4>1. token'[issued + 1] = [family |-> f, scope |-> req[r].scope,
                                  asked |-> req[r].asked, used |-> FALSE]
        BY <1>1, <2>5, RotateTables
      <4> QED BY <4>1
    <3>3. req[r].tok \in Tokens /\ token'[req[r].tok].family = f
      <4>1. req[r].tok \in Tokens
        BY <2>1, <3>1, BoundsAssumption DEF Tokens
      <4>2. token'[req[r].tok] = [token[req[r].tok] EXCEPT !.used = TRUE]
        BY <1>1, <2>5, RotateTables
      <4>3. token[req[r].tok] \in TokenRow
        BY <2>1, <4>1
      <4> QED BY <3>1, <4>1, <4>2, <4>3 DEF TokenRow
    <3>4. issued + 1 \in Tokens /\ token[issued + 1].family = NoFamily
      BY <1>1, <2>1, <3>1, BoundsAssumption DEF IInv, Written, Tokens, AbsentToken
    <3> SUFFICES ASSUME NEW g \in Families, family[g].revoked
                 PROVE  family'[g] = family[g] /\ unused(g)' = unused(g)
      OBVIOUS
    <3>5. g # f
      BY <3>1
    <3> HIDE DEF f
    <3>6. \A t \in Tokens : (token'[t].family = g /\ ~token'[t].used)
                               <=> (token[t].family = g /\ ~token[t].used)
      BY <3>1, <3>2, <3>3, <3>4, <3>5, FamilyAssumption
    <3> QED BY <3>1, <3>5, <3>6 DEF unused
  <2>6. ASSUME NEW r \in Requests, RevokeAfterReuse(r) PROVE Stays
    <3>1. req[r].fam \in Families
      BY <1>1, <2>6 DEF RevokeAfterReuse, IInv, LookedUp
    <3> QED BY <2>2, <2>3, <2>6, <3>1 DEF RevokeAfterReuse
  <2>7. ASSUME NEW f \in Families, RevokeFamily(f) PROVE Stays
    BY <2>3, <2>7 DEF RevokeFamily
  <2>8. CASE ChangeGrants
    BY <2>2, <2>8 DEF ChangeGrants
  <2>9. ASSUME NEW r \in Requests,
               \/ BeginLogin(r) \/ LoginFails(r) \/ RefreshTokenBySecret(r)
               \/ FetchGrants(r) \/ familyRotations(r) \/ LoseRace(r) \/ RotateFails(r)
        PROVE  Stays
    BY <2>2, <2>9 DEF BeginLogin, LoginFails, RefreshTokenBySecret, FetchGrants,
                      familyRotations, LoseRace, RotateFails
  <2> QED BY <2>4, <2>5, <2>6, <2>7, <2>8, <2>9 DEF Next, Continue
<1> QED BY Invariance, <1>1, PTL DEF Spec, DeadStaysDead
=============================================================================
