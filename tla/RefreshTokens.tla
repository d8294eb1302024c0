--------------------------- MODULE RefreshTokens ---------------------------
(***************************************************************************)
(* authd's sessions: a login starts a family of refresh tokens, each      *)
(* POST /v1/refresh spends the presented token and writes its successor,   *)
(* and presenting a spent token kills the whole family.  The tables are    *)
(* refresh_tokens and refresh_families (authd/authstore/refresh_tokens.go) *)
(* and the handlers Refresh (authd/server.go), issueSession and logout     *)
(* (authd/oauth.go) and the two operator faces of RevokeFamily.            *)
(*                                                                         *)
(* A handler runs in steps: it looks the token up, asks routd for the      *)
(* user's grants, reads the family's counter, and commits one guarded      *)
(* batch; every other handler may run in between.  A lookup reads the      *)
(* token and then the family; both reads are one step here, because what   *)
(* they may see (used, revoked) only ever turns from FALSE to TRUE and     *)
(* either answer is that of a lookup at one of the two instants.           *)
(*                                                                         *)
(* Secrets are numbers.  The user's grants are a version that grows; the   *)
(* empty scope of ErrNoGrants is a version like any other.                 *)
(***************************************************************************)
EXTENDS Naturals

CONSTANTS Families,    \* the family ids newFamilyID can return
          NoFamily,    \* the family of a token that was never written
          Requests,    \* HTTP handlers in flight
          MaxTokens,   \* how many refresh tokens are ever generated
          MaxGrants,   \* how often the user's grants change
          MaxFaults    \* how many store, grants, signing or network faults

ASSUME FamilyAssumption == NoFamily \notin Families

ASSUME BoundsAssumption ==
    MaxTokens \in Nat /\ MaxGrants \in Nat /\ MaxFaults \in Nat

Tokens == 1 .. MaxTokens

VARIABLES token,     \* token[t]: the refresh_tokens item of secret t
          family,    \* family[f]: the refresh_families item
          issued,    \* how many secrets genRefresh has returned
          held,      \* the secrets some client was handed
          req,       \* req[r]: the handler's local variables
          grants,    \* what routd says the user may do now
          faults,    \* faults so far
          excused    \* families one of whose requests ended in a fault

vars == <<token, family, issued, held, req, grants, faults, excused>>

(* scope is the stored snapshot; asked is the version the grants had when  *)
(* the handler that wrote the row began (history, not stored).             *)
TokenRow == [family : Families \cup {NoFamily}, scope : Nat,
             asked : Nat, used : BOOLEAN]

AbsentToken == [family |-> NoFamily, scope |-> 0, asked |-> 0, used |-> FALSE]

FamilyRow == [known : BOOLEAN, revoked : BOOLEAN, rotations : Nat]

Handler == [pc : {"idle", "login", "found", "scoped", "counted", "reuse"},
            tok : 0 .. MaxTokens, fam : Families \cup {NoFamily},
            scope : Nat, asked : Nat, rotations : Nat]

Idle == [pc |-> "idle", tok |-> 0, fam |-> NoFamily,
         scope |-> 0, asked |-> 0, rotations |-> 0]

Init == /\ token = [t \in Tokens |-> AbsentToken]
        /\ family = [f \in Families |->
                       [known |-> FALSE, revoked |-> FALSE, rotations |-> 0]]
        /\ issued = 0
        /\ held = {}
        /\ req = [r \in Requests |-> Idle]
        /\ grants = 0
        /\ faults = 0
        /\ excused = {}

----------------------------------------------------------------------------
(* Shared pieces.                                                          *)

Answer(r) == req' = [req EXCEPT ![r] = Idle]

(* A step of the outside world went wrong while r ran for family f.        *)
Fault(f) == /\ faults < MaxFaults
            /\ faults' = faults + 1
            /\ excused' = IF f = NoFamily THEN excused ELSE excused \cup {f}

NoFault == UNCHANGED <<faults, excused>>

(* The answer carrying secret t reaches its client, or is lost on the way  *)
(* (or the access token cannot be signed) and nobody holds t.              *)
Deliver(t, f) == \/ held' = held \cup {t} /\ NoFault
                 \/ held' = held /\ Fault(f)

unused(f) == {t \in Tokens : token[t].family = f /\ ~token[t].used}

----------------------------------------------------------------------------
(* Sign-in: snapshot the grants, then start a family.                      *)

(* issueSession up to its grants snapshot.  An outage answers 503 and      *)
(* changes nothing.                                                        *)
BeginLogin(r) ==
    /\ req[r].pc = "idle"
    /\ req' = [req EXCEPT ![r] = [Idle EXCEPT !.pc = "login",
                                              !.scope = grants,
                                              !.asked = grants]]
    /\ UNCHANGED <<token, family, issued, held, grants, faults, excused>>

(* StartRefreshFamily: the family item and its first token in one batch.   *)
StartRefreshFamily(r) ==
    \E f \in Families :
       /\ req[r].pc = "login"
       /\ ~family[f].known
       /\ issued < MaxTokens
       /\ issued' = issued + 1
       /\ token' = [token EXCEPT ![issued + 1] =
                      [family |-> f, scope |-> req[r].scope,
                       asked |-> req[r].asked, used |-> FALSE]]
       /\ family' = [family EXCEPT ![f] =
                       [known |-> TRUE, revoked |-> FALSE, rotations |-> 1]]
       /\ Deliver(issued + 1, f)
       /\ Answer(r)
       /\ UNCHANGED grants

(* The sign-in fails before its batch: signing, the store, the browser.    *)
LoginFails(r) == /\ req[r].pc = "login"
                 /\ Answer(r)
                 /\ Fault(NoFamily)
                 /\ UNCHANGED <<token, family, issued, held, grants>>

----------------------------------------------------------------------------
(* POST /v1/refresh.                                                       *)

(* RefreshTokenBySecret and the checks on what it found.  A dead family is *)
(* answered 401 and a spent token leads to the family's revocation; a live *)
(* one may still be refused here as expired, or because a read failed.     *)
RefreshTokenBySecret(r) ==
    \E t \in held :
       LET row == token[t] IN
       /\ req[r].pc = "idle"
       /\ ~family[row.family].revoked
       /\ req' = [req EXCEPT ![r] = [Idle EXCEPT
                     !.pc = IF row.used THEN "reuse" ELSE "found",
                     !.tok = t, !.fam = row.family,
                     !.scope = row.scope, !.asked = grants]]
       /\ UNCHANGED <<token, family, issued, held, grants, faults, excused>>

(* Faulty: an outage keeps the scope the token was stored with.           *)
FetchGrantsOpen(r) ==
    /\ req[r].pc = "found"
    /\ \/ /\ req' = [req EXCEPT ![r].pc = "scoped", ![r].scope = grants]
          /\ NoFault
       \/ req' = [req EXCEPT ![r].pc = "scoped"] /\ Fault(req[r].fam)
    /\ UNCHANGED <<token, family, issued, held, grants>>

(* FetchGrants replaces the stored scope; an outage fails closed and does  *)
(* not spend the token.                                                    *)
FetchGrants(r) ==
    /\ req[r].pc = "found"
    /\ \/ /\ req' = [req EXCEPT ![r].pc = "scoped", ![r].scope = grants]
          /\ NoFault
       \/ Answer(r) /\ Fault(req[r].fam)
    /\ UNCHANGED <<token, family, issued, held, grants>>

(* ClaimAndRotateRefresh's read of the counter, outside the batch.         *)
familyRotations(r) ==
    /\ req[r].pc = "scoped"
    /\ \/ /\ req' = [req EXCEPT ![r].pc = "counted",
                                ![r].rotations = family[req[r].fam].rotations]
          /\ NoFault
       \/ Answer(r) /\ Fault(req[r].fam)
    /\ UNCHANGED <<token, family, issued, held, grants>>

(* Faulty: the batch forgets the token's guard, or the family's.          *)
claimableTwice(r) == /\ ~family[req[r].fam].revoked
                     /\ family[req[r].fam].rotations = req[r].rotations

claimableDead(r) == /\ family[req[r].fam].rotations = req[r].rotations
                    /\ ~token[req[r].tok].used

(* The conditions of the batch: the family is alive and unchanged since    *)
(* the counter was read, and the token is unspent.                         *)
claimable(r) == /\ ~family[req[r].fam].revoked
                /\ family[req[r].fam].rotations = req[r].rotations
                /\ ~token[req[r].tok].used

(* The batch: spend the token, write its successor, count the rotation.    *)
rotated(r) ==
    /\ issued < MaxTokens
    /\ issued' = issued + 1
    /\ token' = [token EXCEPT
                   ![req[r].tok].used = TRUE,
                   ![issued + 1] = [family |-> req[r].fam,
                                    scope |-> req[r].scope,
                                    asked |-> req[r].asked, used |-> FALSE]]
    /\ family' = [family EXCEPT ![req[r].fam].rotations = req[r].rotations + 1]

(* The batch commits and the access token is minted and answered.          *)
Rotate(r) == /\ req[r].pc = "counted"
             /\ claimable(r)
             /\ rotated(r)
             /\ Deliver(issued + 1, req[r].fam)
             /\ Answer(r)
             /\ UNCHANGED grants

(* Faulty: a lost race is answered without killing the family.            *)
LoseRaceQuietly(r) == /\ req[r].pc = "counted"
                      /\ ~claimable(r)
                      /\ Answer(r)
                      /\ UNCHANGED <<token, family, issued, held, grants,
                                     faults, excused>>

(* The batch is refused: a lost race, taken for reuse.                     *)
LoseRace(r) == /\ req[r].pc = "counted"
               /\ ~claimable(r)
               /\ req' = [req EXCEPT ![r].pc = "reuse"]
               /\ UNCHANGED <<token, family, issued, held, grants,
                              faults, excused>>

(* The store answers with an error and nothing was written.                *)
RotateFails(r) == /\ req[r].pc = "counted"
                  /\ Answer(r)
                  /\ Fault(req[r].fam)
                  /\ UNCHANGED <<token, family, issued, held, grants>>

(* RevokeFamily's guarded write; killing a dead family writes nothing.     *)
revoked(f) == family' = [family EXCEPT ![f].revoked = TRUE]

(* The end of a request that met reuse: the family is killed, or the       *)
(* write fails and only the log says so.  Either way the answer is 401.    *)
RevokeAfterReuse(r) ==
    /\ req[r].pc = "reuse"
    /\ \/ revoked(req[r].fam) /\ NoFault
       \/ UNCHANGED family /\ Fault(req[r].fam)
    /\ Answer(r)
    /\ UNCHANGED <<token, issued, held, grants>>

----------------------------------------------------------------------------
(* The other writers, and the world.                                       *)

(* logout, DELETE /v1/sessions and the dashboard's sign-out.               *)
RevokeFamily(f) == /\ family[f].known /\ ~family[f].revoked
                   /\ revoked(f)
                   /\ UNCHANGED <<token, issued, held, req, grants,
                                  faults, excused>>

(* An operator changes what the user may do.                               *)
ChangeGrants == /\ grants < MaxGrants
                /\ grants' = grants + 1
                /\ UNCHANGED <<token, family, issued, held, req,
                               faults, excused>>

(* One step of request r once it has begun.                                *)
Continue(r) == \/ StartRefreshFamily(r) \/ LoginFails(r)
               \/ FetchGrants(r)
               \/ familyRotations(r)
               \/ Rotate(r) \/ LoseRace(r) \/ RotateFails(r)
               \/ RevokeAfterReuse(r)

Next == \/ \E r \in Requests : \/ BeginLogin(r)
                               \/ RefreshTokenBySecret(r)
                               \/ Continue(r)
        \/ \E f \in Families : RevokeFamily(f)
        \/ ChangeGrants

Spec == Init /\ [][Next]_vars

(* net/http runs every handler to its end; nothing makes a client call.    *)
FairSpec == Spec /\ \A r \in Requests : WF_vars(Continue(r))

----------------------------------------------------------------------------
(* Every variable has its type.                                            *)
TypeOK == /\ token \in [Tokens -> TokenRow]
          /\ family \in [Families -> FamilyRow]
          /\ issued \in 0 .. MaxTokens
          /\ held \subseteq 1 .. issued
          /\ req \in [Requests -> Handler]
          /\ grants \in 0 .. MaxGrants
          /\ faults \in 0 .. MaxFaults
          /\ excused \subseteq Families

(* specs/5/1: "Exactly one unused row per family, always".  However        *)
(* redeems, revokes and faults interleave, a session has one credential    *)
(* that can still be spent, so one token never buys two successors         *)
(* (ClaimAndRotateRefresh).                                                *)
OneUnused == \A f \in Families :
                 family[f].known => \E t \in Tokens : unused(f) = {t}

(* A refreshed token never carries a scope the user had lost before the    *)
(* refresh was asked for, whatever was stored with the presented token and *)
(* whether or not routd could be reached (Refresh's grants re-snapshot).   *)
FreshScope == \A t \in Tokens : token[t].scope >= token[t].asked

(* A killed family stays dead: no token is written into it by a request    *)
(* that looked it up alive (BUGS F36).                                     *)
DeadStaysDead ==
    [][\A f \in Families :
          family[f].revoked => /\ family'[f] = family[f]
                               /\ unused(f)' = unused(f)]_vars

(* A second bearer of one token ends the session: once a request in flight *)
(* holds a token another has spent, the family dies, unless a fault hit    *)
(* that family's requests.                                                 *)
ReuseEndsSession ==
    \A r \in Requests, f \in Families :
        (/\ req[r].fam = f
         /\ req[r].tok # 0
         /\ token[req[r].tok].used)
            ~> (family[f].revoked \/ f \in excused)
============================================================================
