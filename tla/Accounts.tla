------------------------------ MODULE Accounts ------------------------------
(***************************************************************************)
(* AuthService, UsersService and BusinessService.create: the rows of       *)
(* users, who may log in with which password, the lockout, the tokens sent *)
(* by mail, and the administrators of a business. Founding a further       *)
(* business moves the founder's row to it: the row stays, out of reach of  *)
(* this business (users of no business and of others are left out).        *)
(*                                                                         *)
(* bcrypt takes long and is awaited, so what a request has read is old by  *)
(* the time it writes. The JWT guard's lookup is taken together with the   *)
(* first lookup of the handler. Names, tokens of a login and mails are     *)
(* left out; a user name is the account it belongs to.                     *)
(***************************************************************************)
EXTENDS Requests

CONSTANTS Account,      \* ids of users, existing or to come
          Staff,        \* the users of the business at the start, active
          Email, Password,
          MaxAttempts,  \* wrong passwords until the lock, 5 in the code
          MaxToken      \* bound on tokens issued

VARIABLES users,     \* the rows: a function on the existing ids
          lastToken, \* tokens are random: each is new
          wrong,     \* history: wrong passwords since the last right one
          uses,      \* history: passwords reset, with the token
          deletions, \* history: users deleted
          disabled   \* history: the only active admin was deactivated, demoted or moved

accountVars == <<users, lastToken, wrong, uses, deletions, disabled>>

NoEmail == "none"
Lock == {"no", "locked", "over"}  \* lockedUntil is null, to come, past
Patches == {"email", "promote", "demote", "deactivate", "activate"}
User == [email : Email \cup {NoEmail}, admin : BOOLEAN, active : BOOLEAN, here : BOOLEAN,
         pw : Password, attempts : Nat, lock : Lock,
         reset : Nat, resetLive : BOOLEAN, verify : Nat, verified : BOOLEAN]

ASSUME AccountAssumption == /\ Staff \subseteq Account /\ Staff # {}
                            /\ NoEmail \notin Email /\ Email # {}
                            /\ Password # {}
                            /\ MaxAttempts \in Nat \ {0}
                            /\ MaxToken \in Nat

AccountsOK ==
    /\ DOMAIN users \subseteq Account
    /\ \A u \in DOMAIN users :
          /\ users[u] \in User
          /\ users[u].reset <= lastToken /\ users[u].verify <= lastToken
          /\ users[u].resetLive => users[u].reset # 0
    /\ lastToken \in 0..MaxToken
    /\ wrong \in [Account -> Nat]
    /\ disabled \in BOOLEAN

\* Who registered the business, with what address.
Owner == CHOOSE u \in Staff : TRUE
Address == CHOOSE e \in Email : TRUE

\* The admins among the staff: the owner, and whom else he has made one.
Admins == {team \in SUBSET Staff : Owner \in team}

AccountsInit(teams) ==
    /\ \E team \in teams : users = [u \in Staff |->
          [email |-> IF u = Owner THEN Address ELSE NoEmail, admin |-> u \in team,
           active |-> TRUE, here |-> TRUE,
           pw |-> CHOOSE p \in Password : TRUE, attempts |-> 0, lock |-> "no",
           reset |-> 0, resetLive |-> FALSE, verify |-> 0, verified |-> u # Owner]]
    /\ lastToken = 0
    /\ wrong = [u \in Account |-> 0]
    /\ uses = {}
    /\ deletions = {}
    /\ disabled = FALSE
-----------------------------------------------------------------------------
Existing == DOMAIN users
Active == {u \in Existing : users[u].active}
Ours == {u \in Existing : users[u].here}
Callers == Active \cap Ours
ActiveAdmins == {u \in Callers : users[u].admin}
Former == {d.user : d \in deletions}
EmailTaken(e, but) == e # NoEmail /\ \E u \in Existing \ {but} : users[u].email = e

\* UPDATE ... WHERE id: an error if the row is gone (P2025), or if the email is
\* another's by now (unique index).
Write(r, now, u, row) ==
    /\ pc[r] = now
    /\ IF u \in Existing /\ ~EmailTaken(row.email, u)
       THEN Go(r, now, "ok") /\ users' = [users EXCEPT ![u] = row]
       ELSE Go(r, now, "error") /\ UNCHANGED users

NoHistory == UNCHANGED <<wrong, uses, deletions, disabled>>
Login(u) == <<"user", u>>
-----------------------------------------------------------------------------
(***************************************************************************)
(* Logging in.                                                             *)
(***************************************************************************)
\* The row is read; its hash is compared with the password while others go on.
FindLogin(r) ==
    \E u \in Active, p \in Password :
        /\ users[u].lock # "locked"
        /\ Begin(r, "login", [on |-> Login(u), kind |-> "login", user |-> u,
                              right |-> p = users[u].pw, seen |-> users[u].attempts], {{"login"}})
        /\ UNCHANGED <<users, lastToken, wrong, uses, deletions, disabled>>

\* Mutant: off by one.
RefuseLoginLate(r) ==
    LET u == req[r].user
        n == req[r].seen + 1
    IN  /\ pc[r] = "login" /\ ~req[r].right
        /\ Write(r, "login", u, [users[u] EXCEPT !.attempts = n,
                                    !.lock = IF n > MaxAttempts THEN "locked" ELSE @])
        /\ wrong' = IF pc'[r] = "ok" THEN [wrong EXCEPT ![u] = @ + 1] ELSE wrong
        /\ UNCHANGED <<lastToken, uses, deletions, disabled>>

\* A wrong password: one more than the attempts that were read, and the lock.
RefuseLogin(r) ==
    LET u == req[r].user
        n == req[r].seen + 1
    IN  /\ pc[r] = "login" /\ ~req[r].right
        /\ Write(r, "login", u, [users[u] EXCEPT !.attempts = n,
                                    !.lock = IF n >= MaxAttempts THEN "locked" ELSE @])
        /\ wrong' = IF pc'[r] = "ok" THEN [wrong EXCEPT ![u] = @ + 1] ELSE wrong
        /\ UNCHANGED <<lastToken, uses, deletions, disabled>>

\* A right one: the counter starts again.
AcceptLogin(r) ==
    LET u == req[r].user
    IN  /\ pc[r] = "login" /\ req[r].right
        /\ Write(r, "login", u, [users[u] EXCEPT !.attempts = 0, !.lock = "no"])
        /\ wrong' = IF pc'[r] = "ok" THEN [wrong EXCEPT ![u] = 0] ELSE wrong
        /\ UNCHANGED <<lastToken, uses, deletions, disabled>>

\* Fifteen minutes have passed. Nothing is written: the counter stays.
LockExpires ==
    \E u \in Existing :
        /\ users[u].lock = "locked"
        /\ users' = [users EXCEPT ![u].lock = "over"]
        /\ UNCHANGED <<lastToken, wrong, uses, deletions, disabled>>
-----------------------------------------------------------------------------
(***************************************************************************)
(* Tokens by mail.                                                         *)
(***************************************************************************)
FindForgetful(r) ==
    \E u \in Existing :
        /\ users[u].email # NoEmail
        /\ lastToken < MaxToken
        /\ Arrive(r, "forgot", [user |-> u, token |-> lastToken + 1])
        /\ lastToken' = lastToken + 1
        /\ UNCHANGED users /\ NoHistory

\* A new token replaces the one before it, for an hour.
StoreReset(r) ==
    LET u == req[r].user
    IN  /\ Write(r, "forgot", u, [users[u] EXCEPT !.reset = req[r].token, !.resetLive = TRUE])
        /\ UNCHANGED lastToken /\ NoHistory

ResetExpires ==
    \E u \in Existing :
        /\ users[u].resetLive
        /\ users' = [users EXCEPT ![u].resetLive = FALSE]
        /\ UNCHANGED lastToken /\ NoHistory

\* resetPassword finds the user by the token, then hashes the new password.
FindReset(r) ==
    \E u \in Existing, p \in Password :
        /\ users[u].reset # 0 /\ users[u].resetLive
        /\ Arrive(r, "reset", [user |-> u, token |-> users[u].reset, pw |-> p,
                               used |-> {x.token : x \in uses}])
        /\ UNCHANGED <<users, lastToken>> /\ NoHistory

Use(r) == [token |-> req[r].token, by |-> r, used |-> req[r].used]

\* Mutant: the token is left to expire.
StorePasswordKeepingToken(r) ==
    LET u == req[r].user
    IN  /\ Write(r, "reset", u, [users[u] EXCEPT !.pw = req[r].pw])
        /\ uses' = IF pc'[r] = "ok" THEN uses \cup {Use(r)} ELSE uses
        /\ UNCHANGED <<lastToken, wrong, deletions, disabled>>

\* Whatever token there is by now is cleared; attempts and lock stay.
StorePassword(r) ==
    LET u == req[r].user
    IN  /\ Write(r, "reset", u, [users[u] EXCEPT !.pw = req[r].pw, !.reset = 0,
                                                 !.resetLive = FALSE])
        /\ uses' = IF pc'[r] = "ok" THEN uses \cup {Use(r)} ELSE uses
        /\ UNCHANGED <<lastToken, wrong, deletions, disabled>>

FindUnverified(r) ==
    \E u \in Existing :
        /\ users[u].verify # 0 /\ ~users[u].verified
        /\ Arrive(r, "verify", [user |-> u])
        /\ UNCHANGED <<users, lastToken>> /\ NoHistory

StoreVerified(r) ==
    LET u == req[r].user
    IN  /\ Write(r, "verify", u, [users[u] EXCEPT !.verified = TRUE, !.verify = 0])
        /\ UNCHANGED lastToken /\ NoHistory

\* resendVerificationEmail: a new token for the caller.
FindToResend(r) ==
    \E u \in Active :
        /\ ~users[u].verified /\ users[u].email # NoEmail
        /\ lastToken < MaxToken
        /\ Arrive(r, "resend", [user |-> u, token |-> lastToken + 1])
        /\ lastToken' = lastToken + 1
        /\ UNCHANGED users /\ NoHistory

StoreVerification(r) ==
    LET u == req[r].user
    IN  /\ Write(r, "resend", u, [users[u] EXCEPT !.verify = req[r].token])
        /\ UNCHANGED lastToken /\ NoHistory
-----------------------------------------------------------------------------
(***************************************************************************)
(* Rows made, changed and deleted.                                         *)
(***************************************************************************)
\* register and UsersService.create: name and email are free, then the hash.
\* register sends a token to the address; a user made by another gets none.
FindFree(r) ==
    \E u \in Account, e \in Email \cup {NoEmail}, p \in Password, a, registered \in BOOLEAN :
        /\ u \notin Existing \cup Former
        /\ ~EmailTaken(e, u)
        /\ registered => lastToken < MaxToken
        /\ registered \/ Callers # {}
        /\ Arrive(r, "create", [user |-> u, row |->
              [email |-> e, admin |-> a, active |-> TRUE, here |-> TRUE, pw |-> p, attempts |-> 0,
               lock |-> "no", reset |-> 0, resetLive |-> FALSE,
               verify |-> IF registered /\ e # NoEmail THEN lastToken + 1 ELSE 0,
               verified |-> registered /\ e = NoEmail]])
        /\ lastToken' = IF registered THEN lastToken + 1 ELSE lastToken
        /\ UNCHANGED users /\ NoHistory

\* The insert, unless the name or the email was taken since (unique indexes). Ids are
\* used once: no user is made again under the name of one who was deleted.
InsertUser(r) ==
    LET h == req[r]
    IN  /\ pc[r] = "create" /\ h.user \notin Former
        /\ IF h.user \in Existing \/ EmailTaken(h.row.email, h.user)
           THEN Go(r, "create", "error") /\ UNCHANGED users
           ELSE /\ Go(r, "create", "ok")
                /\ users' = [u \in Existing \cup {h.user} |->
                                IF u = h.user THEN h.row ELSE users[u]]
        /\ UNCHANGED lastToken /\ NoHistory

\* PATCH of anybody of the business by anybody of it, no role asked, a field at a time;
\* updateProfile of the caller alike: an email nobody else has. The address changes,
\* what is known of its verification does not.
FindToPatch(r) ==
    \E u \in Existing, e \in Email, patch \in Patches :
        /\ (u \in Ours /\ Callers # {}) \/ (u \in Active /\ patch = "email")
        /\ patch = "email" => ~EmailTaken(e, u)
        /\ Arrive(r, "patch", [user |-> u, patch |-> patch, email |-> e])
        /\ UNCHANGED <<users, lastToken>> /\ NoHistory

StorePatch(r) ==
    LET h == req[r]
        row == users[h.user]
    IN  /\ Write(r, "patch", h.user,
              CASE h.patch = "email" -> [row EXCEPT !.email = h.email]
                [] h.patch \in {"promote", "demote"} -> [row EXCEPT !.admin = h.patch = "promote"]
                [] h.patch \in {"activate", "deactivate"} ->
                      [row EXCEPT !.active = h.patch = "activate"])
        /\ disabled' = (disabled \/ (ActiveAdmins = {h.user}
                                       /\ h.patch \in {"demote", "deactivate"}))
        /\ UNCHANGED <<lastToken, wrong, uses, deletions>>

\* changePassword, by the user (who gives the old one) or for another.
FindToRekey(r) ==
    \E u \in Existing, p \in Password :
        /\ (u \in Ours /\ Callers # {}) \/ u \in Active
        /\ Arrive(r, "rekey", [user |-> u, pw |-> p])
        /\ UNCHANGED <<users, lastToken>> /\ NoHistory

StoreKey(r) ==
    LET u == req[r].user
    IN  /\ Write(r, "rekey", u, [users[u] EXCEPT !.pw = req[r].pw])
        /\ UNCHANGED lastToken /\ NoHistory

\* toggleActive: not one's own account, but the last admin of all.
FindToToggle(r) ==
    \E u \in Ours, me \in Callers :
        /\ u # me
        /\ Arrive(r, "toggle", [user |-> u, active |-> ~users[u].active])
        /\ UNCHANGED <<users, lastToken>> /\ NoHistory

StoreToggle(r) ==
    LET u == req[r].user
    IN  /\ Write(r, "toggle", u, [users[u] EXCEPT !.active = req[r].active])
        /\ disabled' = (disabled \/ (ActiveAdmins = {u} /\ ~req[r].active))
        /\ UNCHANGED <<lastToken, wrong, uses, deletions>>

\* POST /business, for admins: the business is inserted, then the caller's row is
\* moved to it, whoever it leaves behind.
FindToFound(r) ==
    \E u \in ActiveAdmins :
        /\ Arrive(r, "found", [user |-> u])
        /\ UNCHANGED <<users, lastToken>> /\ NoHistory

StoreFounder(r) ==
    LET u == req[r].user
    IN  /\ Write(r, "found", u, [users[u] EXCEPT !.here = FALSE])
        /\ disabled' = (disabled \/ ActiveAdmins = {u})
        /\ UNCHANGED <<lastToken, wrong, uses, deletions>>

\* Of somebody who is no admin when looked up, the admins are not counted.
FindToDelete(r) ==
    \E u \in Ours, me \in Callers :
        /\ u # me
        /\ Arrive(r, IF users[u].admin THEN "countAdmins" ELSE "delete",
                  [user |-> u, admin |-> users[u].admin, counted |-> {}])
        /\ UNCHANGED <<users, lastToken>> /\ NoHistory

\* Mutant: any admin left will do, the one to be deleted for instance.
CountAnyAdmin(r) ==
    /\ IF Cardinality(ActiveAdmins) < 1
       THEN Go(r, "countAdmins", "refused")
       ELSE Hold(r, "countAdmins", "delete", [req[r] EXCEPT !.counted = ActiveAdmins])
    /\ UNCHANGED <<users, lastToken>> /\ NoHistory

\* "Prevent deleting the last admin": there must be two.
CountAdmins(r) ==
    /\ IF Cardinality(ActiveAdmins) <= 1
       THEN Go(r, "countAdmins", "refused")
       ELSE Hold(r, "countAdmins", "delete", [req[r] EXCEPT !.counted = ActiveAdmins])
    /\ UNCHANGED <<users, lastToken>> /\ NoHistory

\* By id, whatever the user has become meanwhile.
DeleteUser(r) ==
    LET h == req[r]
    IN  /\ pc[r] = "delete"
        /\ IF h.user \in Existing
           THEN /\ Go(r, "delete", "ok")
                /\ users' = [u \in Existing \ {h.user} |-> users[u]]
                /\ deletions' = deletions \cup
                      {[user |-> h.user, counted |-> h.counted, present |-> ActiveAdmins,
                        promoted |-> users[h.user].admin /\ ~h.admin]}
           ELSE Go(r, "delete", "error") /\ UNCHANGED <<users, deletions>>
        /\ UNCHANGED <<lastToken, wrong, uses, disabled>>

AuthStep(r) ==
    \/ FindLogin(r) \/ RefuseLogin(r) \/ AcceptLogin(r)
    \/ FindForgetful(r) \/ StoreReset(r) \/ FindReset(r) \/ StorePassword(r)
    \/ FindUnverified(r) \/ StoreVerified(r) \/ FindToResend(r) \/ StoreVerification(r)

\* Registering, one's own profile and password are AuthService's, and the same
\* statements as here.
UsersStep(r) ==
    \/ FindFree(r) \/ InsertUser(r)
    \/ FindToPatch(r) \/ StorePatch(r)
    \/ FindToRekey(r) \/ StoreKey(r)
    \/ FindToToggle(r) \/ StoreToggle(r)
    \/ FindToFound(r) \/ StoreFounder(r)
    \/ FindToDelete(r) \/ CountAdmins(r) \/ DeleteUser(r)
-----------------------------------------------------------------------------
AccountClock == LockExpires \/ ResetExpires

AccountsNext ==
    \/ \E r \in Request : AuthStep(r) \/ UsersStep(r)
    \/ \E r \in Request : Fail(r) /\ UNCHANGED accountVars
    \/ Halt /\ UNCHANGED accountVars
    \/ AccountClock /\ UNCHANGED requestVars

AccountsSpec == RequestInit /\ AccountsInit(Admins) /\ [][AccountsNext]_<<requestVars, accountVars>>
-----------------------------------------------------------------------------
(***************************************************************************)
(* Properties.                                                             *)
(***************************************************************************)
\* The lockout counts every wrong password since the last right one, and locks
\* at the MaxAttempts-th and at each further one, unless two logins of the user
\* were checked at a time: then one may overwrite what the other has counted.
\* Nothing else touches the counter: not a reset, a new password, a lock that
\* has run out, or a request that failed.
WrongPasswordsCount ==
    \A u \in Existing :
        \/ Together(Login(u), "login", "login")
        \/ /\ users[u].attempts = wrong[u]
           /\ (users[u].lock = "no") <=> (wrong[u] < MaxAttempts)

\* A reset token is used once: whoever used it again had found it before it was
\* used the first time. No other request brings a used token back.
TokenReuseNeedsOverlap == \A x \in uses : x.token \notin x.used

\* A business is left without an active admin only if the last one was deactivated,
\* demoted or went off to found another business (nothing checks that), or was deleted by
\* a request that had found a user who was no admin yet, or had counted another admin who
\* was gone by the time it deleted.
LastAdminExplained ==
    ActiveAdmins = {} =>
        \/ disabled
        \/ \E d \in deletions : /\ d.present = {d.user}
                                /\ d.promoted \/ ~(d.counted \subseteq d.present)
=============================================================================
