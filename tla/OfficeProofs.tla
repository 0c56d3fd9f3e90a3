---------------------------- MODULE OfficeProofs ----------------------------
(***************************************************************************)
(* What is proved of the services over Requests, one after the other (of   *)
(* the plain records in RecordsProofs): for any number of requests and     *)
(* refused statements, and of whatever rows the service keeps. Last, what  *)
(* holds of a service alone holds of the office: while the clients turn to *)
(* another desk its tables are as they were at the start.                  *)
(*                                                                         *)
(* Most properties excuse requests that were under way together; their     *)
(* invariants say what a request has found of the tables, and that it      *)
(* stays true until it writes unless a rival has begun meanwhile.          *)
(***************************************************************************)
EXTENDS Office, RecordsProofs

(***************************************************************************)
(* The users of a business: WrongPasswordsCount, TokenReuseNeedsOverlap    *)
(* and LastAdminExplained. Each has an invariant of its own, which says of *)
(* every request under way how old what it has read may be, and one lemma  *)
(* for all the steps that leave its part of the rows alone. What the three *)
(* share is their types.                                                   *)
(***************************************************************************)
Raced(u) == Together(Login(u), "login", "login")
UsedTokens == {x.token : x \in uses}

\* What a request holds.
HoldsOK(r) ==
    /\ pc[r] \in Answered \cup {"new", "login", "forgot", "reset", "verify", "resend", "create",
                                "patch", "rekey", "toggle", "found", "countAdmins", "delete"}
    /\ pc[r] = "login" => /\ "on" \in DOMAIN req[r] /\ req[r].on = Login(req[r].user)
                          /\ req[r].kind = "login" /\ req[r].user \in Account
                          /\ req[r].seen \in Nat
    /\ pc[r] \in {"forgot", "reset"} => req[r].token \in Nat \ {0} /\ req[r].token <= lastToken
    /\ pc[r] = "resend" => req[r].token \in Nat
    /\ pc[r] \in {"reset", "rekey"} => req[r].pw \in Password
    /\ pc[r] = "create" => /\ req[r].user \in Account /\ req[r].row \in User
                           /\ req[r].row.reset = 0 /\ req[r].row.attempts = 0
                           /\ req[r].row.lock = "no"
    /\ pc[r] = "patch" => req[r].patch \in Patches /\ req[r].email \in Email
    /\ pc[r] = "toggle" => req[r].active \in BOOLEAN
    /\ pc[r] \in {"countAdmins", "delete"} =>
           req[r] \in [user : Account, admin : BOOLEAN, counted : SUBSET Account]
    /\ pc[r] = "countAdmins" => req[r].admin

ShapeOK ==
    /\ DOMAIN pc = Request /\ DOMAIN req = Request
    /\ users \in [Existing -> User] /\ Existing \subseteq Account
    /\ Existing \cap Former = {}
    /\ lastToken \in Nat /\ wrong \in [Account -> Nat]
    /\ \A r \in Request : HoldsOK(r)

\* A token is one user's; it has not been used while a row holds it, and was not when
\* the request that brings it found it.
TokensOK ==
    /\ \A u \in Existing : users[u].reset # 0 =>
          /\ users[u].reset <= lastToken /\ users[u].reset \notin UsedTokens
          /\ \A v \in Existing : users[v].reset = users[u].reset => v = u
    /\ \A r \in Request : pc[r] = "forgot" =>
          /\ req[r].token \notin UsedTokens
          /\ \A v \in Existing : users[v].reset # req[r].token
          /\ \A q \in Request : pc[q] \in {"forgot", "reset"} /\ req[q].token = req[r].token
                => q = r
    /\ \A r \in Request : pc[r] = "reset" =>
          /\ req[r].token \notin req[r].used
          /\ \A v \in Existing : users[v].reset = req[r].token => v = req[r].user
    /\ \A x \in uses : x.token \in Nat /\ x.token <= lastToken /\ x.token \notin x.used

\* A login has read what the row still says, unless it has a rival; and is not about a
\* user who is still to be made.
CountsOK ==
    /\ \A u \in Existing :
          \/ Raced(u)
          \/ /\ users[u].attempts = wrong[u]
             /\ (users[u].lock = "no") <=> (wrong[u] < MaxAttempts)
    /\ \A u \in Account \ (Existing \cup Former) : wrong[u] = 0
    /\ \A r \in Request : pc[r] = "login" =>
          /\ req[r].user \in Existing \cup Former
          /\ req[r].user \in Existing =>
                Raced(req[r].user) \/ req[r].seen = users[req[r].user].attempts
          /\ \A q \in Request : pc[q] = "login" /\ req[q].user = req[r].user =>
                q = r \/ Raced(req[r].user)

\* Whoever is about to delete somebody found to be an admin has counted another.
AdminsOK ==
    /\ LastAdminExplained
    /\ \A r \in Request : pc[r] = "delete" /\ req[r].admin =>
          \E x \in req[r].counted : x # req[r].user

IAccounts == ShapeOK /\ TokensOK /\ CountsOK /\ AdminsOK
-----------------------------------------------------------------------------
USE DEF Answered

LEMMA AccountsImply ==
    IAccounts => WrongPasswordsCount /\ TokenReuseNeedsOverlap /\ LastAdminExplained
BY DEF IAccounts, CountsOK, TokensOK, AdminsOK, WrongPasswordsCount, TokenReuseNeedsOverlap, Raced

LEMMA AccountsInitial ==
  ASSUME RequestInit, NEW teams, teams \subseteq Admins, AccountsInit(teams) PROVE IAccounts
<1>1. Owner \in Staff /\ Address \in Email /\ (CHOOSE p \in Password : TRUE) \in Password
  BY AccountAssumption DEF Owner, Address
<1>0. PICK team \in Admins : users = [u \in Staff |->
          [email |-> IF u = Owner THEN Address ELSE NoEmail, admin |-> u \in team,
           active |-> TRUE, here |-> TRUE,
           pw |-> CHOOSE p \in Password : TRUE, attempts |-> 0, lock |-> "no",
           reset |-> 0, resetLive |-> FALSE, verify |-> 0, verified |-> u # Owner]]
  BY DEF AccountsInit
<1>2. /\ Existing = Staff /\ Former = {} /\ UsedTokens = {}
      /\ \A u \in Staff : /\ users[u] \in User /\ users[u].reset = 0 /\ users[u].attempts = 0
                          /\ users[u].lock = "no" /\ users[u].active /\ users[u].here
      /\ users[Owner].admin
  <2>1. Existing = Staff /\ Owner \in team
    BY <1>0 DEF Existing, Admins
  <2>2. Former = {} /\ UsedTokens = {}
    BY DEF AccountsInit, Former, UsedTokens
  <2>3. ASSUME NEW u \in Staff
        PROVE  /\ users[u] \in User /\ users[u].reset = 0 /\ users[u].attempts = 0
               /\ users[u].lock = "no" /\ users[u].active /\ users[u].here
    BY <1>0, <1>1 DEF User, Lock
  <2>4. users[Owner].admin
    BY <1>0, <1>1, <2>1
  <2> QED
    BY <2>1, <2>2, <2>3, <2>4
<1>3. ShapeOK
  BY <1>2, AccountAssumption DEF RequestInit, AccountsInit, ShapeOK, HoldsOK, Existing
<1>4. TokensOK /\ CountsOK
  BY <1>2, AccountAssumption DEF RequestInit, AccountsInit, TokensOK, CountsOK
<1>5. ActiveAdmins # {}
  BY <1>1, <1>2 DEF ActiveAdmins, Active, Ours, Callers
<1>6. AdminsOK
  BY <1>5 DEF RequestInit, AdminsOK, LastAdminExplained
<1> QED
  BY <1>3, <1>4, <1>6 DEF IAccounts

\* The steps of one request, with what it holds.
LEMMA ShapeStays ==
  ASSUME ShapeOK, NEW r \in Request, DOMAIN pc' = Request, DOMAIN req' = Request,
         \A q \in Request : q # r => pc'[q] = pc[q] /\ req'[q] = req[q],
         HoldsOK(r)', lastToken' \in Nat, lastToken <= lastToken', wrong' \in [Account -> Nat],
         users' \in [Existing' -> User], Existing' \subseteq Account, Existing' \cap Former' = {}
  PROVE  ShapeOK'
<1>1. \A q \in Request : q # r => HoldsOK(q)'
  BY DEF ShapeOK, HoldsOK
<1> QED
  BY <1>1 DEF ShapeOK

\* The steps that neither find, store nor use a reset token.
LEMMA TokensStay ==
  ASSUME ShapeOK, TokensOK, uses' = uses, lastToken' \in Nat, lastToken <= lastToken',
         \A u \in Existing' : users'[u].reset = 0
            \/ (u \in Existing /\ users'[u].reset = users[u].reset),
         \A q \in Request : pc'[q] \in {"forgot", "reset"} => pc'[q] = pc[q] /\ req'[q] = req[q]
  PROVE  TokensOK'
<1>1. UsedTokens' = UsedTokens
  BY DEF UsedTokens
<1>2. \A u \in Existing : users[u].reset \in Nat
  BY DEF ShapeOK, User
<1>3. \A q \in Request : pc[q] \in {"forgot", "reset"} => req[q].token \in Nat \ {0}
  BY DEF ShapeOK, HoldsOK
<1>4. \A u \in Existing' : users'[u].reset # 0 =>
          /\ users'[u].reset <= lastToken' /\ users'[u].reset \notin UsedTokens'
          /\ \A v \in Existing' : users'[v].reset = users'[u].reset => v = u
  BY <1>1, <1>2 DEF TokensOK, ShapeOK
<1>5. \A q \in Request : pc'[q] = "forgot" =>
          /\ req'[q].token \notin UsedTokens'
          /\ \A v \in Existing' : users'[v].reset # req'[q].token
          /\ \A p \in Request : pc'[p] \in {"forgot", "reset"} /\ req'[p].token = req'[q].token
                => p = q
  BY <1>1, <1>3 DEF TokensOK
<1>6. \A q \in Request : pc'[q] = "reset" =>
          /\ req'[q].token \notin req'[q].used
          /\ \A v \in Existing' : users'[v].reset = req'[q].token => v = req'[q].user
  BY <1>3 DEF TokensOK
<1>7. \A x \in uses' : x.token \in Nat /\ x.token <= lastToken' /\ x.token \notin x.used
  BY DEF TokensOK, ShapeOK
<1> QED
  BY <1>4, <1>5, <1>6, <1>7 DEF TokensOK

\* The steps that neither find nor end a login: counters stay, and a new user's is zero.
LEMMA CountsStay ==
  ASSUME ShapeOK, CountsOK, wrong' = wrong, raced \subseteq raced', Former \subseteq Former',
         Existing \subseteq Existing' \cup Former', Existing' \subseteq Account,
         Existing' \cap Former' = {},
         \A u \in Existing' :
            IF u \in Existing
            THEN /\ users'[u].attempts = users[u].attempts
                 /\ (users'[u].lock = "no") <=> (users[u].lock = "no")
            ELSE users'[u].attempts = 0 /\ users'[u].lock = "no",
         \A q \in Request : pc'[q] = "login" => pc'[q] = pc[q] /\ req'[q] = req[q]
  PROVE  CountsOK'
<1>1. \A u : Raced(u) => Raced(u)'
  BY DEF Raced, Together, Login
<1>2. \A u \in Existing' :
          \/ Raced(u)'
          \/ /\ users'[u].attempts = wrong'[u]
             /\ (users'[u].lock = "no") <=> (wrong'[u] < MaxAttempts)
  BY <1>1, AccountAssumption DEF CountsOK
<1>3. \A u \in Account \ (Existing' \cup Former') : wrong'[u] = 0
  BY DEF CountsOK
<1>4. \A q \in Request : (pc[q] = "login")' =>
          /\ (req[q].user \in Existing \cup Former)'
          /\ (req[q].user \in Existing => Raced(req[q].user)
                                             \/ req[q].seen = users[req[q].user].attempts)'
          /\ \A p \in Request : (pc[p] = "login" /\ req[p].user = req[q].user)' =>
                p = q \/ Raced(req[q].user)'
  <2> SUFFICES ASSUME NEW q \in Request, (pc[q] = "login")'
               PROVE  /\ (req[q].user \in Existing \cup Former)'
                      /\ (req[q].user \in Existing => Raced(req[q].user)
                              \/ req[q].seen = users[req[q].user].attempts)'
                      /\ \A p \in Request : (pc[p] = "login" /\ req[p].user = req[q].user)' =>
                            p = q \/ Raced(req[q].user)'
    OBVIOUS
  <2>1. pc[q] = "login" /\ req'[q] = req[q]
    OBVIOUS
  <2>2. Raced(req[q].user) => Raced(req[q].user)'
    BY <2>1 DEF Raced, Together, Login
  <2>3. /\ req[q].user \in Existing \cup Former
        /\ req[q].user \in Existing =>
              Raced(req[q].user) \/ req[q].seen = users[req[q].user].attempts
        /\ \A p \in Request : pc[p] = "login" /\ req[p].user = req[q].user =>
              p = q \/ Raced(req[q].user)
    BY <2>1 DEF CountsOK
  <2>4. (req[q].user \in Existing \cup Former)'
    BY <2>1, <2>3
  <2>5. (req[q].user \in Existing)' => req[q].user \in Existing
    BY <2>1, <2>3 DEF ShapeOK
  <2>6. (req[q].user \in Existing => Raced(req[q].user)
                              \/ req[q].seen = users[req[q].user].attempts)'
    BY <2>1, <2>2, <2>3, <2>5
  <2>7. \A p \in Request : (pc[p] = "login" /\ req[p].user = req[q].user)' =>
            p = q \/ Raced(req[q].user)'
    BY <2>1, <2>2, <2>3
  <2> QED
    BY <2>4, <2>6, <2>7
<1> QED
  BY <1>2, <1>3, <1>4 DEF CountsOK

\* The steps that find nobody to delete and delete nobody: when the last admin goes, it
\* is known that he was disabled.
LEMMA AdminsStay ==
  ASSUME AdminsOK, deletions' = deletions, disabled => disabled',
         ActiveAdmins' = {} => ActiveAdmins = {} \/ disabled',
         \A q \in Request : pc'[q] = "delete" => pc'[q] = pc[q] /\ req'[q] = req[q]
  PROVE  AdminsOK'
<1>1. LastAdminExplained'
  BY DEF AdminsOK, LastAdminExplained
<1>2. \A q \in Request : pc'[q] = "delete" /\ req'[q].admin =>
          \E x \in req'[q].counted : x # req'[q].user
  BY DEF AdminsOK
<1> QED
  BY <1>1, <1>2 DEF AdminsOK
-----------------------------------------------------------------------------
\* Requests that end, or none, and rows in which counter, lock and token stay.
LEMMA StoreKeeps ==
  ASSUME IAccounts, DOMAIN pc' = Request, DOMAIN req' = Request,
         \A q \in Request : \/ pc'[q] \in Answered \cup {"new"}
                            \/ pc'[q] = pc[q] /\ req'[q] = req[q],
         UNCHANGED <<raced, lastToken, wrong, uses, deletions>>,
         users' \in [Existing -> User],
         \A u \in Existing : /\ users'[u].reset = users[u].reset
                             /\ users'[u].attempts = users[u].attempts
                             /\ (users'[u].lock = "no") <=> (users[u].lock = "no"),
         disabled => disabled', ActiveAdmins' = {} => ActiveAdmins = {} \/ disabled'
  PROVE  IAccounts'
<1>1. Existing' = Existing /\ Former' = Former
  BY DEF Existing, Former
<1>2. ShapeOK'
  <2>1. \A q \in Request : HoldsOK(q)'
    BY DEF IAccounts, ShapeOK, HoldsOK
  <2> QED
    BY <1>1, <2>1 DEF IAccounts, ShapeOK
<1>3. \A q \in Request : pc'[q] \in {"login", "forgot", "reset", "delete"} =>
          pc'[q] = pc[q] /\ req'[q] = req[q]
  OBVIOUS
<1>4. TokensOK'
  BY <1>1, <1>3, TokensStay DEF IAccounts, ShapeOK
<1>5. CountsOK'
  BY <1>1, <1>3, CountsStay DEF IAccounts, ShapeOK
<1>6. AdminsOK'
  BY <1>1, <1>3, AdminsStay DEF IAccounts, ShapeOK
<1> QED
  BY <1>2, <1>4, <1>5, <1>6 DEF IAccounts

\* A write that finds no row, or an email that is taken, changes nothing.
LEMMA UsersKeep ==
  ASSUME IAccounts, DOMAIN pc' = Request, DOMAIN req' = Request,
         \A q \in Request : \/ pc'[q] \in Answered \cup {"new"}
                            \/ pc'[q] = pc[q] /\ req'[q] = req[q],
         UNCHANGED accountVars, raced' = raced
  PROVE  IAccounts'
<1>1. ActiveAdmins' = ActiveAdmins
  BY DEF accountVars, ActiveAdmins, Active, Ours, Callers, Existing
<1> QED
  BY <1>1, StoreKeeps DEF accountVars, IAccounts, ShapeOK

\* Requests that find no login, token or user to delete, and what they hold.
LEMMA OtherFindsKeep ==
  ASSUME IAccounts, NEW r \in Request,
         \/ FindUnverified(r) \/ FindToResend(r) \/ FindFree(r) \/ FindToPatch(r)
         \/ FindToRekey(r) \/ FindToToggle(r) \/ FindToFound(r)
  PROVE  IAccounts'
<1>1. lastToken \in Nat /\ DOMAIN pc = Request /\ DOMAIN req = Request
  BY DEF IAccounts, ShapeOK
<1>2. ASSUME NEW next, NEW h, Arrive(r, next, h), UNCHANGED users, NoHistory,
             \/ next \in {"verify", "found"}
             \/ next = "resend" /\ h.token \in Nat
             \/ next = "create" /\ h.user \in Account /\ h.row \in User /\ h.row.reset = 0
                                /\ h.row.attempts = 0 /\ h.row.lock = "no"
             \/ next = "patch" /\ h.patch \in Patches /\ h.email \in Email
             \/ next = "rekey" /\ h.pw \in Password
             \/ next = "toggle" /\ h.active \in BOOLEAN,
             lastToken' \in Nat, lastToken <= lastToken'
      PROVE  IAccounts'
  <2>1. next \in {"verify", "resend", "create", "patch", "rekey", "toggle", "found"}
    BY <1>2
  <2>2. /\ pc' = [pc EXCEPT ![r] = next] /\ req' = [req EXCEPT ![r] = h]
        /\ raced' = raced /\ UNCHANGED <<users, wrong, uses, deletions, disabled>>
    BY <1>2, <2>1 DEF Arrive, Start, NoHistory
  <2>3. pc'[r] = next /\ req'[r] = h
    BY <1>1, <2>2
  <2>4. HoldsOK(r)'
    BY <1>2, <2>1, <2>3 DEF HoldsOK
  <2>5. lastToken' \in Nat /\ lastToken <= lastToken'
    BY <1>2
  <2>6. /\ DOMAIN pc' = Request /\ DOMAIN req' = Request
        /\ \A q \in Request : q # r => pc'[q] = pc[q] /\ req'[q] = req[q]
        /\ Existing' = Existing /\ Former' = Former /\ ActiveAdmins' = ActiveAdmins
    BY <1>1, <2>2 DEF Existing, Former, Active, Ours, Callers, ActiveAdmins
  <2>7. ShapeOK'
    BY <2>2, <2>4, <2>5, <2>6, ShapeStays DEF IAccounts, ShapeOK
  <2>8. \A q \in Request : pc'[q] \in {"login", "forgot", "reset", "delete"} =>
            pc'[q] = pc[q] /\ req'[q] = req[q]
    BY <2>1, <2>3, <2>6
  <2>9. TokensOK'
    BY <2>2, <2>5, <2>6, <2>8, TokensStay DEF IAccounts, NoHistory
  <2>10. CountsOK'
    BY <2>2, <2>6, <2>8, CountsStay DEF IAccounts, ShapeOK
  <2>11. AdminsOK'
    BY <2>2, <2>6, <2>8, AdminsStay DEF IAccounts, ShapeOK
  <2> QED
    BY <2>7, <2>9, <2>10, <2>11 DEF IAccounts
<1>3. CASE FindUnverified(r)
  <2>1. PICK h : Arrive(r, "verify", h)
    BY <1>3 DEF FindUnverified
  <2>2. UNCHANGED <<users, lastToken>> /\ NoHistory
    BY <1>3 DEF FindUnverified
  <2> QED
    BY <1>1, <1>2, <2>1, <2>2
<1>4. CASE FindToResend(r)
  <2>1. PICK u : Arrive(r, "resend", [user |-> u, token |-> lastToken + 1])
    BY <1>4 DEF FindToResend
  <2>2. lastToken' = lastToken + 1 /\ UNCHANGED users /\ NoHistory
    BY <1>4 DEF FindToResend
  <2>3. PICK h : h = [user |-> u, token |-> lastToken + 1]
    OBVIOUS
  <2>4. Arrive(r, "resend", h) /\ h.token \in Nat
    BY <1>1, <2>1, <2>3
  <2> QED
    BY <1>1, <1>2, <2>2, <2>4
<1>5. CASE FindFree(r)
  <2>1. PICK u \in Account, e \in Email \cup {NoEmail}, p \in Password, a, registered \in BOOLEAN :
            /\ u \notin Existing \cup Former
            /\ ~EmailTaken(e, u)
            /\ registered => lastToken < MaxToken
            /\ registered \/ Callers # {}
            /\ Arrive(r, "create", [user |-> u, row |->
                  [email |-> e, admin |-> a, active |-> TRUE, here |-> TRUE, pw |-> p,
                   attempts |-> 0, lock |-> "no", reset |-> 0, resetLive |-> FALSE,
                   verify |-> IF registered /\ e # NoEmail THEN lastToken + 1 ELSE 0,
                   verified |-> registered /\ e = NoEmail]])
            /\ lastToken' = IF registered THEN lastToken + 1 ELSE lastToken
            /\ UNCHANGED users /\ NoHistory
    BY <1>5, Zenon DEF FindFree
  <2>2. UNCHANGED users /\ NoHistory
    BY <2>1
  <2>3. PICK row : row = [email |-> e, admin |-> a, active |-> TRUE, here |-> TRUE, pw |-> p,
                          attempts |-> 0, lock |-> "no", reset |-> 0, resetLive |-> FALSE,
                          verify |-> IF registered /\ e # NoEmail THEN lastToken + 1 ELSE 0,
                          verified |-> registered /\ e = NoEmail]
    OBVIOUS
  <2>4. row \in User /\ row.reset = 0 /\ row.attempts = 0 /\ row.lock = "no"
    BY <1>1, <2>3 DEF User, Lock
  <2>5. Arrive(r, "create", [user |-> u, row |-> row])
    BY <2>1, <2>3
  <2>6. PICK h : h = [user |-> u, row |-> row]
    OBVIOUS
  <2>7. Arrive(r, "create", h) /\ h.user = u /\ h.row = row
    BY <2>5, <2>6
  <2>8. lastToken' \in Nat /\ lastToken <= lastToken'
    BY <1>1, <2>1
  <2> QED
    BY <1>2, <2>2, <2>4, <2>7, <2>8
<1>6. CASE FindToPatch(r)
  <2>1. PICK u \in Existing, e \in Email, patch \in Patches :
            Arrive(r, "patch", [user |-> u, patch |-> patch, email |-> e])
    BY <1>6 DEF FindToPatch
  <2>2. UNCHANGED <<users, lastToken>> /\ NoHistory
    BY <1>6 DEF FindToPatch
  <2>3. PICK h : h = [user |-> u, patch |-> patch, email |-> e]
    OBVIOUS
  <2>4. Arrive(r, "patch", h) /\ h.patch = patch /\ h.email = e
    BY <2>1, <2>3
  <2> QED
    BY <1>1, <1>2, <2>2, <2>4
<1>6a. CASE FindToFound(r)
  <2>1. PICK h : Arrive(r, "found", h)
    BY <1>6a DEF FindToFound
  <2>2. UNCHANGED <<users, lastToken>> /\ NoHistory
    BY <1>6a DEF FindToFound
  <2> QED
    BY <1>1, <1>2, <2>1, <2>2
<1>7. CASE FindToRekey(r)
  <2>1. PICK u \in Existing, p \in Password : Arrive(r, "rekey", [user |-> u, pw |-> p])
    BY <1>7 DEF FindToRekey
  <2>2. UNCHANGED <<users, lastToken>> /\ NoHistory
    BY <1>7 DEF FindToRekey
  <2>3. PICK h : h = [user |-> u, pw |-> p]
    OBVIOUS
  <2>4. Arrive(r, "rekey", h) /\ h.pw = p
    BY <2>1, <2>3
  <2> QED
    BY <1>1, <1>2, <2>2, <2>4
<1>8. CASE FindToToggle(r)
  <2>1. PICK u \in Existing : Arrive(r, "toggle", [user |-> u, active |-> ~users[u].active])
    BY <1>8 DEF FindToToggle, Ours
  <2>2. UNCHANGED <<users, lastToken>> /\ NoHistory
    BY <1>8 DEF FindToToggle
  <2>3. PICK h : h = [user |-> u, active |-> ~users[u].active]
    OBVIOUS
  <2>4. h.active \in BOOLEAN
    BY <2>3
  <2>5. Arrive(r, "toggle", h)
    BY <2>1, <2>3
  <2> QED
    BY <1>1, <1>2, <2>2, <2>4, <2>5
<1> QED
  BY <1>3, <1>4, <1>5, <1>6, <1>6a, <1>7, <1>8

\* Writes of a row in which counter, lock and token stay, those that find no row, and
\* time.
LEMMA OtherStoresKeep ==
  ASSUME IAccounts, NEW r \in Request,
         StoreVerified(r) \/ StoreVerification(r) \/ StorePatch(r) \/ StoreKey(r) \/ StoreToggle(r)
         \/ StoreFounder(r)
  PROVE  IAccounts'
<1> DEFINE u == req[r].user
<1>1. /\ DOMAIN pc = Request /\ DOMAIN req = Request
      /\ users \in [Existing -> User] /\ HoldsOK(r)
  BY DEF IAccounts, ShapeOK
<1>2. ASSUME NEW now, NEW STATE row, Write(r, now, u, row),
             UNCHANGED <<lastToken, wrong, uses, deletions>>,
             u \in Existing =>
                /\ row \in User /\ row.reset = users[u].reset
                /\ row.attempts = users[u].attempts /\ row.lock = users[u].lock
                /\ (row.admin /\ row.active /\ row.here) \/ ActiveAdmins # {u} \/ disabled',
             disabled => disabled'
      PROVE  IAccounts'
  <2>1. /\ pc'[r] \in Answered /\ DOMAIN pc' = Request /\ DOMAIN req' = Request /\ raced' = raced
        /\ \A q \in Request : q # r => pc'[q] = pc[q] /\ req'[q] = req[q]
        /\ \/ users' = users
           \/ u \in Existing /\ users' = [users EXCEPT ![u] = row]
    BY <1>1, <1>2 DEF Write, Go
  <2>2. CASE users' = users
    <3>1. ActiveAdmins' = ActiveAdmins
      BY <2>2 DEF ActiveAdmins, Active, Ours, Callers, Existing
    <3> QED
      BY <1>1, <1>2, <2>1, <2>2, <3>1, StoreKeeps
  <2>3. CASE u \in Existing /\ users' = [users EXCEPT ![u] = row]
    <3>1. /\ DOMAIN users' = Existing /\ users'[u] = row
          /\ \A v \in Existing : v # u => users'[v] = users[v]
      BY <1>1, <2>3 DEF Existing
    <3>2. users' \in [Existing -> User]
      BY <1>1, <1>2, <2>3
    <3>3. ActiveAdmins' = {} => ActiveAdmins = {} \/ disabled'
      <4>1. ActiveAdmins \ {u} \subseteq ActiveAdmins'
        BY <3>1 DEF ActiveAdmins, Active, Ours, Callers, Existing
      <4>2. row.admin /\ row.active /\ row.here => u \in ActiveAdmins'
        BY <2>3, <3>1 DEF ActiveAdmins, Active, Ours, Callers, Existing
      <4> QED
        BY <1>2, <2>3, <4>1, <4>2
    <3> QED
      BY <1>1, <1>2, <2>1, <2>3, <3>1, <3>2, <3>3, StoreKeeps
  <2> QED
    BY <2>1, <2>2, <2>3
<1>3. u \in Existing => users[u] \in User
  BY <1>1
<1>4. u \in ActiveAdmins => users[u].admin /\ users[u].active /\ users[u].here
  BY DEF ActiveAdmins, Active, Ours, Callers
<1>5. CASE StoreVerified(r)
  BY <1>2, <1>3, <1>4, <1>5 DEF StoreVerified, NoHistory, User
<1>6. CASE StoreVerification(r)
  <2>1. pc[r] = "resend"
    BY <1>6 DEF StoreVerification, Write
  <2>2. req[r].token \in Nat
    BY <1>1, <2>1 DEF HoldsOK
  <2> QED
    BY <1>2, <1>3, <1>4, <1>6, <2>2 DEF StoreVerification, NoHistory, User
<1>7. CASE StoreKey(r)
  <2>1. pc[r] = "rekey"
    BY <1>7 DEF StoreKey, Write
  <2>2. req[r].pw \in Password
    BY <1>1, <2>1 DEF HoldsOK
  <2> QED
    BY <1>2, <1>3, <1>4, <1>7, <2>2 DEF StoreKey, NoHistory, User
<1>8. CASE StoreToggle(r)
  <2>1. pc[r] = "toggle"
    BY <1>8 DEF StoreToggle, Write
  <2>2. req[r].active \in BOOLEAN
    BY <1>1, <2>1 DEF HoldsOK
  <2> QED
    BY <1>2, <1>3, <1>4, <1>8, <2>2 DEF StoreToggle, User
<1>9. CASE StoreFounder(r)
  BY <1>2, <1>3, <1>4, <1>9 DEF StoreFounder, User
<1>10. CASE StorePatch(r)
  <2>1. pc[r] = "patch"
    BY <1>10 DEF StorePatch, Write
  <2>2. req[r].email \in Email /\ req[r].patch \in Patches
    BY <1>1, <2>1 DEF HoldsOK
  <2> DEFINE row ==
        CASE req[r].patch = "email" -> [users[u] EXCEPT !.email = req[r].email]
          [] req[r].patch \in {"promote", "demote"} ->
                [users[u] EXCEPT !.admin = req[r].patch = "promote"]
          [] req[r].patch \in {"activate", "deactivate"} ->
                [users[u] EXCEPT !.active = req[r].patch = "activate"]
  <2>3. /\ Write(r, "patch", u, row) /\ UNCHANGED <<lastToken, wrong, uses, deletions>>
        /\ disabled' = (disabled \/ (ActiveAdmins = {u} /\ req[r].patch
              \in {"demote", "deactivate"}))
    BY <1>10 DEF StorePatch
  <2>4. u \in Existing =>
                /\ row \in User /\ row.reset = users[u].reset
                /\ row.attempts = users[u].attempts /\ row.lock = users[u].lock
                /\ u \in ActiveAdmins => (row.admin /\ row.active /\ row.here)
                                         \/ req[r].patch \in {"demote", "deactivate"}
    <3>1. CASE req[r].patch = "email"
      BY <1>3, <1>4, <2>2, <3>1 DEF User
    <3>2. CASE req[r].patch \in {"promote", "demote"}
      BY <1>3, <1>4, <3>2 DEF User
    <3>3. CASE req[r].patch \in {"activate", "deactivate"}
      BY <1>3, <1>4, <3>3 DEF User
    <3> QED
      BY <2>2, <3>1, <3>2, <3>3 DEF Patches
  <2> HIDE DEF row
  <2> QED
    BY <1>2, <2>3, <2>4
<1> QED
  BY <1>5, <1>6, <1>7, <1>8, <1>9, <1>10
-----------------------------------------------------------------------------
\* A login begins: whoever else logs in as the same user is a rival now.
LEMMA FindLoginKeeps ==
  ASSUME IAccounts, NEW r \in Request, FindLogin(r)
  PROVE  IAccounts'
<1>1. PICK u \in Active, p \in Password :
          Begin(r, "login", [on |-> Login(u), kind |-> "login", user |-> u,
                             right |-> p = users[u].pw, seen |-> users[u].attempts], {{"login"}})
  BY DEF FindLogin
<1>2. PICK h : h = [on |-> Login(u), kind |-> "login", user |-> u,
                    right |-> p = users[u].pw, seen |-> users[u].attempts]
  OBVIOUS
<1> DEFINE here == {q \in Request : Busy(q) /\ "on" \in DOMAIN req[q] /\ req[q].on = h.on}
           pairs == {<<h.on, {h.kind, req[q].kind}>> : q \in here}
<1>3. /\ pc[r] = "new" /\ pc' = [pc EXCEPT ![r] = "login"] /\ req' = [req EXCEPT ![r] = h]
      /\ raced' = raced \cup (pairs \cap ({h.on} \X {{"login"}}))
  BY <1>1, <1>2 DEF Begin, Start
<1>4. UNCHANGED <<users, lastToken, wrong, uses, deletions, disabled>>
  BY DEF FindLogin
<1>5. /\ "on" \in DOMAIN h /\ h.on = Login(u) /\ h.kind = "login" /\ h.user = u
      /\ h.seen = users[u].attempts /\ u \in Existing
  BY <1>2 DEF Active
<1>6. \A q \in Request : pc[q] = "login" /\ req[q].user = u => <<Login(u), {"login"}>> \in raced'
  <2> SUFFICES ASSUME NEW q \in Request, pc[q] = "login", req[q].user = u
               PROVE  <<Login(u), {"login"}>> \in raced'
    OBVIOUS
  <2>1. "on" \in DOMAIN req[q] /\ req[q].on = Login(u) /\ req[q].kind = "login"
    BY DEF IAccounts, ShapeOK, HoldsOK
  <2>2. q \in here
    BY <1>5, <2>1 DEF Busy
  <2>3. <<h.on, {h.kind, req[q].kind}>> \in pairs
    BY <2>2
  <2>4. {h.kind, req[q].kind} = {"login"}
    BY <1>5, <2>1
  <2>5. <<h.on, {"login"}>> \in pairs \cap ({h.on} \X {{"login"}})
    BY <2>3, <2>4
  <2> HIDE DEF pairs
  <2> QED
    BY <1>3, <1>5, <2>5
<1> HIDE DEF here, pairs
<1>7. /\ pc'[r] = "login" /\ req'[r] = h /\ DOMAIN pc' = Request /\ DOMAIN req' = Request
      /\ \A q \in Request : q # r => pc'[q] = pc[q] /\ req'[q] = req[q]
      /\ Existing' = Existing /\ Former' = Former /\ ActiveAdmins' = ActiveAdmins
  BY <1>3, <1>4 DEF IAccounts, ShapeOK, Existing, Former, Active, Ours, Callers, ActiveAdmins
<1>8. users[u] \in User /\ u \in Account /\ users[u].attempts \in Nat
  BY <1>5 DEF IAccounts, ShapeOK, User
<1>9. ShapeOK'
  <2>1. HoldsOK(r)'
    BY <1>5, <1>7, <1>8 DEF HoldsOK, Login
  <2> QED
    BY <1>4, <1>7, <2>1, ShapeStays DEF IAccounts, ShapeOK
<1>10. TokensOK'
  BY <1>4, <1>7, TokensStay DEF IAccounts, ShapeOK
<1>11. \A v : Raced(v) => Raced(v)'
  BY <1>3 DEF Raced, Together, Login
<1>12. CountsOK'
  <2>1. \A v \in Existing' :
          \/ Raced(v)'
          \/ /\ users'[v].attempts = wrong'[v]
             /\ (users'[v].lock = "no") <=> (wrong'[v] < MaxAttempts)
    BY <1>4, <1>7, <1>11 DEF IAccounts, CountsOK
  <2>2. \A v \in Account \ (Existing' \cup Former') : wrong'[v] = 0
    BY <1>4, <1>7 DEF IAccounts, CountsOK
  <2>3. (\E q \in Request : pc[q] = "login" /\ req[q].user = u) => Raced(u)'
    BY <1>6 DEF Raced, Together, Login
  <2>4. ASSUME NEW q \in Request, (pc[q] = "login")'
        PROVE  /\ (req[q].user \in Existing \cup Former)'
               /\ (req[q].user \in Existing => Raced(req[q].user)
                       \/ req[q].seen = users[req[q].user].attempts)'
               /\ \A s \in Request : (pc[s] = "login" /\ req[s].user = req[q].user)' =>
                     s = q \/ Raced(req[q].user)'
    <3>1. CASE q = r
      <4>1. Raced(u)' => Raced(req[q].user)'
        BY <1>5, <1>7, <3>1 DEF Raced, Together, Login
      <4> QED
        BY <1>4, <1>5, <1>7, <2>3, <3>1, <4>1
    <3>2. CASE q # r
      <4>1. pc[q] = "login" /\ req'[q] = req[q]
        BY <1>7, <2>4, <3>2
      <4>2. /\ req[q].user \in Existing \cup Former
            /\ req[q].user \in Existing =>
                  Raced(req[q].user) \/ req[q].seen = users[req[q].user].attempts
            /\ \A s \in Request : pc[s] = "login" /\ req[s].user = req[q].user =>
                  s = q \/ Raced(req[q].user)
        BY <4>1 DEF IAccounts, CountsOK
      <4>3. Raced(req[q].user) => Raced(req[q].user)'
        BY <1>11, <4>1 DEF Raced, Together, Login
      <4>4. req[q].user = u => Raced(req[q].user)'
        BY <1>6, <4>1 DEF Raced, Together, Login
      <4>5. \A s \in Request : (pc[s] = "login" /\ req[s].user = req[q].user)' =>
                s = q \/ Raced(req[q].user)'
        BY <1>5, <1>7, <4>1, <4>2, <4>3, <4>4
      <4> QED
        BY <1>4, <1>7, <4>1, <4>2, <4>3, <4>5
    <3> QED
      BY <3>1, <3>2
  <2> QED
    BY <2>1, <2>2, <2>4 DEF CountsOK
<1>13. AdminsOK'
  BY <1>4, <1>7, AdminsStay DEF IAccounts, ShapeOK
<1> QED
  BY <1>9, <1>10, <1>12, <1>13 DEF IAccounts

\* A login ends: without a rival the counter had the value that was read.
LEMMA EndLoginKeeps ==
  ASSUME IAccounts, NEW r \in Request, RefuseLogin(r) \/ AcceptLogin(r)
  PROVE  IAccounts'
<1> DEFINE u == req[r].user
           n == req[r].seen + 1
           lock == IF n >= MaxAttempts THEN "locked" ELSE users[u].lock
           refused == [users[u] EXCEPT !.attempts = n, !.lock = lock]
           accepted == [users[u] EXCEPT !.attempts = 0, !.lock = "no"]
<1>1. /\ pc[r] = "login" /\ DOMAIN pc = Request /\ DOMAIN req = Request
      /\ UNCHANGED <<lastToken, uses, deletions, disabled>>
  BY DEF RefuseLogin, AcceptLogin, IAccounts, ShapeOK
<1>2. /\ raced' = raced /\ pc'[r] \in {"ok", "error"}
      /\ DOMAIN pc' = Request /\ DOMAIN req' = Request
      /\ \A q \in Request : q # r => pc'[q] = pc[q] /\ req'[q] = req[q]
      /\ pc'[r] = "error" => users' = users /\ wrong' = wrong
      /\ pc'[r] = "ok" =>
            /\ u \in Existing
            /\ \/ users' = [users EXCEPT ![u] = refused]
                     /\ wrong' = [wrong EXCEPT ![u] = wrong[u] + 1]
               \/ users' = [users EXCEPT ![u] = accepted] /\ wrong' = [wrong EXCEPT ![u] = 0]
  BY <1>1 DEF RefuseLogin, AcceptLogin, Write, Go
<1>3. CASE pc'[r] = "error"
  BY <1>1, <1>2, <1>3, UsersKeep DEF accountVars
<1>4. CASE pc'[r] = "ok"
  <2>1. /\ u \in Existing /\ u \in Account /\ users[u] \in User
        /\ users \in [Existing -> User] /\ wrong \in [Account -> Nat]
    BY <1>2, <1>4 DEF IAccounts, ShapeOK
  <2>2. req[r].seen \in Nat
    BY <1>1 DEF IAccounts, ShapeOK, HoldsOK
  <2>3. Raced(u) \/ /\ req[r].seen = users[u].attempts /\ users[u].attempts = wrong[u]
                    /\ (users[u].lock = "no") <=> (wrong[u] < MaxAttempts)
    BY <1>1, <2>1 DEF IAccounts, CountsOK
  <2>4. \A q \in Request : q # r /\ pc[q] = "login" /\ req[q].user = u => Raced(u)
    BY <1>1 DEF IAccounts, CountsOK
  <2>4a. n \in Nat /\ lock \in Lock
    BY <2>1, <2>2 DEF User, Lock
  <2> HIDE DEF n, lock
  <2>5. /\ refused \in User /\ refused.reset = users[u].reset /\ refused.admin = users[u].admin
        /\ refused.active = users[u].active /\ refused.here = users[u].here /\ refused.attempts = n
        /\ refused.lock = lock
        /\ accepted \in User /\ accepted.reset = users[u].reset /\ accepted.admin = users[u].admin
        /\ accepted.active = users[u].active /\ accepted.here = users[u].here
        /\ accepted.attempts = 0 /\ accepted.lock = "no"
    BY <2>1, <2>4a DEF User, Lock
  <2> HIDE DEF refused, accepted
  <2>6. PICK row \in User :
            /\ users' = [users EXCEPT ![u] = row] /\ row.reset = users[u].reset
            /\ row.admin = users[u].admin /\ row.active = users[u].active
            /\ row.here = users[u].here
            /\ \/ row.attempts = n /\ wrong' = [wrong EXCEPT ![u] = wrong[u] + 1]
                  /\ row.lock = lock
               \/ row.attempts = 0 /\ row.lock = "no" /\ wrong' = [wrong EXCEPT ![u] = 0]
    BY <1>2, <1>4, <2>5
  <2>7. /\ DOMAIN users' = Existing /\ users'[u] = row /\ users' \in [Existing -> User]
        /\ \A v \in Existing : v # u => users'[v] = users[v]
        /\ wrong' \in [Account -> Nat] /\ \A v \in Account : v # u => wrong'[v] = wrong[v]
    BY <2>1, <2>6
  <2>8. Existing' = Existing /\ Former' = Former
    BY <1>1, <2>7 DEF Existing, Former
  <2>9. ActiveAdmins' = ActiveAdmins
    BY <2>6, <2>7, <2>8 DEF Active, Ours, Callers, ActiveAdmins
  <2>10. ShapeOK'
    <3>1. HoldsOK(r)'
      BY <1>4 DEF HoldsOK
    <3> QED
      BY <1>1, <1>2, <2>7, <2>8, <3>1, ShapeStays DEF IAccounts, ShapeOK
  <2>11. TokensOK'
    BY <1>1, <1>2, <1>4, <2>6, <2>7, <2>8, TokensStay DEF IAccounts, ShapeOK
  <2>12. AdminsOK'
    BY <1>1, <1>2, <1>4, <2>6, <2>7, <2>8, <2>9, AdminsStay DEF IAccounts, ShapeOK
  <2>13. \A v : Raced(v)' = Raced(v)
    BY <1>2 DEF Raced, Together, Login
  <2>14. \A v \in Existing' :
            \/ Raced(v)'
            \/ /\ users'[v].attempts = wrong'[v]
               /\ (users'[v].lock = "no") <=> (wrong'[v] < MaxAttempts)
    <3> SUFFICES ASSUME NEW v \in Existing
                 PROVE  \/ Raced(v)
                        \/ /\ users'[v].attempts = wrong'[v]
                           /\ (users'[v].lock = "no") <=> (wrong'[v] < MaxAttempts)
      BY <2>8, <2>13
    <3>1. CASE v # u
      BY <2>7, <3>1 DEF IAccounts, CountsOK, ShapeOK
    <3>2. CASE v = u
      <4>1. wrong[u] \in Nat /\ MaxAttempts \in Nat \ {0}
        BY <2>1, AccountAssumption
      <4>2. CASE Raced(u)
        BY <3>2, <4>2
      <4>3. CASE req[r].seen = wrong[u] /\ ((users[u].lock = "no") <=> (wrong[u] < MaxAttempts))
        <5>1. CASE row.attempts = n /\ wrong' = [wrong EXCEPT ![u] = wrong[u] + 1]
                   /\ row.lock = lock
          <6>1. wrong'[u] = n /\ users'[u].attempts = n /\ users'[u].lock = row.lock
            BY <2>1, <2>7, <4>3, <5>1 DEF n
          <6>2. (row.lock = "no") <=> (n < MaxAttempts)
            BY <4>1, <4>3, <5>1 DEF n, lock
          <6> QED
            BY <3>2, <6>1, <6>2
        <5>2. CASE row.attempts = 0 /\ row.lock = "no" /\ wrong' = [wrong EXCEPT ![u] = 0]
          BY <2>1, <2>7, <3>2, <4>1, <5>2
        <5> QED
          BY <2>6, <5>1, <5>2
      <4> QED
        BY <2>3, <4>2, <4>3
    <3> QED
      BY <3>1, <3>2
  <2>15. \A v \in Account \ (Existing' \cup Former') : wrong'[v] = 0
    BY <2>1, <2>7, <2>8 DEF IAccounts, CountsOK
  <2>16. ASSUME NEW q \in Request, (pc[q] = "login")'
         PROVE  /\ (req[q].user \in Existing \cup Former)'
                /\ (req[q].user \in Existing => Raced(req[q].user)
                        \/ req[q].seen = users[req[q].user].attempts)'
                /\ \A s \in Request : (pc[s] = "login" /\ req[s].user = req[q].user)' =>
                      s = q \/ Raced(req[q].user)'
    <3>1. q # r /\ pc[q] = "login" /\ req'[q] = req[q]
      BY <1>2, <1>4, <2>16
    <3>2. /\ req[q].user \in Existing \cup Former
          /\ req[q].user \in Existing =>
                Raced(req[q].user) \/ req[q].seen = users[req[q].user].attempts
          /\ \A s \in Request : pc[s] = "login" /\ req[s].user = req[q].user =>
                s = q \/ Raced(req[q].user)
      BY <3>1 DEF IAccounts, CountsOK
    <3>3. Raced(req[q].user) => Raced(req[q].user)'
      BY <1>2, <3>1 DEF Raced, Together, Login
    <3>4. req[q].user = u => Raced(req[q].user)
      BY <2>4, <3>1
    <3>5. \A s \in Request : (pc[s] = "login" /\ req[s].user = req[q].user)' =>
              s = q \/ Raced(req[q].user)'
      BY <1>2, <1>4, <3>1, <3>2, <3>3
    <3>6. (req[q].user \in Existing \cup Former)'
      BY <2>8, <3>1, <3>2
    <3>7. (req[q].user \in Existing => Raced(req[q].user)
                \/ req[q].seen = users[req[q].user].attempts)'
      BY <2>7, <2>8, <3>1, <3>2, <3>3, <3>4
    <3> QED
      BY <3>5, <3>6, <3>7
  <2>17. CountsOK'
    BY <2>14, <2>15, <2>16 DEF CountsOK
  <2> QED
    BY <2>10, <2>11, <2>12, <2>17 DEF IAccounts
<1> QED
  BY <1>2, <1>3, <1>4
-----------------------------------------------------------------------------
\* A token is made: nobody has it.
LEMMA FindForgetfulKeeps ==
  ASSUME IAccounts, NEW r \in Request, FindForgetful(r)
  PROVE  IAccounts'
<1>1. PICK u : Arrive(r, "forgot", [user |-> u, token |-> lastToken + 1])
  BY DEF FindForgetful
<1>2. PICK h : h = [user |-> u, token |-> lastToken + 1]
  OBVIOUS
<1>3. /\ pc' = [pc EXCEPT ![r] = "forgot"] /\ req' = [req EXCEPT ![r] = h] /\ raced' = raced
      /\ h.token = lastToken + 1
  BY <1>1, <1>2 DEF Arrive, Start
<1>4. lastToken' = lastToken + 1 /\ UNCHANGED <<users, wrong, uses, deletions, disabled>>
  BY DEF FindForgetful, NoHistory
<1>5. /\ pc'[r] = "forgot" /\ req'[r] = h /\ DOMAIN pc' = Request /\ DOMAIN req' = Request
      /\ \A q \in Request : q # r => pc'[q] = pc[q] /\ req'[q] = req[q]
      /\ Existing' = Existing /\ Former' = Former /\ ActiveAdmins' = ActiveAdmins
      /\ UsedTokens' = UsedTokens /\ lastToken \in Nat
  BY <1>3, <1>4 DEF IAccounts, ShapeOK, Existing, Former, Active, Ours, Callers, ActiveAdmins,
                    UsedTokens
<1>6. ShapeOK'
  <2>1. HoldsOK(r)'
    BY <1>3, <1>4, <1>5 DEF HoldsOK
  <2> QED
    BY <1>4, <1>5, <2>1, ShapeStays DEF IAccounts, ShapeOK
<1>7. CountsOK' /\ AdminsOK'
  BY <1>3, <1>4, <1>5, CountsStay, AdminsStay DEF IAccounts, ShapeOK
<1>8. TokensOK'
  <2>1. \A v \in Existing : users[v].reset \in Nat /\ users[v].reset <= lastToken
    BY <1>5 DEF IAccounts, ShapeOK, User, TokensOK
  <2>2. \A q \in Request : pc[q] \in {"forgot", "reset"} =>
            req[q].token \in Nat \ {0} /\ req[q].token <= lastToken
    BY DEF IAccounts, ShapeOK, HoldsOK
  <2>3. \A x \in uses : x.token \in Nat /\ x.token <= lastToken /\ x.token \notin x.used
    BY DEF IAccounts, TokensOK
  <2>4. h.token \notin UsedTokens
    BY <1>3, <1>5, <2>3 DEF UsedTokens
  <2>5. \A v \in Existing' : users'[v].reset # 0 =>
            /\ users'[v].reset <= lastToken' /\ users'[v].reset \notin UsedTokens'
            /\ \A w \in Existing' : users'[w].reset = users'[v].reset => w = v
    BY <1>4, <1>5, <2>1 DEF IAccounts, TokensOK
  <2>6. \A q \in Request : pc'[q] = "forgot" =>
            /\ req'[q].token \notin UsedTokens'
            /\ \A v \in Existing' : users'[v].reset # req'[q].token
            /\ \A p \in Request : pc'[p]
                  \in {"forgot", "reset"} /\ req'[p].token = req'[q].token => p = q
    BY <1>3, <1>4, <1>5, <2>1, <2>2, <2>4 DEF IAccounts, TokensOK
  <2>7. \A q \in Request : pc'[q] = "reset" =>
            /\ req'[q].token \notin req'[q].used
            /\ \A v \in Existing' : users'[v].reset = req'[q].token => v = req'[q].user
    BY <1>4, <1>5 DEF IAccounts, TokensOK
  <2>8. \A x \in uses' : x.token \in Nat /\ x.token <= lastToken' /\ x.token \notin x.used
    BY <1>4, <1>5, <2>3
  <2> QED
    BY <2>5, <2>6, <2>7, <2>8 DEF TokensOK
<1> QED
  BY <1>6, <1>7, <1>8 DEF IAccounts

\* A token is found with its user: it has not been used.
LEMMA FindResetKeeps ==
  ASSUME IAccounts, NEW r \in Request, FindReset(r)
  PROVE  IAccounts'
<1>1. PICK u \in Existing, p \in Password :
          /\ users[u].reset # 0
          /\ Arrive(r, "reset", [user |-> u, token |-> users[u].reset, pw |-> p,
                                 used |-> {x.token : x \in uses}])
  BY DEF FindReset
<1>2. PICK h : h = [user |-> u, token |-> users[u].reset, pw |-> p, used |-> {x.token : x \in uses}]
  OBVIOUS
<1>3. /\ pc' = [pc EXCEPT ![r] = "reset"] /\ req' = [req EXCEPT ![r] = h] /\ raced' = raced
      /\ h.user = u /\ h.token = users[u].reset /\ h.pw = p /\ h.used = UsedTokens
  BY <1>1, <1>2 DEF Arrive, Start, UsedTokens
<1>4. UNCHANGED <<users, lastToken, wrong, uses, deletions, disabled>>
  BY DEF FindReset, NoHistory
<1>5. /\ pc'[r] = "reset" /\ req'[r] = h /\ DOMAIN pc' = Request /\ DOMAIN req' = Request
      /\ \A q \in Request : q # r => pc'[q] = pc[q] /\ req'[q] = req[q]
      /\ Existing' = Existing /\ Former' = Former /\ ActiveAdmins' = ActiveAdmins
      /\ UsedTokens' = UsedTokens /\ lastToken \in Nat
  BY <1>3, <1>4 DEF IAccounts, ShapeOK, Existing, Former, Active, Ours, Callers, ActiveAdmins,
                    UsedTokens
<1>6. users[u].reset \in Nat \ {0} /\ users[u].reset <= lastToken /\ users[u].reset \notin UsedTokens
  BY <1>1 DEF IAccounts, ShapeOK, TokensOK, User
<1>7. ShapeOK'
  <2>1. HoldsOK(r)'
    BY <1>3, <1>4, <1>5, <1>6 DEF HoldsOK
  <2> QED
    BY <1>4, <1>5, <2>1, ShapeStays DEF IAccounts, ShapeOK
<1>8. CountsOK' /\ AdminsOK'
  BY <1>3, <1>4, <1>5, CountsStay, AdminsStay DEF IAccounts, ShapeOK
<1>9. TokensOK'
  <2>1. \A v \in Existing : users[v].reset = users[u].reset => v = u
    BY <1>1 DEF IAccounts, TokensOK
  <2>2. \A q \in Request : pc'[q] = "forgot" =>
            /\ req'[q].token \notin UsedTokens'
            /\ \A v \in Existing' : users'[v].reset # req'[q].token
            /\ \A s \in Request : pc'[s]
                  \in {"forgot", "reset"} /\ req'[s].token = req'[q].token => s = q
    BY <1>1, <1>3, <1>4, <1>5 DEF IAccounts, TokensOK
  <2>3. \A q \in Request : pc'[q] = "reset" =>
            /\ req'[q].token \notin req'[q].used
            /\ \A v \in Existing' : users'[v].reset = req'[q].token => v = req'[q].user
    BY <1>3, <1>4, <1>5, <1>6, <2>1 DEF IAccounts, TokensOK
  <2> QED
    BY <1>4, <1>5, <2>2, <2>3 DEF IAccounts, TokensOK
<1> QED
  BY <1>7, <1>8, <1>9 DEF IAccounts

\* A token is stored, or used: another row's is another token.
LEMMA ResetKeeps ==
  ASSUME IAccounts, NEW r \in Request, StoreReset(r) \/ StorePassword(r)
  PROVE  IAccounts'
<1> DEFINE u == req[r].user
           stored == [users[u] EXCEPT !.reset = req[r].token, !.resetLive = TRUE]
           used == [users[u] EXCEPT !.pw = req[r].pw, !.reset = 0, !.resetLive = FALSE]
<1>1. /\ pc[r] \in {"forgot", "reset"} /\ DOMAIN pc = Request /\ DOMAIN req = Request
      /\ UNCHANGED <<lastToken, wrong, deletions, disabled>>
  BY DEF StoreReset, StorePassword, NoHistory, Write, IAccounts, ShapeOK
<1>2. /\ raced' = raced /\ pc'[r] \in {"ok", "error"}
      /\ DOMAIN pc' = Request /\ DOMAIN req' = Request
      /\ \A q \in Request : q # r => pc'[q] = pc[q] /\ req'[q] = req[q]
      /\ pc'[r] = "error" => users' = users /\ uses' = uses
      /\ pc'[r] = "ok" =>
            /\ u \in Existing
            /\ \/ pc[r] = "forgot" /\ users' = [users EXCEPT ![u] = stored] /\ uses' = uses
               \/ pc[r] = "reset" /\ users' = [users EXCEPT ![u] = used]
                     /\ uses' = uses \cup {Use(r)}
  BY <1>1 DEF StoreReset, StorePassword, NoHistory, Write, Go
<1>3. CASE pc'[r] = "error"
  BY <1>1, <1>2, <1>3, UsersKeep DEF accountVars
<1>4. CASE pc'[r] = "ok"
  <2>1. /\ u \in Existing /\ u \in Account /\ users[u] \in User /\ users \in [Existing -> User]
        /\ \A v \in Existing : users[v].reset \in Nat
    BY <1>2, <1>4 DEF IAccounts, ShapeOK, User
  <2>2. /\ req[r].token \in Nat \ {0} /\ req[r].token <= lastToken
        /\ pc[r] = "reset" => req[r].pw \in Password
    BY <1>1 DEF IAccounts, ShapeOK, HoldsOK
  <2>3. /\ stored \in User /\ stored.reset = req[r].token /\ used.reset = 0
        /\ pc[r] = "reset" => used \in User
        /\ \A row \in {stored, used} : /\ row.admin = users[u].admin /\ row.active = users[u].active
                                       /\ row.here = users[u].here
                                       /\ row.attempts = users[u].attempts
                                       /\ row.lock = users[u].lock
    BY <2>1, <2>2 DEF User
  <2> HIDE DEF stored, used
  <2>4. PICK row \in User :
            /\ users' = [users EXCEPT ![u] = row]
            /\ row.admin = users[u].admin /\ row.active = users[u].active
            /\ row.here = users[u].here
            /\ row.attempts = users[u].attempts /\ row.lock = users[u].lock
            /\ \/ pc[r] = "forgot" /\ row.reset = req[r].token /\ uses' = uses
               \/ pc[r] = "reset" /\ row.reset = 0 /\ uses' = uses \cup {Use(r)}
    BY <1>2, <1>4, <2>3
  <2>5. /\ DOMAIN users' = Existing /\ users'[u] = row /\ users' \in [Existing -> User]
        /\ \A v \in Existing : v # u => users'[v] = users[v]
    BY <2>1, <2>4
  <2>6. Existing' = Existing /\ Former' = Former
    BY <1>1, <2>5 DEF Existing, Former
  <2>7. ActiveAdmins' = ActiveAdmins
    BY <2>4, <2>5, <2>6 DEF Active, Ours, Callers, ActiveAdmins
  <2>8. ShapeOK'
    <3>1. HoldsOK(r)'
      BY <1>4 DEF HoldsOK
    <3> QED
      BY <1>1, <1>2, <2>5, <2>6, <3>1, ShapeStays DEF IAccounts, ShapeOK
  <2>9. CountsOK'
    BY <1>1, <1>2, <1>4, <2>4, <2>5, <2>6, CountsStay DEF IAccounts, ShapeOK
  <2>10. AdminsOK'
    BY <1>1, <1>2, <1>4, <2>4, <2>5, <2>6, <2>7, AdminsStay DEF IAccounts, ShapeOK
  <2>11. UsedTokens' = IF pc[r] = "forgot" THEN UsedTokens ELSE UsedTokens \cup {req[r].token}
    <3>1. CASE pc[r] = "forgot"
      BY <2>4, <3>1 DEF UsedTokens
    <3>2. CASE pc[r] = "reset"
      <4>1. uses' = uses \cup {Use(r)} /\ Use(r).token = req[r].token
        BY <2>4, <3>2 DEF Use
      <4>2. UsedTokens' = UsedTokens \cup {Use(r).token}
        BY <4>1 DEF UsedTokens
      <4> QED
        BY <3>2, <4>1, <4>2
    <3> QED
      BY <1>1, <3>1, <3>2
  <2>12. \A v \in Existing : users[v].reset = req[r].token => pc[r] = "reset" /\ v = u
    BY <1>1, <2>1 DEF IAccounts, TokensOK
  <2>13. \A q \in Request : q # r /\ pc[q] = "forgot" => req[q].token # req[r].token
    BY <1>1 DEF IAccounts, TokensOK
  <2>14. pc[r] = "forgot" =>
             /\ req[r].token \notin UsedTokens
             /\ \A q \in Request : q # r /\ pc[q] = "reset" => req[q].token # req[r].token
    BY DEF IAccounts, TokensOK
  <2>15. \A v \in Existing' : users'[v].reset # 0 =>
            /\ users'[v].reset <= lastToken' /\ users'[v].reset \notin UsedTokens'
            /\ \A w \in Existing' : users'[w].reset = users'[v].reset => w = v
    <3> SUFFICES ASSUME NEW v \in Existing, users'[v].reset # 0
                 PROVE  /\ users'[v].reset <= lastToken /\ users'[v].reset \notin UsedTokens'
                        /\ \A w \in Existing : users'[w].reset = users'[v].reset => w = v
      BY <1>1, <2>6
    <3>1. CASE v = u
      BY <2>2, <2>4, <2>5, <2>11, <2>12, <2>14, <3>1
    <3>2. CASE v # u
      <4>1. users'[v] = users[v] /\ users[v].reset # req[r].token
        BY <2>5, <2>12, <3>2
      <4>2. /\ users[v].reset <= lastToken /\ users[v].reset \notin UsedTokens
            /\ \A w \in Existing : users[w].reset = users[v].reset => w = v
        BY <4>1 DEF IAccounts, TokensOK
      <4> QED
        BY <2>4, <2>5, <2>11, <4>1, <4>2
    <3> QED
      BY <3>1, <3>2
  <2>16. \A q \in Request : pc'[q] = "forgot" =>
            /\ req'[q].token \notin UsedTokens'
            /\ \A v \in Existing' : users'[v].reset # req'[q].token
            /\ \A s \in Request : pc'[s]
                  \in {"forgot", "reset"} /\ req'[s].token = req'[q].token => s = q
    <3> SUFFICES ASSUME NEW q \in Request, pc'[q] = "forgot"
                 PROVE  /\ req'[q].token \notin UsedTokens'
                        /\ \A v \in Existing' : users'[v].reset # req'[q].token
                        /\ \A s \in Request :
                              pc'[s] \in {"forgot", "reset"} /\ req'[s].token = req'[q].token
                                 => s = q
      OBVIOUS
    <3>1. q # r /\ pc[q] = "forgot" /\ req'[q] = req[q] /\ req[q].token # req[r].token
      BY <1>2, <1>4, <2>13
    <3>2. /\ req[q].token \notin UsedTokens
          /\ \A v \in Existing : users[v].reset # req[q].token
          /\ \A s \in Request : pc[s] \in {"forgot", "reset"} /\ req[s].token = req[q].token
                => s = q
          /\ req[q].token # 0
      BY <3>1 DEF IAccounts, TokensOK, ShapeOK, HoldsOK
    <3> QED
      BY <1>2, <1>4, <2>4, <2>5, <2>6, <2>11, <3>1, <3>2
  <2>17. \A q \in Request : pc'[q] = "reset" =>
            /\ req'[q].token \notin req'[q].used
            /\ \A v \in Existing' : users'[v].reset = req'[q].token => v = req'[q].user
    <3> SUFFICES ASSUME NEW q \in Request, pc'[q] = "reset"
                 PROVE  /\ req'[q].token \notin req'[q].used
                        /\ \A v \in Existing' : users'[v].reset = req'[q].token => v = req'[q].user
      OBVIOUS
    <3>1. q # r /\ pc[q] = "reset" /\ req'[q] = req[q]
      BY <1>2, <1>4
    <3>2. /\ req[q].token \notin req[q].used
          /\ \A v \in Existing : users[v].reset = req[q].token => v = req[q].user
          /\ req[q].token # 0
      BY <3>1 DEF IAccounts, TokensOK, ShapeOK, HoldsOK
    <3> QED
      BY <2>4, <2>5, <2>6, <2>14, <3>1, <3>2
  <2>18. \A x \in uses' : x.token \in Nat /\ x.token <= lastToken' /\ x.token \notin x.used
    <3>1. pc[r] = "reset" => req[r].token \notin req[r].used
      BY DEF IAccounts, TokensOK
    <3>2. \A x \in uses : x.token \in Nat /\ x.token <= lastToken /\ x.token \notin x.used
      BY DEF IAccounts, TokensOK
    <3>3. Use(r).token = req[r].token /\ Use(r).used = req[r].used
      BY DEF Use
    <3> QED
      BY <1>1, <2>2, <2>4, <3>1, <3>2, <3>3
  <2>19. TokensOK'
    BY <2>15, <2>16, <2>17, <2>18 DEF TokensOK
  <2> QED
    BY <2>8, <2>9, <2>10, <2>19 DEF IAccounts
<1> QED
  BY <1>2, <1>3, <1>4
-----------------------------------------------------------------------------
\* A user is made, who was not there and had not been before.
LEMMA InsertUserKeeps ==
  ASSUME IAccounts, NEW r \in Request, InsertUser(r)
  PROVE  IAccounts'
<1> DEFINE u == req[r].user
           row == req[r].row
<1>1. /\ pc[r] = "create" /\ DOMAIN pc = Request /\ DOMAIN req = Request
      /\ UNCHANGED <<lastToken, wrong, uses, deletions, disabled>>
  BY DEF InsertUser, NoHistory, IAccounts, ShapeOK
<1>2. /\ u \in Account /\ row \in User /\ row.reset = 0 /\ row.attempts = 0 /\ row.lock = "no"
      /\ users \in [Existing -> User]
  BY <1>1 DEF IAccounts, ShapeOK, HoldsOK
<1>3. /\ raced' = raced /\ DOMAIN pc' = Request /\ DOMAIN req' = Request
      /\ \A q \in Request : q # r => pc'[q] = pc[q] /\ req'[q] = req[q]
      /\ \/ pc'[r] = "error" /\ users' = users
         \/ /\ pc'[r] = "ok" /\ u \notin Existing /\ u \notin Former
            /\ users' = [v \in Existing \cup {u} |-> IF v = u THEN row ELSE users[v]]
  BY <1>1 DEF InsertUser, Go
<1>4. CASE pc'[r] = "error" /\ users' = users
  BY <1>1, <1>3, <1>4, UsersKeep DEF accountVars
<1>5. CASE /\ pc'[r] = "ok" /\ u \notin Existing /\ u \notin Former
           /\ users' = [v \in Existing \cup {u} |-> IF v = u THEN row ELSE users[v]]
  <2> HIDE DEF row
  <2>1. /\ Existing' = Existing \cup {u} /\ users'[u] = row
        /\ \A v \in Existing : users'[v] = users[v]
        /\ Former' = Former
    BY <1>1, <1>5 DEF Existing, Former
  <2>2. users' \in [Existing' -> User]
    BY <1>2, <1>5, <2>1
  <2>3. Existing' \subseteq Account /\ Existing' \cap Former' = {}
    BY <1>2, <1>5, <2>1 DEF IAccounts, ShapeOK
  <2>4. ActiveAdmins \subseteq ActiveAdmins'
    BY <2>1 DEF Active, Ours, Callers, ActiveAdmins
  <2>5. ShapeOK'
    <3>1. HoldsOK(r)'
      BY <1>5 DEF HoldsOK
    <3> QED
      BY <1>1, <1>3, <2>2, <2>3, <3>1, ShapeStays DEF IAccounts, ShapeOK
  <2>6. TokensOK'
    BY <1>1, <1>2, <1>3, <1>5, <2>1, TokensStay DEF IAccounts, ShapeOK
  <2>7. CountsOK'
    BY <1>1, <1>2, <1>3, <1>5, <2>1, <2>3, CountsStay DEF IAccounts, ShapeOK
  <2>8. AdminsOK'
    BY <1>1, <1>3, <1>5, <2>1, <2>3, <2>4, AdminsStay DEF IAccounts, ShapeOK
  <2> QED
    BY <2>5, <2>6, <2>7, <2>8 DEF IAccounts
<1> QED
  BY <1>3, <1>4, <1>5

\* Somebody is to be deleted, and is not an admin, or admins are counted first.
LEMMA FindToDeleteKeeps ==
  ASSUME IAccounts, NEW r \in Request, FindToDelete(r)
  PROVE  IAccounts'
<1>1. PICK u \in Existing :
          Arrive(r, IF users[u].admin THEN "countAdmins" ELSE "delete",
                 [user |-> u, admin |-> users[u].admin, counted |-> {}])
  BY DEF FindToDelete, Ours
<1>2. PICK h, next : /\ h = [user |-> u, admin |-> users[u].admin, counted |-> {}]
                     /\ next = IF users[u].admin THEN "countAdmins" ELSE "delete"
  OBVIOUS
<1>3. /\ pc' = [pc EXCEPT ![r] = next] /\ req' = [req EXCEPT ![r] = h] /\ raced' = raced
  BY <1>1, <1>2 DEF Arrive, Start
<1>4. UNCHANGED <<users, lastToken, wrong, uses, deletions, disabled>>
  BY DEF FindToDelete, NoHistory
<1>5. /\ pc'[r] = next /\ req'[r] = h /\ DOMAIN pc' = Request /\ DOMAIN req' = Request
      /\ \A q \in Request : q # r => pc'[q] = pc[q] /\ req'[q] = req[q]
      /\ Existing' = Existing /\ Former' = Former /\ ActiveAdmins' = ActiveAdmins
      /\ lastToken \in Nat
  BY <1>3, <1>4 DEF IAccounts, ShapeOK, Existing, Former, Active, Ours, Callers, ActiveAdmins
<1>6. users[u].admin \in BOOLEAN /\ u \in Account
  BY DEF IAccounts, ShapeOK, User
<1>7. /\ h \in [user : Account, admin : BOOLEAN, counted : SUBSET Account]
      /\ h.user = u /\ h.admin = users[u].admin
      /\ \/ next = "countAdmins" /\ h.admin
         \/ next = "delete" /\ ~h.admin
  BY <1>2, <1>6
<1>8. ShapeOK'
  <2>1. HoldsOK(r)'
    BY <1>5, <1>7 DEF HoldsOK
  <2> QED
    BY <1>4, <1>5, <2>1, ShapeStays DEF IAccounts, ShapeOK
<1>9. TokensOK'
  BY <1>4, <1>5, <1>7, TokensStay DEF IAccounts
<1>10. CountsOK'
  BY <1>3, <1>4, <1>5, <1>7, CountsStay DEF IAccounts, ShapeOK
<1>11. AdminsOK'
  <2>1. LastAdminExplained'
    BY <1>4, <1>5 DEF IAccounts, AdminsOK, LastAdminExplained
  <2>2. \A q \in Request : pc'[q] = "delete" /\ req'[q].admin =>
            \E x \in req'[q].counted : x # req'[q].user
    BY <1>4, <1>5, <1>7 DEF IAccounts, AdminsOK
  <2> QED
    BY <2>1, <2>2 DEF AdminsOK
<1> QED
  BY <1>8, <1>9, <1>10, <1>11 DEF IAccounts

\* Of two admins one is another.
LEMMA CountAdminsKeeps ==
  ASSUME IAccounts, NEW r \in Request, CountAdmins(r)
  PROVE  IAccounts'
<1>1. /\ pc[r] = "countAdmins" /\ DOMAIN pc = Request /\ DOMAIN req = Request
      /\ UNCHANGED <<raced, users, lastToken, wrong, uses, deletions, disabled>>
      /\ req[r] \in [user : Account, admin : BOOLEAN, counted : SUBSET Account]
      /\ req[r].admin /\ lastToken \in Nat
  BY DEF CountAdmins, NoHistory, Go, Hold, IAccounts, ShapeOK, HoldsOK
<1> DEFINE few == Cardinality(ActiveAdmins) <= 1
           h == [req[r] EXCEPT !.counted = ActiveAdmins]
<1>4. IF few THEN Go(r, "countAdmins", "refused") ELSE Hold(r, "countAdmins", "delete", h)
  BY DEF CountAdmins
<1> HIDE DEF few
<1>2. CASE few
  <2>1. /\ pc'[r] = "refused" /\ DOMAIN pc' = Request /\ DOMAIN req' = Request
        /\ \A q \in Request : q # r => pc'[q] = pc[q] /\ req'[q] = req[q]
    BY <1>1, <1>2, <1>4 DEF Go
  <2> QED
    BY <1>1, <2>1, UsersKeep DEF accountVars
<1>3. CASE ~few
  <2>1. pc' = [pc EXCEPT ![r] = "delete"] /\ req' = [req EXCEPT ![r] = h]
    BY <1>3, <1>4 DEF Hold
  <2>2. ActiveAdmins \subseteq Account
    BY DEF ActiveAdmins, Active, Ours, Callers, IAccounts, ShapeOK
  <2>3. /\ h \in [user : Account, admin : BOOLEAN, counted : SUBSET Account]
        /\ h.admin /\ h.counted = ActiveAdmins /\ h.user = req[r].user
    BY <1>1, <2>2
  <2> HIDE DEF h
  <2>4. \E x \in ActiveAdmins : x # h.user
    <3> SUFFICES ASSUME \A x \in ActiveAdmins : x = h.user PROVE FALSE
      OBVIOUS
    <3>1. CASE ActiveAdmins = {}
      BY <1>3, <3>1, FS_EmptySet DEF few
    <3>2. CASE ActiveAdmins # {}
      <4>1. ActiveAdmins = {h.user}
        BY <3>2
      <4>2. Cardinality({h.user}) = 1
        BY FS_Singleton
      <4> QED
        BY <1>3, <4>1, <4>2 DEF few
    <3> QED
      BY <3>1, <3>2
  <2>5. /\ pc'[r] = "delete" /\ req'[r] = h /\ DOMAIN pc' = Request /\ DOMAIN req' = Request
        /\ \A q \in Request : q # r => pc'[q] = pc[q] /\ req'[q] = req[q]
        /\ Existing' = Existing /\ Former' = Former /\ ActiveAdmins' = ActiveAdmins
    BY <1>1, <2>1 DEF Existing, Former, Active, Ours, Callers, ActiveAdmins
  <2>6. ShapeOK'
    <3>1. HoldsOK(r)'
      BY <2>3, <2>5 DEF HoldsOK
    <3> QED
      BY <1>1, <2>5, <3>1, ShapeStays DEF IAccounts, ShapeOK
  <2>7. TokensOK'
    BY <1>1, <2>5, TokensStay DEF IAccounts
  <2>8. CountsOK'
    BY <1>1, <2>5, CountsStay DEF IAccounts, ShapeOK
  <2>9. AdminsOK'
    <3>1. LastAdminExplained'
      BY <1>1, <2>5 DEF IAccounts, AdminsOK, LastAdminExplained
    <3>2. \A q \in Request : pc'[q] = "delete" /\ req'[q].admin =>
              \E x \in req'[q].counted : x # req'[q].user
      BY <1>1, <2>3, <2>4, <2>5 DEF IAccounts, AdminsOK
    <3> QED
      BY <3>1, <3>2 DEF AdminsOK
  <2> QED
    BY <2>6, <2>7, <2>8, <2>9 DEF IAccounts
<1> QED
  BY <1>2, <1>3

\* The last admin goes only by a deletion that counted another, who had gone.
LEMMA DeleteUserKeeps ==
  ASSUME IAccounts, NEW r \in Request, DeleteUser(r)
  PROVE  IAccounts'
<1> DEFINE u == req[r].user
           d == [user |-> u, counted |-> req[r].counted, present |-> ActiveAdmins,
                 promoted |-> users[u].admin /\ ~req[r].admin]
<1>1. /\ pc[r] = "delete" /\ DOMAIN pc = Request /\ DOMAIN req = Request
      /\ UNCHANGED <<lastToken, wrong, uses, disabled>> /\ lastToken \in Nat
      /\ users \in [Existing -> User]
  BY DEF DeleteUser, IAccounts, ShapeOK
<1>2. /\ raced' = raced /\ DOMAIN pc' = Request /\ DOMAIN req' = Request
      /\ \A q \in Request : q # r => pc'[q] = pc[q] /\ req'[q] = req[q]
      /\ \/ pc'[r] = "error" /\ UNCHANGED <<users, deletions>>
         \/ /\ pc'[r] = "ok" /\ u \in Existing
            /\ users' = [v \in Existing \ {u} |-> users[v]]
            /\ deletions' = deletions \cup {d}
  BY <1>1 DEF DeleteUser, Go
<1>3. /\ d.user = u /\ d.counted = req[r].counted /\ d.present = ActiveAdmins
      /\ d.promoted = (users[u].admin /\ ~req[r].admin)
  OBVIOUS
<1> HIDE DEF d
<1>4. CASE pc'[r] = "error" /\ UNCHANGED <<users, deletions>>
  BY <1>1, <1>2, <1>4, UsersKeep DEF accountVars
<1>5. CASE /\ pc'[r] = "ok" /\ u \in Existing
           /\ users' = [v \in Existing \ {u} |-> users[v]]
           /\ deletions' = deletions \cup {d}
  <2>1. Existing' = Existing \ {u} /\ \A v \in Existing' : users'[v] = users[v]
    BY <1>5 DEF Existing
  <2>2. Former' = Former \cup {u}
    BY <1>3, <1>5 DEF Former
  <2>3. ActiveAdmins' = ActiveAdmins \ {u}
    BY <2>1 DEF Active, Ours, Callers, ActiveAdmins
  <2>4. /\ users' \in [Existing' -> User] /\ Existing' \subseteq Account
        /\ Existing' \cap Former' = {}
    BY <1>1, <1>5, <2>1, <2>2 DEF IAccounts, ShapeOK
  <2>5. ShapeOK'
    <3>1. HoldsOK(r)'
      BY <1>5 DEF HoldsOK
    <3> QED
      BY <1>1, <1>2, <2>4, <3>1, ShapeStays DEF IAccounts, ShapeOK
  <2>6. TokensOK'
    BY <1>1, <1>2, <1>5, <2>1, TokensStay DEF IAccounts
  <2>7. CountsOK'
    BY <1>1, <1>2, <1>5, <2>1, <2>2, <2>4, CountsStay DEF IAccounts, ShapeOK
  <2>8. LastAdminExplained'
    <3> SUFFICES ASSUME ActiveAdmins' = {}
                 PROVE  \/ disabled
                        \/ \E x \in deletions' : /\ x.present = {x.user}
                                                 /\ x.promoted \/ ~(x.counted \subseteq x.present)
      BY <1>1 DEF LastAdminExplained
    <3>1. CASE ActiveAdmins = {}
      BY <1>5, <3>1 DEF IAccounts, AdminsOK, LastAdminExplained
    <3>2. CASE ActiveAdmins = {u}
      <4>1. users[u].admin
        BY <3>2 DEF ActiveAdmins
      <4>2. req[r].admin => \E x \in req[r].counted : x # u
        BY <1>1 DEF IAccounts, AdminsOK
      <4>3. d.present = {d.user} /\ (d.promoted \/ ~(d.counted \subseteq d.present))
        BY <1>3, <3>2, <4>1, <4>2
      <4> QED
        BY <1>5, <4>3
    <3> QED
      BY <2>3, <3>1, <3>2
  <2>9. \A q \in Request : pc'[q] = "delete" /\ req'[q].admin =>
            \E x \in req'[q].counted : x # req'[q].user
    BY <1>2, <1>5 DEF IAccounts, AdminsOK
  <2>10. AdminsOK'
    BY <2>8, <2>9 DEF AdminsOK
  <2> QED
    BY <2>5, <2>6, <2>7, <2>10 DEF IAccounts
<1> QED
  BY <1>2, <1>4, <1>5

\* A lock or a token runs out.
LEMMA ClockKeeps ==
  ASSUME IAccounts, AccountClock, UNCHANGED requestVars
  PROVE  IAccounts'
<1>1. /\ UNCHANGED <<pc, req, raced, lastToken, wrong, uses, deletions, disabled>>
      /\ users \in [Existing -> User] /\ DOMAIN pc = Request /\ DOMAIN req = Request
  BY DEF AccountClock, LockExpires, ResetExpires, NoHistory, requestVars, IAccounts, ShapeOK
<1>2. PICK u \in Existing, row \in User :
          /\ users' = [users EXCEPT ![u] = row] /\ row.reset = users[u].reset
          /\ row.attempts = users[u].attempts /\ ((row.lock = "no") <=> (users[u].lock = "no"))
          /\ row.admin = users[u].admin /\ row.active = users[u].active /\ row.here = users[u].here
  <2>1. CASE LockExpires
    <3>1. PICK u \in Existing : /\ users[u].lock = "locked"
                                /\ users' = [users EXCEPT ![u].lock = "over"]
      BY <2>1 DEF LockExpires
    <3> DEFINE row == [users[u] EXCEPT !.lock = "over"]
    <3>2. /\ row \in User /\ row.reset = users[u].reset /\ row.attempts = users[u].attempts
          /\ row.lock = "over" /\ row.admin = users[u].admin /\ row.active = users[u].active
          /\ row.here = users[u].here
      BY <1>1 DEF User, Lock
    <3>3. users' = [users EXCEPT ![u] = row]
      BY <3>1
    <3> HIDE DEF row
    <3> QED
      BY <3>1, <3>2, <3>3
  <2>2. CASE ResetExpires
    <3>1. PICK u \in Existing : users' = [users EXCEPT ![u].resetLive = FALSE]
      BY <2>2 DEF ResetExpires
    <3> DEFINE row == [users[u] EXCEPT !.resetLive = FALSE]
    <3>2. /\ row \in User /\ row.reset = users[u].reset /\ row.attempts = users[u].attempts
          /\ row.lock = users[u].lock /\ row.admin = users[u].admin
          /\ row.active = users[u].active /\ row.here = users[u].here
      BY <1>1 DEF User
    <3>3. users' = [users EXCEPT ![u] = row]
      BY <3>1
    <3> HIDE DEF row
    <3> QED
      BY <3>2, <3>3
  <2> QED
    BY <2>1, <2>2 DEF AccountClock
<1>3. /\ DOMAIN users' = Existing /\ users'[u] = row /\ users' \in [Existing -> User]
      /\ \A v \in Existing : v # u => users'[v] = users[v]
  BY <1>1, <1>2
<1>4. ActiveAdmins' = ActiveAdmins
  BY <1>2, <1>3 DEF ActiveAdmins, Active, Ours, Callers, Existing
<1> QED
  BY <1>1, <1>2, <1>3, <1>4, StoreKeeps

LEMMA AccountsStepKeeps ==
  IAccounts /\ [AccountsNext]_<<requestVars, accountVars>> => IAccounts'
<1> SUFFICES ASSUME IAccounts, [AccountsNext]_<<requestVars, accountVars>> PROVE IAccounts'
  OBVIOUS
<1>1. ASSUME NEW r \in Request, AuthStep(r) PROVE IAccounts'
  BY <1>1, FindLoginKeeps, EndLoginKeeps, FindForgetfulKeeps, FindResetKeeps, ResetKeeps,
     OtherFindsKeep, OtherStoresKeep DEF AuthStep
<1>2. ASSUME NEW r \in Request, UsersStep(r) PROVE IAccounts'
  BY <1>2, InsertUserKeeps, FindToDeleteKeeps, CountAdminsKeeps, DeleteUserKeeps,
     OtherFindsKeep, OtherStoresKeep DEF UsersStep
<1>3. ASSUME NEW r \in Request, Fail(r), UNCHANGED accountVars PROVE IAccounts'
  <2>1. /\ DOMAIN pc' = Request /\ DOMAIN req' = Request /\ raced' = raced
        /\ \A q \in Request : \/ pc'[q] \in Answered \cup {"new"}
                              \/ pc'[q] = pc[q] /\ req'[q] = req[q]
    BY <1>3 DEF Fail, IAccounts, ShapeOK
  <2> QED
    BY <1>3, <2>1, UsersKeep
<1>4. CASE Halt /\ UNCHANGED accountVars
  <2>1. /\ DOMAIN pc' = Request /\ DOMAIN req' = Request /\ raced' = raced
        /\ \A q \in Request : \/ pc'[q] \in Answered \cup {"new"}
                              \/ pc'[q] = pc[q] /\ req'[q] = req[q]
    BY <1>4 DEF Halt, Busy
  <2> QED
    BY <1>4, <2>1, UsersKeep
<1>5. CASE AccountClock /\ UNCHANGED requestVars
  BY <1>5, ClockKeeps
<1>6. CASE UNCHANGED <<requestVars, accountVars>>
  BY <1>6, UsersKeep DEF requestVars, accountVars, IAccounts, ShapeOK
<1> QED
  BY <1>1, <1>2, <1>3, <1>4, <1>5, <1>6 DEF AccountsNext
-----------------------------------------------------------------------------
\* At all times the failed attempts of a user are those since the last right password,
\* and the lock goes by them, unless two logins of the user were checked at a time
\* (AuthService.login).
THEOREM WrongPasswordsAreCounted == AccountsSpec => []WrongPasswordsCount
<1>1. RequestInit /\ AccountsInit(Admins) => IAccounts
  BY AccountsInitial
<1>2. IAccounts /\ [AccountsNext]_<<requestVars, accountVars>> => IAccounts'
  BY AccountsStepKeeps
<1>3. IAccounts => WrongPasswordsCount
  BY AccountsImply
<1> QED
  BY <1>1, <1>2, <1>3, PTL DEF AccountsSpec

\* At all times whoever used a reset token had found it unused (AuthService.resetPassword).
THEOREM TokensAreUsedOnce == AccountsSpec => []TokenReuseNeedsOverlap
<1>1. RequestInit /\ AccountsInit(Admins) => IAccounts
  BY AccountsInitial
<1>2. IAccounts /\ [AccountsNext]_<<requestVars, accountVars>> => IAccounts'
  BY AccountsStepKeeps
<1>3. IAccounts => TokenReuseNeedsOverlap
  BY AccountsImply
<1> QED
  BY <1>1, <1>2, <1>3, PTL DEF AccountsSpec

\* At all times there is an active admin, unless the last one was disabled or moved away,
\* was made one after a deletion had looked him up, or was deleted by a request that had
\* counted another who was gone by then (UsersService.remove, update, toggleActive,
\* BusinessService.create).
THEOREM LastAdminStays == AccountsSpec => []LastAdminExplained
<1>1. RequestInit /\ AccountsInit(Admins) => IAccounts
  BY AccountsInitial
<1>2. IAccounts /\ [AccountsNext]_<<requestVars, accountVars>> => IAccounts'
  BY AccountsStepKeeps
<1>3. IAccounts => LastAdminExplained
  BY AccountsImply
<1> QED
  BY <1>1, <1>2, <1>3, PTL DEF AccountsSpec
-----------------------------------------------------------------------------
(***************************************************************************)
(* The cash registers of a shop, for any number of cashiers, requests and  *)
(* refused statements: OneOpenSession and ClosingReconciles.               *)
(*                                                                         *)
(* Both say that two rivals were under way together wherever something is  *)
(* amiss. The invariant says so earlier: as soon as both are under way,    *)
(* and as soon as one of them has done what the other's check ruled out.   *)
(***************************************************************************)
\* The amounts a closing may find.
Expected == {Balance(o, ms) : o \in Money, ms \in Seq(Movement)}
Row == [user : Cashier, open : BOOLEAN, opening : Money, moves : Seq(Movement),
        closings : Seq([counted : Money, expected : Expected])]

OpenRequest == [on : {Drawer(u) : u \in Cashier}, kind : {"open"},
                user : Cashier, amount : Money]
MoveRequest == [on : {Till(i) : i \in Nat}, kind : {"move"}, id : Nat, move : Movement]
CloseRequest == [on : {Till(i) : i \in Nat}, kind : {"close"}, id : Nat, counted : Money,
                 expected : Expected]

Starting(r) == pc[r] = "createSession"
Moving(r) == pc[r] = "insertMovement"
Shutting(r) == pc[r] = "closeSession"

\* What a request holds, and which session it is about.
HeldOK ==
    /\ pc \in [Request -> Answered \cup {"new", "createSession", "insertMovement", "closeSession"}]
    /\ DOMAIN req = Request
    /\ \A r \in Request :
          /\ Starting(r) => req[r] \in OpenRequest /\ req[r].on = Drawer(req[r].user)
          /\ Moving(r) => /\ req[r] \in MoveRequest /\ req[r].on = Till(req[r].id)
                          /\ req[r].id \in Sessions
          /\ Shutting(r) => /\ req[r] \in CloseRequest /\ req[r].on = Till(req[r].id)
                            /\ req[r].id \in Sessions

\* The rivals that were under way together.
TwiceOpened == {u \in Cashier : Together(Drawer(u), "open", "open")}
TwiceClosed == {i \in Nat : Together(Till(i), "close", "close")}
MovedMeanwhile == {i \in Nat : Together(Till(i), "close", "move")}

\* Two openings by a cashier, or an opening beside an open session.
OpeningsOK ==
    \A r \in Request : Starting(r) =>
        /\ \A q \in Request : Starting(q) /\ req[q].user = req[r].user =>
               q = r \/ req[r].user \in TwiceOpened
        /\ \A i \in Sessions : registers[i].open /\ registers[i].user = req[r].user =>
               req[r].user \in TwiceOpened

\* A movement beside a closing, or in a closed session.
MovesOK ==
    \A r \in Request : Moving(r) =>
        /\ \A q \in Request : Shutting(q) /\ req[q].id = req[r].id => req[r].id \in MovedMeanwhile
        /\ registers[req[r].id].open \/ req[r].id \in MovedMeanwhile

\* A closing beside another, of a closed session, or with a balance that is not up to date.
ClosingsOK ==
    \A r \in Request : Shutting(r) =>
        /\ \A q \in Request : Shutting(q) /\ req[q].id = req[r].id =>
               q = r \/ req[r].id \in TwiceClosed
        /\ registers[req[r].id].open \/ req[r].id \in TwiceClosed
        /\ \/ req[r].expected = Balance(registers[req[r].id].opening, registers[req[r].id].moves)
           \/ req[r].id \in MovedMeanwhile

\* The sessions there are: one open each, none closed that is open, and balances.
SessionsOK ==
    \A i \in Sessions :
        /\ registers[i].open =>
              /\ registers[i].closings = <<>>
              /\ \A j \in Sessions : registers[j].open /\ registers[j].user = registers[i].user =>
                    j = i \/ registers[i].user \in TwiceOpened
        /\ \/ registers[i].open \/ i \in TwiceClosed \/ i \in MovedMeanwhile
           \/ /\ Len(registers[i].closings) = 1
              /\ registers[i].closings[1].expected
                     = Balance(registers[i].opening, registers[i].moves)

ICash ==
    /\ registers \in Seq(Row)
    /\ HeldOK /\ OpeningsOK /\ MovesOK /\ ClosingsOK /\ SessionsOK
-----------------------------------------------------------------------------
\* What was under way together stays so.
LEMMA RacedGrows ==
  ASSUME raced \subseteq raced'
  PROVE  /\ TwiceOpened \subseteq TwiceOpened'
         /\ TwiceClosed \subseteq TwiceClosed'
         /\ MovedMeanwhile \subseteq MovedMeanwhile'
BY DEF TwiceOpened, TwiceClosed, MovedMeanwhile, Together, Drawer, Till

\* The invariant says what was asked for.
LEMMA CashImplies == ICash => OneOpenSession /\ ClosingReconciles
<1> SUFFICES ASSUME ICash PROVE OneOpenSession /\ ClosingReconciles
  OBVIOUS
<1>1. OneOpenSession
  BY DEF ICash, SessionsOK, OneOpenSession, OpenSessions, TwiceOpened
<1>2. ClosingReconciles
  BY DEF ICash, SessionsOK, ClosingReconciles, OpenSessions, TwiceClosed, MovedMeanwhile
<1> QED
  BY <1>1, <1>2

\* An empty shop.
LEMMA CashInitial == RequestInit /\ CashInit => ICash
<1> SUFFICES ASSUME RequestInit, CashInit PROVE ICash
  OBVIOUS
<1>1. registers \in Seq(Row) /\ Sessions = {}
  BY DEF CashInit, Sessions
<1>2. HeldOK
  BY DEF RequestInit, HeldOK, Starting, Moving, Shutting
<1>3. OpeningsOK /\ MovesOK /\ ClosingsOK
  BY DEF RequestInit, OpeningsOK, MovesOK, ClosingsOK, Starting, Moving, Shutting
<1>4. SessionsOK
  BY <1>1 DEF SessionsOK
<1> QED
  BY <1>1, <1>2, <1>3, <1>4 DEF ICash

\* A request begins: what it passed by has been looked at, and the sessions stay.
LEMMA OpenKeeps ==
  ASSUME ICash, NEW r \in Request, FindNoSession(r)
  PROVE  ICash'
<1>1. PICK u \in Cashier, m \in Money :
         /\ \A i \in OpenSessions : registers[i].user # u
         /\ Begin(r, "createSession", [on |-> Drawer(u), kind |-> "open", user |-> u, amount |-> m],
                  CashRivals)
         /\ UNCHANGED registers
  BY DEF FindNoSession
<1> DEFINE h == [on |-> Drawer(u), kind |-> "open", user |-> u, amount |-> m]
<1>2. /\ h.on = Drawer(u) /\ h.kind = "open" /\ h.user = u /\ h \in OpenRequest
      /\ Begin(r, "createSession", h, CashRivals)
  BY <1>1 DEF OpenRequest
<1> HIDE DEF h
<1>3. /\ pc[r] = "new" /\ pc' = [pc EXCEPT ![r] = "createSession"]
      /\ req' = [req EXCEPT ![r] = h]
      /\ raced \subseteq raced'
  BY <1>2 DEF Begin, Start
<1>4. /\ TwiceOpened \subseteq TwiceOpened' /\ TwiceClosed \subseteq TwiceClosed'
      /\ MovedMeanwhile \subseteq MovedMeanwhile'
  BY <1>3, RacedGrows
<1>5. /\ req'[r] = h /\ Starting(r)' /\ ~Moving(r)' /\ ~Shutting(r)'
      /\ \A q \in Request \ {r} : /\ req'[q] = req[q]
                                  /\ Starting(q)' <=> Starting(q)
                                  /\ Moving(q)' <=> Moving(q)
                                  /\ Shutting(q)' <=> Shutting(q)
  BY <1>3 DEF ICash, HeldOK, Starting, Moving, Shutting
<1>6. Sessions' = Sessions /\ registers' = registers
  BY <1>1 DEF Sessions
<1>7. HeldOK'
  BY <1>2, <1>3, <1>5, <1>6 DEF ICash, HeldOK
<1>8. \A q \in Request : Starting(q) /\ req[q].user = u => u \in TwiceOpened'
  <2> SUFFICES ASSUME NEW q \in Request, Starting(q), req[q].user = u
               PROVE  u \in TwiceOpened'
    OBVIOUS
  <2>1. req[q].on = h.on /\ req[q].kind = "open" /\ "on" \in DOMAIN req[q] /\ Busy(q)
    BY <1>2 DEF ICash, HeldOK, Starting, OpenRequest, Busy
  <2>2. {"open", "open"} \in CashRivals
    BY DEF CashRivals
  <2>3. Together(h.on, "open", "open")'
    BY <1>2, <2>1, <2>2, BeginRaces
  <2> QED
    BY <1>2, <2>3 DEF TwiceOpened, Drawer, Together
<1>9. \A i \in Sessions : registers[i].open => registers[i].user # u
  BY <1>1 DEF OpenSessions
<1>10. OpeningsOK'
  BY <1>2, <1>4, <1>5, <1>6, <1>8, <1>9 DEF ICash, OpeningsOK
<1>11. MovesOK' /\ ClosingsOK' /\ SessionsOK'
  BY <1>4, <1>5, <1>6 DEF ICash, MovesOK, ClosingsOK, SessionsOK
<1> QED
  BY <1>6, <1>7, <1>10, <1>11 DEF ICash

LEMMA MoveKeeps ==
  ASSUME ICash, NEW r \in Request, FindOpen(r)
  PROVE  ICash'
<1>1. PICK i \in OpenSessions, m \in Movement :
         /\ Begin(r, "insertMovement", [on |-> Till(i), kind |-> "move", id |-> i, move |-> m],
                  CashRivals)
         /\ UNCHANGED registers
  BY DEF FindOpen
<1> DEFINE h == [on |-> Till(i), kind |-> "move", id |-> i, move |-> m]
<1>2. i \in Sessions /\ i \in Nat /\ registers[i].open
  BY DEF ICash, OpenSessions, Sessions
<1>3. /\ h.on = Till(i) /\ h.kind = "move" /\ h.id = i /\ h \in MoveRequest
      /\ Begin(r, "insertMovement", h, CashRivals)
  BY <1>1, <1>2 DEF MoveRequest
<1> HIDE DEF h
<1>4. /\ pc[r] = "new" /\ pc' = [pc EXCEPT ![r] = "insertMovement"]
      /\ req' = [req EXCEPT ![r] = h]
      /\ raced \subseteq raced'
  BY <1>3 DEF Begin, Start
<1>5. /\ TwiceOpened \subseteq TwiceOpened' /\ TwiceClosed \subseteq TwiceClosed'
      /\ MovedMeanwhile \subseteq MovedMeanwhile'
  BY <1>4, RacedGrows
<1>6. /\ req'[r] = h /\ Moving(r)' /\ ~Starting(r)' /\ ~Shutting(r)'
      /\ \A q \in Request \ {r} : /\ req'[q] = req[q]
                                  /\ Starting(q)' <=> Starting(q)
                                  /\ Moving(q)' <=> Moving(q)
                                  /\ Shutting(q)' <=> Shutting(q)
  BY <1>4 DEF ICash, HeldOK, Starting, Moving, Shutting
<1>7. Sessions' = Sessions /\ registers' = registers
  BY <1>1 DEF Sessions
<1>8. HeldOK'
  BY <1>2, <1>3, <1>4, <1>6, <1>7 DEF ICash, HeldOK
<1>9. \A q \in Request : Shutting(q) /\ req[q].id = i => i \in MovedMeanwhile'
  <2> SUFFICES ASSUME NEW q \in Request, Shutting(q), req[q].id = i
               PROVE  i \in MovedMeanwhile'
    OBVIOUS
  <2>1. req[q].on = h.on /\ req[q].kind = "close" /\ "on" \in DOMAIN req[q] /\ Busy(q)
    BY <1>3 DEF ICash, HeldOK, Shutting, CloseRequest, Busy
  <2>2. {"move", "close"} \in CashRivals /\ {"move", "close"} = {"close", "move"}
    BY DEF CashRivals
  <2>3. Together(h.on, "move", "close")'
    BY <1>3, <2>1, <2>2, BeginRaces
  <2> QED
    BY <1>2, <1>3, <2>2, <2>3 DEF MovedMeanwhile, Till, Together
<1>10. MovesOK'
  BY <1>2, <1>3, <1>5, <1>6, <1>7, <1>9 DEF ICash, MovesOK
<1>11. OpeningsOK' /\ ClosingsOK' /\ SessionsOK'
  BY <1>5, <1>6, <1>7 DEF ICash, OpeningsOK, ClosingsOK, SessionsOK
<1> QED
  BY <1>7, <1>8, <1>10, <1>11 DEF ICash

LEMMA CloseKeeps ==
  ASSUME ICash, NEW r \in Request, FindToClose(r)
  PROVE  ICash'
<1>1. PICK i \in OpenSessions, m \in Money :
         /\ Begin(r, "closeSession",
                  [on |-> Till(i), kind |-> "close", id |-> i, counted |-> m,
                   expected |-> Balance(registers[i].opening, registers[i].moves)], CashRivals)
         /\ UNCHANGED registers
  BY DEF FindToClose
<1>2. PICK e : e = Balance(registers[i].opening, registers[i].moves)
  OBVIOUS
<1> DEFINE h == [on |-> Till(i), kind |-> "close", id |-> i, counted |-> m, expected |-> e]
<1>3. i \in Sessions /\ i \in Nat /\ registers[i].open /\ registers[i] \in Row
  BY DEF ICash, OpenSessions, Sessions
<1>4. e \in Expected
  BY <1>2, <1>3 DEF Expected, Row
<1>5. /\ h.on = Till(i) /\ h.kind = "close" /\ h.id = i /\ h.expected = e /\ h \in CloseRequest
      /\ Begin(r, "closeSession", h, CashRivals)
  BY <1>1, <1>2, <1>3, <1>4 DEF CloseRequest
<1> HIDE DEF h
<1>6. /\ pc[r] = "new" /\ pc' = [pc EXCEPT ![r] = "closeSession"]
      /\ req' = [req EXCEPT ![r] = h]
      /\ raced \subseteq raced'
  BY <1>5 DEF Begin, Start
<1>7. /\ TwiceOpened \subseteq TwiceOpened' /\ TwiceClosed \subseteq TwiceClosed'
      /\ MovedMeanwhile \subseteq MovedMeanwhile'
  BY <1>6, RacedGrows
<1>8. /\ req'[r] = h /\ Shutting(r)' /\ ~Starting(r)' /\ ~Moving(r)'
      /\ \A q \in Request \ {r} : /\ req'[q] = req[q]
                                  /\ Starting(q)' <=> Starting(q)
                                  /\ Moving(q)' <=> Moving(q)
                                  /\ Shutting(q)' <=> Shutting(q)
  BY <1>6 DEF ICash, HeldOK, Starting, Moving, Shutting
<1>9. Sessions' = Sessions /\ registers' = registers
  BY <1>1 DEF Sessions
<1>10. HeldOK'
  BY <1>3, <1>5, <1>6, <1>8, <1>9 DEF ICash, HeldOK
<1>11. \A q \in Request : Shutting(q) /\ req[q].id = i => i \in TwiceClosed'
  <2> SUFFICES ASSUME NEW q \in Request, Shutting(q), req[q].id = i
               PROVE  i \in TwiceClosed'
    OBVIOUS
  <2>1. req[q].on = h.on /\ req[q].kind = "close" /\ "on" \in DOMAIN req[q] /\ Busy(q)
    BY <1>5 DEF ICash, HeldOK, Shutting, CloseRequest, Busy
  <2>2. {"close", "close"} \in CashRivals
    BY DEF CashRivals
  <2>3. Together(h.on, "close", "close")'
    BY <1>5, <2>1, <2>2, BeginRaces
  <2> QED
    BY <1>3, <1>5, <2>3 DEF TwiceClosed, Till, Together
<1>12. \A q \in Request : Moving(q) /\ req[q].id = i => i \in MovedMeanwhile'
  <2> SUFFICES ASSUME NEW q \in Request, Moving(q), req[q].id = i
               PROVE  i \in MovedMeanwhile'
    OBVIOUS
  <2>1. req[q].on = h.on /\ req[q].kind = "move" /\ "on" \in DOMAIN req[q] /\ Busy(q)
    BY <1>5 DEF ICash, HeldOK, Moving, MoveRequest, Busy
  <2>2. {"close", "move"} \in CashRivals
    BY DEF CashRivals
  <2>3. Together(h.on, "close", "move")'
    BY <1>5, <2>1, <2>2, BeginRaces
  <2> QED
    BY <1>3, <1>5, <2>3 DEF MovedMeanwhile, Till, Together
<1>13. MovesOK'
  BY <1>5, <1>7, <1>8, <1>9, <1>12 DEF ICash, MovesOK
<1>14. ClosingsOK'
  BY <1>2, <1>3, <1>5, <1>7, <1>8, <1>9, <1>11 DEF ICash, ClosingsOK
<1>15. OpeningsOK' /\ SessionsOK'
  BY <1>7, <1>8, <1>9 DEF ICash, OpeningsOK, SessionsOK
<1> QED
  BY <1>9, <1>10, <1>13, <1>14, <1>15 DEF ICash

\* A session is created: it is the newest, so no movement or closing is about it, and
\* whatever other opening its cashier has under way raced with it.
LEMMA SessionKeeps ==
  ASSUME ICash, NEW r \in Request, CreateSession(r)
  PROVE  ICash'
<1> DEFINE h == req[r]
           n == Len(registers) + 1
           row == [user |-> h.user, open |-> TRUE, opening |-> h.amount,
                   moves |-> <<>>, closings |-> <<>>]
<1>1. /\ Starting(r)
      /\ pc' = [pc EXCEPT ![r] = "ok"] /\ req' = [req EXCEPT ![r] = Nothing]
      /\ UNCHANGED raced
      /\ registers' = Append(registers, row)
  BY DEF CreateSession, Go, Starting
<1>2. row \in Row /\ row.user = h.user /\ row.closings = <<>> /\ row.open
  BY <1>1 DEF ICash, HeldOK, OpenRequest, Row
<1> HIDE DEF row
<1>3. /\ registers' \in Seq(Row) /\ Sessions' = Sessions \cup {n} /\ n \notin Sessions
      /\ \A i \in Sessions : registers'[i] = registers[i]
      /\ registers'[n] = row
  <2>1. registers \in Seq(Row)
    BY DEF ICash
  <2> QED
    BY <1>1, <1>2, <2>1 DEF Sessions
<1> HIDE DEF n
<1>4. \A q \in Request : /\ Starting(q)' => q # r /\ Starting(q) /\ req'[q] = req[q]
                         /\ Moving(q)' => Moving(q) /\ req'[q] = req[q]
                         /\ Shutting(q)' => Shutting(q) /\ req'[q] = req[q]
  BY <1>1 DEF ICash, HeldOK, Starting, Moving, Shutting
<1>5. HeldOK'
  <2>1. /\ pc' \in [Request -> Answered \cup
                 {"new", "createSession", "insertMovement", "closeSession"}]
        /\ DOMAIN req' = Request
    BY <1>1 DEF ICash, HeldOK
  <2> QED
    BY <1>3, <1>4, <2>1 DEF ICash, HeldOK
<1>6. TwiceOpened' = TwiceOpened /\ TwiceClosed' = TwiceClosed /\ MovedMeanwhile' = MovedMeanwhile
  BY <1>1 DEF TwiceOpened, TwiceClosed, MovedMeanwhile, Together
<1>7. OpeningsOK'
  <2> SUFFICES ASSUME NEW s \in Request, Starting(s)'
               PROVE  /\ \A q \in Request : Starting(q)' /\ req'[q].user = req'[s].user =>
                             q = s \/ req'[s].user \in TwiceOpened'
                      /\ \A i \in Sessions' :
                             registers'[i].open /\ registers'[i].user = req'[s].user =>
                                 req'[s].user \in TwiceOpened'
    BY DEF OpeningsOK
  <2>1. s # r /\ Starting(s) /\ req'[s] = req[s]
    BY <1>4
  <2>2. \A q \in Request : Starting(q) /\ req[q].user = req[s].user =>
            q = s \/ req[s].user \in TwiceOpened
    BY <2>1 DEF ICash, OpeningsOK
  <2>3. \A i \in Sessions : registers[i].open /\ registers[i].user = req[s].user =>
            req[s].user \in TwiceOpened
    BY <2>1 DEF ICash, OpeningsOK
  <2>4. row.user = req[s].user => req[s].user \in TwiceOpened
    BY <1>1, <1>2, <2>1, <2>2
  <2>5. \A i \in Sessions' : registers'[i].open /\ registers'[i].user = req'[s].user =>
            req'[s].user \in TwiceOpened'
    BY <1>3, <1>6, <2>1, <2>3, <2>4
  <2>6. \A q \in Request : Starting(q)' /\ req'[q].user = req'[s].user =>
            q = s \/ req'[s].user \in TwiceOpened'
    BY <1>4, <1>6, <2>1, <2>2
  <2> QED
    BY <2>5, <2>6
<1>8. \A q \in Request : Moving(q) \/ Shutting(q) => registers'[req[q].id] = registers[req[q].id]
  BY <1>3 DEF ICash, HeldOK
<1>9. MovesOK' /\ ClosingsOK'
  BY <1>4, <1>6, <1>8 DEF ICash, MovesOK, ClosingsOK
<1>10. SessionsOK'
  <2>1. \A i \in Sessions : registers[i].open /\ registers[i].user = h.user
     => h.user \in TwiceOpened
    BY <1>1 DEF ICash, OpeningsOK
  <2> QED
    BY <1>2, <1>3, <1>6, <2>1 DEF ICash, SessionsOK
<1> QED
  BY <1>3, <1>5, <1>7, <1>9, <1>10 DEF ICash

\* A movement goes in: closings under way raced with it, and so did one that is done.
LEMMA InsertKeeps ==
  ASSUME ICash, NEW r \in Request, InsertMovement(r)
  PROVE  ICash'
<1> DEFINE h == req[r]
           i == h.id
           row == [registers[i] EXCEPT !.moves = Append(registers[i].moves, h.move)]
<1>1. /\ Moving(r)
      /\ pc' = [pc EXCEPT ![r] = "ok"] /\ req' = [req EXCEPT ![r] = Nothing]
      /\ UNCHANGED raced
      /\ registers' = [registers EXCEPT ![i] = row]
  BY DEF InsertMovement, Go, Moving
<1>2. /\ i \in Sessions /\ row \in Row
      /\ row.user = registers[i].user /\ row.open = registers[i].open
      /\ row.closings = registers[i].closings
  <2>1. i \in Sessions /\ h.move \in Movement /\ registers[i] \in Row
    BY <1>1 DEF ICash, HeldOK, MoveRequest, Sessions
  <2>2. Append(registers[i].moves, h.move) \in Seq(Movement)
    BY <2>1 DEF Row
  <2> QED
    BY <2>1, <2>2 DEF Row
<1> HIDE DEF row
<1>3. /\ registers' \in Seq(Row) /\ Sessions' = Sessions
      /\ \A k \in Sessions : k # i => registers'[k] = registers[k]
      /\ registers'[i] = row
  <2>1. registers \in Seq(Row)
    BY DEF ICash
  <2> QED
    BY <1>1, <1>2, <2>1 DEF Sessions
<1>4. \A q \in Request : /\ Starting(q)' => Starting(q) /\ req'[q] = req[q]
                         /\ Moving(q)' => q # r /\ Moving(q) /\ req'[q] = req[q]
                         /\ Shutting(q)' => Shutting(q) /\ req'[q] = req[q]
  BY <1>1 DEF ICash, HeldOK, Starting, Moving, Shutting
<1>5. HeldOK'
  <2>1. /\ pc' \in [Request -> Answered \cup
                 {"new", "createSession", "insertMovement", "closeSession"}]
        /\ DOMAIN req' = Request
    BY <1>1 DEF ICash, HeldOK
  <2> QED
    BY <1>3, <1>4, <2>1 DEF ICash, HeldOK
<1>6. TwiceOpened' = TwiceOpened /\ TwiceClosed' = TwiceClosed /\ MovedMeanwhile' = MovedMeanwhile
  BY <1>1 DEF TwiceOpened, TwiceClosed, MovedMeanwhile, Together
<1>7. OpeningsOK'
  BY <1>2, <1>3, <1>4, <1>6 DEF ICash, OpeningsOK
<1>8. MovesOK'
  BY <1>2, <1>3, <1>4, <1>6 DEF ICash, HeldOK, MovesOK
<1>9. ClosingsOK'
  <2>1. \A q \in Request : Shutting(q) /\ req[q].id = i => i \in MovedMeanwhile
    BY <1>1 DEF ICash, MovesOK
  <2> QED
    BY <1>2, <1>3, <1>4, <1>6, <2>1 DEF ICash, HeldOK, ClosingsOK
<1>10. SessionsOK'
  <2>1. registers[i].open \/ i \in MovedMeanwhile
    BY <1>1 DEF ICash, MovesOK
  <2> QED
    BY <1>2, <1>3, <1>6, <2>1 DEF ICash, SessionsOK
<1> QED
  BY <1>3, <1>5, <1>7, <1>8, <1>9, <1>10 DEF ICash

\* A session is closed, for the first time unless two closings raced, and with a balance
\* that is up to date unless a movement did.
LEMMA ShutKeeps ==
  ASSUME ICash, NEW r \in Request, CloseSession(r)
  PROVE  ICash'
<1> DEFINE h == req[r]
           i == h.id
           closing == [counted |-> h.counted, expected |-> h.expected]
           row == [registers[i] EXCEPT !.open = FALSE,
                                       !.closings = Append(registers[i].closings, closing)]
<1>1. /\ Shutting(r)
      /\ pc' = [pc EXCEPT ![r] = "ok"] /\ req' = [req EXCEPT ![r] = Nothing]
      /\ UNCHANGED raced
      /\ registers' = [registers EXCEPT ![i] = row]
  BY DEF CloseSession, Go, Shutting
<1>2. /\ i \in Sessions /\ row \in Row /\ ~row.open
      /\ row.user = registers[i].user
      /\ row.opening = registers[i].opening /\ row.moves = registers[i].moves
      /\ registers[i].closings = <<>> =>
            Len(row.closings) = 1 /\ row.closings[1].expected = h.expected
  <2>1. i \in Sessions /\ closing \in [counted : Money, expected : Expected] /\ registers[i] \in Row
        /\ closing.expected = h.expected
    BY <1>1 DEF ICash, HeldOK, CloseRequest, Sessions
  <2> HIDE DEF closing
  <2>2. Append(registers[i].closings, closing) \in Seq([counted : Money, expected : Expected])
    BY <2>1 DEF Row
  <2>3. /\ row.closings = Append(registers[i].closings, closing)
        /\ row \in Row /\ ~row.open
        /\ row.user = registers[i].user
        /\ row.opening = registers[i].opening /\ row.moves = registers[i].moves
    BY <2>1, <2>2 DEF Row
  <2> QED
    BY <2>1, <2>3
<1> HIDE DEF row
<1>3. /\ registers' \in Seq(Row) /\ Sessions' = Sessions
      /\ \A k \in Sessions : k # i => registers'[k] = registers[k]
      /\ registers'[i] = row
  <2>1. registers \in Seq(Row)
    BY DEF ICash
  <2> QED
    BY <1>1, <1>2, <2>1 DEF Sessions
<1>4. \A q \in Request : /\ Starting(q)' => Starting(q) /\ req'[q] = req[q]
                         /\ Moving(q)' => Moving(q) /\ req'[q] = req[q]
                         /\ Shutting(q)' => q # r /\ Shutting(q) /\ req'[q] = req[q]
  BY <1>1 DEF ICash, HeldOK, Starting, Moving, Shutting
<1>5. HeldOK'
  <2>1. /\ pc' \in [Request -> Answered \cup
                 {"new", "createSession", "insertMovement", "closeSession"}]
        /\ DOMAIN req' = Request
    BY <1>1 DEF ICash, HeldOK
  <2> QED
    BY <1>3, <1>4, <2>1 DEF ICash, HeldOK
<1>6. TwiceOpened' = TwiceOpened /\ TwiceClosed' = TwiceClosed /\ MovedMeanwhile' = MovedMeanwhile
  BY <1>1 DEF TwiceOpened, TwiceClosed, MovedMeanwhile, Together
<1>7. OpeningsOK'
  BY <1>2, <1>3, <1>4, <1>6 DEF ICash, OpeningsOK
<1>8. MovesOK'
  <2>1. \A q \in Request : Moving(q) /\ req[q].id = i => i \in MovedMeanwhile
    BY <1>1 DEF ICash, MovesOK
  <2> QED
    BY <1>2, <1>3, <1>4, <1>6, <2>1 DEF ICash, HeldOK, MovesOK
<1>9. ClosingsOK'
  <2>1. \A q \in Request : q # r /\ Shutting(q) /\ req[q].id = i => i \in TwiceClosed
    BY <1>1 DEF ICash, ClosingsOK
  <2> QED
    BY <1>2, <1>3, <1>4, <1>6, <2>1 DEF ICash, HeldOK, ClosingsOK
<1>10. SessionsOK'
  <2>1. /\ registers[i].open \/ i \in TwiceClosed
        /\ h.expected = Balance(registers[i].opening, registers[i].moves) \/ i \in MovedMeanwhile
    BY <1>1 DEF ICash, ClosingsOK
  <2> QED
    BY <1>2, <1>3, <1>6, <2>1 DEF ICash, SessionsOK
<1> QED
  BY <1>3, <1>5, <1>7, <1>8, <1>9, <1>10 DEF ICash

\* Requests that end early leave nothing under way.
LEMMA ShopKeeps ==
  ASSUME ICash, UNCHANGED <<registers, raced>>, DOMAIN req' = Request,
         pc' \in [Request -> Answered \cup
                 {"new", "createSession", "insertMovement", "closeSession"}],
         \A q \in Request : pc'[q] \in Answered \cup {"new"} \/ (pc'[q] = pc[q] /\ req'[q] = req[q])
  PROVE  ICash'
<1>1. \A q \in Request : /\ Starting(q)' => Starting(q) /\ req'[q] = req[q]
                         /\ Moving(q)' => Moving(q) /\ req'[q] = req[q]
                         /\ Shutting(q)' => Shutting(q) /\ req'[q] = req[q]
  BY DEF Starting, Moving, Shutting
<1>2. Sessions' = Sessions
  BY DEF Sessions
<1>3. TwiceOpened' = TwiceOpened /\ TwiceClosed' = TwiceClosed /\ MovedMeanwhile' = MovedMeanwhile
  BY DEF TwiceOpened, TwiceClosed, MovedMeanwhile, Together
<1>4. HeldOK'
  BY <1>1, <1>2 DEF ICash, HeldOK
<1>5. OpeningsOK' /\ MovesOK' /\ ClosingsOK' /\ SessionsOK'
  BY <1>1, <1>2, <1>3 DEF ICash, OpeningsOK, MovesOK, ClosingsOK, SessionsOK
<1> QED
  BY <1>4, <1>5 DEF ICash

LEMMA CashStepKeeps == ICash /\ [CashNext]_<<requestVars, registers>> => ICash'
<1> SUFFICES ASSUME ICash, [CashNext]_<<requestVars, registers>> PROVE ICash'
  OBVIOUS
<1>1. ASSUME NEW r \in Request, CashStep(r) PROVE ICash'
  BY <1>1, OpenKeeps, SessionKeeps, MoveKeeps, InsertKeeps, CloseKeeps, ShutKeeps DEF CashStep
<1>2. ASSUME NEW r \in Request, Fail(r), UNCHANGED registers PROVE ICash'
  BY <1>2, ShopKeeps DEF ICash, HeldOK, Fail
<1>3. CASE Halt /\ UNCHANGED registers
  BY <1>3, ShopKeeps DEF ICash, HeldOK, Halt, Busy
<1>4. CASE UNCHANGED <<requestVars, registers>>
  BY <1>4, ShopKeeps DEF ICash, HeldOK, requestVars
<1> QED
  BY <1>1, <1>2, <1>3, <1>4 DEF CashNext
-----------------------------------------------------------------------------
\* At all times a cashier has one open session, unless the cashier opened two at a time
\* (CashRegisterService.openRegister).
THEOREM CashiersHaveOneSession == CashSpec => []OneOpenSession
<1>1. RequestInit /\ CashInit => ICash
  BY CashInitial
<1>2. ICash /\ [CashNext]_<<requestVars, registers>> => ICash'
  BY CashStepKeeps
<1>3. ICash => OneOpenSession
  BY CashImplies
<1> QED
  BY <1>1, <1>2, <1>3, PTL DEF CashSpec

\* At all times a closed session was closed once, with the amount its rows add up to,
\* unless another closing or a movement was under way with the closing (closeRegister,
\* addTransaction).
THEOREM ClosingsReconcile == CashSpec => []ClosingReconciles
<1>1. RequestInit /\ CashInit => ICash
  BY CashInitial
<1>2. ICash /\ [CashNext]_<<requestVars, registers>> => ICash'
  BY CashStepKeeps
<1>3. ICash => ClosingReconciles
  BY CashImplies
<1> QED
  BY <1>1, <1>2, <1>3, PTL DEF CashSpec
-----------------------------------------------------------------------------
(***************************************************************************)
(* BackupsExplained, however long the clock runs and however many backups  *)
(* are taken at a time, and HalvesExplained, for any number of             *)
(* adjustments, businesses, founders and requests.                         *)
(*                                                                         *)
(* What makes the first inductive is that no dump lasts until its file is  *)
(* old. What makes the second inductive is that an adjustment in the       *)
(* making is made by one request only, so that the total it writes is that *)
(* of the lines it wrote, and that businesses stay, whoever moves where.   *)
(***************************************************************************)
-----------------------------------------------------------------------------
(***************************************************************************)
(* Backups.                                                                *)
(***************************************************************************)
Dumping(r) == pc[r] = "dump"
Pruning(r) == pc[r] = "prune"

\* What requests hold: the file a dump goes to is there, and is not an old one.
RunningOK ==
    /\ DOMAIN pc = Request /\ DOMAIN req = Request
    /\ \A r \in Request : Busy(r) => Dumping(r) \/ Pruning(r)
    /\ \A r \in Request : Dumping(r) => req[r].file \in DOMAIN dumps \ old

\* No file of this second is old yet.
ClockOK == second \in Nat /\ old \subseteq 1..second - 1

\* A file is being written, or whole, or what became of it is known.
FilesOK ==
    \A f \in DOMAIN dumps :
        /\ \/ f \in broken \cup shared
           \/ \E r \in Request : Dumping(r) /\ req[r].file = f
           \/ dumps[f] = "whole"
        /\ dumps[f] \in {"part", "whole"} \/ f \in shared

\* There is a whole backup, and one that is not old for whoever is about to delete.
BackupOK ==
    /\ hadOne /\ ~belied => Whole # {} \/ shared # {}
    /\ \A r \in Request : Pruning(r) /\ ~belied => Whole \ old # {} \/ shared # {}

IBackups == RunningOK /\ ClockOK /\ FilesOK /\ BackupOK
-----------------------------------------------------------------------------
LEMMA BackupsImply == IBackups => BackupsExplained
BY DEF IBackups, FilesOK, BackupOK, BackupsExplained, Writers, Dumping

LEMMA BackupsInitial == RequestInit /\ BackupsInit => IBackups
BY DEF RequestInit, BackupsInit, IBackups, RunningOK, ClockOK, FilesOK, BackupOK, Busy, Dumping,
       Pruning

\* A dump begins: the file of this second is written from the start, and shared if
\* there was one.
LEMMA BeginDumpKeeps ==
  ASSUME IBackups, NEW r \in Request, BeginDump(r)
  PROVE  IBackups'
<1>1. PICK kind \in {"nightly", "streamed"} : Arrive(r, "dump", [kind |-> kind, file |-> second])
  BY DEF BeginDump
<1> DEFINE h == [kind |-> kind, file |-> second]
           new == IF Writers(second) = {} THEN "part" ELSE "mixed"
<1>2. /\ pc[r] = "new" /\ pc' = [pc EXCEPT ![r] = "dump"] /\ req' = [req EXCEPT ![r] = h]
      /\ h.file = second
  BY <1>1 DEF Arrive, Start
<1>3. /\ dumps' = [f \in DOMAIN dumps \cup {second} |-> IF f = second THEN new ELSE dumps[f]]
      /\ shared' = IF second \in DOMAIN dumps THEN shared \cup {second} ELSE shared
      /\ UNCHANGED <<second, old, broken, belied, hadOne>>
  BY DEF BeginDump
<1>4. new = "part" \/ (new = "mixed" /\ second \in DOMAIN dumps)
  BY DEF Writers, IBackups, RunningOK, Dumping
<1> HIDE DEF h, new
<1>5. /\ DOMAIN dumps' = DOMAIN dumps \cup {second} /\ dumps'[second] = new
      /\ \A f \in DOMAIN dumps : f # second => dumps'[f] = dumps[f]
  BY <1>3
<1>6. /\ \A q \in Request : q # r => pc'[q] = pc[q] /\ req'[q] = req[q]
      /\ pc'[r] = "dump" /\ req'[r].file = second
      /\ DOMAIN pc' = Request /\ DOMAIN req' = Request
  BY <1>2 DEF IBackups, RunningOK
<1>7. second \notin old
  BY DEF IBackups, ClockOK
<1>8. RunningOK'
  BY <1>3, <1>5, <1>6, <1>7 DEF IBackups, RunningOK, Busy, Dumping, Pruning
<1>9. ClockOK'
  BY <1>3 DEF IBackups, ClockOK
<1>10. FilesOK'
  <2> SUFFICES ASSUME NEW f \in DOMAIN dumps'
               PROVE  /\ \/ f \in broken' \cup shared'
                         \/ \E q \in Request : Dumping(q)' /\ req'[q].file = f
                         \/ dumps'[f] = "whole"
                      /\ dumps'[f] \in {"part", "whole"} \/ f \in shared'
    BY DEF FilesOK
  <2>1. CASE f = second
    BY <1>3, <1>4, <1>5, <1>6, <2>1 DEF Dumping
  <2>2. CASE f # second
    BY <1>2, <1>3, <1>5, <1>6, <2>2 DEF IBackups, FilesOK, Dumping
  <2> QED
    BY <2>1, <2>2
<1>11. shared # {} => shared' # {}
  BY <1>3
<1>12. Whole \subseteq Whole' \/ shared' # {}
  BY <1>3, <1>5 DEF Whole
<1>13. BackupOK'
  BY <1>3, <1>6, <1>11, <1>12 DEF IBackups, BackupOK, Pruning
<1> QED
  BY <1>8, <1>9, <1>10, <1>13 DEF IBackups

\* A dump ends well: unless two shared the file it is whole now, and not old.
LEMMA EndDumpKeeps ==
  ASSUME IBackups, NEW r \in Request, EndDump(r)
  PROVE  IBackups'
<1> DEFINE f == req[r].file
           new == IF dumps[f] = "part" THEN "whole" ELSE dumps[f]
<1>1. /\ Dumping(r) /\ dumps' = [dumps EXCEPT ![f] = new]
      /\ UNCHANGED <<second, old, broken, shared>>
      /\ hadOne' = (hadOne \/ Whole' # {})
      /\ belied' = (belied \/ (req[r].kind = "nightly" /\ dumps'[f] # "whole"))
  BY DEF EndDump, Dumping
<1>2. f \in DOMAIN dumps /\ f \notin old
  BY <1>1 DEF IBackups, RunningOK
<1>3. /\ DOMAIN dumps' = DOMAIN dumps /\ dumps'[f] = new
      /\ \A g \in DOMAIN dumps : g # f => dumps'[g] = dumps[g]
  BY <1>1, <1>2
<1>4. new = "whole" \/ f \in shared
  BY <1>2 DEF IBackups, FilesOK
<1>5. dumps[f] = "whole" => new = "whole"
  OBVIOUS
<1> HIDE DEF f, new
<1>6. /\ \A q \in Request : q # r => pc'[q] = pc[q] /\ req'[q] = req[q]
      /\ pc'[r] \in {"prune", "ok"} /\ (pc'[r] = "prune" => req[r].kind = "nightly")
      /\ DOMAIN pc' = Request /\ DOMAIN req' = Request
  BY <1>1 DEF EndDump, Completed, Go, IBackups, RunningOK, Dumping
<1>7. RunningOK'
  BY <1>1, <1>3, <1>6 DEF IBackups, RunningOK, Busy, Dumping, Pruning
<1>8. ClockOK'
  BY <1>1 DEF IBackups, ClockOK
<1>9. FilesOK'
  <2> SUFFICES ASSUME NEW g \in DOMAIN dumps'
               PROVE  /\ \/ g \in broken' \cup shared'
                         \/ \E q \in Request : Dumping(q)' /\ req'[q].file = g
                         \/ dumps'[g] = "whole"
                      /\ dumps'[g] \in {"part", "whole"} \/ g \in shared'
    BY DEF FilesOK
  <2>1. CASE g = f
    BY <1>1, <1>3, <1>4, <2>1
  <2>2. CASE g # f
    BY <1>1, <1>3, <1>6, <2>2 DEF f, IBackups, FilesOK, Dumping
  <2> QED
    BY <2>1, <2>2
<1>10. Whole \subseteq Whole' /\ (~belied' => ~belied)
  BY <1>1, <1>3, <1>5 DEF Whole
<1>11. Pruning(r)' /\ ~belied' => Whole' \ old' # {}
  BY <1>1, <1>2, <1>3, <1>6 DEF Whole, Pruning
<1>12. BackupOK'
  <2>1. hadOne' /\ ~belied' => Whole' # {} \/ shared' # {}
    BY <1>1, <1>10 DEF IBackups, BackupOK
  <2>2. \A q \in Request : Pruning(q)' /\ ~belied' => Whole' \ old' # {} \/ shared' # {}
    BY <1>1, <1>6, <1>10, <1>11 DEF IBackups, BackupOK, Pruning
  <2> QED
    BY <2>1, <2>2 DEF BackupOK
<1> QED
  BY <1>7, <1>8, <1>9, <1>12 DEF IBackups

\* A dump fails: its file is known to be broken, and a pruning that follows belied.
LEMMA FailDumpKeeps ==
  ASSUME IBackups, NEW r \in Request, FailDump(r)
  PROVE  IBackups'
<1>1. PICK next \in {"error", "prune", "ok"} :
          /\ pc' = [pc EXCEPT ![r] = next]
          /\ req' = [req EXCEPT ![r] = IF next = "prune" THEN req[r] ELSE Nothing]
          /\ belied' = (belied \/ next = "prune")
  BY DEF FailDump
<1>2. /\ Dumping(r) /\ broken' = broken \cup {req[r].file}
      /\ UNCHANGED <<second, dumps, old, shared, hadOne>>
  BY DEF FailDump, Dumping
<1>3. /\ \A q \in Request : q # r => pc'[q] = pc[q] /\ req'[q] = req[q]
      /\ pc'[r] \in {"error", "prune", "ok"} /\ (pc'[r] = "prune" => belied')
      /\ DOMAIN pc' = Request /\ DOMAIN req' = Request
  BY <1>1 DEF IBackups, RunningOK
<1>4. RunningOK' /\ ClockOK'
  BY <1>2, <1>3 DEF IBackups, RunningOK, ClockOK, Busy, Dumping, Pruning
<1>5. FilesOK'
  BY <1>2, <1>3 DEF IBackups, FilesOK, Dumping
<1>6. Whole' = Whole /\ (~belied' => ~belied)
  BY <1>1, <1>2 DEF Whole
<1>7. BackupOK'
  BY <1>2, <1>3, <1>6 DEF IBackups, BackupOK, Pruning
<1> QED
  BY <1>4, <1>5, <1>7 DEF IBackups

\* Old files go, and no dump's is one of them.
LEMMA PruneKeeps ==
  ASSUME IBackups, NEW r \in Request, Prune(r)
  PROVE  IBackups'
<1>1. /\ Pruning(r) /\ dumps' = [f \in DOMAIN dumps \ old |-> dumps[f]]
      /\ UNCHANGED <<second, old, broken, shared, belied, hadOne>>
  BY DEF Prune, Pruning
<1>2. /\ \A q \in Request : q # r => pc'[q] = pc[q] /\ req'[q] = req[q]
      /\ pc'[r] = "ok" /\ DOMAIN pc' = Request /\ DOMAIN req' = Request
  BY DEF Prune, Go, IBackups, RunningOK
<1>3. RunningOK' /\ ClockOK'
  BY <1>1, <1>2 DEF IBackups, RunningOK, ClockOK, Busy, Dumping, Pruning
<1>4. FilesOK'
  BY <1>1, <1>2 DEF IBackups, FilesOK, Dumping, Pruning
<1>5. Whole' = Whole \ old
  BY <1>1 DEF Whole
<1>6. BackupOK'
  BY <1>1, <1>2, <1>5 DEF IBackups, BackupOK, Pruning
<1> QED
  BY <1>3, <1>4, <1>6 DEF IBackups

\* Time passes; only when no dump is being written does a fortnight go by.
LEMMA TimeKeeps == IBackups /\ (SecondPasses \/ FortnightPasses) => IBackups'
<1> SUFFICES ASSUME IBackups, SecondPasses \/ FortnightPasses PROVE IBackups'
  OBVIOUS
<1>1. UNCHANGED <<pc, req, dumps, broken, shared, belied, hadOne>> /\ Whole' = Whole
  BY DEF SecondPasses, FortnightPasses, requestVars, Whole
<1>2. FilesOK'
  BY <1>1 DEF IBackups, FilesOK, Dumping
<1>3. CASE SecondPasses
  BY <1>1, <1>2, <1>3
     DEF SecondPasses, IBackups, RunningOK, ClockOK, BackupOK, Busy, Dumping, Pruning
<1>4. CASE FortnightPasses
  BY <1>1, <1>2, <1>4
     DEF FortnightPasses, IBackups, RunningOK, ClockOK, BackupOK, Busy, Dumping, Pruning
<1> QED
  BY <1>3, <1>4

LEMMA BackupsStepKeeps == IBackups /\ [BackupsNext]_<<requestVars, backupVars>> => IBackups'
<1> SUFFICES ASSUME IBackups, [BackupsNext]_<<requestVars, backupVars>> PROVE IBackups'
  OBVIOUS
<1>1. ASSUME NEW r \in Request, BeginDump(r) \/ EndDump(r) \/ FailDump(r) \/ Prune(r)
      PROVE  IBackups'
  BY <1>1, BeginDumpKeeps, EndDumpKeeps, FailDumpKeeps, PruneKeeps
<1>2. CASE SecondPasses \/ FortnightPasses
  BY <1>2, TimeKeeps
<1>3. CASE /\ Halt
           /\ broken' = broken \cup {req[q].file : q \in {p \in Request : pc[p] = "dump"}}
           /\ UNCHANGED <<second, dumps, old, shared, belied, hadOne>>
  <2>1. /\ \A q \in Request : ~Dumping(q)' /\ ~Pruning(q)' /\ ~Busy(q)'
        /\ DOMAIN pc' = Request /\ DOMAIN req' = Request /\ Whole' = Whole
    BY <1>3 DEF Halt, Busy, Dumping, Pruning, Whole
  <2>2. FilesOK'
    BY <1>3, <2>1 DEF IBackups, FilesOK, Dumping
  <2>3. RunningOK' /\ ClockOK' /\ BackupOK'
    BY <1>3, <2>1 DEF IBackups, RunningOK, ClockOK, BackupOK
  <2> QED
    BY <2>2, <2>3 DEF IBackups
<1>4. CASE UNCHANGED <<requestVars, backupVars>>
  BY <1>4 DEF IBackups, RunningOK, ClockOK, FilesOK, BackupOK, requestVars, backupVars, Busy,
              Dumping, Pruning, Whole
<1> QED
  BY <1>1, <1>2, <1>3, <1>4 DEF BackupsNext
-----------------------------------------------------------------------------
\* At all times a listed backup that is not being written is whole, unless its dump is
\* known to have failed or to have shared its second; and deleting old backups leaves a
\* whole one, unless a nightly backup was held complete that was not (BackupService).
THEOREM BackupsAreExplained == BackupsSpec => []BackupsExplained
<1>1. RequestInit /\ BackupsInit => IBackups
  BY BackupsInitial
<1>2. IBackups /\ [BackupsNext]_<<requestVars, backupVars>> => IBackups'
  BY BackupsStepKeeps
<1>3. IBackups => BackupsExplained
  BY BackupsImply
<1> QED
  BY <1>1, <1>2, <1>3, PTL DEF BackupsSpec
-----------------------------------------------------------------------------
(***************************************************************************)
(* What is made in several statements.                                     *)
(***************************************************************************)
Adding(r) == pc[r] \in {"addLines", "addUp"}
Settling(r) == pc[r] = "moveIn"
Other(r) == pc[r] \in {"updateAdjustment", "deleteAdjustment"}

\* What requests hold.
MakingOK ==
    /\ DOMAIN pc = Request /\ DOMAIN req = Request /\ DOMAIN place = Founder
    /\ \A a \in DOMAIN adjustments : adjustments[a] \in [lines : Lines, total : Lines]
    /\ \A r \in Request :
          /\ Busy(r) => Adding(r) \/ Settling(r) \/ Other(r)
          /\ Adding(r) => req[r].kind = "create" /\ req[r].lines \in Lines
          /\ Settling(r) => /\ req[r].kind = "found" /\ req[r].on \in Founder
                            /\ req[r].id \in DOMAIN founded
                            /\ founded[req[r].id] = req[r].on
          /\ Other(r) => req[r].kind = "other"

\* An adjustment is made by one request, and waits for the total of its lines.
AddingOK ==
    \A r \in Request : Adding(r) =>
        /\ \A q \in Request : Adding(q) /\ req[q].id = req[r].id => q = r
        /\ pc[r] = "addUp" /\ req[r].id \in DOMAIN adjustments =>
               adjustments[req[r].id].lines = req[r].lines

\* What is half made is being made, or was cut short.
TotalsOK ==
    \A a \in DOMAIN adjustments :
        \/ <<"create", a>> \in partial
        \/ \E r \in Request : Adding(r) /\ req[r].id = a
        \/ adjustments[a].lines = adjustments[a].total
PlacesOK ==
    \A b \in DOMAIN founded :
        \/ <<"found", b>> \in partial
        \/ \E r \in Request : Settling(r) /\ req[r].id = b
        \/ place[founded[b]] = b
        \/ \E other \in DOMAIN founded \ {b} : founded[other] = founded[b]

IHalves == MakingOK /\ AddingOK /\ TotalsOK /\ PlacesOK
-----------------------------------------------------------------------------
LEMMA HalvesImply == IHalves => HalvesExplained
<1> SUFFICES ASSUME IHalves PROVE HalvesExplained
  OBVIOUS
<1>1. \A r \in Request : /\ Adding(r) => <<"create", req[r].id>> \in MadeBy(Request)
                         /\ Settling(r) => <<"found", req[r].id>> \in MadeBy(Request)
  BY DEF MadeBy, Busy, Adding, Settling, IHalves, MakingOK
<1> QED
  BY <1>1 DEF IHalves, TotalsOK, PlacesOK, HalvesExplained

LEMMA HalvesInitial == RequestInit /\ CompositesInit => IHalves
BY DEF RequestInit, CompositesInit, IHalves, MakingOK, AddingOK, TotalsOK, PlacesOK, Busy, Adding,
       Settling, Other

\* As long as no founder moves and no business is founded, a business needs its maker or
\* the mark that it was cut short.
LEMMA PlacesStay ==
  ASSUME PlacesOK, UNCHANGED <<founded, place>>,
         \A b \in DOMAIN founded : <<"found", b>> \in partial => <<"found", b>> \in partial',
         \A q \in Request : Settling(q) => \/ Settling(q)' /\ req'[q].id = req[q].id
                                           \/ <<"found", req[q].id>> \in partial'
  PROVE  PlacesOK'
<1> SUFFICES ASSUME NEW b \in DOMAIN founded
             PROVE  \/ <<"found", b>> \in partial'
                    \/ \E r \in Request : Settling(r)' /\ req'[r].id = b
                    \/ place[founded[b]] = b
                    \/ \E other \in DOMAIN founded \ {b} : founded[other] = founded[b]
  BY DEF PlacesOK
<1> QED
  BY DEF PlacesOK

\* A request that changes no row and leaves the others alone: it goes on as something
\* other than a making, or ends as one that wrote nothing half.
LEMMA AsideKeeps ==
  ASSUME IHalves, NEW r \in Request, UNCHANGED <<founded, place, partial>>,
         DOMAIN pc' = Request, DOMAIN req' = Request,
         \A q \in Request : q # r => pc'[q] = pc[q] /\ req'[q] = req[q],
         ~Adding(r), ~Settling(r),
         pc'[r] \in Answered \/ (Other(r)' /\ req'[r].kind = "other"),
         DOMAIN adjustments' \subseteq DOMAIN adjustments,
         \A a \in DOMAIN adjustments' : adjustments'[a] = adjustments[a]
  PROVE  IHalves'
<1>1. /\ \A q \in Request : q # r => /\ Adding(q)' = Adding(q) /\ Settling(q)' = Settling(q)
                                     /\ Other(q)' = Other(q) /\ Busy(q)' = Busy(q)
      /\ ~Adding(r)' /\ ~Settling(r)'
      /\ Busy(r)' => Other(r)'
  BY DEF Adding, Settling, Other, Busy
<1>2. MakingOK'
  BY <1>1 DEF IHalves, MakingOK, Other
<1>3. AddingOK'
  BY <1>1 DEF IHalves, AddingOK
<1>4. TotalsOK' /\ PlacesOK'
  BY <1>1 DEF IHalves, TotalsOK, PlacesOK
<1> QED
  BY <1>2, <1>3, <1>4 DEF IHalves

\* An adjustment is created: no request under way is about it.
LEMMA AdjustmentKeeps ==
  ASSUME IHalves, NEW r \in Request, CreateAdjustment(r)
  PROVE  IHalves'
<1>1. PICK a \in Adjustment \ DOMAIN adjustments, n \in Lines :
          /\ Begin(r, IF n = 0 THEN "ok" ELSE "addLines",
                   [on |-> "adjustments", kind |-> "create", id |-> a, lines |-> n], {})
          /\ \A q \in Request : Busy(q) => req[q].id # a
          /\ adjustments' = With(adjustments, a, [lines |-> 0, total |-> 0])
          /\ partial' = partial \ {<<"create", a>>}
          /\ UNCHANGED <<founded, place>>
  BY DEF CreateAdjustment
<1> DEFINE h == [on |-> "adjustments", kind |-> "create", id |-> a, lines |-> n]
           next == IF n = 0 THEN "ok" ELSE "addLines"
<1>2. /\ pc[r] = "new" /\ pc' = [pc EXCEPT ![r] = next]
      /\ req' = [req EXCEPT ![r] = IF next \in Answered THEN Nothing ELSE h]
      /\ h.kind = "create" /\ h.id = a /\ h.lines \in Lines /\ next \in {"ok", "addLines"}
  BY <1>1 DEF Begin, Start
<1> HIDE DEF h, next
<1>3. /\ DOMAIN adjustments' = DOMAIN adjustments \cup {a}
      /\ adjustments'[a] \in [lines : Lines, total : Lines]
      /\ adjustments'[a].lines = adjustments'[a].total
      /\ \A x \in DOMAIN adjustments : adjustments'[x] = adjustments[x] /\ x # a
  BY <1>1 DEF With, Lines
<1>4. /\ \A q \in Request : q # r => pc'[q] = pc[q] /\ req'[q] = req[q]
      /\ pc'[r] \in {"ok", "addLines"}
      /\ pc'[r] = "addLines" => req'[r].kind = "create" /\ req'[r].id = a /\ req'[r].lines \in Lines
      /\ DOMAIN pc' = Request /\ DOMAIN req' = Request
  BY <1>2 DEF IHalves, MakingOK
<1>5. MakingOK'
  BY <1>1, <1>3, <1>4 DEF IHalves, MakingOK, Busy, Adding, Settling, Other
<1>6. AddingOK'
  <2>1. \A q \in Request : Adding(q) => req[q].id # a
    BY <1>1 DEF Busy, Adding
  <2>2. \A q \in Request : q # r => Adding(q)' = Adding(q) /\ req'[q] = req[q]
    BY <1>4 DEF Adding
  <2>3. Adding(r)' => req'[r].id = a /\ pc'[r] # "addUp"
    BY <1>4 DEF Adding
  <2> SUFFICES ASSUME NEW s \in Request, Adding(s)'
               PROVE  /\ \A q \in Request : Adding(q)' /\ req'[q].id = req'[s].id => q = s
                      /\ pc'[s] = "addUp" /\ req'[s].id \in DOMAIN adjustments' =>
                             adjustments'[req'[s].id].lines = req'[s].lines
    BY DEF AddingOK
  <2>4. CASE s = r
    BY <2>1, <2>2, <2>3, <2>4
  <2>5. CASE s # r
    BY <1>3, <1>4, <2>1, <2>2, <2>3, <2>5 DEF IHalves, AddingOK
  <2> QED
    BY <2>4, <2>5
<1>7. TotalsOK'
  <2>1. \A q \in Request : Adding(q) => Adding(q)' /\ req'[q] = req[q]
    BY <1>2, <1>4 DEF Adding
  <2> QED
    BY <1>1, <1>3, <2>1 DEF IHalves, TotalsOK
<1>8. PlacesOK'
  <2>1. \A q \in Request : Settling(q) => Settling(q)' /\ req'[q] = req[q]
    BY <1>2, <1>4 DEF Settling
  <2>2. \A b : <<"found", b>> \in partial => <<"found", b>> \in partial'
    BY <1>1
  <2> QED
    BY <1>1, <2>1, <2>2, PlacesStay DEF IHalves
<1> QED
  BY <1>5, <1>6, <1>7, <1>8 DEF IHalves

\* The lines go in, or the total: of the request's own adjustment, if it is still there.
LEMMA AddingKeeps ==
  ASSUME IHalves, NEW r \in Request, AddLines(r) \/ AddUp(r)
  PROVE  IHalves'
<1> DEFINE a == req[r].id
<1>1. /\ Adding(r) /\ UNCHANGED <<founded, place, partial>>
      /\ \/ a \notin DOMAIN adjustments /\ adjustments' = adjustments /\ pc'[r] = "error"
         \/ /\ a \in DOMAIN adjustments /\ pc'[r] = "addUp" /\ req' = req
            /\ adjustments' = [adjustments EXCEPT ![a].lines = req[r].lines]
         \/ /\ a \in DOMAIN adjustments /\ pc[r] = "addUp" /\ pc'[r] = "ok"
            /\ adjustments' = [adjustments EXCEPT ![a].total = req[r].lines]
      /\ \A q \in Request : q # r => pc'[q] = pc[q] /\ req'[q] = req[q]
      /\ DOMAIN pc' = Request /\ DOMAIN req' = Request
  BY DEF AddLines, AddUp, Go, Gone, Adding, IHalves, MakingOK
<1>2. /\ DOMAIN adjustments' = DOMAIN adjustments
      /\ \A x \in DOMAIN adjustments : x # a => adjustments'[x] = adjustments[x]
      /\ \A x \in DOMAIN adjustments : adjustments'[x] \in [lines : Lines, total : Lines]
  BY <1>1 DEF IHalves, MakingOK
<1>3. /\ \A q \in Request : q # r => /\ Adding(q)' = Adding(q) /\ Settling(q)' = Settling(q)
                                     /\ Other(q)' = Other(q) /\ Busy(q)' = Busy(q)
      /\ ~Settling(r) /\ ~Settling(r)' /\ ~Other(r)'
      /\ Busy(r)' = Adding(r)'
  BY <1>1 DEF Adding, Settling, Other, Busy
<1>4. MakingOK'
  <2> USE DEF MakingOK, IHalves
  <2>1. DOMAIN pc' = Request /\ DOMAIN req' = Request /\ DOMAIN place' = Founder
    BY <1>1
  <2>2. \A x \in DOMAIN adjustments' : adjustments'[x] \in [lines : Lines, total : Lines]
    BY <1>2
  <2>3. Adding(r)' => req'[r].kind = "create" /\ req'[r].lines \in Lines
    <3>1. Adding(r)' => req' = req
      BY <1>1 DEF Adding
    <3> QED
      BY <1>1, <3>1
  <2>4. \A q \in Request \ {r} :
            /\ Busy(q)' => Adding(q)' \/ Settling(q)' \/ Other(q)'
            /\ Adding(q)' => req'[q].kind = "create" /\ req'[q].lines \in Lines
            /\ Settling(q)' => /\ req'[q].kind = "found" /\ req'[q].on \in Founder
                               /\ req'[q].id \in DOMAIN founded'
                               /\ founded'[req'[q].id] = req'[q].on
            /\ Other(q)' => req'[q].kind = "other"
    BY <1>1, <1>3
  <2> HIDE DEF IHalves
  <2> QED
    BY <1>3, <2>1, <2>2, <2>3, <2>4
<1>5. PlacesOK'
  BY <1>1, <1>3, PlacesStay DEF IHalves
<1>6. \A q \in Request : q # r /\ Adding(q) => req[q].id # a
  BY <1>1 DEF IHalves, AddingOK
<1> HIDE DEF a
<1>7. CASE a \notin DOMAIN adjustments /\ adjustments' = adjustments /\ pc'[r] = "error"
  <2>1. ~Adding(r)'
    BY <1>7 DEF Adding
  <2> QED
    BY <1>1, <1>3, <1>4, <1>5, <1>7, <2>1 DEF a, IHalves, AddingOK, TotalsOK
<1>8. CASE /\ a \in DOMAIN adjustments /\ pc'[r] = "addUp" /\ req' = req
           /\ adjustments' = [adjustments EXCEPT ![a].lines = req[r].lines]
  <2>1. Adding(r)'
    BY <1>8 DEF Adding
  <2>2. a \in DOMAIN adjustments => adjustments'[a].lines = req[r].lines
    BY <1>8 DEF IHalves, MakingOK
  <2>3. AddingOK'
    BY <1>1, <1>2, <1>3, <1>6, <1>8, <2>1, <2>2 DEF a, IHalves, AddingOK
  <2>4. TotalsOK'
    BY <1>1, <1>2, <1>3, <1>8, <2>1 DEF a, IHalves, TotalsOK
  <2> QED
    BY <1>4, <1>5, <2>3, <2>4 DEF IHalves
<1>9. CASE /\ a \in DOMAIN adjustments /\ pc[r] = "addUp" /\ pc'[r] = "ok"
           /\ adjustments' = [adjustments EXCEPT ![a].total = req[r].lines]
  <2>1. ~Adding(r)'
    BY <1>9 DEF Adding
  <2>2. adjustments[a].lines = req[r].lines
    BY <1>1, <1>9 DEF a, IHalves, AddingOK
  <2>3. adjustments'[a].lines = adjustments'[a].total
    BY <1>9, <2>2 DEF IHalves, MakingOK
  <2>4. AddingOK'
    BY <1>1, <1>2, <1>3, <1>6, <2>1 DEF IHalves, AddingOK
  <2>5. TotalsOK'
    BY <1>1, <1>2, <1>3, <2>1, <2>3 DEF a, IHalves, TotalsOK
  <2> QED
    BY <1>4, <1>5, <2>4, <2>5 DEF IHalves
<1> QED
  BY <1>1, <1>7, <1>8, <1>9 DEF a

\* A business is founded; its founder is about to move in.
LEMMA FoundKeeps ==
  ASSUME IHalves, NEW r \in Request, CreateBusiness(r)
  PROVE  IHalves'
<1>1. PICK b \in Business \ DOMAIN founded, u \in Founder :
          /\ Begin(r, "moveIn", [on |-> u, kind |-> "found", id |-> b], {{"found"}})
          /\ founded' = With(founded, b, u)
          /\ UNCHANGED <<adjustments, place, partial>>
  BY DEF CreateBusiness
<1> DEFINE h == [on |-> u, kind |-> "found", id |-> b]
<1>2. /\ pc[r] = "new" /\ pc' = [pc EXCEPT ![r] = "moveIn"] /\ req' = [req EXCEPT ![r] = h]
      /\ h.kind = "found" /\ h.id = b /\ h.on = u
  BY <1>1 DEF Begin, Start
<1> HIDE DEF h
<1>3. /\ DOMAIN founded' = DOMAIN founded \cup {b} /\ founded'[b] = u
      /\ \A x \in DOMAIN founded : founded'[x] = founded[x]
  BY <1>1 DEF With
<1>4. /\ \A q \in Request : q # r => pc'[q] = pc[q] /\ req'[q] = req[q]
      /\ pc'[r] = "moveIn" /\ req'[r] = h
      /\ DOMAIN pc' = Request /\ DOMAIN req' = Request
  BY <1>2 DEF IHalves, MakingOK
<1>5. \A q \in Request : /\ q # r => /\ Adding(q)' = Adding(q) /\ Settling(q)' = Settling(q)
                                     /\ Other(q)' = Other(q) /\ Busy(q)' = Busy(q)
                         /\ ~Adding(r)' /\ Settling(r)' /\ ~Other(r)'
                         /\ ~Adding(r) /\ ~Settling(r)
  BY <1>2, <1>4 DEF Adding, Settling, Other, Busy
<1>6. MakingOK'
  BY <1>1, <1>2, <1>3, <1>4, <1>5 DEF IHalves, MakingOK
<1>7. AddingOK' /\ TotalsOK'
  BY <1>1, <1>4, <1>5 DEF IHalves, AddingOK, TotalsOK
<1>8. PlacesOK'
  <2> SUFFICES ASSUME NEW c \in DOMAIN founded'
               PROVE  \/ <<"found", c>> \in partial
                      \/ \E q \in Request : Settling(q)' /\ req'[q].id = c
                      \/ place[founded'[c]] = c
                      \/ \E other \in DOMAIN founded' \ {c} : founded'[other] = founded'[c]
    BY <1>1 DEF PlacesOK
  <2>1. CASE c = b
    BY <1>2, <1>4, <1>5, <2>1
  <2>2. CASE c \in DOMAIN founded
    <3>1. \/ <<"found", c>> \in partial
          \/ \E q \in Request : Settling(q) /\ req[q].id = c
          \/ place[founded[c]] = c
          \/ \E other \in DOMAIN founded \ {c} : founded[other] = founded[c]
      BY <2>2 DEF IHalves, PlacesOK
    <3> QED
      BY <1>3, <1>4, <1>5, <2>2, <3>1
  <2> QED
    BY <1>3, <2>1, <2>2
<1> QED
  BY <1>6, <1>7, <1>8 DEF IHalves

\* The founder moves in: out of another business, if the founder has founded another.
LEMMA MoveInKeeps ==
  ASSUME IHalves, NEW r \in Request, MoveIn(r)
  PROVE  IHalves'
<1> DEFINE u == req[r].on
           b == req[r].id
<1>1. /\ Settling(r) /\ place' = [place EXCEPT ![u] = b]
      /\ UNCHANGED <<adjustments, founded, partial>>
      /\ \A q \in Request : q # r => pc'[q] = pc[q] /\ req'[q] = req[q]
      /\ pc'[r] = "ok" /\ DOMAIN pc' = Request /\ DOMAIN req' = Request
  BY DEF MoveIn, Go, Settling, IHalves, MakingOK
<1>2. u \in Founder /\ b \in DOMAIN founded /\ founded[b] = u /\ DOMAIN place = Founder
  BY <1>1 DEF IHalves, MakingOK
<1>3. \A q \in Request : /\ q # r => /\ Adding(q)' = Adding(q) /\ Settling(q)' = Settling(q)
                                     /\ Other(q)' = Other(q) /\ Busy(q)' = Busy(q)
                         /\ ~Adding(r)' /\ ~Settling(r)' /\ ~Other(r)' /\ ~Busy(r)'
                         /\ ~Adding(r)
  BY <1>1 DEF Adding, Settling, Other, Busy
<1>4. MakingOK'
  BY <1>1, <1>2, <1>3 DEF IHalves, MakingOK
<1>5. AddingOK' /\ TotalsOK'
  BY <1>1, <1>3 DEF IHalves, AddingOK, TotalsOK
<1>6. /\ place'[u] = b
      /\ \A x : x # u => place'[x] = place[x]
  BY <1>1, <1>2
<1>7. PlacesOK'
  <2> SUFFICES ASSUME NEW c \in DOMAIN founded
               PROVE  \/ <<"found", c>> \in partial
                      \/ \E q \in Request : Settling(q)' /\ req'[q].id = c
                      \/ place'[founded[c]] = c
                      \/ \E other \in DOMAIN founded \ {c} : founded[other] = founded[c]
    BY <1>1 DEF PlacesOK
  <2>1. CASE founded[c] = u
    BY <1>2, <1>6, <2>1
  <2>2. CASE founded[c] # u
    BY <1>1, <1>2, <1>3, <1>6, <2>2 DEF IHalves, PlacesOK
  <2> QED
    BY <2>1, <2>2
<1> QED
  BY <1>4, <1>5, <1>7 DEF IHalves

\* What requests leave behind that end early is known to be partial.
LEMMA CutShortKeeps ==
  ASSUME IHalves, NEW rs \in SUBSET Request, PartialBy(rs),
         DOMAIN pc' = Request, DOMAIN req' = Request,
         \A q \in Request : IF q \in rs /\ Busy(q) THEN pc'[q] \in Answered
                            ELSE pc'[q] = pc[q] /\ (Busy(q) => req'[q] = req[q])
  PROVE  IHalves'
<1>1. /\ UNCHANGED <<adjustments, founded, place>> /\ partial \subseteq partial'
      /\ \A q \in rs : Busy(q) => <<req[q].kind, req[q].id>> \in partial'
  BY DEF PartialBy, MadeBy
<1>2. \A q \in Request : /\ (Adding(q)' => Adding(q)) /\ (Settling(q)' => Settling(q))
                         /\ (Other(q)' => Other(q)) /\ (Busy(q)' => Busy(q))
                         /\ Busy(q)' => pc'[q] = pc[q] /\ req'[q] = req[q]
                         /\ Adding(q) => Adding(q)' \/ <<req[q].kind, req[q].id>> \in partial'
                         /\ Settling(q) => Settling(q)' \/ <<req[q].kind, req[q].id>> \in partial'
                         /\ Adding(q)' \/ Settling(q)' \/ Other(q)' => Busy(q)'
  BY <1>1 DEF Adding, Settling, Other, Busy
<1>3. MakingOK'
  BY <1>1, <1>2 DEF IHalves, MakingOK, Adding, Settling, Other
<1>4. AddingOK'
  BY <1>1, <1>2 DEF IHalves, AddingOK
<1>5. TotalsOK'
  <2>1. \A q \in Request : Adding(q) => \/ Adding(q)' /\ req'[q].id = req[q].id
                                        \/ <<"create", req[q].id>> \in partial'
    BY <1>2 DEF IHalves, MakingOK, Busy, Adding
  <2> SUFFICES ASSUME NEW a \in DOMAIN adjustments
               PROVE  \/ <<"create", a>> \in partial'
                      \/ \E r \in Request : Adding(r)' /\ req'[r].id = a
                      \/ adjustments[a].lines = adjustments[a].total
    BY <1>1 DEF TotalsOK
  <2> QED
    BY <1>1, <2>1 DEF IHalves, TotalsOK
<1>6. PlacesOK'
  <2>1. \A q \in Request : Settling(q) => \/ Settling(q)' /\ req'[q].id = req[q].id
                                          \/ <<"found", req[q].id>> \in partial'
    BY <1>2 DEF IHalves, MakingOK, Busy, Settling
  <2> QED
    BY <1>1, <2>1, PlacesStay DEF IHalves
<1> QED
  BY <1>3, <1>4, <1>5, <1>6 DEF IHalves

LEMMA HalvesStepKeeps == IHalves /\ [CompositesNext]_<<requestVars, compositeVars>> => IHalves'
<1> SUFFICES ASSUME IHalves, [CompositesNext]_<<requestVars, compositeVars>> PROVE IHalves'
  OBVIOUS
<1>1. ASSUME NEW r \in Request, CreateAdjustment(r) \/ AddLines(r) \/ AddUp(r)
      PROVE  IHalves'
  BY <1>1, AdjustmentKeeps, AddingKeeps
<1>2. ASSUME NEW r \in Request, FindAdjustment(r) PROVE IHalves'
  <2>1. PICK next \in {"updateAdjustment", "deleteAdjustment"}, a \in DOMAIN adjustments :
            Arrive(r, next, [on |-> "adjustments", kind |-> "other", id |-> a])
    BY <1>2 DEF FindAdjustment
  <2> DEFINE h == [on |-> "adjustments", kind |-> "other", id |-> a]
  <2>2. /\ pc[r] = "new" /\ pc' = [pc EXCEPT ![r] = next] /\ req' = [req EXCEPT ![r] = h]
        /\ h.kind = "other"
    BY <2>1 DEF Arrive, Start
  <2> HIDE DEF h
  <2>3. /\ \A q \in Request : q # r => pc'[q] = pc[q] /\ req'[q] = req[q]
        /\ pc'[r] = next /\ req'[r].kind = "other" /\ DOMAIN pc' = Request /\ DOMAIN req' = Request
    BY <2>2 DEF IHalves, MakingOK
  <2>4. ~Adding(r) /\ ~Settling(r) /\ Other(r)'
    BY <2>2, <2>3 DEF Adding, Settling, Other
  <2>5. UNCHANGED <<adjustments, founded, place, partial>>
    BY <1>2 DEF FindAdjustment, compositeVars
  <2> QED
    BY <2>3, <2>4, <2>5, AsideKeeps
<1>3. ASSUME NEW r \in Request, UpdateAdjustment(r) \/ DeleteAdjustment(r) PROVE IHalves'
  <2>1. /\ Other(r) /\ UNCHANGED <<founded, place, partial>>
        /\ \A q \in Request : q # r => pc'[q] = pc[q] /\ req'[q] = req[q]
        /\ pc'[r] \in Answered /\ DOMAIN pc' = Request /\ DOMAIN req' = Request
        /\ DOMAIN adjustments' \subseteq DOMAIN adjustments
        /\ \A a \in DOMAIN adjustments' : adjustments'[a] = adjustments[a]
    BY <1>3 DEF UpdateAdjustment, DeleteAdjustment, Go, Other, compositeVars, IHalves, MakingOK
  <2>2. ~Adding(r) /\ ~Settling(r)
    BY <2>1 DEF Adding, Settling, Other
  <2> QED
    BY <2>1, <2>2, AsideKeeps
<1>4. ASSUME NEW r \in Request, CreateBusiness(r) \/ MoveIn(r) PROVE IHalves'
  BY <1>4, FoundKeeps, MoveInKeeps
<1>5. ASSUME NEW r \in Request, Fail(r), PartialBy({r}) PROVE IHalves'
  <2>1. /\ DOMAIN pc' = Request /\ DOMAIN req' = Request
        /\ \A q \in Request : IF q \in {r} /\ Busy(q) THEN pc'[q] \in Answered
                              ELSE pc'[q] = pc[q] /\ (Busy(q) => req'[q] = req[q])
    BY <1>5 DEF Fail, IHalves, MakingOK
  <2> QED
    BY <1>5, <2>1, CutShortKeeps
<1>6. CASE Halt /\ PartialBy(Request)
  <2>1. /\ DOMAIN pc' = Request /\ DOMAIN req' = Request
        /\ \A q \in Request : IF q \in Request /\ Busy(q) THEN pc'[q] \in Answered
                              ELSE pc'[q] = pc[q] /\ (Busy(q) => req'[q] = req[q])
    BY <1>6 DEF Halt
  <2> QED
    BY <1>6, <2>1, CutShortKeeps
<1>7. CASE UNCHANGED <<requestVars, compositeVars>>
  BY <1>7 DEF IHalves, MakingOK, AddingOK, TotalsOK, PlacesOK, requestVars, compositeVars, Busy,
              Adding, Settling, Other
<1> QED
  BY <1>1, <1>2, <1>3, <1>4, <1>5, <1>6, <1>7 DEF CompositesNext
-----------------------------------------------------------------------------
\* At all times the total of an adjustment is that of its lines and every business has
\* its founder in it, unless it is being made or its making was cut short, or its founder
\* has founded another (StockAdjustmentsService.create, BusinessService.create).
THEOREM HalvesAreExplained == CompositesSpec => []HalvesExplained
<1>1. RequestInit /\ CompositesInit => IHalves
  BY HalvesInitial
<1>2. IHalves /\ [CompositesNext]_<<requestVars, compositeVars>> => IHalves'
  BY HalvesStepKeeps
<1>3. IHalves => HalvesExplained
  BY HalvesImply
<1> QED
  BY <1>1, <1>2, <1>3, PTL DEF CompositesSpec
-----------------------------------------------------------------------------
(***************************************************************************)
(* DefaultsExplained and GroupTaxesAsAsked, for any number of rows, taxes  *)
(* and requests.                                                           *)
(*                                                                         *)
(* Between its two statements a request for a new default finds at most    *)
(* its own row marked, and a request that replaces the taxes of a group    *)
(* finds the group empty, unless it has a rival.                           *)
(***************************************************************************)
Marking(r) == pc[r] \in {"unmark", "insert", "mark"} /\ req[r].kind = "mark"
Pending(r) == pc[r] \in {"insert", "mark"} /\ req[r].kind = "mark"
Replacing(r) == pc[r] \in {"clearTaxes", "storeTaxes"}
Amending(r) == pc[r] \in {"addTax", "takeTax"}
Storing(r) == pc[r] = "storeTaxes"

MarkRaced(t) == Together(Table(t), "mark", "mark")
GroupRaced(g) ==
    Together(Group(g), "setTaxes", "setTaxes") \/ Together(Group(g), "setTaxes", "addTax")

\* What a request holds.
HoldsSetting(r) ==
    /\ pc[r] \in Answered \cup {"new", "unmark", "insert", "mark", "unmarkOne", "rename", "remove",
                                "clearTaxes", "storeTaxes", "addTax", "takeTax"}
    /\ pc[r] \in {"unmark", "insert", "mark", "unmarkOne", "rename", "remove"} =>
          /\ "on" \in DOMAIN req[r] /\ req[r].on = Table(req[r].table)
          /\ req[r].table \in SettingTables
    /\ pc[r] \in {"unmark", "mark"} => req[r].kind = "mark"
    /\ pc[r] = "unmark" => req[r].default = TRUE /\ req[r].id \in Setting \cup {NoSetting}
    /\ pc[r] = "mark" => req[r].id \in Setting
    /\ pc[r] = "insert" => /\ req[r].id = NoSetting /\ req[r].default \in BOOLEAN
                           /\ (req[r].kind = "mark") <=> (req[r].default = TRUE)
    /\ Replacing(r) => /\ "on" \in DOMAIN req[r] /\ req[r].on = Group(req[r].id)
                       /\ req[r].id \in Setting /\ req[r].kind = "setTaxes"
    /\ Amending(r) => /\ "on" \in DOMAIN req[r] /\ req[r].on = Group(req[r].id)
                      /\ req[r].id \in Setting /\ req[r].kind = "addTax"

SettingsOK ==
    /\ DOMAIN settings = SettingTables /\ DOMAIN subTaxes = Setting /\ DOMAIN asked = Setting
    /\ \A t \in SettingTables :
          /\ DOMAIN settings[t] \subseteq Setting
          /\ settings[t] \in [DOMAIN settings[t] -> [default : BOOLEAN, live : BOOLEAN]]

\* Two that are about the same were under way together.
RivalsOK ==
    \A r, q \in Request : r # q =>
        /\ Marking(r) /\ Marking(q) /\ req[r].table = req[q].table => MarkRaced(req[r].table)
        /\ Replacing(r) /\ Replacing(q) /\ req[r].id = req[q].id => GroupRaced(req[r].id)
        /\ Replacing(r) /\ Amending(q) /\ req[r].id = req[q].id => GroupRaced(req[r].id)

OneMarkOK ==
    \A t \in SettingTables :
        \/ MarkRaced(t)
        \/ /\ \A s, u \in Marked(t) : s = u
           /\ \A r \in Request : Pending(r) /\ req[r].table = t => Marked(t) \subseteq {req[r].id}

SomeMarkOK ==
    \A t \in SettingTables :
        \/ Marked(t) # {} \/ t \in bare
        \/ \E r \in Request : Pending(r) /\ req[r].table = t

GroupsOK ==
    \A g \in Setting :
        \/ GroupRaced(g)
        \/ /\ \A r \in Request : Storing(r) /\ req[r].id = g =>
                  subTaxes[g] = {} /\ asked[g] = req[r].taxes
           /\ \/ g \in halved \/ subTaxes[g] = asked[g]
              \/ \E r \in Request : Storing(r) /\ req[r].id = g

IDefaults ==
    /\ Wired /\ SettingsOK /\ RivalsOK /\ OneMarkOK /\ SomeMarkOK /\ GroupsOK
    /\ \A r \in Request : HoldsSetting(r)
-----------------------------------------------------------------------------
LEMMA DefaultsImply == IDefaults => DefaultsExplained /\ GroupTaxesAsAsked
<1> SUFFICES ASSUME IDefaults PROVE DefaultsExplained /\ GroupTaxesAsAsked
  OBVIOUS
<1>1. DefaultsExplained
  BY DEF IDefaults, OneMarkOK, SomeMarkOK, DefaultsExplained, MarkRaced, Pending
<1>2. GroupTaxesAsAsked
  BY DEF IDefaults, GroupsOK, GroupTaxesAsAsked, GroupRaced, Storing
<1> QED
  BY <1>1, <1>2

LEMMA DefaultsInitial == RequestInit /\ DefaultsInit => IDefaults
<1> SUFFICES ASSUME RequestInit, DefaultsInit PROVE IDefaults
  OBVIOUS
<1>1. Wired /\ \A r \in Request : pc[r] = "new"
  BY WiredInitial
<1>2. PICK s : s = CHOOSE x \in Setting : TRUE
  OBVIOUS
<1>3. settings = [t \in SettingTables |-> [x \in {s} |-> [default |-> TRUE, live |-> TRUE]]]
  BY <1>2 DEF DefaultsInit
<1>4. \A t \in SettingTables : Marked(t) = {s}
  BY <1>3 DEF Marked, SettingsInUse
<1>5. SomeMarkOK /\ OneMarkOK
  BY <1>1, <1>4 DEF SomeMarkOK, OneMarkOK, Pending
<1>6. GroupsOK /\ RivalsOK
  BY <1>1 DEF DefaultsInit, GroupsOK, RivalsOK, Storing, Marking, Replacing, Amending
<1>7. \A r \in Request : HoldsSetting(r)
  BY <1>1 DEF HoldsSetting, Replacing, Amending
<1>8. SettingsOK
  <2>1. s \in Setting
    BY <1>2, SettingAssumption
  <2> QED
    BY <1>3, <2>1 DEF DefaultsInit, SettingsOK
<1> QED
  BY <1>1, <1>5, <1>6, <1>7, <1>8 DEF IDefaults

\* A step of a request that is no rival of others, or no more than it was.
LEMMA RivalsStay ==
  ASSUME RivalsOK, NEW r \in Request, Alone(r), raced \subseteq raced',
         Marking(r)' => Marking(r) /\ req'[r].table = req[r].table,
         Replacing(r)' => Replacing(r) /\ req'[r].id = req[r].id,
         Amending(r)' => Amending(r) /\ req'[r].id = req[r].id
  PROVE  RivalsOK'
<1>1. \A t : MarkRaced(t) => MarkRaced(t)'
  BY DEF MarkRaced, Together, Table
<1>2. \A g : GroupRaced(g) => GroupRaced(g)'
  BY DEF GroupRaced, Together, Group
<1>3. \A q \in Request :
         /\ Marking(q)' => Marking(q) /\ req'[q].table = req[q].table
         /\ Replacing(q)' => Replacing(q) /\ req'[q].id = req[q].id
         /\ Amending(q)' => Amending(q) /\ req'[q].id = req[q].id
  BY DEF Alone, Marking, Replacing, Amending
<1> QED
  BY <1>1, <1>2, <1>3 DEF RivalsOK

\* A step that writes no table and is not between two statements of a new default.
LEMMA SettingsStay ==
  ASSUME OneMarkOK, SomeMarkOK, NEW r \in Request, Alone(r), raced \subseteq raced',
         UNCHANGED <<settings, bare>>, ~Pending(r), ~Pending(r)'
  PROVE  OneMarkOK' /\ SomeMarkOK'
<1>1. \A t : (MarkRaced(t) => MarkRaced(t)') /\ Marked(t)' = Marked(t)
  BY DEF MarkRaced, Together, Table, Marked, SettingsInUse
<1>2. \A q \in Request : (Pending(q)' <=> Pending(q)) /\ (Pending(q) => req'[q] = req[q])
  BY DEF Alone, Pending
<1> QED
  BY <1>1, <1>2 DEF OneMarkOK, SomeMarkOK

LEMMA GroupsStay ==
  ASSUME GroupsOK, NEW r \in Request, Alone(r), raced \subseteq raced',
         UNCHANGED groupVars, ~Storing(r), ~Storing(r)'
  PROVE  GroupsOK'
<1>1. \A g : GroupRaced(g) => GroupRaced(g)'
  BY DEF GroupRaced, Together, Group
<1>2. \A q \in Request : (Storing(q)' <=> Storing(q)) /\ (Storing(q) => req'[q] = req[q])
  BY DEF Alone, Storing
<1> QED
  BY <1>1, <1>2 DEF GroupsOK, groupVars

LEMMA OthersHold ==
  ASSUME NEW r \in Request, Alone(r), HoldsSetting(r)', \A q \in Request : HoldsSetting(q)
  PROVE  \A q \in Request : HoldsSetting(q)'
BY DEF Alone, HoldsSetting, Replacing, Amending

\* A request about a row begins.
LEMMA RowBeginKeeps ==
  ASSUME IDefaults, NEW r \in Request, NEW next, NEW h, Begin(r, next, h, DefaultRivals),
         UNCHANGED defaultVars, next \in {"unmark", "insert", "unmarkOne", "rename", "remove"},
         "on" \in DOMAIN h, h.on = Table(h.table), h.table \in SettingTables,
         next = "unmark" => /\ h.kind = "mark" /\ h.default = TRUE
                            /\ h.id \in Setting \cup {NoSetting},
         next = "insert" => h.id = NoSetting /\ h.default = FALSE /\ h.kind # "mark"
  PROVE  IDefaults'
<1>1. /\ Wired' /\ Alone(r) /\ pc[r] = "new" /\ pc'[r] = next /\ req'[r] = h
      /\ raced \subseteq raced'
  BY BeginMoves DEF IDefaults
<1>2. OneMarkOK' /\ SomeMarkOK'
  <2>1. ~Pending(r) /\ ~Pending(r)'
    BY <1>1 DEF Pending
  <2> QED
    BY <1>1, <2>1, SettingsStay DEF IDefaults, defaultVars, settingVars
<1>3. GroupsOK'
  <2>1. ~Storing(r) /\ ~Storing(r)'
    BY <1>1 DEF Storing
  <2> QED
    BY <1>1, <2>1, GroupsStay DEF IDefaults, defaultVars
<1>4. SettingsOK'
  BY DEF IDefaults, SettingsOK, defaultVars, settingVars, groupVars
<1>5. \A q \in Request : HoldsSetting(q)'
  <2>1. HoldsSetting(r)'
    BY <1>1 DEF HoldsSetting, Replacing, Amending
  <2> QED
    BY <1>1, <2>1, OthersHold DEF IDefaults
<1>6. RivalsOK'
  <2>1. ~Replacing(r)' /\ ~Amending(r)'
    BY <1>1 DEF Replacing, Amending
  <2>2. CASE next # "unmark"
    <3>1. ~Marking(r)'
      BY <1>1, <2>2 DEF Marking
    <3> QED
      BY <1>1, <2>1, <3>1, RivalsStay DEF IDefaults
  <2>3. CASE next = "unmark"
    <3>1. \A q \in Request \ {r} :
             Marking(q) /\ req[q].table = h.table => MarkRaced(h.table)'
      <4> SUFFICES ASSUME NEW q \in Request \ {r}, Marking(q), req[q].table = h.table
                   PROVE  MarkRaced(h.table)'
        OBVIOUS
      <4>1. "on" \in DOMAIN req[q] /\ req[q].on = h.on /\ req[q].kind = "mark" /\ Busy(q)
        BY DEF IDefaults, HoldsSetting, Marking, Busy
      <4>2. {"mark", "mark"} \in DefaultRivals
        BY DEF DefaultRivals
      <4> QED
        BY <2>3, <4>1, <4>2, BeginRaces DEF MarkRaced
    <3>2. \A q \in Request \ {r} :
             /\ (Marking(q)' <=> Marking(q)) /\ (Replacing(q)' <=> Replacing(q))
             /\ (Amending(q)' <=> Amending(q)) /\ req'[q] = req[q]
      BY <1>1 DEF Alone, Marking, Replacing, Amending
    <3>3. /\ \A t : MarkRaced(t) => MarkRaced(t)'
          /\ \A g : GroupRaced(g) => GroupRaced(g)'
      BY <1>1 DEF MarkRaced, GroupRaced, Together, Table, Group
    <3> QED
      BY <1>1, <2>1, <3>1, <3>2, <3>3 DEF RivalsOK, IDefaults
  <2> QED
    BY <2>2, <2>3
<1> QED
  BY <1>1, <1>2, <1>3, <1>4, <1>5, <1>6 DEF IDefaults

\* A request about a group begins.
LEMMA GroupBeginKeeps ==
  ASSUME IDefaults, NEW r \in Request, NEW next, NEW h, Begin(r, next, h, DefaultRivals),
         UNCHANGED defaultVars, "on" \in DOMAIN h, h.on = Group(h.id), h.id \in Setting,
         \/ next = "clearTaxes" /\ h.kind = "setTaxes"
         \/ next \in {"addTax", "takeTax"} /\ h.kind = "addTax"
  PROVE  IDefaults'
<1>1. /\ Wired' /\ Alone(r) /\ pc[r] = "new" /\ pc'[r] = next /\ req'[r] = h
      /\ raced \subseteq raced'
  BY BeginMoves DEF IDefaults
<1>2. OneMarkOK' /\ SomeMarkOK'
  <2>1. ~Pending(r) /\ ~Pending(r)'
    BY <1>1 DEF Pending
  <2> QED
    BY <1>1, <2>1, SettingsStay DEF IDefaults, defaultVars, settingVars
<1>3. GroupsOK'
  <2>1. ~Storing(r) /\ ~Storing(r)'
    BY <1>1 DEF Storing
  <2> QED
    BY <1>1, <2>1, GroupsStay DEF IDefaults, defaultVars
<1>4. SettingsOK'
  BY DEF IDefaults, SettingsOK, defaultVars, settingVars, groupVars
<1>5. \A q \in Request : HoldsSetting(q)'
  <2>1. HoldsSetting(r)'
    BY <1>1 DEF HoldsSetting, Replacing, Amending
  <2> QED
    BY <1>1, <2>1, OthersHold DEF IDefaults
<1>6. \A q \in Request \ {r} : req[q].id = h.id =>
         /\ Replacing(q) => GroupRaced(h.id)'
         /\ Amending(q) /\ next = "clearTaxes" => GroupRaced(h.id)'
  <2> SUFFICES ASSUME NEW q \in Request \ {r}, req[q].id = h.id,
                      Replacing(q) \/ (Amending(q) /\ next = "clearTaxes")
               PROVE  GroupRaced(h.id)'
    OBVIOUS
  <2>1. /\ "on" \in DOMAIN req[q] /\ req[q].on = h.on /\ Busy(q)
        /\ Replacing(q) => req[q].kind = "setTaxes"
        /\ Amending(q) => req[q].kind = "addTax"
    BY DEF IDefaults, HoldsSetting, Replacing, Amending, Busy
  <2>2. /\ {"setTaxes", "setTaxes"} \in DefaultRivals /\ {"setTaxes", "addTax"} \in DefaultRivals
        /\ {"addTax", "setTaxes"} = {"setTaxes", "addTax"}
    BY DEF DefaultRivals
  <2>3. CASE h.kind = "setTaxes" /\ Replacing(q)
    <3>1. Together(h.on, "setTaxes", "setTaxes")'
      BY <2>1, <2>2, <2>3, BeginRaces
    <3> QED
      BY <3>1 DEF GroupRaced
  <2>4. CASE h.kind = "setTaxes" /\ Amending(q)
    <3>1. Together(h.on, "setTaxes", "addTax")'
      BY <2>1, <2>2, <2>4, BeginRaces
    <3> QED
      BY <3>1 DEF GroupRaced
  <2>5. CASE h.kind = "addTax" /\ Replacing(q)
    <3>1. Together(h.on, "addTax", "setTaxes")'
      BY <2>1, <2>2, <2>5, BeginRaces
    <3> QED
      BY <2>2, <3>1 DEF GroupRaced, Together
  <2> QED
    BY <2>3, <2>4, <2>5
<1>7. RivalsOK'
  <2>1. /\ ~Marking(r)' /\ (Replacing(r)' => next = "clearTaxes")
        /\ ~(Replacing(r)' /\ Amending(r)')
    BY <1>1 DEF Marking, Replacing, Amending
  <2>2. \A q \in Request \ {r} :
           /\ (Marking(q)' <=> Marking(q)) /\ (Replacing(q)' <=> Replacing(q))
           /\ (Amending(q)' <=> Amending(q)) /\ req'[q] = req[q]
    BY <1>1 DEF Alone, Marking, Replacing, Amending
  <2>3. /\ \A t : MarkRaced(t) => MarkRaced(t)'
        /\ \A g : GroupRaced(g) => GroupRaced(g)'
    BY <1>1 DEF MarkRaced, GroupRaced, Together, Table, Group
  <2> QED
    BY <1>1, <1>6, <2>1, <2>2, <2>3 DEF RivalsOK, IDefaults
<1> QED
  BY <1>1, <1>2, <1>3, <1>4, <1>5, <1>7 DEF IDefaults

\* The finds of rows and of groups, for every table.
LEMMA FindsKeep ==
  ASSUME IDefaults, NEW r \in Request, NEW t \in SettingTables,
         CreateIn(r, t) \/ UpdateIn(r, t) \/ RemoveIn(r, t)
  PROVE  IDefaults'
<1>1. CASE CreateIn(r, t)
  <2>1. PICK default \in BOOLEAN :
          /\ Begin(r, IF default THEN "unmark" ELSE "insert",
                   [on |-> Table(t), kind |-> IF default THEN "mark" ELSE "other", table |-> t,
                    id |-> NoSetting, default |-> default], DefaultRivals)
          /\ UNCHANGED defaultVars
    BY <1>1 DEF CreateIn
  <2>2. PICK h : h = [on |-> Table(t), kind |-> IF default THEN "mark" ELSE "other", table |-> t,
                      id |-> NoSetting, default |-> default]
    OBVIOUS
  <2>3. /\ "on" \in DOMAIN h /\ h.on = Table(h.table) /\ h.table = t /\ h.id = NoSetting
        /\ h.default = default /\ h.kind = IF default THEN "mark" ELSE "other"
    BY <2>2
  <2>4. CASE default
    <3>1. Begin(r, "unmark", h, DefaultRivals)
      BY <2>1, <2>2, <2>4
    <3> QED
      BY <2>1, <2>3, <2>4, <3>1, RowBeginKeeps
  <2>5. CASE ~default
    <3>1. Begin(r, "insert", h, DefaultRivals) /\ h.default = FALSE /\ h.kind # "mark"
      BY <2>1, <2>2, <2>3, <2>5
    <3> QED
      BY <2>1, <2>3, <3>1, RowBeginKeeps
  <2> QED
    BY <2>4, <2>5
<1>2. CASE UpdateIn(r, t)
  <2>1. PICK s \in SettingsInUse(t), change \in {"mark", "unmark", "rename"} :
          /\ Begin(r, CASE change = "mark" -> "unmark" [] change = "unmark" -> "unmarkOne"
                          [] change = "rename" -> "rename",
                   [on |-> Table(t), kind |-> change, table |-> t, id |-> s, default |-> TRUE],
                   DefaultRivals)
          /\ UNCHANGED defaultVars
    BY <1>2 DEF UpdateIn
  <2>2. s \in Setting
    BY DEF IDefaults, SettingsOK, SettingsInUse
  <2>3. PICK h : h = [on |-> Table(t), kind |-> change, table |-> t, id |-> s, default |-> TRUE]
    OBVIOUS
  <2>4. /\ "on" \in DOMAIN h /\ h.on = Table(h.table) /\ h.table = t /\ h.id = s
        /\ h.default = TRUE /\ h.kind = change
    BY <2>3
  <2>5. \/ change = "mark" /\ Begin(r, "unmark", h, DefaultRivals)
        \/ Begin(r, "unmarkOne", h, DefaultRivals)
        \/ Begin(r, "rename", h, DefaultRivals)
    BY <2>1, <2>3
  <2> QED
    BY <2>1, <2>2, <2>4, <2>5, RowBeginKeeps
<1>3. CASE RemoveIn(r, t)
  <2>1. PICK s \in SettingsInUse(t) :
          /\ Begin(r, "remove", [on |-> Table(t), kind |-> "remove", table |-> t, id |-> s],
                   DefaultRivals)
          /\ UNCHANGED defaultVars
    BY <1>3 DEF RemoveIn
  <2> DEFINE h == [on |-> Table(t), kind |-> "remove", table |-> t, id |-> s]
  <2>2. "on" \in DOMAIN h /\ h.on = Table(h.table) /\ h.table = t
    OBVIOUS
  <2> HIDE DEF h
  <2>3. Begin(r, "remove", h, DefaultRivals)
    BY <2>1 DEF h
  <2> QED
    BY <2>1, <2>2, <2>3, RowBeginKeeps
<1> QED
  BY <1>1, <1>2, <1>3

LEMMA GroupFindsKeep ==
  ASSUME IDefaults, NEW r \in Request, FindGroup(r) \/ FindToAdd(r) \/ FindToTake(r)
  PROVE  IDefaults'
<1>1. CASE FindGroup(r)
  <2>1. PICK g \in SettingsInUse("tax"), s \in SUBSET DOMAIN settings["tax"] :
          /\ Begin(r, "clearTaxes", [on |-> Group(g), kind |-> "setTaxes", id |-> g, taxes |-> s],
                   DefaultRivals)
          /\ UNCHANGED defaultVars
    BY <1>1 DEF FindGroup
  <2>2. g \in Setting
    BY DEF IDefaults, SettingsOK, SettingsInUse, SettingTables
  <2> DEFINE h == [on |-> Group(g), kind |-> "setTaxes", id |-> g, taxes |-> s]
  <2>3. "on" \in DOMAIN h /\ h.on = Group(h.id) /\ h.id = g /\ h.kind = "setTaxes"
    OBVIOUS
  <2> HIDE DEF h
  <2>4. Begin(r, "clearTaxes", h, DefaultRivals)
    BY <2>1 DEF h
  <2> QED
    BY <2>1, <2>2, <2>3, <2>4, GroupBeginKeeps
<1>2. CASE FindToAdd(r)
  <2>1. PICK g \in SettingsInUse("tax"), s \in SettingsInUse("tax") :
          /\ Begin(r, "addTax", [on |-> Group(g), kind |-> "addTax", id |-> g, tax |-> s],
                   DefaultRivals)
          /\ UNCHANGED defaultVars
    BY <1>2 DEF FindToAdd
  <2>2. g \in Setting
    BY DEF IDefaults, SettingsOK, SettingsInUse, SettingTables
  <2> DEFINE h == [on |-> Group(g), kind |-> "addTax", id |-> g, tax |-> s]
  <2>3. "on" \in DOMAIN h /\ h.on = Group(h.id) /\ h.id = g /\ h.kind = "addTax"
    OBVIOUS
  <2> HIDE DEF h
  <2>4. Begin(r, "addTax", h, DefaultRivals)
    BY <2>1 DEF h
  <2> QED
    BY <2>1, <2>2, <2>3, <2>4, GroupBeginKeeps
<1>3. CASE FindToTake(r)
  <2>1. PICK g \in SettingsInUse("tax"), s \in DOMAIN settings["tax"] :
          /\ Begin(r, "takeTax", [on |-> Group(g), kind |-> "addTax", id |-> g, tax |-> s],
                   DefaultRivals)
          /\ UNCHANGED defaultVars
    BY <1>3 DEF FindToTake
  <2>2. g \in Setting
    BY DEF IDefaults, SettingsOK, SettingsInUse, SettingTables
  <2> DEFINE h == [on |-> Group(g), kind |-> "addTax", id |-> g, tax |-> s]
  <2>3. "on" \in DOMAIN h /\ h.on = Group(h.id) /\ h.id = g /\ h.kind = "addTax"
    OBVIOUS
  <2> HIDE DEF h
  <2>4. Begin(r, "takeTax", h, DefaultRivals)
    BY <2>1 DEF h
  <2> QED
    BY <2>1, <2>2, <2>3, <2>4, GroupBeginKeeps
<1> QED
  BY <1>1, <1>2, <1>3

\* The mark is taken from all rows but the one that is to get it.
LEMMA UnmarkKeeps ==
  ASSUME IDefaults, NEW r \in Request, Unmark(r)
  PROVE  IDefaults'
<1> DEFINE h == req[r]
           t == h.table
           next == IF h.id = NoSetting THEN "insert" ELSE "mark"
           written == [s \in DOMAIN settings[t] |->
               IF s # h.id /\ settings[t][s].live THEN [settings[t][s] EXCEPT !.default = FALSE]
               ELSE settings[t][s]]
<1>1. Go(r, "unmark", next) /\ UNCHANGED <<bare, groupVars>>
      /\ settings' = [settings EXCEPT ![t] = written]
  BY DEF Unmark
<1>2. /\ Wired' /\ Alone(r) /\ pc[r] = "unmark" /\ pc'[r] = next /\ req'[r] = h
      /\ raced' = raced
  <2>1. next \notin Answered
    OBVIOUS
  <2> QED
    BY <1>1, <2>1, GoMoves DEF IDefaults
<1>3. /\ t \in SettingTables /\ h.kind = "mark" /\ h.default = TRUE
      /\ h.id \in Setting \cup {NoSetting} /\ Marking(r) /\ ~Pending(r) /\ Pending(r)'
  BY <1>2 DEF IDefaults, HoldsSetting, Marking, Pending
<1>4. /\ DOMAIN settings' = SettingTables /\ settings'[t] = written
      /\ \A u \in SettingTables \ {t} : settings'[u] = settings[u]
  BY <1>1, <1>3 DEF IDefaults, SettingsOK
<1>5. \A s \in DOMAIN settings[t] : settings[t][s] \in [default : BOOLEAN, live : BOOLEAN]
  BY <1>3 DEF IDefaults, SettingsOK
<1>6. /\ DOMAIN written = DOMAIN settings[t]
      /\ \A s \in DOMAIN settings[t] :
            /\ written[s] \in [default : BOOLEAN, live : BOOLEAN]
            /\ written[s].live = settings[t][s].live
            /\ written[s].default => settings[t][s].default /\ (s = h.id \/ ~written[s].live)
  BY <1>5
<1>7. written \in [DOMAIN written -> [default : BOOLEAN, live : BOOLEAN]]
  BY <1>6
<1> HIDE DEF written
<1>8. /\ Marked(t)' \subseteq Marked(t) \cap {h.id}
       /\ \A u \in SettingTables \ {t} : Marked(u)' = Marked(u)
  <2>1. \A s \in Marked(t)' : s \in DOMAIN written /\ written[s].live /\ written[s].default
    BY <1>2, <1>4 DEF Marked, SettingsInUse
  <2>2. Marked(t)' \subseteq Marked(t) \cap {h.id}
    BY <1>6, <2>1 DEF Marked, SettingsInUse
  <2>3. \A u \in SettingTables \ {t} : Marked(u)' = Marked(u)
    BY <1>4 DEF Marked, SettingsInUse
  <2> QED
    BY <2>2, <2>3
<1> HIDE DEF written
<1>9. SettingsOK'
  BY <1>1, <1>3, <1>4, <1>6, <1>7 DEF IDefaults, SettingsOK, groupVars
<1>10. \A q \in Request : HoldsSetting(q)'
  <2>1. HoldsSetting(r)'
    BY <1>2, <1>3 DEF IDefaults, HoldsSetting, Replacing, Amending
  <2> QED
    BY <1>2, <2>1, OthersHold DEF IDefaults
<1>11. RivalsOK'
  <2>1. ~Replacing(r)' /\ ~Amending(r)'
    BY <1>2 DEF Replacing, Amending
  <2> QED
    BY <1>2, <1>3, <2>1, RivalsStay DEF IDefaults
<1>12. GroupsOK'
  <2>1. ~Storing(r) /\ ~Storing(r)'
    BY <1>2 DEF Storing
  <2> QED
    BY <1>1, <1>2, <2>1, GroupsStay DEF IDefaults
<1>13. /\ \A u : MarkRaced(u)' = MarkRaced(u)
       /\ \A q \in Request \ {r} : (Pending(q)' <=> Pending(q)) /\ req'[q] = req[q]
       /\ \A q \in Request \ {r} : Pending(q) /\ req[q].table = t => MarkRaced(t)
  BY <1>2, <1>3 DEF MarkRaced, Together, Alone, Pending, Marking, IDefaults, RivalsOK
<1> HIDE DEF t, h
<1>14. OneMarkOK' /\ SomeMarkOK'
  <2> SUFFICES ASSUME NEW u \in SettingTables
               PROVE  /\ \/ MarkRaced(u)'
                         \/ /\ \A s, v \in Marked(u)' : s = v
                            /\ \A q \in Request : Pending(q)' /\ req'[q].table = u
                                   => Marked(u)' \subseteq {req'[q].id}
                      /\ \/ Marked(u)' # {} \/ u \in bare'
                         \/ \E q \in Request : Pending(q)' /\ req'[q].table = u
    BY DEF OneMarkOK, SomeMarkOK
  <2>1. CASE u = t
    BY <1>1, <1>2, <1>3, <1>8, <1>13, <2>1 DEF t, h
  <2>2. CASE u # t
    BY <1>1, <1>2, <1>8, <1>13, <2>2 DEF IDefaults, OneMarkOK, SomeMarkOK, t, h
  <2> QED
    BY <2>1, <2>2
<1> QED
  BY <1>2, <1>9, <1>10, <1>11, <1>12, <1>14 DEF IDefaults

\* A request writes its row of table t, or finds it gone, and is answered: it adds a
\* mark only where a new default was asked for, and takes the last one only if that is
\* known.
LEMMA RowStepKeeps ==
  ASSUME IDefaults, NEW r \in Request, NEW t \in SettingTables, Wired', Alone(r), raced' = raced,
         pc'[r] \in Answered, pc[r] \in {"insert", "mark", "unmarkOne", "rename", "remove"},
         req[r].table = t, UNCHANGED groupVars, DOMAIN settings' = SettingTables,
         \A u \in SettingTables \ {t} :
             settings'[u] = settings[u] /\ (u \in bare => u \in bare'),
         DOMAIN settings'[t] \subseteq Setting,
         settings'[t] \in [DOMAIN settings'[t] -> [default : BOOLEAN, live : BOOLEAN]],
         \/ Marked(t)' \subseteq Marked(t)
         \/ Pending(r) /\ (MarkRaced(t) \/ \A s, u \in Marked(t)' : s = u),
         \/ Marked(t)' # {} \/ t \in bare'
         \/ Marked(t)' = Marked(t) /\ (t \in bare => t \in bare') /\ ~Pending(r)
  PROVE  IDefaults'
<1>1. SettingsOK'
  BY DEF IDefaults, SettingsOK, groupVars
<1>2. \A q \in Request : HoldsSetting(q)'
  <2>1. HoldsSetting(r)'
    BY DEF HoldsSetting, Replacing, Amending
  <2> QED
    BY <2>1, OthersHold DEF IDefaults
<1>3. RivalsOK'
  <2>1. ~Replacing(r)' /\ ~Amending(r)' /\ ~Marking(r)'
    BY DEF Replacing, Amending, Marking
  <2> QED
    BY <2>1, RivalsStay DEF IDefaults
<1>4. GroupsOK'
  <2>1. ~Storing(r) /\ ~Storing(r)'
    BY DEF Storing
  <2> QED
    BY <2>1, GroupsStay DEF IDefaults
<1>5. /\ \A u : MarkRaced(u)' = MarkRaced(u)
      /\ \A q \in Request \ {r} : (Pending(q)' <=> Pending(q)) /\ req'[q] = req[q]
      /\ ~Pending(r)'
      /\ Pending(r) => \A q \in Request \ {r} : Pending(q) /\ req[q].table = t => MarkRaced(t)
  BY DEF MarkRaced, Together, Alone, Pending, Marking, IDefaults, RivalsOK
<1>6. \A u \in SettingTables \ {t} : Marked(u)' = Marked(u)
  BY DEF Marked, SettingsInUse
<1>7. OneMarkOK'
  <2> SUFFICES ASSUME NEW u \in SettingTables, ~MarkRaced(u)
               PROVE  /\ \A s, v \in Marked(u)' : s = v
                      /\ \A q \in Request : Pending(q)' /\ req'[q].table = u
                             => Marked(u)' \subseteq {req'[q].id}
    BY <1>5 DEF OneMarkOK
  <2>1. CASE u = t
    BY <1>5, <2>1 DEF IDefaults, OneMarkOK
  <2>2. CASE u # t
    BY <1>5, <1>6, <2>2 DEF IDefaults, OneMarkOK
  <2> QED
    BY <2>1, <2>2
<1>8. SomeMarkOK'
  <2> SUFFICES ASSUME NEW u \in SettingTables, Marked(u)' = {}, u \notin bare'
               PROVE  \E q \in Request : Pending(q)' /\ req'[q].table = u
    BY DEF SomeMarkOK
  <2>1. CASE u = t
    BY <1>5, <2>1 DEF IDefaults, SomeMarkOK
  <2>2. CASE u # t
    BY <1>5, <1>6, <2>2 DEF IDefaults, SomeMarkOK
  <2> QED
    BY <2>1, <2>2
<1> QED
  BY <1>1, <1>2, <1>3, <1>4, <1>7, <1>8 DEF IDefaults

LEMMA InsertSettingKeeps ==
  ASSUME IDefaults, NEW r \in Request, InsertSetting(r)
  PROVE  IDefaults'
<1> DEFINE now == req[r].table
           row == [default |-> req[r].default, live |-> TRUE]
<1>1. PICK s \in Setting \ DOMAIN settings[now] :
         settings' = [settings EXCEPT ![now] =
             [x \in DOMAIN settings[now] \cup {s} |-> IF x = s THEN row ELSE settings[now][x]]]
  BY DEF InsertSetting
<1> DEFINE written ==
        [x \in DOMAIN settings[now] \cup {s} |-> IF x = s THEN row ELSE settings[now][x]]
<1>2. /\ Go(r, "insert", "ok") /\ UNCHANGED groupVars
      /\ bare' = IF req[r].default THEN bare \ {now} ELSE bare
  BY DEF InsertSetting
<1>3. Wired' /\ Alone(r) /\ pc[r] = "insert" /\ pc'[r] = "ok" /\ raced' = raced
  BY <1>2, GoMoves DEF IDefaults
<1>4. PICK t, default : t = now /\ default = req[r].default
  OBVIOUS
<1>5. /\ t \in SettingTables /\ req[r].id = NoSetting /\ default \in BOOLEAN
      /\ Pending(r) <=> default
  BY <1>3, <1>4 DEF IDefaults, HoldsSetting, Pending
<1>6. row \in [default : BOOLEAN, live : BOOLEAN] /\ row.live /\ row.default = default
  BY <1>4, <1>5
<1>7. /\ DOMAIN settings' = SettingTables /\ settings'[t] = written
      /\ \A u \in SettingTables \ {t} : settings'[u] = settings[u]
  BY <1>1, <1>4, <1>5 DEF IDefaults, SettingsOK
<1> HIDE DEF row
<1>8. /\ DOMAIN written = DOMAIN settings[t] \cup {s} /\ written[s] = row
      /\ \A x \in DOMAIN settings[t] : written[x] = settings[t][x]
      /\ written \in [DOMAIN written -> [default : BOOLEAN, live : BOOLEAN]]
  BY <1>1, <1>4, <1>5, <1>6 DEF IDefaults, SettingsOK
<1> HIDE DEF written, now
<1>9. Marked(t)' = Marked(t) \cup (IF default THEN {s} ELSE {})
  <2>1. \A x : x \in Marked(t)' <=> x \in DOMAIN written /\ written[x].live /\ written[x].default
    BY <1>7 DEF Marked, SettingsInUse
  <2>2. \A x : x \in Marked(t) <=> x \in DOMAIN settings[t] /\ settings[t][x].live
                                     /\ settings[t][x].default
    BY DEF Marked, SettingsInUse
  <2> QED
    BY <1>1, <1>4, <1>5, <1>6, <1>8, <2>1, <2>2
<1>10. DOMAIN settings'[t] \subseteq Setting
  BY <1>5, <1>7, <1>8 DEF IDefaults, SettingsOK
<1>11. CASE default
  <2>1. MarkRaced(t) \/ Marked(t) \subseteq {NoSetting}
    BY <1>4, <1>5, <1>11 DEF IDefaults, OneMarkOK, now
  <2>2. MarkRaced(t) \/ Marked(t) = {}
    BY <1>5, <2>1, SettingAssumption DEF IDefaults, SettingsOK, Marked, SettingsInUse
  <2>3. Marked(t)' # {} /\ (MarkRaced(t) \/ \A x, y \in Marked(t)' : x = y)
    BY <1>9, <1>11, <2>2
  <2>4. \A u \in SettingTables \ {t} : u \in bare => u \in bare'
    BY <1>2, <1>4
  <2> QED
    BY <1>2, <1>3, <1>4, <1>5, <1>7, <1>8, <1>10, <1>11, <2>3, <2>4, RowStepKeeps DEF now
<1>12. CASE ~default
  <2>1. Marked(t)' = Marked(t) /\ bare' = bare /\ ~Pending(r)
    BY <1>2, <1>4, <1>5, <1>9, <1>12
  <2> QED
    BY <1>2, <1>3, <1>4, <1>5, <1>7, <1>8, <1>10, <2>1, RowStepKeeps DEF now
<1> QED
  BY <1>11, <1>12

\* A row of table t is marked, or its mark is taken.
LEMMA MarkWritten ==
  ASSUME SettingsOK, NEW t \in SettingTables, NEW x \in DOMAIN settings[t], NEW v \in BOOLEAN,
         settings' = [settings EXCEPT ![t][x].default = v]
  PROVE  /\ DOMAIN settings' = SettingTables
         /\ \A u \in SettingTables \ {t} : settings'[u] = settings[u]
         /\ DOMAIN settings'[t] \subseteq Setting
         /\ settings'[t] \in [DOMAIN settings'[t] -> [default : BOOLEAN, live : BOOLEAN]]
         /\ Marked(t)' = IF v /\ x \in SettingsInUse(t) THEN Marked(t) \cup {x}
                         ELSE Marked(t) \ {x}
<1> DEFINE row == [settings[t][x] EXCEPT !.default = v]
           written == [settings[t] EXCEPT ![x] = row]
<1>1. settings' = [settings EXCEPT ![t] = written]
  OBVIOUS
<1>2. settings[t][x] \in [default : BOOLEAN, live : BOOLEAN]
  BY DEF SettingsOK
<1>3. /\ row \in [default : BOOLEAN, live : BOOLEAN]
      /\ row.live = settings[t][x].live /\ row.default = v
  BY <1>2
<1> HIDE DEF row
<1>4. /\ DOMAIN written = DOMAIN settings[t] /\ written[x] = row
      /\ \A y \in DOMAIN settings[t] : y # x => written[y] = settings[t][y]
      /\ written \in [DOMAIN written -> [default : BOOLEAN, live : BOOLEAN]]
  BY <1>3 DEF SettingsOK
<1> HIDE DEF written
<1>5. /\ DOMAIN settings' = SettingTables /\ settings'[t] = written
      /\ \A u \in SettingTables \ {t} : settings'[u] = settings[u]
  BY <1>1 DEF SettingsOK
<1>6. /\ \A y : y \in Marked(t)' <=> y \in DOMAIN written /\ written[y].live /\ written[y].default
      /\ \A y : y \in Marked(t) <=> y \in DOMAIN settings[t] /\ settings[t][y].live
                                     /\ settings[t][y].default
      /\ x \in SettingsInUse(t) <=> settings[t][x].live
  BY <1>5 DEF Marked, SettingsInUse
<1> QED
  BY <1>3, <1>4, <1>5, <1>6 DEF SettingsOK

LEMMA StoreSettingKeeps ==
  ASSUME IDefaults, NEW r \in Request, StoreSetting(r)
  PROVE  IDefaults'
<1>1. PICK t, x : t = req[r].table /\ x = req[r].id
  OBVIOUS
<1>2. PICK now \in {"mark", "unmarkOne", "rename"}, next \in {"ok", "error"} :
          /\ pc[r] = now /\ Go(r, now, next)
          /\ next = "ok" <=> x \in DOMAIN settings[t]
          /\ next = "error" => UNCHANGED settings
  BY <1>1 DEF StoreSetting
<1>3. /\ Wired' /\ Alone(r) /\ pc'[r] = next /\ raced' = raced
  BY <1>2, GoMoves DEF IDefaults
<1>4. /\ t \in SettingTables /\ UNCHANGED groupVars
      /\ bare' = IF now = "mark" /\ x \in SettingsInUse(t) THEN bare \ {t}
                 ELSE IF now = "mark" \/ (now = "unmarkOne" /\ x \in Marked(t))
                 THEN bare \cup {t} ELSE bare
      /\ Pending(r) <=> now = "mark"
  BY <1>1, <1>2 DEF IDefaults, HoldsSetting, Pending, StoreSetting
<1>5. \A u \in SettingTables \ {t} : u \in bare => u \in bare'
  BY <1>4
<1>6. CASE next = "error"
  <2>1. x \notin DOMAIN settings[t] /\ UNCHANGED settings
    BY <1>2, <1>6
  <2>2. Marked(t)' = Marked(t) /\ x \notin SettingsInUse(t) /\ x \notin Marked(t)
    BY <2>1 DEF Marked, SettingsInUse
  <2>3. now = "mark" => t \in bare'
    BY <1>4, <2>2
  <2>4. now # "mark" => bare' = bare
    BY <1>4, <2>2
  <2>5. /\ DOMAIN settings' = SettingTables /\ DOMAIN settings'[t] \subseteq Setting
        /\ settings'[t] \in [DOMAIN settings'[t] -> [default : BOOLEAN, live : BOOLEAN]]
    BY <1>4, <2>1 DEF IDefaults, SettingsOK
  <2> QED
    BY <1>1, <1>2, <1>3, <1>4, <1>5, <1>6, <2>1, <2>2, <2>3, <2>4, <2>5, RowStepKeeps
<1>7. CASE next = "ok"
  <2>1. x \in DOMAIN settings[t] /\ settings[t][x].default \in BOOLEAN
    BY <1>2, <1>4, <1>7 DEF IDefaults, SettingsOK
  <2>2. PICK v \in BOOLEAN :
           /\ settings' = [settings EXCEPT ![t][x].default = v]
           /\ now = "mark" => v = TRUE
           /\ now = "unmarkOne" => v = FALSE
           /\ now = "rename" => v = settings[t][x].default
    <3>1. CASE now = "mark"
      BY <1>1, <1>2, <2>1, <3>1 DEF StoreSetting
    <3>2. CASE now = "unmarkOne"
      BY <1>1, <1>2, <2>1, <3>2 DEF StoreSetting
    <3>3. CASE now = "rename"
      BY <1>1, <1>2, <2>1, <3>3 DEF StoreSetting
    <3> QED
      BY <3>1, <3>2, <3>3
  <2>3. /\ DOMAIN settings' = SettingTables
        /\ \A u \in SettingTables \ {t} : settings'[u] = settings[u]
        /\ DOMAIN settings'[t] \subseteq Setting
        /\ settings'[t] \in [DOMAIN settings'[t] -> [default : BOOLEAN, live : BOOLEAN]]
        /\ Marked(t)' = IF v /\ x \in SettingsInUse(t) THEN Marked(t) \cup {x}
                        ELSE Marked(t) \ {x}
    BY <1>4, <2>1, <2>2, MarkWritten DEF IDefaults
  <2>4. x \in Marked(t) <=> x \in SettingsInUse(t) /\ settings[t][x].default
    BY DEF Marked
  <2>5. \/ Marked(t)' \subseteq Marked(t)
        \/ Pending(r) /\ (MarkRaced(t) \/ \A s, u \in Marked(t)' : s = u)
    <3>1. CASE now = "mark"
      <4>1. MarkRaced(t) \/ Marked(t) \subseteq {x}
        BY <1>1, <1>4, <3>1 DEF IDefaults, OneMarkOK
      <4> QED
        BY <1>4, <2>3, <3>1, <4>1
    <3>2. CASE now # "mark"
      BY <2>2, <2>3, <2>4, <3>2
    <3> QED
      BY <3>1, <3>2
  <2>6. \/ Marked(t)' # {} \/ t \in bare'
        \/ Marked(t)' = Marked(t) /\ (t \in bare => t \in bare') /\ ~Pending(r)
    <3>1. CASE now = "mark"
      BY <1>4, <2>2, <2>3, <3>1
    <3>2. CASE now # "mark"
      BY <1>4, <2>2, <2>3, <2>4, <3>2
    <3> QED
      BY <3>1, <3>2
  <2> QED
    BY <1>1, <1>2, <1>3, <1>4, <1>5, <1>7, <2>3, <2>5, <2>6, RowStepKeeps
<1> QED
  BY <1>6, <1>7

LEMMA DeleteSettingKeeps ==
  ASSUME IDefaults, NEW r \in Request, DeleteSetting(r)
  PROVE  IDefaults'
<1>1. PICK t, x : t = req[r].table /\ x = req[r].id
  OBVIOUS
<1>2. PICK next \in {"ok", "error"} :
          /\ pc[r] = "remove" /\ Go(r, "remove", next)
          /\ next = "ok" <=> x \in DOMAIN settings[t]
          /\ next = "error" => UNCHANGED settings
  BY <1>1 DEF DeleteSetting
<1>3. /\ Wired' /\ Alone(r) /\ pc'[r] = next /\ raced' = raced
  BY <1>2, GoMoves DEF IDefaults
<1>4. /\ t \in SettingTables /\ UNCHANGED groupVars /\ ~Pending(r)
      /\ bare' = IF x \in Marked(t) THEN bare \cup {t} ELSE bare
  BY <1>1, <1>2 DEF IDefaults, HoldsSetting, Pending, DeleteSetting
<1>5. /\ DOMAIN settings' = SettingTables
      /\ \A u \in SettingTables \ {t} : settings'[u] = settings[u]
      /\ DOMAIN settings'[t] \subseteq Setting
      /\ settings'[t] \in [DOMAIN settings'[t] -> [default : BOOLEAN, live : BOOLEAN]]
      /\ Marked(t)' = Marked(t) \ {x}
  <2>1. CASE next = "error"
    <3>1. x \notin Marked(t) /\ Marked(t)' = Marked(t)
      BY <1>2, <2>1 DEF Marked, SettingsInUse
    <3> QED
      BY <1>2, <1>4, <2>1, <3>1 DEF IDefaults, SettingsOK
  <2>2. CASE next = "ok" /\ t # "tax"
    <3> DEFINE written == [s \in DOMAIN settings[t] \ {x} |-> settings[t][s]]
    <3>1. settings' = [settings EXCEPT ![t] = written]
      BY <1>1, <1>2, <2>2 DEF DeleteSetting
    <3>2. /\ DOMAIN written = DOMAIN settings[t] \ {x}
          /\ \A s \in DOMAIN written : written[s] = settings[t][s]
          /\ written \in [DOMAIN written -> [default : BOOLEAN, live : BOOLEAN]]
      BY <1>4 DEF IDefaults, SettingsOK
    <3> HIDE DEF written
    <3>3. /\ DOMAIN settings' = SettingTables /\ settings'[t] = written
          /\ \A u \in SettingTables \ {t} : settings'[u] = settings[u]
      BY <1>4, <3>1 DEF IDefaults, SettingsOK
    <3>4. /\ \A y : y \in Marked(t)' <=> y \in DOMAIN written /\ written[y].live
                                         /\ written[y].default
          /\ \A y : y \in Marked(t) <=> y \in DOMAIN settings[t] /\ settings[t][y].live
                                         /\ settings[t][y].default
      BY <3>3 DEF Marked, SettingsInUse
    <3> QED
      BY <1>4, <3>2, <3>3, <3>4 DEF IDefaults, SettingsOK
  <2>3. CASE next = "ok" /\ t = "tax"
    <3> DEFINE row == [settings[t][x] EXCEPT !.live = FALSE]
               written == [settings[t] EXCEPT ![x] = row]
    <3>1. settings' = [settings EXCEPT ![t] = written]
      BY <1>1, <1>2, <2>3 DEF DeleteSetting
    <3>2. x \in DOMAIN settings[t] /\ settings[t][x] \in [default : BOOLEAN, live : BOOLEAN]
      BY <1>2, <1>4, <2>3 DEF IDefaults, SettingsOK
    <3>3. row \in [default : BOOLEAN, live : BOOLEAN] /\ ~row.live
      BY <3>2
    <3> HIDE DEF row
    <3>4. /\ DOMAIN written = DOMAIN settings[t] /\ written[x] = row
          /\ \A y \in DOMAIN settings[t] : y # x => written[y] = settings[t][y]
          /\ written \in [DOMAIN written -> [default : BOOLEAN, live : BOOLEAN]]
      BY <1>4, <3>2, <3>3 DEF IDefaults, SettingsOK
    <3> HIDE DEF written
    <3>5. /\ DOMAIN settings' = SettingTables /\ settings'[t] = written
          /\ \A u \in SettingTables \ {t} : settings'[u] = settings[u]
      BY <1>4, <3>1 DEF IDefaults, SettingsOK
    <3>6. /\ \A y : y \in Marked(t)' <=> y \in DOMAIN written /\ written[y].live
                                         /\ written[y].default
          /\ \A y : y \in Marked(t) <=> y \in DOMAIN settings[t] /\ settings[t][y].live
                                         /\ settings[t][y].default
      BY <3>5 DEF Marked, SettingsInUse
    <3> QED
      BY <1>4, <3>3, <3>4, <3>5, <3>6 DEF IDefaults, SettingsOK
  <2> QED
    BY <2>1, <2>2, <2>3
<1>6. \/ Marked(t)' # {} \/ t \in bare'
      \/ Marked(t)' = Marked(t) /\ (t \in bare => t \in bare') /\ ~Pending(r)
  BY <1>4, <1>5
<1> QED
  BY <1>1, <1>2, <1>3, <1>4, <1>5, <1>6, RowStepKeeps

\* The taxes of the group g are written, by a request that is then storing or answered.
LEMMA GroupStepKeeps ==
  ASSUME IDefaults, NEW r \in Request, NEW g \in Setting, NEW sub, NEW ask, Wired', Alone(r),
         raced' = raced, Replacing(r) \/ Amending(r), req[r].id = g,
         \/ pc'[r] \in Answered
         \/ pc[r] = "clearTaxes" /\ pc'[r] = "storeTaxes" /\ req'[r] = req[r],
         UNCHANGED settingVars, halved \ {g} \subseteq halved',
         DOMAIN subTaxes' = Setting, DOMAIN asked' = Setting, subTaxes'[g] = sub, asked'[g] = ask,
         \A x \in Setting \ {g} : subTaxes'[x] = subTaxes[x] /\ asked'[x] = asked[x],
         \/ GroupRaced(g)
         \/ Storing(r)' /\ sub = {} /\ ask = req[r].taxes
         \/ ~Storing(r)' /\ (sub = ask \/ g \in halved')
                         /\ \A q \in Request \ {r} : ~(Storing(q) /\ req[q].id = g)
  PROVE  IDefaults'
<1>1. OneMarkOK' /\ SomeMarkOK'
  <2>1. ~Pending(r) /\ ~Pending(r)'
    BY DEF Pending, Replacing, Amending
  <2> QED
    BY <2>1, SettingsStay DEF IDefaults, settingVars
<1>2. SettingsOK'
  BY DEF IDefaults, SettingsOK, settingVars
<1>3. \A q \in Request : HoldsSetting(q)'
  <2>1. HoldsSetting(r)'
    BY DEF IDefaults, HoldsSetting, Replacing, Amending
  <2> QED
    BY <2>1, OthersHold DEF IDefaults
<1>4. RivalsOK'
  <2>1. ~Marking(r)' /\ ~Amending(r)' /\ (Replacing(r)' => Replacing(r) /\ req'[r] = req[r])
    BY DEF Replacing, Amending, Marking
  <2> QED
    BY <2>1, RivalsStay DEF IDefaults
<1>5. /\ \A x : GroupRaced(x)' = GroupRaced(x)
      /\ \A q \in Request \ {r} : (Storing(q)' <=> Storing(q)) /\ req'[q] = req[q]
      /\ Storing(r)' => req'[r] = req[r]
      /\ Replacing(r) => \A q \in Request \ {r} : Storing(q) /\ req[q].id = g => GroupRaced(g)
  BY DEF GroupRaced, Together, Group, Alone, Storing, Replacing, IDefaults, RivalsOK
<1>6. GroupsOK'
  <2> SUFFICES ASSUME NEW x \in Setting, ~GroupRaced(x)
               PROVE  /\ \A q \in Request : Storing(q)' /\ req'[q].id = x =>
                             subTaxes'[x] = {} /\ asked'[x] = req'[q].taxes
                      /\ \/ x \in halved' \/ subTaxes'[x] = asked'[x]
                         \/ \E q \in Request : Storing(q)' /\ req'[q].id = x
    BY <1>5 DEF GroupsOK
  <2>1. CASE x = g
    <3>1. CASE Storing(r)' /\ sub = {} /\ ask = req[r].taxes
      <4>1. Replacing(r)
        BY <3>1 DEF Storing, Replacing
      <4> QED
        BY <1>5, <2>1, <3>1, <4>1
    <3>2. CASE ~Storing(r)' /\ (sub = ask \/ g \in halved')
                           /\ \A q \in Request \ {r} : ~(Storing(q) /\ req[q].id = g)
      BY <1>5, <2>1, <3>2
    <3> QED
      BY <2>1, <3>1, <3>2
  <2>2. CASE x # g
    BY <1>5, <2>2 DEF IDefaults, GroupsOK
  <2> QED
    BY <2>1, <2>2
<1> QED
  BY <1>1, <1>2, <1>3, <1>4, <1>6 DEF IDefaults

LEMMA ClearTaxesKeeps ==
  ASSUME IDefaults, NEW r \in Request, ClearTaxes(r)
  PROVE  IDefaults'
<1> DEFINE next == IF req[r].taxes = {} THEN "ok" ELSE "storeTaxes"
<1>1. /\ Go(r, "clearTaxes", next) /\ UNCHANGED settingVars /\ halved' = halved \ {req[r].id}
      /\ subTaxes' = [subTaxes EXCEPT ![req[r].id] = {}]
      /\ asked' = [asked EXCEPT ![req[r].id] = req[r].taxes]
  BY DEF ClearTaxes
<1>2. /\ Wired' /\ Alone(r) /\ pc[r] = "clearTaxes" /\ pc'[r] = next /\ raced' = raced
      /\ next = "storeTaxes" => req'[r] = req[r]
  BY <1>1, GoMoves DEF IDefaults
<1>3. PICK g \in Setting : g = req[r].id
  BY <1>2 DEF IDefaults, HoldsSetting, Replacing
<1>4. Replacing(r) /\ ~Storing(r) /\ (Storing(r)' <=> req[r].taxes # {})
  BY <1>2 DEF Replacing, Storing
<1>5. GroupRaced(g) \/ \A q \in Request \ {r} : ~(Storing(q) /\ req[q].id = g)
  BY <1>3, <1>4 DEF IDefaults, RivalsOK, Storing, Replacing
<1>6. PICK ask : ask = req[r].taxes
  OBVIOUS
<1>7. /\ DOMAIN subTaxes' = Setting /\ DOMAIN asked' = Setting
      /\ subTaxes'[g] = {} /\ asked'[g] = ask
      /\ \A x \in Setting \ {g} : subTaxes'[x] = subTaxes[x] /\ asked'[x] = asked[x]
  BY <1>1, <1>3, <1>6 DEF IDefaults, SettingsOK
<1>8. pc'[r] \in Answered \/ (pc'[r] = "storeTaxes" /\ req'[r] = req[r])
  BY <1>2
<1> QED
  BY <1>1, <1>2, <1>3, <1>4, <1>5, <1>6, <1>7, <1>8, GroupStepKeeps

LEMMA StoreTaxesKeeps ==
  ASSUME IDefaults, NEW r \in Request, StoreTaxes(r)
  PROVE  IDefaults'
<1>1. /\ Go(r, "storeTaxes", "ok") /\ UNCHANGED <<settingVars, asked, halved>>
      /\ subTaxes' = [subTaxes EXCEPT ![req[r].id] = @ \cup req[r].taxes]
  BY DEF StoreTaxes
<1>2. Wired' /\ Alone(r) /\ pc[r] = "storeTaxes" /\ pc'[r] = "ok" /\ raced' = raced
  BY <1>1, GoMoves DEF IDefaults
<1>3. PICK g \in Setting : g = req[r].id
  BY <1>2 DEF IDefaults, HoldsSetting, Replacing
<1>4. Replacing(r) /\ Storing(r) /\ ~Storing(r)'
  BY <1>2 DEF Replacing, Storing
<1>5. GroupRaced(g) \/ \A q \in Request \ {r} : ~(Storing(q) /\ req[q].id = g)
  BY <1>3, <1>4 DEF IDefaults, RivalsOK, Storing, Replacing
<1>6. GroupRaced(g) \/ (subTaxes[g] = {} /\ asked[g] = req[r].taxes)
  BY <1>3, <1>4 DEF IDefaults, GroupsOK
<1>7. PICK sub, ask : sub = subTaxes[g] \cup req[r].taxes /\ ask = asked[g]
  OBVIOUS
<1>8. /\ DOMAIN subTaxes' = Setting /\ DOMAIN asked' = Setting
      /\ subTaxes'[g] = sub /\ asked'[g] = ask
      /\ \A x \in Setting \ {g} : subTaxes'[x] = subTaxes[x] /\ asked'[x] = asked[x]
  BY <1>1, <1>3, <1>7 DEF IDefaults, SettingsOK
<1>9. GroupRaced(g) \/ sub = ask
  BY <1>6, <1>7
<1>10. UNCHANGED settingVars /\ halved' = halved
  BY <1>1
<1> QED
  BY <1>2, <1>3, <1>4, <1>5, <1>8, <1>9, <1>10, GroupStepKeeps

LEMMA AmendKeeps ==
  ASSUME IDefaults, NEW r \in Request, AddSubTax(r) \/ RemoveSubTax(r)
  PROVE  IDefaults'
<1>1. PICK now \in {"addTax", "takeTax"} :
         Go(r, now, "ok") /\ UNCHANGED <<settingVars, halved>>
  BY DEF AddSubTax, RemoveSubTax
<1>2. Wired' /\ Alone(r) /\ pc[r] = now /\ pc'[r] = "ok" /\ raced' = raced
  BY <1>1, GoMoves DEF IDefaults
<1>3. PICK g \in Setting : g = req[r].id
  BY <1>2 DEF IDefaults, HoldsSetting, Amending
<1>4. Amending(r) /\ ~Storing(r)'
  BY <1>2 DEF Amending, Storing
<1>5. GroupRaced(g) \/ \A q \in Request \ {r} : ~(Storing(q) /\ req[q].id = g)
  BY <1>3, <1>4 DEF IDefaults, RivalsOK, Storing, Replacing, Amending
<1>6. GroupRaced(g) \/ (subTaxes[g] = asked[g] \/ g \in halved)
  BY <1>2, <1>5 DEF IDefaults, GroupsOK, Storing
<1>7. /\ DOMAIN subTaxes' = Setting /\ DOMAIN asked' = Setting
      /\ subTaxes[g] = asked[g] => subTaxes'[g] = asked'[g]
      /\ \A x \in Setting \ {g} : subTaxes'[x] = subTaxes[x] /\ asked'[x] = asked[x]
  <2>1. CASE AddSubTax(r)
    <3>1. /\ subTaxes' = [subTaxes EXCEPT ![g] = subTaxes[g] \cup {req[r].tax}]
          /\ asked' = [asked EXCEPT ![g] = asked[g] \cup {req[r].tax}]
      BY <1>3, <2>1 DEF AddSubTax
    <3> QED
      BY <3>1 DEF IDefaults, SettingsOK
  <2>2. CASE RemoveSubTax(r)
    <3>1. /\ subTaxes' = [subTaxes EXCEPT ![g] = subTaxes[g] \ {req[r].tax}]
          /\ asked' = [asked EXCEPT ![g] = asked[g] \ {req[r].tax}]
      BY <1>3, <2>2 DEF RemoveSubTax
    <3> QED
      BY <3>1 DEF IDefaults, SettingsOK
  <2> QED
    BY <2>1, <2>2
<1>8. GroupRaced(g) \/ (subTaxes'[g] = asked'[g] \/ g \in halved')
  BY <1>1, <1>6, <1>7
<1>9. UNCHANGED settingVars /\ halved' = halved
  BY <1>1
<1> QED
  BY <1>2, <1>3, <1>4, <1>5, <1>7, <1>8, <1>9, GroupStepKeeps

\* Requests end, in an error or with the process: the tables they leave bare and the
\* groups they leave half made are known.
LEMMA DefaultsEndKeeps ==
  ASSUME IDefaults, NEW rs \in SUBSET Request, Wired', raced' = raced, DefaultsLeftBy(rs),
         \A q \in Request \ rs : pc'[q] = pc[q] /\ (Busy(q) => req'[q] = req[q]),
         \A q \in rs : pc'[q] \in Answered \cup {"new"}
  PROVE  IDefaults'
<1>1. \A q \in Request :
         /\ pc'[q] \in Answered \cup {"new"} \/ (q \notin rs /\ pc'[q] = pc[q] /\ req'[q] = req[q])
         /\ q \notin rs /\ pc[q] \notin Answered \cup {"new"} => pc'[q] = pc[q] /\ req'[q] = req[q]
  BY DEF Busy
<1>2. /\ UNCHANGED <<settings, subTaxes, asked>>
      /\ bare' = bare \cup {req[r].table : r \in {x \in rs : Pending(x)}}
      /\ halved' = halved \cup {req[r].id : r \in {x \in rs : Storing(x)}}
  BY DEF DefaultsLeftBy, Pending, Storing
<1>3. /\ \A u : MarkRaced(u)' = MarkRaced(u) /\ GroupRaced(u)' = GroupRaced(u)
      /\ \A u : Marked(u)' = Marked(u)
  BY <1>2 DEF MarkRaced, GroupRaced, Together, Table, Group, Marked, SettingsInUse
<1>4. /\ \A q \in Request : HoldsSetting(q)'
      /\ \A q \in Request : /\ Marking(q)' => Marking(q) /\ req'[q] = req[q]
                            /\ Replacing(q)' => Replacing(q) /\ req'[q] = req[q]
                            /\ Amending(q)' => Amending(q) /\ req'[q] = req[q]
                            /\ Pending(q)' => Pending(q) /\ req'[q] = req[q]
                            /\ Storing(q)' => Storing(q) /\ req'[q] = req[q]
                            /\ Pending(q) /\ q \notin rs => Pending(q)' /\ req'[q] = req[q]
                            /\ Storing(q) /\ q \notin rs => Storing(q)' /\ req'[q] = req[q]
  BY <1>1 DEF IDefaults, HoldsSetting, Marking, Replacing, Amending, Pending, Storing
<1>5. SettingsOK'
  BY <1>2 DEF IDefaults, SettingsOK
<1>6. RivalsOK'
  BY <1>3, <1>4 DEF IDefaults, RivalsOK
<1>7. OneMarkOK'
  BY <1>3, <1>4 DEF IDefaults, OneMarkOK
<1>8. SomeMarkOK'
  BY <1>2, <1>3, <1>4 DEF IDefaults, SomeMarkOK
<1>9. GroupsOK'
  BY <1>2, <1>3, <1>4 DEF IDefaults, GroupsOK
<1> QED
  BY <1>4, <1>5, <1>6, <1>7, <1>8, <1>9 DEF IDefaults

LEMMA DefaultsStepKeeps == IDefaults /\ [DefaultsNext]_<<requestVars, defaultVars>> => IDefaults'
<1> SUFFICES ASSUME IDefaults, [DefaultsNext]_<<requestVars, defaultVars>> PROVE IDefaults'
  OBVIOUS
<1>1. ASSUME NEW r \in Request, TaxRateStep(r) \/ InvoiceSettingStep(r)
      PROVE  IDefaults'
  <2>1. "tax" \in SettingTables /\ "layout" \in SettingTables /\ "scheme" \in SettingTables
    BY DEF SettingTables
  <2>2. CASE CreateTaxRate(r) \/ UpdateTaxRate(r) \/ RemoveTaxRate(r)
    BY <2>1, <2>2, FindsKeep DEF CreateTaxRate, UpdateTaxRate, RemoveTaxRate
  <2>3. CASE CreateInvoiceLayout(r) \/ UpdateInvoiceLayout(r) \/ RemoveInvoiceLayout(r)
    BY <2>1, <2>3, FindsKeep DEF CreateInvoiceLayout, UpdateInvoiceLayout, RemoveInvoiceLayout
  <2>4. CASE CreateInvoiceScheme(r) \/ UpdateInvoiceScheme(r) \/ RemoveInvoiceScheme(r)
    BY <2>1, <2>4, FindsKeep DEF CreateInvoiceScheme, UpdateInvoiceScheme, RemoveInvoiceScheme
  <2> QED
    BY <1>1, <2>2, <2>3, <2>4, GroupFindsKeep, ClearTaxesKeeps, StoreTaxesKeeps, AmendKeeps
       DEF TaxRateStep, InvoiceSettingStep
<1>2. ASSUME NEW r \in Request, SettingStep(r)
      PROVE  IDefaults'
  BY <1>2, UnmarkKeeps, InsertSettingKeeps, StoreSettingKeeps, DeleteSettingKeeps DEF SettingStep
<1>3. ASSUME NEW r \in Request, Fail(r), DefaultsLeftBy({r})
      PROVE  IDefaults'
  <2>1. Wired' /\ Alone(r) /\ pc'[r] = "error" /\ raced' = raced
    BY <1>3, FailMoves DEF IDefaults
  <2> QED
    BY <1>3, <2>1, DefaultsEndKeeps DEF Alone
<1>4. CASE Halt /\ DefaultsLeftBy(Request)
  <2>1. Wired' /\ raced' = raced /\ \A q \in Request : pc'[q] \in Answered \cup {"new"}
    BY <1>4, HaltMoves DEF IDefaults, Busy
  <2> QED
    BY <1>4, <2>1, DefaultsEndKeeps
<1>5. CASE UNCHANGED <<requestVars, defaultVars>>
  <2>1. Wired' /\ raced' = raced /\ UNCHANGED <<pc, req>>
    BY <1>5 DEF requestVars, IDefaults, Wired
  <2>2. DefaultsLeftBy({})
    BY <1>5 DEF DefaultsLeftBy, defaultVars, settingVars, groupVars
  <2> QED
    BY <2>1, <2>2, DefaultsEndKeeps
<1> QED
  BY <1>1, <1>2, <1>3, <1>4, <1>5 DEF DefaultsNext
-----------------------------------------------------------------------------
\* At all times a table has one default, unless two were made at a time, one is just
\* being made, or the last was taken away with none put in its place
\* (TaxRatesService and DocumentsService: create, update, remove).
THEOREM DefaultsAreExplained == DefaultsSpec => []DefaultsExplained
<1>1. RequestInit /\ DefaultsInit => IDefaults
  BY DefaultsInitial
<1>2. IDefaults /\ [DefaultsNext]_<<requestVars, defaultVars>> => IDefaults'
  BY DefaultsStepKeeps
<1>3. IDefaults => DefaultsExplained
  BY DefaultsImply
<1> QED
  BY <1>1, <1>2, <1>3, PTL DEF DefaultsSpec

\* At all times a group tax is made of what it was last asked to be, unless its taxes
\* are being replaced, were changed while they were, or stayed half replaced
\* (TaxRatesService.setSubTaxes, addSubTax, removeSubTax).
THEOREM GroupTaxesAreAsAsked == DefaultsSpec => []GroupTaxesAsAsked
<1>1. RequestInit /\ DefaultsInit => IDefaults
  BY DefaultsInitial
<1>2. IDefaults /\ [DefaultsNext]_<<requestVars, defaultVars>> => IDefaults'
  BY DefaultsStepKeeps
<1>3. IDefaults => GroupTaxesAsAsked
  BY DefaultsImply
<1> QED
  BY <1>1, <1>2, <1>3, PTL DEF DefaultsSpec
-----------------------------------------------------------------------------
(***************************************************************************)
(* UnitsHaveTwoLevels, SkusAreUnique, StaleListExplained and               *)
(* ImagesExplained, for any number of units, products, SKUs, pictures and  *)
(* requests.                                                               *)
(*                                                                         *)
(* The first two say what a check has found: it stays true until the write *)
(* unless a rival is under way. The lists need no more than they say. Of   *)
(* pictures it must be known that no two products share one, and that one  *)
(* on its way to a product is named nowhere yet, so that nobody deletes it.*)
(***************************************************************************)
AddingUnit(r) == pc[r] = "insertUnit"
Rebasing(r) == pc[r] \in {"checkBase", "countSubUnits", "storeUnit"}
DroppingUnit(r) == pc[r] = "dropUnit"
Saving(r) == pc[r] \in {"checkSku", "insertProduct", "writeProduct", "importRow", "importInsert"}
Picturing(r) == pc[r] = "storeImage"
AtCategory == {"insertCategory", "findNewParent", "walk", "moveCategory", "dropCategory"}

UnitsRaced ==
    \E a \in {"addUnit", "rebaseUnit"}, b \in {"rebaseUnit", "dropUnit"} : Together(Units, a, b)
SkusRaced == Together(Products, "saveProduct", "saveProduct")

\* What a request holds.
HoldsGoods(r) ==
    /\ pc[r] \in Answered \cup {"new"} \cup AtCategory
              \cup {"insertUnit", "checkBase", "countSubUnits", "storeUnit", "dropUnit",
                    "fill", "dropLists", "removeProduct", "storeImage",
                    "checkSku", "insertProduct", "writeProduct", "importRow", "importInsert"}
    /\ AddingUnit(r) \/ Rebasing(r) \/ DroppingUnit(r) =>
          "on" \in DOMAIN req[r] /\ req[r].on = Units
    /\ AddingUnit(r) => req[r].kind = "addUnit"
    /\ AddingUnit(r) \/ Rebasing(r) => req[r].base \in Unit \cup {None}
    /\ Rebasing(r) => req[r].kind = "rebaseUnit" /\ req[r].base # req[r].id
    /\ DroppingUnit(r) => req[r].kind = "dropUnit"
    /\ Saving(r) => /\ "on" \in DOMAIN req[r] /\ req[r].on = Products
                    /\ req[r].kind = "saveProduct"
    /\ pc[r] \in {"checkSku", "insertProduct", "writeProduct", "importInsert"} =>
          req[r].sku \in Sku
    /\ pc[r] = "checkSku" => req[r].id \in Product \cup {None}
    /\ pc[r] = "insertProduct" => req[r].id = None
    /\ pc[r] = "writeProduct" => req[r].id \in Product
    /\ pc[r] \in {"checkSku", "insertProduct", "writeProduct", "removeProduct", "storeImage"} =>
          req[r].lists = {"products"}
    /\ Picturing(r) => req[r].old \subseteq Picture /\ req[r].image \in Picture \cup {None}

\* The tables.
GoodsOK ==
    /\ units \in [DOMAIN units -> [base : Unit \cup {None}, live : BOOLEAN]]
    /\ products \in [DOMAIN products -> [sku : Sku, image : Picture \cup {None}]]
    /\ DOMAIN products \subseteq Product /\ DOMAIN units \subseteq Unit
    /\ DOMAIN cached = List

\* Two that rely on the same units, or SKUs, were under way together.
GoodsRivalsOK ==
    \A r, q \in Request : r # q =>
        /\ Rebasing(r) /\ (AddingUnit(q) \/ Rebasing(q) \/ DroppingUnit(q)) => UnitsRaced
        /\ AddingUnit(r) /\ DroppingUnit(q) => UnitsRaced
        /\ Saving(r) /\ Saving(q) => SkusRaced

\* What the checks of units have found in the table t.
IsPrimary(t, u) == u \in DOMAIN t /\ t[u].live /\ t[u].base = None
HasSubUnits(t, u) == \E x \in DOMAIN t : t[x].live /\ t[x].base = u
TwoLevels(t) == \A u \in DOMAIN t : t[u].live => IsPrimary(t, u) \/ IsPrimary(t, t[u].base)

UnitsOK ==
    \/ UnitsRaced
    \/ /\ TwoLevels(units)
       /\ \A r \in Request :
             /\ AddingUnit(r) => req[r].base = None \/ IsPrimary(units, req[r].base)
             /\ DroppingUnit(r) => ~HasSubUnits(units, req[r].id)
             /\ pc[r] = "countSubUnits" => IsPrimary(units, req[r].base)
             /\ pc[r] = "storeUnit" =>
                   \/ req[r].base = None
                   \/ IsPrimary(units, req[r].base) /\ ~HasSubUnits(units, req[r].id)

\* What the checks of SKUs have found in the table t.
HasSku(t, s, but) == \E p \in DOMAIN t \ {but} : t[p].sku = s
UniqueSkus(t) == \A p, q \in DOMAIN t : t[p].sku = t[q].sku => p = q

SkusOK ==
    \/ SkusRaced
    \/ /\ UniqueSkus(products)
       /\ \A r \in Request :
             /\ pc[r] \in {"insertProduct", "importInsert"} => ~HasSku(products, req[r].sku, None)
             /\ pc[r] = "writeProduct" => ~HasSku(products, req[r].sku, req[r].id)

\* The pictures of the table t, and the one on its way to a product.
Apart(a, b) == a \cap b = {}
Shown(t, p) == IF p \in DOMAIN t THEN {t[p].image} \cap Picture ELSE {}
Fresh(h) == {h.image} \cap Picture

\* No two products share a picture; all were given a name.
Distinct(t, names) ==
    \A p \in DOMAIN t : /\ Shown(t, p) \subseteq names
                        /\ \A o \in DOMAIN t \ {p} : Apart(Shown(t, p), Shown(t, o))

\* A request that holds h may write the row: its picture is on disk and nobody
\* else's, and what it has deleted is its own product's.
MayStore(h, t, disk, names) ==
    /\ Fresh(h) \subseteq disk \cap names /\ h.old \subseteq names /\ Apart(Fresh(h), h.old)
    /\ \A p \in DOMAIN t : /\ Apart(Fresh(h), Shown(t, p))
                           /\ p # h.id => Apart(h.old, Shown(t, p))
Unrelated(g, h) == Apart(Fresh(g), h.old) /\ Apart(Fresh(g), Fresh(h))

PicturesOK ==
    /\ ImagesExplained
    /\ files \subseteq taken
    /\ Distinct(products, taken)
    /\ \A r \in Request : Picturing(r) => MayStore(req[r], products, files, taken)
    /\ \A r, q \in Request :
          r # q /\ Picturing(r) /\ Picturing(q) => Unrelated(req[r], req[q])

IGoods ==
    /\ Wired /\ GoodsOK /\ GoodsRivalsOK /\ UnitsOK /\ SkusOK /\ StaleListExplained /\ PicturesOK
    /\ \A r \in Request : HoldsGoods(r)
-----------------------------------------------------------------------------
LEMMA GoodsImply ==
    IGoods => UnitsHaveTwoLevels /\ SkusAreUnique /\ StaleListExplained /\ ImagesExplained
<1>1. TwoLevels(units) => UnitsHaveTwoLevels
  BY DEF TwoLevels, IsPrimary, UnitsHaveTwoLevels, Rows, Primary
<1> QED
  BY <1>1 DEF IGoods, UnitsOK, SkusOK, PicturesOK, UnitsRaced, SkusRaced, UnitsHaveTwoLevels,
              SkusAreUnique, UniqueSkus

\* The goods as they are in the beginning.
LEMMA GoodsAtFirst ==
  CatalogInit /\ ProductsInit =>
      UnitsHaveTwoLevels /\ SkusAreUnique /\ StaleListExplained /\ ImagesExplained
<1> SUFFICES ASSUME CatalogInit, ProductsInit
             PROVE  UnitsHaveTwoLevels /\ SkusAreUnique /\ StaleListExplained /\ ImagesExplained
  OBVIOUS
<1>1. PICK p \in Product, s \in Sku, i \in Picture :
         /\ products = [x \in {p} |-> [sku |-> s, image |-> i]]
         /\ files = {i} /\ taken = {i} /\ cut = {}
  BY ProductAssumption DEF ProductsInit, FirstPicture
<1>2. UnitsHaveTwoLevels
  BY DEF CatalogInit, UnitsHaveTwoLevels, Rows, Primary
<1>3. SkusAreUnique
  BY <1>1 DEF SkusAreUnique
<1>4. StaleListExplained
  BY DEF ProductsInit, StaleListExplained
<1>5. ImagesExplained
  BY <1>1 DEF ImagesExplained, Images
<1> QED
  BY <1>2, <1>3, <1>4, <1>5

LEMMA GoodsInitial == RequestInit /\ CatalogInit /\ ProductsInit => IGoods
<1> SUFFICES ASSUME RequestInit, CatalogInit, ProductsInit PROVE IGoods
  OBVIOUS
<1>1. Wired /\ \A r \in Request : pc[r] = "new"
  BY WiredInitial
<1>2. \A r \in Request : HoldsGoods(r)
  BY <1>1 DEF HoldsGoods, AddingUnit, Rebasing, DroppingUnit, Saving, Picturing
<1>3. PICK p \in Product, s \in Sku, i \in Picture :
         /\ products = [x \in {p} |-> [sku |-> s, image |-> i]]
         /\ files = {i} /\ taken = {i} /\ cut = {}
  BY ProductAssumption DEF ProductsInit, FirstPicture
<1>4. GoodsOK
  <2>1. units \in [DOMAIN units -> [base : Unit \cup {None}, live : BOOLEAN]]
        /\ DOMAIN units \subseteq Unit
    BY DEF CatalogInit
  <2>2. /\ products \in [DOMAIN products -> [sku : Sku, image : Picture \cup {None}]]
        /\ DOMAIN products \subseteq Product
    BY <1>3
  <2> QED
    BY <2>1, <2>2 DEF ProductsInit, GoodsOK
<1>5. UnitsOK
  BY <1>1 DEF CatalogInit, TwoLevels, IsPrimary, UnitsOK, AddingUnit, DroppingUnit
<1>6. SkusOK
  BY <1>1, <1>3 DEF UniqueSkus, SkusOK
<1>7. StaleListExplained
  BY DEF ProductsInit, StaleListExplained
<1>8. PicturesOK
  BY <1>1, <1>3 DEF PicturesOK, ImagesExplained, Images, Distinct, Shown, Picturing
<1>9. GoodsRivalsOK
  BY <1>1 DEF GoodsRivalsOK, Rebasing, AddingUnit, Saving
<1> QED
  BY <1>1, <1>2, <1>4, <1>5, <1>6, <1>7, <1>8, <1>9 DEF IGoods
-----------------------------------------------------------------------------
\* What was under way together stays so.
LEMMA GoodsRacedGrow ==
  ASSUME raced \subseteq raced'
  PROVE  (UnitsRaced => UnitsRaced') /\ (SkusRaced => SkusRaced')
BY DEF UnitsRaced, SkusRaced, Together

LEMMA GoodsHold ==
  ASSUME NEW r \in Request, Alone(r), HoldsGoods(r)', \A q \in Request : HoldsGoods(q)
  PROVE  \A q \in Request : HoldsGoods(q)'
BY DEF Alone, HoldsGoods, AddingUnit, Rebasing, DroppingUnit, Saving, Picturing

\* A step that makes its request no new rival.
LEMMA GoodsRivalsStay ==
  ASSUME GoodsRivalsOK, NEW r \in Request, Alone(r), raced \subseteq raced',
         Rebasing(r)' => Rebasing(r), AddingUnit(r)' => AddingUnit(r),
         DroppingUnit(r)' => DroppingUnit(r), Saving(r)' => Saving(r)
  PROVE  GoodsRivalsOK'
<1>1. (UnitsRaced => UnitsRaced') /\ (SkusRaced => SkusRaced')
  BY GoodsRacedGrow
<1>2. \A q \in Request : /\ Rebasing(q)' => Rebasing(q)
                         /\ AddingUnit(q)' => AddingUnit(q)
                         /\ DroppingUnit(q)' => DroppingUnit(q)
                         /\ Saving(q)' => Saving(q)
  BY DEF Alone, Rebasing, AddingUnit, DroppingUnit, Saving
<1> QED
  BY <1>1, <1>2 DEF GoodsRivalsOK

\* A step that leaves the units alone and brings none about.
LEMMA UnitsStay ==
  ASSUME UnitsOK, NEW r \in Request, Alone(r), raced \subseteq raced', units' = units,
         pc'[r] \notin {"insertUnit", "dropUnit", "countSubUnits", "storeUnit"}
  PROVE  UnitsOK'
<1>1. UnitsRaced => UnitsRaced'
  BY GoodsRacedGrow
<1>2. \A q \in Request :
         pc'[q] \in {"insertUnit", "dropUnit", "countSubUnits", "storeUnit"} =>
             pc'[q] = pc[q] /\ req'[q] = req[q]
  BY DEF Alone
<1> QED
  BY <1>1, <1>2 DEF UnitsOK, AddingUnit, DroppingUnit

\* A step that makes no product and no SKU, and brings none about.
LEMMA SkusStay ==
  ASSUME SkusOK, NEW r \in Request, Alone(r), raced \subseteq raced',
         DOMAIN products' \subseteq DOMAIN products,
         \A p \in DOMAIN products' : products'[p].sku = products[p].sku,
         pc'[r] \notin {"insertProduct", "importInsert", "writeProduct"}
  PROVE  SkusOK'
<1>1. SkusRaced => SkusRaced'
  BY GoodsRacedGrow
<1>2. \A s, but : HasSku(products', s, but) => HasSku(products, s, but)
  BY DEF HasSku
<1>3. UniqueSkus(products) => UniqueSkus(products')
  BY DEF UniqueSkus
<1>4. \A q \in Request :
         pc'[q] \in {"insertProduct", "importInsert", "writeProduct"} =>
             pc'[q] = pc[q] /\ req'[q] = req[q]
  BY DEF Alone
<1> QED
  BY <1>1, <1>2, <1>3, <1>4 DEF SkusOK

\* A step that leaves the lists alone, by a request that drops none.
LEMMA ListsStay ==
  ASSUME StaleListExplained, NEW r \in Request, Alone(r), cached' = cached, excused' = excused,
         pc[r] # "dropLists"
  PROVE  StaleListExplained'
<1>1. \A l : Dropping(l) => Dropping(l)'
  BY DEF Dropping, Alone
<1> QED
  BY <1>1 DEF StaleListExplained

\* A step that leaves the pictures alone, by a request that stores none.
LEMMA PicturesStay ==
  ASSUME PicturesOK, NEW r \in Request, Alone(r), UNCHANGED <<files, taken, cut>>,
         \A p \in DOMAIN products' :
             \/ p \in DOMAIN products /\ products'[p].image = products[p].image
             \/ products'[p].image = None,
         ~Picturing(r), ~Picturing(r)'
  PROVE  PicturesOK'
<1>1. \A p : Shown(products', p) = {} \/ Shown(products', p) = Shown(products, p)
  BY ProductAssumption DEF Shown
<1>2. \A q \in Request : Picturing(q)' => Picturing(q) /\ req'[q] = req[q]
  BY DEF Alone, Picturing
<1>3. ImagesExplained'
  <2> SUFFICES ASSUME NEW p \in DOMAIN products', NEW i \in Shown(products', p) \ (files \cup cut)
               PROVE  \E q \in Request : pc'[q] = "storeImage" /\ i \in req'[q].old
    BY DEF ImagesExplained, Images, Shown
  <2>1. i \in Shown(products, p) /\ p \in DOMAIN products
    BY <1>1 DEF Shown
  <2>2. PICK q \in Request : pc[q] = "storeImage" /\ i \in req[q].old
    BY <2>1 DEF PicturesOK, ImagesExplained, Images, Shown
  <2> QED
    BY <1>2, <2>2 DEF Alone, Picturing
<1>4. \A p \in DOMAIN products' : \/ Shown(products', p) = {}
                                  \/ /\ p \in DOMAIN products
                                     /\ Shown(products', p) = Shown(products, p)
  BY <1>1 DEF Shown
<1>5. Distinct(products', taken)
  BY <1>4 DEF PicturesOK, Distinct, Apart
<1>6. \A h : MayStore(h, products, files, taken) => MayStore(h, products', files, taken)
  BY <1>4 DEF MayStore, Apart
<1>7. ASSUME NEW q \in Request, Picturing(q)'
      PROVE  MayStore(req'[q], products', files', taken')
  BY <1>2, <1>6, <1>7 DEF PicturesOK
<1>8. ASSUME NEW q \in Request, NEW x \in Request, q # x, Picturing(q)', Picturing(x)'
      PROVE  Unrelated(req'[q], req'[x])
  BY <1>2, <1>8 DEF PicturesOK
<1> QED
  BY <1>3, <1>5, <1>7, <1>8 DEF PicturesOK

\* What one request holds, when another moves.
LEMMA GoodsHalves ==
  ASSUME IGoods, NEW r \in Request, Alone(r), Wired', HoldsGoods(r)', GoodsOK', GoodsRivalsOK',
         UnitsOK', SkusOK', StaleListExplained', PicturesOK'
  PROVE  IGoods'
BY GoodsHold DEF IGoods

GoodsPlaces == {"insertUnit", "checkBase", "countSubUnits", "storeUnit", "dropUnit",
                "checkSku", "insertProduct", "writeProduct", "importRow", "importInsert"}

\* A step that changes no table, by a request that is of no kind so far.
LEMMA GoodsQuiet ==
  ASSUME IGoods, NEW r \in Request, Wired', Alone(r), raced \subseteq raced',
         UNCHANGED <<units, productVars>>,
         HoldsGoods(r)', pc'[r] \notin GoodsPlaces \cup {"storeImage"},
         pc[r] \notin {"dropLists", "storeImage"}
  PROVE  IGoods'
<1> USE DEF productVars, listVars
<1>1. GoodsOK'
  BY DEF IGoods, GoodsOK
<1>2. GoodsRivalsOK'
  BY GoodsRivalsStay DEF IGoods, GoodsPlaces, Rebasing, AddingUnit, DroppingUnit, Saving
<1>3. UnitsOK'
  BY UnitsStay DEF IGoods, GoodsPlaces
<1>4. SkusOK'
  BY SkusStay DEF IGoods, GoodsPlaces
<1>5. StaleListExplained'
  BY ListsStay DEF IGoods
<1>6. PicturesOK'
  BY PicturesStay DEF IGoods, Picturing
<1> QED
  BY <1>1, <1>2, <1>3, <1>4, <1>5, <1>6, GoodsHalves

\* The steps of categories.
LEMMA CategoryKeepsGoods ==
  ASSUME IGoods, NEW r \in Request, CategoryStep(r), UNCHANGED <<units, productVars>>
  PROVE  IGoods'
<1> USE DEF IGoods, AtCategory, HoldsGoods, AddingUnit, Rebasing, DroppingUnit, Saving, Picturing,
            GoodsPlaces
<1>1. /\ Wired' /\ Alone(r) /\ raced \subseteq raced'
      /\ pc[r] \in AtCategory \cup {"new"} /\ pc'[r] \in AtCategory \cup Answered
  <2>1. CASE FindParent(r)
    BY <2>1, BeginMoves DEF FindParent
  <2>2. CASE InsertCategory(r)
    BY <2>2, GoMoves DEF InsertCategory
  <2>3. CASE FindToMove(r)
    BY <2>3, BeginMoves DEF FindToMove
  <2>4. CASE FindNewParent(r)
    BY <2>4, GoMoves DEF FindNewParent
  <2>5. CASE Walk(r)
    BY <2>5, GoMoves, HoldMoves DEF Walk
  <2>6. CASE MoveCategory(r)
    BY <2>6, GoMoves DEF MoveCategory
  <2>7. CASE FindToDrop(r)
    BY <2>7, BeginMoves DEF FindToDrop
  <2>8. CASE DropCategory(r)
    BY <2>8, GoMoves DEF DropCategory
  <2> QED
    BY <2>1, <2>2, <2>3, <2>4, <2>5, <2>6, <2>7, <2>8 DEF CategoryStep
<1>2. HoldsGoods(r)'
  BY <1>1
<1> QED
  BY <1>1, <1>2, GoodsQuiet

\* A unit is added, rebased or dropped: the lists, SKUs and pictures stay.
LEMMA UnitHalves ==
  ASSUME IGoods, NEW r \in Request, Wired', Alone(r), raced \subseteq raced',
         UNCHANGED productVars,
         units' \in [DOMAIN units' -> [base : Unit \cup {None}, live : BOOLEAN]],
         DOMAIN units' \subseteq Unit, HoldsGoods(r)', GoodsRivalsOK', UnitsOK',
         pc[r] \in GoodsPlaces \cup {"new"},
         pc'[r] \in {"insertUnit", "checkBase", "countSubUnits", "storeUnit", "dropUnit"}
                    \cup Answered
  PROVE  IGoods'
<1> USE DEF productVars, listVars, GoodsPlaces
<1>1. GoodsOK'
  BY DEF IGoods, GoodsOK
<1>2. SkusOK'
  BY SkusStay DEF IGoods
<1>3. StaleListExplained'
  BY ListsStay DEF IGoods
<1>4. PicturesOK'
  BY PicturesStay DEF IGoods, Picturing
<1> QED
  BY <1>1, <1>2, <1>3, <1>4, GoodsHalves

\* A request about units meets its rivals.
LEMMA UnitRivals ==
  ASSUME IGoods, NEW r \in Request, NEW next, NEW h, Begin(r, next, h, Rivals),
         h.on = Units,
         \/ next = "insertUnit" /\ h.kind = "addUnit"
         \/ next \in {"checkBase", "storeUnit"} /\ h.kind = "rebaseUnit"
         \/ next = "dropUnit" /\ h.kind = "dropUnit"
  PROVE  GoodsRivalsOK'
<1> USE DEF AddingUnit, Rebasing, DroppingUnit, Saving
<1>1. Alone(r) /\ pc[r] = "new" /\ pc'[r] = next /\ raced \subseteq raced'
  BY BeginMoves DEF IGoods
<1>2. (UnitsRaced => UnitsRaced') /\ (SkusRaced => SkusRaced')
  BY <1>1, GoodsRacedGrow
<1>3. \A q \in Request \ {r} :
         /\ Rebasing(q)' <=> Rebasing(q)
         /\ AddingUnit(q)' <=> AddingUnit(q)
         /\ DroppingUnit(q)' <=> DroppingUnit(q)
         /\ Saving(q)' <=> Saving(q)
  BY <1>1 DEF Alone
<1>4. ~Saving(r)'
  BY <1>1
<1>5. ASSUME NEW q \in Request \ {r}, NEW b,
             AddingUnit(q) \/ Rebasing(q) \/ DroppingUnit(q), req[q].kind = b,
             {h.kind, b} \in Rivals
      PROVE  Together(Units, h.kind, b)'
  <2>1. Busy(q) /\ "on" \in DOMAIN req[q] /\ req[q].on = h.on
    BY <1>5 DEF IGoods, HoldsGoods, Busy
  <2> HIDE DEF AddingUnit, Rebasing, DroppingUnit, Saving
  <2> QED
    BY <1>5, <2>1, BeginRaces
<1>6. ASSUME NEW q \in Request \ {r}
      PROVE  /\ Rebasing(r)' /\ (AddingUnit(q) \/ Rebasing(q) \/ DroppingUnit(q)) => UnitsRaced'
             /\ AddingUnit(r)' /\ (Rebasing(q) \/ DroppingUnit(q)) => UnitsRaced'
             /\ DroppingUnit(r)' /\ (Rebasing(q) \/ AddingUnit(q)) => UnitsRaced'
  <2>1. /\ AddingUnit(q) => req[q].kind = "addUnit"
        /\ Rebasing(q) => req[q].kind = "rebaseUnit"
        /\ DroppingUnit(q) => req[q].kind = "dropUnit"
    BY DEF IGoods, HoldsGoods
  <2>2. /\ Rebasing(r)' => h.kind = "rebaseUnit"
        /\ AddingUnit(r)' => h.kind = "addUnit"
        /\ DroppingUnit(r)' => h.kind = "dropUnit"
    BY <1>1
  <2>3. {"addUnit", "rebaseUnit"} \in Rivals /\ {"rebaseUnit", "addUnit"} \in Rivals
        /\ {"rebaseUnit", "rebaseUnit"} \in Rivals
        /\ {"addUnit", "dropUnit"} \in Rivals /\ {"dropUnit", "addUnit"} \in Rivals
        /\ {"rebaseUnit", "dropUnit"} \in Rivals /\ {"dropUnit", "rebaseUnit"} \in Rivals
    BY DEF Rivals
  <2>4. \A a, b : Together(Units, a, b)' = Together(Units, b, a)'
    <3>1. \A a, b : {a, b} = {b, a}
      OBVIOUS
    <3> QED
      BY <3>1 DEF Together
  <2>5. \A a \in {"addUnit", "rebaseUnit"}, b \in {"rebaseUnit", "dropUnit"} :
           Together(Units, a, b)' => UnitsRaced'
    BY DEF UnitsRaced
  <2> HIDE DEF AddingUnit, Rebasing, DroppingUnit, Saving
  <2>6. /\ Rebasing(r)' /\ AddingUnit(q) => UnitsRaced'
        /\ Rebasing(r)' /\ Rebasing(q) => UnitsRaced'
        /\ Rebasing(r)' /\ DroppingUnit(q) => UnitsRaced'
    BY <1>5, <2>1, <2>2, <2>3, <2>4, <2>5
  <2>7. /\ AddingUnit(r)' /\ Rebasing(q) => UnitsRaced'
        /\ AddingUnit(r)' /\ DroppingUnit(q) => UnitsRaced'
    BY <1>5, <2>1, <2>2, <2>3, <2>4, <2>5
  <2>8. /\ DroppingUnit(r)' /\ Rebasing(q) => UnitsRaced'
        /\ DroppingUnit(r)' /\ AddingUnit(q) => UnitsRaced'
    BY <1>5, <2>1, <2>2, <2>3, <2>4, <2>5
  <2> QED
    BY <2>6, <2>7, <2>8
<1> HIDE DEF AddingUnit, Rebasing, DroppingUnit, Saving
<1> QED
  BY <1>2, <1>3, <1>4, <1>6 DEF IGoods, GoodsRivalsOK

LEMMA InsertUnitKeeps ==
  ASSUME IGoods, NEW r \in Request, InsertUnit(r), UNCHANGED productVars
  PROVE  IGoods'
<1> USE DEF AddingUnit, DroppingUnit
<1>1. Wired' /\ Alone(r) /\ pc[r] = "insertUnit" /\ pc'[r] = "ok" /\ raced' = raced
  BY GoMoves DEF IGoods, InsertUnit
<1>2. PICK u \in Unit \ DOMAIN units :
         units' = Put(units, u, [base |-> req[r].base, live |-> TRUE])
  BY DEF InsertUnit
<1>3. PICK b \in Unit \cup {None} : b = req[r].base
  BY <1>1 DEF IGoods, HoldsGoods
<1>4. /\ DOMAIN units' = DOMAIN units \cup {u}
      /\ units'[u] = [base |-> b, live |-> TRUE]
      /\ \A x \in DOMAIN units : units'[x] = units[x]
      /\ units' = [x \in DOMAIN units' |-> units'[x]]
  BY <1>2, <1>3 DEF Put
<1>5. DOMAIN units' \subseteq Unit
      /\ units' \in [DOMAIN units' -> [base : Unit \cup {None}, live : BOOLEAN]]
  <2>1. DOMAIN units \subseteq Unit /\ \A x \in DOMAIN units :
           units[x] \in [base : Unit \cup {None}, live : BOOLEAN]
    BY DEF IGoods, GoodsOK
  <2>2. units'[u] \in [base : Unit \cup {None}, live : BOOLEAN]
    BY <1>3, <1>4
  <2>3. \A x \in DOMAIN units' : x = u \/ units'[x] \in [base : Unit \cup {None}, live : BOOLEAN]
    BY <1>4, <2>1
  <2> QED
    BY <1>4, <2>1, <2>2, <2>3
<1>6. HoldsGoods(r)'
  BY <1>1 DEF HoldsGoods, Rebasing, Saving, Picturing
<1>7. GoodsRivalsOK'
  BY <1>1, GoodsRivalsStay DEF IGoods, Rebasing, Saving
<1>8. UnitsOK'
  <2>1. CASE UnitsRaced
    BY <1>1, <2>1 DEF UnitsOK, UnitsRaced, Together
  <2>2. CASE ~UnitsRaced
    <3>1. TwoLevels(units) /\ (b = None \/ IsPrimary(units, b))
      BY <1>1, <1>3, <2>2 DEF IGoods, UnitsOK
    <3>2. \A x : IsPrimary(units, x) => IsPrimary(units', x)
      BY <1>4 DEF IsPrimary
    <3>3. TwoLevels(units')
      <4> SUFFICES ASSUME NEW x \in DOMAIN units', units'[x].live
                   PROVE  IsPrimary(units', x) \/ IsPrimary(units', units'[x].base)
        BY DEF TwoLevels
      <4>1. CASE x = u
        BY <3>1, <3>2, <1>4, <4>1 DEF IsPrimary
      <4>2. CASE x # u
        <5>1. x \in DOMAIN units /\ units'[x] = units[x]
          BY <1>4, <4>2
        <5> QED
          BY <3>1, <3>2, <5>1 DEF TwoLevels
      <4> QED
        BY <4>1, <4>2
    <3>4. \A q \in Request \ {r} :
             /\ ~Rebasing(q) /\ ~DroppingUnit(q)
             /\ pc'[q] = pc[q] /\ req'[q] = req[q]
      BY <1>1, <2>2 DEF IGoods, GoodsRivalsOK, Alone
    <3>5. \A q \in Request : /\ ~Rebasing(q)' /\ ~DroppingUnit(q)'
                             /\ AddingUnit(q)' => AddingUnit(q) /\ req'[q] = req[q]
      BY <1>1, <3>4 DEF Rebasing
    <3>6. \A q \in Request : AddingUnit(q)' =>
             req'[q].base = None \/ IsPrimary(units', req'[q].base)
      BY <2>2, <3>2, <3>5 DEF IGoods, UnitsOK
    <3> QED
      BY <3>3, <3>5, <3>6 DEF UnitsOK, Rebasing
  <2> QED
    BY <2>1, <2>2
<1> QED
  BY <1>1, <1>5, <1>6, <1>7, <1>8, UnitHalves DEF GoodsPlaces

\* The request that moves is alone with the units.
LEMMA AloneWithUnits ==
  ASSUME IGoods, NEW r \in Request, Wired', Alone(r), raced' = raced, UNCHANGED productVars,
         units' \in [DOMAIN units' -> [base : Unit \cup {None}, live : BOOLEAN]],
         DOMAIN units' \subseteq Unit, pc[r] \in {"storeUnit", "dropUnit"}, pc'[r] = "ok",
         ~UnitsRaced /\ pc[r] = "storeUnit" => TwoLevels(units'),
         ~UnitsRaced /\ pc[r] = "dropUnit" =>
             /\ TwoLevels(units')
             /\ \A u : HasSubUnits(units', u) => HasSubUnits(units, u)
  PROVE  IGoods'
<1> USE DEF AddingUnit, Rebasing, DroppingUnit
<1>1. HoldsGoods(r)'
  BY DEF HoldsGoods, Saving, Picturing
<1>2. GoodsRivalsOK'
  BY GoodsRivalsStay DEF IGoods, Saving
<1>3. CASE UnitsRaced
  <2>1. UnitsOK'
    BY <1>3 DEF UnitsOK, UnitsRaced, Together
  <2> QED
    BY <1>1, <1>2, <2>1, UnitHalves DEF GoodsPlaces
<1>4. CASE ~UnitsRaced /\ pc[r] = "storeUnit"
  <2>1. \A q \in Request : ~Rebasing(q)' /\ ~AddingUnit(q)' /\ ~DroppingUnit(q)'
    BY <1>4 DEF IGoods, GoodsRivalsOK, Alone
  <2>2. UnitsOK'
    BY <1>4, <2>1 DEF UnitsOK
  <2> QED
    BY <1>1, <1>2, <2>2, UnitHalves DEF GoodsPlaces
<1>5. CASE ~UnitsRaced /\ pc[r] = "dropUnit"
  <2>1. \A q \in Request : /\ ~Rebasing(q)' /\ ~AddingUnit(q)'
                           /\ DroppingUnit(q)' => DroppingUnit(q) /\ req'[q] = req[q]
    BY <1>5 DEF IGoods, GoodsRivalsOK, Alone
  <2>2. \A q \in Request : DroppingUnit(q) => ~HasSubUnits(units, req[q].id)
    BY <1>5 DEF IGoods, UnitsOK
  <2>3. \A q \in Request : DroppingUnit(q)' => ~HasSubUnits(units', req'[q].id)
    BY <1>5, <2>1, <2>2
  <2>4. UnitsOK'
    BY <1>5, <2>1, <2>3 DEF UnitsOK
  <2> QED
    BY <1>1, <1>2, <2>4, UnitHalves DEF GoodsPlaces
<1> QED
  BY <1>3, <1>4, <1>5

LEMMA StoreUnitKeeps ==
  ASSUME IGoods, NEW r \in Request, StoreUnit(r), UNCHANGED productVars
  PROVE  IGoods'
<1>1. Wired' /\ Alone(r) /\ pc[r] = "storeUnit" /\ pc'[r] = "ok" /\ raced' = raced
  BY GoMoves DEF IGoods, StoreUnit
<1>2. PICK b, i : b \in Unit \cup {None} /\ b = req[r].base /\ i = req[r].id /\ b # i
  BY <1>1 DEF IGoods, HoldsGoods, Rebasing
<1>3. \A x \in DOMAIN units : units[x] \in [base : Unit \cup {None}, live : BOOLEAN]
  BY DEF IGoods, GoodsOK
<1>4. units' = [units EXCEPT ![i].base = b]
  BY <1>2 DEF StoreUnit
<1>5. /\ DOMAIN units' = DOMAIN units /\ units' = [x \in DOMAIN units' |-> units'[x]]
      /\ \A x \in DOMAIN units \ {i} : units'[x] = units[x]
      /\ i \in DOMAIN units => units'[i].base = b /\ units'[i].live = units[i].live
  BY <1>3, <1>4
<1>6. /\ units' \in [DOMAIN units' -> [base : Unit \cup {None}, live : BOOLEAN]]
      /\ DOMAIN units' \subseteq Unit
  <2>1. units \in [DOMAIN units -> [base : Unit \cup {None}, live : BOOLEAN]]
        /\ DOMAIN units \subseteq Unit
    BY DEF IGoods, GoodsOK
  <2> QED
    BY <1>2, <1>4, <2>1
<1>7. ASSUME ~UnitsRaced PROVE TwoLevels(units')
  <2>1. /\ TwoLevels(units)
        /\ b = None \/ (IsPrimary(units, b) /\ ~HasSubUnits(units, i))
    BY <1>1, <1>2, <1>7 DEF IGoods, UnitsOK
  <2>2. \A x : x # i /\ IsPrimary(units, x) => IsPrimary(units', x)
    BY <1>5 DEF IsPrimary
  <2>3. b = None /\ IsPrimary(units, i) => IsPrimary(units', i)
    BY <1>5 DEF IsPrimary
  <2> SUFFICES ASSUME NEW x \in DOMAIN units', units'[x].live
               PROVE  IsPrimary(units', x) \/ IsPrimary(units', units'[x].base)
    BY DEF TwoLevels
  <2>4. CASE x = i
    <3>1. units'[x].base = b /\ units'[x].live = units[x].live
      BY <1>5, <2>4
    <3> QED
      BY <1>2, <1>5, <2>1, <2>2, <2>4, <3>1 DEF IsPrimary
  <2>5. CASE x # i
    <3>1. x \in DOMAIN units /\ units'[x] = units[x] /\ units[x].live
      BY <1>5, <2>5
    <3>2. CASE IsPrimary(units, x)
      BY <2>2, <2>5, <3>2
    <3>3. CASE IsPrimary(units, units[x].base)
      <4>1. units[x].base = i => HasSubUnits(units, i)
        BY <3>1 DEF HasSubUnits
      <4> QED
        BY <2>1, <2>2, <2>3, <3>1, <3>3, <4>1
    <3> QED
      BY <2>1, <3>1, <3>2, <3>3 DEF TwoLevels
  <2> QED
    BY <2>4, <2>5
<1> QED
  BY <1>1, <1>6, <1>7, AloneWithUnits

LEMMA DropUnitKeeps ==
  ASSUME IGoods, NEW r \in Request, DropUnit(r), UNCHANGED productVars
  PROVE  IGoods'
<1>1. Wired' /\ Alone(r) /\ pc[r] = "dropUnit" /\ pc'[r] = "ok" /\ raced' = raced
  BY GoMoves DEF IGoods, DropUnit
<1>2. PICK i : i = req[r].id
  OBVIOUS
<1>3. \A x \in DOMAIN units : units[x] \in [base : Unit \cup {None}, live : BOOLEAN]
  BY DEF IGoods, GoodsOK
<1>4. units' = [units EXCEPT ![i].live = FALSE]
  BY <1>2 DEF DropUnit
<1>5. /\ DOMAIN units' = DOMAIN units
      /\ \A x \in DOMAIN units \ {i} : units'[x] = units[x]
      /\ i \in DOMAIN units => units'[i].base = units[i].base /\ ~units'[i].live
  BY <1>3, <1>4
<1>6. /\ units' \in [DOMAIN units' -> [base : Unit \cup {None}, live : BOOLEAN]]
      /\ DOMAIN units' \subseteq Unit
  <2>1. units \in [DOMAIN units -> [base : Unit \cup {None}, live : BOOLEAN]]
        /\ DOMAIN units \subseteq Unit
    BY DEF IGoods, GoodsOK
  <2> QED
    BY <1>4, <2>1
<1>7. \A u : HasSubUnits(units', u) => HasSubUnits(units, u)
  BY <1>5 DEF HasSubUnits
<1>8. ASSUME ~UnitsRaced PROVE TwoLevels(units')
  <2>1. TwoLevels(units) /\ ~HasSubUnits(units, i)
    BY <1>1, <1>2, <1>8 DEF IGoods, UnitsOK, DroppingUnit
  <2> SUFFICES ASSUME NEW x \in DOMAIN units', units'[x].live
               PROVE  IsPrimary(units', x) \/ IsPrimary(units', units'[x].base)
    BY DEF TwoLevels
  <2>2. x # i /\ x \in DOMAIN units /\ units'[x] = units[x] /\ units[x].live
    BY <1>5
  <2>3. units[x].base # i
    BY <2>1, <2>2 DEF HasSubUnits
  <2>4. IsPrimary(units, x) \/ IsPrimary(units, units[x].base)
    BY <2>1, <2>2 DEF TwoLevels
  <2> QED
    BY <1>5, <2>2, <2>3, <2>4 DEF IsPrimary
<1> QED
  BY <1>1, <1>6, <1>7, <1>8, AloneWithUnits

\* A check: what it has found for its own request.
LEMMA UnitChecked ==
  ASSUME IGoods, NEW r \in Request, Wired', Alone(r), raced \subseteq raced',
         UNCHANGED <<units, productVars>>, HoldsGoods(r)', GoodsRivalsOK',
         pc[r] \in GoodsPlaces \cup {"new"},
         pc'[r] \in {"insertUnit", "checkBase", "countSubUnits", "storeUnit", "dropUnit"}
                    \cup Answered,
         UnitsRaced \/
            /\ AddingUnit(r)' => req'[r].base = None \/ IsPrimary(units, req'[r].base)
            /\ DroppingUnit(r)' => ~HasSubUnits(units, req'[r].id)
            /\ pc'[r] = "countSubUnits" => IsPrimary(units, req'[r].base)
            /\ pc'[r] = "storeUnit" =>
                   \/ req'[r].base = None
                   \/ IsPrimary(units, req'[r].base) /\ ~HasSubUnits(units, req'[r].id)
  PROVE  IGoods'
<1>1. UnitsRaced => UnitsRaced'
  BY GoodsRacedGrow
<1>2. UnitsOK'
  <2>1. \A q \in Request \ {r} : pc'[q] = pc[q] /\ req'[q] = req[q]
    BY DEF Alone
  <2>2. CASE UnitsRaced
    BY <1>1, <2>2 DEF UnitsOK
  <2>3. CASE ~UnitsRaced
    BY <2>1, <2>3 DEF IGoods, UnitsOK, AddingUnit, DroppingUnit
  <2> QED
    BY <2>2, <2>3
<1>3. units' \in [DOMAIN units' -> [base : Unit \cup {None}, live : BOOLEAN]]
      /\ DOMAIN units' \subseteq Unit
  BY DEF IGoods, GoodsOK
<1> QED
  BY <1>2, <1>3, UnitHalves

LEMMA UnitKeepsGoods ==
  ASSUME IGoods, NEW r \in Request, UnitStep(r), UNCHANGED productVars
  PROVE  IGoods'
<1>1. CASE FindBase(r)
  <2>1. PICK b \in {x \in DOMAIN units : Primary(x)} \cup {None} :
           Begin(r, "insertUnit", [on |-> Units, kind |-> "addUnit", base |-> b], Rivals)
    BY <1>1 DEF FindBase
  <2> DEFINE h == [on |-> Units, kind |-> "addUnit", base |-> b]
  <2>2. /\ Wired' /\ Alone(r) /\ pc[r] = "new" /\ pc'[r] = "insertUnit" /\ raced \subseteq raced'
        /\ req'[r] = h
    BY <2>1, BeginMoves DEF IGoods
  <2>3. b \in Unit \cup {None} /\ (b = None \/ IsPrimary(units, b))
    BY <2>1 DEF IGoods, GoodsOK, Primary, Rows, IsPrimary
  <2>4. HoldsGoods(r)'
    BY <2>2, <2>3 DEF HoldsGoods, AddingUnit, Rebasing, DroppingUnit, Saving, Picturing
  <2>5. GoodsRivalsOK'
    BY <2>1, UnitRivals
  <2> QED
    BY <1>1, <2>2, <2>3, <2>4, <2>5, UnitChecked DEF FindBase, DroppingUnit, GoodsPlaces
<1>2. CASE InsertUnit(r)
  BY <1>2, InsertUnitKeeps
<1>3. CASE FindUnit(r)
  <2>1. PICK u \in Rows(units), b \in DOMAIN units \cup {None} :
           /\ b # u
           /\ Begin(r, IF b = None THEN "storeUnit" ELSE "checkBase",
                    [on |-> Units, kind |-> "rebaseUnit", id |-> u, base |-> b], Rivals)
    BY <1>3 DEF FindUnit
  <2> DEFINE h == [on |-> Units, kind |-> "rebaseUnit", id |-> u, base |-> b]
             next == IF b = None THEN "storeUnit" ELSE "checkBase"
  <2>2. /\ Wired' /\ Alone(r) /\ pc[r] = "new" /\ pc'[r] = next /\ raced \subseteq raced'
        /\ req'[r] = h
    BY <2>1, BeginMoves DEF IGoods
  <2>3. b \in Unit \cup {None}
    BY <2>1 DEF IGoods, GoodsOK
  <2>4. HoldsGoods(r)'
    BY <2>1, <2>2, <2>3 DEF HoldsGoods, AddingUnit, Rebasing, DroppingUnit, Saving, Picturing
  <2>5. GoodsRivalsOK'
    BY <2>1, UnitRivals
  <2> QED
    BY <1>3, <2>2, <2>4, <2>5, UnitChecked DEF FindUnit, AddingUnit, DroppingUnit, GoodsPlaces
<1>4. CASE CheckBase(r)
  <2>1. /\ Wired' /\ Alone(r) /\ pc[r] = "checkBase" /\ raced' = raced
        /\ pc'[r] \in {"countSubUnits", "refused"}
        /\ pc'[r] = "countSubUnits" => Primary(req[r].base) /\ req'[r] = req[r]
    BY <1>4, GoMoves DEF IGoods, CheckBase
  <2>2. pc'[r] = "countSubUnits" => IsPrimary(units, req'[r].base)
    BY <2>1 DEF Primary, Rows, IsPrimary
  <2>3. HoldsGoods(r)'
    BY <2>1 DEF IGoods, HoldsGoods, AddingUnit, Rebasing, DroppingUnit, Saving, Picturing
  <2>4. GoodsRivalsOK'
    BY <2>1, GoodsRivalsStay DEF IGoods, AddingUnit, Rebasing, DroppingUnit, Saving
  <2> QED
    BY <1>4, <2>1, <2>2, <2>3, <2>4, UnitChecked
       DEF CheckBase, catalogVars, AddingUnit, DroppingUnit, GoodsPlaces
<1>5. CASE CountSubUnits(r)
  <2>1. /\ Wired' /\ Alone(r) /\ pc[r] = "countSubUnits" /\ raced' = raced
        /\ pc'[r] \in {"storeUnit", "refused"}
        /\ pc'[r] = "storeUnit" => SubUnits(req[r].id) = {} /\ req'[r] = req[r]
    BY <1>5, GoMoves DEF IGoods, CountSubUnits
  <2>2. pc'[r] = "storeUnit" => ~HasSubUnits(units, req'[r].id)
    BY <2>1 DEF SubUnits, Rows, HasSubUnits
  <2>3. HoldsGoods(r)'
    BY <2>1 DEF IGoods, HoldsGoods, AddingUnit, Rebasing, DroppingUnit, Saving, Picturing
  <2>4. GoodsRivalsOK'
    BY <2>1, GoodsRivalsStay DEF IGoods, AddingUnit, Rebasing, DroppingUnit, Saving
  <2>5. UnitsRaced \/ IsPrimary(units, req[r].base)
    BY <2>1 DEF IGoods, UnitsOK
  <2> QED
    BY <1>5, <2>1, <2>2, <2>3, <2>4, <2>5, UnitChecked
       DEF CountSubUnits, catalogVars, AddingUnit, DroppingUnit, GoodsPlaces
<1>6. CASE StoreUnit(r)
  BY <1>6, StoreUnitKeeps
<1>7. CASE FindUnitToDrop(r)
  <2>1. PICK u \in Rows(units) :
           /\ SubUnits(u) = {}
           /\ Begin(r, "dropUnit", [on |-> Units, kind |-> "dropUnit", id |-> u], Rivals)
    BY <1>7 DEF FindUnitToDrop
  <2> DEFINE h == [on |-> Units, kind |-> "dropUnit", id |-> u]
  <2>2. /\ Wired' /\ Alone(r) /\ pc[r] = "new" /\ pc'[r] = "dropUnit" /\ raced \subseteq raced'
        /\ req'[r] = h
    BY <2>1, BeginMoves DEF IGoods
  <2>3. ~HasSubUnits(units, u)
    BY <2>1 DEF SubUnits, Rows, HasSubUnits
  <2>4. HoldsGoods(r)'
    BY <2>2 DEF HoldsGoods, AddingUnit, Rebasing, DroppingUnit, Saving, Picturing
  <2>5. GoodsRivalsOK'
    BY <2>1, UnitRivals
  <2> QED
    BY <1>7, <2>2, <2>3, <2>4, <2>5, UnitChecked DEF FindUnitToDrop, AddingUnit, GoodsPlaces
<1>8. CASE DropUnit(r)
  BY <1>8, DropUnitKeeps
<1> QED
  BY <1>1, <1>2, <1>3, <1>4, <1>5, <1>6, <1>7, <1>8 DEF UnitStep
-----------------------------------------------------------------------------
UnitPlaces == {"insertUnit", "checkBase", "countSubUnits", "storeUnit", "dropUnit"}

\* A step that leaves the units alone.
LEMMA ProductHalves ==
  ASSUME IGoods, NEW r \in Request, Wired', Alone(r), raced \subseteq raced', UNCHANGED units,
         products' \in [DOMAIN products' -> [sku : Sku, image : Picture \cup {None}]],
         DOMAIN products' \subseteq Product, DOMAIN cached' = List,
         HoldsGoods(r)', GoodsRivalsOK', SkusOK', StaleListExplained', PicturesOK',
         pc'[r] \notin UnitPlaces
  PROVE  IGoods'
<1>1. GoodsOK'
  BY DEF IGoods, GoodsOK
<1>2. UnitsOK'
  BY UnitsStay DEF IGoods, UnitPlaces
<1> QED
  BY <1>1, <1>2, GoodsHalves

\* A step by a request that saves a product, or one that saves none.
LEMMA SaverStays ==
  ASSUME IGoods, NEW r \in Request, Alone(r), raced \subseteq raced', pc'[r] \notin UnitPlaces,
         Saving(r)' => Saving(r)
  PROVE  GoodsRivalsOK'
BY GoodsRivalsStay DEF IGoods, UnitPlaces, AddingUnit, Rebasing, DroppingUnit

LEMMA SaverMeets ==
  ASSUME IGoods, NEW r \in Request, NEW next, NEW h, Begin(r, next, h, {{"saveProduct"}}),
         h.on = Products, h.kind = "saveProduct", next \notin UnitPlaces
  PROVE  GoodsRivalsOK' /\ (SkusRaced' \/ \A q \in Request \ {r} : ~Saving(q))
<1> USE DEF AddingUnit, Rebasing, DroppingUnit, Saving, UnitPlaces
<1>1. Alone(r) /\ pc[r] = "new" /\ pc'[r] = next /\ raced \subseteq raced'
  BY BeginMoves DEF IGoods
<1>2. (UnitsRaced => UnitsRaced') /\ (SkusRaced => SkusRaced')
  BY <1>1, GoodsRacedGrow
<1>3. \A q \in Request \ {r} :
         /\ Rebasing(q)' <=> Rebasing(q)
         /\ AddingUnit(q)' <=> AddingUnit(q)
         /\ DroppingUnit(q)' <=> DroppingUnit(q)
         /\ Saving(q)' <=> Saving(q)
  BY <1>1 DEF Alone
<1>4. ~AddingUnit(r)' /\ ~Rebasing(r)' /\ ~DroppingUnit(r)'
  BY <1>1
<1>5. ASSUME NEW q \in Request \ {r}, Saving(q)
      PROVE  SkusRaced'
  <2>1. Busy(q) /\ "on" \in DOMAIN req[q] /\ req[q].on = h.on /\ req[q].kind = "saveProduct"
    BY <1>5 DEF IGoods, HoldsGoods, Busy
  <2>2. {"saveProduct", "saveProduct"} \in {{"saveProduct"}}
    OBVIOUS
  <2> QED
    BY <2>1, <2>2, BeginRaces DEF SkusRaced
<1> HIDE DEF AddingUnit, Rebasing, DroppingUnit, Saving
<1> QED
  BY <1>2, <1>3, <1>4, <1>5 DEF IGoods, GoodsRivalsOK

\* A stale list is in `excused', or its request is about to drop it.
LEMMA ListsExplained ==
  ASSUME StaleListExplained, NEW r \in Request, Alone(r),
         \A l \in List : cached'[l] = "stale" =>
             \/ /\ cached[l] = "stale" /\ (l \in excused => l \in excused')
                /\ ~(pc[r] = "dropLists" /\ l \in req[r].lists)
             \/ l \in excused'
             \/ pc'[r] = "dropLists" /\ l \in req'[r].lists
  PROVE  StaleListExplained'
<1> SUFFICES ASSUME NEW l \in List, cached'[l] = "stale"
             PROVE  l \in excused' \/ Dropping(l)'
  BY DEF StaleListExplained
<1>1. CASE pc'[r] = "dropLists" /\ l \in req'[r].lists
  BY <1>1 DEF Dropping
<1>2. CASE /\ cached[l] = "stale" /\ l \notin excused
           /\ ~(pc[r] = "dropLists" /\ l \in req[r].lists)
  <2>1. PICK q \in Request : pc[q] = "dropLists" /\ l \in req[q].lists
    BY <1>2 DEF StaleListExplained, Dropping
  <2>2. q # r
    BY <1>2, <2>1
  <2> QED
    BY <2>1, <2>2 DEF Dropping, Alone
<1> QED
  BY <1>1, <1>2

\* What a change of rows does to the lists that show them.
LEMMA ChangeShows ==
  ASSUME NEW ls, Change(ls), DOMAIN cached = List
  PROVE  /\ DOMAIN cached' = List
         /\ \A l \in List : cached'[l] = "stale" => cached[l] = "stale" \/ l \in ls
BY DEF Change

\* A row of a product is put in, changed or removed, and the lists are dropped.
LEMMA ProductChangedShows ==
  ASSUME IGoods, NEW r \in Request, Alone(r), ProductChanged,
         pc'[r] = "dropLists", req'[r].lists = {"products"}, pc[r] # "dropLists"
  PROVE  StaleListExplained' /\ DOMAIN cached' = List
<1>1. DOMAIN cached = List /\ StaleListExplained
  BY DEF IGoods, GoodsOK
<1>2. /\ DOMAIN cached' = List
      /\ excused' = excused \cup {"pos", "dashboard"}
  BY <1>1, ChangeShows DEF ProductChanged
<1> QED
  BY <1>1, <1>2, ListsExplained DEF List

\* A step that changes no row and no list, by a request that keeps SKUs or not.
LEMMA LookupKeeps ==
  ASSUME IGoods, NEW r \in Request, Wired', Alone(r), raced \subseteq raced',
         UNCHANGED <<units, products, files, taken, cut, cached, excused>>,
         HoldsGoods(r)', GoodsRivalsOK', SkusOK',
         pc[r] \notin {"dropLists", "storeImage"}, pc'[r] \notin UnitPlaces \cup {"storeImage"}
  PROVE  IGoods'
<1>1. /\ products' \in [DOMAIN products' -> [sku : Sku, image : Picture \cup {None}]]
      /\ DOMAIN products' \subseteq Product /\ DOMAIN cached' = List
  BY DEF IGoods, GoodsOK
<1>2. StaleListExplained'
  BY ListsStay DEF IGoods
<1>3. PicturesOK'
  BY PicturesStay DEF IGoods, Picturing
<1> QED
  BY <1>1, <1>2, <1>3, ProductHalves

\* The lists, read, filled and dropped, and rows of other services.
LEMMA ListKeepsGoods ==
  ASSUME IGoods, NEW r \in Request,
         ReadList(r) \/ FillList(r) \/ DropLists(r) \/ WriteTrade(r) \/ WriteStock(r)
  PROVE  IGoods'
<1> USE DEF productVars, listVars
<1>1. /\ Wired' /\ Alone(r) /\ raced' = raced
      /\ pc[r] \in {"new", "fill", "dropLists"} /\ pc'[r] \in {"fill", "dropLists", "ok"}
      /\ UNCHANGED <<units, products, files, taken, cut>>
  <2>1. CASE ReadList(r)
    BY <2>1, ArriveMoves DEF IGoods, ReadList
  <2>2. CASE FillList(r)
    BY <2>2, GoMoves DEF IGoods, FillList
  <2>3. CASE DropLists(r)
    BY <2>3, GoMoves DEF IGoods, DropLists
  <2>4. CASE WriteTrade(r)
    BY <2>4, ArriveMoves DEF IGoods, WriteTrade
  <2>5. CASE WriteStock(r)
    BY <2>5, ArriveMoves DEF IGoods, WriteStock
  <2> QED
    BY <2>1, <2>2, <2>3, <2>4, <2>5
<1>2. HoldsGoods(r)'
  BY <1>1 DEF HoldsGoods, AddingUnit, Rebasing, DroppingUnit, Saving, Picturing
<1>3. GoodsRivalsOK'
  BY <1>1, SaverStays DEF UnitPlaces, Saving
<1>4. SkusOK'
  BY <1>1, SkusStay DEF IGoods
<1>5. PicturesOK'
  BY <1>1, PicturesStay DEF IGoods, Picturing
<1>6. /\ products' \in [DOMAIN products' -> [sku : Sku, image : Picture \cup {None}]]
      /\ DOMAIN products' \subseteq Product
  BY <1>1 DEF IGoods, GoodsOK
<1>7. StaleListExplained' /\ DOMAIN cached' = List
  <2>1. DOMAIN cached = List /\ StaleListExplained
    BY DEF IGoods, GoodsOK
  <2>2. CASE ReadList(r)
    <3>1. cached' = cached /\ excused' = excused /\ pc[r] = "new"
      BY <2>2, ArriveMoves DEF IGoods, ReadList
    <3> QED
      BY <1>1, <2>1, <3>1, ListsStay
  <2>3. CASE FillList(r)
    <3>1. PICK l : l = req[r].list
      OBVIOUS
    <3>2. /\ cached' = [cached EXCEPT ![l] = IF r \in behind THEN "stale" ELSE "fresh"]
          /\ excused' = IF r \in behind THEN excused \cup {l} ELSE excused \ {l}
          /\ pc[r] = "fill"
      BY <2>3, <3>1 DEF FillList
    <3>3. \A k \in List : cached'[k] = "stale" =>
             (cached[k] = "stale" /\ (k \in excused => k \in excused')) \/ k \in excused'
      BY <2>1, <3>2
    <3> QED
      BY <1>1, <2>1, <3>2, <3>3, ListsExplained
  <2>4. CASE DropLists(r)
    <3>1. PICK ls : ls = req[r].lists
      OBVIOUS
    <3>2. /\ cached' = [l \in List |-> IF l \in ls THEN "none" ELSE cached[l]]
          /\ excused' = excused \ ls
      BY <2>4, <3>1 DEF DropLists
    <3>3. \A l \in List : cached'[l] = "stale" => cached[l] = "stale" /\ l \notin ls
      BY <3>2
    <3> QED
      BY <1>1, <2>1, <3>1, <3>2, <3>3, ListsExplained
  <2>5. CASE WriteTrade(r)
    <3>1. /\ excused' = excused /\ Change({"pos", "dashboard"})
          /\ pc'[r] = "dropLists" /\ req'[r].lists = {"pos", "dashboard"} /\ pc[r] = "new"
      BY <2>5, ArriveMoves DEF IGoods, WriteTrade
    <3>2. /\ DOMAIN cached' = List
          /\ \A l \in List :
                cached'[l] = "stale" => cached[l] = "stale" \/ l \in {"pos", "dashboard"}
      BY <2>1, <3>1, ChangeShows
    <3> QED
      BY <1>1, <2>1, <3>1, <3>2, ListsExplained
  <2>6. CASE WriteStock(r)
    <3>1. /\ excused' = excused \cup {"pos", "dashboard"} /\ Change({"pos", "dashboard"})
          /\ pc[r] = "new"
      BY <2>6, ArriveMoves DEF IGoods, WriteStock
    <3>2. /\ DOMAIN cached' = List
          /\ \A l \in List :
                cached'[l] = "stale" => cached[l] = "stale" \/ l \in {"pos", "dashboard"}
      BY <2>1, <3>1, ChangeShows
    <3> QED
      BY <1>1, <2>1, <3>1, <3>2, ListsExplained
  <2> QED
    BY <2>2, <2>3, <2>4, <2>5, <2>6
<1> QED
  BY <1>1, <1>2, <1>3, <1>4, <1>5, <1>6, <1>7, ProductHalves DEF UnitPlaces

\* What a lookup or a check of a request that saves finds.
LEMMA SaverChecked ==
  ASSUME IGoods, NEW r \in Request, Wired', Alone(r), raced \subseteq raced', UNCHANGED products,
         SkusRaced' \/
            /\ pc'[r] \in {"insertProduct", "importInsert"} =>
                  ~HasSku(products, req'[r].sku, None)
            /\ pc'[r] = "writeProduct" => ~HasSku(products, req'[r].sku, req'[r].id)
  PROVE  SkusOK'
<1>1. SkusRaced => SkusRaced'
  BY GoodsRacedGrow
<1>2. \A q \in Request \ {r} : pc'[q] = pc[q] /\ req'[q] = req[q]
  BY DEF Alone
<1>3. CASE SkusRaced'
  BY <1>3 DEF SkusOK
<1>4. CASE ~SkusRaced'
  BY <1>1, <1>2, <1>4 DEF IGoods, SkusOK
<1> QED
  BY <1>3, <1>4

\* The lookups of the requests that save or remove a product.
LEMMA FindKeepsGoods ==
  ASSUME IGoods, NEW r \in Request,
         \/ FindForProduct(r) \/ FindToUpdate(r) \/ CheckSku(r) \/ FindToRemove(r)
         \/ Import(r) \/ ImportCheck(r) \/ ImportDone(r)
  PROVE  IGoods'
<1> USE DEF productVars, listVars, goodsVars, catalogVars, UnitPlaces, AddingUnit, Rebasing,
            DroppingUnit, Saving, Picturing
<1>1. Wired /\ HoldsGoods(r)
  BY DEF IGoods
<1>2. CASE FindForProduct(r)
  <2>1. PICK s \in Sku :
           Begin(r, "checkSku", [on |-> Products, kind |-> "saveProduct", id |-> None, sku |-> s,
                                 lists |-> {"products"}], {{"saveProduct"}})
    BY <1>2 DEF FindForProduct
  <2> DEFINE h == [on |-> Products, kind |-> "saveProduct", id |-> None, sku |-> s,
                   lists |-> {"products"}]
  <2>2. /\ Wired' /\ Alone(r) /\ pc[r] = "new" /\ pc'[r] = "checkSku" /\ raced \subseteq raced'
        /\ req'[r] = h
    BY <1>1, <2>1, BeginMoves
  <2>3. HoldsGoods(r)'
    BY <2>2 DEF HoldsGoods
  <2>4. GoodsRivalsOK'
    BY <2>1, SaverMeets
  <2>5. SkusOK'
    BY <1>2, <2>2, SaverChecked DEF FindForProduct
  <2> QED
    BY <1>2, <2>2, <2>3, <2>4, <2>5, LookupKeeps DEF FindForProduct
<1>3. CASE FindToUpdate(r)
  <2>1. PICK p \in DOMAIN products, s \in Sku :
           Begin(r, IF products[p].sku = s THEN "writeProduct" ELSE "checkSku",
                 [on |-> Products, kind |-> "saveProduct", id |-> p, sku |-> s,
                  lists |-> {"products"}], {{"saveProduct"}})
    BY <1>3 DEF FindToUpdate
  <2> DEFINE h == [on |-> Products, kind |-> "saveProduct", id |-> p, sku |-> s,
                   lists |-> {"products"}]
             next == IF products[p].sku = s THEN "writeProduct" ELSE "checkSku"
  <2>2. /\ Wired' /\ Alone(r) /\ pc[r] = "new" /\ pc'[r] = next /\ raced \subseteq raced'
        /\ req'[r] = h
    BY <1>1, <2>1, BeginMoves
  <2>3. HoldsGoods(r)'
    BY <2>2 DEF IGoods, GoodsOK, HoldsGoods
  <2>4. GoodsRivalsOK'
    BY <2>1, SaverMeets
  <2>5. SkusRaced' \/ (products[p].sku = s => ~HasSku(products, s, p))
    <3>1. SkusRaced \/ UniqueSkus(products)
      BY DEF IGoods, SkusOK
    <3>2. SkusRaced => SkusRaced'
      BY <2>2, GoodsRacedGrow
    <3> QED
      BY <3>1, <3>2 DEF UniqueSkus, HasSku
  <2>6. SkusOK'
    BY <1>3, <2>2, <2>5, SaverChecked DEF FindToUpdate
  <2> QED
    BY <1>3, <2>2, <2>3, <2>4, <2>6, LookupKeeps DEF FindToUpdate
<1>4. CASE CheckSku(r)
  <2>1. /\ Wired' /\ Alone(r) /\ pc[r] = "checkSku" /\ raced' = raced
        /\ pc'[r] = IF SkuTaken(req[r].sku, req[r].id) THEN "refused" ELSE Checked(req[r])
        /\ pc'[r] # "refused" => req'[r] = req[r]
    BY <1>1, <1>4, GoMoves DEF CheckSku, Checked
  <2>2. pc'[r] # "refused" => /\ req'[r] = req[r]
                              /\ ~HasSku(products, req'[r].sku, req'[r].id)
                              /\ pc'[r] = Checked(req[r])
    BY <2>1 DEF SkuTaken, HasSku
  <2>3. HoldsGoods(r)'
    BY <1>1, <2>1, <2>2 DEF HoldsGoods, Checked
  <2>4. GoodsRivalsOK'
    BY <2>1, SaverStays DEF Checked
  <2>5. SkusOK'
    BY <1>4, <2>1, <2>2, SaverChecked DEF CheckSku, Checked
  <2> QED
    BY <1>4, <2>1, <2>3, <2>4, <2>5, LookupKeeps DEF CheckSku, Checked
<1>5. CASE FindToRemove(r)
  <2>1. PICK p \in DOMAIN products :
           Arrive(r, "removeProduct", [id |-> p, lists |-> {"products"}])
    BY <1>5 DEF FindToRemove
  <2>2. /\ Wired' /\ Alone(r) /\ pc[r] = "new" /\ pc'[r] = "removeProduct" /\ raced' = raced
        /\ req'[r] = [id |-> p, lists |-> {"products"}]
    BY <1>1, <2>1, ArriveMoves
  <2>3. HoldsGoods(r)'
    BY <2>2 DEF HoldsGoods
  <2>4. GoodsRivalsOK'
    BY <2>2, SaverStays
  <2>5. SkusOK'
    BY <1>5, <2>2, SaverChecked DEF FindToRemove
  <2> QED
    BY <1>5, <2>2, <2>3, <2>4, <2>5, LookupKeeps DEF FindToRemove
<1>6. CASE Import(r)
  <2> DEFINE h == [on |-> Products, kind |-> "saveProduct"]
  <2>1. Begin(r, "importRow", h, {{"saveProduct"}})
    BY <1>6 DEF Import
  <2>2. /\ Wired' /\ Alone(r) /\ pc[r] = "new" /\ pc'[r] = "importRow" /\ raced \subseteq raced'
        /\ req'[r] = h
    BY <1>1, <2>1, BeginMoves
  <2>3. HoldsGoods(r)'
    BY <2>2 DEF HoldsGoods
  <2>4. GoodsRivalsOK'
    BY <2>1, SaverMeets
  <2>5. SkusOK'
    BY <1>6, <2>2, SaverChecked DEF Import
  <2> QED
    BY <1>6, <2>2, <2>3, <2>4, <2>5, LookupKeeps DEF Import
<1>7. CASE ImportCheck(r)
  <2>1. PICK s \in Sku :
           /\ ~SkuTaken(s, None)
           /\ Hold(r, "importRow", "importInsert",
                   [on |-> Products, kind |-> "saveProduct", sku |-> s])
    BY <1>7 DEF ImportCheck
  <2>2. /\ Wired' /\ Alone(r) /\ pc[r] = "importRow" /\ pc'[r] = "importInsert" /\ raced' = raced
        /\ req'[r] = [on |-> Products, kind |-> "saveProduct", sku |-> s]
    BY <1>1, <2>1, HoldMoves
  <2>3. HoldsGoods(r)'
    BY <2>2 DEF HoldsGoods
  <2>4. GoodsRivalsOK'
    BY <2>2, SaverStays
  <2>5. ~HasSku(products, s, None)
    BY <2>1 DEF SkuTaken, HasSku
  <2>6. SkusOK'
    BY <1>7, <2>2, <2>5, SaverChecked DEF ImportCheck
  <2> QED
    BY <1>7, <2>2, <2>3, <2>4, <2>6, LookupKeeps DEF ImportCheck
<1>8. CASE ImportDone(r)
  <2>1. /\ Wired' /\ Alone(r) /\ pc[r] = "importRow" /\ pc'[r] = "ok" /\ raced' = raced
    BY <1>1, <1>8, GoMoves DEF ImportDone
  <2>2. HoldsGoods(r)'
    BY <2>1 DEF HoldsGoods
  <2>3. GoodsRivalsOK'
    BY <2>1, SaverStays
  <2>4. SkusOK'
    BY <1>8, <2>1, SaverChecked DEF ImportDone
  <2> QED
    BY <1>8, <2>1, <2>2, <2>3, <2>4, LookupKeeps DEF ImportDone
<1> QED
  BY <1>2, <1>3, <1>4, <1>5, <1>6, <1>7, <1>8

\* A saver that writes is alone.
LEMMA SaverWrites ==
  ASSUME IGoods, NEW r \in Request, Alone(r), raced' = raced, Saving(r),
         pc'[r] \notin {"insertProduct", "importInsert", "writeProduct"},
         ~SkusRaced => UniqueSkus(products')
  PROVE  SkusOK'
<1>1. CASE SkusRaced
  BY <1>1 DEF SkusOK, SkusRaced, Together
<1>2. CASE ~SkusRaced
  <2>1. \A q \in Request \ {r} : ~Saving(q) /\ pc'[q] = pc[q]
    BY <1>2 DEF IGoods, GoodsRivalsOK, Alone
  <2>2. \A q \in Request : pc'[q] \notin {"insertProduct", "importInsert", "writeProduct"}
    BY <2>1 DEF Saving
  <2> QED
    BY <1>2, <2>2 DEF SkusOK
<1> QED
  BY <1>1, <1>2

\* A product is put in, with a SKU that was free, and with no picture.
LEMMA PutProductKeeps ==
  ASSUME IGoods, NEW r \in Request, InsertProduct(r) \/ ImportInsert(r)
  PROVE  IGoods'
<1> USE DEF catalogVars
<1>1. /\ Wired' /\ Alone(r) /\ raced' = raced
      /\ \/ pc[r] = "insertProduct" /\ pc'[r] = "dropLists" /\ ProductChanged
         \/ /\ pc[r] = "importInsert" /\ pc'[r] = "importRow"
            /\ Change(List) /\ excused' = List
      /\ req'[r] = req[r]
      /\ UNCHANGED <<units, files, taken, cut>>
  BY GoMoves DEF IGoods, InsertProduct, ImportInsert
<1>2. PICK p \in Product \ DOMAIN products :
         products' = Put(products, p, [sku |-> req[r].sku, image |-> None])
  BY DEF InsertProduct, ImportInsert
<1>3. PICK s \in Sku : s = req[r].sku
  BY <1>1 DEF IGoods, HoldsGoods
<1>4. /\ DOMAIN products' = DOMAIN products \cup {p}
      /\ products'[p] = [sku |-> s, image |-> None]
      /\ \A x \in DOMAIN products : products'[x] = products[x]
      /\ products' = [x \in DOMAIN products' |-> products'[x]]
  BY <1>2, <1>3 DEF Put
<1>5. DOMAIN products' \subseteq Product
      /\ products' \in [DOMAIN products' -> [sku : Sku, image : Picture \cup {None}]]
  <2>1. DOMAIN products \subseteq Product /\ \A x \in DOMAIN products :
           products[x] \in [sku : Sku, image : Picture \cup {None}]
    BY DEF IGoods, GoodsOK
  <2>2. products'[p] \in [sku : Sku, image : Picture \cup {None}]
    BY <1>3, <1>4
  <2>3. \A x \in DOMAIN products' :
           x = p \/ products'[x] \in [sku : Sku, image : Picture \cup {None}]
    BY <1>4, <2>1
  <2> QED
    BY <1>4, <2>1, <2>2, <2>3
<1>6. HoldsGoods(r)'
  BY <1>1 DEF IGoods, HoldsGoods, AddingUnit, Rebasing, DroppingUnit, Saving, Picturing
<1>7. GoodsRivalsOK'
  BY <1>1, SaverStays DEF Saving, UnitPlaces
<1>8. ASSUME ~SkusRaced PROVE UniqueSkus(products')
  <2>1. UniqueSkus(products) /\ ~HasSku(products, s, None)
    BY <1>1, <1>3, <1>8 DEF IGoods, SkusOK
  <2>2. \A x \in DOMAIN products : products[x].sku # s
    BY <2>1, ProductAssumption DEF IGoods, GoodsOK, HasSku
  <2> QED
    BY <1>4, <2>1, <2>2 DEF UniqueSkus
<1>9. SkusOK'
  BY <1>1, <1>8, SaverWrites DEF Saving
<1>10. StaleListExplained' /\ DOMAIN cached' = List
  <2>1. CASE ProductChanged /\ pc'[r] = "dropLists" /\ pc[r] = "insertProduct"
    <3>1. req'[r].lists = {"products"}
      BY <1>1, <2>1 DEF IGoods, HoldsGoods
    <3> QED
      BY <1>1, <2>1, <3>1, ProductChangedShows
  <2>2. CASE Change(List) /\ excused' = List
    BY <2>2, ChangeShows DEF IGoods, GoodsOK, StaleListExplained
  <2> QED
    BY <1>1, <2>1, <2>2
<1>11. PicturesOK'
  BY <1>1, <1>4, PicturesStay DEF IGoods, Picturing
<1> QED
  BY <1>1, <1>5, <1>6, <1>7, <1>9, <1>10, <1>11, ProductHalves DEF UnitPlaces

\* What a request leaves that ends where its row is gone.
LEMMA GoneKeeps ==
  ASSUME IGoods, NEW r \in Request, UNCHANGED <<units, products, files, taken, cut, listVars>>,
         Go(r, pc[r], "error"), pc[r] \in {"writeProduct", "removeProduct"}
  PROVE  IGoods'
<1> USE DEF listVars
<1>1. Wired' /\ Alone(r) /\ raced' = raced /\ pc'[r] = "error"
  BY GoMoves DEF IGoods
<1>2. HoldsGoods(r)'
  BY <1>1 DEF HoldsGoods, AddingUnit, Rebasing, DroppingUnit, Saving, Picturing
<1>3. GoodsRivalsOK'
  BY <1>1, SaverStays DEF Saving, UnitPlaces
<1>4. SkusOK'
  BY <1>1, SaverChecked
<1> QED
  BY <1>1, <1>2, <1>3, <1>4, LookupKeeps DEF UnitPlaces

LEMMA WriteProductKeeps ==
  ASSUME IGoods, NEW r \in Request, WriteProduct(r)
  PROVE  IGoods'
<1> USE DEF catalogVars
<1>1. PICK p \in Product : p = req[r].id
  BY DEF IGoods, HoldsGoods, WriteProduct
<1>2. CASE p \notin DOMAIN products
  BY <1>1, <1>2, GoneKeeps DEF WriteProduct
<1>3. CASE p \in DOMAIN products
  <2>1. /\ Wired' /\ Alone(r) /\ raced' = raced
        /\ pc[r] = "writeProduct" /\ pc'[r] = "dropLists" /\ ProductChanged
        /\ req'[r] = req[r]
        /\ UNCHANGED <<units, files, taken, cut>>
    BY <1>1, <1>3, GoMoves DEF IGoods, WriteProduct
  <2>2. PICK s \in Sku : s = req[r].sku
    BY <2>1 DEF IGoods, HoldsGoods
  <2>3. products' = [products EXCEPT ![p].sku = s]
    BY <1>1, <1>3, <2>2 DEF WriteProduct
  <2>4. DOMAIN products \subseteq Product
        /\ products \in [DOMAIN products -> [sku : Sku, image : Picture \cup {None}]]
    BY DEF IGoods, GoodsOK
  <2>5. /\ DOMAIN products' = DOMAIN products
        /\ products'[p].sku = s /\ products'[p].image = products[p].image
        /\ \A x \in DOMAIN products \ {p} : products'[x] = products[x]
        /\ products' \in [DOMAIN products' -> [sku : Sku, image : Picture \cup {None}]]
    BY <1>3, <2>3, <2>4
  <2>6. HoldsGoods(r)' /\ req'[r].lists = {"products"}
    BY <2>1 DEF IGoods, HoldsGoods, AddingUnit, Rebasing, DroppingUnit, Saving, Picturing
  <2>7. GoodsRivalsOK'
    BY <2>1, SaverStays DEF Saving, UnitPlaces
  <2>8. ASSUME ~SkusRaced PROVE UniqueSkus(products')
    <3>1. UniqueSkus(products) /\ ~HasSku(products, s, p)
      BY <1>1, <2>1, <2>2, <2>8 DEF IGoods, SkusOK
    <3> QED
      BY <2>5, <3>1 DEF UniqueSkus, HasSku
  <2>9. SkusOK'
    BY <2>1, <2>8, SaverWrites DEF Saving
  <2>10. StaleListExplained' /\ DOMAIN cached' = List
    BY <2>1, <2>6, ProductChangedShows
  <2>11. PicturesOK'
    BY <2>1, <2>5, PicturesStay DEF IGoods, Picturing
  <2> QED
    BY <2>1, <2>4, <2>5, <2>6, <2>7, <2>9, <2>10, <2>11, ProductHalves DEF UnitPlaces
<1> QED
  BY <1>2, <1>3

LEMMA RemoveProductKeeps ==
  ASSUME IGoods, NEW r \in Request, RemoveProduct(r)
  PROVE  IGoods'
<1> USE DEF catalogVars
<1>1. PICK p : p = req[r].id
  OBVIOUS
<1>2. CASE p \notin DOMAIN products
  BY <1>1, <1>2, GoneKeeps DEF RemoveProduct
<1>3. CASE p \in DOMAIN products
  <2>1. /\ Wired' /\ Alone(r) /\ raced' = raced
        /\ pc[r] = "removeProduct" /\ pc'[r] = "dropLists" /\ ProductChanged
        /\ req'[r] = req[r]
        /\ UNCHANGED <<units, files, taken, cut>>
    BY <1>1, <1>3, GoMoves DEF IGoods, RemoveProduct
  <2>2. products' = [x \in DOMAIN products \ {p} |-> products[x]]
    BY <1>1, <1>3 DEF RemoveProduct
  <2>3. DOMAIN products' \subseteq DOMAIN products
        /\ \A x \in DOMAIN products' : products'[x] = products[x]
    BY <2>2
  <2>4. DOMAIN products' \subseteq Product
        /\ products' \in [DOMAIN products' -> [sku : Sku, image : Picture \cup {None}]]
    BY <2>2, <2>3 DEF IGoods, GoodsOK
  <2>5. HoldsGoods(r)' /\ req'[r].lists = {"products"}
    BY <2>1 DEF IGoods, HoldsGoods, AddingUnit, Rebasing, DroppingUnit, Saving, Picturing
  <2>6. GoodsRivalsOK'
    BY <2>1, SaverStays DEF Saving, UnitPlaces
  <2>7. SkusOK'
    BY <2>1, <2>3, SkusStay DEF IGoods
  <2>8. StaleListExplained' /\ DOMAIN cached' = List
    BY <2>1, <2>5, ProductChangedShows
  <2>9. PicturesOK'
    BY <2>1, <2>3, PicturesStay DEF IGoods, Picturing
  <2> QED
    BY <2>1, <2>4, <2>5, <2>6, <2>7, <2>8, <2>9, ProductHalves DEF UnitPlaces
<1> QED
  BY <1>2, <1>3

\* The file of a product's picture goes, another may come, and the row is to follow.
LEMMA PictureReplaced ==
  ASSUME IGoods, NEW r \in Request, NEW p \in DOMAIN products, NEW new, NEW former,
         Wired', Alone(r), raced' = raced, pc[r] = "new", pc'[r] = "storeImage",
         req'[r].image \in Picture \cup {None}, new = {req'[r].image} \cap Picture,
         req'[r].id = p, req'[r].old = former, req'[r].lists = {"products"},
         former = Shown(products, p),
         new \cap taken = {}, files' = (files \cup new) \ former, taken' = taken \cup new,
         UNCHANGED <<units, products, cached, excused, cut>>
  PROVE  IGoods'
<1>1. PicturesOK /\ former \subseteq Picture
  BY DEF IGoods, Shown
<1>2. HoldsGoods(r)'
  BY <1>1 DEF HoldsGoods, AddingUnit, Rebasing, DroppingUnit, Saving, Picturing
<1>3. GoodsRivalsOK'
  BY SaverStays DEF Saving, UnitPlaces
<1>4. SkusOK'
  BY SaverChecked
<1>5. StaleListExplained'
  BY ListsStay DEF IGoods
<1>6. /\ products' \in [DOMAIN products' -> [sku : Sku, image : Picture \cup {None}]]
      /\ DOMAIN products' \subseteq Product /\ DOMAIN cached' = List
  BY DEF IGoods, GoodsOK
<1>7. /\ Fresh(req'[r]) = new /\ Picturing(r)' /\ ~Picturing(r)
      /\ \A q \in Request \ {r} : (Picturing(q)' => Picturing(q)) /\ req'[q] = req[q]
  BY DEF Alone, Fresh, Picturing
<1>8. /\ Distinct(products, taken) /\ files \subseteq taken
      /\ \A q \in Request : Picturing(q) => MayStore(req[q], products, files, taken)
  BY <1>1 DEF PicturesOK
<1>9. PicturesOK'
  <2>1. ImagesExplained'
    <3> SUFFICES ASSUME NEW o \in DOMAIN products,
                        NEW i \in Shown(products, o) \ (files' \cup cut)
                 PROVE  \E q \in Request : pc'[q] = "storeImage" /\ i \in req'[q].old
      BY DEF ImagesExplained, Images, Shown
    <3>1. CASE i \in former
      BY <3>1
    <3>2. CASE i \notin files
      <4>1. PICK q \in Request : pc[q] = "storeImage" /\ i \in req[q].old
        BY <1>1, <3>2 DEF PicturesOK, ImagesExplained, Images, Shown
      <4> QED
        BY <4>1 DEF Alone
    <3> QED
      BY <3>1, <3>2
  <2>2. files' \subseteq taken' /\ Distinct(products, taken')
    BY <1>8 DEF Distinct
  <2>3. MayStore(req'[r], products, files', taken')
    BY <1>7, <1>8 DEF MayStore, Distinct, Apart
  <2>4. \A h : MayStore(h, products, files, taken) =>
           /\ MayStore(h, products, files', taken')
           /\ Apart(Fresh(h), former) /\ Apart(Fresh(h), new) /\ Apart(new, Fresh(h))
           /\ Apart(new, h.old)
    BY DEF MayStore, Apart
  <2>5. ASSUME NEW q \in Request, Picturing(q)'
        PROVE  MayStore(req'[q], products, files', taken')
    BY <1>7, <1>8, <2>3, <2>4, <2>5
  <2>6. ASSUME NEW q \in Request, NEW x \in Request, q # x, Picturing(q)', Picturing(x)'
        PROVE  Unrelated(req'[q], req'[x])
    <3>1. CASE q = r
      <4>1. req'[x] = req[x] /\ MayStore(req[x], products, files, taken)
        BY <1>7, <1>8, <2>6, <3>1
      <4>2. Apart(new, req[x].old) /\ Apart(new, Fresh(req[x]))
        BY <2>4, <4>1
      <4> QED
        BY <1>7, <3>1, <4>1, <4>2 DEF Unrelated
    <3>2. CASE x = r
      <4>1. req'[q] = req[q] /\ MayStore(req[q], products, files, taken)
        BY <1>7, <1>8, <2>6, <3>2
      <4>2. Apart(Fresh(req[q]), former) /\ Apart(Fresh(req[q]), new)
        BY <2>4, <4>1
      <4> QED
        BY <1>7, <3>2, <4>1, <4>2 DEF Unrelated
    <3>3. CASE q # r /\ x # r
      BY <1>1, <1>7, <2>6, <3>3 DEF PicturesOK
    <3> QED
      BY <3>1, <3>2, <3>3
  <2> QED
    BY <2>1, <2>2, <2>5, <2>6 DEF PicturesOK
<1> QED
  BY <1>2, <1>3, <1>4, <1>5, <1>6, <1>9, ProductHalves DEF UnitPlaces

LEMMA FindToPictureKeeps ==
  ASSUME IGoods, NEW r \in Request, FindToPicture(r)
  PROVE  IGoods'
<1>1. PICK p \in DOMAIN products, i \in Picture \ taken :
         /\ Arrive(r, "storeImage", [id |-> p, image |-> i, old |-> Images(p),
                                     lists |-> {"products"}])
         /\ files' = (files \cup {i}) \ Images(p)
         /\ taken' = taken \cup {i}
         /\ UNCHANGED <<units, products, cached, excused, cut>>
  BY DEF FindToPicture, listVars
<1>2. /\ Wired' /\ Alone(r) /\ raced' = raced /\ pc[r] = "new" /\ pc'[r] = "storeImage"
      /\ req'[r] = [id |-> p, image |-> i, old |-> Images(p), lists |-> {"products"}]
  BY <1>1, ArriveMoves DEF IGoods
<1>3. /\ {i} = {req'[r].image} \cap Picture /\ req'[r].image \in Picture \cup {None}
      /\ req'[r].id = p /\ req'[r].old = Images(p) /\ req'[r].lists = {"products"}
      /\ {i} \cap taken = {}
  BY <1>2
<1>4. Images(p) = Shown(products, p)
  BY DEF Images, Shown
<1> QED
  BY <1>1, <1>2, <1>3, <1>4, PictureReplaced

LEMMA FindToUnpictureKeeps ==
  ASSUME IGoods, NEW r \in Request, FindToUnpicture(r)
  PROVE  IGoods'
<1>1. PICK p \in DOMAIN products :
         /\ Arrive(r, "storeImage", [id |-> p, image |-> None, old |-> Images(p),
                                     lists |-> {"products"}])
         /\ files' = files \ Images(p)
         /\ UNCHANGED <<units, products, taken, cached, excused, cut>>
  BY DEF FindToUnpicture, listVars
<1>2. /\ Wired' /\ Alone(r) /\ raced' = raced /\ pc[r] = "new" /\ pc'[r] = "storeImage"
      /\ req'[r] = [id |-> p, image |-> None, old |-> Images(p), lists |-> {"products"}]
  BY <1>1, ArriveMoves DEF IGoods
<1>3. /\ {} = {req'[r].image} \cap Picture /\ req'[r].image \in Picture \cup {None}
      /\ req'[r].id = p /\ req'[r].old = Images(p) /\ req'[r].lists = {"products"}
      /\ {} \cap taken = {} /\ files' = (files \cup {}) \ Images(p) /\ taken' = taken \cup {}
  BY <1>1, <1>2, ProductAssumption
<1>4. Images(p) = Shown(products, p)
  BY DEF Images, Shown
<1> QED
  BY <1>1, <1>2, <1>3, <1>4, PictureReplaced

\* The row is written with its new picture, or is gone.
LEMMA StoreImageKeeps ==
  ASSUME IGoods, NEW r \in Request, StoreImage(r)
  PROVE  IGoods'
<1> USE DEF catalogVars, listVars
<1>1. PICK h : h = req[r]
  OBVIOUS
<1>2. /\ pc[r] = "storeImage" /\ Picturing(r)
      /\ h.old \subseteq Picture /\ h.image \in Picture \cup {None} /\ h.lists = {"products"}
      /\ MayStore(h, products, files, taken)
      /\ UNCHANGED <<units, files, taken, cut>>
  BY <1>1 DEF StoreImage, IGoods, PicturesOK, HoldsGoods, Picturing
<1>3. /\ Wired' /\ Alone(r) /\ raced' = raced
      /\ h.id \in DOMAIN products => pc'[r] = "dropLists" /\ req'[r] = h
      /\ h.id \notin DOMAIN products => pc'[r] = "error"
  BY <1>1, GoMoves DEF IGoods, StoreImage
<1>4. HoldsGoods(r)'
  BY <1>2, <1>3 DEF HoldsGoods, AddingUnit, Rebasing, DroppingUnit, Saving, Picturing
<1>5. GoodsRivalsOK'
  BY <1>3, SaverStays DEF Saving, UnitPlaces
<1>6. /\ ~Picturing(r)'
      /\ \A q \in Request : Picturing(q)' => q # r /\ Picturing(q) /\ req'[q] = req[q]
  BY <1>3 DEF Alone, Picturing
<1>7. /\ Distinct(products, taken) /\ files \subseteq taken
      /\ \A q \in Request : q # r /\ Picturing(q) =>
            /\ MayStore(req[q], products, files, taken)
            /\ Unrelated(h, req[q]) /\ Unrelated(req[q], h)
      /\ \A q, x \in Request : q # x /\ Picturing(q) /\ Picturing(x) => Unrelated(req[q], req[x])
  BY <1>1, <1>2 DEF IGoods, PicturesOK
\* Another product's picture is not what this request has deleted.
<1>8. ASSUME NEW o \in DOMAIN products \ {h.id}, NEW i \in Shown(products, o) \ (files \cup cut)
      PROVE  \E q \in Request : pc'[q] = "storeImage" /\ i \in req'[q].old
  <2>1. PICK q \in Request : pc[q] = "storeImage" /\ i \in req[q].old
    BY DEF IGoods, PicturesOK, ImagesExplained, Images, Shown
  <2>2. q # r
    BY <1>1, <1>2, <2>1 DEF MayStore, Apart
  <2> QED
    BY <1>3, <2>1, <2>2 DEF Alone
<1>9. CASE h.id \notin DOMAIN products
  <2>1. UNCHANGED <<products, cached, behind, excused>>
    BY <1>1, <1>9 DEF StoreImage
  <2>2. /\ products' \in [DOMAIN products' -> [sku : Sku, image : Picture \cup {None}]]
        /\ DOMAIN products' \subseteq Product /\ DOMAIN cached' = List
    BY <2>1 DEF IGoods, GoodsOK
  <2>3. SkusOK'
    BY <1>3, <1>9, <2>1, SaverChecked
  <2>4. StaleListExplained'
    BY <1>2, <1>3, <2>1, ListsStay DEF IGoods
  <2>5. ImagesExplained'
    BY <1>2, <1>8, <1>9, <2>1 DEF ImagesExplained, Images, Shown
  <2>6. PicturesOK'
    BY <1>2, <1>6, <1>7, <2>1, <2>5 DEF PicturesOK
  <2> QED
    BY <1>2, <1>3, <1>4, <1>5, <1>9, <2>2, <2>3, <2>4, <2>6, ProductHalves DEF UnitPlaces
<1>10. CASE h.id \in DOMAIN products
  <2>1. PICK p : p = h.id
    OBVIOUS
  <2>2. products' = [products EXCEPT ![p].image = h.image] /\ ProductChanged
    BY <1>1, <1>10, <2>1 DEF StoreImage
  <2>3. DOMAIN products \subseteq Product
        /\ products \in [DOMAIN products -> [sku : Sku, image : Picture \cup {None}]]
    BY DEF IGoods, GoodsOK
  <2>4. /\ p \in DOMAIN products /\ DOMAIN products' = DOMAIN products
        /\ products'[p].sku = products[p].sku /\ products'[p].image = h.image
        /\ \A x \in DOMAIN products \ {p} : products'[x] = products[x]
        /\ products' \in [DOMAIN products' -> [sku : Sku, image : Picture \cup {None}]]
    BY <1>2, <1>10, <2>1, <2>2, <2>3
  <2>5. \A x \in DOMAIN products : products'[x].sku = products[x].sku
    BY <2>4
  <2>6. SkusOK'
    BY <1>3, <1>10, <2>4, <2>5, SkusStay DEF IGoods
  <2>7. StaleListExplained' /\ DOMAIN cached' = List
    BY <1>2, <1>3, <1>10, <2>2, ProductChangedShows
  <2>8. /\ Shown(products', p) = Fresh(h)
        /\ \A o : o # p => Shown(products', o) = Shown(products, o)
    BY <2>4 DEF Shown, Fresh
  <2>9. ImagesExplained'
    <3> SUFFICES ASSUME NEW o \in DOMAIN products,
                        NEW i \in Shown(products', o) \ (files \cup cut)
                 PROVE  \E q \in Request : pc'[q] = "storeImage" /\ i \in req'[q].old
      BY <1>2, <2>4 DEF ImagesExplained, Images, Shown
    <3>1. o # p
      BY <1>2, <2>8 DEF MayStore
    <3> QED
      BY <1>8, <2>1, <2>8, <3>1
  <2>10. Distinct(products', taken)
    <3>1. Fresh(h) \subseteq taken /\ \A o \in DOMAIN products : Apart(Fresh(h), Shown(products, o))
      BY <1>2 DEF MayStore
    <3> QED
      BY <1>7, <2>4, <2>8, <3>1 DEF Distinct, Apart
  <2>11. \A g : MayStore(g, products, files, taken) /\ Unrelated(g, h) /\ Unrelated(h, g) =>
            MayStore(g, products', files, taken)
    BY <2>4, <2>8 DEF MayStore, Unrelated, Apart
  <2>12. \A q \in Request : Picturing(q)' => MayStore(req'[q], products', files, taken)
    BY <1>6, <1>7, <2>11
  <2>13. PicturesOK'
    BY <1>2, <1>6, <1>7, <2>9, <2>10, <2>12 DEF PicturesOK
  <2> QED
    BY <1>2, <1>3, <1>4, <1>5, <1>10, <2>3, <2>4, <2>6, <2>7, <2>13, ProductHalves DEF UnitPlaces
<1> QED
  BY <1>9, <1>10
-----------------------------------------------------------------------------
(***************************************************************************)
(* Refused statements, the process dying, time, and the theorems.          *)
(***************************************************************************)
LEMMA RefuseKeepsGoods ==
  ASSUME IGoods, NEW r \in Request, Refuse(r)
  PROVE  IGoods'
<1> USE DEF catalogVars
<1>1. /\ Wired' /\ Alone(r) /\ raced' = raced /\ pc'[r] = "error" /\ Busy(r)
      /\ UNCHANGED <<units, products, files, taken, cached>>
  BY FailMoves DEF IGoods, Refuse, LeftBy
<1>2. HoldsGoods(r)'
  BY <1>1 DEF HoldsGoods, AddingUnit, Rebasing, DroppingUnit, Saving, Picturing
<1>3. GoodsRivalsOK'
  BY <1>1, SaverStays DEF Saving, UnitPlaces
<1>4. SkusOK'
  BY <1>1, SaverChecked
<1>5. /\ products' \in [DOMAIN products' -> [sku : Sku, image : Picture \cup {None}]]
      /\ DOMAIN products' \subseteq Product /\ DOMAIN cached' = List
  BY <1>1 DEF IGoods, GoodsOK
<1>6. /\ excused \subseteq excused'
      /\ pc[r] = "dropLists" => req[r].lists \subseteq excused'
      /\ cut \subseteq cut'
      /\ pc[r] = "storeImage" => req[r].old \subseteq cut'
  BY DEF Refuse, LeftBy
<1>7. StaleListExplained'
  BY <1>1, <1>6 DEF IGoods, StaleListExplained, Dropping, Alone
<1>8. ImagesExplained'
  <2> SUFFICES ASSUME NEW p \in DOMAIN products, NEW i \in Shown(products, p) \ (files \cup cut')
               PROVE  \E q \in Request : pc'[q] = "storeImage" /\ i \in req'[q].old
    BY <1>1 DEF ImagesExplained, Images, Shown
  <2>1. PICK q \in Request : pc[q] = "storeImage" /\ i \in req[q].old
    BY <1>6 DEF IGoods, PicturesOK, ImagesExplained, Images, Shown
  <2> QED
    BY <1>1, <1>6, <2>1 DEF Alone
<1>9. \A q \in Request : Picturing(q)' => q # r /\ Picturing(q) /\ req'[q] = req[q]
  BY <1>1 DEF Alone, Picturing
<1>10. PicturesOK'
  BY <1>1, <1>8, <1>9 DEF IGoods, PicturesOK
<1> QED
  BY <1>1, <1>2, <1>3, <1>4, <1>5, <1>7, <1>10, ProductHalves DEF UnitPlaces

LEMMA RestartKeepsGoods ==
  ASSUME IGoods, Restart
  PROVE  IGoods'
<1> USE DEF catalogVars
<1>1. /\ Wired' /\ raced' = raced
      /\ UNCHANGED <<units, products, files, taken>>
      /\ \A q \in Request : pc'[q] \in Answered \cup {"new"}
  BY HaltMoves DEF IGoods, Restart, Busy
<1>2. \A q \in Request : HoldsGoods(q)'
  BY <1>1 DEF HoldsGoods, AddingUnit, Rebasing, DroppingUnit, Saving, Picturing
<1>3. GoodsOK'
  BY <1>1 DEF IGoods, GoodsOK, Restart
<1>4. GoodsRivalsOK'
  BY <1>1 DEF GoodsRivalsOK, Rebasing, AddingUnit, DroppingUnit, Saving
<1>5. UnitsOK'
  BY <1>1 DEF IGoods, UnitsOK, UnitsRaced, Together, AddingUnit, DroppingUnit
<1>6. SkusOK'
  BY <1>1 DEF IGoods, SkusOK, SkusRaced, Together
<1>7. StaleListExplained'
  BY DEF Restart, StaleListExplained
<1>8. ImagesExplained'
  <2> SUFFICES ASSUME NEW p \in DOMAIN products, NEW i \in Shown(products, p) \ (files \cup cut')
               PROVE  FALSE
    BY <1>1 DEF ImagesExplained, Images, Shown
  <2>1. cut' = cut \cup UNION {req[x].old : x \in {y \in Request : pc[y] = "storeImage"}}
    BY DEF Restart
  <2>2. PICK q \in Request : pc[q] = "storeImage" /\ i \in req[q].old
    BY <2>1 DEF IGoods, PicturesOK, ImagesExplained, Images, Shown
  <2> QED
    BY <2>1, <2>2
<1>9. PicturesOK'
  BY <1>1, <1>8 DEF IGoods, PicturesOK, Picturing
<1> QED
  BY <1>1, <1>2, <1>3, <1>4, <1>5, <1>6, <1>7, <1>9 DEF IGoods

\* Time passes, or nothing happens.
LEMMA GoodsRest ==
  ASSUME IGoods, UNCHANGED <<requestVars, units, products, files, taken, cut>>,
         DOMAIN cached' = List, StaleListExplained'
  PROVE  IGoods'
<1> USE DEF requestVars
<1>1. Wired' /\ GoodsOK' /\ \A r \in Request : HoldsGoods(r)'
  BY DEF IGoods, Wired, GoodsOK, HoldsGoods, AddingUnit, Rebasing, DroppingUnit, Saving, Picturing
<1>2. GoodsRivalsOK'
  BY DEF IGoods, GoodsRivalsOK, AddingUnit, Rebasing, DroppingUnit, Saving, UnitsRaced, SkusRaced,
         Together
<1>3. UnitsOK' /\ SkusOK'
  BY DEF IGoods, UnitsOK, SkusOK, UnitsRaced, SkusRaced, Together, AddingUnit, DroppingUnit
<1>4. PicturesOK'
  BY DEF IGoods, PicturesOK, ImagesExplained, Images, Picturing
<1> QED
  BY <1>1, <1>2, <1>3, <1>4 DEF IGoods

LEMMA ExpireKeepsGoods ==
  ASSUME IGoods, Expire
  PROVE  IGoods'
<1>1. PICK l \in List : cached' = [cached EXCEPT ![l] = "none"] /\ excused' = excused \ {l}
  BY DEF Expire
<1>2. UNCHANGED <<requestVars, units, products, files, taken, cut>>
  BY DEF Expire, catalogVars
<1>3. \A k : Dropping(k)' = Dropping(k)
  BY <1>2 DEF Dropping, requestVars
<1>4. DOMAIN cached' = List /\ StaleListExplained'
  BY <1>1, <1>3 DEF IGoods, GoodsOK, StaleListExplained
<1> QED
  BY <1>2, <1>4, GoodsRest

LEMMA GoodsStepKeeps == IGoods /\ [ProductsNext]_<<requestVars, goodsVars>> => IGoods'
<1> SUFFICES ASSUME IGoods, [ProductsNext]_<<requestVars, goodsVars>> PROVE IGoods'
  OBVIOUS
<1>1. CASE \E r \in Request : (CategoryStep(r) \/ UnitStep(r)) /\ UNCHANGED productVars
  <2>1. PICK r \in Request : (CategoryStep(r) \/ UnitStep(r)) /\ UNCHANGED productVars
    BY <1>1
  <2>2. CASE CategoryStep(r)
    <3>1. UNCHANGED units
      BY <2>2 DEF CategoryStep, FindParent, InsertCategory, FindToMove, FindNewParent, Walk,
                  MoveCategory, FindToDrop, DropCategory, catalogVars
    <3> QED
      BY <2>1, <2>2, <3>1, CategoryKeepsGoods
  <2>3. CASE UnitStep(r)
    BY <2>1, <2>3, UnitKeepsGoods
  <2> QED
    BY <2>1, <2>2, <2>3
<1>2. CASE \E r \in Request : ProductStep(r)
  <2>1. PICK r \in Request : ProductStep(r)
    BY <1>2
  <2> QED
    BY <2>1, ListKeepsGoods, FindKeepsGoods, PutProductKeeps, WriteProductKeeps,
       RemoveProductKeeps, FindToPictureKeeps, FindToUnpictureKeeps, StoreImageKeeps
       DEF ProductStep
<1>3. CASE \E r \in Request : Refuse(r)
  BY <1>3, RefuseKeepsGoods
<1>4. CASE Restart
  BY <1>4, RestartKeepsGoods
<1>5. CASE Expire
  BY <1>5, ExpireKeepsGoods
<1>6. CASE UNCHANGED <<requestVars, goodsVars>>
  <2>1. DOMAIN cached' = List /\ StaleListExplained'
    BY <1>6 DEF IGoods, GoodsOK, StaleListExplained, Dropping, requestVars, goodsVars, productVars,
                listVars
  <2> QED
    BY <1>6, <2>1, GoodsRest DEF goodsVars, productVars, catalogVars
<1> QED
  BY <1>1, <1>2, <1>3, <1>4, <1>5, <1>6 DEF ProductsNext

\* A unit in use has no more than one above it, unless rivals were under way together.
THEOREM UnitsKeepTwoLevels == ProductsSpec => []UnitsHaveTwoLevels
<1>1. IGoods => UnitsHaveTwoLevels
  BY GoodsImply
<1> QED
  BY <1>1, GoodsInitial, GoodsStepKeeps, PTL DEF ProductsSpec

\* No two products share a SKU, unless two requests that save were under way together.
THEOREM SkusStayUnique == ProductsSpec => []SkusAreUnique
<1>1. IGoods => SkusAreUnique
  BY GoodsImply
<1> QED
  BY <1>1, GoodsInitial, GoodsStepKeeps, PTL DEF ProductsSpec

\* A list is stale only before its drop, or where none is to come.
THEOREM StaleListsAreExplained == ProductsSpec => []StaleListExplained
<1>1. IGoods => StaleListExplained
  BY GoodsImply
<1> QED
  BY <1>1, GoodsInitial, GoodsStepKeeps, PTL DEF ProductsSpec

\* A product's picture is on disk, unless a request is, or was cut off, between both.
THEOREM ImagesAreExplained == ProductsSpec => []ImagesExplained
<1>1. IGoods => ImagesExplained
  BY GoodsImply
<1> QED
  BY <1>1, GoodsInitial, GoodsStepKeeps, PTL DEF ProductsSpec
-----------------------------------------------------------------------------
(***************************************************************************)
(* CategoriesFormAForest, for any number of categories and requests.       *)
(*                                                                         *)
(* That there is no circle is said of sets: a set of categories none of    *)
(* whose parents is outside it is empty. The categories a walk has seen    *)
(* are such a set but for the one it is at; the category to be moved is    *)
(* not among them, so it can hang below any of them.                       *)
(***************************************************************************)

AddingCategory(r) == pc[r] = "insertCategory"
MovingCategory(r) == pc[r] \in {"findNewParent", "walk", "moveCategory"}
DroppingCategory(r) == pc[r] = "dropCategory"

MovesRaced == Together(Categories, "moveCategory", "moveCategory")
BranchesRaced ==
    \E k \in {"addCategory", "moveCategory"} : Together(Categories, k, "dropCategory")

\* What a request holds.
HoldsCategory(r) ==
    /\ pc[r] \in AtCategory => "on" \in DOMAIN req[r] /\ req[r].on = Categories
    /\ AddingCategory(r) =>
          req[r].kind = "addCategory" /\ req[r].parent \in DOMAIN cats \cup {None}
    /\ MovingCategory(r) =>
          /\ req[r].kind = "moveCategory" /\ req[r].id \in DOMAIN cats
          /\ req[r].parent \in DOMAIN cats \cup {None} /\ req[r].parent # req[r].id
    /\ pc[r] \in {"findNewParent", "walk"} =>
          /\ {"at", "visited"} \subseteq DOMAIN req[r]
          /\ req[r].parent # None /\ req[r].at \in DOMAIN cats
    /\ pc[r] = "findNewParent" => req[r].at = req[r].parent /\ req[r].visited = {req[r].parent}
    /\ DroppingCategory(r) => req[r].kind = "dropCategory"

\* The table.
CategoriesOK ==
    /\ cats \in [DOMAIN cats -> [parent : DOMAIN cats \cup {None}, live : BOOLEAN]]
    /\ DOMAIN cats \subseteq Category

\* Two that rely on the same categories were under way together.
BranchRivalsOK ==
    \A r, q \in Request : r # q =>
        /\ MovingCategory(r) /\ MovingCategory(q) => MovesRaced
        /\ (AddingCategory(r) \/ MovingCategory(r)) /\ DroppingCategory(q) => BranchesRaced

NoCircle(t) == \A s \in SUBSET DOMAIN t : s # {} => \E c \in s : t[c].parent \notin s
\* The walk h has seen these on its way up from the new parent, and not the category.
Seen(t, h) == /\ h.parent \in h.visited /\ h.visited \subseteq DOMAIN t
              /\ h.id \notin h.visited
Climbing(t, h) == /\ Seen(t, h) /\ h.at \in h.visited
                  /\ \A c \in h.visited \ {h.at} : t[c].parent \in h.visited
Climbed(t, h) == Seen(t, h) /\ \A c \in h.visited : t[c].parent \in h.visited \cup {None}

CirclesOK ==
    \/ MovesRaced
    \/ /\ NoCircle(cats)
       /\ \A r \in Request :
             /\ pc[r] = "walk" => Climbing(cats, req[r])
             /\ pc[r] = "moveCategory" => req[r].parent = None \/ Climbed(cats, req[r])

IsLive(t, c) == c \in DOMAIN t /\ t[c].live
HasChildren(t, c) == \E x \in DOMAIN t : t[x].live /\ t[x].parent = c
Hung(t) == \A c \in DOMAIN t : t[c].live => t[c].parent = None \/ IsLive(t, t[c].parent)

BranchesOK ==
    \/ BranchesRaced
    \/ /\ Hung(cats)
       /\ \A r \in Request :
             /\ AddingCategory(r) => req[r].parent = None \/ IsLive(cats, req[r].parent)
             /\ pc[r] = "walk" => IsLive(cats, req[r].parent)
             /\ pc[r] = "moveCategory" => req[r].parent = None \/ IsLive(cats, req[r].parent)
             /\ DroppingCategory(r) => ~HasChildren(cats, req[r].id)

IForest ==
    /\ Wired /\ CategoriesOK /\ BranchRivalsOK /\ CirclesOK /\ BranchesOK
    /\ \A r \in Request : HoldsCategory(r)
-----------------------------------------------------------------------------
\* The categories n steps above c in the table t, as Above finds them, for n up to m.
Parents(t, s) == {t[x].parent : x \in s \ {None}}
Climbs(t, c, up, m) ==
    DOMAIN up = 0..m /\ up[0] = {c} /\ \A n \in 1..m : up[n] = Parents(t, up[n - 1])
Met(t, up, n) == {x \in DOMAIN t : \E k \in 0..n : x \in up[k]}
\* After n steps the way has ended, or it is at one more category than it took steps.
Longer(t, up, n) ==
    \/ up[n] \subseteq {None}
    \/ /\ \E x \in DOMAIN t : up[n] = {x}
       /\ \A x \in Met(t, up, n) \ up[n] : t[x].parent \in Met(t, up, n)
       /\ Cardinality(Met(t, up, n)) >= n + 1

LEMMA ClimbingExists ==
  ASSUME NEW t, NEW c, NEW k \in Nat
  PROVE  \E up : Climbs(t, c, up, k)
<1> DEFINE N == {m \in Nat : ~ \E up : Climbs(t, c, up, m)}
<1> SUFFICES ASSUME N # {} PROVE FALSE
  OBVIOUS
<1>1. PICK m \in N : \A i \in N : m <= i
  BY LeastNumber
<1>2. CASE m = 0
  <2>1. Climbs(t, c, [n \in 0..0 |-> {c}], 0)
    BY DEF Climbs
  <2> QED
    BY <1>2, <2>1
<1>3. CASE m # 0
  <2>1. m \in Nat \ {0} /\ m - 1 \in Nat
    BY <1>3
  <2>2. m - 1 \notin N
    BY <1>1, <2>1
  <2>3. PICK up : Climbs(t, c, up, m - 1)
    BY <2>1, <2>2
  <2> DEFINE on == [n \in 0..m |-> IF n = m THEN Parents(t, up[m - 1]) ELSE up[n]]
  <2>4. /\ DOMAIN on = 0..m /\ on[m] = Parents(t, up[m - 1])
        /\ \A n \in 0..(m - 1) : on[n] = up[n]
    BY <2>1
  <2> HIDE DEF on
  <2>5. on[0] = {c}
    BY <2>1, <2>3, <2>4 DEF Climbs
  <2>6. ASSUME NEW n \in 1..m PROVE on[n] = Parents(t, on[n - 1])
    <3>1. n - 1 \in 0..(m - 1) /\ on[n - 1] = up[n - 1]
      BY <2>1, <2>4
    <3>2. CASE n = m
      BY <2>4, <3>1, <3>2
    <3>3. CASE n # m
      <4>1. n \in 0..(m - 1) /\ n \in 1..(m - 1)
        BY <2>1, <3>3
      <4> QED
        BY <2>3, <2>4, <3>1, <4>1 DEF Climbs
    <3> QED
      BY <3>2, <3>3
  <2>7. Climbs(t, c, on, m)
    BY <2>4, <2>5, <2>6 DEF Climbs
  <2> QED
    BY <2>7
<1> QED
  BY <1>2, <1>3

LEMMA AboveClimbs ==
  ASSUME NEW c
  PROVE  Climbs(cats, c, Above(c), Cardinality(Category))
<1> DEFINE k == Cardinality(Category)
           Steps(up) == up = [n \in 0..k |-> IF n = 0 THEN {c}
                                             ELSE {cats[x].parent : x \in up[n - 1] \ {None}}]
<1>1. k \in Nat
  BY CatalogAssumption, FS_CardinalityType
<1>2. Above(c) = CHOOSE up : Steps(up)
  BY DEF Above
<1> HIDE DEF k
<1>3. PICK up : Climbs(cats, c, up, k)
  BY <1>1, ClimbingExists
<1> DEFINE on == [n \in 0..k |-> up[n]]
<1>4. DOMAIN on = 0..k /\ on[0] = {c}
  BY <1>1, <1>3 DEF Climbs
<1>5. \A n \in 0..k : n # 0 => n \in 1..k /\ n - 1 \in 0..k
  BY <1>1
<1>6. \A n \in 0..k : on[n] = IF n = 0 THEN {c} ELSE {cats[x].parent : x \in on[n - 1] \ {None}}
  BY <1>3, <1>4, <1>5 DEF Climbs, Parents
<1> HIDE DEF on
<1>7. on = [n \in 0..k |-> on[n]]
  BY <1>4 DEF on
<1>8. Steps(on)
  BY <1>6, <1>7
<1>9. Steps(Above(c))
  BY <1>2, <1>8
<1> DEFINE f == Above(c)
<1> HIDE DEF f
<1>10. f = [n \in 0..k |-> IF n = 0 THEN {c} ELSE {cats[x].parent : x \in f[n - 1] \ {None}}]
  BY <1>9 DEF f
<1>11. DOMAIN f = 0..k
  BY <1>10
<1>12. \A n \in 0..k : f[n] = IF n = 0 THEN {c} ELSE {cats[x].parent : x \in f[n - 1] \ {None}}
  BY <1>10
<1>13. \A n \in 1..k : n \in 0..k /\ n # 0
  BY <1>1
<1>14. 0 \in 0..k
  BY <1>1
<1>15. \A n \in 1..k : f[n] = Parents(cats, f[n - 1])
  BY <1>12, <1>13 DEF Parents
<1>16. Climbs(cats, c, f, k)
  BY <1>11, <1>12, <1>14, <1>15 DEF Climbs
<1> QED
  BY <1>16 DEF f, k

\* Without a circle the way up from any category ends.
LEMMA WaysEnd ==
  ASSUME NEW t, IsFiniteSet(DOMAIN t), None \notin DOMAIN t, NoCircle(t),
         \A x \in DOMAIN t : t[x].parent \in DOMAIN t \cup {None},
         NEW c \in DOMAIN t, NEW up, NEW k \in Nat, Climbs(t, c, up, k)
  PROVE  \A n \in 0..k : Longer(t, up, n)
<1> DEFINE N == {n \in 0..k : ~Longer(t, up, n)}
<1> SUFFICES ASSUME N # {} PROVE FALSE
  OBVIOUS
<1>1. PICK n \in N : \A i \in N : n <= i
  <2>1. N \subseteq Nat
    OBVIOUS
  <2> HIDE DEF N
  <2> QED
    BY <2>1, LeastNumber
<1>2. \A i \in 0..k : IsFiniteSet(Met(t, up, i)) /\ Cardinality(Met(t, up, i)) \in Nat
  BY FS_Subset, FS_CardinalityType DEF Met
<1>3. CASE n = 0
  <2>1. up[0] = {c} /\ Met(t, up, 0) = {c}
    BY DEF Climbs, Met
  <2>2. Cardinality(Met(t, up, 0)) = 1
    BY <2>1, FS_Singleton
  <2>3. (\E x \in DOMAIN t : up[0] = {x}) /\ Met(t, up, 0) \ up[0] = {}
    BY <2>1
  <2>4. Longer(t, up, 0)
    BY <2>2, <2>3 DEF Longer
  <2> QED
    BY <1>3, <2>4
<1>4. CASE n # 0
  <2>1. n \in 1..k /\ n - 1 \in 0..k /\ n \in 0..k
    BY <1>4
  <2>2. Longer(t, up, n - 1)
    BY <1>1, <2>1
  <2>3. up[n] = Parents(t, up[n - 1])
    BY <2>1 DEF Climbs
  <2>4. CASE up[n - 1] \subseteq {None}
    <3>1. up[n] \subseteq {None}
      BY <2>3, <2>4 DEF Parents
    <3> QED
      BY <3>1 DEF Longer
  <2>5. CASE ~(up[n - 1] \subseteq {None})
    <3> DEFINE m == Met(t, up, n - 1)
    <3>1. PICK y \in DOMAIN t : up[n - 1] = {y}
      BY <2>2, <2>5 DEF Longer
    <3>2. \A x \in m \ {y} : t[x].parent \in m
      BY <2>2, <2>5, <3>1 DEF Longer
    <3>3. Cardinality(m) >= n /\ Cardinality(m) \in Nat /\ IsFiniteSet(m)
      BY <1>2, <2>1, <2>2, <2>5 DEF Longer
    <3>4. up[n] = {t[y].parent}
      BY <2>3, <3>1 DEF Parents
    <3>5. m \subseteq DOMAIN t /\ y \in m
      BY <2>1, <3>1 DEF Met
    <3>6. PICK z : z = t[y].parent
      OBVIOUS
    <3>7. z # None
      BY <3>4, <3>6 DEF Longer
    <3>8. z \in DOMAIN t
      BY <3>6, <3>7
    <3>9. \A i \in 0..n : i \in 0..(n - 1) \/ i = n
      BY <2>1
    <3>10. \A i \in 0..(n - 1) : i \in 0..n
      BY <2>1
    <3>11. Met(t, up, n) = m \cup {z}
      BY <2>1, <3>4, <3>6, <3>8, <3>9, <3>10 DEF Met
    <3> HIDE DEF m
    <3>12. z \notin m
      <4>1. ASSUME z \in m PROVE FALSE
        <5>1. \A x \in m : t[x].parent \in m
          BY <3>2, <3>6, <4>1
        <5> QED
          BY <3>5, <5>1 DEF NoCircle
      <4> QED
        BY <4>1
    <3>13. Cardinality(m \cup {z}) = Cardinality(m) + 1
      BY <3>3, <3>12, FS_AddElement
    <3>14. Cardinality(Met(t, up, n)) >= n + 1
      BY <2>1, <3>3, <3>11, <3>13
    <3>15. \A x \in Met(t, up, n) \ up[n] : t[x].parent \in Met(t, up, n)
      BY <3>2, <3>4, <3>6, <3>11
    <3>16. Longer(t, up, n)
      BY <3>4, <3>6, <3>8, <3>14, <3>15 DEF Longer
    <3> QED
      BY <3>16
  <2> QED
    BY <2>4, <2>5
<1> QED
  BY <1>3, <1>4

LEMMA NoCircleIsForest ==
  ASSUME CategoriesOK, NoCircle(cats), NEW c \in DOMAIN cats
  PROVE  Above(c)[Cardinality(Category)] \subseteq {None}
<1> DEFINE k == Cardinality(Category)
           up == Above(c)
<1>1. /\ IsFiniteSet(DOMAIN cats) /\ Cardinality(DOMAIN cats) <= k
      /\ k \in Nat /\ Cardinality(DOMAIN cats) \in Nat
  BY CatalogAssumption, FS_Subset, FS_CardinalityType DEF CategoriesOK
<1>2. None \notin DOMAIN cats /\ \A x \in DOMAIN cats : cats[x].parent \in DOMAIN cats \cup {None}
  BY CatalogAssumption DEF CategoriesOK
<1>3. Climbs(cats, c, up, k)
  BY AboveClimbs
<1> HIDE DEF up, k
<1>4. Longer(cats, up, k)
  <2>1. \A n \in 0..k : Longer(cats, up, n)
    BY <1>1, <1>2, <1>3, WaysEnd
  <2> QED
    BY <1>1, <2>1
<1>5. Cardinality(Met(cats, up, k)) <= Cardinality(DOMAIN cats)
      /\ Cardinality(Met(cats, up, k)) \in Nat
  <2>1. Met(cats, up, k) \subseteq DOMAIN cats
    BY DEF Met
  <2> QED
    BY <1>1, <2>1, FS_Subset, FS_CardinalityType
<1>6. ~(Cardinality(Met(cats, up, k)) >= k + 1)
  BY <1>1, <1>5
<1>7. up[k] \subseteq {None}
  BY <1>4, <1>6 DEF Longer
<1> QED
  BY <1>7 DEF up, k
-----------------------------------------------------------------------------
LEMMA ForestImplies == IForest => CategoriesFormAForest
<1> SUFFICES ASSUME IForest PROVE CategoriesFormAForest
  OBVIOUS
<1>1. CategoriesOK
  BY DEF IForest
<1>2. ~MovesRaced => \A c \in DOMAIN cats : Above(c)[Cardinality(Category)] \subseteq {None}
  BY <1>1, NoCircleIsForest DEF IForest, CirclesOK
<1>3. ~BranchesRaced => \A c \in Rows(cats) : cats[c].parent \in Rows(cats) \cup {None}
  BY DEF IForest, BranchesOK, Hung, IsLive, Rows
<1> QED
  BY <1>2, <1>3 DEF CategoriesFormAForest, MovesRaced, BranchesRaced

\* At the start every category is a root.
LEMMA RootsAtFirst ==
  CatalogInit => CategoriesOK /\ NoCircle(cats) /\ Hung(cats) /\ CategoriesFormAForest
<1> SUFFICES ASSUME CatalogInit
             PROVE  CategoriesOK /\ NoCircle(cats) /\ Hung(cats) /\ CategoriesFormAForest
  OBVIOUS
<1>1. /\ DOMAIN cats \subseteq Category
      /\ cats = [c \in DOMAIN cats |-> [parent |-> None, live |-> TRUE]]
  BY DEF CatalogInit
<1>2. CategoriesOK
  <2>1. [parent |-> None, live |-> TRUE] \in [parent : DOMAIN cats \cup {None}, live : BOOLEAN]
    OBVIOUS
  <2>2. \A c \in DOMAIN cats : cats[c] \in [parent : DOMAIN cats \cup {None}, live : BOOLEAN]
    BY <1>1, <2>1
  <2>3. cats \in [DOMAIN cats -> [parent : DOMAIN cats \cup {None}, live : BOOLEAN]]
    BY <1>1, <2>2
  <2> QED
    BY <1>1, <2>3 DEF CategoriesOK
<1>3. NoCircle(cats)
  <2>1. None \notin DOMAIN cats
    BY <1>1, CatalogAssumption
  <2> QED
    BY <1>1, <2>1 DEF NoCircle
<1>4. Hung(cats)
  BY <1>1 DEF Hung
<1>5. \A c \in DOMAIN cats : Above(c)[Cardinality(Category)] \subseteq {None}
  BY <1>2, <1>3, NoCircleIsForest
<1> QED
  BY <1>1, <1>2, <1>3, <1>4, <1>5 DEF CategoriesFormAForest, Rows

LEMMA ForestInitial == RequestInit /\ CatalogInit => IForest
<1> SUFFICES ASSUME RequestInit, CatalogInit PROVE IForest
  OBVIOUS
<1>1. Wired /\ \A r \in Request : pc[r] = "new"
  BY WiredInitial
<1>2. CategoriesOK /\ NoCircle(cats) /\ Hung(cats)
  BY RootsAtFirst
<1>3. \A r \in Request : HoldsCategory(r)
  BY <1>1 DEF HoldsCategory, AtCategory, AddingCategory, MovingCategory, DroppingCategory
<1>4. BranchRivalsOK
  BY <1>1 DEF BranchRivalsOK, AddingCategory, MovingCategory
<1>5. CirclesOK /\ BranchesOK
  BY <1>1, <1>2 DEF CirclesOK, BranchesOK, AddingCategory, DroppingCategory
<1> QED
  BY <1>1, <1>2, <1>3, <1>4, <1>5 DEF IForest
-----------------------------------------------------------------------------
\* A step that leaves the categories alone, and every request that is at one.
LEMMA ForestStays ==
  ASSUME IForest, Wired', cats' = cats, raced \subseteq raced',
         \A q \in Request : pc'[q] \in AtCategory => pc'[q] = pc[q] /\ req'[q] = req[q]
  PROVE  IForest'
<1> USE DEF AtCategory, AddingCategory, MovingCategory, DroppingCategory
<1>1. (MovesRaced => MovesRaced') /\ (BranchesRaced => BranchesRaced')
  BY DEF MovesRaced, BranchesRaced, Together
<1>2. CategoriesOK'
  BY DEF IForest, CategoriesOK
<1>3. \A q \in Request : HoldsCategory(q)'
  BY DEF IForest, HoldsCategory
<1>4. BranchRivalsOK'
  BY <1>1 DEF IForest, BranchRivalsOK
<1>5. CirclesOK'
  BY <1>1 DEF IForest, CirclesOK
<1>6. BranchesOK'
  BY <1>1 DEF IForest, BranchesOK
<1> QED
  BY <1>2, <1>3, <1>4, <1>5, <1>6 DEF IForest

\* The same, of a step of one request that comes to no category.
LEMMA ForestAside ==
  ASSUME IForest, NEW r \in Request, Wired', Alone(r), cats' = cats, raced \subseteq raced',
         pc'[r] \notin AtCategory
  PROVE  IForest'
BY ForestStays DEF Alone

LEMMA UnitKeepsForest ==
  ASSUME IForest, NEW r \in Request, UnitStep(r)
  PROVE  IForest'
<1> USE DEF AtCategory, catalogVars
<1>1. Wired
  BY DEF IForest
<1>2. CASE FindBase(r)
  BY <1>1, <1>2, BeginMoves, ForestAside DEF FindBase
<1>3. CASE InsertUnit(r)
  BY <1>1, <1>3, GoMoves, ForestAside DEF InsertUnit
<1>4. CASE FindUnit(r)
  BY <1>1, <1>4, BeginMoves, ForestAside DEF FindUnit
<1>5. CASE CheckBase(r)
  BY <1>1, <1>5, GoMoves, ForestAside DEF CheckBase
<1>6. CASE CountSubUnits(r)
  BY <1>1, <1>6, GoMoves, ForestAside DEF CountSubUnits
<1>7. CASE StoreUnit(r)
  BY <1>1, <1>7, GoMoves, ForestAside DEF StoreUnit
<1>8. CASE FindUnitToDrop(r)
  BY <1>1, <1>8, BeginMoves, ForestAside DEF FindUnitToDrop
<1>9. CASE DropUnit(r)
  BY <1>1, <1>9, GoMoves, ForestAside DEF DropUnit
<1> QED
  BY <1>2, <1>3, <1>4, <1>5, <1>6, <1>7, <1>8, <1>9 DEF UnitStep

LEMMA ProductKeepsForest ==
  ASSUME IForest, NEW r \in Request, ProductStep(r)
  PROVE  IForest'
<1> USE DEF AtCategory, catalogVars, goodsVars
<1>1. Wired
  BY DEF IForest
<1>2. CASE ReadList(r)
  BY <1>1, <1>2, ArriveMoves, ForestAside DEF ReadList
<1>3. CASE FindToRemove(r)
  BY <1>1, <1>3, ArriveMoves, ForestAside DEF FindToRemove
<1>4. CASE FindToPicture(r)
  BY <1>1, <1>4, ArriveMoves, ForestAside DEF FindToPicture
<1>5. CASE FindToUnpicture(r)
  BY <1>1, <1>5, ArriveMoves, ForestAside DEF FindToUnpicture
<1>6. CASE WriteTrade(r)
  BY <1>1, <1>6, ArriveMoves, ForestAside DEF WriteTrade
<1>7. CASE WriteStock(r)
  BY <1>1, <1>7, ArriveMoves, ForestAside DEF WriteStock
<1>8. CASE FindForProduct(r)
  BY <1>1, <1>8, BeginMoves, ForestAside DEF FindForProduct
<1>9. CASE FindToUpdate(r)
  BY <1>1, <1>9, BeginMoves, ForestAside DEF FindToUpdate
<1>10. CASE Import(r)
  BY <1>1, <1>10, BeginMoves, ForestAside DEF Import
<1>11. CASE FillList(r)
  BY <1>1, <1>11, GoMoves, ForestAside DEF FillList
<1>12. CASE DropLists(r)
  BY <1>1, <1>12, GoMoves, ForestAside DEF DropLists
<1>13. CASE CheckSku(r)
  BY <1>1, <1>13, GoMoves, ForestAside DEF CheckSku, Checked
<1>14. CASE InsertProduct(r)
  BY <1>1, <1>14, GoMoves, ForestAside DEF InsertProduct
<1>15. CASE ImportInsert(r)
  BY <1>1, <1>15, GoMoves, ForestAside DEF ImportInsert
<1>16. CASE ImportDone(r)
  BY <1>1, <1>16, GoMoves, ForestAside DEF ImportDone
<1>17. CASE WriteProduct(r)
  BY <1>1, <1>17, GoMoves, ForestAside DEF WriteProduct
<1>18. CASE RemoveProduct(r)
  BY <1>1, <1>18, GoMoves, ForestAside DEF RemoveProduct
<1>19. CASE StoreImage(r)
  BY <1>1, <1>19, GoMoves, ForestAside DEF StoreImage
<1>20. CASE ImportCheck(r)
  BY <1>1, <1>20, HoldMoves, ForestAside DEF ImportCheck
<1> QED
  BY <1>2, <1>3, <1>4, <1>5, <1>6, <1>7, <1>8, <1>9, <1>10, <1>11, <1>12,
     <1>13, <1>14, <1>15, <1>16, <1>17, <1>18, <1>19, <1>20 DEF ProductStep
-----------------------------------------------------------------------------
\* A request that starts is recorded with its rivals.
LEMMA BeginAtCategory ==
  ASSUME IForest, NEW r \in Request, NEW next, NEW h, Begin(r, next, h, Rivals),
         h.on = Categories
  PROVE  /\ \A q \in Request : MovingCategory(q) /\ h.kind = "moveCategory" => MovesRaced'
         /\ \A q \in Request : (AddingCategory(q) \/ MovingCategory(q)) /\ h.kind = "dropCategory"
               => BranchesRaced'
         /\ \A q \in Request : DroppingCategory(q) /\ h.kind \in {"addCategory", "moveCategory"}
               => BranchesRaced'
<1> USE DEF AddingCategory, MovingCategory, DroppingCategory, AtCategory
<1>1. ASSUME NEW q \in Request, NEW a, NEW b, pc[q] \in AtCategory, h.kind = a, req[q].kind = b,
             {a, b} \in Rivals
      PROVE  Together(Categories, a, b)'
  <2>1. Busy(q) /\ "on" \in DOMAIN req[q] /\ req[q].on = h.on
    BY <1>1 DEF IForest, HoldsCategory, Busy, Answered
  <2>2. Together(h.on, a, b)'
    BY <1>1, <2>1, BeginRaces
  <2> QED
    BY <2>2
<1>2. ASSUME NEW q \in Request, MovingCategory(q), h.kind = "moveCategory" PROVE MovesRaced'
  <2>1. pc[q] \in AtCategory /\ req[q].kind = "moveCategory"
    BY <1>2 DEF IForest, HoldsCategory
  <2>2. {"moveCategory", "moveCategory"} \in Rivals
    BY DEF Rivals
  <2> QED
    BY <1>1, <1>2, <2>1, <2>2 DEF MovesRaced
<1>3. ASSUME NEW q \in Request, AddingCategory(q) \/ MovingCategory(q), h.kind = "dropCategory"
      PROVE  BranchesRaced'
  <2>1. pc[q] \in AtCategory /\ req[q].kind \in {"addCategory", "moveCategory"}
    BY <1>3 DEF IForest, HoldsCategory
  <2>2. \A k \in {"addCategory", "moveCategory"} : {"dropCategory", k} \in Rivals
    BY DEF Rivals
  <2>3. \E k \in {"addCategory", "moveCategory"} : Together(Categories, "dropCategory", k)'
    BY <1>1, <1>3, <2>1, <2>2
  <2>4. \A k : {"dropCategory", k} = {k, "dropCategory"}
    OBVIOUS
  <2> QED
    BY <2>3, <2>4 DEF BranchesRaced, Together
<1>4. ASSUME NEW q \in Request, DroppingCategory(q), h.kind \in {"addCategory", "moveCategory"}
      PROVE  BranchesRaced'
  <2>1. pc[q] \in AtCategory /\ req[q].kind = "dropCategory"
    BY <1>4 DEF IForest, HoldsCategory
  <2>2. \A k \in {"addCategory", "moveCategory"} : {k, "dropCategory"} \in Rivals
    BY DEF Rivals
  <2>3. \E k \in {"addCategory", "moveCategory"} : Together(Categories, k, "dropCategory")'
    BY <1>1, <1>4, <2>1, <2>2
  <2> QED
    BY <2>3 DEF BranchesRaced
<1> QED
  BY <1>2, <1>3, <1>4

\* A step that leaves the table alone keeps the forest if what its request holds is
\* right, and it is no new rival.
LEMMA ForestChecked ==
  ASSUME IForest, NEW r \in Request, Wired', Alone(r), cats' = cats, raced \subseteq raced',
         HoldsCategory(r)',
         \A q \in Request :
            /\ MovingCategory(q) /\ MovingCategory(r)' /\ q # r => MovesRaced'
            /\ (AddingCategory(q) \/ MovingCategory(q)) /\ DroppingCategory(r)' /\ q # r
                  => BranchesRaced'
            /\ DroppingCategory(q) /\ (AddingCategory(r)' \/ MovingCategory(r)') /\ q # r
                  => BranchesRaced',
         MovesRaced \/
            /\ pc'[r] = "walk" => Climbing(cats, req'[r])
            /\ pc'[r] = "moveCategory" => req'[r].parent = None \/ Climbed(cats, req'[r]),
         BranchesRaced \/
            /\ AddingCategory(r)' => req'[r].parent = None \/ IsLive(cats, req'[r].parent)
            /\ pc'[r] = "walk" => IsLive(cats, req'[r].parent)
            /\ pc'[r] = "moveCategory" => req'[r].parent = None \/ IsLive(cats, req'[r].parent)
            /\ DroppingCategory(r)' => ~HasChildren(cats, req'[r].id)
  PROVE  IForest'
<1>1. (MovesRaced => MovesRaced') /\ (BranchesRaced => BranchesRaced')
  BY DEF MovesRaced, BranchesRaced, Together
<1>2. \A q \in Request \ {r} :
         /\ pc'[q] = pc[q] /\ req'[q] = req[q]
         /\ AddingCategory(q)' = AddingCategory(q) /\ MovingCategory(q)' = MovingCategory(q)
         /\ DroppingCategory(q)' = DroppingCategory(q)
  BY DEF Alone, AddingCategory, MovingCategory, DroppingCategory
<1>3. CategoriesOK'
  BY DEF IForest, CategoriesOK
<1>4. \A q \in Request : HoldsCategory(q)'
  BY <1>2 DEF IForest, HoldsCategory
<1>5. BranchRivalsOK'
  BY <1>1, <1>2 DEF IForest, BranchRivalsOK
<1>6. CirclesOK'
  <2>1. CASE MovesRaced
    BY <1>1, <2>1 DEF CirclesOK
  <2>2. CASE ~MovesRaced
    BY <1>2, <2>2 DEF IForest, CirclesOK
  <2> QED
    BY <2>1, <2>2
<1>7. BranchesOK'
  <2>1. CASE BranchesRaced
    BY <1>1, <2>1 DEF BranchesOK
  <2>2. CASE ~BranchesRaced
    BY <1>2, <2>2 DEF IForest, BranchesOK
  <2> QED
    BY <2>1, <2>2
<1> QED
  BY <1>3, <1>4, <1>5, <1>6, <1>7 DEF IForest

LEMMA FindParentKeeps ==
  ASSUME IForest, NEW r \in Request, FindParent(r)
  PROVE  IForest'
<1> USE DEF AddingCategory, MovingCategory, DroppingCategory, AtCategory
<1>1. PICK p \in Rows(cats) \cup {None} :
         Begin(r, "insertCategory", [on |-> Categories, kind |-> "addCategory", parent |-> p],
               Rivals)
  BY DEF FindParent
<1> DEFINE h == [on |-> Categories, kind |-> "addCategory", parent |-> p]
<1>2. /\ Wired' /\ Alone(r) /\ pc'[r] = "insertCategory" /\ req'[r] = h /\ raced \subseteq raced'
      /\ cats' = cats
  BY <1>1, BeginMoves DEF IForest, FindParent
<1>3. HoldsCategory(r)'
  BY <1>2 DEF HoldsCategory, Rows
<1>4. \A q \in Request : DroppingCategory(q) => BranchesRaced'
  BY <1>1, BeginAtCategory
<1>5. p = None \/ IsLive(cats, p)
  BY DEF IsLive, Rows
<1> QED
  BY <1>2, <1>3, <1>4, <1>5, ForestChecked

LEMMA FindToMoveKeeps ==
  ASSUME IForest, NEW r \in Request, FindToMove(r)
  PROVE  IForest'
<1> USE DEF AddingCategory, MovingCategory, DroppingCategory, AtCategory
<1>1. PICK c \in Rows(cats), p \in DOMAIN cats \cup {None} :
         /\ p # c
         /\ Begin(r, IF p = None THEN "moveCategory" ELSE "findNewParent",
                  [on |-> Categories, kind |-> "moveCategory", id |-> c, parent |-> p,
                   at |-> p, visited |-> {p}], Rivals)
  BY DEF FindToMove
<1> DEFINE h == [on |-> Categories, kind |-> "moveCategory", id |-> c, parent |-> p,
                 at |-> p, visited |-> {p}]
           next == IF p = None THEN "moveCategory" ELSE "findNewParent"
<1>2. /\ Wired' /\ Alone(r) /\ pc'[r] = next /\ req'[r] = h /\ raced \subseteq raced'
      /\ cats' = cats
  BY <1>1, BeginMoves DEF IForest, FindToMove
<1>3. HoldsCategory(r)'
  BY <1>1, <1>2 DEF HoldsCategory, Rows
<1>4. \A q \in Request : /\ DroppingCategory(q) => BranchesRaced'
                         /\ MovingCategory(q) => MovesRaced'
  BY <1>1, BeginAtCategory
<1> QED
  BY <1>2, <1>3, <1>4, ForestChecked

LEMMA FindToDropKeepsForest ==
  ASSUME IForest, NEW r \in Request, FindToDrop(r)
  PROVE  IForest'
<1> USE DEF AddingCategory, MovingCategory, DroppingCategory, AtCategory
<1>1. PICK c \in Rows(cats) :
         /\ Children(c) = {}
         /\ Begin(r, "dropCategory", [on |-> Categories, kind |-> "dropCategory", id |-> c], Rivals)
  BY DEF FindToDrop
<1> DEFINE h == [on |-> Categories, kind |-> "dropCategory", id |-> c]
<1>2. /\ Wired' /\ Alone(r) /\ pc'[r] = "dropCategory" /\ req'[r] = h /\ raced \subseteq raced'
      /\ cats' = cats
  BY <1>1, BeginMoves DEF IForest, FindToDrop
<1>3. HoldsCategory(r)'
  BY <1>2 DEF HoldsCategory
<1>4. \A q \in Request : AddingCategory(q) \/ MovingCategory(q) => BranchesRaced'
  BY <1>1, BeginAtCategory
<1>5. ~HasChildren(cats, c)
  BY <1>1 DEF HasChildren, Children, Rows
<1> QED
  BY <1>2, <1>3, <1>4, <1>5, ForestChecked

LEMMA FindNewParentKeeps ==
  ASSUME IForest, NEW r \in Request, FindNewParent(r)
  PROVE  IForest'
<1> USE DEF AddingCategory, MovingCategory, DroppingCategory, AtCategory
<1>1. /\ Wired' /\ Alone(r) /\ pc[r] = "findNewParent" /\ raced' = raced /\ cats' = cats
      /\ pc'[r] = IF req[r].parent \in Rows(cats) THEN "walk" ELSE "refused"
      /\ pc'[r] = "walk" => req'[r] = req[r]
  BY GoMoves DEF IForest, FindNewParent, catalogVars
<1>2. CASE pc'[r] = "refused"
  BY <1>1, <1>2, ForestAside
<1>3. CASE pc'[r] = "walk"
  <2>1. PICK h : h = req[r] /\ req'[r] = h
    BY <1>1, <1>3
  <2>2. /\ h.kind = "moveCategory" /\ h.id \in DOMAIN cats /\ h.parent # h.id
        /\ "on" \in DOMAIN h /\ h.on = Categories
        /\ {"at", "visited"} \subseteq DOMAIN h
        /\ h.parent \in Rows(cats) /\ h.parent # None /\ h.at = h.parent /\ h.visited = {h.parent}
    BY <1>1, <1>3, <2>1 DEF IForest, HoldsCategory
  <2>3. HoldsCategory(r)'
    BY <1>1, <1>3, <2>1, <2>2 DEF HoldsCategory, Rows
  <2>4. \A q \in Request \ {r} : /\ MovingCategory(q) => MovesRaced'
                                 /\ DroppingCategory(q) => BranchesRaced'
    BY <1>1 DEF IForest, BranchRivalsOK, MovesRaced, BranchesRaced, Together
  <2>5. Climbing(cats, h) /\ IsLive(cats, h.parent)
    BY <2>2 DEF Climbing, Seen, IsLive, Rows
  <2> QED
    BY <1>1, <1>3, <2>1, <2>3, <2>4, <2>5, ForestChecked
<1> QED
  BY <1>1, <1>2, <1>3

LEMMA WalkKeeps ==
  ASSUME IForest, NEW r \in Request, Walk(r)
  PROVE  IForest'
<1> USE DEF AddingCategory, MovingCategory, DroppingCategory, AtCategory
<1>1. PICK h, up : h = req[r] /\ up = cats[h.at].parent
  OBVIOUS
<1>2. /\ pc[r] = "walk" /\ cats' = cats
      /\ IF up = h.id THEN Go(r, "walk", "refused")
         ELSE IF up \in h.visited \cup {None} THEN Go(r, "walk", "moveCategory")
         ELSE Hold(r, "walk", "walk", [h EXCEPT !.at = up, !.visited = @ \cup {up}])
  BY <1>1 DEF Walk, catalogVars
<1>3. /\ h.kind = "moveCategory" /\ h.id \in DOMAIN cats /\ h.parent # h.id
      /\ "on" \in DOMAIN h /\ h.on = Categories
      /\ h.parent \in DOMAIN cats /\ h.parent # None /\ h.at \in DOMAIN cats
      /\ {"at", "visited"} \subseteq DOMAIN h
  BY <1>1, <1>2 DEF IForest, HoldsCategory
<1>4. up \in DOMAIN cats \cup {None}
  BY <1>1, <1>3 DEF IForest, CategoriesOK
<1>5. \A q \in Request \ {r} : /\ MovingCategory(q) => MovesRaced
                               /\ DroppingCategory(q) => BranchesRaced
  BY <1>2 DEF IForest, BranchRivalsOK
<1>6. /\ MovesRaced \/ (NoCircle(cats) /\ Climbing(cats, h))
      /\ BranchesRaced \/ IsLive(cats, h.parent)
  BY <1>1, <1>2 DEF IForest, CirclesOK, BranchesOK
<1>7. CASE up = h.id
  <2>1. Wired' /\ Alone(r) /\ pc'[r] = "refused" /\ raced' = raced
    BY <1>2, <1>7, GoMoves DEF IForest
  <2> QED
    BY <1>2, <2>1, ForestAside
<1>8. CASE up # h.id /\ up \in h.visited \cup {None}
  <2>1. Wired' /\ Alone(r) /\ pc'[r] = "moveCategory" /\ raced' = raced /\ req'[r] = h
    BY <1>1, <1>2, <1>8, GoMoves DEF IForest
  <2>2. HoldsCategory(r)'
    BY <1>2, <1>3, <2>1 DEF HoldsCategory
  <2>3. MovesRaced \/ Climbed(cats, h)
    BY <1>1, <1>6, <1>8 DEF Climbing, Climbed, Seen
  <2>4. (MovesRaced => MovesRaced') /\ (BranchesRaced => BranchesRaced')
    BY <2>1 DEF MovesRaced, BranchesRaced, Together
  <2> QED
    BY <1>2, <1>5, <1>6, <2>1, <2>2, <2>3, <2>4, ForestChecked
<1>9. CASE up # h.id /\ up \notin h.visited \cup {None}
  <2>1. PICK g : g = [h EXCEPT !.at = up, !.visited = @ \cup {up}]
    OBVIOUS
  <2>2. Wired' /\ Alone(r) /\ pc'[r] = "walk" /\ raced' = raced /\ req'[r] = g
    BY <1>2, <1>9, <2>1, HoldMoves DEF IForest
  <2>3. /\ g.kind = h.kind /\ g.id = h.id /\ g.parent = h.parent /\ DOMAIN g = DOMAIN h
        /\ g.on = h.on /\ g.at = up /\ g.visited = h.visited \cup {up}
    BY <1>3, <2>1
  <2>4. MovesRaced \/ Climbing(cats, g)
    <3> SUFFICES ASSUME ~MovesRaced PROVE Climbing(cats, g)
      OBVIOUS
    <3>1. Climbing(cats, h)
      BY <1>6
    <3>2. Seen(cats, g) /\ g.at \in g.visited
      BY <1>4, <1>9, <2>3, <3>1 DEF Climbing, Seen
    <3>3. \A c \in g.visited \ {g.at} : cats[c].parent \in g.visited
      BY <1>1, <1>9, <2>3, <3>1 DEF Climbing
    <3> QED
      BY <3>2, <3>3 DEF Climbing
  <2>5. HoldsCategory(r)'
    BY <1>2, <1>3, <1>4, <1>9, <2>2, <2>3 DEF HoldsCategory
  <2>6. (MovesRaced => MovesRaced') /\ (BranchesRaced => BranchesRaced')
    BY <2>2 DEF MovesRaced, BranchesRaced, Together
  <2>7. BranchesRaced \/ IsLive(cats, g.parent)
    BY <1>6, <2>3
  <2> QED
    BY <1>2, <1>5, <2>2, <2>4, <2>5, <2>6, <2>7, ForestChecked
<1> QED
  BY <1>7, <1>8, <1>9
-----------------------------------------------------------------------------
\* The table changes: what has been found by the other requests stays true of it.
LEMMA ForestChanged ==
  ASSUME IForest, NEW r \in Request, Wired', Alone(r), raced' = raced,
         pc'[r] \notin AtCategory, CategoriesOK', DOMAIN cats \subseteq DOMAIN cats',
         ~MovesRaced =>
            /\ NoCircle(cats')
            /\ \A q \in Request \ {r} : MovingCategory(q) =>
                  \A c \in DOMAIN cats : cats'[c].parent = cats[c].parent,
         ~BranchesRaced =>
            /\ Hung(cats')
            /\ \A q \in Request \ {r} : AddingCategory(q) \/ MovingCategory(q) =>
                  \A c : IsLive(cats, c) => IsLive(cats', c)
            /\ \A q \in Request \ {r} : DroppingCategory(q) =>
                  \A c : HasChildren(cats', c) => HasChildren(cats, c)
  PROVE  IForest'
<1> USE DEF AddingCategory, MovingCategory, DroppingCategory, AtCategory
<1>1. MovesRaced' = MovesRaced /\ BranchesRaced' = BranchesRaced
  BY DEF MovesRaced, BranchesRaced, Together
<1>2. \A q \in Request : pc'[q] \in AtCategory => q # r /\ pc'[q] = pc[q] /\ req'[q] = req[q]
  BY DEF Alone
<1>3. \A q \in Request : HoldsCategory(q)'
  BY <1>2 DEF IForest, HoldsCategory
<1>4. BranchRivalsOK'
  BY <1>1, <1>2 DEF IForest, BranchRivalsOK
<1>5. CirclesOK'
  <2>1. CASE MovesRaced
    BY <1>1, <2>1 DEF CirclesOK
  <2>2. CASE ~MovesRaced
    <3>1. ASSUME NEW q \in Request, pc'[q] = "walk" PROVE Climbing(cats', req'[q])
      <4>1. q # r /\ pc[q] = "walk" /\ Climbing(cats, req[q]) /\ req'[q] = req[q]
        BY <1>2, <2>2, <3>1 DEF IForest, CirclesOK
      <4>2. \A c \in DOMAIN cats : cats'[c].parent = cats[c].parent
        BY <2>2, <4>1
      <4> QED
        BY <4>1, <4>2 DEF Climbing, Seen
    <3>2. ASSUME NEW q \in Request, pc'[q] = "moveCategory"
          PROVE  req'[q].parent = None \/ Climbed(cats', req'[q])
      <4>1. /\ q # r /\ pc[q] = "moveCategory" /\ req'[q] = req[q]
            /\ req[q].parent = None \/ Climbed(cats, req[q])
        BY <1>2, <2>2, <3>2 DEF IForest, CirclesOK
      <4>2. \A c \in DOMAIN cats : cats'[c].parent = cats[c].parent
        BY <2>2, <4>1
      <4> QED
        BY <4>1, <4>2 DEF Climbed, Seen
    <3> QED
      BY <2>2, <3>1, <3>2 DEF CirclesOK
  <2> QED
    BY <2>1, <2>2
<1>6. BranchesOK'
  <2>1. CASE BranchesRaced
    BY <1>1, <2>1 DEF BranchesOK
  <2>2. CASE ~BranchesRaced
    <3>1. \A q \in Request : AddingCategory(q)' =>
             req'[q].parent = None \/ IsLive(cats', req'[q].parent)
      BY <1>2, <2>2 DEF IForest, BranchesOK
    <3>2. \A q \in Request : pc'[q] = "walk" => IsLive(cats', req'[q].parent)
      BY <1>2, <2>2 DEF IForest, BranchesOK
    <3>3. \A q \in Request : pc'[q] = "moveCategory" =>
             req'[q].parent = None \/ IsLive(cats', req'[q].parent)
      BY <1>2, <2>2 DEF IForest, BranchesOK
    <3>4. \A q \in Request : DroppingCategory(q)' => ~HasChildren(cats', req'[q].id)
      BY <1>2, <2>2 DEF IForest, BranchesOK
    <3> QED
      BY <2>2, <3>1, <3>2, <3>3, <3>4 DEF BranchesOK
  <2> QED
    BY <2>1, <2>2
<1> QED
  BY <1>3, <1>4, <1>5, <1>6 DEF IForest

LEMMA InsertCategoryKeeps ==
  ASSUME IForest, NEW r \in Request, InsertCategory(r)
  PROVE  IForest'
<1> USE DEF AddingCategory, MovingCategory, DroppingCategory, AtCategory
<1>1. Wired' /\ Alone(r) /\ pc[r] = "insertCategory" /\ pc'[r] = "ok" /\ raced' = raced
  BY GoMoves DEF IForest, InsertCategory
<1>2. PICK p : p = req[r].parent
  OBVIOUS
<1>3. p \in DOMAIN cats \cup {None}
  BY <1>1, <1>2 DEF IForest, HoldsCategory
<1>4. PICK c \in Category \ DOMAIN cats : cats' = Put(cats, c, [parent |-> p, live |-> TRUE])
  BY <1>2 DEF InsertCategory
<1>5. /\ DOMAIN cats' = DOMAIN cats \cup {c}
      /\ cats'[c] = [parent |-> p, live |-> TRUE]
      /\ \A x \in DOMAIN cats : cats'[x] = cats[x]
      /\ cats' = [x \in DOMAIN cats' |-> cats'[x]]
  BY <1>4 DEF Put
<1>6. /\ DOMAIN cats \subseteq Category
      /\ \A x \in DOMAIN cats : cats[x] \in [parent : DOMAIN cats \cup {None}, live : BOOLEAN]
  BY DEF IForest, CategoriesOK
<1>7. CategoriesOK'
  <2>1. cats'[c] \in [parent : DOMAIN cats' \cup {None}, live : BOOLEAN]
    BY <1>3, <1>5
  <2>2. \A x \in DOMAIN cats :
           cats[x].parent \in DOMAIN cats' \cup {None} /\ cats[x].live \in BOOLEAN
           /\ cats[x] = [parent |-> cats[x].parent, live |-> cats[x].live]
    BY <1>5, <1>6
  <2>3. \A x \in DOMAIN cats : cats'[x] \in [parent : DOMAIN cats' \cup {None}, live : BOOLEAN]
    BY <1>5, <2>2
  <2>4. cats' \in [DOMAIN cats' -> [parent : DOMAIN cats' \cup {None}, live : BOOLEAN]]
    BY <1>5, <2>1, <2>3
  <2> QED
    BY <1>4, <1>5, <1>6, <2>4 DEF CategoriesOK
<1>8. ASSUME NoCircle(cats) PROVE NoCircle(cats')
  <2> SUFFICES ASSUME NEW s \in SUBSET DOMAIN cats', s # {},
                      \A x \in s : cats'[x].parent \in s
               PROVE  FALSE
    BY DEF NoCircle
  <2>1. None \notin s
    BY <1>5, <1>6, <1>4, CatalogAssumption
  <2>2. \A x \in s \ {c} : x \in DOMAIN cats /\ cats[x].parent \in s \ {c}
    BY <1>4, <1>5, <1>6, <2>1
  <2>3. s \ {c} # {}
    <3>1. cats'[c].parent = p
      BY <1>5
    <3>2. c \in s => p \in s /\ p # c
      BY <1>3, <1>4, <2>1, <3>1
    <3> QED
      BY <3>2
  <2> QED
    BY <1>8, <2>2, <2>3 DEF NoCircle
<1>9. \A x : IsLive(cats, x) => IsLive(cats', x)
  BY <1>5 DEF IsLive
<1>10. ASSUME ~BranchesRaced
       PROVE  Hung(cats') /\ \A q \in Request \ {r} : ~DroppingCategory(q)
  <2>1. Hung(cats) /\ (p = None \/ IsLive(cats, p))
    BY <1>1, <1>2, <1>10 DEF IForest, BranchesOK
  <2>2. Hung(cats')
    BY <1>5, <1>9, <2>1 DEF Hung
  <2> QED
    BY <1>1, <1>10, <2>2 DEF IForest, BranchRivalsOK
<1>11. ~MovesRaced => NoCircle(cats)
  BY DEF IForest, CirclesOK
<1> QED
  BY <1>1, <1>5, <1>7, <1>8, <1>9, <1>10, <1>11, ForestChanged

LEMMA MoveCategoryKeeps ==
  ASSUME IForest, NEW r \in Request, MoveCategory(r)
  PROVE  IForest'
<1> USE DEF AddingCategory, MovingCategory, DroppingCategory, AtCategory
<1>1. Wired' /\ Alone(r) /\ pc[r] = "moveCategory" /\ pc'[r] = "ok" /\ raced' = raced
  BY GoMoves DEF IForest, MoveCategory
<1>2. PICK h, c, p : h = req[r] /\ c = h.id /\ p = h.parent
  OBVIOUS
<1>3. c \in DOMAIN cats /\ p \in DOMAIN cats \cup {None} /\ p # c
  BY <1>1, <1>2 DEF IForest, HoldsCategory
<1>4. cats' = [cats EXCEPT ![c].parent = p]
  BY <1>2 DEF MoveCategory
<1>5. /\ DOMAIN cats \subseteq Category
      /\ cats \in [DOMAIN cats -> [parent : DOMAIN cats \cup {None}, live : BOOLEAN]]
  BY DEF IForest, CategoriesOK
<1>6. /\ DOMAIN cats' = DOMAIN cats
      /\ cats'[c].parent = p /\ cats'[c].live = cats[c].live
      /\ \A x \in DOMAIN cats \ {c} : cats'[x] = cats[x]
  BY <1>3, <1>4, <1>5
<1>7. CategoriesOK'
  <2>1. cats' \in [DOMAIN cats -> [parent : DOMAIN cats \cup {None}, live : BOOLEAN]]
    BY <1>3, <1>4, <1>5
  <2> QED
    BY <1>5, <1>6, <2>1 DEF CategoriesOK
<1>8. ASSUME ~MovesRaced
      PROVE  NoCircle(cats') /\ \A q \in Request \ {r} : ~MovingCategory(q)
  <2>1. NoCircle(cats) /\ (p = None \/ Climbed(cats, h))
    BY <1>1, <1>2, <1>8 DEF IForest, CirclesOK
  <2>2. ASSUME NEW s \in SUBSET DOMAIN cats, s # {}, \A x \in s : cats'[x].parent \in s
        PROVE  FALSE
    <3>1. None \notin s
      BY <1>5, CatalogAssumption
    <3>2. \A x \in s \ {c} : cats[x].parent \in s
      BY <1>6, <2>2
    <3>3. c \in s /\ p \in s
      BY <1>6, <2>1, <2>2, <3>2 DEF NoCircle
    <3>4. Climbed(cats, h)
      BY <2>1, <3>1, <3>3
    <3>5. p \in h.visited /\ c \notin h.visited
      BY <1>2, <3>4 DEF Climbed, Seen
    <3>6. \A x \in h.visited \cap s : cats[x].parent \in h.visited \cap s
      BY <3>1, <3>2, <3>4, <3>5 DEF Climbed
    <3> QED
      BY <2>1, <3>3, <3>5, <3>6 DEF NoCircle
  <2>3. NoCircle(cats')
    BY <1>6, <2>2 DEF NoCircle
  <2> QED
    BY <1>1, <1>8, <2>3 DEF IForest, BranchRivalsOK
<1>9. \A x : IsLive(cats, x) => IsLive(cats', x)
  BY <1>6 DEF IsLive
<1>10. ASSUME ~BranchesRaced
       PROVE  Hung(cats') /\ \A q \in Request \ {r} : ~DroppingCategory(q)
  <2>1. Hung(cats) /\ (p = None \/ IsLive(cats, p))
    BY <1>1, <1>2, <1>10 DEF IForest, BranchesOK
  <2>2. Hung(cats')
    BY <1>6, <1>9, <2>1 DEF Hung
  <2> QED
    BY <1>1, <1>10, <2>2 DEF IForest, BranchRivalsOK
<1> QED
  BY <1>1, <1>6, <1>7, <1>8, <1>9, <1>10, ForestChanged

LEMMA DropCategoryKeeps ==
  ASSUME IForest, NEW r \in Request, DropCategory(r)
  PROVE  IForest'
<1> USE DEF AddingCategory, MovingCategory, DroppingCategory, AtCategory
<1>1. Wired' /\ Alone(r) /\ pc[r] = "dropCategory" /\ pc'[r] = "ok" /\ raced' = raced
  BY GoMoves DEF IForest, DropCategory
<1>2. PICK c : c = req[r].id
  OBVIOUS
<1>3. cats' = [cats EXCEPT ![c].live = FALSE]
  BY <1>2 DEF DropCategory
<1>4. /\ DOMAIN cats \subseteq Category
      /\ cats \in [DOMAIN cats -> [parent : DOMAIN cats \cup {None}, live : BOOLEAN]]
  BY DEF IForest, CategoriesOK
<1>5. /\ DOMAIN cats' = DOMAIN cats
      /\ \A x \in DOMAIN cats : cats'[x].parent = cats[x].parent
      /\ \A x \in DOMAIN cats \ {c} : cats'[x] = cats[x]
      /\ \A x \in DOMAIN cats : x = c => ~cats'[x].live
  BY <1>3, <1>4
<1>6. CategoriesOK'
  <2>1. cats' \in [DOMAIN cats -> [parent : DOMAIN cats \cup {None}, live : BOOLEAN]]
    BY <1>3, <1>4
  <2> QED
    BY <1>4, <1>5, <2>1 DEF CategoriesOK
<1>7. ~MovesRaced => NoCircle(cats')
  BY <1>5 DEF IForest, CirclesOK, NoCircle
<1>8. \A x : HasChildren(cats', x) => HasChildren(cats, x)
  BY <1>5 DEF HasChildren
<1>9. ASSUME ~BranchesRaced
      PROVE  /\ Hung(cats')
             /\ \A q \in Request \ {r} : ~AddingCategory(q) /\ ~MovingCategory(q)
  <2>1. Hung(cats) /\ ~HasChildren(cats, c)
    BY <1>1, <1>2, <1>9 DEF IForest, BranchesOK
  <2>2. Hung(cats')
    BY <1>5, <2>1 DEF Hung, IsLive, HasChildren
  <2> QED
    BY <1>1, <1>9, <2>2 DEF IForest, BranchRivalsOK
<1> QED
  BY <1>1, <1>5, <1>6, <1>7, <1>8, <1>9, ForestChanged

LEMMA ForestStepKeeps == IForest /\ [ProductsNext]_<<requestVars, goodsVars>> => IForest'
<1> SUFFICES ASSUME IForest, [ProductsNext]_<<requestVars, goodsVars>> PROVE IForest'
  OBVIOUS
<1>0. Wired
  BY DEF IForest
<1>1. CASE \E r \in Request : (CategoryStep(r) \/ UnitStep(r)) /\ UNCHANGED productVars
  <2>1. PICK r \in Request : CategoryStep(r) \/ UnitStep(r)
    BY <1>1
  <2>2. CASE CategoryStep(r)
    BY <2>2, FindParentKeeps, InsertCategoryKeeps, FindToMoveKeeps, FindNewParentKeeps, WalkKeeps,
       MoveCategoryKeeps, FindToDropKeepsForest, DropCategoryKeeps DEF CategoryStep
  <2> QED
    BY <2>1, <2>2, UnitKeepsForest
<1>2. CASE \E r \in Request : ProductStep(r)
  BY <1>2, ProductKeepsForest
<1>3. CASE \E r \in Request : Refuse(r)
  <2>1. PICK r \in Request : Fail(r) /\ cats' = cats
    BY <1>3 DEF Refuse, LeftBy, catalogVars
  <2>2. Wired' /\ Alone(r) /\ pc'[r] = "error" /\ raced' = raced
    BY <1>0, <2>1, FailMoves
  <2> QED
    BY <2>1, <2>2, ForestAside DEF AtCategory
<1>4. CASE Restart
  <2>1. Halt /\ cats' = cats
    BY <1>4 DEF Restart, catalogVars
  <2>2. Wired' /\ raced' = raced /\ \A q \in Request : pc'[q] \notin AtCategory
    BY <1>0, <2>1, HaltMoves DEF AtCategory, Busy, Answered
  <2> QED
    BY <2>1, <2>2, ForestStays
<1>5. CASE Expire \/ UNCHANGED <<requestVars, goodsVars>>
  <2>1. UNCHANGED requestVars /\ cats' = cats
    BY <1>5 DEF Expire, goodsVars, catalogVars
  <2>2. Wired'
    BY <1>0, <2>1 DEF Wired, requestVars
  <2> QED
    BY <2>1, <2>2, ForestStays DEF requestVars
<1> QED
  BY <1>1, <1>2, <1>3, <1>4, <1>5 DEF ProductsNext

\* The categories of a business form a forest: a circle takes two moves under way
\* together, a category below a removed one a removal under way with it
\* (CategoriesService.checkCircularReference and remove).
THEOREM CategoriesStayAForest == ProductsSpec => []CategoriesFormAForest
<1>1. RequestInit /\ CatalogInit => IForest
  BY ForestInitial
<1> QED
  BY <1>1, ForestStepKeeps, ForestImplies, PTL DEF ProductsSpec
-----------------------------------------------------------------------------
(***************************************************************************)
(* NoticesExplained, for any number of items, managers, reports and        *)
(* requests. Of alerts: what a check has not found, nobody tells in the    *)
(* meantime unless another check is under way. Of reports: a report a tick *)
(* has at hand was not yet mailed, is wanted, and has its frequency, unless *)
(* something else was under way.                                           *)
(***************************************************************************)
Checking(r) == pc[r] \in {"look", "tell"}
Ticking(r) == pc[r] \in {"mail", "storeRun"}
Updating(r) == pc[r] = "changeScheduled"
Unscheduling(r) == pc[r] = "removeScheduled"

ChecksRaced == Together("alerts", "check", "check")
TicksRaced == Together("schedules", "tick", "tick")
UpdatesRaced == Together("schedules", "tick", "update")
RemovalsRaced == Together("schedules", "tick", "remove")

Alert == [to : Manager, of : Item, sku : Code, before : Nat]
ToldOK == told \in Seq(Alert) /\ aged \in Nat

RepeatsOK ==
    \A k, n \in DOMAIN told : Repeats(k, n) => n \notin notices \/ told[n].sku # told[k].sku

PassedOK ==
    \A x \in passed : \E n \in DOMAIN told :
        /\ told[n].to = x.to /\ told[n].of # x.of
        /\ <<told[n].of, told[n].sku, x.sku>> \in Mention

ToTell(h) == h.x \in Item \X Manager /\ h.skuOf[h.x[1]] \in Code
ToLook(h) == \A x \in h.todo : x \in Item \X Manager /\ h.skuOf[x[1]] \in Code

HoldsAlert(r) ==
    /\ pc[r] \in Answered \cup {"new", "look", "tell", "removeNotice"}
    /\ Checking(r) => /\ "on" \in DOMAIN req[r] /\ req[r].on = "alerts"
                      /\ req[r].kind = "check" /\ ToLook(req[r])
    /\ pc[r] = "look" => "x" \notin DOMAIN req[r]
    /\ pc[r] = "tell" => ToTell(req[r])

AlertsOK ==
    \/ ChecksRaced
    \/ /\ RepeatsOK
       /\ \A r, q \in Request : Checking(r) /\ Checking(q) => r = q
       /\ \A r \in Request :
             pc[r] = "tell" => Recent(req[r].x[2], req[r].skuOf[req[r].x[1]]) = {}

NoReports == mailed = [s \in Schedule |-> 0] /\ unwanted = {} /\ stale = {}
NoAlerts == told = <<>> /\ passed = {}

IAlerts ==
    /\ Wired /\ ToldOK /\ PassedOK /\ AlertsOK /\ NoReports
    /\ \A r \in Request : HoldsAlert(r)

LEMMA AlertsImply == IAlerts => NoticesExplained
<1> SUFFICES ASSUME IAlerts PROVE NoticesExplained
  OBVIOUS
<1>1. \A s \in Schedule : mailed[s] = 0
  BY DEF IAlerts, NoReports
<1>2. RepeatsOK \/ ChecksRaced
  BY DEF IAlerts, AlertsOK
<1> QED
  BY <1>1, <1>2 DEF IAlerts, RepeatsOK, PassedOK, NoReports, NoticesExplained, ChecksRaced

LEMMA AlertsInitial ==
  ASSUME NEW kepts, RequestInit, NoticesInit(kepts)
  PROVE  IAlerts
<1>1. Wired /\ \A r \in Request : pc[r] = "new"
  BY WiredInitial
<1>2. told = <<>> /\ DOMAIN told = {} /\ aged = 0 /\ passed = {} /\ NoReports
  BY DEF NoticesInit, NoReports
<1>3. ToldOK /\ PassedOK /\ RepeatsOK
  BY <1>2 DEF ToldOK, PassedOK, RepeatsOK
<1> QED
  BY <1>1, <1>2, <1>3 DEF IAlerts, AlertsOK, HoldsAlert, Checking

\* A step that tells nobody, by a request that has none to tell.
LEMMA AlertsStay ==
  ASSUME IAlerts, NEW r \in Request, Wired', Alone(r), raced' = raced,
         UNCHANGED <<told, aged, passed, scheduleVars>>, notices' \subseteq notices,
         HoldsAlert(r)', pc'[r] # "tell", Checking(r)' => Checking(r)
  PROVE  IAlerts'
<1> USE DEF scheduleVars
<1>1. ToldOK' /\ PassedOK' /\ NoReports' /\ (ChecksRaced' <=> ChecksRaced)
  BY DEF IAlerts, ToldOK, PassedOK, NoReports, ChecksRaced, Together
<1>2. \A q \in Request : HoldsAlert(q)'
  BY DEF IAlerts, HoldsAlert, Alone, Checking
<1>3. \A q \in Request : /\ Checking(q)' => Checking(q)
                         /\ pc'[q] = "tell" => pc[q] = "tell" /\ req'[q] = req[q]
  BY DEF Alone, Checking
<1>4. RepeatsOK => RepeatsOK'
  BY DEF RepeatsOK, Repeats
<1>5. \A m, s : Recent(m, s)' \subseteq Recent(m, s)
  BY DEF Recent, LastHour
<1>6. AlertsOK'
  BY <1>1, <1>3, <1>4, <1>5 DEF IAlerts, AlertsOK
<1> QED
  BY <1>1, <1>2, <1>6 DEF IAlerts

LEMMA CheckStockKeeps ==
  ASSUME IAlerts, NEW r \in Request, CheckStock(r)
  PROVE  IAlerts'
<1> USE DEF noticeVars, alertVars, scheduleVars
<1>1. PICK low \in SUBSET Item, skus \in Labels :
         Begin(r, IF low \X Manager = {} THEN "ok" ELSE "look",
               [on |-> "alerts", kind |-> "check", todo |-> low \X Manager,
                skuOf |-> [p \in low |-> skus[p]]], {{"check"}})
  BY DEF CheckStock
<1> DEFINE h == [on |-> "alerts", kind |-> "check", todo |-> low \X Manager,
                 skuOf |-> [p \in low |-> skus[p]]]
<1>2. /\ Wired' /\ Alone(r) /\ pc[r] = "new" /\ pc'[r] \in {"ok", "look"}
      /\ pc'[r] = "look" => req'[r] = h
      /\ raced \subseteq raced'
  BY <1>1, BeginMoves DEF IAlerts
<1>3. /\ ToldOK' /\ PassedOK' /\ NoReports' /\ (ChecksRaced => ChecksRaced')
      /\ RepeatsOK => RepeatsOK'
  BY <1>2 DEF CheckStock, IAlerts, ToldOK, PassedOK, NoReports, ChecksRaced, Together,
              RepeatsOK, Repeats
<1>4. \A q \in Request : HoldsAlert(q)'
  <2>1. ToLook(h)
    BY NoticeAssumption DEF ToLook
  <2>2. HoldsAlert(r)'
    BY <1>2, <2>1 DEF HoldsAlert, Checking
  <2> QED
    BY <1>2, <2>2 DEF IAlerts, HoldsAlert, Alone, Checking
<1>5. ASSUME NEW q \in Request, Checking(q) PROVE ChecksRaced'
  <2>1. Busy(q) /\ "on" \in DOMAIN req[q] /\ req[q].on = h.on /\ req[q].kind = "check"
    BY <1>5 DEF IAlerts, HoldsAlert, Checking, Busy
  <2>2. {"check", "check"} \in {{"check"}}
    OBVIOUS
  <2>3. PICK g : g = h
    OBVIOUS
  <2>4. g.on = "alerts" /\ g.kind = "check"
    BY <2>3
  <2>5. PICK next : Begin(r, next, g, {{"check"}})
    BY <1>1, <2>3
  <2>6. Together(g.on, "check", "check")'
    BY <2>1, <2>2, <2>3, <2>4, <2>5, BeginRaces
  <2> QED
    BY <2>4, <2>6 DEF ChecksRaced
<1>6. \A q \in Request \ {r} : pc'[q] = pc[q] /\ req'[q] = req[q]
  BY <1>2 DEF Alone
<1>7. AlertsOK'
  <2>1. CASE ChecksRaced'
    BY <2>1 DEF AlertsOK
  <2>2. CASE ~ChecksRaced'
    <3>1. RepeatsOK'
      BY <1>3, <2>2 DEF IAlerts, AlertsOK
    <3>2. \A q \in Request : Checking(q)' => q = r
      BY <1>5, <1>6, <2>2 DEF Checking
    <3>3. \A q \in Request : pc'[q] # "tell"
      BY <1>2, <3>2 DEF Checking
    <3> QED
      BY <3>1, <3>2, <3>3 DEF AlertsOK
  <2> QED
    BY <2>1, <2>2
<1> QED
  BY <1>2, <1>3, <1>4, <1>7 DEF IAlerts

LEMMA LookKeeps ==
  ASSUME IAlerts, NEW r \in Request, Look(r)
  PROVE  IAlerts'
<1> USE DEF scheduleVars
<1>1. PICK h : h = req[r]
  OBVIOUS
<1>2. /\ pc[r] = "look" /\ Checking(r) /\ "x" \notin DOMAIN h /\ ToLook(h)
      /\ "on" \in DOMAIN h /\ h.on = "alerts" /\ h.kind = "check"
      /\ UNCHANGED <<told, aged, notices, mailed, unstored, unwanted, stale>>
  BY <1>1 DEF Look, IAlerts, HoldsAlert, Checking
<1>3. PICK x \in h.todo :
         LET p == x[1]
             m == x[2]
             s == h.skuOf[p]
             really == \E n \in LastHour : told[n].of = p /\ told[n].to = m
         IN  IF Recent(m, s) = {}
             THEN /\ Hold(r, "look", "tell",
                          [on |-> h.on, kind |-> h.kind, skuOf |-> h.skuOf,
                           todo |-> h.todo \ {x}, x |-> x])
                  /\ UNCHANGED passed
             ELSE /\ IF h.todo = {x} THEN Go(r, "look", "ok")
                     ELSE Hold(r, "look", "look", [h EXCEPT !.todo = @ \ {x}])
                  /\ passed' = IF really THEN passed
                               ELSE passed \cup {[of |-> p, to |-> m, sku |-> s]}
  BY <1>1 DEF Look
<1>4. PICK p, m, s : p = x[1] /\ m = x[2] /\ s = h.skuOf[p]
  OBVIOUS
<1>5. CASE Recent(m, s) = {}
  <2> DEFINE g == [on |-> h.on, kind |-> h.kind, skuOf |-> h.skuOf,
                   todo |-> h.todo \ {x}, x |-> x]
  <2>1. /\ "on" \in DOMAIN g /\ g.on = "alerts" /\ g.kind = "check" /\ g.x = x
        /\ g.skuOf = h.skuOf /\ ToLook(g) /\ ToTell(g)
    BY <1>2 DEF ToLook, ToTell
  <2>2. /\ Wired' /\ Alone(r) /\ raced' = raced /\ pc'[r] = "tell" /\ req'[r] = g
        /\ passed' = passed
    BY <1>3, <1>4, <1>5, HoldMoves DEF IAlerts
  <2>3. HoldsAlert(r)' /\ req'[r].x = x /\ req'[r].skuOf = h.skuOf
    BY <2>1, <2>2 DEF HoldsAlert, Checking
  <2>4. \A q \in Request : HoldsAlert(q)'
    BY <2>2, <2>3 DEF IAlerts, HoldsAlert, Alone, Checking
  <2>5. /\ ToldOK' /\ PassedOK' /\ NoReports' /\ (ChecksRaced' <=> ChecksRaced)
        /\ RepeatsOK' <=> RepeatsOK
    BY <1>2, <2>2 DEF IAlerts, ToldOK, PassedOK, NoReports, ChecksRaced, Together,
                      RepeatsOK, Repeats
  <2>6. \A q \in Request \ {r} : pc'[q] = pc[q] /\ req'[q] = req[q]
    BY <2>2 DEF Alone
  <2>7. Recent(m, s)' = {}
    BY <1>2, <1>5 DEF Recent, LastHour
  <2>8. AlertsOK'
    BY <1>2, <1>4, <2>2, <2>3, <2>5, <2>6, <2>7 DEF IAlerts, AlertsOK, Checking
  <2> QED
    BY <2>2, <2>4, <2>5, <2>8 DEF IAlerts
<1>6. CASE Recent(m, s) # {}
  <2> DEFINE g == [h EXCEPT !.todo = @ \ {x}]
             new == [of |-> p, to |-> m, sku |-> s]
  <2>1. /\ "on" \in DOMAIN g /\ g.on = "alerts" /\ g.kind = "check" /\ "x" \notin DOMAIN g
        /\ ToLook(g)
    BY <1>2 DEF ToLook
  <2>2. /\ Wired' /\ Alone(r) /\ raced' = raced /\ pc'[r] \in {"ok", "look"}
        /\ pc'[r] = "look" => req'[r] = g
    BY <1>3, <1>4, <1>6, GoMoves, HoldMoves DEF IAlerts
  <2>3. HoldsAlert(r)'
    BY <2>1, <2>2 DEF HoldsAlert, Checking
  <2>4. \A q \in Request : HoldsAlert(q)'
    BY <2>2, <2>3 DEF IAlerts, HoldsAlert, Alone, Checking
  <2>5. PassedOK'
    <3>1. \/ passed' = passed
          \/ /\ passed' = passed \cup {new}
             /\ ~\E n \in LastHour : told[n].of = p /\ told[n].to = m
      BY <1>3, <1>4, <1>6
    <3>2. PICK n \in Recent(m, s) : TRUE
      BY <1>6
    <3>3. /\ n \in LastHour /\ n \in DOMAIN told /\ told[n].to = m
          /\ <<told[n].of, told[n].sku, s>> \in Mention
      BY <3>2 DEF Recent, LastHour
    <3>4. CASE passed' = passed
      BY <1>2, <3>4 DEF IAlerts, PassedOK
    <3>5. CASE /\ passed' = passed \cup {new}
               /\ ~\E l \in LastHour : told[l].of = p /\ told[l].to = m
      <4>1. told[n].of # new.of /\ new.to = m /\ new.sku = s
        BY <3>3, <3>5
      <4> QED
        BY <1>2, <3>3, <3>5, <4>1 DEF IAlerts, PassedOK
    <3> QED
      BY <3>1, <3>4, <3>5
  <2>6. /\ ToldOK' /\ NoReports' /\ (ChecksRaced' <=> ChecksRaced)
        /\ RepeatsOK' <=> RepeatsOK
    BY <1>2, <2>2 DEF IAlerts, ToldOK, NoReports, ChecksRaced, Together, RepeatsOK, Repeats
  <2>7. \A q \in Request \ {r} : pc'[q] = pc[q] /\ req'[q] = req[q]
    BY <2>2 DEF Alone
  <2>8. \A l, t : Recent(l, t)' = Recent(l, t)
    BY <1>2 DEF Recent, LastHour
  <2>9. AlertsOK'
    BY <1>2, <2>2, <2>6, <2>7, <2>8 DEF IAlerts, AlertsOK, Checking
  <2> QED
    BY <2>2, <2>4, <2>5, <2>6, <2>9 DEF IAlerts
<1> QED
  BY <1>5, <1>6

LEMMA TellKeeps ==
  ASSUME IAlerts, NEW r \in Request, Tell(r)
  PROVE  IAlerts'
<1> USE DEF scheduleVars
<1>1. PICK h : h = req[r]
  OBVIOUS
<1> DEFINE g == [on |-> h.on, kind |-> h.kind, skuOf |-> h.skuOf, todo |-> h.todo]
<1>2. PICK p, m, s : p = h.x[1] /\ m = h.x[2] /\ s = h.skuOf[p]
  OBVIOUS
<1>3. PICK alert : alert = [to |-> m, of |-> p, sku |-> s, before |-> aged]
  OBVIOUS
<1>4. /\ pc[r] = "tell" /\ Checking(r) /\ ToLook(h)
      /\ "on" \in DOMAIN h /\ h.on = "alerts" /\ h.kind = "check"
      /\ p \in Item /\ m \in Manager /\ s \in Code
  BY <1>1, <1>2 DEF Tell, IAlerts, HoldsAlert, Checking, ToTell
<1>5. /\ told' = Append(told, alert) /\ notices' = notices \cup {Len(told')}
      /\ UNCHANGED <<aged, passed, scheduleVars>>
  BY <1>1, <1>2, <1>3 DEF Tell
<1>6. alert \in Alert /\ told \in Seq(Alert) /\ Len(told) \in Nat /\ aged \in Nat
  BY <1>3, <1>4 DEF Alert, IAlerts, ToldOK
<1>7. /\ told' \in Seq(Alert) /\ Len(told') = Len(told) + 1
      /\ DOMAIN told = 1..Len(told) /\ DOMAIN told' = 1..Len(told) + 1
      /\ told'[Len(told) + 1] = alert /\ \A n \in DOMAIN told : told'[n] = told[n]
  BY <1>5, <1>6
<1>8. /\ Wired' /\ Alone(r) /\ raced' = raced /\ pc'[r] \in {"ok", "look"}
      /\ pc'[r] = "look" => req'[r] = g
  BY <1>1, GoMoves, HoldMoves DEF IAlerts, Tell
<1>9. HoldsAlert(r)'
  <2>1. /\ "on" \in DOMAIN g /\ g.on = "alerts" /\ g.kind = "check" /\ "x" \notin DOMAIN g
        /\ ToLook(g)
    BY <1>4 DEF ToLook
  <2> QED
    BY <1>8, <2>1 DEF HoldsAlert, Checking
<1>10. \A q \in Request : HoldsAlert(q)'
  BY <1>8, <1>9 DEF IAlerts, HoldsAlert, Alone, Checking
<1>11. ToldOK' /\ PassedOK' /\ NoReports' /\ (ChecksRaced' <=> ChecksRaced)
  <2>1. ToldOK'
    BY <1>5, <1>6, <1>7 DEF ToldOK
  <2>2. DOMAIN told \subseteq DOMAIN told'
    BY <1>6, <1>7
  <2>3. PassedOK'
    BY <1>5, <1>7, <2>2 DEF IAlerts, PassedOK
  <2> QED
    BY <1>5, <1>8, <2>1, <2>3 DEF IAlerts, NoReports, ChecksRaced, Together
<1>12. ASSUME ~ChecksRaced PROVE RepeatsOK'
  <2>1. RepeatsOK /\ Recent(m, s) = {}
    BY <1>1, <1>2, <1>4, <1>12 DEF IAlerts, AlertsOK
  <2>2. ASSUME NEW k \in DOMAIN told', NEW n \in DOMAIN told', Repeats(k, n)',
               n \in notices', told'[n].sku = told'[k].sku
        PROVE  FALSE
    <3>1. /\ n < k /\ n > told'[k].before
          /\ told'[n].of = told'[k].of /\ told'[n].to = told'[k].to
      BY <2>2 DEF Repeats
    <3>2. n \in DOMAIN told /\ told'[n] = told[n] /\ n \in notices
      BY <1>5, <1>6, <1>7, <2>2, <3>1
    <3>3. CASE k \in DOMAIN told
      BY <1>7, <2>1, <2>2, <3>1, <3>2, <3>3 DEF RepeatsOK, Repeats
    <3>4. CASE k = Len(told) + 1
      <4>1. told'[k] = alert
        BY <1>7, <3>4
      <4>2. n > aged /\ told[n].of = p /\ told[n].to = m /\ told[n].sku = s
        BY <1>3, <2>2, <3>1, <3>2, <4>1
      <4>3. <<told[n].of, told[n].sku, s>> \in Mention
        BY <1>4, <4>2, NoticeAssumption
      <4>4. n \in Recent(m, s)
        BY <3>2, <4>2, <4>3 DEF Recent, LastHour
      <4> QED
        BY <2>1, <4>4
    <3> QED
      BY <1>6, <1>7, <2>2, <3>3, <3>4
  <2> QED
    BY <2>2 DEF RepeatsOK
<1>13. AlertsOK'
  <2>1. CASE ChecksRaced
    BY <1>11, <2>1 DEF AlertsOK
  <2>2. CASE ~ChecksRaced
    <3>1. \A q \in Request : Checking(q) => q = r
      BY <1>4, <2>2 DEF IAlerts, AlertsOK
    <3>2. \A q \in Request : Checking(q)' => q = r
      BY <1>8, <3>1 DEF Alone, Checking
    <3>3. \A q \in Request : pc'[q] # "tell"
      BY <1>8, <3>2 DEF Checking
    <3> QED
      BY <1>12, <2>2, <3>2, <3>3 DEF AlertsOK
  <2> QED
    BY <2>1, <2>2
<1> QED
  BY <1>8, <1>10, <1>11, <1>13 DEF IAlerts

\* Nothing moves; the alerts grow older.
LEMMA AlertsRest ==
  ASSUME IAlerts, UNCHANGED <<requestVars, told, notices, passed, scheduleVars>>,
         aged' = aged \/ aged' \in LastHour
  PROVE  IAlerts'
<1> USE DEF requestVars, scheduleVars
<1>1. told \in Seq(Alert) /\ aged \in Nat /\ DOMAIN told \subseteq Nat
  BY DEF IAlerts, ToldOK
<1>2. aged' \in Nat /\ aged' >= aged
  BY <1>1 DEF LastHour
<1>3. \A m, s : Recent(m, s)' \subseteq Recent(m, s)
  BY <1>1, <1>2 DEF Recent, LastHour
<1>4. /\ Wired' /\ ToldOK' /\ PassedOK' /\ NoReports' /\ (ChecksRaced' <=> ChecksRaced)
      /\ RepeatsOK => RepeatsOK'
  BY <1>1, <1>2 DEF IAlerts, Wired, ToldOK, PassedOK, NoReports, ChecksRaced, Together,
                    RepeatsOK, Repeats
<1>5. \A q \in Request : HoldsAlert(q)'
  BY DEF IAlerts, HoldsAlert, Checking
<1>6. AlertsOK'
  BY <1>3, <1>4 DEF IAlerts, AlertsOK, Checking
<1> QED
  BY <1>4, <1>5, <1>6 DEF IAlerts

LEMMA AlertsStepKeeps ==
  ASSUME IAlerts, AlertsNext \/ UNCHANGED <<requestVars, noticeVars>>
  PROVE  IAlerts'
<1> USE DEF noticeVars, alertVars, scheduleVars
<1>1. ASSUME NEW r \in Request, FindNotice(r) PROVE IAlerts'
  <2>1. PICK h : Arrive(r, "removeNotice", h) /\ UNCHANGED noticeVars
    BY <1>1 DEF FindNotice
  <2>2. /\ Wired' /\ Alone(r) /\ raced' = raced /\ pc'[r] = "removeNotice"
    BY <2>1, ArriveMoves DEF IAlerts
  <2> QED
    BY <2>1, <2>2, AlertsStay DEF HoldsAlert, Checking
<1>2. ASSUME NEW r \in Request, RemoveNotice(r) PROVE IAlerts'
  <2>1. PICK next : /\ next \in {"ok", "error"} /\ Go(r, "removeNotice", next)
                    /\ notices' \subseteq notices
                    /\ UNCHANGED <<told, aged, passed, scheduleVars>>
    BY <1>2 DEF RemoveNotice
  <2>2. /\ Wired' /\ Alone(r) /\ raced' = raced /\ pc'[r] \in {"ok", "error"}
    BY <2>1, GoMoves DEF IAlerts
  <2> QED
    BY <2>1, <2>2, AlertsStay DEF HoldsAlert, Checking
<1>3. ASSUME NEW r \in Request, ClearAll(r) PROVE IAlerts'
  <2>1. /\ Arrive(r, "ok", Nothing) /\ notices' \subseteq notices
        /\ UNCHANGED <<told, aged, passed, scheduleVars>>
    BY <1>3 DEF ClearAll
  <2>2. /\ Wired' /\ Alone(r) /\ raced' = raced /\ pc'[r] = "ok"
    BY <2>1, ArriveMoves DEF IAlerts
  <2> QED
    BY <2>1, <2>2, AlertsStay DEF HoldsAlert, Checking
<1>4. CASE HourPasses
  BY <1>4, AlertsRest DEF HourPasses
<1>5. ASSUME NEW r \in Request, Fail(r), UNCHANGED noticeVars PROVE IAlerts'
  <2>1. Wired' /\ Alone(r) /\ raced' = raced /\ pc'[r] = "error"
    BY <1>5, FailMoves DEF IAlerts
  <2> QED
    BY <1>5, <2>1, AlertsStay DEF HoldsAlert, Checking
<1>6. CASE Halt /\ UNCHANGED noticeVars
  <2>1. /\ Wired' /\ raced' = raced
        /\ \A q \in Request : ~Busy(q)' /\ (~Busy(q) => pc'[q] = pc[q])
    BY <1>6, HaltMoves DEF IAlerts
  <2>2. \A q \in Request : pc'[q] \in Answered \cup {"new"}
    BY <2>1 DEF Busy
  <2>3. \A q \in Request : HoldsAlert(q)' /\ ~Checking(q)' /\ pc'[q] # "tell"
    BY <2>2 DEF HoldsAlert, Checking
  <2>4. /\ ToldOK' /\ PassedOK' /\ NoReports' /\ (ChecksRaced' <=> ChecksRaced)
        /\ RepeatsOK' <=> RepeatsOK
    BY <1>6, <2>1 DEF IAlerts, ToldOK, PassedOK, NoReports, ChecksRaced, Together,
                      RepeatsOK, Repeats
  <2>5. AlertsOK'
    BY <2>3, <2>4 DEF IAlerts, AlertsOK
  <2> QED
    BY <2>1, <2>3, <2>4, <2>5 DEF IAlerts
<1>7. CASE UNCHANGED <<requestVars, noticeVars>>
  BY <1>7, AlertsRest
<1> QED
  BY <1>1, <1>2, <1>3, <1>4, <1>5, <1>6, <1>7, CheckStockKeeps, LookKeeps, TellKeeps
     DEF AlertsNext
-----------------------------------------------------------------------------
HoldsReport(r) ==
    /\ pc[r] \in Answered \cup {"new", "changeScheduled", "removeScheduled", "mail", "storeRun"}
    /\ Ticking(r) \/ Updating(r) \/ Unscheduling(r) =>
          "on" \in DOMAIN req[r] /\ req[r].on = "schedules"
    /\ Ticking(r) => /\ req[r].kind = "tick" /\ "left" \in DOMAIN req[r]
                     /\ DOMAIN req[r].left \subseteq Schedule
    /\ pc[r] = "storeRun" => req[r].now \in DOMAIN req[r].left
    /\ Updating(r) => /\ req[r].kind = "update" /\ req[r].active \in BOOLEAN
                      /\ req[r].frequency \in Frequency \cup {"kept"}
    /\ Unscheduling(r) => req[r].kind = "remove"

SchedulesOK ==
    /\ mailed \in [Schedule -> Nat]
    /\ DOMAIN schedules \subseteq Schedule
    /\ \A s \in DOMAIN schedules :
          schedules[s] \in [frequency : Frequency, due : BOOLEAN, active : BOOLEAN]

\* A report that is due, or still to be mailed, was not mailed for this occasion.
OncePerOccasion(s) ==
    /\ mailed[s] <= 1
    /\ \A r \in Request :
          Ticking(r) /\ s \in DOMAIN req[r].left =>
             mailed[s] = 0 \/ (pc[r] = "storeRun" /\ req[r].now = s)
    /\ s \in DOMAIN schedules /\ schedules[s].due =>
          mailed[s] = 0 \/ \E r \in Request : pc[r] = "storeRun" /\ req[r].now = s

TicksOK ==
    \/ TicksRaced
    \/ /\ \A r, q \in Request : Ticking(r) /\ Ticking(q) => r = q
       /\ \A s \in Schedule \ unstored : OncePerOccasion(s)

UpdatesOK ==
    \/ UpdatesRaced
    \/ /\ stale = {}
       /\ \A r, q \in Request : ~(Ticking(r) /\ Updating(q))
       /\ \A r \in Request : Ticking(r) =>
             \A s \in DOMAIN req[r].left \cap DOMAIN schedules :
                schedules[s].frequency = req[r].left[s]

WantedOK ==
    \/ UpdatesRaced \/ RemovalsRaced
    \/ /\ unwanted = {}
       /\ \A r, q \in Request : ~(Ticking(r) /\ (Updating(q) \/ Unscheduling(q)))
       /\ \A r \in Request : Ticking(r) =>
             \A s \in DOMAIN req[r].left : s \in DOMAIN schedules /\ schedules[s].active

ISchedules ==
    /\ Wired /\ NoAlerts /\ SchedulesOK /\ TicksOK /\ UpdatesOK /\ WantedOK
    /\ \A r \in Request : HoldsReport(r)

AtHand(s) == \E r \in Request : Ticking(r) /\ s \in DOMAIN req[r].left

LEMMA SchedulesImply == ISchedules => NoticesExplained
<1> SUFFICES ASSUME ISchedules PROVE NoticesExplained
  OBVIOUS
<1>1. TicksRaced \/ \A s \in Schedule \ unstored : ~(mailed[s] > 1)
  BY DEF ISchedules, TicksOK, OncePerOccasion, SchedulesOK
<1> QED
  BY <1>1 DEF ISchedules, NoAlerts, UpdatesOK, WantedOK, NoticesExplained,
              TicksRaced, UpdatesRaced, RemovalsRaced

LEMMA SchedulesInitial ==
  ASSUME NEW kepts, kepts \subseteq SUBSET Schedule, RequestInit, NoticesInit(kepts)
  PROVE  ISchedules
<1>1. Wired /\ \A r \in Request : pc[r] = "new"
  BY WiredInitial
<1>2. PICK kept \in kepts, f \in Frequency :
         schedules = [s \in kept |-> [frequency |-> f, due |-> FALSE, active |-> TRUE]]
  BY DEF NoticesInit
<1>3. SchedulesOK
  BY <1>2 DEF NoticesInit, SchedulesOK
<1>4. \A r \in Request : HoldsReport(r) /\ ~Ticking(r) /\ ~Updating(r) /\ ~Unscheduling(r)
  BY <1>1 DEF HoldsReport, Ticking, Updating, Unscheduling
<1>5. TicksOK
  BY <1>2, <1>4 DEF TicksOK, OncePerOccasion, NoticesInit
<1>6. UpdatesOK /\ WantedOK /\ NoAlerts
  BY <1>4 DEF UpdatesOK, WantedOK, NoAlerts, NoticesInit
<1> QED
  BY <1>1, <1>3, <1>4, <1>5, <1>6 DEF ISchedules

LEMMA AtHandInTick ==
  ASSUME ISchedules, NEW s, AtHand(s)
  PROVE  InTick(s)
BY DEF ISchedules, HoldsReport, AtHand, InTick, Ticks, Ticking, Busy

LEMMA ReportsHold ==
  ASSUME ISchedules, NEW r \in Request, Alone(r), HoldsReport(r)'
  PROVE  \A q \in Request : HoldsReport(q)'
BY DEF ISchedules, Alone, HoldsReport, Ticking, Updating, Unscheduling

LEMMA RacesLast ==
  ASSUME raced \subseteq raced'
  PROVE  /\ TicksRaced => TicksRaced'
         /\ UpdatesRaced => UpdatesRaced'
         /\ RemovalsRaced => RemovalsRaced'
BY DEF TicksRaced, UpdatesRaced, RemovalsRaced, Together

\* A step of no tick.
LEMMA TicksStay ==
  ASSUME TicksOK, NEW r \in Request, Alone(r), raced \subseteq raced',
         UNCHANGED <<mailed, unstored>>, ~Ticking(r), ~Ticking(r)',
         \A s \in DOMAIN schedules' : schedules'[s].due =>
            s \in DOMAIN schedules /\ schedules[s].due
  PROVE  TicksOK'
<1>1. \A q \in Request : /\ Ticking(q)' <=> Ticking(q)
                         /\ Ticking(q) => pc'[q] = pc[q] /\ req'[q] = req[q]
                         /\ pc[q] = "storeRun" => pc'[q] = pc[q] /\ req'[q] = req[q]
  BY DEF Alone, Ticking
<1>2. ASSUME NEW s, OncePerOccasion(s) PROVE OncePerOccasion(s)'
  BY <1>1, <1>2 DEF OncePerOccasion
<1> QED
  BY <1>1, <1>2, RacesLast DEF TicksOK

LEMMA UpdatesStay ==
  ASSUME UpdatesOK, NEW r \in Request, Alone(r), raced \subseteq raced', UNCHANGED stale,
         Ticking(r)' => /\ Ticking(r)
                        /\ \A s \in DOMAIN req'[r].left :
                              s \in DOMAIN req[r].left /\ req'[r].left[s] = req[r].left[s],
         Updating(r)' => Updating(r),
         \A s \in DOMAIN schedules' : AtHand(s) =>
            s \in DOMAIN schedules /\ schedules'[s].frequency = schedules[s].frequency
  PROVE  UpdatesOK'
<1>1. ASSUME NEW q \in Request, Ticking(q)'
      PROVE  /\ Ticking(q)
             /\ \A s \in DOMAIN req'[q].left :
                   s \in DOMAIN req[q].left /\ req'[q].left[s] = req[q].left[s]
  BY <1>1 DEF Alone, Ticking
<1>2. \A q \in Request : Updating(q)' => Updating(q)
  BY DEF Alone, Updating
<1>3. CASE UpdatesRaced
  BY <1>3, RacesLast DEF UpdatesOK
<1>4. CASE ~UpdatesRaced
  <2>1. ASSUME NEW q \in Request, Ticking(q)',
               NEW s \in DOMAIN req'[q].left, s \in DOMAIN schedules'
        PROVE  schedules'[s].frequency = req'[q].left[s]
    <3>1. Ticking(q) /\ s \in DOMAIN req[q].left /\ req'[q].left[s] = req[q].left[s]
      BY <1>1, <2>1
    <3>2. s \in DOMAIN schedules /\ schedules'[s].frequency = schedules[s].frequency
      BY <2>1, <3>1 DEF AtHand
    <3> QED
      BY <1>4, <3>1, <3>2 DEF UpdatesOK
  <2> QED
    BY <1>1, <1>2, <1>4, <2>1 DEF UpdatesOK
<1> QED
  BY <1>3, <1>4

LEMMA WantedStays ==
  ASSUME WantedOK, NEW r \in Request, Alone(r), raced \subseteq raced', UNCHANGED unwanted,
         Ticking(r)' => Ticking(r) /\ DOMAIN req'[r].left \subseteq DOMAIN req[r].left,
         Updating(r)' => Updating(r), Unscheduling(r)' => Unscheduling(r),
         \A s \in DOMAIN schedules : AtHand(s) /\ schedules[s].active =>
            s \in DOMAIN schedules' /\ schedules'[s].active
  PROVE  WantedOK'
<1>1. ASSUME NEW q \in Request, Ticking(q)'
      PROVE  Ticking(q) /\ DOMAIN req'[q].left \subseteq DOMAIN req[q].left
  BY <1>1 DEF Alone, Ticking
<1>2. \A q \in Request : /\ Updating(q)' => Updating(q)
                         /\ Unscheduling(q)' => Unscheduling(q)
  BY DEF Alone, Updating, Unscheduling
<1>3. CASE UpdatesRaced \/ RemovalsRaced
  BY <1>3, RacesLast DEF WantedOK
<1>4. CASE ~(UpdatesRaced \/ RemovalsRaced)
  <2>1. ASSUME NEW q \in Request, Ticking(q)', NEW s \in DOMAIN req'[q].left
        PROVE  s \in DOMAIN schedules' /\ schedules'[s].active
    <3>1. Ticking(q) /\ s \in DOMAIN req[q].left
      BY <1>1, <2>1
    <3>2. s \in DOMAIN schedules /\ schedules[s].active
      BY <1>4, <3>1 DEF WantedOK
    <3> QED
      BY <3>1, <3>2 DEF AtHand
  <2> QED
    BY <1>1, <1>2, <1>4, <2>1 DEF WantedOK
<1> QED
  BY <1>3, <1>4

\* With a request that changes or removes a report under way, no tick is.
LEMMA NoTickMeanwhile ==
  ASSUME ISchedules, NEW r \in Request, raced' = raced,
         UNCHANGED <<stale, unwanted>>, \A q \in Request : Ticking(q)' => Ticking(q),
         \A q \in Request : /\ Updating(q)' => Updating(q)
                            /\ Unscheduling(q)' => Unscheduling(q)
  PROVE  /\ Updating(r) => UpdatesOK'
         /\ Updating(r) \/ Unscheduling(r) => WantedOK'
<1>1. /\ TicksRaced <=> TicksRaced'
      /\ UpdatesRaced <=> UpdatesRaced'
      /\ RemovalsRaced <=> RemovalsRaced'
  BY DEF TicksRaced, UpdatesRaced, RemovalsRaced, Together
<1>2. ASSUME Updating(r) PROVE UpdatesOK'
  BY <1>1, <1>2 DEF ISchedules, UpdatesOK
<1>3. ASSUME Updating(r) \/ Unscheduling(r) PROVE WantedOK'
  BY <1>1, <1>3 DEF ISchedules, WantedOK
<1> QED
  BY <1>2, <1>3

LEMMA ScheduleReportKeeps ==
  ASSUME ISchedules, NEW r \in Request, ScheduleReport(r)
  PROVE  ISchedules'
<1> USE DEF alertVars
<1>1. PICK s \in Schedule \ DOMAIN schedules, f \in Frequency :
         /\ ~InTick(s)
         /\ Arrive(r, "ok", Nothing)
         /\ schedules' = Plus(schedules, s, [frequency |-> f, due |-> FALSE, active |-> TRUE])
         /\ UNCHANGED <<alertVars, mailed, unstored, unwanted, stale>>
  BY DEF ScheduleReport
<1>2. /\ Wired' /\ Alone(r) /\ pc'[r] = "ok" /\ raced' = raced /\ pc[r] = "new"
  BY <1>1, ArriveMoves DEF ISchedules
<1>3. /\ DOMAIN schedules' = DOMAIN schedules \cup {s}
      /\ schedules'[s] = [frequency |-> f, due |-> FALSE, active |-> TRUE]
      /\ \A x \in DOMAIN schedules : schedules'[x] = schedules[x]
  BY <1>1 DEF Plus
<1>4. /\ ~Ticking(r) /\ ~Ticking(r)' /\ ~Updating(r)' /\ ~Unscheduling(r)' /\ ~AtHand(s)
  BY <1>1, <1>2, AtHandInTick DEF Ticking, Updating, Unscheduling
<1>5. \A q \in Request : HoldsReport(q)'
  <2>1. HoldsReport(r)'
    BY <1>2, <1>4 DEF HoldsReport
  <2> QED
    BY <1>2, <2>1, ReportsHold
<1>6. SchedulesOK' /\ NoAlerts'
  <2>1. schedules'[s] \in [frequency : Frequency, due : BOOLEAN, active : BOOLEAN]
    BY <1>3
  <2>2. \A x \in DOMAIN schedules' :
           schedules'[x] \in [frequency : Frequency, due : BOOLEAN, active : BOOLEAN]
    BY <1>3, <2>1 DEF ISchedules, SchedulesOK
  <2> QED
    BY <1>1, <1>3, <2>2 DEF ISchedules, SchedulesOK, NoAlerts
<1>7. TicksOK'
  <2>1. ~schedules'[s].due
    BY <1>3
  <2>2. \A x \in DOMAIN schedules' : schedules'[x].due =>
           x \in DOMAIN schedules /\ schedules[x].due
    BY <1>3, <2>1
  <2> QED
    BY <1>1, <1>2, <1>4, <2>2, TicksStay DEF ISchedules
<1>8. UpdatesOK'
  BY <1>1, <1>2, <1>3, <1>4, UpdatesStay DEF ISchedules
<1>9. WantedOK'
  BY <1>1, <1>2, <1>3, <1>4, WantedStays DEF ISchedules
<1> QED
  BY <1>2, <1>5, <1>6, <1>7, <1>8, <1>9 DEF ISchedules

\* A request that changes or removes a report begins.
LEMMA FindScheduledKeeps ==
  ASSUME ISchedules, NEW r \in Request, FindScheduled(r) \/ FindScheduledToRemove(r)
  PROVE  ISchedules'
<1> USE DEF noticeVars, alertVars, scheduleVars
<1>1. PICK next, h :
         /\ Begin(r, next, h, ScheduleRivals) /\ UNCHANGED noticeVars
         /\ "on" \in DOMAIN h /\ h.on = "schedules"
         /\ \/ /\ next = "changeScheduled" /\ h.kind = "update" /\ h.active \in BOOLEAN
               /\ h.frequency \in Frequency \cup {"kept"}
            \/ next = "removeScheduled" /\ h.kind = "remove"
  <2>1. CASE FindScheduled(r)
    <3>1. PICK s \in DOMAIN schedules, f \in Frequency \cup {"kept"}, active \in BOOLEAN :
             /\ Begin(r, "changeScheduled",
                      [on |-> "schedules", kind |-> "update", id |-> s, frequency |-> f,
                       active |-> active], ScheduleRivals)
             /\ UNCHANGED noticeVars
      BY <2>1 DEF FindScheduled
    <3>2. PICK h : h = [on |-> "schedules", kind |-> "update", id |-> s, frequency |-> f,
                        active |-> active]
      OBVIOUS
    <3>3. /\ "on" \in DOMAIN h /\ h.on = "schedules" /\ h.kind = "update"
          /\ h.active \in BOOLEAN /\ h.frequency \in Frequency \cup {"kept"}
      BY <3>2
    <3>4. Begin(r, "changeScheduled", h, ScheduleRivals)
      BY <3>1, <3>2
    <3> QED
      BY <3>1, <3>3, <3>4
  <2>2. CASE FindScheduledToRemove(r)
    <3>1. PICK s \in DOMAIN schedules :
             /\ Begin(r, "removeScheduled",
                      [on |-> "schedules", kind |-> "remove", id |-> s], ScheduleRivals)
             /\ UNCHANGED noticeVars
      BY <2>2 DEF FindScheduledToRemove
    <3>2. PICK h : h = [on |-> "schedules", kind |-> "remove", id |-> s]
      OBVIOUS
    <3>3. "on" \in DOMAIN h /\ h.on = "schedules" /\ h.kind = "remove"
      BY <3>2
    <3>4. Begin(r, "removeScheduled", h, ScheduleRivals)
      BY <3>1, <3>2
    <3> QED
      BY <3>1, <3>3, <3>4
  <2> QED
    BY <2>1, <2>2
<1>2. /\ Wired' /\ Alone(r) /\ pc[r] = "new" /\ pc'[r] = next /\ req'[r] = h
      /\ raced \subseteq raced'
  BY <1>1, BeginMoves DEF ISchedules
<1>3. ~Ticking(r) /\ ~Ticking(r)'
  BY <1>1, <1>2 DEF Ticking
<1>4. \A q \in Request : HoldsReport(q)'
  <2>1. HoldsReport(r)'
    BY <1>1, <1>2 DEF HoldsReport, Ticking, Updating, Unscheduling
  <2> QED
    BY <1>2, <2>1, ReportsHold
<1>5. SchedulesOK' /\ NoAlerts'
  BY <1>1 DEF ISchedules, SchedulesOK, NoAlerts
<1>6. TicksOK'
  BY <1>1, <1>2, <1>3, TicksStay DEF ISchedules
<1>7. ASSUME NEW q \in Request, Ticking(q)
      PROVE  IF next = "changeScheduled" THEN UpdatesRaced' ELSE RemovalsRaced'
  <2>1. Busy(q) /\ "on" \in DOMAIN req[q] /\ req[q].on = h.on /\ req[q].kind = "tick"
    BY <1>1, <1>7 DEF ISchedules, HoldsReport, Ticking, Busy
  <2>2. {h.kind, "tick"} \in ScheduleRivals
    BY <1>1 DEF ScheduleRivals
  <2>3. Together(h.on, h.kind, "tick")'
    BY <1>1, <2>1, <2>2, BeginRaces
  <2>4. {h.kind, "tick"} = {"tick", h.kind}
    OBVIOUS
  <2> QED
    BY <1>1, <2>3, <2>4 DEF Together, UpdatesRaced, RemovalsRaced
<1>8. \A q \in Request : q # r => pc'[q] = pc[q] /\ req'[q] = req[q]
  BY <1>2 DEF Alone
<1>9. UpdatesOK'
  <2>1. CASE next = "changeScheduled"
    <3>1. (\E q \in Request : Ticking(q)') => UpdatesRaced'
      BY <1>3, <1>7, <1>8, <2>1 DEF Ticking
    <3>2. stale' = {} \/ UpdatesRaced'
      BY <1>1, <1>2, RacesLast DEF ISchedules, UpdatesOK
    <3> QED
      BY <3>1, <3>2 DEF UpdatesOK
  <2>2. CASE next = "removeScheduled"
    <3>1. ~Updating(r)'
      BY <1>2, <2>2 DEF Updating
    <3> QED
      BY <1>1, <1>2, <1>3, <3>1, UpdatesStay DEF ISchedules
  <2> QED
    BY <1>1, <2>1, <2>2
<1>10. WantedOK'
  <2>1. (\E q \in Request : Ticking(q)') => UpdatesRaced' \/ RemovalsRaced'
    BY <1>3, <1>7, <1>8 DEF Ticking
  <2>2. unwanted' = {} \/ UpdatesRaced' \/ RemovalsRaced'
    BY <1>1, <1>2, RacesLast DEF ISchedules, WantedOK
  <2> QED
    BY <2>1, <2>2 DEF WantedOK
<1> QED
  BY <1>2, <1>4, <1>5, <1>6, <1>9, <1>10 DEF ISchedules

LEMMA ChangeScheduledKeeps ==
  ASSUME ISchedules, NEW r \in Request, ChangeScheduled(r)
  PROVE  ISchedules'
<1> USE DEF alertVars
<1>1. PICK h : h = req[r]
  OBVIOUS
<1>2. PICK next \in {"ok", "error"} : Go(r, "changeScheduled", next)
  BY DEF ChangeScheduled
<1>3. /\ Wired' /\ Alone(r) /\ pc[r] = "changeScheduled" /\ pc'[r] = next /\ raced' = raced
  BY <1>2, GoMoves DEF ISchedules
<1>4. /\ Updating(r) /\ ~Ticking(r) /\ ~Ticking(r)' /\ ~Updating(r)' /\ ~Unscheduling(r)'
  BY <1>3 DEF Ticking, Updating, Unscheduling
<1>5. h.active \in BOOLEAN /\ h.frequency \in Frequency \cup {"kept"}
  BY <1>1, <1>4 DEF ISchedules, HoldsReport
<1>6. /\ DOMAIN schedules' = DOMAIN schedules
      /\ \A s \in DOMAIN schedules :
            /\ schedules'[s] \in [frequency : Frequency, due : BOOLEAN, active : BOOLEAN]
            /\ schedules'[s].due => schedules[s].due
  <2>1. CASE h.id \in DOMAIN schedules
    <3> DEFINE row == IF h.frequency = "kept" THEN [schedules[h.id] EXCEPT !.active = h.active]
                      ELSE [frequency |-> h.frequency, due |-> FALSE, active |-> h.active]
    <3>1. schedules' = [schedules EXCEPT ![h.id] = row]
      BY <1>1, <2>1 DEF ChangeScheduled
    <3>2. schedules[h.id] \in [frequency : Frequency, due : BOOLEAN, active : BOOLEAN]
      BY <2>1 DEF ISchedules, SchedulesOK
    <3>3. /\ row \in [frequency : Frequency, due : BOOLEAN, active : BOOLEAN]
          /\ row.due => schedules[h.id].due
      BY <1>5, <3>2
    <3>4. DOMAIN schedules' = DOMAIN schedules /\ schedules'[h.id] = row
      BY <2>1, <3>1
    <3>5. \A s \in DOMAIN schedules \ {h.id} : schedules'[s] = schedules[s]
      BY <3>1
    <3> HIDE DEF row
    <3> QED
      BY <3>3, <3>4, <3>5 DEF ISchedules, SchedulesOK
  <2>2. CASE h.id \notin DOMAIN schedules
    BY <1>1, <2>2 DEF ChangeScheduled, ISchedules, SchedulesOK
  <2> QED
    BY <2>1, <2>2
<1>7. UNCHANGED <<alertVars, mailed, unstored, unwanted, stale>>
  BY DEF ChangeScheduled
<1>8. \A q \in Request : HoldsReport(q)'
  <2>1. HoldsReport(r)'
    BY <1>3, <1>4 DEF HoldsReport
  <2> QED
    BY <1>3, <2>1, ReportsHold
<1>9. SchedulesOK' /\ NoAlerts'
  BY <1>6, <1>7 DEF ISchedules, SchedulesOK, NoAlerts
<1>10. TicksOK'
  BY <1>3, <1>4, <1>6, <1>7, TicksStay DEF ISchedules
<1>11. \A q \in Request : /\ Ticking(q)' => Ticking(q)
                          /\ Updating(q)' => Updating(q)
                          /\ Unscheduling(q)' => Unscheduling(q)
  BY <1>3, <1>4 DEF Alone, Ticking, Updating, Unscheduling
<1>12. UpdatesOK' /\ WantedOK'
  BY <1>3, <1>4, <1>7, <1>11, NoTickMeanwhile
<1> QED
  BY <1>3, <1>8, <1>9, <1>10, <1>12 DEF ISchedules

LEMMA RemoveScheduledKeeps ==
  ASSUME ISchedules, NEW r \in Request, RemoveScheduled(r)
  PROVE  ISchedules'
<1> USE DEF alertVars
<1>1. PICK next \in {"ok", "error"} : Go(r, "removeScheduled", next)
  BY DEF RemoveScheduled
<1>2. /\ Wired' /\ Alone(r) /\ pc[r] = "removeScheduled" /\ pc'[r] = next /\ raced' = raced
  BY <1>1, GoMoves DEF ISchedules
<1>3. /\ Unscheduling(r) /\ ~Ticking(r) /\ ~Ticking(r)' /\ ~Updating(r)' /\ ~Unscheduling(r)'
  BY <1>2 DEF Ticking, Updating, Unscheduling
<1>4. UNCHANGED <<alertVars, mailed, unstored, unwanted, stale>>
  BY DEF RemoveScheduled
<1>5. /\ DOMAIN schedules' \subseteq DOMAIN schedules
      /\ \A s \in DOMAIN schedules' : schedules'[s] = schedules[s]
  BY DEF RemoveScheduled, Without
<1>6. \A q \in Request : HoldsReport(q)'
  <2>1. HoldsReport(r)'
    BY <1>2, <1>3 DEF HoldsReport
  <2> QED
    BY <1>2, <2>1, ReportsHold
<1>7. SchedulesOK' /\ NoAlerts'
  BY <1>4, <1>5 DEF ISchedules, SchedulesOK, NoAlerts
<1>8. TicksOK'
  BY <1>2, <1>3, <1>4, <1>5, TicksStay DEF ISchedules
<1>9. UpdatesOK'
  BY <1>2, <1>3, <1>4, <1>5, UpdatesStay DEF ISchedules
<1>10. \A q \in Request : /\ Ticking(q)' => Ticking(q)
                          /\ Updating(q)' => Updating(q)
                          /\ Unscheduling(q)' => Unscheduling(q)
  BY <1>2, <1>3 DEF Alone, Ticking, Updating, Unscheduling
<1>11. WantedOK'
  BY <1>2, <1>3, <1>4, <1>10, NoTickMeanwhile
<1> QED
  BY <1>2, <1>6, <1>7, <1>8, <1>9, <1>11 DEF ISchedules

\* A next run comes.
LEMMA ComesDueKeeps ==
  ASSUME ISchedules, NEW s \in DOMAIN schedules, ComesDue(s)
  PROVE  ISchedules'
<1> USE DEF alertVars, requestVars
<1>1. s \in Schedule /\ ~AtHand(s)
  BY AtHandInTick DEF ISchedules, SchedulesOK, ComesDue
<1>2. /\ DOMAIN schedules' = DOMAIN schedules /\ schedules'[s] = [schedules[s] EXCEPT !.due = TRUE]
      /\ \A x \in DOMAIN schedules \ {s} : schedules'[x] = schedules[x]
      /\ UNCHANGED <<requestVars, alertVars, unstored, unwanted, stale>>
  BY DEF ComesDue
<1>3. /\ DOMAIN mailed' = Schedule /\ mailed'[s] = 0
      /\ \A x \in Schedule \ {s} : mailed'[x] = mailed[x]
      /\ mailed' \in [Schedule -> Nat]
  BY <1>1 DEF ComesDue, ISchedules, SchedulesOK
<1>4. /\ schedules'[s] \in [frequency : Frequency, due : BOOLEAN, active : BOOLEAN]
      /\ \A x \in DOMAIN schedules :
            /\ schedules'[x].frequency = schedules[x].frequency
            /\ schedules'[x].active = schedules[x].active
  <2>1. schedules[s] \in [frequency : Frequency, due : BOOLEAN, active : BOOLEAN]
    BY DEF ISchedules, SchedulesOK
  <2> QED
    BY <1>2, <2>1
<1>5. SchedulesOK' /\ NoAlerts' /\ Wired'
  <2>1. \A x \in DOMAIN schedules' :
           schedules'[x] \in [frequency : Frequency, due : BOOLEAN, active : BOOLEAN]
    BY <1>2, <1>4 DEF ISchedules, SchedulesOK
  <2> QED
    BY <1>2, <1>3, <2>1 DEF ISchedules, SchedulesOK, NoAlerts, Wired
<1>6. \A q \in Request : HoldsReport(q)'
  BY <1>2 DEF ISchedules, HoldsReport, Ticking, Updating, Unscheduling
<1>7. TicksOK'
  <2>1. ASSUME NEW x \in Schedule \ unstored, OncePerOccasion(x) PROVE OncePerOccasion(x)'
    <3>1. CASE x = s
      BY <1>2, <1>3, <3>1 DEF OncePerOccasion
    <3>2. CASE x # s
      BY <1>2, <1>3, <2>1, <3>2 DEF OncePerOccasion, Ticking
    <3> QED
      BY <3>1, <3>2
  <2> QED
    BY <1>2, <2>1 DEF ISchedules, TicksOK, TicksRaced, Together, Ticking
<1>8. UpdatesOK' /\ WantedOK'
  BY <1>2, <1>4 DEF ISchedules, UpdatesOK, WantedOK, UpdatesRaced, RemovalsRaced, Together,
                    Ticking, Updating, Unscheduling
<1> QED
  BY <1>5, <1>6, <1>7, <1>8 DEF ISchedules

\* A tick begins.
LEMMA TickKeeps ==
  ASSUME ISchedules, NEW r \in Request, Tick(r)
  PROVE  ISchedules'
<1> USE DEF noticeVars, alertVars, scheduleVars
<1>1. PICK due : due = {s \in DOMAIN schedules : schedules[s].due /\ schedules[s].active}
  OBVIOUS
<1>2. PICK h : h = [on |-> "schedules", kind |-> "tick",
                    left |-> [s \in due |-> schedules[s].frequency]]
  OBVIOUS
<1>3. PICK next \in {"ok", "mail"} : Begin(r, next, h, ScheduleRivals) /\ UNCHANGED noticeVars
  BY <1>1, <1>2 DEF Tick
<1>4. /\ "on" \in DOMAIN h /\ "left" \in DOMAIN h
      /\ h.on = "schedules" /\ h.kind = "tick"
      /\ h.left = [s \in due |-> schedules[s].frequency]
  BY <1>2
<1>5. /\ Wired' /\ Alone(r) /\ pc[r] = "new" /\ pc'[r] = next
      /\ next = "mail" => req'[r] = h
      /\ raced \subseteq raced'
  BY <1>3, BeginMoves DEF ISchedules
<1>6. due \subseteq DOMAIN schedules /\ due \subseteq Schedule
  BY <1>1 DEF ISchedules, SchedulesOK
<1>7. \A q \in Request : HoldsReport(q)'
  <2>1. HoldsReport(r)'
    BY <1>4, <1>5, <1>6 DEF HoldsReport, Ticking, Updating, Unscheduling
  <2> QED
    BY <1>5, <2>1, ReportsHold
<1>8. SchedulesOK' /\ NoAlerts'
  BY <1>3 DEF ISchedules, SchedulesOK, NoAlerts
<1>9. ASSUME NEW q \in Request
      PROVE  /\ Ticking(q) => TicksRaced'
             /\ Updating(q) => UpdatesRaced'
             /\ Unscheduling(q) => RemovalsRaced'
  <2>1. CASE Ticking(q) \/ Updating(q) \/ Unscheduling(q)
    <3>1. /\ Busy(q) /\ "on" \in DOMAIN req[q] /\ req[q].on = h.on
          /\ Ticking(q) => req[q].kind = "tick"
          /\ Updating(q) => req[q].kind = "update"
          /\ Unscheduling(q) => req[q].kind = "remove"
      BY <1>4, <2>1 DEF ISchedules, HoldsReport, Ticking, Updating, Unscheduling, Busy
    <3>2. /\ {"tick", "tick"} \in ScheduleRivals /\ {"tick", "update"} \in ScheduleRivals
          /\ {"tick", "remove"} \in ScheduleRivals
      BY DEF ScheduleRivals
    <3>3. Ticking(q) => Together(h.on, "tick", "tick")'
      BY <1>3, <1>4, <3>1, <3>2, BeginRaces
    <3>4. Updating(q) => Together(h.on, "tick", "update")'
      BY <1>3, <1>4, <3>1, <3>2, BeginRaces
    <3>5. Unscheduling(q) => Together(h.on, "tick", "remove")'
      BY <1>3, <1>4, <3>1, <3>2, BeginRaces
    <3> QED
      BY <1>4, <3>3, <3>4, <3>5 DEF TicksRaced, UpdatesRaced, RemovalsRaced
  <2> QED
    BY <2>1
<1>10. \A q \in Request \ {r} : pc'[q] = pc[q] /\ req'[q] = req[q]
  BY <1>5 DEF Alone
<1>11. ~Ticking(r) /\ ~Updating(r)' /\ ~Unscheduling(r)'
  BY <1>5 DEF Ticking, Updating, Unscheduling
<1>12. TicksOK'
  <2>1. CASE TicksRaced'
    BY <2>1 DEF TicksOK
  <2>2. CASE ~TicksRaced'
    <3>1. \A q \in Request : ~Ticking(q) /\ (Ticking(q)' => q = r)
      BY <1>9, <1>10, <2>2 DEF Ticking
    <3>2. \A s \in Schedule \ unstored :
             /\ mailed[s] <= 1
             /\ s \in DOMAIN schedules /\ schedules[s].due => mailed[s] = 0
      BY <1>5, <2>2, <3>1, RacesLast DEF ISchedules, TicksOK, OncePerOccasion, Ticking
    <3>3. Ticking(r)' => DOMAIN req'[r].left = due
      BY <1>4, <1>5 DEF Ticking
    <3>4. \A s \in due : schedules[s].due
      BY <1>1
    <3>5. \A s \in Schedule \ unstored : OncePerOccasion(s)'
      BY <1>3, <1>6, <3>1, <3>2, <3>3, <3>4 DEF OncePerOccasion
    <3> QED
      BY <1>3, <3>1, <3>5 DEF TicksOK
  <2> QED
    BY <2>1, <2>2
<1>13. /\ \A s \in due : schedules[s].active
       /\ \A s \in due : h.left[s] = schedules[s].frequency
       /\ DOMAIN h.left = due
  BY <1>1, <1>4
<1>14. UpdatesOK'
  <2>1. CASE UpdatesRaced'
    BY <2>1 DEF UpdatesOK
  <2>2. CASE ~UpdatesRaced'
    <3>1. \A q \in Request : ~Updating(q) /\ ~Updating(q)'
      BY <1>9, <1>10, <1>11, <2>2 DEF Updating
    <3>2. ASSUME NEW q \in Request, Ticking(q)',
                 NEW s \in DOMAIN req'[q].left, s \in DOMAIN schedules
          PROVE  schedules[s].frequency = req'[q].left[s]
      <4>1. CASE q = r
        BY <1>5, <1>13, <3>2, <4>1 DEF Ticking
      <4>2. CASE q # r
        BY <1>5, <1>10, <2>2, <3>2, <4>2, RacesLast DEF ISchedules, UpdatesOK, Ticking
      <4> QED
        BY <4>1, <4>2
    <3>3. stale' = {}
      BY <1>3, <1>5, <2>2, RacesLast DEF ISchedules, UpdatesOK
    <3> QED
      BY <1>3, <3>1, <3>2, <3>3 DEF UpdatesOK
  <2> QED
    BY <2>1, <2>2
<1>15. WantedOK'
  <2>1. CASE UpdatesRaced' \/ RemovalsRaced'
    BY <2>1 DEF WantedOK
  <2>2. CASE ~(UpdatesRaced' \/ RemovalsRaced')
    <3>1. \A q \in Request : ~Updating(q)' /\ ~Unscheduling(q)'
      BY <1>9, <1>10, <1>11, <2>2 DEF Updating, Unscheduling
    <3>2. ASSUME NEW q \in Request, Ticking(q)', NEW s \in DOMAIN req'[q].left
          PROVE  s \in DOMAIN schedules /\ schedules[s].active
      <4>1. CASE q = r
        BY <1>5, <1>6, <1>13, <3>2, <4>1 DEF Ticking
      <4>2. CASE q # r
        BY <1>5, <1>10, <2>2, <3>2, <4>2, RacesLast DEF ISchedules, WantedOK, Ticking
      <4> QED
        BY <4>1, <4>2
    <3>3. unwanted' = {}
      BY <1>3, <1>5, <2>2, RacesLast DEF ISchedules, WantedOK
    <3> QED
      BY <1>3, <3>1, <3>2, <3>3 DEF WantedOK
  <2> QED
    BY <2>1, <2>2
<1> QED
  BY <1>5, <1>7, <1>8, <1>12, <1>14, <1>15 DEF ISchedules

\* A tick is done with report s, one way or another.
MovesOn(r, s) ==
    /\ Wired' /\ Alone(r) /\ raced' = raced
    /\ pc'[r] \in {"ok", "mail"}
    /\ pc'[r] = "mail" =>
          /\ {"on", "left"} \subseteq DOMAIN req'[r]
          /\ req'[r].on = "schedules" /\ req'[r].kind = "tick"
          /\ DOMAIN req'[r].left = DOMAIN req[r].left \ {s}
          /\ \A x \in DOMAIN req'[r].left : req'[r].left[x] = req[r].left[x]

LEMMA NextReportMoves ==
  ASSUME ISchedules, NEW r \in Request, Ticking(r), NEW s, NextReport(r, s)
  PROVE  MovesOn(r, s)
<1>1. PICK h : h = req[r]
  OBVIOUS
<1>2. "on" \in DOMAIN h /\ h.on = "schedules" /\ h.kind = "tick"
  BY <1>1 DEF ISchedules, HoldsReport
<1>3. CASE DOMAIN h.left = {s}
  <2>1. Go(r, pc[r], "ok")
    BY <1>1, <1>3 DEF NextReport
  <2> QED
    BY <2>1, GoMoves DEF ISchedules, MovesOn
<1>4. CASE DOMAIN h.left # {s}
  <2>1. PICK g : g = [h EXCEPT !.left = Without(h.left, {s})]
    OBVIOUS
  <2>2. DOMAIN g = DOMAIN h /\ g.on = "schedules" /\ g.kind = "tick"
    BY <1>2, <2>1
  <2>3. Hold(r, pc[r], "mail", g)
    BY <1>1, <1>4, <2>1 DEF NextReport, Rest
  <2>4. "left" \in DOMAIN h
    BY <1>1 DEF ISchedules, HoldsReport
  <2>5. g.left = Without(h.left, {s})
    BY <2>1, <2>4
  <2>6. DOMAIN g.left = DOMAIN h.left \ {s} /\ \A x \in DOMAIN g.left : g.left[x] = h.left[x]
    BY <2>5 DEF Without
  <2> QED
    BY <1>1, <1>2, <2>2, <2>3, <2>4, <2>6, HoldMoves DEF ISchedules, MovesOn
<1> QED
  BY <1>3, <1>4

\* What moving on disturbs of the invariant, and what it does not.
LEMMA MovingOn ==
  ASSUME ISchedules, NEW r \in Request, Ticking(r), NEW s, MovesOn(r, s), UNCHANGED alertVars
  PROVE  /\ Wired' /\ NoAlerts'
         /\ \A q \in Request : HoldsReport(q)'
         /\ \A q \in Request \ {r} : pc'[q] = pc[q] /\ req'[q] = req[q]
         /\ ~Updating(r)' /\ ~Unscheduling(r)' /\ pc'[r] # "storeRun"
         /\ Ticking(r)' =>
               /\ DOMAIN req'[r].left = DOMAIN req[r].left \ {s}
               /\ \A x \in DOMAIN req'[r].left : req'[r].left[x] = req[r].left[x]
<1>1. HoldsReport(r)'
  BY DEF ISchedules, HoldsReport, MovesOn, Ticking, Updating, Unscheduling
<1>2. \A q \in Request : HoldsReport(q)'
  BY <1>1, ReportsHold DEF MovesOn
<1> QED
  BY <1>2 DEF ISchedules, NoAlerts, alertVars, MovesOn, Alone, Ticking, Updating, Unscheduling

\* The mail of report s did not go out.
LEMMA MailFailsKeeps ==
  ASSUME ISchedules, NEW r \in Request, MailFails(r)
  PROVE  ISchedules'
<1> USE DEF noticeVars, alertVars, scheduleVars
<1>1. PICK s \in DOMAIN req[r].left : pc[r] = "mail" /\ NextReport(r, s) /\ UNCHANGED noticeVars
  BY DEF MailFails
<1>2. Ticking(r) /\ MovesOn(r, s)
  BY <1>1, NextReportMoves DEF Ticking
<1>3. /\ Wired' /\ NoAlerts'
      /\ \A q \in Request : HoldsReport(q)'
      /\ \A q \in Request \ {r} : pc'[q] = pc[q] /\ req'[q] = req[q]
      /\ ~Updating(r)' /\ ~Unscheduling(r)' /\ pc'[r] # "storeRun"
      /\ Ticking(r)' =>
            /\ DOMAIN req'[r].left = DOMAIN req[r].left \ {s}
            /\ \A x \in DOMAIN req'[r].left : req'[r].left[x] = req[r].left[x]
  BY <1>1, <1>2, MovingOn
<1>4. Alone(r) /\ raced' = raced
  BY <1>2 DEF MovesOn
<1>5. SchedulesOK'
  BY <1>1 DEF ISchedules, SchedulesOK
<1>6. UpdatesOK' /\ WantedOK'
  BY <1>1, <1>2, <1>3, <1>4, UpdatesStay, WantedStays DEF ISchedules
<1>7. TicksOK'
  <2>1. ASSUME NEW x, OncePerOccasion(x) PROVE OncePerOccasion(x)'
    BY <1>1, <1>2, <1>3, <2>1 DEF OncePerOccasion, Ticking
  <2> QED
    BY <1>1, <1>2, <1>3, <1>4, <2>1 DEF ISchedules, TicksOK, TicksRaced, Together, Ticking
<1> QED
  BY <1>3, <1>5, <1>6, <1>7 DEF ISchedules

LEMMA MailKeeps ==
  ASSUME ISchedules, NEW r \in Request, Mail(r)
  PROVE  ISchedules'
<1> USE DEF alertVars
<1>1. PICK h : h = req[r]
  OBVIOUS
<1>2. PICK s \in DOMAIN h.left :
         /\ Hold(r, "mail", "storeRun",
                 [on |-> h.on, kind |-> h.kind, left |-> h.left, now |-> s])
         /\ mailed' = [mailed EXCEPT ![s] = @ + 1]
         /\ unwanted' = IF s \in DOMAIN schedules /\ schedules[s].active
                        THEN unwanted ELSE unwanted \cup {s}
  BY <1>1 DEF Mail
<1>3. UNCHANGED <<alertVars, schedules, unstored, stale>> /\ pc[r] = "mail" /\ Ticking(r)
  BY DEF Mail, Ticking
<1>4. /\ "on" \in DOMAIN h /\ h.on = "schedules" /\ h.kind = "tick"
      /\ DOMAIN h.left \subseteq Schedule
  BY <1>1, <1>3 DEF ISchedules, HoldsReport
<1>5. PICK g : g = [on |-> h.on, kind |-> h.kind, left |-> h.left, now |-> s]
  OBVIOUS
<1>6. /\ {"on", "left"} \subseteq DOMAIN g /\ g.on = "schedules" /\ g.kind = "tick"
      /\ g.left = h.left /\ g.now = s
  BY <1>4, <1>5
<1>7. /\ Wired' /\ Alone(r) /\ pc'[r] = "storeRun" /\ req'[r] = g /\ raced' = raced
  BY <1>2, <1>5, HoldMoves DEF ISchedules
<1>8. \A q \in Request : HoldsReport(q)'
  <2>1. HoldsReport(r)'
    BY <1>2, <1>4, <1>6, <1>7 DEF HoldsReport, Ticking, Updating, Unscheduling
  <2> QED
    BY <1>7, <2>1, ReportsHold
<1>9. /\ mailed' \in [Schedule -> Nat] /\ mailed'[s] = mailed[s] + 1
      /\ \A x \in Schedule \ {s} : mailed'[x] = mailed[x]
  BY <1>2, <1>4 DEF ISchedules, SchedulesOK
<1>10. SchedulesOK' /\ NoAlerts'
  BY <1>3, <1>9 DEF ISchedules, SchedulesOK, NoAlerts
<1>11. \A q \in Request \ {r} : pc'[q] = pc[q] /\ req'[q] = req[q]
  BY <1>7 DEF Alone
<1>12. /\ Ticking(r)' /\ ~Updating(r)' /\ ~Unscheduling(r)' /\ req'[r].left = req[r].left
  BY <1>1, <1>6, <1>7 DEF Ticking, Updating, Unscheduling
<1>13. TicksOK'
  <2>1. CASE TicksRaced
    BY <1>7, <2>1 DEF TicksOK, TicksRaced, Together
  <2>2. CASE ~TicksRaced
    <3>1. \A q \in Request : Ticking(q) => q = r
      BY <1>3, <2>2 DEF ISchedules, TicksOK
    <3>2. \A q \in Request : Ticking(q)' => q = r
      BY <1>11, <3>1 DEF Ticking
    <3>3. ASSUME NEW x \in Schedule \ unstored PROVE OncePerOccasion(x)'
      <4>1. OncePerOccasion(x)
        BY <2>2 DEF ISchedules, TicksOK
      <4>2. CASE x = s
        <5>1. mailed[x] = 0
          BY <1>1, <1>2, <1>3, <4>1, <4>2 DEF OncePerOccasion
        <5>2. mailed'[x] = 1
          BY <1>9, <4>2, <5>1
        <5>3. pc'[r] = "storeRun" /\ req'[r].now = x
          BY <1>6, <1>7, <4>2
        <5> QED
          BY <3>2, <5>2, <5>3 DEF OncePerOccasion
      <4>3. CASE x # s
        <5>1. mailed'[x] = mailed[x]
          BY <1>9, <4>3
        <5>2. x \in DOMAIN req[r].left => mailed[x] = 0
          BY <1>3, <4>1 DEF OncePerOccasion
        <5>3. x \in DOMAIN schedules /\ schedules[x].due => mailed[x] = 0
          BY <1>3, <3>1, <4>1 DEF OncePerOccasion, Ticking
        <5> QED
          BY <1>3, <1>12, <3>2, <4>1, <5>1, <5>2, <5>3 DEF OncePerOccasion
      <4> QED
        BY <4>2, <4>3
    <3> QED
      BY <1>3, <3>2, <3>3 DEF TicksOK
  <2> QED
    BY <2>1, <2>2
<1>14. UpdatesOK'
  BY <1>3, <1>7, <1>12, UpdatesStay DEF ISchedules
<1>15. WantedOK'
  <2>1. CASE UpdatesRaced \/ RemovalsRaced
    BY <1>7, <2>1, RacesLast DEF WantedOK
  <2>2. CASE ~(UpdatesRaced \/ RemovalsRaced)
    <3>1. s \in DOMAIN schedules /\ schedules[s].active
      BY <1>1, <1>2, <1>3, <2>2 DEF ISchedules, WantedOK
    <3>2. unwanted' = unwanted
      BY <1>2, <3>1
    <3> QED
      BY <1>3, <1>7, <1>12, <3>2, WantedStays DEF ISchedules
  <2> QED
    BY <2>1, <2>2
<1> QED
  BY <1>7, <1>8, <1>10, <1>13, <1>14, <1>15 DEF ISchedules

\* The next run is stored.
LEMMA StoreRunKeeps ==
  ASSUME ISchedules, NEW r \in Request, StoreRun(r)
  PROVE  ISchedules'
<1> USE DEF alertVars
<1>1. PICK s : s = req[r].now
  OBVIOUS
<1>2. /\ Ticking(r) /\ pc[r] = "storeRun" /\ NextReport(r, s) /\ s \in DOMAIN req[r].left
      /\ UNCHANGED <<alertVars, mailed, unstored, unwanted>>
  BY <1>1 DEF StoreRun, Ticking, ISchedules, HoldsReport
<1>3. MovesOn(r, s)
  BY <1>2, NextReportMoves
<1>4. /\ Wired' /\ NoAlerts'
      /\ \A q \in Request : HoldsReport(q)'
      /\ \A q \in Request \ {r} : pc'[q] = pc[q] /\ req'[q] = req[q]
      /\ ~Updating(r)' /\ ~Unscheduling(r)' /\ pc'[r] # "storeRun"
      /\ Ticking(r)' =>
            /\ DOMAIN req'[r].left = DOMAIN req[r].left \ {s}
            /\ \A x \in DOMAIN req'[r].left : req'[r].left[x] = req[r].left[x]
  BY <1>2, <1>3, MovingOn
<1>5. Alone(r) /\ raced' = raced
  BY <1>3 DEF MovesOn
<1>6. /\ DOMAIN schedules' = DOMAIN schedules
      /\ s \in DOMAIN schedules => schedules'[s] = [schedules[s] EXCEPT !.due = FALSE]
      /\ \A x \in DOMAIN schedules \ {s} : schedules'[x] = schedules[x]
  BY <1>1 DEF StoreRun
<1>7. /\ \A x \in DOMAIN schedules :
            /\ schedules'[x] \in [frequency : Frequency, due : BOOLEAN, active : BOOLEAN]
            /\ schedules'[x].frequency = schedules[x].frequency
            /\ schedules'[x].active = schedules[x].active
            /\ schedules'[x].due => schedules[x].due /\ x # s
  <2>1. \A x \in DOMAIN schedules :
           schedules[x] \in [frequency : Frequency, due : BOOLEAN, active : BOOLEAN]
    BY DEF ISchedules, SchedulesOK
  <2> QED
    BY <1>6, <2>1
<1>8. SchedulesOK'
  BY <1>2, <1>6, <1>7 DEF ISchedules, SchedulesOK
<1>9. UpdatesOK'
  <2>1. CASE UpdatesRaced
    BY <1>5, <2>1, RacesLast DEF UpdatesOK
  <2>2. CASE ~UpdatesRaced
    <3>1. s \in DOMAIN schedules => schedules[s].frequency = req[r].left[s]
      BY <1>2, <2>2 DEF ISchedules, UpdatesOK
    <3>2. stale' = stale
      BY <1>1, <3>1 DEF StoreRun
    <3> QED
      BY <1>2, <1>4, <1>5, <1>6, <1>7, <3>2, UpdatesStay DEF ISchedules
  <2> QED
    BY <2>1, <2>2
<1>10. WantedOK'
  BY <1>2, <1>4, <1>5, <1>6, <1>7, WantedStays DEF ISchedules
<1>11. TicksOK'
  <2>1. CASE TicksRaced
    BY <1>5, <2>1, RacesLast DEF TicksOK
  <2>2. CASE ~TicksRaced
    <3>1. \A q \in Request : Ticking(q) => q = r
      BY <1>2, <2>2 DEF ISchedules, TicksOK
    <3>2. \A q \in Request : Ticking(q)' => q = r
      BY <1>4, <3>1 DEF Ticking
    <3>3. ASSUME NEW x \in Schedule \ unstored PROVE OncePerOccasion(x)'
      <4>1. OncePerOccasion(x)
        BY <2>2 DEF ISchedules, TicksOK
      <4>2. Ticking(r)' /\ x \in DOMAIN req'[r].left => mailed[x] = 0
        BY <1>1, <1>2, <1>4, <4>1 DEF OncePerOccasion
      <4>3. x \in DOMAIN schedules' /\ schedules'[x].due => mailed[x] = 0
        BY <1>1, <1>6, <1>7, <3>1, <4>1 DEF OncePerOccasion, Ticking
      <4> QED
        BY <1>2, <3>2, <4>1, <4>2, <4>3 DEF OncePerOccasion
    <3> QED
      BY <1>2, <3>2, <3>3 DEF TicksOK
  <2> QED
    BY <2>1, <2>2
<1> QED
  BY <1>4, <1>8, <1>9, <1>10, <1>11 DEF ISchedules

\* The next run is refused.
LEMMA RunNotStoredKeeps ==
  ASSUME ISchedules, NEW r \in Request, RunNotStored(r)
  PROVE  ISchedules'
<1> USE DEF alertVars
<1>1. PICK s, h : s = req[r].now /\ h = req[r]
  OBVIOUS
<1>2. /\ Ticking(r) /\ pc[r] = "storeRun" /\ s \in DOMAIN h.left
      /\ "on" \in DOMAIN h /\ "left" \in DOMAIN h /\ h.on = "schedules" /\ h.kind = "tick"
      /\ unstored' = unstored \cup {s}
      /\ UNCHANGED <<raced, alertVars, schedules, mailed, unwanted, stale>>
  BY <1>1 DEF RunNotStored, Ticking, ISchedules, HoldsReport
<1>3. MovesOn(r, s)
  <2>1. PICK g : g = Rest(h, s)
    OBVIOUS
  <2>2. /\ pc' = [pc EXCEPT ![r] = IF DOMAIN h.left # {s} THEN "mail" ELSE "ok"]
        /\ req' = [req EXCEPT ![r] = IF DOMAIN h.left # {s} THEN g ELSE Nothing]
    BY <1>1, <2>1 DEF RunNotStored
  <2>3. /\ DOMAIN g = DOMAIN h /\ g.on = "schedules" /\ g.kind = "tick"
        /\ g.left = Without(h.left, {s})
    BY <1>2, <2>1 DEF Rest
  <2>4. DOMAIN g.left = DOMAIN h.left \ {s} /\ \A x \in DOMAIN g.left : g.left[x] = h.left[x]
    BY <2>3 DEF Without
  <2>5. Wired' /\ Alone(r)
    BY <2>2 DEF ISchedules, Wired, Alone
  <2>6. pc'[r] \in {"ok", "mail"} /\ (pc'[r] = "mail" => req'[r] = g)
    BY <2>2 DEF ISchedules, Wired
  <2> QED
    BY <1>1, <1>2, <2>3, <2>4, <2>5, <2>6 DEF MovesOn
<1>4. /\ Wired' /\ NoAlerts'
      /\ \A q \in Request : HoldsReport(q)'
      /\ \A q \in Request \ {r} : pc'[q] = pc[q] /\ req'[q] = req[q]
      /\ ~Updating(r)' /\ ~Unscheduling(r)' /\ pc'[r] # "storeRun"
      /\ Ticking(r)' =>
            /\ DOMAIN req'[r].left = DOMAIN req[r].left \ {s}
            /\ \A x \in DOMAIN req'[r].left : req'[r].left[x] = req[r].left[x]
  BY <1>2, <1>3, MovingOn
<1>5. Alone(r) /\ raced' = raced
  BY <1>3 DEF MovesOn
<1>6. SchedulesOK'
  BY <1>2 DEF ISchedules, SchedulesOK
<1>7. UpdatesOK' /\ WantedOK'
  BY <1>2, <1>4, <1>5, UpdatesStay, WantedStays DEF ISchedules
<1>8. TicksOK'
  <2>1. ASSUME NEW x \in Schedule \ unstored', OncePerOccasion(x) PROVE OncePerOccasion(x)'
    <3>1. x # s
      BY <1>2, <2>1
    <3> QED
      BY <1>1, <1>2, <1>4, <2>1, <3>1 DEF OncePerOccasion, Ticking
  <2> QED
    BY <1>2, <1>4, <1>5, <2>1 DEF ISchedules, TicksOK, TicksRaced, Together, Ticking
<1> QED
  BY <1>4, <1>6, <1>7, <1>8 DEF ISchedules

\* The database refuses a statement of a request that is no tick, or the process dies.
LEMMA ReportRequestsEnd ==
  ASSUME ISchedules,
         \/ \E r \in Request : Fail(r) /\ req[r].kind # "tick" /\ UNCHANGED noticeVars
         \/ /\ Halt
            /\ unstored' = unstored \cup {req[r].now : r \in {q \in Request : pc[q] = "storeRun"}}
            /\ UNCHANGED <<alertVars, schedules, mailed, unwanted, stale>>
  PROVE  ISchedules'
<1> USE DEF noticeVars, alertVars, scheduleVars
<1>1. ASSUME NEW r \in Request, Fail(r), req[r].kind # "tick", UNCHANGED noticeVars
      PROVE  ISchedules'
  <2>1. Wired' /\ Alone(r) /\ pc'[r] = "error" /\ raced' = raced
    BY <1>1, FailMoves DEF ISchedules
  <2>2. ~Ticking(r) /\ ~Ticking(r)' /\ ~Updating(r)' /\ ~Unscheduling(r)'
    BY <1>1, <2>1 DEF ISchedules, HoldsReport, Ticking, Updating, Unscheduling
  <2>3. \A q \in Request : HoldsReport(q)'
    <3>1. HoldsReport(r)'
      BY <2>1, <2>2 DEF HoldsReport
    <3> QED
      BY <2>1, <3>1, ReportsHold
  <2>4. SchedulesOK' /\ NoAlerts'
    BY <1>1 DEF ISchedules, SchedulesOK, NoAlerts
  <2>5. TicksOK' /\ UpdatesOK' /\ WantedOK'
    BY <1>1, <2>1, <2>2, TicksStay, UpdatesStay, WantedStays DEF ISchedules
  <2> QED
    BY <2>1, <2>3, <2>4, <2>5 DEF ISchedules
<1>2. ASSUME Halt,
             unstored' = unstored \cup {req[r].now : r \in {q \in Request : pc[q] = "storeRun"}},
             UNCHANGED <<alertVars, schedules, mailed, unwanted, stale>>
      PROVE  ISchedules'
  <2>1. /\ Wired' /\ raced' = raced
        /\ \A q \in Request : ~Busy(q)' /\ (~Busy(q) => pc'[q] = pc[q])
    BY <1>2, HaltMoves DEF ISchedules
  <2>2. \A q \in Request : pc'[q] \in Answered \cup {"new"}
    BY <2>1 DEF Busy
  <2>3. \A q \in Request : HoldsReport(q)' /\ ~Ticking(q)' /\ ~Updating(q)' /\ ~Unscheduling(q)'
    BY <2>2 DEF HoldsReport, Ticking, Updating, Unscheduling
  <2>4. SchedulesOK' /\ NoAlerts' /\ UpdatesOK' /\ WantedOK'
    BY <1>2, <2>1, <2>3, RacesLast
       DEF ISchedules, SchedulesOK, NoAlerts, UpdatesOK, WantedOK
  <2>5. TicksOK'
    <3>1. ASSUME NEW s \in Schedule \ unstored', OncePerOccasion(s) PROVE OncePerOccasion(s)'
      <4>1. ~\E r \in Request : pc[r] = "storeRun" /\ req[r].now = s
        BY <1>2, <3>1
      <4> QED
        BY <1>2, <2>3, <3>1, <4>1 DEF OncePerOccasion
    <3> QED
      BY <1>2, <2>1, <2>3, <3>1, RacesLast DEF ISchedules, TicksOK
  <2> QED
    BY <2>1, <2>3, <2>4, <2>5 DEF ISchedules
<1> QED
  BY <1>1, <1>2

LEMMA SchedulesStepKeeps ==
  ASSUME ISchedules, SchedulesNext \/ UNCHANGED <<requestVars, noticeVars>>
  PROVE  ISchedules'
<1>1. CASE UNCHANGED <<requestVars, noticeVars>>
  <2> USE <1>1 DEF requestVars, noticeVars, alertVars, scheduleVars
  <2>1. Wired' /\ NoAlerts' /\ SchedulesOK' /\ \A r \in Request : HoldsReport(r)'
    BY DEF ISchedules, Wired, NoAlerts, SchedulesOK, HoldsReport, Ticking, Updating, Unscheduling
  <2>2. TicksOK'
    BY DEF ISchedules, TicksOK, OncePerOccasion, TicksRaced, Together, Ticking
  <2>3. UpdatesOK' /\ WantedOK'
    BY DEF ISchedules, UpdatesOK, WantedOK, UpdatesRaced, RemovalsRaced, Together,
           Ticking, Updating, Unscheduling
  <2> QED
    BY <2>1, <2>2, <2>3 DEF ISchedules
<1>2. CASE SchedulesNext
  BY <1>2, ScheduleReportKeeps, FindScheduledKeeps, ChangeScheduledKeeps, RemoveScheduledKeeps,
     ComesDueKeeps, TickKeeps, MailKeeps, MailFailsKeeps, StoreRunKeeps, RunNotStoredKeeps,
     ReportRequestsEnd
     DEF SchedulesNext
<1> QED
  BY <1>1, <1>2

\* Nobody is told of an item again within the hour unless two checks were under way
\* together, the earlier notification is gone or the item's sku is another one, nor
\* passed over unless for an alert that contains its sku; nobody is mailed twice or
\* against their wish, or given a wrong next run, unless something else was under way
\* (sendLowStockAlerts, runDueReports).
THEOREM NoticesAreExplained == NoticesSpec => []NoticesExplained
<1>1. ASSUME RequestInit, NoticesInit({{}}) PROVE IAlerts
  BY <1>1, AlertsInitial
<1>2. ASSUME RequestInit, NoticesInit(SUBSET Schedule) PROVE ISchedules
  BY <1>2, SchedulesInitial
<1>3. IAlerts /\ [AlertsNext]_<<requestVars, noticeVars>> => IAlerts'
  BY AlertsStepKeeps
<1>4. ISchedules /\ [SchedulesNext]_<<requestVars, noticeVars>> => ISchedules'
  BY SchedulesStepKeeps
<1> QED
  BY <1>1, <1>2, <1>3, <1>4, AlertsImply, SchedulesImply, PTL DEF NoticesSpec
-----------------------------------------------------------------------------
IOffice ==
    /\ IF desk = "accounts" THEN IAccounts ELSE AccountsInit({Staff})
    /\ IF desk = "products" THEN IGoods /\ IForest ELSE CatalogInit /\ ProductsInit
    /\ IF desk = "defaults" THEN IDefaults ELSE DefaultsInit
    /\ desk = "alerts" => IAlerts
    /\ desk = "schedules" => ISchedules
    /\ desk \notin {"alerts", "schedules"} => NoReports /\ NoAlerts
    /\ IF desk = "cash" THEN ICash ELSE CashInit
    /\ IF desk = "composites" THEN IHalves ELSE CompositesInit
    /\ IF desk = "backups" THEN IBackups ELSE BackupsInit
    /\ IF desk \in DOMAIN Service THEN IRecords ELSE RecordsInit({})
    /\ IF desk = "reports" THEN IReports ELSE readings = {}

\* At rest, a service is as it was in the beginning.
LEMMA AtRest ==
  /\ AccountsInit({Staff}) => WrongPasswordsCount /\ TokenReuseNeedsOverlap /\ LastAdminExplained
  /\ CatalogInit /\ ProductsInit =>
        /\ UnitsHaveTwoLevels /\ SkusAreUnique /\ StaleListExplained /\ ImagesExplained
        /\ CategoriesFormAForest
  /\ CashInit => OneOpenSession /\ ClosingReconciles
  /\ DefaultsInit => DefaultsExplained /\ GroupTaxesAsAsked
  /\ NoReports /\ NoAlerts => NoticesExplained
  /\ CompositesInit => HalvesExplained
  /\ BackupsInit => BackupsExplained
  /\ RecordsInit({}) => KeysExplained /\ PostingsExplained
  /\ readings = {} => StatementsAgree
<1>1. ASSUME AccountsInit({Staff})
      PROVE  WrongPasswordsCount /\ TokenReuseNeedsOverlap /\ LastAdminExplained
  <2>1. /\ \A u \in Existing : users[u].attempts = 0 /\ users[u].lock = "no" /\ wrong[u] = 0
        /\ uses = {} /\ ActiveAdmins # {}
    <3>1. DOMAIN users = Staff
      BY <1>1 DEF AccountsInit
    <3>2. ASSUME NEW u \in Staff
          PROVE  /\ users[u].attempts = 0 /\ users[u].lock = "no"
                 /\ users[u].admin = (u \in Staff)
                 /\ users[u].active = TRUE /\ users[u].here = TRUE
      <4>1. PICK p : p = CHOOSE x \in Password : TRUE
        OBVIOUS
      <4>2. users = [v \in Staff |->
              [email |-> IF v = Owner THEN Address ELSE NoEmail, admin |-> v \in Staff,
               active |-> TRUE, here |-> TRUE, pw |-> p, attempts |-> 0, lock |-> "no",
               reset |-> 0, resetLive |-> FALSE, verify |-> 0, verified |-> v # Owner]]
        BY <1>1, <4>1 DEF AccountsInit
      <4> QED
        BY <4>2
    <3>3. uses = {} /\ \A u \in Staff : wrong[u] = 0
      BY <1>1, AccountAssumption DEF AccountsInit
    <3> QED
      BY <3>1, <3>2, <3>3, AccountAssumption DEF Existing, Active, Ours, Callers, ActiveAdmins
  <2> QED
    BY <2>1, AccountAssumption
       DEF WrongPasswordsCount, TokenReuseNeedsOverlap, LastAdminExplained
<1>2. ASSUME CatalogInit, ProductsInit
      PROVE  /\ UnitsHaveTwoLevels /\ SkusAreUnique /\ StaleListExplained /\ ImagesExplained
             /\ CategoriesFormAForest
  BY <1>2, GoodsAtFirst, RootsAtFirst
<1>3. CashInit => OneOpenSession /\ ClosingReconciles
  BY DEF CashInit, OneOpenSession, ClosingReconciles, OpenSessions, Sessions
<1>4. ASSUME DefaultsInit PROVE DefaultsExplained /\ GroupTaxesAsAsked
  <2>1. PICK s : s = CHOOSE x \in Setting : TRUE
    OBVIOUS
  <2>2. settings = [t \in SettingTables |-> [x \in {s} |-> [default |-> TRUE, live |-> TRUE]]]
    BY <1>4, <2>1 DEF DefaultsInit
  <2>3. \A t \in SettingTables : Marked(t) = {s}
    BY <2>2 DEF Marked, SettingsInUse
  <2>4. DefaultsExplained
    BY <2>3 DEF DefaultsExplained
  <2> QED
    BY <1>4, <2>4 DEF DefaultsInit, GroupTaxesAsAsked
<1>5. NoReports /\ NoAlerts => NoticesExplained
  <2>1. NoReports => \A s \in Schedule : ~(mailed[s] > 1)
    BY DEF NoReports
  <2> QED
    BY <2>1 DEF NoReports, NoAlerts, NoticesExplained
<1>6. CompositesInit => HalvesExplained
  BY DEF CompositesInit, HalvesExplained
<1>7. BackupsInit => BackupsExplained
  BY DEF BackupsInit, BackupsExplained
<1>8. ASSUME RecordsInit({}) PROVE KeysExplained /\ PostingsExplained
  <2>1. DOMAIN rows = {} /\ lost = {} /\ late = {}
    BY <1>8 DEF RecordsInit
  <2> QED
    BY <2>1 DEF KeysExplained, PostingsExplained, InUse, RowsOf
<1>9. readings = {} => StatementsAgree
  BY DEF StatementsAgree
<1> QED
  BY <1>1, <1>2, <1>3, <1>4, <1>5, <1>6, <1>7, <1>8, <1>9

LEMMA OfficeImplies ==
  IOffice => /\ WrongPasswordsCount /\ TokenReuseNeedsOverlap /\ LastAdminExplained
             /\ UnitsHaveTwoLevels /\ SkusAreUnique /\ StaleListExplained /\ ImagesExplained
             /\ CategoriesFormAForest
             /\ OneOpenSession /\ ClosingReconciles
             /\ DefaultsExplained /\ GroupTaxesAsAsked /\ NoticesExplained
             /\ HalvesExplained /\ BackupsExplained
             /\ KeysExplained /\ PostingsExplained /\ StatementsAgree
BY AtRest, AccountsImply, GoodsImply, ForestImplies, CashImplies, DefaultsImply, AlertsImply,
   SchedulesImply, HalvesImply, BackupsImply, RecordsImply, ReportsImply DEF IOffice

LEMMA OfficeInitial == Init => IOffice
<1> SUFFICES ASSUME Init PROVE IOffice
  OBVIOUS
<1>1. PICK kepts : NoticesInit(kepts) /\ (desk = "schedules" => kepts = SUBSET Schedule)
  BY DEF Init, At
<1>2. /\ desk = "alerts" => IAlerts
      /\ NoReports /\ NoAlerts
  BY <1>1, AlertsInitial DEF Init, NoticesInit, NoReports, NoAlerts
<1>3. desk = "schedules" => ISchedules
  BY <1>1, SchedulesInitial DEF Init
<1>4. IF desk \in DOMAIN Service THEN IRecords ELSE RecordsInit({})
  BY RecordsInitial DEF Init
<1>5. IF desk = "reports" THEN IReports ELSE readings = {}
  BY ReportsInitial DEF Init, At, ReportsInit
<1>6. IF desk = "accounts" THEN IAccounts ELSE AccountsInit({Staff})
  BY AccountsInitial DEF Init, At
<1> QED
  BY <1>2, <1>3, <1>4, <1>5, <1>6, GoodsInitial, ForestInitial, CashInitial,
     DefaultsInitial, HalvesInitial, BackupsInitial DEF Init, IOffice

\* Tables that nobody writes stay as they were in the beginning.
LEMMA RestStays ==
  /\ AccountsInit({Staff}) /\ UNCHANGED accountVars => AccountsInit({Staff})'
  /\ CatalogInit /\ ProductsInit /\ UNCHANGED goodsVars => CatalogInit' /\ ProductsInit'
  /\ CashInit /\ UNCHANGED registers => CashInit'
  /\ DefaultsInit /\ UNCHANGED defaultVars => DefaultsInit'
  /\ NoReports /\ NoAlerts /\ UNCHANGED noticeVars => NoReports' /\ NoAlerts'
  /\ CompositesInit /\ UNCHANGED compositeVars => CompositesInit'
  /\ BackupsInit /\ UNCHANGED backupVars => BackupsInit'
  /\ RecordsInit({}) /\ UNCHANGED recordVars => RecordsInit({})'
  /\ UNCHANGED reportVars => readings' = readings
<1>1. AccountsInit({Staff}) /\ UNCHANGED accountVars => AccountsInit({Staff})'
  BY DEF AccountsInit, accountVars
<1>2. CatalogInit /\ ProductsInit /\ UNCHANGED goodsVars => CatalogInit' /\ ProductsInit'
  BY DEF CatalogInit, ProductsInit, goodsVars, catalogVars, productVars, listVars
<1>3. DefaultsInit /\ UNCHANGED defaultVars => DefaultsInit'
  BY DEF DefaultsInit, defaultVars, settingVars, groupVars
<1>4. NoReports /\ NoAlerts /\ UNCHANGED noticeVars => NoReports' /\ NoAlerts'
  BY DEF NoReports, NoAlerts, noticeVars, alertVars, scheduleVars
<1>5. CashInit /\ UNCHANGED registers => CashInit'
  BY DEF CashInit
<1>6. CompositesInit /\ UNCHANGED compositeVars => CompositesInit'
  BY DEF CompositesInit, compositeVars
<1>7. BackupsInit /\ UNCHANGED backupVars => BackupsInit'
  BY DEF BackupsInit, backupVars
<1>8. RecordsInit({}) /\ UNCHANGED recordVars => RecordsInit({})'
  BY DEF RecordsInit, recordVars
<1>9. UNCHANGED reportVars => readings' = readings
  BY DEF reportVars
<1> QED
  BY <1>1, <1>2, <1>3, <1>4, <1>5, <1>6, <1>7, <1>8, <1>9

LEMMA OfficeStepKeeps == IOffice /\ [Next]_vars => IOffice'
<1> SUFFICES ASSUME IOffice, [Next]_vars PROVE IOffice'
  OBVIOUS
<1>0. {"accounts", "products", "cash", "defaults", "alerts", "schedules", "composites",
       "backups", "reports"} \cap DOMAIN Service = {}
  BY DEF Service
<1>1. CASE AtAccounts
  BY <1>0, <1>1, AccountsStepKeeps, RestStays DEF AtAccounts, IOffice
<1>2. CASE AtProducts
  BY <1>0, <1>2, GoodsStepKeeps, ForestStepKeeps, RestStays DEF AtProducts, IOffice
<1>3. CASE AtCash
  BY <1>0, <1>3, CashStepKeeps, RestStays DEF AtCash, IOffice
<1>4. CASE AtDefaults
  BY <1>0, <1>4, DefaultsStepKeeps, RestStays DEF AtDefaults, IOffice
<1>5. CASE AtNotices
  BY <1>0, <1>5, AlertsStepKeeps, SchedulesStepKeeps, RestStays DEF AtNotices, IOffice
<1>6. CASE AtComposites
  BY <1>0, <1>6, HalvesStepKeeps, RestStays DEF AtComposites, IOffice
<1>7. CASE AtBackups
  BY <1>0, <1>7, BackupsStepKeeps, RestStays DEF AtBackups, IOffice
<1>8. CASE AtRecords
  <2>1. IRecords /\ [RecordsNext(desk)]_<<requestVars, recordVars>> /\ UNCHANGED desk
    BY <1>8 DEF AtRecords, IOffice
  <2>2. IRecords'
    BY <2>1, RecordsStepKeeps
  <2> QED
    BY <1>0, <1>8, <2>2, RestStays DEF AtRecords, IOffice
<1>9. CASE AtReports
  BY <1>0, <1>9, ReportsStepKeeps, RestStays DEF AtReports, IOffice
<1>10. CASE UNCHANGED vars
  <2>1. UNCHANGED <<requestVars, accountVars, goodsVars, registers, defaultVars, noticeVars,
                    compositeVars, backupVars, recordVars, reportVars, desk>>
    BY <1>10 DEF vars
  <2>2. /\ UNCHANGED <<requestVars, accountVars>> /\ UNCHANGED <<requestVars, goodsVars>>
        /\ UNCHANGED <<requestVars, registers>> /\ UNCHANGED <<requestVars, defaultVars>>
        /\ UNCHANGED <<requestVars, noticeVars>> /\ UNCHANGED <<requestVars, compositeVars>>
        /\ UNCHANGED <<requestVars, backupVars>> /\ UNCHANGED <<requestVars, recordVars>>
        /\ UNCHANGED <<requestVars, reportVars>>
    BY <2>1
  <2>3. IAccounts => IAccounts'
    BY <2>2, AccountsStepKeeps
  <2>4. (IGoods => IGoods') /\ (IForest => IForest')
    BY <2>2, GoodsStepKeeps, ForestStepKeeps
  <2>5. ICash => ICash'
    BY <2>2, CashStepKeeps
  <2>6. IDefaults => IDefaults'
    BY <2>2, DefaultsStepKeeps
  <2>7. (IAlerts => IAlerts') /\ (ISchedules => ISchedules')
    BY <2>2, AlertsStepKeeps, SchedulesStepKeeps
  <2>8. IHalves => IHalves'
    BY <2>2, HalvesStepKeeps
  <2>9. IBackups => IBackups'
    BY <2>2, BackupsStepKeeps
  <2>10. IRecords => IRecords'
    BY <2>2, RecordsStill
  <2>11. IReports => IReports'
    BY <2>2, ReportsStepKeeps
  <2> QED
    BY <2>1, <2>3, <2>4, <2>5, <2>6, <2>7, <2>8, <2>9, <2>10, <2>11, RestStays DEF IOffice
<1> QED
  BY <1>1, <1>2, <1>3, <1>4, <1>5, <1>6, <1>7, <1>8, <1>9, <1>10 DEF Next

LEMMA OfficeInvariant == Spec => []IOffice
<1>1. Init => IOffice
  BY OfficeInitial
<1>2. IOffice /\ [Next]_vars => IOffice'
  BY OfficeStepKeeps
<1> QED
  BY <1>1, <1>2, PTL DEF Spec
------------------------------------------------------------------------------
\* Whichever desk the clients turn to, the lockout counts every wrong password since
\* the last right one, unless two logins of the user were checked at a time
\* (AuthService.login).
THEOREM OfficeCountsWrongPasswords == Spec => []WrongPasswordsCount
<1>1. IOffice => WrongPasswordsCount
  BY OfficeImplies
<1> QED
  BY <1>1, OfficeInvariant, PTL

\* Whichever desk the clients turn to, a reset token is used again only by who found it
\* before it was used (AuthService.resetPassword).
THEOREM OfficeUsesTokensOnce == Spec => []TokenReuseNeedsOverlap
<1>1. IOffice => TokenReuseNeedsOverlap
  BY OfficeImplies
<1> QED
  BY <1>1, OfficeInvariant, PTL

\* Whichever desk the clients turn to, there is an active admin, unless one was
\* disabled or a deletion counted somebody who had gone by then (UsersService.remove,
\* toggleActive, update).
THEOREM OfficeKeepsAnAdmin == Spec => []LastAdminExplained
<1>1. IOffice => LastAdminExplained
  BY OfficeImplies
<1> QED
  BY <1>1, OfficeInvariant, PTL

\* Whichever desk the clients turn to, a cashier has one open session, unless the
\* cashier opened two at a time (CashRegisterService.openRegister).
THEOREM OfficeOpensOneSession == Spec => []OneOpenSession
<1>1. IOffice => OneOpenSession
  BY OfficeImplies
<1> QED
  BY <1>1, OfficeInvariant, PTL

\* Whichever desk the clients turn to, a closed session was closed once with the amount
\* its rows add up to, unless another closing or a movement was under way with the
\* closing (closeRegister, addTransaction).
THEOREM OfficeReconcilesClosings == Spec => []ClosingReconciles
<1>1. IOffice => ClosingReconciles
  BY OfficeImplies
<1> QED
  BY <1>1, OfficeInvariant, PTL

\* Whichever desk the clients turn to, adjustments add up and founders are in their
\* businesses, unless being made, cut short, or twice a founder
\* (StockAdjustmentsService.create, BusinessService.create).
THEOREM OfficeExplainsHalves == Spec => []HalvesExplained
<1>1. IOffice => HalvesExplained
  BY OfficeImplies
<1> QED
  BY <1>1, OfficeInvariant, PTL

\* Whichever desk the clients turn to, a listed backup not being written is whole
\* unless its dump failed or shared its second, and pruning leaves a whole one unless
\* it followed a false report of success (BackupService).
THEOREM OfficeExplainsBackups == Spec => []BackupsExplained
<1>1. IOffice => BackupsExplained
  BY OfficeImplies
<1> QED
  BY <1>1, OfficeInvariant, PTL

\* Whichever desk the clients turn to, the categories form a forest, unless two moves, or
\* a removal and what hangs below it, were under way together (CategoriesService).
THEOREM OfficeKeepsForest == Spec => []CategoriesFormAForest
<1>1. IOffice => CategoriesFormAForest
  BY OfficeImplies
<1> QED
  BY <1>1, OfficeInvariant, PTL

\* Whichever desk the clients turn to, a unit in use has no more than one above it,
\* unless units were rebased or removed side by side (UnitsService).
THEOREM OfficeKeepsTwoLevels == Spec => []UnitsHaveTwoLevels
<1>1. IOffice => UnitsHaveTwoLevels
  BY OfficeImplies
<1> QED
  BY <1>1, OfficeInvariant, PTL

\* Whichever desk the clients turn to, no two products share a SKU, unless two requests
\* that save products were under way together (ProductsService.create, update, import).
THEOREM OfficeKeepsSkusUnique == Spec => []SkusAreUnique
<1>1. IOffice => SkusAreUnique
  BY OfficeImplies
<1> QED
  BY <1>1, OfficeInvariant, PTL

\* Whichever desk the clients turn to, a cached list is stale only before its drop, or
\* where none is to come (ProductsService, cache.clear).
THEOREM OfficeExplainsStaleLists == Spec => []StaleListExplained
<1>1. IOffice => StaleListExplained
  BY OfficeImplies
<1> QED
  BY <1>1, OfficeInvariant, PTL

\* Whichever desk the clients turn to, a product's picture is on disk, unless a request
\* is, or was cut off, between the file and the row (ProductsService.uploadImage).
THEOREM OfficeExplainsImages == Spec => []ImagesExplained
<1>1. IOffice => ImagesExplained
  BY OfficeImplies
<1> QED
  BY <1>1, OfficeInvariant, PTL

\* Whichever desk the clients turn to, a table of settings has one default, unless two
\* were made at a time, one is being made, or the last was taken away.
THEOREM OfficeExplainsDefaults == Spec => []DefaultsExplained
<1>1. IOffice => DefaultsExplained
  BY OfficeImplies
<1> QED
  BY <1>1, OfficeInvariant, PTL

\* Whichever desk the clients turn to, a group tax is made of what it was last asked to
\* be, unless being replaced, changed meanwhile, or left half replaced.
THEOREM OfficeKeepsGroupTaxes == Spec => []GroupTaxesAsAsked
<1>1. IOffice => GroupTaxesAsAsked
  BY OfficeImplies
<1> QED
  BY <1>1, OfficeInvariant, PTL

\* Whichever desk the clients turn to, nobody is told twice, passed over, mailed twice
\* or against their wish, unless something else was under way (NotificationsService,
\* ReportSchedulerService).
THEOREM OfficeExplainsNotices == Spec => []NoticesExplained
<1>1. IOffice => NoticesExplained
  BY OfficeImplies
<1> QED
  BY <1>1, OfficeInvariant, PTL

\* Whichever desk the clients turn to, rows in use do not share a number, unless two
\* were saved together, one was written with no check, or the number counts rows and
\* some went with what they belonged to.
THEOREM OfficeExplainsKeys == Spec => []KeysExplained
<1>1. IOffice => KeysExplained
  BY OfficeImplies
<1> QED
  BY <1>1, OfficeInvariant, PTL

\* Whichever desk the clients turn to, an account goes with postings, or is posted to
\* when closed, only if that happened while the posting was under way
\* (AccountingService.deleteAccount, updateAccount, createTransaction).
THEOREM OfficeExplainsPostings == Spec => []PostingsExplained
<1>1. IOffice => PostingsExplained
  BY OfficeImplies
<1> QED
  BY <1>1, OfficeInvariant, PTL

\* Whichever desk the clients turn to, figures that several reports show of the same
\* books are the same, unless the books hold what the queries behind them treat
\* differently (ReportsService, AccountingService, ContactsService and the others).
THEOREM OfficeStatementsAgree == Spec => []StatementsAgree
<1>1. IOffice => StatementsAgree
  BY OfficeImplies
<1> QED
  BY <1>1, OfficeInvariant, PTL
=============================================================================
