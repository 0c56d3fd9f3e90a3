------------------------------ MODULE WebSession ------------------------------
(***************************************************************************)
(* The login in one browser tab: the tokens in localStorage (auth.ts), the *)
(* interceptor that renews the access token on 401 and queues requests     *)
(* meanwhile (auth.interceptor.ts), and the dialog that warns of idleness  *)
(* (session-timeout.service.ts).                                           *)
(*                                                                         *)
(* JavaScript runs one callback at a time, so a step is the callback of    *)
(* one HTTP answer or of one user event. The API answers any request, in   *)
(* any order, or the network fails it.                                     *)
(***************************************************************************)
EXTENDS Naturals

CONSTANTS Request,  \* API calls of components
          Denied,   \* those answered 401 whatever the token: a wrong current
                    \* password, a disabled user
          MaxTokens \* bound on access tokens

ASSUME SessionAssumption == Denied \subseteq Request /\ MaxTokens \in Nat

VARIABLES storage,      \* localStorage: access token, and what is in the other keys
          issued,       \* access tokens issued so far: 1..issued
          expired,      \* those the API no longer takes
          isRefreshing, \* the flag of the interceptor
          subject,      \* refreshTokenSubject: a token, 0 for null
          pc,           \* where each request stands
          token,        \* the access token it was last sent with, 0 for none
          dialog,       \* the warning
          dialogCall,   \* what the refresh of the dialog carries, "none" if none runs
          stranded      \* history: requests queued when their refresh ended without a token

sessionVars == <<storage, issued, expired, isRefreshing, subject, pc, token, dialog,
                 dialogCall, stranded>>

\* The refresh token. The API answers a refresh with an access token only:
\* setItem then stores the string "undefined" for it, and for the user.
Kept == {"none", "good", "undefined"}

Empty == [access |-> 0, refresh |-> "none"]

DataOK ==
    /\ storage \in [access : 0..MaxTokens, refresh : Kept]
    /\ issued \in 0..MaxTokens
    /\ expired \subseteq 1..issued
    /\ subject \in 0..MaxTokens
    /\ pc \in [Request -> {"new", "sent", "queued", "refresh", "refreshLost",
                           "retry", "resent", "done"}]
    /\ token \in [Request -> 0..MaxTokens]
    /\ dialog \in {"none", "open", "stay", "touched", "closing"}
    /\ dialogCall \in Kept
    /\ stranded \subseteq Request

\* Tokens are among those issued, requests at a known place, the flag is a flag.
SessionTypeOK == DataOK /\ isRefreshing \in BOOLEAN

SessionInit ==
    /\ storage = Empty
    /\ issued = 0
    /\ expired = {}
    /\ isRefreshing = FALSE
    /\ subject = 0
    /\ pc = [r \in Request |-> "new"]
    /\ token = [r \in Request |-> 0]
    /\ dialog = "none"
    /\ dialogCall = "none"
    /\ stranded = {}
-----------------------------------------------------------------------------
(***************************************************************************)
(* auth.ts                                                                 *)
(***************************************************************************)
Queued == {r \in Request : pc[r] = "queued"}

\* handleAuthResponse, with the next access token and what comes with it.
Store(refresh) ==
    /\ issued < MaxTokens
    /\ issued' = issued + 1
    /\ storage' = [access |-> issued + 1, refresh |-> refresh]

\* The login page answers before the dialog of the last login has faded out.
Login ==
    /\ storage.access = 0
    /\ dialog = "none"
    /\ Store("good")
    /\ UNCHANGED <<expired, isRefreshing, subject, pc, token, dialog, dialogCall, stranded>>

\* logout: the layout goes, and with it the warning if it is open.
LogOut ==
    /\ storage' = Empty
    /\ dialog' = IF dialog = "open" THEN "closing" ELSE dialog

\* The button in the header, and a token found invalid when the page loads.
UserLogout ==
    /\ storage.access # 0
    /\ LogOut
    /\ UNCHANGED <<issued, expired, isRefreshing, subject, pc, token, dialogCall, stranded>>

\* The page is loaded anew; only localStorage stays. With "undefined" for the
\* user, JSON.parse throws and the application does not start.
ReloadTab ==
    /\ storage.refresh # "undefined"
    /\ isRefreshing' = FALSE
    /\ subject' = 0
    /\ pc' = [r \in Request |-> IF pc[r] = "new" THEN "new" ELSE "done"]
    /\ token' = [r \in Request |-> 0]
    /\ dialog' = "none"
    /\ dialogCall' = "none"
    /\ stranded' = {}
    /\ UNCHANGED <<storage, issued, expired>>

\* The API: an access token lives for fifteen minutes.
Expire ==
    /\ \E t \in 1..issued \ expired : expired' = expired \cup {t}
    /\ UNCHANGED <<storage, issued, isRefreshing, subject, pc, token, dialog,
                   dialogCall, stranded>>
-----------------------------------------------------------------------------
(***************************************************************************)
(* auth.interceptor.ts                                                     *)
(***************************************************************************)
SendRequest(r) ==
    /\ pc[r] = "new"
    /\ pc' = [pc EXCEPT ![r] = "sent"]
    /\ token' = [token EXCEPT ![r] = storage.access]
    /\ UNCHANGED <<storage, issued, expired, isRefreshing, subject, dialog,
                   dialogCall, stranded>>

\* The component has its answer, or has left.
Finish(r) ==
    /\ pc' = [pc EXCEPT ![r] = "done"]
    /\ token' = [token EXCEPT ![r] = 0]

\* An answer other than 401, or the answer to a request resent from the queue:
\* the component gets it.
Answered(r) ==
    /\ pc[r] \in {"sent", "resent"}
    /\ Finish(r)
    /\ UNCHANGED <<storage, issued, expired, isRefreshing, subject, dialog,
                   dialogCall, stranded>>

\* A refresh is under way, with a good refresh token or with "undefined".
Refreshing(r) == pc[r] \in {"refresh", "refreshLost"}
RefreshWith(refresh) == IF refresh = "good" THEN "refresh" ELSE "refreshLost"

Rejects(r) == r \in Denied \/ token[r] \in expired \cup {0}

\* 401 without a refresh token.
GiveUp(r) ==
    /\ pc[r] = "sent" /\ Rejects(r)
    /\ storage.refresh = "none"
    /\ Finish(r)
    /\ LogOut
    /\ UNCHANGED <<issued, expired, isRefreshing, subject, dialogCall, stranded>>

\* 401 while another request refreshes: wait for its token, or take the one
\* that has come already.
WaitForRefresh(r) ==
    /\ pc[r] = "sent" /\ Rejects(r)
    /\ storage.refresh # "none"
    /\ isRefreshing
    /\ IF subject = 0
       THEN pc' = [pc EXCEPT ![r] = "queued"] /\ UNCHANGED token
       ELSE /\ pc' = [pc EXCEPT ![r] = "resent"]
            /\ token' = [token EXCEPT ![r] = subject]
    /\ UNCHANGED <<storage, issued, expired, isRefreshing, subject, dialog,
                   dialogCall, stranded>>

\* Mutant: the token of the last refresh stays in the subject.
StartRefreshKeepingToken(r) ==
    /\ pc[r] = "sent" /\ Rejects(r)
    /\ storage.refresh # "none"
    /\ ~isRefreshing
    /\ isRefreshing' = TRUE
    /\ pc' = [pc EXCEPT ![r] = RefreshWith(storage.refresh)]
    /\ UNCHANGED <<storage, issued, expired, subject, token, dialog, dialogCall, stranded>>

StartRefresh(r) ==
    /\ pc[r] = "sent" /\ Rejects(r)
    /\ storage.refresh # "none"
    /\ ~isRefreshing
    /\ isRefreshing' = TRUE
    /\ subject' = 0
    /\ pc' = [pc EXCEPT ![r] = RefreshWith(storage.refresh)]
    /\ UNCHANGED <<storage, issued, expired, token, dialog, dialogCall, stranded>>

\* Mutant: the token is not handed to the queue.
RefreshedUnheard(r) ==
    /\ pc[r] = "refresh"
    /\ Store("undefined")
    /\ pc' = [pc EXCEPT ![r] = "retry"]
    /\ token' = [token EXCEPT ![r] = issued + 1]
    /\ UNCHANGED <<expired, isRefreshing, subject, dialog, dialogCall, stranded>>

\* The new token is stored, even if the user has logged out since. The whole
\* queue is resent with it, and so is the request that asked for it.
Refreshed(r) ==
    /\ pc[r] = "refresh"
    /\ Store("undefined")
    /\ subject' = issued + 1
    /\ pc' = [q \in Request |-> IF q = r THEN "retry"
                                ELSE IF q \in Queued THEN "resent" ELSE pc[q]]
    /\ token' = [q \in Request |-> IF q \in Queued \cup {r} THEN issued + 1 ELSE token[q]]
    /\ stranded' = {}
    /\ UNCHANGED <<expired, isRefreshing, dialog, dialogCall>>

\* Refused or failed: nothing is said to the queue.
RefreshFailed(r) ==
    /\ Refreshing(r)
    /\ isRefreshing' = FALSE
    /\ Finish(r)
    /\ stranded' = stranded \cup Queued
    /\ LogOut
    /\ UNCHANGED <<issued, expired, subject, dialogCall>>

\* Mutant: the flag is reset only after a successful retry.
RetryFailedFlagged(r) ==
    /\ pc[r] = "retry"
    /\ Finish(r)
    /\ LogOut
    /\ UNCHANGED <<issued, expired, isRefreshing, subject, dialogCall, stranded>>

RetryAnswered(r) ==
    /\ pc[r] = "retry" /\ ~Rejects(r)
    /\ isRefreshing' = FALSE
    /\ Finish(r)
    /\ UNCHANGED <<storage, issued, expired, subject, dialog, dialogCall, stranded>>

\* The catchError of the refresh takes the errors of the retry as well: any
\* status logs the user out.
RetryFailed(r) ==
    /\ pc[r] = "retry"
    /\ isRefreshing' = FALSE
    /\ Finish(r)
    /\ LogOut
    /\ UNCHANGED <<issued, expired, subject, dialogCall, stranded>>

\* Mutant: the flag is reset in the handlers of answers, not by finalize.
CancelWithoutFinalize(r) ==
    /\ pc[r] \in {"sent", "queued", "resent", "retry"} \/ Refreshing(r)
    /\ Finish(r)
    /\ stranded' = (stranded \cup IF Refreshing(r) THEN Queued ELSE {}) \ {r}
    /\ UNCHANGED <<storage, issued, expired, isRefreshing, subject, dialog, dialogCall>>

\* The component is left and unsubscribes; finalize resets the flag of the
\* request that held it.
Unsubscribe(r) ==
    /\ pc[r] \in {"sent", "queued", "resent", "retry"} \/ Refreshing(r)
    /\ Finish(r)
    /\ isRefreshing' = (isRefreshing /\ pc[r] # "retry" /\ ~Refreshing(r))
    /\ stranded' = (stranded \cup IF Refreshing(r) THEN Queued ELSE {}) \ {r}
    /\ UNCHANGED <<storage, issued, expired, subject, dialog, dialogCall>>
-----------------------------------------------------------------------------
(***************************************************************************)
(* session-timeout.service.ts                                              *)
(***************************************************************************)
\* Twenty-five idle minutes, longer than any refresh takes.
ShowWarning ==
    /\ storage.access # 0
    /\ dialog = "none" /\ dialogCall = "none"
    /\ dialog' = "open"
    /\ UNCHANGED <<storage, issued, expired, isRefreshing, subject, pc, token,
                   dialogCall, stranded>>

\* Stay Logged In; Logout or the end of the countdown.
CloseWarning ==
    /\ dialog = "open"
    /\ dialog' \in {"stay", "closing"}
    /\ UNCHANGED <<storage, issued, expired, isRefreshing, subject, pc, token,
                   dialogCall, stranded>>

\* auth.refreshToken, called by the dialog: without a refresh token it fails at once.
CallRefresh ==
    IF storage.refresh = "none"
    THEN storage' = Empty /\ UNCHANGED dialogCall
    ELSE dialogCall' = storage.refresh /\ UNCHANGED storage

\* Any activity while the warning is open closes it, without a result.
Activity ==
    /\ dialog = "open"
    /\ dialog' = "touched"
    /\ CallRefresh
    /\ UNCHANGED <<issued, expired, isRefreshing, subject, pc, token, stranded>>

\* afterClosed: no result counts as a timeout.
AfterClosed ==
    /\ dialog \in {"stay", "touched", "closing"}
    /\ dialog' = "none"
    /\ IF dialog = "stay"
       THEN CallRefresh
       ELSE storage' = Empty /\ UNCHANGED dialogCall
    /\ UNCHANGED <<issued, expired, isRefreshing, subject, pc, token, stranded>>

DialogRefreshed ==
    /\ dialogCall = "good"
    /\ Store("undefined")
    /\ dialogCall' = "none"
    /\ UNCHANGED <<expired, isRefreshing, subject, pc, token, dialog, stranded>>

DialogRefreshFailed ==
    /\ dialogCall # "none"
    /\ dialogCall' = "none"
    /\ LogOut
    /\ UNCHANGED <<issued, expired, isRefreshing, subject, pc, token, stranded>>
-----------------------------------------------------------------------------
\* Every HTTP call is answered or fails.
Reply(r) ==
    \/ Answered(r)
    \/ GiveUp(r)
    \/ WaitForRefresh(r)
    \/ StartRefresh(r)
    \/ Refreshed(r)
    \/ RefreshFailed(r)
    \/ RetryAnswered(r)
    \/ RetryFailed(r)

SessionNext ==
    \/ \E r \in Request : SendRequest(r) \/ Reply(r) \/ Unsubscribe(r)
    \/ Login
    \/ UserLogout
    \/ ReloadTab
    \/ Expire
    \/ ShowWarning
    \/ CloseWarning
    \/ Activity
    \/ AfterClosed
    \/ DialogRefreshed
    \/ DialogRefreshFailed

\* Browsers end every request, if need be with an error, and every fade-out.
Fairness ==
    /\ \A r \in Request : WF_sessionVars(Reply(r))
    /\ WF_sessionVars(AfterClosed)
    /\ WF_sessionVars(DialogRefreshed \/ DialogRefreshFailed)

SessionSpec == SessionInit /\ [][SessionNext]_sessionVars /\ Fairness
-----------------------------------------------------------------------------
(***************************************************************************)
(* Properties.                                                             *)
(***************************************************************************)
Owns(r) == Refreshing(r) \/ pc[r] = "retry"

\* The interceptor never refreshes twice at a time, and its flag is up exactly
\* while one request refreshes or retries: no error, cancellation or logout
\* leaves it up, which would put every later 401 in a queue nobody serves.
FlagIsOwned ==
    /\ isRefreshing <=> \E r \in Request : Owns(r)
    /\ \A r, q \in Request : Owns(r) /\ Owns(q) => r = q

\* A queued request waits for a refresh in flight and has missed no token,
\* unless the refresh it was queued behind ended without one.
QueueIsServed ==
    \A r \in Queued : /\ subject = 0
                      /\ r \notin stranded => \E o \in Request : Refreshing(o)

\* "Block queued requests until token arrives": while a refresh is in flight no
\* request goes out again, so none does with the token that is being replaced.
ResendWaitsForToken ==
    [][\A r, o \in Request :
          pc[r] # "resent" /\ pc'[r] = "resent" => ~Refreshing(o)']_sessionVars

\* Every request ends, unless the refresh it was queued behind ended without a
\* token.
RequestsEnd == \A r \in Request : pc[r] = "sent" ~> pc[r] = "done" \/ r \in stranded

\* What AuthResponse declares of every answer, the refresh's included: with an
\* access token the tab has a refresh token (and a user) as well.
LoginKeptWhole == storage.access # 0 => storage.refresh = "good"

\* "If the dialog is open and the user interacts, treat it as stay logged in."
ActivityKeepsLogin ==
    [][dialog = "touched" /\ dialog' = "none" /\ storage.access # 0 =>
          storage'.access # 0]_sessionVars
=============================================================================
