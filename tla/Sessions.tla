------------------------------- MODULE Sessions -------------------------------
(***************************************************************************)
(* Cookie sessions (apps/api/src/auth.ts).  The API keeps the refresh      *)
(* token the identity provider issued last.  refresh() holds the row of    *)
(* the session from the moment it reads the token until it has stored the  *)
(* rotated one, and calls the provider in between; the cookies of the      *)
(* reply reach the browser whether or not the transaction commits.         *)
(*                                                                         *)
(* Several tabs of one browser refresh and sign out at a time.  A request  *)
(* that waits for the row goes on whatever the others do to the cookies.   *)
(* When the API gives a call of the provider up (a timeout, a dead         *)
(* process), the row is free while the request may still be on its way:    *)
(* the provider processes it at any time after that, or never.             *)
(*                                                                         *)
(* Abstracted: encryption, the claims, permissions, MFA, CSRF.  The        *)
(* provider is external: of a login that has not ended it accepts the      *)
(* token it issued last, once.                                             *)
(***************************************************************************)
EXTENDS Integers, FiniteSets

CONSTANTS
  Sessions,
  Handlers,     \* requests about sessions the API serves at a time
  MaxTokens,    \* rotations of one login
  NoId

ASSUME SessionAssumption ==
  /\ MaxTokens \in Nat \ {0}
  /\ NoId \notin Sessions

VARIABLES
  sessions,   \* user_sessions: status and the refresh token stored
  calls,      \* each call of refresh or logout, and what it asked the provider
  browser,    \* cookies: is there a session, is there a valid access token
  issued,     \* external: the last refresh token of each login
  ended,      \* external: logins the provider accepts no token of any more
  reused,     \* external: logins that presented a token a second time
  abandoned   \* history: logins of which a refresh ended while its request was
              \* under way, or without storing the token it was given

sessionVars == <<sessions, calls, browser, issued, ended, reused, abandoned>>
provider == <<issued, ended, reused>>

NoSession == [status |-> "none", token |-> 0]
NoCall == [phase |-> "idle", of |-> NoId, token |-> 0, request |-> "none"]
SignedOut == [session |-> FALSE, access |-> FALSE]

Calls == [phase : {"idle", "waiting", "asking", "answered", "leaving", "clearing"},
          of : Sessions \cup {NoId}, token : 0..MaxTokens,
          request : {"none", "pending", "rotated", "refused"}]

SessionTypeOK ==
  /\ sessions \in [Sessions -> [status : {"none", "live", "revoked", "expired"},
                                token : 0..MaxTokens]]
  /\ calls \in [Handlers -> Calls]
  /\ browser \in [Sessions -> [session : BOOLEAN, access : BOOLEAN]]
  /\ issued \in [Sessions -> 0..MaxTokens]
  /\ ended \subseteq Sessions
  /\ reused \subseteq Sessions /\ abandoned \subseteq Sessions

SessionInit ==
  /\ sessions = [s \in Sessions |-> NoSession]
  /\ calls = [h \in Handlers |-> NoCall]
  /\ browser = [s \in Sessions |-> SignedOut]
  /\ issued = [s \in Sessions |-> 0]
  /\ ended = {}
  /\ reused = {}
  /\ abandoned = {}
-----------------------------------------------------------------------------
\* Mutant: the row is read without "for update".
unlocked(s) == TRUE

\* No refresh holds the row of the session (for update of s).
sessionIsFree(s) ==
  \A h \in Handlers : calls[h].of = s => calls[h].phase # "asking"

\* principal(): a bearer token of the login is taken for what it is; with
\* cookies there must be an access token and, if there is one, a live session.
principal(s, bearer) ==
  IF bearer THEN sessions[s].status # "none"
  ELSE browser[s].access /\ (browser[s].session => sessions[s].status = "live")

\* A handler begins the next call; a late request is forgotten only when the
\* provider is done with it.
begin(h, phase, s, token) ==
  /\ calls[h].phase = "idle" /\ calls[h].request # "pending"
  /\ calls' = [calls EXCEPT ![h] = [phase |-> phase, of |-> s, token |-> token,
                                    request |-> "none"]]

\* The call goes on, or ends; a request under way stays so.
proceed(h, phase) ==
  calls' = [calls EXCEPT ![h] =
    IF calls[h].request = "pending" THEN [calls[h] EXCEPT !.phase = phase]
    ELSE [phase |-> phase, of |-> calls[h].of, token |-> 0, request |-> "none"]]

\* A refresh ends without the answer of the provider in the row.
abandon(h, answers) ==
  abandoned' = IF calls[h].phase = "asking" /\ calls[h].request \in answers
               THEN abandoned \cup {calls[h].of} ELSE abandoned

\* The provider is done with a request.  Only a refresh that still waits hears.
answer(h, request, token) ==
  calls' = [calls EXCEPT ![h] =
    IF calls[h].phase = "asking"
    THEN [calls[h] EXCEPT !.request = request, !.token = token]
    ELSE [calls[h] EXCEPT !.request = "none"]]
-----------------------------------------------------------------------------
establishSession(s) ==
  /\ sessions[s] = NoSession
  /\ sessions' = [sessions EXCEPT ![s] = [status |-> "live", token |-> issued'[s]]]
  /\ browser' = [browser EXCEPT ![s] = [session |-> TRUE, access |-> TRUE]]

\* signIn or signUp.
signIn(s) ==
  /\ issued' = [issued EXCEPT ![s] = 1]
  /\ establishSession(s)
  /\ UNCHANGED <<calls, ended, reused, abandoned>>

\* The access token or the session runs out.
accessExpires(s) ==
  /\ browser[s].access
  /\ browser' = [browser EXCEPT ![s].access = FALSE]
  /\ UNCHANGED <<sessions, calls, provider, abandoned>>

sessionExpires(s) ==
  /\ sessions[s].status = "live"
  /\ sessions' = [sessions EXCEPT ![s].status = "expired"]
  /\ browser' = [browser EXCEPT ![s].session = FALSE]
  /\ UNCHANGED <<calls, provider, abandoned>>

\* The user revokes the session from anywhere: another session, a bearer token.
revokeSession(s) ==
  /\ sessions[s].status \in {"live", "expired"}
  /\ sessionIsFree(s)
  /\ sessions' = [sessions EXCEPT ![s].status = "revoked"]
  /\ UNCHANGED <<calls, browser, provider, abandoned>>
-----------------------------------------------------------------------------
(* logout().                                                               *)

\* The route checks who asks.  Without a session cookie there is no row to
\* write.
beginLogout(h, s) ==
  /\ \E bearer \in BOOLEAN : principal(s, bearer)
  /\ begin(h, IF browser[s].session THEN "leaving" ELSE "clearing", s, 0)
  /\ UNCHANGED <<sessions, browser, provider, abandoned>>

\* The update has no condition: it writes a row again that is revoked or
\* expired by then.
revokeRow(h) ==
  LET s == calls[h].of IN
  /\ calls[h].phase = "leaving"
  /\ sessionIsFree(s)
  /\ sessions' = [sessions EXCEPT ![s].status = "revoked"]
  /\ proceed(h, "clearing")
  /\ UNCHANGED <<browser, provider, abandoned>>

\* The reply of logout, or of a refresh that failed.
clearAuthCookies(h) ==
  /\ calls[h].phase = "clearing"
  /\ browser' = [browser EXCEPT ![calls[h].of] = SignedOut]
  /\ proceed(h, "idle")
  /\ UNCHANGED <<sessions, provider, abandoned>>
-----------------------------------------------------------------------------
(* refresh().                                                              *)

\* The browser sends its cookie and the statement finds the row.  One that is
\* revoked or expired is refused at once.
askRefresh(h, s) ==
  /\ browser[s].session
  /\ sessions[s].status = "live"
  /\ begin(h, "waiting", s, sessions[s].token)
  /\ UNCHANGED <<sessions, browser, provider, abandoned>>

\* When the row is free its condition is looked at again if it was updated
\* since it was found; it may have expired if it was not.
mayTakeRow(h) ==
  LET row == sessions[calls[h].of] IN
  row.status = "live" \/ (row.status = "expired" /\ row.token = calls[h].token)

\* The row is locked and its token sent to the provider.
takeRow(h) ==
  LET s == calls[h].of IN
  /\ calls[h].phase = "waiting"
  /\ sessionIsFree(s)
  /\ mayTakeRow(h)
  /\ calls' = [calls EXCEPT ![h] = [@ EXCEPT !.phase = "asking", !.request = "pending",
                                             !.token = sessions[s].token]]
  /\ UNCHANGED <<sessions, browser, provider, abandoned>>

\* SESSION_REFRESH_UNAVAILABLE.
refuseRefresh(h) ==
  /\ calls[h].phase = "waiting"
  /\ sessionIsFree(calls[h].of)
  /\ ~mayTakeRow(h)
  /\ proceed(h, "idle")
  /\ UNCHANGED <<sessions, browser, provider, abandoned>>

\* Mutant: a refused refresh leaves the cookies as they are.
failKeepingCookies(h) ==
  /\ calls[h].phase = "asking"
  /\ abandon(h, {"pending", "rotated"})
  /\ proceed(h, "idle")
  /\ UNCHANGED <<sessions, browser, provider>>

\* The request is refused, fails or times out: a request not refused may yet
\* be processed, or was.  The row is marked revoked, then the error rolls the
\* mark back and frees the row; the reply clears the cookies.
failRefresh(h) ==
  /\ calls[h].phase = "asking"
  /\ abandon(h, {"pending", "rotated"})
  /\ proceed(h, "clearing")
  /\ UNCHANGED <<sessions, browser, provider>>

\* Mutant: the rotated token is not stored.
keepOldToken(h) ==
  /\ calls[h].phase = "asking" /\ calls[h].request = "rotated"
  /\ proceed(h, "answered")
  /\ UNCHANGED <<sessions, browser, provider, abandoned>>

\* The rotated token is stored and the transaction commits.
storeToken(h) ==
  /\ calls[h].phase = "asking" /\ calls[h].request = "rotated"
  /\ sessions' = [sessions EXCEPT ![calls[h].of].token = calls[h].token]
  /\ proceed(h, "answered")
  /\ UNCHANGED <<browser, provider, abandoned>>

\* The commit fails when the access token is on the reply already.
commitFails(h) ==
  /\ calls[h].phase = "asking" /\ calls[h].request = "rotated"
  /\ abandon(h, {"rotated"})
  /\ proceed(h, "answered")
  /\ UNCHANGED <<sessions, browser, provider>>

\* The reply reaches the browser, whatever other replies did before.
setAccessCookie(h) ==
  /\ calls[h].phase = "answered"
  /\ browser' = [browser EXCEPT ![calls[h].of].access = TRUE]
  /\ proceed(h, "idle")
  /\ UNCHANGED <<sessions, provider, abandoned>>

\* A call of refresh or logout ends where it is, and its transaction with it:
\* the process dies, a statement times out, the new token cannot be verified or
\* written, the reply is lost.
dropRequest(h) ==
  /\ calls[h].phase # "idle"
  /\ abandon(h, {"pending", "rotated"})
  /\ proceed(h, "idle")
  /\ UNCHANGED <<sessions, browser, provider>>
-----------------------------------------------------------------------------
(* The provider.                                                           *)

rotate(h) ==
  LET s == calls[h].of IN
  /\ calls[h].request = "pending"
  /\ calls[h].token = issued[s]
  /\ s \notin ended
  /\ issued[s] < MaxTokens
  /\ answer(h, "rotated", issued[s] + 1)
  /\ issued' = [issued EXCEPT ![s] = @ + 1]
  /\ UNCHANGED <<sessions, browser, ended, reused, abandoned>>

\* The token was used before, the login has ended, or the provider is at fault.
refuse(h) ==
  LET s == calls[h].of IN
  /\ calls[h].request = "pending"
  /\ answer(h, "refused", calls[h].token)
  /\ reused' = IF calls[h].token < issued[s] THEN reused \cup {s} ELSE reused
  /\ UNCHANGED <<sessions, browser, issued, ended, abandoned>>

\* The request never gets there.
vanish(h) ==
  /\ calls[h].request = "pending"
  /\ answer(h, "none", calls[h].token)
  /\ UNCHANGED <<sessions, browser, provider, abandoned>>

\* A sign-out has told the provider, some time ago, or it ends the login itself.
endLogin(s) ==
  /\ sessions[s].status # "none"
  /\ ended' = ended \cup {s}
  /\ UNCHANGED <<sessions, calls, browser, issued, reused, abandoned>>
-----------------------------------------------------------------------------
\* The API goes on with a call, or drops it.
serve(h) ==
  \/ revokeRow(h)
  \/ clearAuthCookies(h)
  \/ takeRow(h)
  \/ refuseRefresh(h)
  \/ failRefresh(h)
  \/ storeToken(h)
  \/ commitFails(h)
  \/ setAccessCookie(h)
  \/ dropRequest(h)

process(h) == rotate(h) \/ refuse(h) \/ vanish(h)

SessionNext ==
  \/ \E s \in Sessions :
       \/ signIn(s)
       \/ accessExpires(s)
       \/ sessionExpires(s)
       \/ revokeSession(s)
       \/ endLogin(s)
       \/ \E h \in Handlers : beginLogout(h, s) \/ askRefresh(h, s)
  \/ \E h \in Handlers : serve(h) \/ process(h)

SessionSpec == SessionInit /\ [][SessionNext]_sessionVars

\* Some refresh of the session takes its next step.
refreshOf(s, step(_)) == \E h \in Handlers : calls[h].of = s /\ step(h)

failOrStore(h) == failRefresh(h) \/ storeToken(h)

\* Statements and calls of the provider have deadlines (statement_timeout,
\* AbortSignal.timeout), so calls end and requests are processed or gone; and
\* of the refreshes of a browser that keeps asking neither all are dropped nor
\* all replies lost.
FairSessionSpec ==
  /\ SessionSpec
  /\ \A s \in Sessions :
       /\ SF_sessionVars(\E h \in Handlers : askRefresh(h, s))
       /\ SF_sessionVars(refreshOf(s, takeRow))
       /\ SF_sessionVars(refreshOf(s, failOrStore))
       /\ SF_sessionVars(refreshOf(s, setAccessCookie))
       /\ SF_sessionVars(refreshOf(s, clearAuthCookies))
  /\ \A h \in Handlers :
       /\ WF_sessionVars(serve(h))
       /\ WF_sessionVars(process(h))
-----------------------------------------------------------------------------
\* Tabs that refresh together take turns: a token is presented again only by a
\* login of which a refresh was given up under way or lost the token it was
\* given, so that no login is refused for refreshes that just overlap.
TokenPresentedOnce == reused \subseteq abandoned

\* A refresh that overlaps a sign-out neither outlives it nor undoes it: a
\* revoked row stays revoked with the token it had, and the provider rotates
\* its token only for a request the API had given up.
RevokedForGood ==
  [][\A s \in Sessions :
       sessions[s].status = "revoked" =>
         /\ sessions'[s] = sessions[s]
         /\ issued'[s] # issued[s] =>
              \E h \in Handlers : /\ calls[h].of = s /\ calls[h].request = "pending"
                                  /\ calls[h].phase # "asking"]_sessionVars

\* A browser whose access token ran out and that keeps refreshing gets a new
\* one or learns that it must sign in again; no lost answer, dead process or
\* sign-out in another tab leaves it asking for ever.
RefreshIsAnswered ==
  \A s \in Sessions :
    (browser[s].session /\ ~browser[s].access /\ sessions[s].status = "live")
      ~> \/ browser[s].access
         \/ ~browser[s].session
         \/ sessions[s].status # "live"
=============================================================================
