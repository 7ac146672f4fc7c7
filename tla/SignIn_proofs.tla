----------------------------- MODULE SignIn_proofs -----------------------------
(***************************************************************************)
(* Theorems about what a sign-in leaves behind: Sessions, for any number   *)
(* of sessions, overlapping calls, late requests and rotations, and        *)
(* Accounts, for any logins, addresses and assets.                         *)
(***************************************************************************)
EXTENDS Sessions, Accounts, TLAPS

-----------------------------------------------------------------------------
(* Sessions.                                                               *)

\* A refresh that holds the row of its session.
Asks(h) == calls[h].phase = "asking"

\* At most one refresh holds a row, and the row stays live, or expires, for as
\* long: what revokes a session waits for the row.
RowsHeld ==
  /\ \A g, h \in Handlers : Asks(g) /\ Asks(h) /\ calls[g].of = calls[h].of => g = h
  /\ \A h \in Handlers : Asks(h) => sessions[calls[h].of].status \in {"live", "expired"}
  /\ \A h \in Handlers :
       calls[h].phase # "idle" \/ calls[h].request = "pending" => calls[h].of \in Sessions

\* The chain of tokens of a login of which no refresh was abandoned: a request
\* under way is that of the refresh that holds the row, and presents the last
\* token; the row has the last token unless that refresh is about to store it.
TokensCurrent ==
  /\ \A h \in Handlers :
       calls[h].request = "pending" /\ calls[h].of \notin abandoned =>
         Asks(h) /\ calls[h].token = issued[calls[h].of]
  /\ \A h \in Handlers :
       Asks(h) /\ calls[h].request = "rotated" /\ calls[h].of \notin abandoned =>
         calls[h].token = issued[calls[h].of]
  /\ \A s \in Sessions \ abandoned :
       \/ sessions[s].token = issued[s]
       \/ \E h \in Handlers : Asks(h) /\ calls[h].request = "rotated" /\ calls[h].of = s

SessionInv == SessionTypeOK /\ RowsHeld /\ TokensCurrent /\ TokenPresentedOnce
-----------------------------------------------------------------------------
(* What the steps of a call do to it.                                      *)

LEMMA CallTypes ==
  SessionTypeOK =>
    \A h \in Handlers :
      calls[h].of \in Sessions \cup {NoId} /\ calls[h].token \in 0..MaxTokens
  BY DEF SessionTypeOK, Calls

\* A call that goes on, or ends, keeps its session, and what it asked only as
\* long as that is under way.
LEMMA ProceedCall ==
  ASSUME SessionTypeOK, NEW h \in Handlers,
         NEW phase \in {"idle", "waiting", "answered", "leaving", "clearing"},
         proceed(h, phase)
  PROVE  /\ calls' \in [Handlers -> Calls]
         /\ calls'[h].phase = phase /\ calls'[h].of = calls[h].of
         /\ calls'[h].request = "pending" <=> calls[h].request = "pending"
         /\ \A g \in Handlers \ {h} : calls'[g] = calls[g]
<1>0. calls[h] \in Calls /\ calls \in [Handlers -> Calls] BY DEF SessionTypeOK
<1>1. CASE calls[h].request = "pending"
  <2> DEFINE c == [calls[h] EXCEPT !.phase = phase]
  <2>1. c \in Calls /\ c.phase = phase /\ c.of = calls[h].of /\ c.request = "pending"
    BY <1>0, <1>1 DEF Calls
  <2>2. calls' = [calls EXCEPT ![h] = c] BY <1>1 DEF proceed
  <2> HIDE DEF c
  <2> QED BY <1>0, <1>1, <2>1, <2>2
<1>2. CASE calls[h].request # "pending"
  <2> DEFINE c == [phase |-> phase, of |-> calls[h].of, token |-> 0, request |-> "none"]
  <2>1. 0 \in 0..MaxTokens BY SessionAssumption
  <2>2. c \in Calls /\ c.phase = phase /\ c.of = calls[h].of /\ c.request = "none"
    BY <1>0, <2>1 DEF Calls
  <2>3. calls' = [calls EXCEPT ![h] = c] BY <1>2 DEF proceed
  <2> HIDE DEF c
  <2> QED BY <1>0, <1>2, <2>2, <2>3
<1> QED BY <1>1, <1>2

\* A call that begins has asked nothing yet.
LEMMA BeginCall ==
  ASSUME SessionTypeOK, NEW h \in Handlers, NEW s \in Sessions,
         NEW phase \in {"waiting", "leaving", "clearing"}, NEW token \in 0..MaxTokens,
         begin(h, phase, s, token)
  PROVE  /\ calls' \in [Handlers -> Calls]
         /\ calls'[h].phase = phase /\ calls'[h].of = s /\ calls'[h].request = "none"
         /\ calls[h].phase = "idle" /\ calls[h].request # "pending"
         /\ \A g \in Handlers \ {h} : calls'[g] = calls[g]
<1> DEFINE c == [phase |-> phase, of |-> s, token |-> token, request |-> "none"]
<1>1. c \in Calls BY DEF Calls
<1>2. calls' = [calls EXCEPT ![h] = c] BY DEF begin
<1>3. c.phase = phase /\ c.of = s /\ c.request = "none" OBVIOUS
<1> HIDE DEF c
<1> QED BY <1>1, <1>2, <1>3 DEF begin, SessionTypeOK, Calls

\* The provider's answer leaves the call where it is, and reaches it only if it
\* still waits.
LEMMA AnswerCall ==
  ASSUME SessionTypeOK, NEW h \in Handlers, NEW request \in {"none", "rotated", "refused"},
         NEW token \in 0..MaxTokens, answer(h, request, token)
  PROVE  /\ calls' \in [Handlers -> Calls]
         /\ calls'[h].phase = calls[h].phase /\ calls'[h].of = calls[h].of
         /\ Asks(h) => calls'[h].request = request /\ calls'[h].token = token
         /\ ~Asks(h) => calls'[h].request = "none"
         /\ \A g \in Handlers \ {h} : calls'[g] = calls[g]
<1>0. calls[h] \in Calls /\ calls \in [Handlers -> Calls] BY DEF SessionTypeOK
<1> USE DEF Asks
<1>1. CASE Asks(h)
  <2> DEFINE c == [calls[h] EXCEPT !.request = request, !.token = token]
  <2>1. c \in Calls /\ c.phase = calls[h].phase /\ c.of = calls[h].of
        /\ c.request = request /\ c.token = token
    BY <1>0 DEF Calls
  <2>2. calls' = [calls EXCEPT ![h] = c] BY <1>1 DEF answer
  <2> HIDE DEF c
  <2> QED BY <1>0, <1>1, <2>1, <2>2
<1>2. CASE ~Asks(h)
  <2> DEFINE c == [calls[h] EXCEPT !.request = "none"]
  <2>1. c \in Calls /\ c.phase = calls[h].phase /\ c.of = calls[h].of /\ c.request = "none"
    BY <1>0 DEF Calls
  <2>2. calls' = [calls EXCEPT ![h] = c] BY <1>2 DEF answer
  <2> HIDE DEF c
  <2> QED BY <1>0, <1>2, <2>1, <2>2
<1> QED BY <1>1, <1>2

\* The refresh that takes the row asks for what the row says.
LEMMA TakeCall ==
  ASSUME SessionTypeOK, RowsHeld, NEW h \in Handlers, takeRow(h)
  PROVE  /\ calls[h].of \in Sessions
         /\ calls' \in [Handlers -> Calls]
         /\ calls'[h].phase = "asking" /\ calls'[h].request = "pending"
         /\ calls'[h].of = calls[h].of /\ calls'[h].token = sessions[calls[h].of].token
         /\ \A g \in Handlers \ {h} : calls'[g] = calls[g]
<1>0. calls[h] \in Calls /\ calls \in [Handlers -> Calls] BY DEF SessionTypeOK
<1>1. calls[h].of \in Sessions BY DEF takeRow, RowsHeld
<1> DEFINE c == [calls[h] EXCEPT !.phase = "asking", !.request = "pending",
                                 !.token = sessions[calls[h].of].token]
<1>2. /\ c \in Calls /\ c.phase = "asking" /\ c.request = "pending"
      /\ c.of = calls[h].of /\ c.token = sessions[calls[h].of].token
  <2>1. sessions[calls[h].of].token \in 0..MaxTokens BY <1>1 DEF SessionTypeOK
  <2> QED BY <1>0, <2>1 DEF Calls
<1>3. calls' = [calls EXCEPT ![h] = c] BY DEF takeRow
<1> HIDE DEF c
<1> QED BY <1>0, <1>1, <1>2, <1>3

\* A refresh that is given up counts when its request was under way or its new
\* token on the way to the row.
LEMMA AbandonedAfter ==
  ASSUME SessionTypeOK, RowsHeld, NEW h \in Handlers,
         NEW answers, abandon(h, answers)
  PROVE  /\ abandoned' \subseteq Sessions /\ abandoned \subseteq abandoned'
         /\ Asks(h) /\ calls[h].request \in answers => calls[h].of \in abandoned'
<1>1. CASE Asks(h) /\ calls[h].request \in answers
  BY <1>1 DEF abandon, SessionTypeOK, RowsHeld, Asks
<1>2. CASE ~(Asks(h) /\ calls[h].request \in answers)
  BY <1>2 DEF abandon, SessionTypeOK, Asks
<1> QED BY <1>1, <1>2
-----------------------------------------------------------------------------
\* Nothing is signed in, asked, issued or abandoned yet.
LEMMA SessionsStart == SessionInit => SessionInv
  BY SessionAssumption
  DEF SessionInit, SessionInv, SessionTypeOK, RowsHeld, TokensCurrent, TokenPresentedOnce,
      Asks, Calls, NoSession, NoCall, SignedOut

\* Types, one step per action.
LEMMA SessionTypeStep == SessionTypeOK /\ RowsHeld /\ [SessionNext]_sessionVars => SessionTypeOK'
<1> SUFFICES ASSUME SessionTypeOK, RowsHeld, [SessionNext]_sessionVars PROVE SessionTypeOK'
  OBVIOUS
<1> USE SessionAssumption DEF SessionTypeOK
<1>1. ASSUME NEW s \in Sessions, signIn(s) PROVE SessionTypeOK'
  BY <1>1 DEF signIn, establishSession
<1>2. ASSUME NEW s \in Sessions, accessExpires(s) PROVE SessionTypeOK'
  BY <1>2 DEF accessExpires, provider
<1>3. ASSUME NEW s \in Sessions, sessionExpires(s) PROVE SessionTypeOK'
  BY <1>3, ZenonT(60) DEF sessionExpires, provider
<1>4. ASSUME NEW s \in Sessions, revokeSession(s) PROVE SessionTypeOK'
  BY <1>4, SMTT(30) DEF revokeSession, provider
<1>5. ASSUME NEW s \in Sessions, endLogin(s) PROVE SessionTypeOK'
  BY <1>5 DEF endLogin
<1>6. ASSUME NEW s \in Sessions, NEW h \in Handlers, beginLogout(h, s) PROVE SessionTypeOK'
  <2>1. calls' \in [Handlers -> Calls]
    <3>1. 0 \in 0..MaxTokens OBVIOUS
    <3>2. CASE browser[s].session BY <1>6, <3>1, <3>2, BeginCall DEF beginLogout
    <3>3. CASE ~browser[s].session BY <1>6, <3>1, <3>3, BeginCall DEF beginLogout
    <3> QED BY <3>2, <3>3
  <2> QED BY <1>6, <2>1 DEF beginLogout, provider
<1>7. ASSUME NEW s \in Sessions, NEW h \in Handlers, askRefresh(h, s) PROVE SessionTypeOK'
  <2>1. calls' \in [Handlers -> Calls] BY <1>7, BeginCall DEF askRefresh
  <2> QED BY <1>7, <2>1 DEF askRefresh, provider
<1>8. ASSUME NEW h \in Handlers, revokeRow(h) PROVE SessionTypeOK'
  <2>1. calls' \in [Handlers -> Calls] BY <1>8, ProceedCall DEF revokeRow
  <2>2. calls[h].of \in Sessions BY <1>8 DEF revokeRow, RowsHeld
  <2>3. sessions' \in [Sessions -> [status : {"none", "live", "revoked", "expired"},
                                    token : 0..MaxTokens]]
    BY <1>8, <2>2, SMTT(30) DEF revokeRow
  <2> QED BY <1>8, <2>1, <2>3 DEF revokeRow, provider
<1>9. ASSUME NEW h \in Handlers, clearAuthCookies(h) PROVE SessionTypeOK'
  <2>1. calls' \in [Handlers -> Calls] BY <1>9, ProceedCall DEF clearAuthCookies
  <2>2. browser' \in [Sessions -> [session : BOOLEAN, access : BOOLEAN]]
    BY <1>9 DEF clearAuthCookies, SignedOut
  <2> QED BY <1>9, <2>1, <2>2 DEF clearAuthCookies, provider
<1>10. ASSUME NEW h \in Handlers, takeRow(h) PROVE SessionTypeOK'
  BY <1>10, TakeCall DEF takeRow, provider
<1>11. ASSUME NEW h \in Handlers, refuseRefresh(h) PROVE SessionTypeOK'
  <2>1. calls' \in [Handlers -> Calls] BY <1>11, ProceedCall DEF refuseRefresh
  <2> QED BY <1>11, <2>1 DEF refuseRefresh, provider
<1>12. ASSUME NEW h \in Handlers, failRefresh(h) \/ commitFails(h) \/ dropRequest(h)
       PROVE  SessionTypeOK'
  <2>1. calls' \in [Handlers -> Calls]
    BY <1>12, ProceedCall DEF failRefresh, commitFails, dropRequest
  <2>2. abandoned' \subseteq Sessions
    BY <1>12, AbandonedAfter DEF failRefresh, commitFails, dropRequest
  <2>3. UNCHANGED <<sessions, browser, provider>>
    BY <1>12 DEF failRefresh, commitFails, dropRequest
  <2> QED BY <2>1, <2>2, <2>3 DEF provider
<1>13. ASSUME NEW h \in Handlers, storeToken(h) PROVE SessionTypeOK'
  <2>1. calls' \in [Handlers -> Calls] BY <1>13, ProceedCall DEF storeToken
  <2>2. sessions' \in [Sessions -> [status : {"none", "live", "revoked", "expired"},
                                    token : 0..MaxTokens]]
    <3>1. calls[h].of \in Sessions BY <1>13 DEF storeToken, RowsHeld
    <3> DEFINE row == [sessions[calls[h].of] EXCEPT !.token = calls[h].token]
    <3>2. row \in [status : {"none", "live", "revoked", "expired"}, token : 0..MaxTokens]
      BY <3>1, CallTypes
    <3>3. sessions' = [sessions EXCEPT ![calls[h].of] = row] BY <1>13 DEF storeToken
    <3> HIDE DEF row
    <3> QED BY <3>1, <3>2, <3>3
  <2> QED BY <1>13, <2>1, <2>2 DEF storeToken, provider
<1>14. ASSUME NEW h \in Handlers, setAccessCookie(h) PROVE SessionTypeOK'
  <2>1. calls' \in [Handlers -> Calls] BY <1>14, ProceedCall DEF setAccessCookie
  <2>2. browser' \in [Sessions -> [session : BOOLEAN, access : BOOLEAN]]
    BY <1>14 DEF setAccessCookie
  <2> QED BY <1>14, <2>1, <2>2 DEF setAccessCookie, provider
<1>15. ASSUME NEW h \in Handlers, rotate(h) PROVE SessionTypeOK'
  <2>1. calls[h].of \in Sessions BY <1>15 DEF rotate, RowsHeld
  <2>2. issued[calls[h].of] + 1 \in 0..MaxTokens BY <1>15, <2>1 DEF rotate
  <2>3. calls' \in [Handlers -> Calls] BY <1>15, <2>2, AnswerCall DEF rotate
  <2>4. issued' \in [Sessions -> 0..MaxTokens] BY <1>15, <2>1, <2>2 DEF rotate
  <2> QED BY <1>15, <2>3, <2>4 DEF rotate
<1>16. ASSUME NEW h \in Handlers, refuse(h) PROVE SessionTypeOK'
  <2>1. calls[h].of \in Sessions BY <1>16 DEF refuse, RowsHeld
  <2>2. calls' \in [Handlers -> Calls] BY <1>16, CallTypes, AnswerCall DEF refuse
  <2>3. reused' \subseteq Sessions BY <1>16, <2>1 DEF refuse
  <2> QED BY <1>16, <2>2, <2>3 DEF refuse
<1>17. ASSUME NEW h \in Handlers, vanish(h) PROVE SessionTypeOK'
  <2>1. calls' \in [Handlers -> Calls] BY <1>17, CallTypes, AnswerCall DEF vanish
  <2> QED BY <1>17, <2>1 DEF vanish, provider
<1>18. CASE UNCHANGED sessionVars BY <1>18 DEF sessionVars
<1> QED BY <1>1, <1>2, <1>3, <1>4, <1>5, <1>6, <1>7, <1>8, <1>9, <1>10, <1>11, <1>12,
           <1>13, <1>14, <1>15, <1>16, <1>17, <1>18 DEF SessionNext, serve, process

-----------------------------------------------------------------------------
(* Refreshes take turns.                                                   *)

\* Whoever revokes a session or takes its row finds the row free, and whoever
\* gives it up leaves the other holders as they are.
LEMMA RowsStep == SessionTypeOK /\ RowsHeld /\ [SessionNext]_sessionVars => RowsHeld'
<1> SUFFICES ASSUME SessionTypeOK, RowsHeld, [SessionNext]_sessionVars PROVE RowsHeld'
  OBVIOUS
<1> USE DEF SessionTypeOK, RowsHeld, Asks
\* A call that leaves the row alone, or gives it up, while no status changes.
<1>0. ASSUME NEW h \in Handlers, sessions' = sessions, calls'[h].of \in Sessions,
             calls'[h].phase = "asking" => calls[h].phase = "asking" /\ calls'[h].of = calls[h].of,
             \A g \in Handlers \ {h} : calls'[g] = calls[g]
      PROVE  RowsHeld'
  <2>1. \A f, g \in Handlers : Asks(f)' /\ Asks(g)' /\ calls'[f].of = calls'[g].of => f = g
    BY <1>0
  <2>2. \A g \in Handlers : Asks(g)' => sessions'[calls'[g].of].status \in {"live", "expired"}
    BY <1>0
  <2>3. \A g \in Handlers :
          calls'[g].phase # "idle" \/ calls'[g].request = "pending" => calls'[g].of \in Sessions
    BY <1>0
  <2> QED BY <2>1, <2>2, <2>3
<1>1. ASSUME NEW s \in Sessions, signIn(s) PROVE RowsHeld'
  BY <1>1 DEF signIn, establishSession, NoSession
<1>2. ASSUME NEW s \in Sessions, accessExpires(s) \/ endLogin(s) PROVE RowsHeld'
  BY <1>2 DEF accessExpires, endLogin
<1>3. ASSUME NEW s \in Sessions, sessionExpires(s) PROVE RowsHeld'
  BY <1>3 DEF sessionExpires
<1>4. ASSUME NEW s \in Sessions, revokeSession(s) PROVE RowsHeld'
  BY <1>4 DEF revokeSession, sessionIsFree
<1>5. ASSUME NEW s \in Sessions, NEW h \in Handlers, beginLogout(h, s) PROVE RowsHeld'
  <2>1. 0 \in 0..MaxTokens BY SessionAssumption
  <2>2. /\ calls'[h].phase # "asking" /\ calls'[h].of \in Sessions
        /\ \A g \in Handlers \ {h} : calls'[g] = calls[g]
    <3>1. CASE browser[s].session BY <1>5, <2>1, <3>1, BeginCall DEF beginLogout
    <3>2. CASE ~browser[s].session BY <1>5, <2>1, <3>2, BeginCall DEF beginLogout
    <3> QED BY <3>1, <3>2
  <2>3. sessions' = sessions BY <1>5 DEF beginLogout
  <2> QED BY <2>2, <2>3, <1>0
<1>6. ASSUME NEW s \in Sessions, NEW h \in Handlers, askRefresh(h, s) PROVE RowsHeld'
  <2>1. sessions[s].token \in 0..MaxTokens OBVIOUS
  <2>2. begin(h, "waiting", s, sessions[s].token) BY <1>6 DEF askRefresh
  <2>3. /\ calls'[h].phase # "asking" /\ calls'[h].of \in Sessions
        /\ \A g \in Handlers \ {h} : calls'[g] = calls[g]
    BY <2>1, <2>2, BeginCall
  <2>4. sessions' = sessions BY <1>6 DEF askRefresh
  <2> QED BY <2>3, <2>4, <1>0
<1>7. ASSUME NEW h \in Handlers, revokeRow(h) PROVE RowsHeld'
  <2>1. /\ calls'[h].phase = "clearing" /\ calls'[h].of = calls[h].of
        /\ \A g \in Handlers \ {h} : calls'[g] = calls[g]
    BY <1>7, ProceedCall DEF revokeRow
  <2>2. \A g \in Handlers : calls[g].of = calls[h].of => calls[g].phase # "asking"
    BY <1>7 DEF revokeRow, sessionIsFree
  <2>3. \A s \in Sessions \ {calls[h].of} : sessions'[s] = sessions[s]
    BY <1>7 DEF revokeRow
  <2>4. calls[h].of \in Sessions BY <1>7 DEF revokeRow
  <2>5. \A g \in Handlers : Asks(g)' => sessions'[calls'[g].of].status \in {"live", "expired"}
    BY <2>1, <2>2, <2>3
  <2> QED BY <2>1, <2>4, <2>5
<1>8. ASSUME NEW h \in Handlers,
             clearAuthCookies(h) \/ refuseRefresh(h) \/ failRefresh(h) \/ commitFails(h)
               \/ setAccessCookie(h) \/ dropRequest(h)
      PROVE  RowsHeld'
  <2>1. \E phase \in {"idle", "clearing", "answered"} : proceed(h, phase)
    BY <1>8 DEF clearAuthCookies, refuseRefresh, failRefresh, commitFails, setAccessCookie,
                dropRequest
  <2>2. sessions' = sessions
    BY <1>8 DEF clearAuthCookies, refuseRefresh, failRefresh, commitFails, setAccessCookie,
                dropRequest
  <2>3. calls[h].of \in Sessions
    BY <1>8 DEF clearAuthCookies, refuseRefresh, failRefresh, commitFails, setAccessCookie,
                dropRequest
  <2> QED BY <2>1, <2>2, <2>3, ProceedCall, <1>0
<1>9. ASSUME NEW h \in Handlers, takeRow(h) PROVE RowsHeld'
  <2>1. /\ calls[h].of \in Sessions
        /\ calls'[h].phase = "asking" /\ calls'[h].of = calls[h].of
        /\ \A g \in Handlers \ {h} : calls'[g] = calls[g]
    BY <1>9, TakeCall
  <2>2. \A g \in Handlers : calls[g].of = calls[h].of => calls[g].phase # "asking"
    BY <1>9 DEF takeRow, sessionIsFree
  <2>3. sessions' = sessions /\ sessions[calls[h].of].status \in {"live", "expired"}
    BY <1>9 DEF takeRow, mayTakeRow
  <2>4. \A f, g \in Handlers : Asks(f)' /\ Asks(g)' /\ calls'[f].of = calls'[g].of => f = g
    BY <2>1, <2>2
  <2> QED BY <2>1, <2>3, <2>4
<1>10. ASSUME NEW h \in Handlers, storeToken(h) PROVE RowsHeld'
  <2>1. /\ calls'[h].phase = "answered" /\ calls'[h].of = calls[h].of
        /\ \A g \in Handlers \ {h} : calls'[g] = calls[g]
    BY <1>10, ProceedCall DEF storeToken
  <2>2. calls[h].of \in Sessions BY <1>10 DEF storeToken
  <2>3. \A s \in Sessions : sessions'[s].status = sessions[s].status
    BY <1>10 DEF storeToken
  <2>4. \A g \in Handlers : Asks(g)' => sessions'[calls'[g].of].status \in {"live", "expired"}
    BY <2>1, <2>3
  <2>5. \A f, g \in Handlers : Asks(f)' /\ Asks(g)' /\ calls'[f].of = calls'[g].of => f = g
    BY <2>1
  <2> QED BY <2>1, <2>2, <2>4, <2>5
<1>11. ASSUME NEW h \in Handlers, process(h) PROVE RowsHeld'
  <2>1. \E request \in {"none", "rotated", "refused"}, token \in 0..MaxTokens :
          answer(h, request, token)
    <3>1. CASE rotate(h)
      <4>1. issued[calls[h].of] + 1 \in 0..MaxTokens BY <3>1, SessionAssumption DEF rotate
      <4> QED BY <3>1, <4>1 DEF rotate
    <3>2. CASE refuse(h) BY <3>2, CallTypes DEF refuse
    <3>3. CASE vanish(h) BY <3>3, CallTypes DEF vanish
    <3> QED BY <1>11, <3>1, <3>2, <3>3 DEF process
  <2>2. sessions' = sessions /\ calls[h].of \in Sessions
    BY <1>11 DEF process, rotate, refuse, vanish
  <2> QED BY <2>1, <2>2, AnswerCall, <1>0
<1>12. CASE UNCHANGED sessionVars BY <1>12 DEF sessionVars
<1> QED BY <1>1, <1>2, <1>3, <1>4, <1>5, <1>6, <1>7, <1>8, <1>9, <1>10, <1>11, <1>12
        DEF SessionNext, serve

\* A token is stored before the row is free again, or the login counts as one
\* of which a refresh was abandoned.
LEMMA TokensStep ==
  SessionTypeOK /\ RowsHeld /\ TokensCurrent /\ [SessionNext]_sessionVars => TokensCurrent'
<1> SUFFICES ASSUME SessionTypeOK, RowsHeld, TokensCurrent, [SessionNext]_sessionVars
             PROVE  TokensCurrent'
  OBVIOUS
<1> USE DEF RowsHeld, TokensCurrent, Asks
\* A call that has nothing under way then, and had no token to store.
<1>0. ASSUME NEW h \in Handlers, issued' = issued, abandoned \subseteq abandoned',
             \A s \in Sessions : sessions'[s].token = sessions[s].token,
             calls'[h].request = "pending" => calls'[h].of \in abandoned',
             ~(calls'[h].phase = "asking" /\ calls'[h].request = "rotated"),
             Asks(h) /\ calls[h].request = "rotated" => calls[h].of \in abandoned',
             \A g \in Handlers \ {h} : calls'[g] = calls[g]
      PROVE  TokensCurrent'
  <2>1. \A g \in Handlers :
          calls'[g].request = "pending" /\ calls'[g].of \notin abandoned' =>
            calls'[g].phase = "asking" /\ calls'[g].token = issued'[calls'[g].of]
    BY <1>0
  <2>2. \A g \in Handlers :
          calls'[g].phase = "asking" /\ calls'[g].request = "rotated"
            /\ calls'[g].of \notin abandoned' => calls'[g].token = issued'[calls'[g].of]
    BY <1>0
  <2>3. ASSUME NEW s \in Sessions, s \notin abandoned', sessions'[s].token # issued'[s]
        PROVE  \E g \in Handlers : /\ calls'[g].phase = "asking"
                                   /\ calls'[g].request = "rotated" /\ calls'[g].of = s
    <3>1. PICK g \in Handlers : Asks(g) /\ calls[g].request = "rotated" /\ calls[g].of = s
      BY <1>0, <2>3
    <3>2. calls'[g] = calls[g] BY <1>0, <2>3, <3>1
    <3> QED BY <3>1, <3>2
  <2> QED BY <2>1, <2>2, <2>3
<1>1. ASSUME NEW s \in Sessions, signIn(s) PROVE TokensCurrent'
  BY <1>1, SMTT(30) DEF signIn, establishSession, NoSession, SessionTypeOK
<1>2. ASSUME NEW s \in Sessions, accessExpires(s) \/ endLogin(s) PROVE TokensCurrent'
  BY <1>2 DEF accessExpires, endLogin, provider
<1>3. ASSUME NEW s \in Sessions, sessionExpires(s) PROVE TokensCurrent'
  BY <1>3 DEF sessionExpires, provider, SessionTypeOK
<1>4. ASSUME NEW s \in Sessions, revokeSession(s) PROVE TokensCurrent'
  BY <1>4 DEF revokeSession, provider, SessionTypeOK
<1>5. ASSUME NEW s \in Sessions, NEW h \in Handlers, beginLogout(h, s)
      PROVE  TokensCurrent'
  <2>1. 0 \in 0..MaxTokens BY SessionAssumption
  <2>2. /\ calls'[h].phase # "asking" /\ calls'[h].request = "none"
        /\ calls[h].phase = "idle"
        /\ \A g \in Handlers \ {h} : calls'[g] = calls[g]
    <3>1. CASE browser[s].session BY <1>5, <2>1, <3>1, BeginCall DEF beginLogout
    <3>2. CASE ~browser[s].session BY <1>5, <2>1, <3>2, BeginCall DEF beginLogout
    <3> QED BY <3>1, <3>2
  <2>3. UNCHANGED <<sessions, issued, abandoned>> BY <1>5 DEF beginLogout, provider
  <2> QED BY <2>2, <2>3, <1>0
<1>6. ASSUME NEW s \in Sessions, NEW h \in Handlers, askRefresh(h, s)
      PROVE  TokensCurrent'
  <2>1. /\ calls'[h].phase # "asking" /\ calls'[h].request = "none"
        /\ calls[h].phase = "idle"
        /\ \A g \in Handlers \ {h} : calls'[g] = calls[g]
    <3>1. sessions[s].token \in 0..MaxTokens BY DEF SessionTypeOK
    <3> QED BY <1>6, <3>1, BeginCall DEF askRefresh
  <2>2. UNCHANGED <<sessions, issued, abandoned>> BY <1>6 DEF askRefresh, provider
  <2> QED BY <2>1, <2>2, <1>0
<1>7. ASSUME NEW h \in Handlers, revokeRow(h) PROVE TokensCurrent'
  <2>1. proceed(h, "clearing") /\ calls[h].phase = "leaving" BY <1>7 DEF revokeRow
  <2>2. UNCHANGED <<issued, abandoned>> BY <1>7 DEF revokeRow, provider
  <2>3. \A s \in Sessions : sessions'[s].token = sessions[s].token
    BY <1>7 DEF revokeRow, SessionTypeOK
  <2>4. /\ calls'[h].phase = "clearing" /\ calls'[h].of = calls[h].of
        /\ (calls'[h].request = "pending" <=> calls[h].request = "pending")
        /\ \A g \in Handlers \ {h} : calls'[g] = calls[g]
    BY <2>1, ProceedCall
  <2>5. calls[h].request = "pending" => calls[h].of \in abandoned' BY <2>1, <2>2
  <2> QED BY <2>1, <2>2, <2>3, <2>4, <2>5, <1>0
<1>8. ASSUME NEW h \in Handlers,
             clearAuthCookies(h) \/ refuseRefresh(h) \/ setAccessCookie(h)
      PROVE  TokensCurrent'
  <2>1. proceed(h, "idle") /\ calls[h].phase \in {"waiting", "answered", "clearing"}
    BY <1>8 DEF clearAuthCookies, refuseRefresh, setAccessCookie
  <2>2. UNCHANGED <<sessions, issued, abandoned>>
    BY <1>8 DEF clearAuthCookies, refuseRefresh, setAccessCookie, provider
  <2>3. /\ calls'[h].phase = "idle" /\ calls'[h].of = calls[h].of
        /\ (calls'[h].request = "pending" <=> calls[h].request = "pending")
        /\ \A g \in Handlers \ {h} : calls'[g] = calls[g]
    BY <2>1, ProceedCall
  <2>4. calls[h].request = "pending" => calls[h].of \in abandoned' BY <2>1, <2>2
  <2> QED BY <2>1, <2>2, <2>3, <2>4, <1>0
<1>9. ASSUME NEW h \in Handlers, failRefresh(h) \/ commitFails(h) \/ dropRequest(h)
      PROVE  TokensCurrent'
  <2>1. \E phase \in {"idle", "clearing", "answered"} : proceed(h, phase)
    BY <1>9 DEF failRefresh, commitFails, dropRequest
  <2>2. UNCHANGED <<sessions, issued>>
    BY <1>9 DEF failRefresh, commitFails, dropRequest, provider
  <2>3. /\ abandoned \subseteq abandoned'
        /\ Asks(h) /\ calls[h].request \in {"pending", "rotated"} => calls[h].of \in abandoned'
    <3>1. CASE failRefresh(h) \/ dropRequest(h)
      BY <3>1, AbandonedAfter DEF failRefresh, dropRequest
    <3>2. CASE commitFails(h) BY <3>2, AbandonedAfter DEF commitFails
    <3> QED BY <1>9, <3>1, <3>2
  <2>4. calls'[h].phase # "asking" /\ calls'[h].of = calls[h].of
        /\ (calls'[h].request = "pending" <=> calls[h].request = "pending")
        /\ \A g \in Handlers \ {h} : calls'[g] = calls[g]
    BY <2>1, ProceedCall
  <2>5. calls[h].request = "pending" => calls[h].of \in abandoned' BY <2>3
  <2> QED BY <2>2, <2>3, <2>4, <2>5, <1>0
<1>10. ASSUME NEW h \in Handlers, takeRow(h) PROVE TokensCurrent'
  <2>1. UNCHANGED <<sessions, issued, abandoned>> BY <1>10 DEF takeRow, provider
  <2>2. \A g \in Handlers : calls[g].of = calls[h].of => calls[g].phase # "asking"
    BY <1>10 DEF takeRow, sessionIsFree
  <2>3. /\ calls[h].of \in Sessions
        /\ calls'[h].phase = "asking" /\ calls'[h].request = "pending"
        /\ calls'[h].of = calls[h].of /\ calls'[h].token = sessions[calls[h].of].token
        /\ \A g \in Handlers \ {h} : calls'[g] = calls[g]
    BY <1>10, TakeCall
  <2>4. calls[h].of \notin abandoned => sessions[calls[h].of].token = issued[calls[h].of]
    BY <2>2, <2>3
  <2>5. ASSUME NEW s \in Sessions, s \notin abandoned, sessions[s].token # issued[s]
        PROVE  \E g \in Handlers : /\ calls'[g].phase = "asking"
                                   /\ calls'[g].request = "rotated" /\ calls'[g].of = s
    <3>1. PICK g \in Handlers : Asks(g) /\ calls[g].request = "rotated" /\ calls[g].of = s
      BY <2>5
    <3>2. g # h BY <2>2, <3>1
    <3> QED BY <2>3, <3>1, <3>2
  <2> QED BY <2>1, <2>3, <2>4, <2>5
<1>11. ASSUME NEW h \in Handlers, storeToken(h) PROVE TokensCurrent'
  <2>1. UNCHANGED <<issued, abandoned>> /\ Asks(h) /\ calls[h].request = "rotated"
    BY <1>11 DEF storeToken, provider
  <2>2. calls[h].of \in Sessions BY <2>1
  <2>3. /\ sessions'[calls[h].of].token = calls[h].token
        /\ \A s \in Sessions \ {calls[h].of} : sessions'[s] = sessions[s]
    BY <1>11, <2>2 DEF storeToken, SessionTypeOK
  <2>4. calls'[h].phase # "asking" /\ calls'[h].of = calls[h].of
        /\ calls'[h].request # "pending" /\ \A g \in Handlers \ {h} : calls'[g] = calls[g]
    BY <1>11, <2>1, ProceedCall DEF storeToken
  <2> QED BY <2>1, <2>2, <2>3, <2>4
<1>12. ASSUME NEW h \in Handlers, rotate(h) PROVE TokensCurrent'
  <2>1. UNCHANGED <<sessions, abandoned>> /\ calls[h].request = "pending"
    BY <1>12 DEF rotate
  <2>2. calls[h].of \in Sessions BY <2>1
  <2>3. issued[calls[h].of] + 1 \in 0..MaxTokens BY <1>12, <2>2, SessionAssumption DEF rotate, SessionTypeOK
  <2>4. /\ issued'[calls[h].of] = issued[calls[h].of] + 1
        /\ \A s \in Sessions \ {calls[h].of} : issued'[s] = issued[s]
    BY <1>12, <2>2 DEF rotate, SessionTypeOK
  <2>5. /\ calls'[h].phase = calls[h].phase /\ calls'[h].of = calls[h].of
        /\ Asks(h) => calls'[h].request = "rotated"
                       /\ calls'[h].token = issued[calls[h].of] + 1
        /\ ~Asks(h) => calls'[h].request = "none"
        /\ \A g \in Handlers \ {h} : calls'[g] = calls[g]
    BY <1>12, <2>3, AnswerCall DEF rotate
  <2>6. CASE calls[h].of \in abandoned
    <3>1. ASSUME NEW s \in Sessions, s \notin abandoned, sessions[s].token # issued[s]
          PROVE  \E g \in Handlers : /\ calls'[g].phase = "asking"
                                     /\ calls'[g].request = "rotated" /\ calls'[g].of = s
      <4>1. PICK g \in Handlers : Asks(g) /\ calls[g].request = "rotated" /\ calls[g].of = s
        BY <3>1
      <4>2. g # h BY <2>6, <3>1, <4>1
      <4> QED BY <2>5, <4>1, <4>2
    <3>2. \A g \in Handlers : calls'[g].of \notin abandoned =>
            calls'[g] = calls[g] /\ calls'[g].of # calls[h].of
      BY <2>5, <2>6
    <3>3. \A g \in Handlers : calls[g].of \notin abandoned /\ calls[g].phase # "idle" =>
            issued'[calls[g].of] = issued[calls[g].of]
      BY <2>4, <2>6
    <3>4. \A s \in Sessions \ abandoned : issued'[s] = issued[s] BY <2>4, <2>6
    <3> QED BY <2>1, <3>1, <3>2, <3>3, <3>4
  <2>7. CASE calls[h].of \notin abandoned
    <3>1. Asks(h) BY <2>1, <2>7
    <3>2. \A g \in Handlers \ {h} : calls[g].of = calls[h].of =>
            calls[g].request # "pending" /\ ~Asks(g)
      BY <2>7, <3>1
    <3>3. ASSUME NEW s \in Sessions, s \notin abandoned, sessions[s].token # issued'[s]
          PROVE  \E g \in Handlers : /\ calls'[g].phase = "asking"
                                     /\ calls'[g].request = "rotated" /\ calls'[g].of = s
      <4>1. CASE s = calls[h].of BY <2>5, <3>1, <4>1
      <4>2. CASE s # calls[h].of
        <5>1. PICK g \in Handlers : Asks(g) /\ calls[g].request = "rotated" /\ calls[g].of = s
          BY <2>4, <3>3, <4>2
        <5>2. g # h BY <4>2, <5>1
        <5> QED BY <2>5, <5>1, <5>2
      <4> QED BY <4>1, <4>2
    <3>4. \A g \in Handlers \ {h} : Asks(g) \/ calls[g].request = "pending" =>
            calls[g].of \in abandoned \/ issued'[calls[g].of] = issued[calls[g].of]
      BY <2>4, <3>2
    <3> QED BY <2>1, <2>4, <2>5, <3>1, <3>3, <3>4
  <2> QED BY <2>6, <2>7
<1>13. ASSUME NEW h \in Handlers, refuse(h) \/ vanish(h) PROVE TokensCurrent'
  <2>1. UNCHANGED <<sessions, issued, abandoned>> /\ calls[h].request = "pending"
    BY <1>13 DEF refuse, vanish, provider
  <2>2. \E request \in {"none", "refused"}, token \in 0..MaxTokens : answer(h, request, token)
    BY <1>13, CallTypes DEF refuse, vanish
  <2>3. /\ calls'[h].phase = calls[h].phase /\ calls'[h].of = calls[h].of
        /\ calls'[h].request \notin {"pending", "rotated"}
        /\ \A g \in Handlers \ {h} : calls'[g] = calls[g]
    BY <2>2, AnswerCall
  <2>4. ~(Asks(h) /\ calls[h].request = "rotated") BY <2>1
  <2> QED BY <2>1, <2>3, <2>4, <1>0
<1>14. CASE UNCHANGED sessionVars BY <1>14 DEF sessionVars
<1> QED BY <1>1, <1>2, <1>3, <1>4, <1>5, <1>6, <1>7, <1>8, <1>9, <1>10, <1>11, <1>12,
           <1>13, <1>14 DEF SessionNext, serve, process

\* A token that was replaced is presented by a login of which a refresh was
\* abandoned: of the others, a request under way presents the last token.
LEMMA PresentedStep ==
  SessionInv /\ [SessionNext]_sessionVars => TokenPresentedOnce'
<1> SUFFICES ASSUME SessionInv, [SessionNext]_sessionVars PROVE TokenPresentedOnce'
  OBVIOUS
<1> USE DEF SessionInv, TokenPresentedOnce
<1>1. ASSUME NEW h \in Handlers, refuse(h) PROVE TokenPresentedOnce'
  <2>1. CASE calls[h].token < issued[calls[h].of]
    <3>1. calls[h].of \in abandoned
      BY <1>1, <2>1, CallTypes DEF refuse, TokensCurrent, SessionTypeOK, RowsHeld
    <3> QED BY <1>1, <2>1, <3>1 DEF refuse
  <2>2. CASE ~(calls[h].token < issued[calls[h].of]) BY <1>1, <2>2 DEF refuse
  <2> QED BY <2>1, <2>2
<1>2. ASSUME NEW h \in Handlers, failRefresh(h) \/ commitFails(h) \/ dropRequest(h)
      PROVE  TokenPresentedOnce'
  <2>1. abandoned \subseteq abandoned'
    BY <1>2, AbandonedAfter DEF failRefresh, commitFails, dropRequest
  <2> QED BY <1>2, <2>1 DEF failRefresh, commitFails, dropRequest, provider
<1>3. CASE UNCHANGED <<reused, abandoned>> BY <1>3
<1> QED
  BY <1>1, <1>2, <1>3
  DEF SessionNext, serve, process, sessionVars, provider, signIn, accessExpires, sessionExpires,
      revokeSession, endLogin, beginLogout, askRefresh, revokeRow, clearAuthCookies, takeRow,
      refuseRefresh, storeToken, setAccessCookie, rotate, vanish

\* The invariant the two theorems below rest on: a row is held by one refresh,
\* and as long as no refresh of a login was abandoned, its row, the refresh that
\* holds it and the provider agree on the token.
THEOREM SessionsInvariant == SessionSpec => []SessionInv
<1>1. SessionInv /\ [SessionNext]_sessionVars => SessionInv'
  BY SessionTypeStep, RowsStep, TokensStep, PresentedStep DEF SessionInv
<1> QED BY SessionsStart, <1>1, PTL DEF SessionSpec

\* Refreshes take turns: a token is presented a second time only by a login of
\* which a refresh was given up under way or lost the token it was given.
THEOREM TokensPresentedOnce == SessionSpec => []TokenPresentedOnce
  BY SessionsInvariant, PTL DEF SessionInv

\* What a step may do to a revoked session: no refresh holds its row, so what
\* the provider still rotates is a request that was given up.
LEMMA RevokedStep ==
  SessionInv /\ [SessionNext]_sessionVars =>
    \A s \in Sessions :
       sessions[s].status = "revoked" =>
         /\ sessions'[s] = sessions[s]
         /\ issued'[s] # issued[s] =>
              \E h \in Handlers : /\ calls[h].of = s /\ calls[h].request = "pending"
                                  /\ calls[h].phase # "asking"
<1> SUFFICES ASSUME SessionInv, [SessionNext]_sessionVars, NEW t \in Sessions,
                    sessions[t].status = "revoked"
             PROVE  /\ sessions'[t] = sessions[t]
                    /\ issued'[t] # issued[t] =>
                         \E h \in Handlers : /\ calls[h].of = t /\ calls[h].request = "pending"
                                             /\ calls[h].phase # "asking"
  OBVIOUS
<1> DEFINE Late == \E h \in Handlers : /\ calls[h].of = t /\ calls[h].request = "pending"
                                       /\ calls[h].phase # "asking"
           Goal == sessions'[t] = sessions[t] /\ (issued'[t] # issued[t] => Late)
<1> USE DEF SessionInv, SessionTypeOK, RowsHeld, Asks
<1>1. ASSUME NEW s \in Sessions, signIn(s) PROVE Goal
  BY <1>1 DEF signIn, establishSession, NoSession
<1>2. ASSUME NEW s \in Sessions, sessionExpires(s) PROVE Goal
  BY <1>2 DEF sessionExpires, provider
<1>3. ASSUME NEW s \in Sessions, revokeSession(s) PROVE Goal
  BY <1>3 DEF revokeSession, provider
<1>4. ASSUME NEW h \in Handlers, revokeRow(h) PROVE Goal
  <2>1. calls[h].of \in Sessions /\ issued' = issued BY <1>4 DEF revokeRow, provider
  <2>2. [sessions[t] EXCEPT !.status = "revoked"] = sessions[t]
    <3>1. sessions[t] \in [status : {"none", "live", "revoked", "expired"},
                           token : 0..MaxTokens]
      OBVIOUS
    <3> QED BY <3>1
  <2> QED BY <1>4, <2>1, <2>2 DEF revokeRow
<1>5. ASSUME NEW h \in Handlers, storeToken(h) PROVE Goal
  BY <1>5 DEF storeToken, provider
<1>6. ASSUME NEW h \in Handlers, rotate(h) PROVE Goal
  <2>1. sessions' = sessions BY <1>6 DEF rotate
  <2>2. CASE calls[h].of = t
    BY <1>6, <2>1, <2>2 DEF rotate
  <2>3. CASE calls[h].of # t BY <1>6, <2>1, <2>3 DEF rotate
  <2> QED BY <2>2, <2>3
<1>7. CASE UNCHANGED <<sessions, issued>> BY <1>7
<1> QED
  BY <1>1, <1>2, <1>3, <1>4, <1>5, <1>6, <1>7
  DEF SessionNext, serve, process, sessionVars, provider, accessExpires, endLogin, beginLogout,
      askRefresh, clearAuthCookies, takeRow, refuseRefresh, failRefresh, commitFails,
      setAccessCookie, dropRequest, refuse, vanish

\* No step changes the row of a revoked session, and its token is rotated only
\* by a request the API gave up before, also when a refresh was under way as it
\* was revoked.
THEOREM RevokedLeftAlone == SessionSpec => RevokedForGood
  BY SessionsInvariant, RevokedStep, PTL DEF SessionSpec, RevokedForGood
-----------------------------------------------------------------------------
(* Users, addresses and ledger accounts.                                   *)

\* Tokens name an address, so do the requests that carry them, and a command
\* under way has an asset.
ClaimsNamed ==
  /\ \A l \in Logins :
       /\ identities[l] # NoClaims => identities[l].email \in Emails
       /\ stale[l] # NoClaims => stale[l].email \in Emails
       /\ ~rowIsFree(l) => requests[l].claims.email \in Emails
  /\ command # NoCommand => command.asset \in Assets

Known == accounts \cup overlapped

\* What a request has not seen, a command has, or the two are known to overlap:
\* an asset enabled meanwhile, and the user of a request under way.
OverlapsKnown ==
  /\ \A l \in Logins : ~rowIsFree(l) =>
       /\ \A a \in Assets : assets[a] = "enabled" => a \in requests[l].grants \/ <<l, a>> \in Known
       /\ command # NoCommand => <<l, command.asset>> \in Known
  /\ command # NoCommand =>
       \A l \in Logins : users[l] \in {"email_pending", "kyc_pending"} =>
         l \in command.grants \/ <<l, command.asset>> \in Known

AccountsInv ==
  /\ TypeOK /\ ClaimsNamed
  /\ VerifiedOwnsEmail
  /\ OverlapsKnown /\ MissingByOverlapOnly

LEMMA NoneIsNothing == None \notin Logins /\ None \notin Emails /\ None \notin Assets
  BY AccountsAssumption

LEMMA AccountsStart == Init => AccountsInv
<1> SUFFICES ASSUME Init PROVE AccountsInv OBVIOUS
<1>1. TypeOK BY DEF Init, TypeOK, Claims, NoClaims, NoEmail, NoRequest, NoCommand
<1>2. ClaimsNamed /\ OverlapsKnown BY DEF Init, ClaimsNamed, OverlapsKnown, rowIsFree
<1>3. VerifiedOwnsEmail /\ MissingByOverlapOnly
  BY DEF Init, VerifiedOwnsEmail, MissingByOverlapOnly
<1> QED BY <1>1, <1>2, <1>3 DEF AccountsInv

-----------------------------------------------------------------------------
(* Types and names.                                                        *)

LEMMA StatusAfterIs ==
  ASSUME TypeOK, NEW l \in Logins, NEW claims \in Claims
  PROVE  /\ statusAfter(l, claims) \in {"email_pending", "kyc_pending", "active"}
         /\ users[l] = "active" <=> statusAfter(l, claims) = "active"
         /\ users[l] = "kyc_pending" => statusAfter(l, claims) = "kyc_pending"
         /\ statusAfter(l, claims) = "kyc_pending" =>
              users[l] = "kyc_pending" \/ claims.verified
<1>1. users[l] \in {"none", "email_pending", "kyc_pending", "active"}
  BY DEF TypeOK
<1>2. claims.verified \in BOOLEAN BY DEF Claims
<1> QED BY <1>1, <1>2 DEF statusAfter

LEMMA RowsAreTyped ==
  ASSUME TypeOK, NEW l \in Logins
  PROVE  /\ identities[l] \in Claims /\ stale[l] \in Claims
         /\ requests[l].claims \in Claims /\ requests[l].grants \subseteq Assets
         /\ requests[l] = [claims |-> requests[l].claims, grants |-> requests[l].grants]
  BY DEF TypeOK

\* The address of a request under way, once it may be linked: whoever else
\* owns one keeps it, and the customer owns this one, verified as it was or as
\* the token says.
LEMMA LinkedAddress ==
  ASSUME AccountsInv, NEW l \in Logins, linkEmail(l)
  PROVE  /\ requests[l].claims.email \in Emails
         /\ emails[requests[l].claims.email].owner \in {None, l}
         /\ \E verified \in BOOLEAN :
              /\ emails' = [emails EXCEPT ![requests[l].claims.email] =
                              [owner |-> l, verified |-> verified]]
              /\ verified <=> \/ emails[requests[l].claims.email].verified
                              \/ requests[l].claims.verified
<1> DEFINE e == requests[l].claims.email
           verified == emails[e].verified \/ requests[l].claims.verified
<1>1. e \in Emails /\ emails[e].owner \in {None, l}
  BY DEF AccountsInv, ClaimsNamed, linkEmail, mayLink
<1>2. emails' = [emails EXCEPT ![e] = [owner |-> l, verified |-> verified]]
  BY <1>1 DEF linkEmail
<1>3. verified \in BOOLEAN OBVIOUS
<1>4. verified <=> emails[e].verified \/ requests[l].claims.verified OBVIOUS
<1> HIDE DEF verified
<1> QED BY <1>1, <1>2, <1>3, <1>4

LEMMA AccountsTyped == AccountsInv /\ [Next]_vars => TypeOK' /\ ClaimsNamed'
<1> SUFFICES ASSUME AccountsInv, [Next]_vars PROVE TypeOK' /\ ClaimsNamed'
  OBVIOUS
<1> USE NoneIsNothing
<1>0. TypeOK /\ ClaimsNamed BY DEF AccountsInv
<1>1. ASSUME NEW l \in Logins, NEW e \in Emails, NEW verified \in BOOLEAN,
             identify(l, e, verified)
      PROVE  TypeOK' /\ ClaimsNamed'
  <2>1. [email |-> e, verified |-> verified] \in Claims BY DEF Claims
  <2>2. TypeOK' BY <1>0, <1>1, <2>1 DEF TypeOK, identify
  <2>3. ClaimsNamed' BY <1>0, <1>1 DEF TypeOK, ClaimsNamed, identify, rowIsFree
  <2> QED BY <2>2, <2>3
<1>2. ASSUME NEW l \in Logins, NEW e \in Emails, bootstrapAdmin(l, e)
      PROVE  TypeOK' /\ ClaimsNamed'
  <2>1. l \in Logins /\ users' \in [Logins -> {"none", "email_pending", "kyc_pending", "active"}]
    BY <1>0, <1>2 DEF TypeOK, bootstrapAdmin
  <2>2. emails' \in [Emails -> [owner : Logins \cup {None}, verified : BOOLEAN]]
    BY <1>0, <1>2 DEF TypeOK, bootstrapAdmin
  <2>3. TypeOK' BY <1>0, <1>2, <2>1, <2>2 DEF TypeOK, bootstrapAdmin, identityVars
  <2>4. ClaimsNamed'
    BY <1>0, <1>2 DEF ClaimsNamed, bootstrapAdmin, rowIsFree, identityVars
  <2> QED BY <2>3, <2>4
<1>3. ASSUME NEW l \in Logins, NEW claims \in Claims, insertUser(l, claims)
      PROVE  TypeOK' /\ ClaimsNamed'
  <2>1. {l} \X ({command.asset} \ {None}) \subseteq Logins \X Assets
    BY <1>0 DEF TypeOK
  <2>2. TypeOK' BY <1>0, <1>3, <2>1 DEF TypeOK, insertUser, identityVars
  <2>3. claims.email \in Emails BY <1>0, <1>3 DEF ClaimsNamed, insertUser
  <2>4. ClaimsNamed'
    BY <1>0, <1>3, <2>3 DEF TypeOK, ClaimsNamed, insertUser, rowIsFree, identityVars
  <2> QED BY <2>2, <2>4
<1>4. ASSUME NEW l \in Logins, linkEmail(l)
      PROVE  TypeOK' /\ ClaimsNamed'
  <2>1. NoRequest \in [claims : Claims, grants : SUBSET Assets]
    BY DEF NoRequest, NoClaims, Claims
  <2>2. {l} \X requests[l].grants \subseteq Logins \X Assets BY <1>0, RowsAreTyped
  <2>3. emails' \in [Emails -> [owner : Logins \cup {None}, verified : BOOLEAN]]
    <3> DEFINE f == requests[l].claims.email
    <3>1. f \in Emails BY <1>4, LinkedAddress
    <3>2. PICK verified \in BOOLEAN :
            emails' = [emails EXCEPT ![f] = [owner |-> l, verified |-> verified]]
      BY <1>4, LinkedAddress
    <3> HIDE DEF f
    <3> QED BY <1>0, <3>1, <3>2 DEF TypeOK
  <2>4. TypeOK'
    BY <1>0, <1>4, <2>1, <2>2, <2>3, StatusAfterIs DEF TypeOK, linkEmail, identityVars
  <2>5. ClaimsNamed'
    BY <1>0, <1>4 DEF TypeOK, ClaimsNamed, linkEmail, rowIsFree, identityVars
  <2> QED BY <2>4, <2>5
<1>5. ASSUME NEW l \in Logins, rollBack(l)
      PROVE  TypeOK' /\ ClaimsNamed'
  <2>1. NoRequest \in [claims : Claims, grants : SUBSET Assets]
    BY DEF NoRequest, NoClaims, Claims
  <2>2. TypeOK' BY <1>0, <1>5, <2>1 DEF TypeOK, rollBack, identityVars
  <2>3. ClaimsNamed'
    BY <1>0, <1>5 DEF TypeOK, ClaimsNamed, rollBack, rowIsFree, identityVars
  <2> QED BY <2>2, <2>3
<1>6. ASSUME NEW a \in Assets, bootstrapAsset(a)
      PROVE  TypeOK' /\ ClaimsNamed'
  <2>1. TypeOK' BY <1>0, <1>6 DEF TypeOK, bootstrapAsset, identityVars
  <2>2. ClaimsNamed'
    BY <1>0, <1>6 DEF ClaimsNamed, bootstrapAsset, rowIsFree, identityVars
  <2> QED BY <2>1, <2>2
<1>7. ASSUME NEW enabled \in BOOLEAN, commitAsset(enabled)
      PROVE  TypeOK' /\ ClaimsNamed'
  <2>1. command.asset \in Assets /\ command.grants \subseteq Logins
    BY <1>0, <1>7 DEF TypeOK, ClaimsNamed, commitAsset
  <2>2. command.grants \X {command.asset} \subseteq Logins \X Assets BY <2>1
  <2>3. TypeOK'
    BY <1>0, <1>7, <2>1, <2>2 DEF TypeOK, commitAsset, NoCommand, identityVars
  <2>4. ClaimsNamed'
    BY <1>0, <1>7 DEF ClaimsNamed, commitAsset, rowIsFree, identityVars
  <2> QED BY <2>3, <2>4
<1>8. CASE abortAsset
  <2>1. TypeOK' BY <1>0, <1>8 DEF TypeOK, abortAsset, NoCommand, identityVars
  <2>2. ClaimsNamed' BY <1>0, <1>8 DEF ClaimsNamed, abortAsset, rowIsFree, identityVars
  <2> QED BY <2>1, <2>2
<1>9. CASE UNCHANGED vars
  BY <1>0, <1>9 DEF TypeOK, ClaimsNamed, rowIsFree, vars
<1> QED BY <1>1, <1>2, <1>3, <1>4, <1>5, <1>6, <1>7, <1>8, <1>9 DEF Next
-----------------------------------------------------------------------------
(* Addresses.                                                              *)

\* Nobody loses an address or its verification, and nobody is verified but by
\* a token that is, for the address they own.
LEMMA AddressesStay ==
  AccountsInv /\ [Next]_vars =>
    \A e \in Emails : emails[e].owner # None =>
      /\ emails'[e].owner = emails[e].owner
      /\ emails[e].verified => emails'[e].verified
<1> SUFFICES ASSUME AccountsInv, [Next]_vars, NEW e \in Emails, emails[e].owner # None
             PROVE  /\ emails'[e].owner = emails[e].owner
                    /\ emails[e].verified => emails'[e].verified
  OBVIOUS
<1>0. emails \in [Emails -> [owner : Logins \cup {None}, verified : BOOLEAN]]
  BY DEF AccountsInv, TypeOK
<1>1. ASSUME NEW l \in Logins, linkEmail(l)
      PROVE  /\ emails'[e].owner = emails[e].owner
             /\ emails[e].verified => emails'[e].verified
  <2> DEFINE f == requests[l].claims.email
  <2>1. f \in Emails /\ emails[f].owner \in {None, l} BY <1>1, LinkedAddress
  <2>2. PICK verified \in BOOLEAN :
          /\ emails' = [emails EXCEPT ![f] = [owner |-> l, verified |-> verified]]
          /\ verified <=> emails[f].verified \/ requests[l].claims.verified
    BY <1>1, LinkedAddress
  <2> HIDE DEF f
  <2> QED BY <1>0, <2>1, <2>2
<1>2. ASSUME NEW l \in Logins, NEW f \in Emails, bootstrapAdmin(l, f)
      PROVE  emails'[e] = emails[e]
  BY <1>0, <1>2 DEF bootstrapAdmin
<1>3. CASE UNCHANGED emails BY <1>3
<1> QED BY <1>1, <1>2, <1>3
  DEF Next, vars, identify, insertUser, rollBack, bootstrapAsset, commitAsset, abortAsset

LEMMA StatusesGoOn ==
  AccountsInv /\ [Next]_vars =>
    \A l \in Logins :
      \/ users'[l] = users[l]
      \/ users[l] = "none" /\ users'[l] = "active"
      \/ linkEmail(l) /\ users'[l] = statusAfter(l, requests[l].claims)
<1> SUFFICES ASSUME AccountsInv, [Next]_vars, NEW l \in Logins
             PROVE  \/ users'[l] = users[l]
                    \/ users[l] = "none" /\ users'[l] = "active"
                    \/ linkEmail(l) /\ users'[l] = statusAfter(l, requests[l].claims)
  OBVIOUS
<1>0. users \in [Logins -> {"none", "email_pending", "kyc_pending", "active"}]
  BY DEF AccountsInv, TypeOK
<1>1. ASSUME NEW k \in Logins, linkEmail(k)
      PROVE  users'[l] = IF k = l THEN statusAfter(l, requests[l].claims) ELSE users[l]
  BY <1>0, <1>1 DEF linkEmail
<1>2. ASSUME NEW k \in Logins, NEW e \in Emails, bootstrapAdmin(k, e)
      PROVE  users'[l] = users[l] \/ (users[l] = "none" /\ users'[l] = "active")
  BY <1>0, <1>2 DEF bootstrapAdmin
<1>3. CASE UNCHANGED users BY <1>3
<1> QED BY <1>1, <1>2, <1>3
  DEF Next, vars, identify, insertUser, rollBack, bootstrapAsset, commitAsset, abortAsset

LEMMA VerifiedStep == AccountsInv /\ [Next]_vars => VerifiedOwnsEmail'
<1> SUFFICES ASSUME AccountsInv, [Next]_vars, NEW l \in Logins, users'[l] = "kyc_pending"
             PROVE  \E e \in Emails : emails'[e] = [owner |-> l, verified |-> TRUE]
  BY DEF VerifiedOwnsEmail
<1>0. TypeOK /\ TypeOK' BY AccountsTyped DEF AccountsInv
<1>1. CASE users[l] = "kyc_pending"
  <2>1. PICK e \in Emails : emails[e] = [owner |-> l, verified |-> TRUE]
    BY <1>1 DEF AccountsInv, VerifiedOwnsEmail
  <2>2. emails'[e].owner = l /\ emails'[e].verified
    BY <2>1, NoneIsNothing, AddressesStay
  <2>3. emails'[e] = [owner |-> l, verified |-> TRUE] BY <1>0, <2>2 DEF TypeOK
  <2> QED BY <2>3
<1>2. CASE users[l] # "kyc_pending"
  <2> DEFINE e == requests[l].claims.email
  <2>1. linkEmail(l) /\ users'[l] = statusAfter(l, requests[l].claims)
    BY <1>2, StatusesGoOn
  <2>2. requests[l].claims.verified BY <1>0, <1>2, <2>1, RowsAreTyped, StatusAfterIs
  <2>3. e \in Emails BY <2>1, LinkedAddress
  <2>4. PICK verified \in BOOLEAN :
          /\ emails' = [emails EXCEPT ![e] = [owner |-> l, verified |-> verified]]
          /\ verified <=> emails[e].verified \/ requests[l].claims.verified
    BY <2>1, LinkedAddress
  <2>5. emails'[e] = [owner |-> l, verified |-> TRUE]
    <3> HIDE DEF e
    <3>1. verified = TRUE BY <2>2, <2>4
    <3> QED BY <1>0, <2>3, <2>4, <3>1 DEF TypeOK
  <2> QED BY <2>3, <2>5
<1> QED BY <1>1, <1>2
-----------------------------------------------------------------------------
(* Accounts.                                                               *)

\* Accounts stay, and an overlap is forgotten only with an account.
LEMMA KnownStays ==
  AccountsInv /\ [Next]_vars =>
    \A l \in Logins, a \in Assets : <<l, a>> \in Known => <<l, a>> \in Known'
BY DEF Next, vars, identityVars, Known, identify, bootstrapAdmin, insertUser,
       linkEmail, rollBack, bootstrapAsset, commitAsset, abortAsset

\* A request that starts has seen what is enabled, and is known to overlap
\* the command that is under way.
LEMMA RequestSees ==
  ASSUME AccountsInv, NEW l \in Logins, NEW claims \in Claims, insertUser(l, claims)
  PROVE  OverlapsKnown' /\ MissingByOverlapOnly'
<1>0. TypeOK /\ ClaimsNamed /\ OverlapsKnown /\ MissingByOverlapOnly BY DEF AccountsInv
<1>1. \A k \in Logins, a \in Assets : <<k, a>> \in Known => <<k, a>> \in Known'
  BY KnownStays DEF Next
<1>2. UNCHANGED <<users, assets, accounts, command>> BY DEF insertUser
<1>3. command # NoCommand => <<l, command.asset>> \in Known'
  BY <1>0, NoneIsNothing DEF ClaimsNamed, insertUser, Known
<1>4. \A a \in Assets : assets[a] = "enabled" => a \in requests'[l].grants
  BY <1>0 DEF TypeOK, insertUser
<1>5. \A k \in Logins \ {l} : requests'[k] = requests[k]
  BY <1>0 DEF TypeOK, insertUser
<1>6. OverlapsKnown'
  <2>1. ASSUME NEW k \in Logins, ~rowIsFree(k)'
        PROVE  /\ \A a \in Assets :
                    assets'[a] = "enabled" => a \in requests'[k].grants \/ <<k, a>> \in Known'
               /\ command' # NoCommand => <<k, command'.asset>> \in Known'
    <3>1. CASE k = l BY <1>2, <1>3, <1>4, <3>1
    <3>2. CASE k # l
      BY <1>0, <1>1, <1>2, <1>5, <2>1, <3>2 DEF OverlapsKnown, ClaimsNamed, rowIsFree
    <3> QED BY <3>1, <3>2
  <2>2. ASSUME command' # NoCommand, NEW k \in Logins,
               users'[k] \in {"email_pending", "kyc_pending"}
        PROVE  k \in command'.grants \/ <<k, command'.asset>> \in Known'
    BY <1>0, <1>1, <1>2, <2>2 DEF OverlapsKnown, ClaimsNamed
  <2> QED BY <2>1, <2>2 DEF OverlapsKnown
<1>7. MissingByOverlapOnly' BY <1>0, <1>1, <1>2 DEF MissingByOverlapOnly, Known
<1> QED BY <1>6, <1>7

\* A request that commits makes up for what it saw; the rest is known.
LEMMA RequestGrants ==
  ASSUME AccountsInv, NEW l \in Logins, linkEmail(l)
  PROVE  OverlapsKnown' /\ MissingByOverlapOnly'
<1>0. TypeOK /\ ClaimsNamed /\ OverlapsKnown /\ MissingByOverlapOnly BY DEF AccountsInv
<1>1. \A k \in Logins, a \in Assets : <<k, a>> \in Known => <<k, a>> \in Known'
  BY KnownStays DEF Next
<1>2. UNCHANGED <<assets, command>> /\ ~rowIsFree(l) BY DEF linkEmail
<1>3. \A k \in Logins \ {l} : requests'[k] = requests[k] /\ users'[k] = users[k]
  BY <1>0 DEF TypeOK, linkEmail
<1>4. rowIsFree(l)' BY <1>0 DEF TypeOK, linkEmail, rowIsFree
<1>5. \A a \in requests[l].grants : <<l, a>> \in Known' BY DEF linkEmail, Known
<1>6. OverlapsKnown'
  <2>1. ASSUME NEW k \in Logins, ~rowIsFree(k)'
        PROVE  /\ \A a \in Assets :
                    assets'[a] = "enabled" => a \in requests'[k].grants \/ <<k, a>> \in Known'
               /\ command' # NoCommand => <<k, command'.asset>> \in Known'
    BY <1>0, <1>1, <1>2, <1>3, <1>4, <2>1 DEF OverlapsKnown, ClaimsNamed, rowIsFree
  <2>2. ASSUME command' # NoCommand, NEW k \in Logins,
               users'[k] \in {"email_pending", "kyc_pending"}
        PROVE  k \in command'.grants \/ <<k, command'.asset>> \in Known'
    <3>1. CASE k = l BY <1>0, <1>1, <1>2, <2>2, <3>1 DEF OverlapsKnown, ClaimsNamed
    <3>2. CASE k # l
      BY <1>0, <1>1, <1>2, <1>3, <2>2, <3>2 DEF OverlapsKnown, ClaimsNamed
    <3> QED BY <3>1, <3>2
  <2> QED BY <2>1, <2>2 DEF OverlapsKnown
<1>7. ASSUME NEW k \in Logins, NEW a \in Assets,
             users'[k] \in {"email_pending", "kyc_pending"}, assets'[a] = "enabled"
      PROVE  <<k, a>> \in Known'
  <2>1. CASE k = l BY <1>0, <1>1, <1>2, <1>5, <1>7, <2>1 DEF OverlapsKnown
  <2>2. CASE k # l
    BY <1>0, <1>1, <1>2, <1>3, <1>7, <2>2 DEF MissingByOverlapOnly, Known
  <2> QED BY <2>1, <2>2
<1> QED BY <1>6, <1>7 DEF MissingByOverlapOnly, Known

\* The command has the users it sees, and is known to overlap the others.
LEMMA CommandSees ==
  ASSUME AccountsInv, NEW a \in Assets, bootstrapAsset(a)
  PROVE  OverlapsKnown' /\ MissingByOverlapOnly'
<1>0. TypeOK /\ OverlapsKnown /\ MissingByOverlapOnly BY DEF AccountsInv
<1>1. \A k \in Logins, b \in Assets : <<k, b>> \in Known => <<k, b>> \in Known'
  BY KnownStays DEF Next
<1>2. /\ UNCHANGED <<users, assets, accounts, requests>>
      /\ command' = [asset |-> a, grants |-> {l \in Logins : loadPrincipal(l)}]
  BY DEF bootstrapAsset
<1>3. \A l \in Logins : ~rowIsFree(l) => <<l, a>> \in Known' BY DEF bootstrapAsset, Known
<1>4. OverlapsKnown'
  <2>1. \A l \in Logins : users'[l] \in {"email_pending", "kyc_pending"} =>
          l \in command'.grants
    BY <1>2 DEF loadPrincipal
  <2> QED BY <1>0, <1>1, <1>2, <1>3, <2>1 DEF OverlapsKnown, rowIsFree
<1>5. MissingByOverlapOnly' BY <1>0, <1>1, <1>2 DEF MissingByOverlapOnly, Known
<1> QED BY <1>4, <1>5

\* An asset that is enabled is one the command had.
LEMMA CommandGrants ==
  ASSUME AccountsInv, NEW enabled \in BOOLEAN, commitAsset(enabled)
  PROVE  OverlapsKnown' /\ MissingByOverlapOnly'
<1>0. TypeOK /\ ClaimsNamed /\ OverlapsKnown /\ MissingByOverlapOnly BY DEF AccountsInv
<1>1. \A k \in Logins, b \in Assets : <<k, b>> \in Known => <<k, b>> \in Known'
  BY KnownStays DEF Next
<1>2. /\ command # NoCommand /\ command' = NoCommand /\ command.asset \in Assets
      /\ UNCHANGED <<users, requests>>
  BY <1>0 DEF commitAsset, ClaimsNamed
<1>3. \A b \in Assets \ {command.asset} : assets'[b] = assets[b]
  BY <1>0 DEF TypeOK, commitAsset
<1>4. \A l \in command.grants : <<l, command.asset>> \in Known' BY DEF commitAsset, Known
<1>5. OverlapsKnown'
  <2>1. ASSUME NEW l \in Logins, ~rowIsFree(l)', NEW b \in Assets, assets'[b] = "enabled"
        PROVE  b \in requests'[l].grants \/ <<l, b>> \in Known'
    <3>1. CASE b = command.asset
      BY <1>0, <1>1, <1>2, <2>1, <3>1 DEF OverlapsKnown, rowIsFree
    <3>2. CASE b # command.asset
      BY <1>0, <1>1, <1>2, <1>3, <2>1, <3>2 DEF OverlapsKnown, rowIsFree
    <3> QED BY <3>1, <3>2
  <2> QED BY <1>2, <2>1 DEF OverlapsKnown
<1>6. ASSUME NEW l \in Logins, NEW b \in Assets,
             users'[l] \in {"email_pending", "kyc_pending"}, assets'[b] = "enabled"
      PROVE  <<l, b>> \in Known'
  <2>1. CASE b = command.asset
    BY <1>0, <1>1, <1>2, <1>4, <1>6, <2>1 DEF OverlapsKnown
  <2>2. CASE b # command.asset
    BY <1>0, <1>1, <1>2, <1>3, <1>6, <2>2 DEF MissingByOverlapOnly, Known
  <2> QED BY <2>1, <2>2
<1> QED BY <1>5, <1>6 DEF MissingByOverlapOnly, Known

LEMMA AccountsKnown == AccountsInv /\ [Next]_vars => OverlapsKnown' /\ MissingByOverlapOnly'
<1> SUFFICES ASSUME AccountsInv, [Next]_vars
             PROVE  OverlapsKnown' /\ MissingByOverlapOnly'
  OBVIOUS
<1>0. TypeOK /\ ClaimsNamed /\ OverlapsKnown /\ MissingByOverlapOnly BY DEF AccountsInv
<1>1. CASE \E l \in Logins, e \in Emails : bootstrapAdmin(l, e)
  <2>1. PICK l \in Logins, e \in Emails : bootstrapAdmin(l, e) BY <1>1
  <2>2. UNCHANGED <<assets, accounts, requests, command, overlapped>>
    BY <2>1 DEF bootstrapAdmin
  <2>3. \A k \in Logins :
          users'[k] \in {"email_pending", "kyc_pending"} => users'[k] = users[k]
    BY <1>0, <2>1 DEF TypeOK, bootstrapAdmin
  <2> QED BY <1>0, <2>2, <2>3
    DEF OverlapsKnown, MissingByOverlapOnly, Known, rowIsFree
<1>2. CASE \E l \in Logins : rollBack(l)
  <2>1. PICK l \in Logins : rollBack(l) BY <1>2
  <2>2. UNCHANGED <<users, assets, accounts, command, overlapped>>
    BY <2>1 DEF rollBack
  <2>3. \A k \in Logins : ~rowIsFree(k)' => requests'[k] = requests[k] /\ ~rowIsFree(k)
    BY <1>0, <2>1 DEF TypeOK, rollBack, rowIsFree
  <2> QED BY <1>0, <2>2, <2>3 DEF OverlapsKnown, MissingByOverlapOnly, Known
<1>3. CASE abortAsset
  BY <1>0, <1>3 DEF abortAsset, OverlapsKnown, MissingByOverlapOnly, Known, rowIsFree
<1>4. CASE UNCHANGED <<users, assets, accounts, requests, command, overlapped>>
  BY <1>0, <1>4 DEF OverlapsKnown, MissingByOverlapOnly, Known, rowIsFree
<1> QED BY <1>1, <1>2, <1>3, <1>4, RequestSees, RequestGrants, CommandSees, CommandGrants
  DEF Next, vars, identify
-----------------------------------------------------------------------------
\* The inductive invariant: the two safety properties, with the names tokens
\* carry, and what requests and commands know of each other while they run.
THEOREM AccountsInvariant == Spec => []AccountsInv
<1>1. AccountsInv /\ [Next]_vars => AccountsInv'
  BY AccountsTyped, VerifiedStep, AccountsKnown DEF AccountsInv
<1> QED BY <1>1, AccountsStart, PTL DEF Spec

\* Whoever counts as verified owns a verified address, for any number of
\* logins that sign in with one address, with fresh tokens and with old ones
\* (provisionOrLoadUser).
THEOREM VerifiedHaveEmail == Spec => []VerifiedOwnsEmail
<1>1. AccountsInv => VerifiedOwnsEmail BY DEF AccountsInv
<1> QED BY <1>1, AccountsInvariant, PTL

\* A customer lacks the account of an enabled asset only if a sign-in and the
\* command asset overlapped (provisionOrLoadUser, bootstrap.ts).
THEOREM AccountsComplete == Spec => []MissingByOverlapOnly
<1>1. AccountsInv => MissingByOverlapOnly BY DEF AccountsInv
<1> QED BY <1>1, AccountsInvariant, PTL

\* No step takes a verification, an address or a status back.
THEOREM SignInUndoesNothing == Spec => NothingIsUndone
<1>1. AccountsInv /\ [Next]_vars =>
        \A l \in Logins :
          \/ users'[l] = users[l] \/ users[l] = "none"
          \/ users[l] = "email_pending" /\ users'[l] = "kyc_pending"
  <2> SUFFICES ASSUME AccountsInv, [Next]_vars, NEW l \in Logins
               PROVE  \/ users'[l] = users[l] \/ users[l] = "none"
                      \/ users[l] = "email_pending" /\ users'[l] = "kyc_pending"
    OBVIOUS
  <2>1. TypeOK BY DEF AccountsInv
  <2>2. users[l] \in {"none", "email_pending", "kyc_pending", "active"}
    BY <2>1 DEF TypeOK
  <2>3. requests[l].claims \in Claims BY <2>1, RowsAreTyped
  <2> QED BY <2>1, <2>2, <2>3, StatusesGoOn, StatusAfterIs
<1> QED BY <1>1, AccountsInvariant, AddressesStay, PTL DEF Spec, NothingIsUndone
=============================================================================
