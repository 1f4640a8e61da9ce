---------------------------- MODULE OAuthSessions ----------------------------
(***************************************************************************)
(* Adding an account through OAuth: a session kept in memory for half an    *)
(* hour, and two ways to finish it.  The browser's redirect (OAuthCallback) *)
(* finds the session by its state, the administrator's form                 *)
(* (ExchangeOAuthCode) by its identifier; both exchange the authorization   *)
(* code, insert a row, add the account to the pool, and the first leaves a  *)
(* result in the session that the frontend polls for.  The browser may      *)
(* load the redirect twice, and both ways may be taken for one code.        *)
(* State, verifier, proxy and names are left out: a session stands for its  *)
(* identifier and its state.                                                *)
(***************************************************************************)
EXTENDS Integers, FiniteSets

CONSTANTS
    OaSessions,   \* session identifiers
    OaHandlers,   \* running requests to /auth/callback and exchange-code
    NoSession

VARIABLES
    oaSession,   \* sessions: "none", "live", or "expired" and not yet cleaned up
    oaCallback,  \* CallbackCode is set
    oaResult,    \* ExchangeResult
    oaCode,      \* the authorization code of each session, at the authorization server
    oaJob,       \* next step, way and session of each request
    oaRows,      \* rows inserted for each session
    oaPool,      \* accounts added to the pool for each session
    oaReported   \* what a poll has told the frontend

oaVars == <<oaSession, oaCallback, oaResult, oaCode, oaJob, oaRows, oaPool, oaReported>>

OaIdle == [at |-> "idle", way |-> "none", session |-> NoSession]

OAuthInit ==
    /\ oaSession = [s \in OaSessions |-> "none"]
    /\ oaCallback = [s \in OaSessions |-> FALSE]
    /\ oaResult = [s \in OaSessions |-> "none"]
    /\ oaCode = [s \in OaSessions |-> "none"]
    /\ oaJob = [h \in OaHandlers |-> OaIdle]
    /\ oaRows = [s \in OaSessions |-> 0]
    /\ oaPool = [s \in OaSessions |-> 0]
    /\ oaReported = [s \in OaSessions |-> {}]

GenerateOAuthURL(s) ==
    /\ oaSession[s] = "none" /\ oaCode[s] = "none"
    /\ oaSession' = [oaSession EXCEPT ![s] = "live"]
    /\ oaCode' = [oaCode EXCEPT ![s] = "awaited"]
    /\ UNCHANGED <<oaCallback, oaResult, oaJob, oaRows, oaPool, oaReported>>

\* The user consents and the authorization server redirects with a code.
UserConsents(s) ==
    /\ oaCode[s] = "awaited"
    /\ oaCode' = [oaCode EXCEPT ![s] = "issued"]
    /\ UNCHANGED <<oaSession, oaCallback, oaResult, oaJob, oaRows, oaPool, oaReported>>

SessionExpires(s) ==
    /\ oaSession[s] = "live"
    /\ oaSession' = [oaSession EXCEPT ![s] = "expired"]
    /\ UNCHANGED <<oaCallback, oaResult, oaCode, oaJob, oaRows, oaPool, oaReported>>

cleanupLoop ==
    /\ \E s \in OaSessions : oaSession[s] = "expired"
    /\ oaSession' = [s \in OaSessions |-> IF oaSession[s] = "expired" THEN "none" ELSE oaSession[s]]
    /\ UNCHANGED <<oaCallback, oaResult, oaCode, oaJob, oaRows, oaPool, oaReported>>

-----------------------------------------------------------------------------
\* One request, from its look-up to its result.

\* findByState or get: a session past its time is not found.
LookUp(h, s, way) ==
    /\ oaJob[h].at = "idle"
    /\ oaSession[s] = "live" /\ oaCode[s] \in {"issued", "used"}
    /\ oaJob' = [oaJob EXCEPT ![h] = [at |-> "exchange", way |-> way, session |-> s]]
    /\ oaCallback' = [oaCallback EXCEPT ![s] = @ \/ way = "callback"]
    /\ UNCHANGED <<oaSession, oaResult, oaCode, oaRows, oaPool, oaReported>>

\* Only the callback leaves a result, in the session it found, deleted or not.
EndHandler(h, result) ==
    LET job == oaJob[h]
    IN  /\ oaResult' = IF job.way = "callback" THEN [oaResult EXCEPT ![job.session] = result] ELSE oaResult
        /\ oaJob' = [oaJob EXCEPT ![h] = OaIdle]

\* doOAuthCodeExchange: a code is good once.  The form's session is deleted as soon as the
\* exchange has succeeded.
ExchangeSucceeds(h) ==
    LET job == oaJob[h]
    IN  /\ job.at = "exchange" /\ oaCode[job.session] = "issued"
        /\ oaCode' = [oaCode EXCEPT ![job.session] = "used"]
        /\ oaSession' = IF job.way = "form" THEN [oaSession EXCEPT ![job.session] = "none"] ELSE oaSession
        /\ \/ oaJob' = [oaJob EXCEPT ![h].at = "insert"] /\ UNCHANGED oaResult
           \/ EndHandler(h, "failed")      \* no refresh_token in the answer
        /\ UNCHANGED <<oaCallback, oaRows, oaPool, oaReported>>

\* The code was used, or the request failed: before or after the server took the code.
ExchangeFails(h) ==
    LET job == oaJob[h]
    IN  /\ job.at = "exchange"
        /\ \/ UNCHANGED oaCode
           \/ oaCode' = [oaCode EXCEPT ![job.session] = "used"]
        /\ EndHandler(h, "failed")
        /\ UNCHANGED <<oaSession, oaCallback, oaRows, oaPool, oaReported>>

\* Mutant: the result is left before the row is written.
InsertAccountReported(h) ==
    LET job == oaJob[h]
    IN  /\ job.at = "insert"
        /\ oaRows' = [oaRows EXCEPT ![job.session] = @ + 1]
        /\ oaResult' = IF job.way = "callback" THEN [oaResult EXCEPT ![job.session] = "ok"] ELSE oaResult
        /\ oaJob' = [oaJob EXCEPT ![h].at = "add"]
        /\ UNCHANGED <<oaSession, oaCallback, oaCode, oaPool, oaReported>>

InsertAccount(h) ==
    LET job == oaJob[h]
    IN  /\ job.at = "insert"
        /\ oaRows' = [oaRows EXCEPT ![job.session] = @ + 1]
        /\ oaJob' = [oaJob EXCEPT ![h].at = "add"]
        /\ UNCHANGED <<oaSession, oaCallback, oaResult, oaCode, oaPool, oaReported>>

\* The insert reports an error, and the row may be there all the same (a timeout).
InsertAccountFails(h) ==
    LET job == oaJob[h]
    IN  /\ job.at = "insert"
        /\ \/ UNCHANGED oaRows
           \/ oaRows' = [oaRows EXCEPT ![job.session] = @ + 1]
        /\ EndHandler(h, "failed")
        /\ UNCHANGED <<oaSession, oaCallback, oaCode, oaPool, oaReported>>

AddToPool(h) ==
    LET job == oaJob[h]
    IN  /\ job.at = "add"
        /\ oaPool' = [oaPool EXCEPT ![job.session] = @ + 1]
        /\ oaJob' = [oaJob EXCEPT ![h].at = "result"]
        /\ UNCHANGED <<oaSession, oaCallback, oaResult, oaCode, oaRows, oaReported>>

LeaveResult(h) ==
    /\ oaJob[h].at = "result"
    /\ EndHandler(h, "ok")
    /\ UNCHANGED <<oaSession, oaCallback, oaCode, oaRows, oaPool, oaReported>>

-----------------------------------------------------------------------------
\* PollOAuthCallback: a result is told once, and the session deleted; before that the
\* answer is "processing" or "waiting".
PollOAuthCallback(s) ==
    /\ oaSession[s] = "live"
    /\ IF oaResult[s] # "none"
       THEN /\ oaReported' = [oaReported EXCEPT ![s] = @ \cup {oaResult[s]}]
            /\ oaSession' = [oaSession EXCEPT ![s] = "none"]
       ELSE /\ oaReported' = [oaReported EXCEPT ![s] =
                                  @ \cup {IF oaCallback[s] THEN "processing" ELSE "waiting"}]
            /\ UNCHANGED oaSession
    /\ UNCHANGED <<oaCallback, oaResult, oaCode, oaJob, oaRows, oaPool>>

OAuthStep(h) ==
    \/ \E s \in OaSessions, way \in {"callback", "form"} : LookUp(h, s, way)
    \/ ExchangeSucceeds(h) \/ ExchangeFails(h)
    \/ InsertAccount(h) \/ InsertAccountFails(h) \/ AddToPool(h) \/ LeaveResult(h)

OAuthNext ==
    \/ \E s \in OaSessions :
          \/ GenerateOAuthURL(s) \/ UserConsents(s) \/ SessionExpires(s) \/ PollOAuthCallback(s)
    \/ cleanupLoop
    \/ \E h \in OaHandlers : OAuthStep(h)

OAuthSpec == OAuthInit /\ [][OAuthNext]_oaVars

-----------------------------------------------------------------------------

\* One consent adds at most one row, however often the browser loads the redirect, and
\* if the form is submitted as well: nothing but the exchange of the code stands between
\* two requests that have both found the session.
OneAccountPerConsent == \A s \in OaSessions : oaRows[s] <= 1

\* The frontend is told of a success only when the account is stored and in the pool, and
\* an account in the pool has a row.  (The opposite does not hold: a second load of the
\* redirect fails on the used code and overwrites the result of the first.)
SuccessIsTrue ==
    \A s \in OaSessions :
        /\ "ok" \in oaReported[s] => oaRows[s] > 0 /\ oaPool[s] > 0
        /\ oaPool[s] <= oaRows[s]

\* A consent becomes one account, and a success that is shown is one, whichever of the two
\* ways come together (OneAccountPerConsent, SuccessIsTrue).
OAuthSound == OneAccountPerConsent /\ SuccessIsTrue

=============================================================================
