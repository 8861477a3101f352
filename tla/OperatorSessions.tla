---------------------------- MODULE OperatorSessions ---------------------------
(***************************************************************************)
(* Signing in as an operator.  A page asks the API for a nonce, has the    *)
(* wallet sign the message it came with, and posts the signature; the API  *)
(* takes the nonce out of its store, awaits the check of the signature and *)
(* only then puts a session in.  Sessions and nonces are in the API's      *)
(* memory; the page keeps its session in React state, the bearer token in  *)
(* a variable of the API client and both in the browser's local storage.   *)
(* Attempt k stands for the k-th click, its nonce, its token and its       *)
(* session.  The clocks of page and API agree.                             *)
(***************************************************************************)
EXTENDS ConnectedWallet

CONSTANTS
    MaxAttempts,     \* bound on attempts to sign in
    MaxCopies,       \* how often one request to create a session may be delivered
    MaxDisturbances  \* bound on everything the page and the API do not ask for

ASSUME SessionAssumption ==
    /\ MaxAttempts \in Nat \ {0} /\ MaxCopies \in Nat \ {0}
    /\ MaxDisturbances \in Nat

VARIABLES
    session,    \* the session in the state of the page, 0: none
    token,      \* the token the API client sends, 0: none
    stored,     \* the session in local storage, 0: none
    status,     \* what the page shows of the session
    attempt,    \* the attempts
    nonces,     \* API: nonces in the store
    copies,     \* requests to create a session not handled yet
    checking,   \* requests whose signature check is awaited
    made,       \* how many sessions were made of a nonce
    sessions,   \* API: sessions in the store
    expired,    \* sessions and nonces whose time is over
    disturbed   \* disturbances so far

signInVars == <<session, token, stored, status>>
apiVars == <<nonces, copies, checking, made, sessions>>
sessionVars == <<account, signInVars, attempt, apiVars, expired, disturbed>>

Ids == 1..MaxAttempts

\* left: the page that made the attempt is gone; nothing it awaits is used.
Phases == {"none", "nonce", "signing", "creating", "over"}
NoAttempt == [phase |-> "none", by |-> NoAccount, signer |-> NoAccount, left |-> FALSE]

SessionInit ==
    /\ account \in Accounts \cup {NoAccount}
    /\ session = 0 /\ token = 0 /\ stored = 0 /\ status = "idle"
    /\ attempt = [k \in Ids |-> NoAttempt]
    /\ nonces = {} /\ sessions = {} /\ expired = {}
    /\ copies = [k \in Ids |-> 0] /\ checking = copies /\ made = copies
    /\ disturbed = 0

-------------------------------------------------------------------------------
\* The state of the page.

\* Mutant: the API client keeps its token.
ForgetTheSession == session' = 0 /\ stored' = 0 /\ UNCHANGED token

\* writeStoredSession(null) with setSession(null).
Forget == session' = 0 /\ stored' = 0 /\ token' = 0

ClearSession == Forget /\ status' = "idle"

\* Mutant: only the time is looked at.
ExpiredOnly(k, a) == k # 0 /\ k \in expired

\* The effect of the hook clears a session that is over or another account's; a
\* wallet that is disconnected clears nothing.
Dismissed(k, a) ==
    k # 0 /\ (k \in expired \/ (a # NoAccount /\ attempt[k].by # a))

\* The effect runs with every change of the account and of the session.
ShowSession(k, a) ==
    IF Dismissed(k, a) THEN ClearSession
    ELSE session' = k /\ token' = k /\ stored' = k /\ status' = "active"

\* catch: whatever session there is now is cleared.
Caught(k) ==
    /\ attempt' = [attempt EXCEPT ![k].phase = "over"]
    /\ IF attempt[k].left THEN UNCHANGED signInVars ELSE Forget /\ status' = "error"

\* A failed read, a rejected prompt: only the page takes notice.
Failed(k) == Caught(k) /\ UNCHANGED <<account, apiVars, expired, disturbed>>

-------------------------------------------------------------------------------
\* The buttons.

\* Attempt k begins.
Begin(k, a) ==
    /\ attempt[k].phase = "none"
    /\ \A j \in 1..(k - 1) : attempt[j].phase # "none"
    /\ attempt' = [attempt EXCEPT ![k] = a]

Asking == [NoAttempt EXCEPT !.phase = "nonce", !.by = account]

\* SIGN SESSION.
Sign ==
    /\ session \in expired \cup {0} /\ account # NoAccount /\ status # "signing"
    /\ \E k \in Ids : Begin(k, Asking)
    /\ status' = "signing"
    /\ UNCHANGED <<account, session, token, stored, apiVars, expired, disturbed>>

\* RE-SIGN SESSION, of a session from another wallet or of an older release:
\* the session is cleared at once and an attempt begins, if there is an account.
\* It and Lock stay on the page until it renders after the session is over.
SignAgain ==
    /\ session # 0 /\ status # "signing" /\ Forget
    /\ IF account = NoAccount
       THEN status' = "error" /\ UNCHANGED attempt
       ELSE status' = "signing" /\ \E k \in Ids : Begin(k, Asking)
    /\ UNCHANGED <<account, apiVars, expired, disturbed>>

\* Lock.
Lock ==
    /\ session # 0 /\ ClearSession
    /\ UNCHANGED <<account, attempt, apiVars, expired, disturbed>>

-------------------------------------------------------------------------------
\* An attempt.

\* The nonce arrives, and the wallet is asked for a signature of the account it is
\* connected to by now.
NonceArrives(k) ==
    /\ attempt[k].phase = "nonce"
    /\ nonces' = nonces \cup {k}
    /\ IF account = NoAccount THEN Caught(k)
       ELSE /\ attempt' = [attempt EXCEPT ![k].phase = "signing", ![k].signer = account]
            /\ UNCHANGED signInVars
    /\ UNCHANGED <<account, copies, checking, made, sessions, expired, disturbed>>

NonceFails(k) == attempt[k].phase = "nonce" /\ Failed(k)

\* The wallet signs, and the request is sent; it may reach the API more than once.
Signed(k, n) ==
    /\ attempt[k].phase = "signing" /\ ~attempt[k].left
    /\ attempt' = [attempt EXCEPT ![k].phase = "creating"]
    /\ copies' = [copies EXCEPT ![k] = n]
    /\ UNCHANGED <<account, signInVars, nonces, checking, made, sessions, expired,
                   disturbed>>

Rejected(k) == attempt[k].phase = "signing" /\ Failed(k)

\* The answer of a request that failed, or none before the connection is lost.
CreateFails(k) == attempt[k].phase = "creating" /\ Failed(k)

\* Mutant: the nonce stays until the session is made.
ConsumeLater(k) ==
    /\ copies[k] > 0 /\ copies' = [copies EXCEPT ![k] = @ - 1]
    /\ checking' = IF k \in nonces \ expired
                   THEN [checking EXCEPT ![k] = @ + 1] ELSE checking
    /\ UNCHANGED <<account, signInVars, attempt, nonces, made, sessions, expired,
                   disturbed>>

\* consume_nonce: the nonce is gone whatever comes of it; the check of the
\* signature begins if it was there and in time.
Consume(k) ==
    /\ copies[k] > 0 /\ copies' = [copies EXCEPT ![k] = @ - 1]
    /\ nonces' = nonces \ {k}
    /\ checking' = IF k \in nonces \ expired
                   THEN [checking EXCEPT ![k] = @ + 1] ELSE checking
    /\ UNCHANGED <<account, signInVars, attempt, made, sessions, expired, disturbed>>

\* The check fails, for want of the right signature or of the zkLogin verifier.
Refuse(k) ==
    /\ checking[k] > 0 /\ checking' = [checking EXCEPT ![k] = @ - 1]
    /\ UNCHANGED <<account, signInVars, attempt, nonces, copies, made, sessions,
                   expired, disturbed>>

\* The check succeeds: the session is put in.  Its time is counted from here.
\* The page shows it when the answer reaches it, and when nothing else ended the
\* attempt before.
Create(k, answered) ==
    /\ checking[k] > 0 /\ attempt[k].signer = attempt[k].by
    /\ checking' = [checking EXCEPT ![k] = @ - 1]
    /\ made' = [made EXCEPT ![k] = @ + 1]
    /\ sessions' = sessions \cup {k} /\ expired' = expired \ {k}
    /\ IF answered /\ attempt[k].phase = "creating"
       THEN /\ attempt' = [attempt EXCEPT ![k].phase = "over"]
            /\ IF attempt[k].left THEN UNCHANGED signInVars ELSE ShowSession(k, account)
       ELSE UNCHANGED <<attempt, signInVars>>
    /\ UNCHANGED <<account, nonces, copies, disturbed>>

-------------------------------------------------------------------------------
\* What nobody on this page asked for.

Disturb == disturbed < MaxDisturbances /\ disturbed' = disturbed + 1

\* The wallet is connected, disconnected or switched.
SwitchWallet(a) ==
    /\ Disturb /\ a # account /\ account' = a
    /\ IF Dismissed(session, a) THEN ClearSession ELSE UNCHANGED signInVars
    /\ UNCHANGED <<attempt, apiVars, expired>>

\* The time of a nonce or of a session is over.  The page notices when it renders,
\* the API when the nonce or the token is used.
Expire(k) ==
    /\ Disturb /\ k \notin expired /\ k \in nonces \cup sessions
    /\ expired' = expired \cup {k}
    /\ UNCHANGED <<account, signInVars, attempt, apiVars>>

\* validate_token drops every session that is over.
Purge ==
    /\ sessions \cap expired # {} /\ sessions' = sessions \ expired
    /\ UNCHANGED <<account, signInVars, attempt, nonces, copies, checking, made,
                   expired, disturbed>>

\* The API starts anew: its stores are empty and what it awaited is dropped.
Restart ==
    /\ Disturb /\ nonces' = {} /\ sessions' = {}
    /\ checking' = [k \in Ids |-> 0]
    /\ UNCHANGED <<account, signInVars, attempt, copies, made, expired>>

\* The page is loaded again: session and token come from local storage, if the
\* session there is not over, and the attempts of the page are left to themselves.
Reload ==
    /\ Disturb
    /\ LET k == IF stored \in expired THEN 0 ELSE stored IN
          IF Dismissed(k, account) THEN ClearSession
          ELSE /\ session' = k /\ token' = k /\ UNCHANGED stored
               /\ status' = IF k = 0 THEN "idle" ELSE "active"
    /\ attempt' = [k \in Ids |-> [attempt[k] EXCEPT !.left = attempt[k].phase # "none"]]
    /\ UNCHANGED <<account, apiVars, expired>>

\* Another tab of the browser signs out, or signs in as any account.
AnotherTab(a) ==
    /\ Disturb
    /\ \/ stored' = 0 /\ UNCHANGED <<attempt, made, sessions>>
       \/ \E k \in Ids :
             /\ Begin(k, [phase |-> "over", by |-> a, signer |-> a, left |-> TRUE])
             /\ made' = [made EXCEPT ![k] = 1]
             /\ sessions' = sessions \cup {k} /\ stored' = k
    /\ UNCHANGED <<account, session, token, status, nonces, copies, checking, expired>>

-------------------------------------------------------------------------------
Attempt(k) ==
    \/ NonceArrives(k) \/ NonceFails(k)
    \/ \E n \in 1..MaxCopies : Signed(k, n)
    \/ Rejected(k) \/ CreateFails(k)
    \/ Consume(k) \/ Refuse(k)
    \/ \E answered \in BOOLEAN : Create(k, answered)
    \/ Expire(k)

SessionNext ==
    \/ Sign \/ SignAgain \/ Lock
    \/ \E k \in Ids : Attempt(k)
    \/ \E a \in Accounts \cup {NoAccount} : SwitchWallet(a)
    \/ Purge \/ Restart \/ Reload
    \/ \E a \in Accounts : AnotherTab(a)

SessionSpec == SessionInit /\ [][SessionNext]_sessionVars

-------------------------------------------------------------------------------
SessionTypeOK ==
    /\ AccountTypeOK
    /\ session \in 0..MaxAttempts /\ token \in 0..MaxAttempts /\ stored \in 0..MaxAttempts
    /\ status \in {"idle", "signing", "active", "error"}
    /\ attempt \in [Ids -> [phase : Phases, by : Accounts \cup {NoAccount},
                            signer : Accounts \cup {NoAccount}, left : BOOLEAN]]
    /\ nonces \subseteq Ids /\ sessions \subseteq Ids /\ expired \subseteq Ids
    /\ copies \in [Ids -> Nat] /\ checking \in [Ids -> Nat] /\ made \in [Ids -> Nat]
    /\ disturbed \in 0..MaxDisturbances

\* The token the page sends is that of the session it shows, and it says it is
\* signed in only with a session: through switches of the wallet, reloads and
\* attempts that end in any order (useOperatorSession.ts, api.ts).
TokenIsTheSessions ==
    /\ token = session
    /\ status \in {"idle", "error"} => session = 0
    /\ status = "active" => session # 0

\* The session of the page, when a wallet is connected, is the connected
\* account's, and that account signed its nonce, although attempts of earlier
\* accounts are answered late and other tabs share the storage.
SessionIsTheAccounts ==
    session # 0 =>
        /\ made[session] > 0
        /\ attempt[session].signer = attempt[session].by
        /\ account # NoAccount => attempt[session].by = account

\* At most one session comes of a nonce, although the store is unlocked while the
\* signature is checked and a request may arrive twice.
OneSessionPerNonce == \A k \in Ids : made[k] <= 1

===============================================================================
