------------------------------- MODULE Sessions -------------------------------
(***************************************************************************)
(* Signing in: frontend/src/contexts/WalletContext.tsx, its buttons and    *)
(* lib/api/auth.ts, with backend/app/auth.                                 *)
(*                                                                         *)
(* An async function of the page is cut at its awaits, and so is the       *)
(* backend's verify_nonce_signature, whose statements share no             *)
(* transaction.  A verify request stays on the wire for good: the network  *)
(* may deliver it again or after the page is gone.  The effect that signs  *)
(* in runs before the page renders again.  An expired nonce or session is  *)
(* refused like a used nonce or a revoked session.                         *)
(*                                                                         *)
(* Bounds: the nonces and tokens that exist, and one disconnect at a time. *)
(***************************************************************************)

CONSTANTS
    Account,              \* wallet addresses, in lower case
    NoAccount,            \* null
    Nonce,                \* nonces create_nonce may draw
    NoNonce,
    Token,                \* access tokens that may be issued
    NoToken,
    Handler               \* bound: verify requests the backend runs at a time

ASSUME SessionsAssumption ==
    NoAccount \notin Account /\ NoNonce \notin Nonce /\ NoToken \notin Token

VARIABLES
    auth_nonces, sessions,    \* tables
    verifying,                \* where each run of verify_nonce_signature is
    posted,                   \* verify requests on the wire
    selected,                 \* the account the wallet extension has selected
    stored,                   \* the token in localStorage
    page,                     \* WalletProvider's state and refs
    restoring,                \* where restore, run on mounting, is
    login,                    \* where authenticateWallet is
    leaving                   \* where disconnect is

backendVars == <<auth_nonces, sessions, verifying>>
sessionVars == <<backendVars, posted, selected, stored, page, restoring, login, leaving>>

MaybeAccount == Account \cup {NoAccount}
MaybeNonce   == Nonce \cup {NoNonce}
MaybeToken   == Token \cup {NoToken}

NonceRow      == [wallet : MaybeAccount, used : BOOLEAN]
SessionRow    == [wallet : MaybeAccount, valid : BOOLEAN]
VerifyRequest == [wallet : Account, nonce : Nonce, signer : Account]
Verifying     == [at : {"idle", "mark", "insert", "answer"},
                  wallet : MaybeAccount, nonce : MaybeNonce, token : MaybeToken]
Page          == [address : MaybeAccount, provider : BOOLEAN, token : MaybeToken,
                  wallet : MaybeAccount, ready : BOOLEAN, due : BOOLEAN,
                  seen : MaybeAccount, attempted : MaybeAccount]
Login         == [at : {"none", "nonce", "sign", "verify", "me"},
                  account : MaybeAccount, nonce : MaybeNonce, token : MaybeToken]
Restoring     == [at : {"none", "me", "answer"}, token : MaybeToken]
Leaving       == [at : {"none", "logout", "wallet"}, token : MaybeToken]

IdleVerify == [at |-> "idle", wallet |-> NoAccount, nonce |-> NoNonce, token |-> NoToken]
Restored   == [at |-> "none", token |-> NoToken]
NoLogin    == [at |-> "none", account |-> NoAccount, nonce |-> NoNonce, token |-> NoToken]
Staying    == [at |-> "none", token |-> NoToken]

\* What WalletProvider shows when it mounts; AppKit has not reconnected yet.
\* Without a stored token there is nothing to restore.
Mounted(token) ==
    [address |-> NoAccount, provider |-> FALSE, token |-> token, wallet |-> NoAccount,
     ready |-> token = NoToken, due |-> FALSE, seen |-> NoAccount, attempted |-> NoAccount]

SessionsInit ==
    /\ auth_nonces = [n \in Nonce |-> [wallet |-> NoAccount, used |-> FALSE]]
    /\ sessions = [t \in Token |-> [wallet |-> NoAccount, valid |-> FALSE]]
    /\ verifying = [h \in Handler |-> IdleVerify]
    /\ posted = {}
    /\ selected = NoAccount
    /\ stored = NoToken
    /\ page = Mounted(NoToken)
    /\ restoring = Restored
    /\ login = NoLogin
    /\ leaving = Staying

isAuthenticating == login.at # "none"

isAuthenticatedAnyWallet == page.address # NoAccount /\ page.token # NoToken
isAuthenticated ==
    /\ page.address # NoAccount
    /\ page.token # NoToken
    /\ page.wallet = page.address

\* What the buttons go by: Index and Navbar by the address, the gates of RidePage and
\* DriverPage by the session.
ConnectShown    == page.address = NoAccount
GateShown       == ~ isAuthenticated
DisconnectShown == page.address # NoAccount

\* What the effect that signs in depends on.
Deps(p, l) == <<p.token, p.wallet, p.ready, p.provider, p.address, l.at # "none">>

\* The page renders p; the effect is due if what it depends on has changed.
Show(p, l) ==
    /\ ~ page.due
    /\ login' = l
    /\ page' = [p EXCEPT !.due = Deps(p, l) # Deps(page, login)]

persistAccessToken(token) == stored' = token

-----------------------------------------------------------------------------
(***************************************************************************)
(* backend/app/auth/service.py.                                            *)
(***************************************************************************)

create_nonce(wallet, n) ==
    /\ auth_nonces[n].wallet = NoAccount
    /\ auth_nonces' = [auth_nonces EXCEPT ![n] = [wallet |-> wallet, used |-> FALSE]]

MayVerifyUnsigned(r) == auth_nonces[r.nonce] = [wallet |-> r.wallet, used |-> FALSE]
\* What the row read and the signature must say.
MayVerify(r) ==
    /\ auth_nonces[r.nonce] = [wallet |-> r.wallet, used |-> FALSE]
    /\ r.signer = r.wallet

VerifyRead(h) ==
    \E r \in posted :
        /\ verifying[h].at = "idle"
        /\ MayVerify(r)
        /\ verifying' = [verifying EXCEPT ![h] =
               [at |-> "mark", wallet |-> r.wallet, nonce |-> r.nonce, token |-> NoToken]]
        /\ UNCHANGED <<auth_nonces, sessions, posted, selected, stored, page, restoring, login, leaving>>

VerifyMark(h) ==
    /\ verifying[h].at = "mark"
    /\ auth_nonces' = [auth_nonces EXCEPT ![verifying[h].nonce].used = TRUE]
    /\ verifying' = [verifying EXCEPT ![h].at = "insert"]
    /\ UNCHANGED <<sessions, posted, selected, stored, page, restoring, login, leaving>>

VerifyInsert(h, t) ==
    /\ verifying[h].at = "insert"
    /\ sessions[t].wallet = NoAccount
    /\ sessions' = [sessions EXCEPT ![t] = [wallet |-> verifying[h].wallet, valid |-> TRUE]]
    /\ verifying' = [verifying EXCEPT ![h] = [@ EXCEPT !.at = "answer", !.token = t]]
    /\ UNCHANGED <<auth_nonces, posted, selected, stored, page, restoring, login, leaving>>

\* The answer reaches the login that waits for it, if there is one.
VerifyAnswer(h) ==
    LET v == verifying[h] IN
    /\ v.at = "answer"
    /\ login.at = "verify" /\ login.nonce = v.nonce
    /\ persistAccessToken(v.token)
    /\ Show([page EXCEPT !.token = v.token], [login EXCEPT !.at = "me", !.token = v.token])
    /\ verifying' = [verifying EXCEPT ![h] = IdleVerify]
    /\ UNCHANGED <<auth_nonces, sessions, posted, selected, restoring, leaving>>

VerifyUnheard(h) ==
    /\ verifying[h].at = "answer"
    /\ verifying' = [verifying EXCEPT ![h] = IdleVerify]
    /\ UNCHANGED <<auth_nonces, sessions, posted, selected, stored, page, restoring, login, leaving>>

\* The backend stops between two statements.
BackendRestart ==
    /\ verifying' = [h \in Handler |-> IdleVerify]
    /\ UNCHANGED <<auth_nonces, sessions, posted, selected, stored, page, restoring, login, leaving>>

\* read_wallet_from_token refuses a session that is revoked or has expired.
Owner(t) == sessions[t].wallet
MayRead(t) == t # NoToken /\ sessions[t].valid

Expire(t) ==
    /\ sessions[t].valid
    /\ sessions' = [sessions EXCEPT ![t].valid = FALSE]
    /\ UNCHANGED <<auth_nonces, verifying, posted, selected, stored, page, restoring, login, leaving>>

-----------------------------------------------------------------------------
(***************************************************************************)
(* The wallet, and AppKit's hooks that report it.                          *)
(***************************************************************************)

WalletSelects(a) ==
    /\ a # selected
    /\ selected' = a
    /\ UNCHANGED <<backendVars, posted, stored, page, restoring, login, leaving>>

AddressArrives ==
    /\ page.address # selected
    /\ Show([page EXCEPT !.address = selected, !.provider = @ /\ selected # NoAccount], login)
    /\ UNCHANGED <<backendVars, posted, selected, stored, restoring, leaving>>

ProviderArrives ==
    /\ page.address # NoAccount /\ ~ page.provider
    /\ Show([page EXCEPT !.provider = TRUE], login)
    /\ UNCHANGED <<backendVars, posted, selected, stored, restoring, leaving>>

-----------------------------------------------------------------------------
(***************************************************************************)
(* Mounting: the session of the stored token is restored.                  *)
(***************************************************************************)

\* The page is loaded again: what ran in it is gone, its requests are not.
Reload ==
    /\ page' = Mounted(stored)
    /\ restoring' = IF stored = NoToken THEN Restored ELSE [at |-> "me", token |-> stored]
    /\ login' = NoLogin
    /\ leaving' = Staying
    /\ UNCHANGED <<backendVars, posted, selected, stored>>

RestoreServed ==
    /\ restoring.at = "me" /\ MayRead(restoring.token)
    /\ restoring' = [restoring EXCEPT !.at = "answer"]
    /\ UNCHANGED <<backendVars, posted, selected, stored, page, login, leaving>>

RestoreSucceeds ==
    /\ restoring.at = "answer"
    /\ Show([page EXCEPT !.token = restoring.token, !.wallet = Owner(restoring.token),
                         !.ready = TRUE], login)
    /\ restoring' = Restored
    /\ UNCHANGED <<backendVars, posted, selected, stored, leaving>>

RestoreFails ==
    /\ restoring.at # "none"
    /\ persistAccessToken(NoToken)
    /\ Show([page EXCEPT !.token = NoToken, !.wallet = NoAccount, !.ready = TRUE], login)
    /\ restoring' = Restored
    /\ UNCHANGED <<backendVars, posted, selected, leaving>>

-----------------------------------------------------------------------------
(***************************************************************************)
(* Signing in.                                                             *)
(***************************************************************************)

\* The refs after the effect has noted which address it sees.
Noted(p) ==
    IF p.seen = p.address THEN p ELSE [p EXCEPT !.seen = p.address, !.attempted = NoAccount]

WantsLogin(p) ==
    /\ p.ready /\ ~ isAuthenticating
    /\ ~ (p.token # NoToken /\ p.wallet = p.address)
    /\ p.attempted # p.address

\* The attempt is spent even when there is no provider to sign with.
AutoAuth ==
    /\ page.due
    /\ LET p == IF page.address = NoAccount THEN page ELSE Noted(page)
           starts == p.address # NoAccount /\ WantsLogin(p)
           signs  == starts /\ p.provider
       IN  /\ page' = [p EXCEPT !.attempted = IF starts THEN p.address ELSE @, !.due = signs]
           /\ login' = IF signs THEN [NoLogin EXCEPT !.at = "nonce", !.account = p.address]
                                ELSE login
    /\ UNCHANGED <<backendVars, posted, selected, stored, restoring, leaving>>

LoginNonce(n) ==
    /\ login.at = "nonce"
    /\ create_nonce(login.account, n)
    /\ Show(page, [login EXCEPT !.at = "sign", !.nonce = n])
    /\ UNCHANGED <<sessions, verifying, posted, selected, stored, restoring, leaving>>

\* getSigner gives the account the wallet has selected by now.
LoginSign ==
    /\ login.at = "sign" /\ selected # NoAccount
    /\ posted' = posted \cup
           {[wallet |-> login.account, nonce |-> login.nonce, signer |-> selected]}
    /\ Show(page, [login EXCEPT !.at = "verify"])
    /\ UNCHANGED <<backendVars, selected, stored, restoring, leaving>>

\* The session was valid when the token was issued, and me may answer late.
LoginMe ==
    /\ login.at = "me"
    /\ Show([page EXCEPT !.wallet = Owner(login.token)], NoLogin)
    /\ UNCHANGED <<backendVars, posted, selected, stored, restoring, leaving>>

\* The wallet rejects, a request fails or is refused.
LoginFails ==
    /\ isAuthenticating
    /\ persistAccessToken(NoToken)
    /\ Show([page EXCEPT !.token = NoToken, !.wallet = NoAccount], NoLogin)
    /\ UNCHANGED <<backendVars, posted, selected, restoring, leaving>>

\* Forgets the attempt and opens the wallet's dialog; WalletSelects follows, or not.
Connect ==
    /\ ConnectShown \/ GateShown
    /\ Show([page EXCEPT !.attempted = NoAccount], login)
    /\ UNCHANGED <<backendVars, posted, selected, stored, restoring, leaving>>

-----------------------------------------------------------------------------
(***************************************************************************)
(* Signing out.                                                            *)
(***************************************************************************)

Cleared(p) ==
    [p EXCEPT !.token = NoToken, !.wallet = NoAccount, !.attempted = NoAccount, !.seen = NoAccount]

DisconnectStarts ==
    LET token == IF page.token # NoToken THEN page.token ELSE stored IN
    /\ DisconnectShown /\ leaving = Staying
    /\ IF token # NoToken
       THEN /\ leaving' = [at |-> "logout", token |-> token]
            /\ UNCHANGED <<stored, page, login>>
       ELSE /\ leaving' = [at |-> "wallet", token |-> NoToken]
            /\ persistAccessToken(NoToken)
            /\ Show(Cleared(page), login)
    /\ UNCHANGED <<backendVars, posted, selected, restoring>>

revoke_session ==
    /\ leaving.at = "logout" /\ sessions[leaving.token].valid
    /\ sessions' = [sessions EXCEPT ![leaving.token].valid = FALSE]
    /\ UNCHANGED <<auth_nonces, verifying, posted, selected, stored, page, restoring, login, leaving>>

\* logout has answered, or failed: the page clears its session either way.
DisconnectClears ==
    /\ leaving.at = "logout"
    /\ persistAccessToken(NoToken)
    /\ Show(Cleared(page), login)
    /\ leaving' = [at |-> "wallet", token |-> NoToken]
    /\ UNCHANGED <<backendVars, posted, selected, restoring>>

\* disconnectWallet resolves, and the wallet reports no account; or it fails.
DisconnectEnds ==
    /\ leaving.at = "wallet"
    /\ selected' \in {selected, NoAccount}
    /\ leaving' = Staying
    /\ UNCHANGED <<backendVars, posted, stored, page, restoring, login>>

-----------------------------------------------------------------------------
SessionsNext ==
    \/ \E h \in Handler :
          \/ VerifyRead(h) \/ VerifyMark(h) \/ VerifyAnswer(h) \/ VerifyUnheard(h)
          \/ \E t \in Token : VerifyInsert(h, t)
    \/ BackendRestart
    \/ \E t \in Token : Expire(t)
    \/ \E a \in MaybeAccount : WalletSelects(a)
    \/ AddressArrives \/ ProviderArrives
    \/ Reload \/ RestoreServed \/ RestoreSucceeds \/ RestoreFails
    \/ AutoAuth
    \/ \E n \in Nonce : LoginNonce(n)
    \/ LoginSign \/ LoginMe \/ LoginFails
    \/ Connect
    \/ DisconnectStarts \/ revoke_session \/ DisconnectClears \/ DisconnectEnds

SessionsSpec == SessionsInit /\ [][SessionsNext]_sessionVars

-----------------------------------------------------------------------------
SessionsTypeOK ==
    /\ auth_nonces \in [Nonce -> NonceRow]
    /\ sessions \in [Token -> SessionRow]
    /\ verifying \in [Handler -> Verifying]
    /\ posted \subseteq VerifyRequest
    /\ selected \in MaybeAccount
    /\ stored \in MaybeToken
    /\ page \in Page
    /\ restoring \in Restoring
    /\ login \in Login
    /\ leaving \in Leaving

(***************************************************************************)
(* Every session stands on a signature: its wallet signed a nonce that was *)
(* issued to that wallet and is marked used.  A stop between the           *)
(* statements may lose the session but never the mark.                     *)
(***************************************************************************)
SessionsAreSigned ==
    \A t \in Token : Owner(t) # NoAccount =>
        \E r \in posted :
            /\ r.wallet = Owner(t) /\ r.signer = Owner(t)
            /\ auth_nonces[r.nonce] = [wallet |-> Owner(t), used |-> TRUE]

(***************************************************************************)
(* When no login is in progress, the page that shows itself signed in      *)
(* sends a token of the very account it shows, whatever accounts the       *)
(* wallet went through and whichever answer came late.                     *)
(***************************************************************************)
SettledIsOwn ==
    isAuthenticated /\ ~ isAuthenticating => Owner(page.token) = page.address
=============================================================================
