---------------------------- MODULE SessionsProofs ----------------------------
(***************************************************************************)
(* Theorems about Sessions, for any sets of accounts, nonces, tokens and   *)
(* runs of verify_nonce_signature.                                         *)
(*                                                                         *)
(* The inductive invariant adds to the type invariant what each await      *)
(* still holds when it resumes (Holds), the part of a session's signature  *)
(* that a verification has already established (Verified), and which token *)
(* the page's wallet was read with while a sign-in is under way (Own).     *)
(***************************************************************************)
EXTENDS Sessions, TLAPS

VerifyHolds ==
    \A h \in Handler :
        /\ verifying[h].at \in {"mark", "insert"} =>
              verifying[h].wallet \in Account /\ verifying[h].nonce \in Nonce
        /\ verifying[h].at = "answer" => verifying[h].token \in Token

PageHolds ==
    /\ login.at \in {"nonce", "sign", "verify"} => login.account \in Account
    /\ login.at = "sign" => login.nonce \in Nonce
    /\ login.at = "me" => login.token \in Token
    /\ restoring.at # "none" => restoring.token \in Token
    /\ leaving.at = "logout" => leaving.token \in Token

Verified ==
    \A h \in Handler :
        /\ verifying[h].at \in {"mark", "insert"} =>
              /\ [wallet |-> verifying[h].wallet, nonce |-> verifying[h].nonce,
                  signer |-> verifying[h].wallet] \in posted
              /\ auth_nonces[verifying[h].nonce].wallet = verifying[h].wallet
        /\ verifying[h].at = "insert" => auth_nonces[verifying[h].nonce].used

Own ==
    /\ login.at # "me" /\ page.token # NoToken /\ page.wallet # NoAccount =>
          Owner(page.token) = page.wallet
    /\ login.at = "me" => page.token \in {login.token, NoToken}
    /\ restoring.at # "none" => login.at = "none" /\ ~ page.ready

IInv ==
    /\ SessionsTypeOK /\ VerifyHolds /\ PageHolds
    /\ SessionsAreSigned /\ Verified
    /\ Own

-----------------------------------------------------------------------------
(***************************************************************************)
(* Types                                                                   *)
(***************************************************************************)

\* The page shows token t of wallet w, and r tells whether the restored session is settled.
Shows(t, w, r) == page' \in Page /\ page'.token = t /\ page'.wallet = w /\ page'.ready = r
Same == Shows(page.token, page.wallet, page.ready)

\* Rendering p and l: the page keeps p's fields but for whether the effect is due.
LEMMA ShowKeeps ==
    ASSUME NEW p \in Page, NEW l \in Login, Show(p, l)
    PROVE  login' = l /\ Shows(p.token, p.wallet, p.ready)
BY DEF Show, Shows, Page

\* NoLogin is a login, and each step of a sign-in leads to one.
LEMMA LoginValues ==
    ASSUME login \in Login
    PROVE  /\ NoLogin \in Login /\ NoLogin.at = "none"
           /\ [login EXCEPT !.at = "verify"] \in Login
           /\ \A n \in Nonce : [login EXCEPT !.at = "sign", !.nonce = n] \in Login
           /\ \A t \in Token : [login EXCEPT !.at = "me", !.token = t] \in Login
           /\ \A a \in Account : [NoLogin EXCEPT !.at = "nonce", !.account = a] \in Login
BY DEF NoLogin, Login, MaybeAccount, MaybeNonce, MaybeToken

\* What each handler of the page does to its session and to the sign-in.
LEMMA Effects ==
    ASSUME SessionsTypeOK, VerifyHolds, PageHolds
    PROVE  /\ \A h \in Handler : VerifyAnswer(h) =>
                 /\ login' = [login EXCEPT !.at = "me", !.token = verifying[h].token]
                 /\ Shows(verifying[h].token, page.wallet, page.ready)
           /\ AddressArrives \/ ProviderArrives \/ Connect => login' = login /\ Same
           /\ Reload => login' = NoLogin /\ Shows(stored, NoAccount, stored = NoToken)
           /\ RestoreSucceeds =>
                 login' = login /\ Shows(restoring.token, Owner(restoring.token), TRUE)
           /\ RestoreFails => login' = login /\ Shows(NoToken, NoAccount, TRUE)
           /\ AutoAuth =>
                 /\ Same
                 /\ \/ login' = login
                    \/ /\ page.ready /\ login.at = "none" /\ page.address \in Account
                       /\ login' = [NoLogin EXCEPT !.at = "nonce", !.account = page.address]
           /\ \A n \in Nonce : LoginNonce(n) =>
                 login' = [login EXCEPT !.at = "sign", !.nonce = n] /\ Same
           /\ LoginSign => login' = [login EXCEPT !.at = "verify"] /\ Same
           /\ LoginMe => login' = NoLogin /\ Shows(page.token, Owner(login.token), page.ready)
           /\ LoginFails => login' = NoLogin /\ Shows(NoToken, NoAccount, page.ready)
           /\ DisconnectStarts =>
                 login' = login /\ (Same \/ Shows(NoToken, NoAccount, page.ready))
           /\ DisconnectClears => login' = login /\ Shows(NoToken, NoAccount, page.ready)
<1>0. /\ page \in Page /\ login \in Login /\ stored \in MaybeToken /\ selected \in MaybeAccount
      /\ NoToken \in MaybeToken /\ NoAccount \in MaybeAccount
  BY DEF SessionsTypeOK, MaybeToken, MaybeAccount
<1>1. ASSUME NEW h \in Handler, VerifyAnswer(h)
      PROVE  /\ login' = [login EXCEPT !.at = "me", !.token = verifying[h].token]
             /\ Shows(verifying[h].token, page.wallet, page.ready)
  <2> DEFINE t == verifying[h].token
             q == [page EXCEPT !.token = t]
             l == [login EXCEPT !.at = "me", !.token = t]
  <2>1. t \in Token /\ Show(q, l)
    BY <1>1 DEF VerifyAnswer, VerifyHolds
  <2>2. q \in Page /\ q.token = t /\ q.wallet = page.wallet /\ q.ready = page.ready /\ l \in Login
    BY <1>0, <2>1, LoginValues DEF Page, MaybeToken
  <2> HIDE DEF t, q, l
  <2>3. login' = l /\ Shows(q.token, q.wallet, q.ready)
    BY <2>1, <2>2, ShowKeeps
  <2> QED BY <2>2, <2>3 DEF t, l
<1>2. ASSUME AddressArrives
      PROVE  login' = login /\ Same
  <2> DEFINE q == [page EXCEPT !.address = selected, !.provider = @ /\ selected # NoAccount]
  <2>1. q \in Page /\ q.token = page.token /\ q.wallet = page.wallet /\ q.ready = page.ready
    BY <1>0 DEF Page
  <2>2. Show(q, login)
    BY <1>2 DEF AddressArrives
  <2> HIDE DEF q
  <2>3. login' = login /\ Shows(q.token, q.wallet, q.ready)
    BY <1>0, <2>1, <2>2, ShowKeeps
  <2> QED BY <2>1, <2>3 DEF Same
<1>3. ASSUME ProviderArrives
      PROVE  login' = login /\ Same
  <2> DEFINE q == [page EXCEPT !.provider = TRUE]
  <2>1. q \in Page /\ q.token = page.token /\ q.wallet = page.wallet /\ q.ready = page.ready
    BY <1>0 DEF Page
  <2>2. Show(q, login)
    BY <1>3 DEF ProviderArrives
  <2> HIDE DEF q
  <2>3. login' = login /\ Shows(q.token, q.wallet, q.ready)
    BY <1>0, <2>1, <2>2, ShowKeeps
  <2> QED BY <2>1, <2>3 DEF Same
<1>4. ASSUME Connect
      PROVE  login' = login /\ Same
  <2> DEFINE q == [page EXCEPT !.attempted = NoAccount]
  <2>1. q \in Page /\ q.token = page.token /\ q.wallet = page.wallet /\ q.ready = page.ready
    BY <1>0 DEF Page
  <2>2. Show(q, login)
    BY <1>4 DEF Connect
  <2> HIDE DEF q
  <2>3. login' = login /\ Shows(q.token, q.wallet, q.ready)
    BY <1>0, <2>1, <2>2, ShowKeeps
  <2> QED BY <2>1, <2>3 DEF Same
<1>5. ASSUME Reload
      PROVE  login' = NoLogin /\ Shows(stored, NoAccount, stored = NoToken)
  BY <1>0, <1>5 DEF Reload, Mounted, Shows, Page
<1>6. ASSUME RestoreSucceeds
      PROVE  login' = login /\ Shows(restoring.token, Owner(restoring.token), TRUE)
  <2> DEFINE t == restoring.token
             w == Owner(restoring.token)
             q == [page EXCEPT !.token = t, !.wallet = w, !.ready = TRUE]
  <2>1. t \in MaybeToken /\ w \in MaybeAccount /\ Show(q, login)
    BY <1>6 DEF RestoreSucceeds, PageHolds, SessionsTypeOK, Owner, SessionRow, MaybeToken
  <2> HIDE DEF t, w
  <2>2. q \in Page /\ q.token = t /\ q.wallet = w /\ q.ready = TRUE
    BY <1>0, <2>1 DEF Page
  <2> HIDE DEF q
  <2>3. login' = login /\ Shows(q.token, q.wallet, q.ready)
    BY <1>0, <2>1, <2>2, ShowKeeps
  <2> QED BY <2>2, <2>3 DEF t, w
<1>7. ASSUME RestoreFails
      PROVE  login' = login /\ Shows(NoToken, NoAccount, TRUE)
  <2> DEFINE q == [page EXCEPT !.token = NoToken, !.wallet = NoAccount, !.ready = TRUE]
  <2>1. q \in Page /\ q.token = NoToken /\ q.wallet = NoAccount /\ q.ready = TRUE
    BY <1>0 DEF Page
  <2>2. Show(q, login)
    BY <1>7 DEF RestoreFails
  <2> HIDE DEF q
  <2>3. login' = login /\ Shows(q.token, q.wallet, q.ready)
    BY <1>0, <2>1, <2>2, ShowKeeps
  <2> QED BY <2>1, <2>3
<1>8. ASSUME AutoAuth
      PROVE  /\ Same
             /\ \/ login' = login
                \/ /\ page.ready /\ login.at = "none" /\ page.address \in Account
                   /\ login' = [NoLogin EXCEPT !.at = "nonce", !.account = page.address]
  <2> DEFINE p == IF page.address = NoAccount THEN page ELSE Noted(page)
             starts == p.address # NoAccount /\ WantsLogin(p)
             signs  == starts /\ p.provider
             q == [p EXCEPT !.attempted = IF starts THEN p.address ELSE @, !.due = signs]
  <2>1. /\ p \in Page /\ p.address = page.address /\ p.token = page.token
        /\ p.wallet = page.wallet /\ p.ready = page.ready
    BY <1>0 DEF Noted, Page
  <2>2. /\ page' = q
        /\ login' = IF signs THEN [NoLogin EXCEPT !.at = "nonce", !.account = p.address]
                             ELSE login
    BY <1>8 DEF AutoAuth
  <2>3. signs => page.ready /\ login.at = "none" /\ page.address \in Account
    BY <1>0, <2>1 DEF WantsLogin, isAuthenticating, Page, MaybeAccount
  <2>4. starts \in BOOLEAN /\ signs \in BOOLEAN
    BY <2>1 DEF Page, WantsLogin
  <2> HIDE DEF p, starts, signs
  <2>5. /\ q \in Page /\ q.token = p.token /\ q.wallet = p.wallet /\ q.ready = p.ready
    BY <2>1, <2>4 DEF Page
  <2> QED BY <2>1, <2>2, <2>3, <2>5 DEF Shows, Same
<1>9. ASSUME NEW n \in Nonce, LoginNonce(n)
      PROVE  login' = [login EXCEPT !.at = "sign", !.nonce = n] /\ Same
  <2> DEFINE l == [login EXCEPT !.at = "sign", !.nonce = n]
  <2>1. l \in Login /\ Show(page, l)
    BY <1>0, <1>9, LoginValues DEF LoginNonce
  <2> HIDE DEF l
  <2>2. login' = l /\ Same
    BY <1>0, <2>1, ShowKeeps DEF Same
  <2> QED BY <2>2 DEF l
<1>10. ASSUME LoginSign
      PROVE  login' = [login EXCEPT !.at = "verify"] /\ Same
  <2> DEFINE l == [login EXCEPT !.at = "verify"]
  <2>1. l \in Login /\ Show(page, l)
    BY <1>0, <1>10, LoginValues DEF LoginSign
  <2> HIDE DEF l
  <2>2. login' = l /\ Same
    BY <1>0, <2>1, ShowKeeps DEF Same
  <2> QED BY <2>2 DEF l
<1>11. ASSUME LoginMe
      PROVE  login' = NoLogin /\ Shows(page.token, Owner(login.token), page.ready)
  <2> DEFINE w == Owner(login.token)
             q == [page EXCEPT !.wallet = w]
  <2>1. w \in MaybeAccount /\ Show(q, NoLogin)
    BY <1>11 DEF LoginMe, PageHolds, SessionsTypeOK, Owner, SessionRow
  <2> HIDE DEF w
  <2>2. q \in Page /\ q.token = page.token /\ q.wallet = w /\ q.ready = page.ready
    BY <1>0, <2>1 DEF Page
  <2> HIDE DEF q
  <2>3. login' = NoLogin /\ Shows(q.token, q.wallet, q.ready)
    BY <1>0, <2>1, <2>2, LoginValues, ShowKeeps
  <2> QED BY <2>2, <2>3 DEF w
<1>12. ASSUME LoginFails
      PROVE  login' = NoLogin /\ Shows(NoToken, NoAccount, page.ready)
  <2> DEFINE q == [page EXCEPT !.token = NoToken, !.wallet = NoAccount]
  <2>1. q \in Page /\ q.token = NoToken /\ q.wallet = NoAccount /\ q.ready = page.ready
    BY <1>0 DEF Page
  <2>2. Show(q, NoLogin)
    BY <1>12 DEF LoginFails
  <2> HIDE DEF q
  <2>3. login' = NoLogin /\ Shows(q.token, q.wallet, q.ready)
    BY <1>0, <2>1, <2>2, LoginValues, ShowKeeps
  <2> QED BY <2>1, <2>3
<1>13. /\ Cleared(page) \in Page
       /\ Cleared(page).token = NoToken /\ Cleared(page).wallet = NoAccount
       /\ Cleared(page).ready = page.ready
  BY <1>0 DEF Page, Cleared
<1>14. Show(Cleared(page), login) => login' = login /\ Shows(NoToken, NoAccount, page.ready)
  BY <1>0, <1>13, ShowKeeps
<1>15. ASSUME DisconnectStarts
      PROVE  login' = login /\ (Same \/ Shows(NoToken, NoAccount, page.ready))
  <2>1. UNCHANGED <<page, login>> \/ Show(Cleared(page), login)
    BY <1>15 DEF DisconnectStarts
  <2> QED BY <1>0, <1>14, <2>1 DEF Same, Shows
<1>16. ASSUME DisconnectClears
      PROVE  login' = login /\ Shows(NoToken, NoAccount, page.ready)
  BY <1>14, <1>16 DEF DisconnectClears
<1> QED
  BY <1>1, <1>2, <1>3, <1>4, <1>5, <1>6, <1>7, <1>8, <1>9, <1>10, <1>11, <1>12, <1>15, <1>16

-----------------------------------------------------------------------------
(***************************************************************************)
(* The backend: types, and every session signed                            *)
(***************************************************************************)

Backend == auth_nonces' = auth_nonces /\ sessions' = sessions /\ verifying' = verifying

\* The steps that write no table, no request in progress and nothing on the wire.
Quiet ==
    \/ \E a \in MaybeAccount : WalletSelects(a)
    \/ AddressArrives \/ ProviderArrives
    \/ Reload \/ RestoreServed \/ RestoreSucceeds \/ RestoreFails
    \/ AutoAuth \/ LoginMe \/ LoginFails \/ Connect
    \/ DisconnectStarts \/ DisconnectClears \/ DisconnectEnds
    \/ UNCHANGED sessionVars

\* They leave the backend and the wire alone.
LEMMA QuietKeeps == Quiet => Backend /\ posted' = posted
BY DEF Quiet, Backend, WalletSelects, AddressArrives, ProviderArrives, Reload, RestoreServed,
       RestoreSucceeds, RestoreFails, AutoAuth, LoginMe, LoginFails, Connect, DisconnectStarts,
       DisconnectClears, DisconnectEnds, sessionVars, backendVars

\* Every step keeps the types of the tables, of the requests in progress and on the wire.
LEMMA BackendStep ==
    ASSUME SessionsTypeOK, VerifyHolds, PageHolds, [SessionsNext]_sessionVars
    PROVE  /\ auth_nonces' \in [Nonce -> NonceRow] /\ sessions' \in [Token -> SessionRow]
           /\ verifying' \in [Handler -> Verifying] /\ posted' \subseteq VerifyRequest
           /\ VerifyHolds'
<1> USE DEF SessionsTypeOK, VerifyHolds
<1>1. ASSUME NEW h \in Handler, VerifyRead(h)
      PROVE  /\ verifying' \in [Handler -> Verifying] /\ VerifyHolds'
             /\ UNCHANGED <<auth_nonces, sessions, posted>>
  BY <1>1 DEF VerifyRead, VerifyRequest, Verifying, MaybeAccount, MaybeNonce, MaybeToken
<1>2. ASSUME NEW h \in Handler, VerifyMark(h)
      PROVE  /\ auth_nonces' \in [Nonce -> NonceRow]
             /\ verifying' \in [Handler -> Verifying] /\ VerifyHolds'
             /\ UNCHANGED <<sessions, posted>>
  BY <1>2 DEF VerifyMark, NonceRow, Verifying
<1>3. ASSUME NEW h \in Handler, NEW t \in Token, VerifyInsert(h, t)
      PROVE  /\ sessions' \in [Token -> SessionRow]
             /\ verifying' \in [Handler -> Verifying] /\ VerifyHolds'
             /\ UNCHANGED <<auth_nonces, posted>>
  BY <1>3 DEF VerifyInsert, SessionRow, Verifying, MaybeAccount, MaybeToken
<1>4. ASSUME BackendRestart \/ \E h \in Handler : VerifyAnswer(h) \/ VerifyUnheard(h)
      PROVE  /\ verifying' \in [Handler -> Verifying] /\ VerifyHolds'
             /\ UNCHANGED <<auth_nonces, sessions, posted>>
  <2>1. IdleVerify \in Verifying /\ IdleVerify.at = "idle"
    BY DEF IdleVerify, Verifying, MaybeAccount, MaybeNonce, MaybeToken
  <2> QED
    BY <1>4, <2>1 DEF BackendRestart, VerifyAnswer, VerifyUnheard
<1>5. ASSUME revoke_session \/ \E t \in Token : Expire(t)
      PROVE  sessions' \in [Token -> SessionRow] /\ UNCHANGED <<auth_nonces, verifying, posted>>
  <2>1. PICK t \in Token : sessions' = [sessions EXCEPT ![t].valid = FALSE]
    BY <1>5 DEF revoke_session, Expire, PageHolds
  <2>2. [sessions[t] EXCEPT !.valid = FALSE] \in SessionRow
    BY DEF SessionRow
  <2> QED BY <1>5, <2>1, <2>2 DEF revoke_session, Expire
<1>6. ASSUME NEW n \in Nonce, LoginNonce(n)
      PROVE  auth_nonces' \in [Nonce -> NonceRow] /\ UNCHANGED <<sessions, verifying, posted>>
  BY <1>6 DEF LoginNonce, create_nonce, NonceRow, MaybeAccount, Login
<1>7. ASSUME LoginSign
      PROVE  posted' \subseteq VerifyRequest /\ UNCHANGED <<auth_nonces, sessions, verifying>>
  BY <1>7 DEF LoginSign, VerifyRequest, PageHolds, MaybeAccount, MaybeNonce, backendVars
<1>8. ASSUME Quiet PROVE UNCHANGED <<auth_nonces, sessions, verifying, posted>>
  BY <1>8, QuietKeeps DEF Backend
<1> QED
  BY <1>1, <1>2, <1>3, <1>4, <1>5, <1>6, <1>7, <1>8 DEF SessionsNext, Quiet

\* A session, once inserted, keeps its wallet.
LEMMA OwnersStay ==
    ASSUME SessionsTypeOK, [SessionsNext]_sessionVars, NEW t \in Token, Owner(t) # NoAccount
    PROVE  Owner(t)' = Owner(t)
<1> USE DEF SessionsTypeOK, Owner, SessionRow
<1>1. ASSUME NEW h \in Handler, NEW s \in Token, VerifyInsert(h, s) PROVE Owner(t)' = Owner(t)
  BY <1>1 DEF VerifyInsert
<1>2. ASSUME revoke_session \/ \E s \in Token : Expire(s) PROVE Owner(t)' = Owner(t)
  BY <1>2 DEF revoke_session, Expire
<1>3. ASSUME \/ BackendRestart \/ LoginSign
             \/ \E h \in Handler : VerifyRead(h) \/ VerifyMark(h) \/ VerifyAnswer(h) \/ VerifyUnheard(h)
             \/ \E n \in Nonce : LoginNonce(n)
      PROVE  sessions' = sessions
  BY <1>3 DEF BackendRestart, LoginSign, VerifyRead, VerifyMark, VerifyAnswer, VerifyUnheard,
              LoginNonce, backendVars
<1>4. ASSUME Quiet PROVE sessions' = sessions
  BY <1>4, QuietKeeps DEF Backend
<1> QED
  BY <1>1, <1>2, <1>3, <1>4 DEF SessionsNext, Quiet

\* Every step keeps the sessions signed, and what each verification has established.
LEMMA SignedStep ==
    ASSUME SessionsTypeOK, VerifyHolds, PageHolds, SessionsAreSigned, Verified,
           [SessionsNext]_sessionVars
    PROVE  (SessionsAreSigned /\ Verified)'
<1> USE DEF SessionsTypeOK, VerifyHolds, SessionsAreSigned, Verified
<1>1. ASSUME NEW h \in Handler, VerifyRead(h)
      PROVE  SessionsAreSigned' /\ Verified'
  <2>1. SessionsAreSigned'
    BY <1>1 DEF VerifyRead, Owner
  <2>2. PICK r \in posted : /\ MayVerify(r)
                            /\ verifying' = [verifying EXCEPT ![h] =
                                  [at |-> "mark", wallet |-> r.wallet, nonce |-> r.nonce,
                                   token |-> NoToken]]
    BY <1>1 DEF VerifyRead
  <2>3. /\ r = [wallet |-> r.wallet, nonce |-> r.nonce, signer |-> r.wallet]
        /\ auth_nonces[r.nonce].wallet = r.wallet
    BY <2>2 DEF MayVerify, VerifyRequest
  <2>4. Verified'
    BY <1>1, <2>2, <2>3 DEF VerifyRead
  <2> QED BY <2>1, <2>4
<1>2. ASSUME NEW h \in Handler, VerifyMark(h)
      PROVE  SessionsAreSigned' /\ Verified'
  <2>1. \A n \in Nonce : /\ auth_nonces'[n].wallet = auth_nonces[n].wallet
                         /\ auth_nonces[n].used => auth_nonces'[n].used
    BY <1>2 DEF VerifyMark, NonceRow
  <2>2. auth_nonces'[verifying[h].nonce].used
    BY <1>2 DEF VerifyMark, NonceRow
  <2>3. \A n \in Nonce, w \in Account :
           auth_nonces[n] = [wallet |-> w, used |-> TRUE] => auth_nonces'[n] = auth_nonces[n]
    <3>1. \A a, b \in NonceRow : a.wallet = b.wallet /\ a.used = b.used => a = b
      BY DEF NonceRow
    <3>2. \A n \in Nonce : auth_nonces'[n] \in NonceRow
      BY BackendStep
    <3>3. \A n \in Nonce : auth_nonces[n].used = TRUE => auth_nonces'[n].used = TRUE
      BY <2>1
    <3>4. ASSUME NEW n \in Nonce, NEW w \in Account,
                 auth_nonces[n] = [wallet |-> w, used |-> TRUE]
          PROVE  auth_nonces'[n] = auth_nonces[n]
      <4>1. auth_nonces[n].used = TRUE
        BY <3>4
      <4>2. auth_nonces'[n].used = TRUE /\ auth_nonces'[n].wallet = auth_nonces[n].wallet
        BY <2>1, <3>3, <4>1
      <4>3. auth_nonces'[n].used = auth_nonces[n].used
        BY <4>1, <4>2, Zenon
      <4>4. auth_nonces[n] \in NonceRow
        OBVIOUS
      <4> QED BY <3>1, <3>2, <4>2, <4>3, <4>4, Zenon
    <3> QED BY <3>4
  <2>4. sessions' = sessions /\ posted' = posted
    BY <1>2 DEF VerifyMark
  <2>5. ASSUME NEW t \in Token, Owner(t)' # NoAccount
        PROVE  \E r \in posted' :
                   /\ r.wallet = Owner(t)' /\ r.signer = Owner(t)'
                   /\ auth_nonces'[r.nonce] = [wallet |-> Owner(t)', used |-> TRUE]
    <3>1. Owner(t)' = Owner(t) /\ Owner(t) \in Account
      BY <2>4, <2>5 DEF Owner, SessionRow, MaybeAccount
    <3>2. PICK r \in posted : /\ r.wallet = Owner(t) /\ r.signer = Owner(t)
                              /\ auth_nonces[r.nonce] = [wallet |-> Owner(t), used |-> TRUE]
      BY <2>5, <3>1
    <3>3. r.nonce \in Nonce
      BY DEF VerifyRequest
    <3>4. auth_nonces'[r.nonce] = auth_nonces[r.nonce]
      BY <2>3, <3>1, <3>2, <3>3
    <3> QED BY <2>4, <3>1, <3>2, <3>4
  <2>6. \A k \in Handler :
           /\ verifying'[k].at \in {"mark", "insert"} =>
                 /\ verifying[k].at \in {"mark", "insert"}
                 /\ verifying'[k].wallet = verifying[k].wallet
                 /\ verifying'[k].nonce = verifying[k].nonce
           /\ verifying'[k].at = "insert" => verifying[k].at = "insert" \/ k = h
    BY <1>2 DEF VerifyMark, Verifying
  <2>7. Verified'
    BY <2>1, <2>2, <2>4, <2>6
  <2> QED BY <2>5, <2>7 DEF Owner
<1>3. ASSUME NEW h \in Handler, NEW t \in Token, VerifyInsert(h, t)
      PROVE  SessionsAreSigned' /\ Verified'
  <2> DEFINE w == verifying[h].wallet
             n == verifying[h].nonce
  <2>1. /\ w \in Account /\ n \in Nonce
        /\ [wallet |-> w, nonce |-> n, signer |-> w] \in posted
        /\ auth_nonces[n] = [wallet |-> w, used |-> TRUE]
    BY <1>3 DEF VerifyInsert, NonceRow
  <2>2. \A s \in Token : Owner(s)' = IF s = t THEN w ELSE Owner(s)
    BY <1>3 DEF VerifyInsert, Owner
  <2>3. posted' = posted /\ auth_nonces' = auth_nonces
    BY <1>3 DEF VerifyInsert
  <2> HIDE DEF w, n
  <2>4. \E r \in posted : /\ r.wallet = w /\ r.signer = w
                          /\ auth_nonces[r.nonce] = [wallet |-> w, used |-> TRUE]
    BY <2>1
  <2>5. ASSUME NEW s \in Token, Owner(s)' # NoAccount
        PROVE  \E r \in posted' :
                   /\ r.wallet = Owner(s)' /\ r.signer = Owner(s)'
                   /\ auth_nonces'[r.nonce] = [wallet |-> Owner(s)', used |-> TRUE]
    <3>1. CASE s = t
      BY <2>2, <2>3, <2>4, <3>1
    <3>2. CASE s # t
      BY <2>2, <2>3, <2>5, <3>2
    <3> QED BY <3>1, <3>2
  <2>6. \A k \in Handler : verifying'[k].at \in {"mark", "insert"} => verifying'[k] = verifying[k]
    BY <1>3 DEF VerifyInsert, Verifying
  <2>7. SessionsAreSigned'
    BY <2>5 DEF Owner
  <2>8. Verified'
    BY <2>3, <2>6
  <2> QED BY <2>7, <2>8
<1>4. ASSUME BackendRestart \/ \E h \in Handler : VerifyAnswer(h) \/ VerifyUnheard(h)
      PROVE  SessionsAreSigned' /\ Verified'
  <2>1. /\ \A k \in Handler : verifying'[k] = IdleVerify \/ verifying'[k] = verifying[k]
        /\ UNCHANGED <<auth_nonces, sessions, posted>>
    BY <1>4 DEF BackendRestart, VerifyAnswer, VerifyUnheard
  <2> QED BY <2>1 DEF IdleVerify, Owner
<1>5. ASSUME revoke_session \/ \E t \in Token : Expire(t)
      PROVE  SessionsAreSigned' /\ Verified'
  <2>1. /\ \A s \in Token : Owner(s)' = Owner(s)
        /\ UNCHANGED <<auth_nonces, verifying, posted>>
    BY <1>5 DEF revoke_session, Expire, SessionRow, Owner
  <2> QED BY <2>1
<1>6. ASSUME NEW n \in Nonce, LoginNonce(n)
      PROVE  SessionsAreSigned' /\ Verified'
  <2>1. /\ auth_nonces[n].wallet = NoAccount
        /\ \A m \in Nonce : m # n => auth_nonces'[m] = auth_nonces[m]
        /\ UNCHANGED <<sessions, verifying, posted>>
    BY <1>6 DEF LoginNonce, create_nonce
  <2>2. SessionsAreSigned'
    BY <2>1 DEF VerifyRequest, Owner, SessionRow, MaybeAccount
  <2>3. Verified'
    BY <2>1, SessionsAssumption
  <2> QED BY <2>2, <2>3
<1>7. ASSUME LoginSign
      PROVE  SessionsAreSigned' /\ Verified'
  <2>1. posted \subseteq posted' /\ UNCHANGED <<auth_nonces, sessions, verifying>>
    BY <1>7 DEF LoginSign, backendVars
  <2> QED BY <2>1 DEF Owner
<1>8. ASSUME Quiet
      PROVE  SessionsAreSigned' /\ Verified'
  BY <1>8, QuietKeeps DEF Backend, Owner
<1> QED
  BY <1>1, <1>2, <1>3, <1>4, <1>5, <1>6, <1>7, <1>8 DEF SessionsNext, Quiet

-----------------------------------------------------------------------------
(***************************************************************************)
(* The page: types, and whose session it sends                             *)
(***************************************************************************)

\* The steps that leave the page and its sign-in as they are.
Aside ==
    \/ \E h \in Handler :
          \/ VerifyRead(h) \/ VerifyMark(h) \/ VerifyUnheard(h)
          \/ \E t \in Token : VerifyInsert(h, t)
    \/ BackendRestart
    \/ \E t \in Token : Expire(t)
    \/ \E a \in MaybeAccount : WalletSelects(a)
    \/ RestoreServed \/ revoke_session \/ DisconnectEnds
    \/ UNCHANGED sessionVars

\* They leave the page, its sign-in and the stored token alone.
LEMMA AsideKeeps ==
    Aside => UNCHANGED <<page, login, stored>> /\ (UNCHANGED restoring \/ RestoreServed)
BY DEF Aside, VerifyRead, VerifyMark, VerifyUnheard, VerifyInsert, BackendRestart, Expire,
       WalletSelects, revoke_session, DisconnectEnds, RestoreServed, sessionVars, backendVars

\* Every step keeps the types of the page, and gives its awaits what they will need.
LEMMA PageTypes ==
    ASSUME SessionsTypeOK, VerifyHolds, PageHolds, [SessionsNext]_sessionVars
    PROVE  /\ selected' \in MaybeAccount /\ stored' \in MaybeToken
           /\ page' \in Page /\ restoring' \in Restoring /\ login' \in Login
           /\ leaving' \in Leaving
           /\ PageHolds'
<1>0. /\ page \in Page /\ login \in Login /\ stored \in MaybeToken /\ selected \in MaybeAccount
      /\ restoring \in Restoring /\ leaving \in Leaving
      /\ NoToken \in MaybeToken /\ NoAccount \in MaybeAccount
  BY DEF SessionsTypeOK, MaybeToken, MaybeAccount
<1>1. selected' \in MaybeAccount /\ stored' \in MaybeToken
  <2>1. ASSUME NEW h \in Handler, VerifyAnswer(h)
        PROVE  selected' = selected /\ stored' \in MaybeToken
    BY <2>1 DEF VerifyAnswer, VerifyHolds, persistAccessToken, MaybeToken
  <2>2. CASE RestoreFails \/ LoginFails \/ DisconnectStarts \/ DisconnectClears
    BY <1>0, <2>2 DEF RestoreFails, LoginFails, DisconnectStarts, DisconnectClears,
         persistAccessToken
  <2>3. CASE DisconnectEnds \/ \E a \in MaybeAccount : WalletSelects(a)
    BY <1>0, <2>3 DEF DisconnectEnds, WalletSelects
  <2>4. ASSUME \/ \E h \in Handler :
                     \/ VerifyRead(h) \/ VerifyMark(h) \/ VerifyUnheard(h)
                     \/ \E t \in Token : VerifyInsert(h, t)
               \/ BackendRestart \/ revoke_session \/ \E t \in Token : Expire(t)
               \/ UNCHANGED sessionVars
        PROVE  UNCHANGED <<selected, stored>>
    BY <2>4 DEF VerifyRead, VerifyMark, VerifyUnheard, VerifyInsert, BackendRestart,
         revoke_session, Expire, sessionVars
  <2>5. ASSUME \/ AddressArrives \/ ProviderArrives \/ Reload \/ RestoreServed \/ RestoreSucceeds
               \/ AutoAuth \/ LoginSign \/ LoginMe \/ Connect \/ \E n \in Nonce : LoginNonce(n)
        PROVE  UNCHANGED <<selected, stored>>
    BY <2>5 DEF AddressArrives, ProviderArrives, Reload, RestoreServed, RestoreSucceeds, AutoAuth,
         LoginSign, LoginMe, Connect, LoginNonce
  <2> QED
    BY <1>0, <2>1, <2>2, <2>3, <2>4, <2>5 DEF SessionsNext
<1>2. page' \in Page /\ login' \in Login
  <2>1. CASE Aside
    BY <1>0, <2>1, AsideKeeps
  <2>2. ASSUME NEW h \in Handler, VerifyAnswer(h) PROVE page' \in Page /\ login' \in Login
    BY <1>0, <2>2, Effects, LoginValues DEF Shows, VerifyAnswer, VerifyHolds
  <2>3. CASE AddressArrives \/ ProviderArrives \/ Connect
    BY <1>0, <2>3, Effects DEF Shows, Same
  <2>4. CASE Reload
    BY <1>0, <2>4, Effects, LoginValues DEF Shows
  <2>5. CASE RestoreSucceeds \/ RestoreFails
    BY <1>0, <2>5, Effects DEF Shows
  <2>6. CASE AutoAuth
    BY <1>0, <2>6, Effects, LoginValues DEF Shows, Same
  <2>7. ASSUME NEW n \in Nonce, LoginNonce(n) PROVE page' \in Page /\ login' \in Login
    BY <1>0, <2>7, Effects, LoginValues DEF Shows, Same
  <2>8. CASE LoginSign
    BY <1>0, <2>8, Effects, LoginValues DEF Shows, Same
  <2>9. CASE LoginMe \/ LoginFails
    BY <1>0, <2>9, Effects, LoginValues DEF Shows
  <2>10. CASE DisconnectStarts \/ DisconnectClears
    BY <1>0, <2>10, Effects DEF Shows, Same
  <2> QED
    BY <2>1, <2>2, <2>3, <2>4, <2>5, <2>6, <2>7, <2>8, <2>9, <2>10 DEF SessionsNext, Aside
<1>3. restoring' \in Restoring /\ (restoring'.at # "none" => restoring'.token \in Token)
  <2>1. CASE Reload
    BY <1>0, <2>1 DEF Reload, Restoring, Restored, MaybeToken
  <2>2. CASE RestoreServed \/ RestoreSucceeds \/ RestoreFails
    BY <1>0, <2>2 DEF RestoreServed, RestoreSucceeds, RestoreFails, Restoring, Restored,
         PageHolds, MaybeToken
  <2>3. CASE UNCHANGED restoring
    BY <1>0, <2>3 DEF PageHolds
  <2> QED
    BY <2>1, <2>2, <2>3 DEF SessionsNext, VerifyRead, VerifyMark, VerifyInsert, VerifyAnswer,
       VerifyUnheard, BackendRestart, Expire, WalletSelects, AddressArrives, ProviderArrives,
       AutoAuth, LoginNonce, LoginSign, LoginMe, LoginFails, Connect, DisconnectStarts,
       revoke_session, DisconnectClears, DisconnectEnds, sessionVars, backendVars
<1>4. leaving' \in Leaving /\ (leaving'.at = "logout" => leaving'.token \in Token)
  <2>1. CASE Reload \/ DisconnectClears \/ DisconnectEnds
    BY <1>0, <2>1 DEF Reload, DisconnectClears, DisconnectEnds, Leaving, Staying
  <2>2. CASE DisconnectStarts
    BY <1>0, <2>2 DEF DisconnectStarts, Leaving, MaybeToken, Page
  <2>3. CASE UNCHANGED leaving
    BY <1>0, <2>3 DEF PageHolds
  <2> QED
    BY <2>1, <2>2, <2>3 DEF SessionsNext, VerifyRead, VerifyMark, VerifyInsert, VerifyAnswer,
       VerifyUnheard, BackendRestart, Expire, WalletSelects, AddressArrives, ProviderArrives,
       RestoreServed, RestoreSucceeds, RestoreFails, AutoAuth, LoginNonce, LoginSign, LoginMe,
       LoginFails, Connect, revoke_session, sessionVars, backendVars
<1>5. /\ login'.at \in {"nonce", "sign", "verify"} => login'.account \in Account
      /\ login'.at = "sign" => login'.nonce \in Nonce
      /\ login'.at = "me" => login'.token \in Token
  <2>1. CASE login' = login
    BY <2>1 DEF PageHolds
  <2>2. CASE login' = NoLogin
    BY <2>2, LoginValues, <1>0
  <2>3. ASSUME NEW h \in Handler, VerifyAnswer(h)
        PROVE  login'.at = "me" /\ login'.token \in Token
    <3>1. login' = [login EXCEPT !.at = "me", !.token = verifying[h].token]
      BY <2>3, Effects
    <3>2. verifying[h].token \in Token
      BY <2>3 DEF VerifyAnswer, VerifyHolds
    <3> QED BY <1>0, <3>1, <3>2 DEF Login
  <2>4. CASE AutoAuth /\ login' # login
    <3>1. page.address \in Account
          /\ login' = [NoLogin EXCEPT !.at = "nonce", !.account = page.address]
      BY <2>4, Effects
    <3> QED BY <3>1 DEF NoLogin
  <2>5. ASSUME NEW n \in Nonce, LoginNonce(n)
        PROVE  login'.at = "sign" /\ login'.nonce = n /\ login'.account \in Account
    <3>1. login' = [login EXCEPT !.at = "sign", !.nonce = n] /\ login.at = "nonce"
      BY <2>5, Effects DEF LoginNonce
    <3> QED BY <1>0, <3>1 DEF Login, PageHolds
  <2>6. CASE LoginSign
    <3>1. login' = [login EXCEPT !.at = "verify"] /\ login.at = "sign"
      BY <2>6, Effects DEF LoginSign
    <3> QED BY <1>0, <3>1 DEF Login, PageHolds
  <2>7. Aside => login' = login
    BY AsideKeeps
  <2> QED
    BY <2>1, <2>2, <2>3, <2>4, <2>5, <2>6, <2>7, Effects DEF SessionsNext, Aside
<1> QED
  BY <1>1, <1>2, <1>3, <1>4, <1>5 DEF PageHolds

\* Every step keeps the relation between the token the page sends and the wallet it was read with.
LEMMA OwnStep ==
    ASSUME SessionsTypeOK, VerifyHolds, PageHolds, Own, [SessionsNext]_sessionVars
    PROVE  Own'
<1>0. /\ page \in Page /\ login \in Login /\ page.token \in MaybeToken
      /\ NoToken \notin Token
  BY SessionsAssumption DEF SessionsTypeOK, Page
<1>1. ASSUME NEW t \in Token, Owner(t) # NoAccount PROVE Owner(t)' = Owner(t)
  BY <1>1, OwnersStay
<1>2. ASSUME UNCHANGED <<page, login>>, restoring'.at # "none" => restoring.at # "none"
      PROVE  Own'
  BY <1>0, <1>1, <1>2 DEF Own, Owner, MaybeToken
<1>3. CASE Aside
  <2>1. restoring'.at # "none" => restoring.at # "none"
    BY <1>3, AsideKeeps DEF RestoreServed
  <2> QED BY <1>2, <1>3, <2>1, AsideKeeps
<1>4. ASSUME NEW h \in Handler, VerifyAnswer(h) PROVE Own'
  <2> DEFINE t == verifying[h].token
  <2>1. /\ login' = [login EXCEPT !.at = "me", !.token = t]
        /\ Shows(t, page.wallet, page.ready)
        /\ login.at = "verify" /\ restoring' = restoring
    BY <1>4, Effects DEF VerifyAnswer
  <2> HIDE DEF t
  <2>2. login'.at = "me" /\ login'.token = t
    BY <1>0, <2>1 DEF Login
  <2> QED BY <2>1, <2>2 DEF Own, Shows
<1>5. ASSUME login'.at = "none" \/ (login'.at \in {"sign", "verify"} /\ login.at # "none"),
             login.at # "me", Same, restoring' = restoring, sessions' = sessions
      PROVE  Own'
  BY <1>0, <1>5 DEF Own, Shows, Same, Owner
<1>6. ASSUME login'.at = login.at, login'.token = login.token, Same, restoring' = restoring,
             sessions' = sessions
      PROVE  Own'
  BY <1>0, <1>6 DEF Own, Shows, Same, Owner
<1>7. CASE AddressArrives \/ ProviderArrives \/ Connect
  <2>1. login' = login /\ Same /\ restoring' = restoring /\ sessions' = sessions
    BY <1>7, Effects DEF AddressArrives, ProviderArrives, Connect, backendVars
  <2> QED BY <1>6, <2>1
<1>8. CASE Reload
  <2>1. /\ login'.at = "none" /\ Shows(stored, NoAccount, stored = NoToken)
        /\ restoring'.at # "none" => stored # NoToken
    BY <1>0, <1>8, Effects, LoginValues DEF Reload, Restored
  <2> QED BY <2>1 DEF Own, Shows
<1>9. CASE RestoreSucceeds
  <2>1. /\ login' = login /\ Shows(restoring.token, Owner(restoring.token), TRUE)
        /\ restoring'.at = "none" /\ restoring.at # "none" /\ sessions' = sessions
    BY <1>9, Effects DEF RestoreSucceeds, Restored, backendVars
  <2> QED BY <2>1 DEF Own, Shows, Owner
<1>10. CASE RestoreFails
  <2>1. /\ login' = login /\ Shows(NoToken, NoAccount, TRUE)
        /\ restoring'.at = "none"
    BY <1>10, Effects DEF RestoreFails, Restored
  <2> QED BY <2>1 DEF Own, Shows
<1>11. CASE AutoAuth
  <2>1. Same /\ restoring' = restoring /\ sessions' = sessions
    BY <1>11, Effects DEF AutoAuth, backendVars
  <2>2. CASE login' = login
    BY <1>6, <2>1, <2>2
  <2>3. CASE login' # login
    <3>1. /\ page.ready /\ login.at = "none"
          /\ login' = [NoLogin EXCEPT !.at = "nonce", !.account = page.address]
      BY <1>11, <2>3, Effects
    <3>2. login'.at = "nonce"
      BY <3>1 DEF NoLogin
    <3> QED BY <2>1, <3>1, <3>2 DEF Own, Shows, Same, Owner
  <2> QED BY <2>2, <2>3
<1>12. ASSUME NEW n \in Nonce, LoginNonce(n) PROVE Own'
  <2>1. /\ login' = [login EXCEPT !.at = "sign", !.nonce = n] /\ Same
        /\ login.at = "nonce" /\ restoring' = restoring /\ sessions' = sessions
    BY <1>12, Effects DEF LoginNonce
  <2>2. login'.at = "sign"
    BY <1>0, <2>1 DEF Login
  <2> QED BY <1>5, <2>1, <2>2
<1>13. CASE LoginSign
  <2>1. /\ login' = [login EXCEPT !.at = "verify"] /\ Same
        /\ login.at = "sign" /\ restoring' = restoring /\ sessions' = sessions
    BY <1>13, Effects DEF LoginSign, backendVars
  <2>2. login'.at = "verify"
    BY <1>0, <2>1 DEF Login
  <2> QED BY <1>5, <2>1, <2>2
<1>14. CASE LoginMe
  <2>1. /\ login' = NoLogin /\ login.at = "me"
        /\ Shows(page.token, Owner(login.token), page.ready)
        /\ restoring' = restoring /\ sessions' = sessions
    BY <1>14, Effects DEF LoginMe, backendVars
  <2>2. NoLogin.at = "none"
    BY DEF NoLogin
  <2> QED BY <2>1, <2>2 DEF Own, Shows, Owner
<1>15. CASE LoginFails \/ DisconnectClears
  <2>1. /\ Shows(NoToken, NoAccount, page.ready) /\ restoring' = restoring
        /\ login' = NoLogin \/ login' = login
    BY <1>15, Effects DEF LoginFails, DisconnectClears
  <2>2. NoLogin.at = "none"
    BY DEF NoLogin
  <2> QED BY <2>1, <2>2 DEF Own, Shows
<1>16. CASE DisconnectStarts
  <2>1. /\ login' = login /\ restoring' = restoring /\ sessions' = sessions
        /\ Same \/ Shows(NoToken, NoAccount, page.ready)
    BY <1>16, Effects DEF DisconnectStarts, backendVars
  <2>2. CASE Same
    BY <1>6, <2>1, <2>2
  <2>3. CASE Shows(NoToken, NoAccount, page.ready)
    BY <2>1, <2>3 DEF Own, Shows
  <2> QED BY <2>1, <2>2, <2>3
<1> QED
  BY <1>3, <1>4, <1>7, <1>8, <1>9, <1>10, <1>11, <1>12, <1>13, <1>14, <1>15, <1>16
     DEF SessionsNext, Aside

-----------------------------------------------------------------------------
(***************************************************************************)
(* The theorems                                                            *)
(***************************************************************************)

\* The invariant holds at the start.
LEMMA InitIInv == SessionsInit => IInv
<1> SUFFICES ASSUME SessionsInit PROVE IInv
  OBVIOUS
<1> USE DEF SessionsInit, MaybeAccount, MaybeNonce, MaybeToken, Restored, NoLogin, Staying,
        IdleVerify, Mounted
<1>1. SessionsTypeOK
  BY DEF SessionsTypeOK, NonceRow, SessionRow, Verifying, Page, Restoring, Login, Leaving
<1>2. VerifyHolds /\ PageHolds /\ Verified
  BY DEF VerifyHolds, PageHolds, Verified
<1>3. SessionsAreSigned
  BY DEF SessionsAreSigned, Owner
<1>4. Own
  BY DEF Own
<1> QED BY <1>1, <1>2, <1>3, <1>4 DEF IInv

\* The invariant is inductive.
LEMMA NextIInv == IInv /\ [SessionsNext]_sessionVars => IInv'
<1> SUFFICES ASSUME IInv, [SessionsNext]_sessionVars PROVE IInv'
  OBVIOUS
<1> USE DEF IInv
<1>1. SessionsTypeOK' /\ VerifyHolds' /\ PageHolds'
  BY BackendStep, PageTypes DEF SessionsTypeOK
<1>2. SessionsAreSigned' /\ Verified'
  BY SignedStep
<1>3. Own'
  BY OwnStep
<1> QED BY <1>1, <1>2, <1>3

\* So it holds always.
THEOREM IInvHolds == SessionsSpec => []IInv
  BY InitIInv, NextIInv, PTL DEF SessionsSpec

\* Tables, requests and the page's state keep their types, and no await resumes
\* with a value missing.
THEOREM SessionsTypeCorrect == SessionsSpec => []SessionsTypeOK
<1>1. IInv => SessionsTypeOK
  BY DEF IInv
<1> QED BY <1>1, IInvHolds, PTL

\* However verifications interleave, repeat and stop between their statements,
\* each session's wallet has signed a nonce issued to it and marked used.
THEOREM SignedSessions == SessionsSpec => []SessionsAreSigned
<1>1. IInv => SessionsAreSigned
  BY DEF IInv
<1> QED BY <1>1, IInvHolds, PTL

\* Whatever accounts the wallet goes through, a page at rest that shows itself
\* signed in sends a token of the account it shows.
THEOREM SettledPageIsOwn == SessionsSpec => []SettledIsOwn
<1>1. IInv => SettledIsOwn
  BY DEF IInv, Own, SettledIsOwn, isAuthenticated, isAuthenticating
<1> QED BY <1>1, IInvHolds, PTL

=============================================================================
