---------------------------- MODULE AccountAccess ----------------------------
(***************************************************************************)
(* AccountService over the operational store: concurrent requests about    *)
(* one email identity.  A step is one store call, with the computation     *)
(* before it; what a request read in an earlier step may be stale.  A      *)
(* deleted identity may register again and gets a new account id.          *)
(***************************************************************************)
EXTENDS Naturals, FiniteSets

CONSTANTS
    Null,
    Requests,     \* as many as may be in flight at once
    Products,
    Threshold,    \* FAILED_ATTEMPT_LOCK_THRESHOLD
    MaxRequests   \* bound on the operations requested

VARIABLES
    account,      \* id of the live account, 0 without one
    lastId,
    credential,   \* its credential, or Null
    sessions,     \* live sessions, each with its account
    tokens,       \* recovery tokens, each with its account
    portfolio,    \* confirmed products, each with its account
    audit,
    req,          \* what each request in flight is, and where it stands
    requested     \* operations requested so far

vars == <<account, lastId, credential, sessions, tokens, portfolio, audit, req, requested>>
store == <<account, lastId, credential, sessions, tokens, portfolio>>

Credential(id, password) == [account |-> id, password |-> password, count |-> 0, lock |-> "none"]

Passwords == {"first", "second"}
Operations ==
    [kind : {"signIn"}, password : Passwords]
    \union [kind : {"confirm", "remove"}, product : Products]
    \union [kind : {"register", "issue", "recover", "setExporter", "signOut", "delete"}]

\* at: the next store call; account, seen: what was read.
Request(op) == [op |-> op, at |-> "start", account |-> 0, seen |-> Null]
Nothing == [Request(Null) EXCEPT !.at = "done"]

At(r, kinds, at) == req[r].at = at /\ req[r].op.kind \in kinds
Goes(r, at) == req' = [req EXCEPT ![r].at = at]
Answers(r) == req' = [req EXCEPT ![r] = Nothing]
\* Its last call appends an audit event of account id, refused or not, and then it
\* answers.
ToAudit(r, id) ==
    req' = [req EXCEPT ![r].at = "audit", ![r].account = id]

\* Fault: the insert is not refused for want of the account.
AccountUnchecked(id) == TRUE

\* requireAccount: UNKNOWN_ENTITY otherwise.
RequireAccount(id) == account = id

Fails(r) == Answers(r) /\ UNCHANGED <<store, audit>>

\* appendAuditEvent, with an account or without one.
Audit(r) ==
    /\ req[r].at = "audit"
    /\ \/ /\ req[r].account = 0 \/ RequireAccount(req[r].account)
          /\ audit' = audit \union {[account |-> req[r].account, kind |-> req[r].op.kind]}
          /\ Answers(r) /\ UNCHANGED store
       \/ ~(req[r].account = 0 \/ RequireAccount(req[r].account)) /\ Fails(r)

\* registerAccount: createAccountWithCredential.
Register(r) ==
    /\ At(r, {"register"}, "start")
    /\ \/ /\ credential # Null
          /\ Answers(r) /\ UNCHANGED <<store, audit>>
       \/ /\ credential = Null
          /\ lastId' = lastId + 1 /\ account' = lastId'
          /\ credential' = Credential(lastId', "first")
          /\ ToAudit(r, lastId')
          /\ UNCHANGED <<sessions, tokens, portfolio, audit>>

\* authenticate, issueRecoveryToken: findCredentialByIdentity.
FindCredential(r) ==
    /\ At(r, {"signIn", "issue"}, "start")
    /\ \/ credential = Null /\ ToAudit(r, 0)
       \/ /\ credential # Null /\ req[r].op.kind = "signIn" /\ credential.lock = "active"
          /\ ToAudit(r, credential.account)
       \/ /\ credential # Null /\ ~(req[r].op.kind = "signIn" /\ credential.lock = "active")
          /\ req' = [req EXCEPT ![r].at = IF req[r].op.kind = "signIn" THEN "attempts" ELSE "token",
                                ![r].account = credential.account, ![r].seen = credential]
    /\ UNCHANGED <<store, audit>>

\* authenticate after verifyPassword: updateCredentialAttempts, from the
\* credential as it was read before.
Attempts(r) ==
    LET seen == req[r].seen
        count == (IF seen.lock = "expired" THEN 0 ELSE seen.count) + 1
        locks == count >= Threshold
    IN /\ At(r, {"signIn"}, "attempts")
       /\ \/ ~RequireAccount(seen.account) /\ Fails(r)
          \/ /\ RequireAccount(seen.account) /\ credential # Null
             /\ UNCHANGED <<account, lastId, sessions, tokens, portfolio, audit>>
             /\ \/ /\ req[r].op.password = seen.password
                   /\ credential' = [credential EXCEPT !.count = 0, !.lock = "none"]
                   /\ Goes(r, "account")
                \/ /\ req[r].op.password # seen.password
                   /\ credential' = [credential EXCEPT !.count = count,
                                                       !.lock = IF locks THEN "active" ELSE "none"]
                   /\ ToAudit(r, seen.account)

\* authenticate: findAccount.
FindAccount(r) ==
    /\ At(r, {"signIn"}, "account")
    /\ \/ account = req[r].account /\ Goes(r, "session")
       \/ account # req[r].account /\ ToAudit(r, 0)
    /\ UNCHANGED <<store, audit>>

\* authenticate: createSession.
CreateSession(r) ==
    /\ At(r, {"signIn"}, "session")
    /\ \/ /\ RequireAccount(req[r].account)
          /\ sessions' = sessions \union {[account |-> req[r].account, number |-> requested]}
          /\ ToAudit(r, req[r].account)
          /\ UNCHANGED <<account, lastId, credential, tokens, portfolio, audit>>
       \/ ~RequireAccount(req[r].account) /\ Fails(r)

\* issueRecoveryToken of the store.
IssueToken(r) ==
    /\ At(r, {"issue"}, "token")
    /\ \/ /\ RequireAccount(req[r].account)
          /\ tokens' = tokens \union {[account |-> req[r].account, number |-> requested, used |-> 0]}
          /\ ToAudit(r, req[r].account)
          /\ UNCHANGED <<account, lastId, credential, sessions, portfolio, audit>>
       \/ ~RequireAccount(req[r].account) /\ Fails(r)

\* consumeRecoveryToken of the store: neither consumed nor expired.
Consumable(t) == t.used = 0

\* consumeRecoveryToken: the token is consumed before anything else is done.
ConsumeToken(r) ==
    /\ At(r, {"recover"}, "start")
    /\ \/ \E t \in tokens :
             /\ Consumable(t)
             /\ tokens' = (tokens \ {t}) \union {[t EXCEPT !.used = @ + 1]}
             /\ req' = [req EXCEPT ![r].at = "credential", ![r].account = t.account]
             /\ UNCHANGED <<account, lastId, credential, sessions, portfolio, audit>>
       \/ Answers(r) /\ UNCHANGED <<store, audit>>

FindCredentialByAccount(r) ==
    /\ At(r, {"recover"}, "credential")
    /\ \/ account = req[r].account /\ Goes(r, "verifier")
       \/ account # req[r].account /\ Answers(r)
    /\ UNCHANGED <<store, audit>>

UpdateVerifier(r) ==
    /\ At(r, {"recover"}, "verifier")
    /\ \/ /\ RequireAccount(req[r].account) /\ credential # Null
          /\ credential' = Credential(credential.account, "second")
          /\ Goes(r, "revoke")
          /\ UNCHANGED <<account, lastId, sessions, tokens, portfolio, audit>>
       \/ ~RequireAccount(req[r].account) /\ Fails(r)

\* revokeSessionsForAccount: the sessions that remain.
Revoked(id) == {s \in sessions : s.account # id}

RevokeSessions(r) ==
    /\ At(r, {"recover"}, "revoke")
    /\ \/ /\ RequireAccount(req[r].account)
          /\ sessions' = Revoked(req[r].account)
          /\ ToAudit(r, req[r].account)
          /\ UNCHANGED <<account, lastId, credential, tokens, portfolio, audit>>
       \/ ~RequireAccount(req[r].account) /\ Fails(r)

\* requireSession of the account routes; sign-out then revokes that session.
ResolveSession(r) ==
    /\ At(r, {"confirm", "remove", "setExporter", "signOut", "delete"}, "start")
    /\ \/ \E s \in sessions :
             \/ /\ req[r].op.kind # "signOut"
                /\ req' = [req EXCEPT ![r].at = IF req[r].op.kind \in {"confirm", "remove"} THEN "list" ELSE "write",
                                      ![r].account = s.account]
                /\ UNCHANGED <<store, audit>>
             \/ /\ req[r].op.kind = "signOut"
                /\ sessions' = sessions \ {s} /\ Answers(r)
                /\ UNCHANGED <<account, lastId, credential, tokens, portfolio, audit>>
       \/ Answers(r) /\ UNCHANGED <<store, audit>>

\* confirmProduct, removeProduct: listConfirmedProducts.
ListProducts(r) ==
    /\ At(r, {"confirm", "remove"}, "list")
    /\ req' = [req EXCEPT ![r].at = "write", ![r].seen = {e.product : e \in portfolio}]
    /\ UNCHANGED <<store, audit>>

\* The list one edit further, as it was read.
Edited(r) ==
    IF req[r].op.kind = "confirm" THEN req[r].seen \union {req[r].op.product}
                                  ELSE req[r].seen \ {req[r].op.product}

\* confirmPortfolio: the whole list is replaced.
ConfirmPortfolio(r) ==
    /\ At(r, {"confirm", "remove"}, "write")
    /\ \/ /\ RequireAccount(req[r].account)
          /\ portfolio' = {[account |-> req[r].account, product |-> p] : p \in Edited(r)}
          /\ ToAudit(r, req[r].account)
          /\ UNCHANGED <<account, lastId, credential, sessions, tokens, audit>>
       \/ ~RequireAccount(req[r].account) /\ Fails(r)

\* setPrimaryExporter.
SetExporter(r) ==
    /\ At(r, {"setExporter"}, "write")
    /\ \/ account = req[r].account /\ ToAudit(r, req[r].account) /\ UNCHANGED <<store, audit>>
       \/ account # req[r].account /\ Fails(r)

\* deleteAccount: everything of the account and an audit event, in one transaction.
Delete(r) ==
    /\ At(r, {"delete"}, "write")
    /\ \/ /\ account = req[r].account
          /\ account' = 0 /\ credential' = Null /\ sessions' = {} /\ tokens' = {} /\ portfolio' = {}
          /\ audit' = audit \union {[account |-> req[r].account, kind |-> "delete"]}
          /\ Answers(r) /\ UNCHANGED lastId
       \/ account # req[r].account /\ Fails(r)

\* A request arrives.
Arrive(r, op) ==
    /\ req[r] = Nothing /\ requested < MaxRequests
    /\ req' = [req EXCEPT ![r] = Request(op)] /\ requested' = requested + 1
    /\ UNCHANGED <<store, audit>>

\* The store cannot be reached: the request fails where it stands.
Outage(r) == req[r].at # "done" /\ Fails(r)

\* The lock of the credential runs out; so does a session or a token.
Expire ==
    /\ \/ /\ credential # Null /\ credential.lock = "active"
          /\ credential' = [credential EXCEPT !.lock = "expired"]
          /\ UNCHANGED <<sessions, tokens>>
       \/ \E s \in sessions : sessions' = sessions \ {s} /\ UNCHANGED <<credential, tokens>>
       \/ \E t \in tokens : tokens' = tokens \ {t} /\ UNCHANGED <<credential, sessions>>
    /\ UNCHANGED <<account, lastId, portfolio, audit, req, requested>>

Init ==
    /\ account = 1 /\ lastId = 1
    /\ credential = Credential(1, "first")
    /\ sessions = {[account |-> 1, number |-> 0]}
    /\ tokens = {[account |-> 1, number |-> 0, used |-> 0]}
    /\ portfolio = {} /\ audit = {}
    /\ req = [r \in Requests |-> Nothing] /\ requested = 0

Next ==
    \/ Expire
    \/ \E r \in Requests, op \in Operations : Arrive(r, op)
    \/ \E r \in Requests : UNCHANGED requested /\
        \/ Audit(r) \/ Register(r) \/ FindCredential(r) \/ Attempts(r) \/ FindAccount(r)
        \/ CreateSession(r) \/ IssueToken(r) \/ ConsumeToken(r) \/ FindCredentialByAccount(r)
        \/ UpdateVerifier(r) \/ RevokeSessions(r) \/ ResolveSession(r) \/ ListProducts(r)
        \/ ConfirmPortfolio(r) \/ SetExporter(r) \/ Delete(r) \/ Outage(r)

Spec == Init /\ [][Next]_vars
-----------------------------------------------------------------------------
\* Whatever requests are under way while the account is deleted, and after its
\* identity has registered again: every row belongs to the account that exists,
\* and no event is added to the trail of a deleted account.
NothingOutlivesTheAccount ==
    /\ \A row \in sessions \union tokens \union portfolio : row.account = account
    /\ (credential = Null) = (account = 0)
    /\ credential # Null => credential.account = account

\* The trail of a deleted account ends with its deletion.
NoLateEvent == \A e \in audit' \ audit : ~\E d \in audit : d.kind = "delete" /\ d.account = e.account

\* A recovery token lets one request through, however many present it at once.
TokenUsedOnce == \A t \in tokens : t.used <= 1
=============================================================================
