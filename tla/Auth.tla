-------------------------------- MODULE Auth --------------------------------
(***************************************************************************)
(* One account: its row, the tokens signed for it, the token cache of the  *)
(* server process, and the requests that work on them                      *)
(* (server/src/modules/auth, the admin and the data-rights services).      *)
(*                                                                         *)
(* There is no session to end: a token carries the tokenVersion it was     *)
(* signed for, and whatever must end a session raises the row's.  A        *)
(* request awaits the database or bcrypt between its statements, and keeps *)
(* what it has read: `request' has where it is and what it knows.          *)
(*                                                                         *)
(* Passwords, tokens and mails are what they stand for, never text: a      *)
(* token is its version with how its bearer got it.  A request that is     *)
(* refused has changed nothing and is no step, unless it had.  The second  *)
(* factor is TwoFactor's; this account does not use it.                    *)
(***************************************************************************)
EXTENDS Integers, FiniteSets

CONSTANTS Request,            \* requests under way at a time
          Password,           \* the passwords anybody thinks of
          ResetId,            \* bound: reset tokens made
          MAX_LOGIN_ATTEMPTS, \* 8 in the code
          MaxVersion,         \* bound: raises of tokenVersion
          Allowlisted,        \* does ADMIN_EMAILS name the account?
          None

ASSUME SomethingIsNone == None \notin Request \cup Password \cup ResetId
ASSUME AttemptsAssumption == MAX_LOGIN_ATTEMPTS \in Nat \ {0}
ASSUME VersionAssumption == MaxVersion \in Nat
ASSUME AllowlistedAssumption == Allowlisted \in BOOLEAN

VARIABLES user,               \* the row
          lock,               \* the request holding the row FOR UPDATE, or None
          cache,              \* auth.token-cache's entry for the account, or None
          tokens,             \* access tokens signed
          resets,             \* reset tokens: "unmade", "stored", "mailed"
          uses,               \* how often each has set a password
          request

vars == <<user, lock, cache, tokens, resets, uses, request>>

-----------------------------------------------------------------------------
Version == 0 .. MaxVersion
Status == {"ACTIVE", "SUSPENDED", "BANNED"}
Operation == {"read", "change", "delete", "upgrade"}
CacheEntry == [version : Version, role : {"USER", "ADMIN"}]
AccessToken == [version : Version, proof : Password \cup {"guest", "oauth"}]

Idle == [pc |-> "idle"]

Becomes(r, next) == request' = [request EXCEPT ![r] = next]

At(r, pc) == request[r].pc = pc

\* assertUserCanAuthenticate
CanAuthenticate(row) == ~row.deleted /\ row.status = "ACTIVE"

\* signAccessToken, for the version read; `proof' is what the bearer showed for it.
Token(row, proof) == [version |-> row.version, proof |-> proof]

\* An update blocks while a transaction holds the row.
Writable == lock = None

UpdateUser(row) == Writable /\ user' = row

\* tokenVersion: { increment: 1 }
Bump(row) == [row EXCEPT !.version = @ + 1]

CanBump == user.version < MaxVersion

\* What passes for a new password beside the one the request knows.
NewPassword(current) == Password \ {current}

\* passwordUpdateData
WithPassword(row, p) == Bump([row EXCEPT !.password = p, !.reset = None])

Row(p, guest) ==
  [version |-> 0, password |-> p, guest |-> guest, failed |-> 0, locked |-> FALSE,
   status |-> "ACTIVE", deleted |-> FALSE, role |-> "USER", reset |-> None]

\* loginAsGuest makes the account, and signs its first token.
Guest ==
  /\ user = Row(None, TRUE)
  /\ tokens = {[version |-> 0, proof |-> "guest"]}

\* register makes an account with a password, and no token.
Registered ==
  /\ \E p \in Password : user = Row(p, FALSE)
  /\ tokens = {}

Init ==
  /\ Guest \/ Registered
  /\ lock = None
  /\ cache = None
  /\ resets = [i \in ResetId |-> "unmade"]
  /\ uses = [i \in ResetId |-> 0]
  /\ request = [r \in Request |-> Idle]

-----------------------------------------------------------------------------
(* The token cache: getUserFromToken.                                      *)

\* What the cache keeps: the version, and of toSafeAuthUser the role.
Entry(row) == [version |-> row.version, role |-> row.role]

\* The fast path: an entry of the token's own version.
Serves(version) == cache # None /\ cache.version = version

\* requireAuth has attached the user.  A plain read is over with that.
Admitted(op) == IF op = "read" THEN Idle ELSE [pc |-> op]

\* With a token in hand, the middleware admits the request or looks the user up.
Authenticate(r, t, op) ==
  /\ At(r, "idle")
  /\ Becomes(r, IF Serves(t.version) THEN Admitted(op)
                ELSE [pc |-> "lookup", version |-> t.version, op |-> op])
  /\ UNCHANGED <<user, lock, cache, tokens, resets, uses>>

\* findTokenUserById returns, and its answer is good enough or the request ends.
LookUp(r) ==
  /\ At(r, "lookup")
  /\ Becomes(r, IF user.version = request[r].version /\ CanAuthenticate(user)
                THEN [pc |-> "fill", entry |-> Entry(user), op |-> request[r].op]
                ELSE Idle)
  /\ UNCHANGED <<user, lock, cache, tokens, resets, uses>>

\* The request resumes: authTokenCache.set with the user it has read.
FillCache(r) ==
  /\ At(r, "fill")
  /\ cache' = request[r].entry
  /\ Becomes(r, Admitted(request[r].op))
  /\ UNCHANGED <<user, lock, tokens, resets, uses>>

\* A cache that never looks at expiresAt.
NeverExpired == FALSE

\* The TTL is over, or MAX_ENTRIES other users came after.
Expired == cache # None

CacheExpires ==
  /\ Expired
  /\ cache' = None
  /\ UNCHANGED <<user, lock, tokens, resets, uses, request>>

\* authTokenCache.invalidate, once the write it follows has returned.  Whoever logs in by it
\* gets a token for the row that was written.
Invalidate(r) ==
  /\ At(r, "invalidate")
  /\ cache' = None
  /\ tokens' = tokens \cup request[r].grants
  /\ Becomes(r, Idle)
  /\ UNCHANGED <<user, lock, resets, uses>>

Invalidating(grants) == [pc |-> "invalidate", grants |-> grants]

-----------------------------------------------------------------------------
(* Logging in with a password: login.                                      *)

Login(r) ==
  /\ At(r, "idle")
  /\ CanAuthenticate(user) /\ ~user.locked /\ user.password # None
  /\ Becomes(r, [pc |-> "compare", failed |-> user.failed, token |-> Token(user, user.password)])
  /\ UNCHANGED <<user, lock, cache, tokens, resets, uses>>

LocksOut(attempts) == attempts >= MAX_LOGIN_ATTEMPTS

\* bcrypt says no: the count that was read, plus one.
LoginWrong(r) ==
  /\ At(r, "compare")
  /\ LET attempts == request[r].failed + 1 IN
       UpdateUser(IF LocksOut(attempts)
                  THEN [user EXCEPT !.failed = 0, !.locked = TRUE]
                  ELSE [user EXCEPT !.failed = attempts])
  /\ Becomes(r, Idle)
  /\ UNCHANGED <<lock, cache, tokens, resets, uses>>

\* A login that signs for the row as it is by now.
SignedForTheRow(r) == Token(user, request[r].token.proof)

\* buildLoginResult: the user was read before bcrypt.
SignedFor(r) == request[r].token

\* bcrypt says yes.
LoginRight(r) ==
  /\ At(r, "compare")
  /\ UpdateUser([user EXCEPT !.failed = 0, !.locked = FALSE])
  /\ tokens' = tokens \cup {SignedFor(r)}
  /\ Becomes(r, Idle)
  /\ UNCHANGED <<lock, cache, resets, uses>>

\* lockedOutUntil passes.
LockoutEnds ==
  /\ user.locked
  /\ UpdateUser([user EXCEPT !.locked = FALSE])
  /\ UNCHANGED <<lock, cache, tokens, resets, uses, request>>

(* Logging in with 42: loginWithFortyTwo, for an account that is linked.   *)

\* The user that was read may authenticate, or may not.
ByOAuth(row) == IF CanAuthenticate(row) THEN {Token(row, "oauth")} ELSE {}

FortyTwoLogin(r) ==
  /\ At(r, "idle") /\ ~user.guest /\ ~user.deleted
  /\ Becomes(r, IF Allowlisted /\ user.role # "ADMIN" THEN [pc |-> "promote"]
                ELSE [pc |-> "admit", grants |-> ByOAuth(user)])
  /\ UNCHANGED <<user, lock, cache, tokens, resets, uses>>

\* promoteAllowlistedAdmin: the promotion, if there still is one to make, and the row read again.
FortyTwoPromote(r) ==
  /\ At(r, "promote")
  /\ IF user.role = "USER" /\ ~user.deleted
     THEN CanBump /\ UpdateUser(Bump([user EXCEPT !.role = "ADMIN"]))
     ELSE Writable /\ UNCHANGED user
  /\ Becomes(r, Invalidating(ByOAuth(user')))
  /\ UNCHANGED <<lock, cache, tokens, resets, uses>>

FortyTwoAnswer(r) ==
  /\ At(r, "admit")
  /\ tokens' = tokens \cup request[r].grants
  /\ Becomes(r, Idle)
  /\ UNCHANGED <<user, lock, cache, resets, uses>>

-----------------------------------------------------------------------------
(* Changing the password: changePassword and the reset by mail.            *)

\* The current password is right for the row that was read.
ChangePassword(r) ==
  /\ At(r, "change")
  /\ Becomes(r, IF user.password # None THEN [pc |-> "changing", password |-> user.password]
                ELSE Idle)
  /\ UNCHANGED <<user, lock, cache, tokens, resets, uses>>

\* updatePasswordById looks at the id alone.
ChangeWrite(r) ==
  /\ At(r, "changing") /\ CanBump
  /\ \E p \in NewPassword(request[r].password) : UpdateUser(WithPassword(user, p))
  /\ Becomes(r, Invalidating({}))
  /\ UNCHANGED <<lock, cache, tokens, resets, uses>>

\* requestPasswordReset finds the account by its address, be it deleted or a guest's, and makes
\* a token ...
RequestReset(r, i) ==
  /\ At(r, "idle")
  /\ resets[i] = "unmade" /\ \A q \in Request : At(q, "store") => request[q].id # i
  /\ Becomes(r, [pc |-> "store", id |-> i])
  /\ UNCHANGED <<user, lock, cache, tokens, resets, uses>>

\* ... stores it ...
StoreReset(r) ==
  /\ At(r, "store")
  /\ UpdateUser([user EXCEPT !.reset = request[r].id])
  /\ resets' = [resets EXCEPT ![request[r].id] = "stored"]
  /\ Becomes(r, [pc |-> "mail", id |-> request[r].id])
  /\ UNCHANGED <<lock, cache, tokens, uses>>

\* ... and mails it.
MailReset(r) ==
  /\ At(r, "mail")
  /\ resets' = [resets EXCEPT ![request[r].id] = "mailed"]
  /\ Becomes(r, Idle)
  /\ UNCHANGED <<user, lock, cache, tokens, uses>>

\* The mail does not get out: the account's token is cleared, whichever it is by now, unless
\* that fails too.
MailFails(r) ==
  /\ At(r, "mail")
  /\ UpdateUser([user EXCEPT !.reset = None]) \/ UNCHANGED user
  /\ Becomes(r, Idle)
  /\ UNCHANGED <<lock, cache, tokens, resets, uses>>

\* A row that is read without FOR UPDATE.
NotForUpdate(r) == UNCHANGED lock

\* SELECT ... FOR UPDATE
ForUpdate(r) == Writable /\ lock' = r

\* resetPassword: withLockedPasswordResetToken finds the row by the mailed token.
ResetPassword(r, i) ==
  /\ At(r, "idle")
  /\ resets[i] = "mailed" /\ user.reset = i
  /\ ForUpdate(r)
  /\ Becomes(r, [pc |-> "reset", id |-> i])
  /\ UNCHANGED <<user, cache, tokens, resets, uses>>

\* The new password is written, unseen by others until the commit, and the cached entry dropped.
ResetWrite(r) ==
  /\ At(r, "reset") /\ CanBump
  /\ \E p \in NewPassword(user.password) :
       Becomes(r, [pc |-> "commit", id |-> request[r].id, password |-> p])
  /\ cache' = None
  /\ UNCHANGED <<user, lock, tokens, resets, uses>>

ResetCommit(r) ==
  /\ At(r, "commit")
  /\ user' = WithPassword(user, request[r].password)
  /\ uses' = [uses EXCEPT ![request[r].id] = @ + 1]
  /\ lock' = None
  /\ Becomes(r, Idle)
  /\ UNCHANGED <<cache, tokens, resets>>

\* The token is no good, the password is the old one, or the transaction runs out of time.
ResetRollback(r) ==
  /\ At(r, "reset") \/ At(r, "commit")
  /\ lock' = None
  /\ Becomes(r, Idle)
  /\ UNCHANGED <<user, cache, tokens, resets, uses>>

-----------------------------------------------------------------------------
(* A guest becomes a user: upgradeGuestAccount.                            *)

UpgradeGuest(r) ==
  /\ At(r, "upgrade")
  /\ Becomes(r, IF user.guest THEN [pc |-> "upgrading"] ELSE Idle)
  /\ UNCHANGED <<user, lock, cache, tokens, resets, uses>>

\* upgradeGuestById's where clause.
Upgradable(row) == row.guest /\ ~row.deleted

Upgraded(row, p) ==
  Bump([row EXCEPT !.guest = FALSE, !.password = p, !.failed = 0, !.locked = FALSE])

UpgradeWrite(r) ==
  /\ At(r, "upgrading")
  /\ \/ /\ Upgradable(user) /\ CanBump
        /\ \E p \in Password :
             /\ UpdateUser(Upgraded(user, p))
             /\ Becomes(r, Invalidating({Token(user', p)}))
     \/ /\ ~Upgradable(user)
        /\ Writable /\ UNCHANGED user
        /\ Becomes(r, Idle)
  /\ UNCHANGED <<lock, cache, tokens, resets, uses>>

(* The account is deleted by its owner: deleteCurrentUserAccount.          *)

DeleteAccount(r) ==
  /\ At(r, "delete")
  /\ Becomes(r, IF user.deleted THEN Idle ELSE [pc |-> "deleting"])
  /\ UNCHANGED <<user, lock, cache, tokens, resets, uses>>

\* anonymizeUserById with buildAnonymizedUserData
DeleteWrite(r) ==
  /\ At(r, "deleting") /\ CanBump
  /\ UpdateUser(Bump([user EXCEPT !.deleted = TRUE, !.password = None, !.guest = FALSE,
                                  !.reset = None, !.failed = 0, !.locked = FALSE]))
  /\ Becomes(r, Invalidating({}))
  /\ UNCHANGED <<lock, cache, tokens, resets, uses>>

(* Administrators: moderateUser, changeUserRole, deleteUser.  The account  *)
(* is never the last administrator.                                        *)

\* A moderation that writes the status and leaves the version.
StatusOnly(row, status) == [row EXCEPT !.status = status]

WithStatus(row, status) == Bump([row EXCEPT !.status = status])

WithRole(row, role) == IF row.role = role THEN row ELSE Bump([row EXCEPT !.role = role])

Administrate(r) ==
  /\ At(r, "idle") /\ ~user.deleted /\ CanBump
  /\ \/ \E s \in Status : UpdateUser(WithStatus(user, s))
     \/ \E role \in {"USER", "ADMIN"} : UpdateUser(WithRole(user, role))
     \/ UpdateUser(Bump([user EXCEPT !.deleted = TRUE]))
  /\ Becomes(r, Invalidating({}))
  /\ UNCHANGED <<lock, cache, tokens, resets, uses>>

\* suspendedUntil passes; nobody writes it down.
SuspensionEnds ==
  /\ user.status = "SUSPENDED"
  /\ user' = [user EXCEPT !.status = "ACTIVE"]
  /\ UNCHANGED <<lock, cache, tokens, resets, uses, request>>

\* The process dies.  The rows stay, an open transaction is rolled back.
Restart ==
  /\ request' = [r \in Request |-> Idle]
  /\ lock' = None
  /\ cache' = None
  /\ UNCHANGED <<user, tokens, resets, uses>>

-----------------------------------------------------------------------------
\* What a request that has begun does next.
Proceed(r) ==
  \/ LookUp(r) \/ FillCache(r) \/ Invalidate(r)
  \/ LoginWrong(r) \/ LoginRight(r)
  \/ FortyTwoPromote(r) \/ FortyTwoAnswer(r)
  \/ ChangePassword(r) \/ ChangeWrite(r)
  \/ StoreReset(r) \/ MailReset(r) \/ MailFails(r)
  \/ ResetWrite(r) \/ ResetCommit(r) \/ ResetRollback(r)
  \/ UpgradeGuest(r) \/ UpgradeWrite(r)
  \/ DeleteAccount(r) \/ DeleteWrite(r)

Arrive(r) ==
  \/ \E t \in tokens, op \in Operation : Authenticate(r, t, op)
  \/ Login(r) \/ FortyTwoLogin(r) \/ Administrate(r)
  \/ \E i \in ResetId : RequestReset(r, i) \/ ResetPassword(r, i)

Next ==
  \/ \E r \in Request : Arrive(r) \/ Proceed(r)
  \/ CacheExpires \/ LockoutEnds \/ SuspensionEnds \/ Restart

Spec == Init /\ [][Next]_vars

\* Awaits settle, and an entry's time to live runs out.
FairSpec == Spec /\ (\A r \in Request : WF_vars(Proceed(r))) /\ WF_vars(CacheExpires)

-----------------------------------------------------------------------------
\* The row, the cache and every request keep their type.
TypeOK ==
  /\ user \in [version : Version, password : Password \cup {None}, guest : BOOLEAN,
               failed : 0 .. MAX_LOGIN_ATTEMPTS - 1, locked : BOOLEAN, status : Status,
               deleted : BOOLEAN, role : {"USER", "ADMIN"}, reset : ResetId \cup {None}]
  /\ lock \in Request \cup {None}
  /\ cache \in CacheEntry \cup {None}
  /\ tokens \subseteq AccessToken
  /\ resets \in [ResetId -> {"unmade", "stored", "mailed"}]
  /\ uses \in [ResetId -> Nat]
  /\ request \in [Request ->
       {Idle} \cup [pc : Operation \cup {"promote", "upgrading", "deleting"}]
         \cup [pc : {"lookup"}, version : Version, op : Operation]
         \cup [pc : {"fill"}, op : Operation, entry : CacheEntry]
         \cup [pc : {"compare"}, failed : 0 .. MAX_LOGIN_ATTEMPTS - 1, token : AccessToken]
         \cup [pc : {"admit", "invalidate"}, grants : SUBSET AccessToken]
         \cup [pc : {"changing"}, password : Password]
         \cup [pc : {"store", "mail", "reset"}, id : ResetId]
         \cup [pc : {"commit"}, id : ResetId, password : Password]]

\* A cached entry of the row's version agrees with the row in the role it grants, and the
\* account may still be used: what a fill has read before a ban, a deletion or a change of role
\* has a version that no live token carries.
CurrentEntryAgrees ==
  cache # None /\ cache.version = user.version
    => cache.role = user.role /\ CanAuthenticate(user)

\* A token that is still good was given to somebody who showed the password that is still
\* set: none of the logins that overlap a change of the password survives it.
LiveTokenIsProven ==
  \A t \in tokens : t.version = user.version
    => \/ t.proof = "oauth"
       \/ t.proof = "guest" /\ user.guest
       \/ t.proof = user.password

\* A mailed reset token sets a password at most once, however often it is sent in.
ResetOnce == \A i \in ResetId : uses[i] <= 1

\* The backstop: once the version is raised, the cache serves tokens of the old one no more
\* than for a while, whatever fills and invalidations overlapped.
RevokedTokenDies ==
  \A v \in Version : (user.version > v) ~> [](~Serves(v))
=============================================================================
