------------------------------ MODULE TwoFactor ------------------------------
(***************************************************************************)
(* The second factor of one account: setting it up, confirming, restarting *)
(* and disabling it, and the second half of a login                        *)
(* (server/src/modules/auth).                                              *)
(*                                                                         *)
(* A setup is a secret for the authenticator with its recovery codes.      *)
(* Starting one stores it as pending; entering a code of its secret makes  *)
(* it the active one.  Each operation reads the row, awaits, and then      *)
(* writes, in a transaction where there is more than a row to write;       *)
(* `request' has the operations between the two, with what they know.      *)
(*                                                                         *)
(* Secrets and codes are their setup's, never text: who was shown a setup  *)
(* can enter right codes of it.  An operation that is refused has changed  *)
(* nothing and is no step, unless it is refused by its last write.  Of the *)
(* account the password's version is left; Auth has the rest.              *)
(***************************************************************************)
EXTENDS Integers, FiniteSets

CONSTANTS Request,       \* requests under way at a time
          Setup,         \* bound: setups generated
          Slot,          \* the recovery codes of a setup: 8 in the code
          MaxVersion,    \* bound: raises of tokenVersion
          MaxChallenge,  \* bound: challenge versions
          None

ASSUME SomethingIsNone == None \notin Request \cup Setup
ASSUME BoundsAssumption == MaxVersion \in Nat /\ MaxChallenge \in Nat

VARIABLES user,          \* the row
          codes,         \* the rows of UserTwoFactorRecoveryCode
          shown,         \* the setups whose secret and codes somebody has
          proven,        \* those a right code was entered of, to confirm them
          challenges,    \* the challenge tokens signed
          used,          \* how many logins each challenge version has completed
          spent,         \* how many each recovery code has
          request

vars == <<user, codes, shown, proven, challenges, used, spent, request>>

-----------------------------------------------------------------------------
Version == 0 .. MaxVersion
ChallengeVersion == 0 .. MaxChallenge

\* A recovery code, and the row that keeps its hash.
RecoveryCode == [setup : Setup, slot : Slot]
CodeRow == [code : RecoveryCode, isPending : BOOLEAN]
Challenge == [tokenVersion : Version, challengeVersion : ChallengeVersion]

Idle == [pc |-> "idle"]

Becomes(r, next) == request' = [request EXCEPT ![r] = next]

At(r, pc) == request[r].pc = pc

CodesOf(s, isPending) == [code : [setup : {s}, slot : Slot], isPending : {isPending}]

Pending(rows) == {k \in rows : k.isPending}

Active(rows) == rows \ Pending(rows)

Init ==
  /\ user = [version |-> 0, enabled |-> FALSE, secret |-> None, pending |-> None, challenge |-> 0]
  /\ codes = {}
  /\ shown = {} /\ proven = {}
  /\ challenges = {}
  /\ used = [v \in ChallengeVersion |-> 0]
  /\ spent = [k \in RecoveryCode |-> 0]
  /\ request = [r \in Request |-> Idle]

-----------------------------------------------------------------------------
(* Setting it up: setupTwoFactor, regenerateTwoFactor, confirm, disable.   *)

\* createPendingTwoFactorSetup generates a secret and its codes.  The set-up route refuses an
\* account that has a second factor, the one to regenerate does not.
StartSetup(r, s) ==
  /\ At(r, "idle")
  /\ s \notin shown /\ \A q \in Request : At(q, "replace") => request[q].setup # s
  /\ Becomes(r, [pc |-> "replace", setup |-> s])
  /\ UNCHANGED <<user, codes, shown, proven, challenges, used, spent>>

\* A setup that takes the old codes away at once.
OnlyPendingSetup(rows, s) == CodesOf(s, TRUE)

\* The pending codes are deleted, the new ones created.
WithPendingSetup(rows, s) == Active(rows) \cup CodesOf(s, TRUE)

\* replacePendingTwoFactorSetup, and the answer: the QR code and the recovery codes.
ReplacePending(r) ==
  /\ At(r, "replace")
  /\ LET s == request[r].setup IN
     /\ user' = [user EXCEPT !.pending = s]
     /\ codes' = WithPendingSetup(codes, s)
     /\ shown' = shown \cup {s}
  /\ Becomes(r, Idle)
  /\ UNCHANGED <<proven, challenges, used, spent>>

\* confirmTwoFactorSetup: the code entered is right for the secret that is pending.
Confirm(r) ==
  /\ At(r, "idle")
  /\ user.pending # None
  /\ proven' = proven \cup {user.pending}
  /\ Becomes(r, [pc |-> "activate", secret |-> user.pending])
  /\ UNCHANGED <<user, codes, shown, challenges, used, spent>>

\* An activation of what is pending by then.
SecretPendingNow(r) == user.pending

\* The secret that was checked goes along to the transaction.
SecretChecked(r) == request[r].secret

\* activatePendingTwoFactorSetup: the active codes are deleted, the pending ones active.
Activate(r) ==
  /\ At(r, "activate")
  /\ user' = [user EXCEPT !.enabled = TRUE, !.secret = SecretChecked(r), !.pending = None]
  /\ codes' = {[code |-> k.code, isPending |-> FALSE] : k \in Pending(codes)}
  /\ Becomes(r, Idle)
  /\ UNCHANGED <<shown, proven, challenges, used, spent>>

\* disableTwoFactor finds something to disable ...
Disable(r) ==
  /\ At(r, "idle")
  /\ user.enabled \/ user.secret # None \/ user.pending # None
  /\ Becomes(r, [pc |-> "clear"])
  /\ UNCHANGED <<user, codes, shown, proven, challenges, used, spent>>

\* ... and clearTwoFactorById removes all of it.
Clear(r) ==
  /\ At(r, "clear")
  /\ user' = [user EXCEPT !.enabled = FALSE, !.secret = None, !.pending = None]
  /\ codes' = {}
  /\ Becomes(r, Idle)
  /\ UNCHANGED <<shown, proven, challenges, used, spent>>

-----------------------------------------------------------------------------
(* Logging in.                                                             *)

\* login or loginWithFortyTwo: the first factor is right, and the row that was read asks for a
\* second one.
Login(r) ==
  /\ At(r, "idle")
  /\ user.enabled
  /\ Becomes(r, [pc |-> "issue"])
  /\ UNCHANGED <<user, codes, shown, proven, challenges, used, spent>>

CanChallenge == user.challenge < MaxChallenge

\* twoFactorChallengeVersion: { increment: 1 }
Challenged(row) == [row EXCEPT !.challenge = @ + 1]

\* buildLoginResult: a challenge of its own version, for the row as the update returns it.
IssueChallenge(r) ==
  /\ At(r, "issue") /\ CanChallenge
  /\ user' = Challenged(user)
  /\ challenges' = challenges \cup
       {[tokenVersion |-> user'.version, challengeVersion |-> user'.challenge]}
  /\ Becomes(r, Idle)
  /\ UNCHANGED <<codes, shown, proven, used, spent>>

\* completeTwoFactorLogin: the account still has a second factor, and the challenge is of its
\* tokenVersion.
Answerable(c) ==
  user.enabled /\ user.secret # None /\ user.version = c.tokenVersion

\* A right code of the secret the row had when it was read.
EnterTotp(r, c) ==
  /\ At(r, "idle")
  /\ Answerable(c) /\ user.secret \in shown
  /\ Becomes(r, [pc |-> "totp", challenge |-> c.challengeVersion])
  /\ UNCHANGED <<user, codes, shown, proven, challenges, used, spent>>

\* A recovery code of whatever setup; the database has to know it.
EnterRecoveryCode(r, c, k) ==
  /\ At(r, "idle")
  /\ Answerable(c) /\ k.setup \in shown
  /\ Becomes(r, [pc |-> "recover", challenge |-> c.challengeVersion, code |-> k])
  /\ UNCHANGED <<user, codes, shown, proven, challenges, used, spent>>

\* A challenge that is good for as long as no newer one is issued.
NotOutdated(v) == v >= user.challenge - 1

\* updateMany's where clause.
IsCurrent(v) == v = user.challenge

\* consumeTwoFactorChallenge: the login it lets in, or none.
ConsumeChallenge(r) ==
  /\ At(r, "totp") /\ CanChallenge
  /\ LET v == request[r].challenge IN
     IF IsCurrent(v)
     THEN /\ user' = Challenged(user)
          /\ used' = [used EXCEPT ![v] = @ + 1]
     ELSE UNCHANGED <<user, used>>
  /\ Becomes(r, Idle)
  /\ UNCHANGED <<codes, shown, proven, challenges, spent>>

\* A recovery code that is looked up and left.
KeptRow(k) == {}

\* deleteMany of the code's active row.
ConsumedRow(k) == {[code |-> k, isPending |-> FALSE]}

\* consumeRecoveryCodeAndChallenge: both, or neither.
ConsumeRecoveryCode(r) ==
  /\ At(r, "recover") /\ CanChallenge
  /\ LET v == request[r].challenge
         k == request[r].code IN
     IF IsCurrent(v) /\ [code |-> k, isPending |-> FALSE] \in codes
     THEN /\ user' = Challenged(user)
          /\ codes' = codes \ ConsumedRow(k)
          /\ used' = [used EXCEPT ![v] = @ + 1]
          /\ spent' = [spent EXCEPT ![k] = @ + 1]
     ELSE UNCHANGED <<user, codes, used, spent>>
  /\ Becomes(r, Idle)
  /\ UNCHANGED <<shown, proven, challenges>>

\* Whatever ends the account's sessions (see Auth).
RaiseTokenVersion ==
  /\ user.version < MaxVersion
  /\ user' = [user EXCEPT !.version = @ + 1]
  /\ UNCHANGED <<codes, shown, proven, challenges, used, spent, request>>

\* The process dies between a read and the write.
Restart ==
  /\ request' = [r \in Request |-> Idle]
  /\ UNCHANGED <<user, codes, shown, proven, challenges, used, spent>>

-----------------------------------------------------------------------------
Arrive(r) ==
  \/ \E s \in Setup : StartSetup(r, s)
  \/ Confirm(r) \/ Disable(r) \/ Login(r)
  \/ \E c \in challenges :
       EnterTotp(r, c) \/ \E k \in RecoveryCode : EnterRecoveryCode(r, c, k)

Proceed(r) ==
  \/ ReplacePending(r) \/ Activate(r) \/ Clear(r)
  \/ IssueChallenge(r) \/ ConsumeChallenge(r) \/ ConsumeRecoveryCode(r)

Next == (\E r \in Request : Arrive(r) \/ Proceed(r)) \/ RaiseTokenVersion \/ Restart

Spec == Init /\ [][Next]_vars

-----------------------------------------------------------------------------
\* Every variable keeps its type.
TypeOK ==
  /\ user \in [version : Version, enabled : BOOLEAN, secret : Setup \cup {None},
               pending : Setup \cup {None}, challenge : ChallengeVersion]
  /\ codes \subseteq CodeRow
  /\ shown \subseteq Setup /\ proven \subseteq Setup
  /\ challenges \subseteq Challenge
  /\ used \in [ChallengeVersion -> Nat]
  /\ spent \in [RecoveryCode -> Nat]
  /\ request \in [Request ->
       {Idle} \cup [pc : {"clear", "issue"}]
         \cup [pc : {"replace"}, setup : Setup]
         \cup [pc : {"activate"}, secret : Setup]
         \cup [pc : {"totp"}, challenge : ChallengeVersion]
         \cup [pc : {"recover"}, challenge : ChallengeVersion, code : RecoveryCode]]

\* A challenge lets in one login, however often and with whatever factors it is answered at
\* once.
ChallengeOnce == \A v \in ChallengeVersion : used[v] <= 1

\* A recovery code lets in one login, whatever setups, confirmations and logins cross.
RecoveryCodeOnce == \A k \in RecoveryCode : spent[k] <= 1

\* The secret that logins are checked against is one that its owner has shown to work: no
\* setup that was started, restarted or abandoned half-way takes its place.
SecretIsProven == user.secret # None => user.secret \in proven

\* The transaction of request r ends.
Ends(r, pc) == At(r, pc) /\ request'[r] = Idle

\* The old factor stays good until the new one is confirmed: a code that works ceases to by
\* its use, by a confirmation or by disabling, and the secret by the last two.
OldFactorStands ==
  [][\/ \E r \in Request : Ends(r, "activate") \/ Ends(r, "clear")
     \/ /\ user'.secret = user.secret
        /\ \A k \in Active(codes) \ codes' : spent'[k.code] = spent[k.code] + 1]_vars
=============================================================================
