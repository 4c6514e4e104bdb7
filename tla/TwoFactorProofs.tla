--------------------------- MODULE TwoFactorProofs ---------------------------
(***************************************************************************)
(* What TwoFactor's run checks, for any number of requests, setups, codes  *)
(* and challenges.                                                         *)
(*                                                                         *)
(* A challenge is good while the row is at its version, and whoever uses   *)
(* it moves the row on (Counted).  A recovery code comes with a setup that *)
(* nobody has generated before, so that one that is spent is not stored    *)
(* again (Known, Fresh).  A secret goes to the transaction from the request *)
(* that was shown a code of it (Secrets).                                  *)
(***************************************************************************)
EXTENDS TwoFactor, TLAPS

Account == [version : Version, enabled : BOOLEAN, secret : Setup \cup {None},
            pending : Setup \cup {None}, challenge : ChallengeVersion]

Doing ==
  {Idle} \cup [pc : {"clear", "issue"}]
    \cup [pc : {"replace"}, setup : Setup]
    \cup [pc : {"activate"}, secret : Setup]
    \cup [pc : {"totp"}, challenge : ChallengeVersion]
    \cup [pc : {"recover"}, challenge : ChallengeVersion, code : RecoveryCode]

\* A secret was shown to work before it is one that works.
Secrets ==
  /\ user.secret # None => user.secret \in proven
  /\ \A r \in Request : At(r, "activate") => request[r].secret \in proven

\* A setup is generated once.
Fresh ==
  \A r \in Request : At(r, "replace") =>
    /\ request[r].setup \notin shown
    /\ \A q \in Request : At(q, "replace") /\ request[q].setup = request[r].setup => q = r

\* Codes are of setups that were shown; one that is spent is stored no more, and none is both
\* pending and active.
KnownIn(rows, seen, spend) ==
  /\ \A k \in rows : k.code.setup \in seen
  /\ \A k \in RecoveryCode :
       /\ spend[k] \in {0, 1}
       /\ spend[k] = 1 => /\ k.setup \in seen
                          /\ \A p \in BOOLEAN : [code |-> k, isPending |-> p] \notin rows
       /\ ~([code |-> k, isPending |-> TRUE] \in rows /\ [code |-> k, isPending |-> FALSE] \in rows)

Known == KnownIn(codes, shown, spent)

\* The row is past the challenges that have let somebody in.
Counted ==
  \A v \in ChallengeVersion : used[v] \in {0, 1} /\ (used[v] = 1 => v < user.challenge)

IInv == TypeOK /\ Secrets /\ Fresh /\ Known /\ Counted

-----------------------------------------------------------------------------
LEMMA Typed ==
  TypeOK <=>
    /\ user \in Account /\ codes \subseteq CodeRow
    /\ shown \subseteq Setup /\ proven \subseteq Setup
    /\ challenges \subseteq Challenge
    /\ used \in [ChallengeVersion -> Nat] /\ spent \in [RecoveryCode -> Nat]
    /\ request \in [Request -> Doing]
BY DEF TypeOK, Account, Doing

\* The next step of one request is no step of another.
LEMMA OneRequest ==
  ASSUME request \in [Request -> Doing], NEW r \in Request, NEW next \in Doing, Becomes(r, next)
  PROVE  /\ request' \in [Request -> Doing]
         /\ request'[r] = next
         /\ \A q \in Request \ {r} : request'[q] = request[q]
BY DEF Becomes

\* What a request knows, by where it is.
LEMMA Knows ==
  ASSUME NEW d \in Doing
  PROVE  /\ d.pc = "replace" => d.setup \in Setup
         /\ d.pc = "activate" => d.secret \in Setup
         /\ d.pc \in {"totp", "recover"} => d.challenge \in ChallengeVersion
         /\ d.pc = "recover" => d.code \in RecoveryCode
BY DEF Doing, Idle

\* And what may be written down of a request.
LEMMA MayDo ==
  /\ Idle \in Doing /\ Idle.pc = "idle"
  /\ [pc |-> "clear"] \in Doing /\ [pc |-> "issue"] \in Doing
  /\ \A s \in Setup : [pc |-> "replace", setup |-> s] \in Doing
                      /\ [pc |-> "activate", secret |-> s] \in Doing
  /\ \A v \in ChallengeVersion : [pc |-> "totp", challenge |-> v] \in Doing
  /\ \A v \in ChallengeVersion, k \in RecoveryCode :
       [pc |-> "recover", challenge |-> v, code |-> k] \in Doing
BY DEF Doing, Idle

\* The steps of a request that only change what it is doing.
Waits ==
  UNCHANGED <<user, codes, shown, challenges, used, spent>>

\* A step of one request that becomes `next', for the invariants about requests.
LEMMA RequestsHold ==
  ASSUME IInv, NEW r \in Request, NEW next \in Doing, Becomes(r, next),
         proven \subseteq proven', shown \subseteq shown',
         shown' \subseteq shown \cup (IF At(r, "replace") THEN {request[r].setup} ELSE {}),
         next.pc = "activate" => next.secret \in proven',
         next.pc = "replace" =>
           /\ next.setup \notin shown'
           /\ \A q \in Request : At(q, "replace") => request[q].setup # next.setup,
         user'.secret # None => user'.secret \in proven'
  PROVE  request' \in [Request -> Doing] /\ Secrets' /\ Fresh'
<1>1. /\ request' \in [Request -> Doing] /\ request'[r] = next
      /\ \A q \in Request \ {r} : request'[q] = request[q]
  BY Typed, OneRequest DEF IInv
<1>2. Secrets'
  <2>1. ASSUME NEW q \in Request, At(q, "activate")' PROVE request'[q].secret \in proven'
    BY <1>1, <2>1 DEF IInv, Secrets, At
  <2> QED BY <2>1 DEF Secrets
<1>3. Fresh'
  <2>1. ASSUME NEW q \in Request, At(q, "replace")'
        PROVE  request'[q].setup \notin shown'
    <3>1. CASE q = r
      BY <1>1, <2>1, <3>1 DEF At
    <3>2. CASE q # r
      BY <1>1, <2>1, <3>2 DEF IInv, Fresh, At
    <3> QED BY <3>1, <3>2
  <2>2. ASSUME NEW q \in Request, At(q, "replace")', NEW p \in Request, At(p, "replace")',
               request'[p].setup = request'[q].setup
        PROVE  p = q
    BY <1>1, <2>2 DEF IInv, Fresh, At
  <2> QED BY <2>1, <2>2 DEF Fresh, At
<1> QED BY <1>1, <1>2, <1>3

-----------------------------------------------------------------------------
LEMMA InitInv == Init => IInv
<1> SUFFICES ASSUME Init PROVE IInv
  OBVIOUS
<1>1. 0 \in Version /\ 0 \in ChallengeVersion
  BY BoundsAssumption DEF Version, ChallengeVersion
<1>2. TypeOK
  BY <1>1, MayDo, Typed DEF Init, Account
<1>3. Secrets /\ Fresh
  BY MayDo DEF Init, Secrets, Fresh, At
<1>4. Known /\ Counted
  BY DEF Init, Known, KnownIn, Counted
<1> QED BY <1>2, <1>3, <1>4 DEF IInv

\* A challenge that is issued or used moves the row on.
LEMMA RowMovesOn ==
  ASSUME user \in Account, CanChallenge, user' = Challenged(user)
  PROVE  /\ user' \in Account
         /\ user'.challenge = user.challenge + 1
         /\ user'.secret = user.secret
<1>1. user.challenge + 1 \in ChallengeVersion
  BY BoundsAssumption DEF Account, ChallengeVersion, CanChallenge
<1> QED BY <1>1 DEF Account, Challenged

\* The steps that start an operation, and the one that issues a challenge.
LEMMA ArriveStep == ASSUME IInv, NEW r \in Request, Arrive(r) PROVE IInv'
<1> USE DEF IInv
<1>1. /\ user \in Account /\ codes \subseteq CodeRow /\ shown \subseteq Setup
      /\ proven \subseteq Setup /\ challenges \subseteq Challenge
      /\ request \in [Request -> Doing] /\ used \in [ChallengeVersion -> Nat]
      /\ spent \in [RecoveryCode -> Nat]
  BY Typed
<1>2. ASSUME NEW next \in Doing, Becomes(r, next), Waits,
             proven \subseteq proven', proven' \subseteq Setup,
             next.pc = "activate" => next.secret \in proven',
             next.pc = "replace" =>
               /\ next.setup \notin shown
               /\ \A q \in Request : At(q, "replace") => request[q].setup # next.setup
      PROVE  IInv'
  <2>1. user' = user /\ codes' = codes /\ shown' = shown /\ challenges' = challenges
        /\ used' = used /\ spent' = spent
    BY <1>2 DEF Waits
  <2>2. user'.secret # None => user'.secret \in proven'
    BY <1>2, <2>1 DEF Secrets
  <2>3. request' \in [Request -> Doing] /\ Secrets' /\ Fresh'
    BY <1>2, <2>1, <2>2, RequestsHold
  <2>4. TypeOK'
    BY <1>1, <1>2, <2>1, <2>3 DEF TypeOK, Account, Doing
  <2>5. Known' /\ Counted'
    BY <2>1 DEF Known, Counted
  <2> QED BY <2>3, <2>4, <2>5
<1>3. ASSUME NEW s \in Setup, StartSetup(r, s) PROVE IInv'
  <2>1. PICK next : next = [pc |-> "replace", setup |-> s]
    OBVIOUS
  <2> QED BY <1>1, <1>2, <1>3, <2>1, MayDo DEF StartSetup, Waits
<1>4. CASE Confirm(r)
  <2>1. user.pending \in Setup
    BY <1>1, <1>4 DEF Confirm, Account
  <2>2. PICK next : next = [pc |-> "activate", secret |-> user.pending]
    OBVIOUS
  <2> QED BY <1>1, <1>2, <1>4, <2>1, <2>2, MayDo DEF Confirm, Waits
<1>5. CASE Disable(r)
  <2>1. PICK next : next = [pc |-> "clear"]
    OBVIOUS
  <2> QED BY <1>1, <1>2, <1>5, <2>1, MayDo DEF Disable, Waits
<1>6. CASE Login(r)
  <2>1. PICK next : next = [pc |-> "issue"]
    OBVIOUS
  <2> QED BY <1>1, <1>2, <1>6, <2>1, MayDo DEF Login, Waits
<1>7. ASSUME NEW c \in challenges, EnterTotp(r, c) PROVE IInv'
  <2>1. c.challengeVersion \in ChallengeVersion
    BY <1>1 DEF Challenge
  <2>2. PICK next : next = [pc |-> "totp", challenge |-> c.challengeVersion]
    OBVIOUS
  <2> QED BY <1>1, <1>2, <1>7, <2>1, <2>2, MayDo DEF EnterTotp, Waits
<1>8. ASSUME NEW c \in challenges, NEW k \in RecoveryCode, EnterRecoveryCode(r, c, k) PROVE IInv'
  <2>1. c.challengeVersion \in ChallengeVersion
    BY <1>1 DEF Challenge
  <2>2. PICK next : next = [pc |-> "recover", challenge |-> c.challengeVersion, code |-> k]
    OBVIOUS
  <2> QED BY <1>1, <1>2, <1>8, <2>1, <2>2, MayDo DEF EnterRecoveryCode, Waits
<1> QED BY <1>3, <1>4, <1>5, <1>6, <1>7, <1>8 DEF Arrive

LEMMA SetupStep ==
  ASSUME IInv, NEW r \in Request, ReplacePending(r) \/ Activate(r) \/ Clear(r) PROVE IInv'
<1> USE DEF IInv
<1>1. /\ user \in Account /\ codes \subseteq CodeRow /\ shown \subseteq Setup
      /\ proven \subseteq Setup /\ challenges \subseteq Challenge
      /\ request \in [Request -> Doing] /\ used \in [ChallengeVersion -> Nat]
      /\ spent \in [RecoveryCode -> Nat]
  BY Typed
<1>2. CASE ReplacePending(r)
  <2>1. PICK s \in Setup : s = request[r].setup
    BY <1>1, <1>2, Knows DEF ReplacePending, At
  <2>2. /\ user' = [user EXCEPT !.pending = s] /\ codes' = WithPendingSetup(codes, s)
        /\ shown' = shown \cup {s} /\ At(r, "replace") /\ Becomes(r, Idle)
        /\ UNCHANGED <<proven, challenges, used, spent>>
    BY <1>2, <2>1 DEF ReplacePending
  <2>3. user' \in Account /\ user'.challenge = user.challenge /\ user'.secret = user.secret
    <3>1. user' \in Account
      BY <1>1, <2>1, <2>2 DEF Account
    <3> QED BY <1>1, <2>2, <3>1 DEF Account
  <2>4. request' \in [Request -> Doing] /\ Secrets' /\ Fresh'
    <3>1. user'.secret # None => user'.secret \in proven'
      BY <2>2, <2>3 DEF Secrets
    <3> QED BY <2>1, <2>2, <3>1, MayDo, RequestsHold
  <2>5. codes' \subseteq CodeRow
    BY <1>1, <2>2 DEF WithPendingSetup, Active, Pending, CodesOf, CodeRow, RecoveryCode
  <2>6. TypeOK'
    BY <1>1, <2>2, <2>3, <2>4, <2>5 DEF TypeOK, Account, Doing
  <2>7. s \notin shown
    BY <2>1, <2>2 DEF Fresh
  <2>8. KnownIn(codes', shown', spent)
    <3>1. \A k \in codes' : k \in codes \/ (k.code.setup = s /\ k.isPending)
      BY <2>2 DEF WithPendingSetup, Active, Pending, CodesOf
    <3>2. \A k \in codes' : k.code.setup \in shown'
      BY <2>2, <3>1 DEF Known, KnownIn
    <3>3. ASSUME NEW k \in RecoveryCode
          PROVE  /\ spent[k] \in {0, 1}
                 /\ spent[k] = 1 => /\ k.setup \in shown'
                                    /\ \A p \in BOOLEAN : [code |-> k, isPending |-> p] \notin codes'
                 /\ ~([code |-> k, isPending |-> TRUE] \in codes'
                      /\ [code |-> k, isPending |-> FALSE] \in codes')
      <4>1. k.setup = s => \A p \in BOOLEAN : [code |-> k, isPending |-> p] \notin codes
        BY <2>7 DEF Known, KnownIn
      <4>2. \A p \in BOOLEAN : [code |-> k, isPending |-> p] \in codes'
              => [code |-> k, isPending |-> p] \in codes \/ (k.setup = s /\ p)
        BY <3>1
      <4>3. spent[k] = 1 => k.setup # s
        BY <2>7 DEF Known, KnownIn
      <4> QED BY <2>2, <4>1, <4>2, <4>3 DEF Known, KnownIn
    <3> QED BY <3>2, <3>3 DEF KnownIn
  <2>9. Known' /\ Counted'
    BY <2>2, <2>3, <2>8 DEF Known, Counted
  <2> QED BY <2>4, <2>6, <2>9
<1>3. CASE Activate(r)
  <2>1. PICK s \in Setup : s = request[r].secret
    BY <1>1, <1>3, Knows DEF Activate, At
  <2>2. /\ user' = [user EXCEPT !.enabled = TRUE, !.secret = s, !.pending = None]
        /\ codes' = {[code |-> k.code, isPending |-> FALSE] : k \in Pending(codes)}
        /\ At(r, "activate") /\ Becomes(r, Idle)
        /\ UNCHANGED <<shown, proven, challenges, used, spent>>
    BY <1>3, <2>1 DEF Activate, SecretChecked
  <2>3. user' \in Account /\ user'.challenge = user.challenge /\ user'.secret = s
    <3>1. user' \in Account
      BY <1>1, <2>1, <2>2 DEF Account
    <3> QED BY <1>1, <2>2, <3>1 DEF Account
  <2>4. request' \in [Request -> Doing] /\ Secrets' /\ Fresh'
    <3>1. user'.secret \in proven'
      BY <2>1, <2>2, <2>3 DEF Secrets
    <3> QED BY <2>2, <3>1, MayDo, RequestsHold
  <2>5. codes' \subseteq CodeRow
    <3>1. \A k \in Pending(codes) : k.code \in RecoveryCode
      BY <1>1 DEF Pending, CodeRow
    <3>2. \A c \in RecoveryCode : [code |-> c, isPending |-> FALSE] \in CodeRow
      BY DEF CodeRow
    <3> QED BY <2>2, <3>1, <3>2
  <2>6. TypeOK'
    BY <1>1, <2>2, <2>3, <2>4, <2>5 DEF TypeOK, Account, Doing
  <2>7. KnownIn(codes', shown, spent)
    <3>1. ASSUME NEW k \in codes' PROVE ~k.isPending /\ [code |-> k.code, isPending |-> TRUE] \in codes
      <4>1. \A q \in Pending(codes) : q = [code |-> q.code, isPending |-> TRUE]
        BY <1>1 DEF Pending, CodeRow
      <4>2. \A q \in Pending(codes) : [code |-> q.code, isPending |-> TRUE] \in codes
        BY <4>1 DEF Pending
      <4>3. PICK h \in Pending(codes) : k = [code |-> h.code, isPending |-> FALSE]
        BY <2>2
      <4>4. k.code = h.code /\ k.isPending = FALSE
        BY <4>3
      <4> QED BY <4>2, <4>4
    <3>2. \A k \in codes' : k.code.setup \in shown
      BY <3>1 DEF Known, KnownIn
    <3>3. ASSUME NEW k \in RecoveryCode
          PROVE  /\ [code |-> k, isPending |-> TRUE] \notin codes'
                 /\ [code |-> k, isPending |-> FALSE] \in codes' => [code |-> k, isPending |-> TRUE] \in codes
      BY <3>1
    <3> QED BY <3>2, <3>3 DEF Known, KnownIn
  <2>8. Known' /\ Counted'
    BY <2>2, <2>3, <2>7 DEF Known, Counted
  <2> QED BY <2>4, <2>6, <2>8
<1>4. CASE Clear(r)
  <2>1. /\ user' = [user EXCEPT !.enabled = FALSE, !.secret = None, !.pending = None]
        /\ codes' = {} /\ Becomes(r, Idle)
        /\ UNCHANGED <<shown, proven, challenges, used, spent>>
    BY <1>4 DEF Clear
  <2>2. user' \in Account /\ user'.challenge = user.challenge /\ user'.secret = None
    <3>1. user' \in Account
      BY <1>1, <2>1 DEF Account
    <3> QED BY <1>1, <2>1, <3>1 DEF Account
  <2>3. request' \in [Request -> Doing] /\ Secrets' /\ Fresh'
    BY <2>1, <2>2, MayDo, RequestsHold
  <2>4. TypeOK'
    BY <1>1, <2>1, <2>2, <2>3 DEF TypeOK, Account, Doing
  <2>5. KnownIn({}, shown, spent)
    BY DEF Known, KnownIn
  <2>6. Known' /\ Counted'
    BY <2>1, <2>2, <2>5 DEF Known, Counted
  <2> QED BY <2>3, <2>4, <2>6
<1> QED BY <1>2, <1>3, <1>4

\* The steps of a login that write.
LEMMA LoginStep ==
  ASSUME IInv, NEW r \in Request,
         IssueChallenge(r) \/ ConsumeChallenge(r) \/ ConsumeRecoveryCode(r)
  PROVE  IInv'
<1> USE DEF IInv
<1>1. /\ user \in Account /\ codes \subseteq CodeRow /\ shown \subseteq Setup
      /\ proven \subseteq Setup /\ challenges \subseteq Challenge
      /\ request \in [Request -> Doing] /\ used \in [ChallengeVersion -> Nat]
      /\ spent \in [RecoveryCode -> Nat]
  BY Typed
<1>2. user.challenge \in ChallengeVersion /\ \A v \in ChallengeVersion : v \in Nat
  BY <1>1, BoundsAssumption DEF Account, ChallengeVersion
<1>3. ASSUME Becomes(r, Idle), UNCHANGED <<shown, proven>>, user'.secret = user.secret
      PROVE  request' \in [Request -> Doing] /\ Secrets' /\ Fresh'
  <2>1. user'.secret # None => user'.secret \in proven'
    BY <1>3 DEF Secrets
  <2> QED BY <1>3, <2>1, MayDo, RequestsHold
<1>4. CASE IssueChallenge(r)
  <2>1. user' \in Account /\ user'.challenge = user.challenge + 1 /\ user'.secret = user.secret
    BY <1>1, <1>4, RowMovesOn DEF IssueChallenge
  <2>2. request' \in [Request -> Doing] /\ Secrets' /\ Fresh'
    BY <1>3, <1>4, <2>1 DEF IssueChallenge
  <2>3. challenges' \subseteq Challenge
    <3>1. user'.version \in Version /\ user'.challenge \in ChallengeVersion
      BY <2>1 DEF Account
    <3> QED BY <1>1, <1>4, <3>1 DEF IssueChallenge, Challenge
  <2>4. TypeOK'
    BY <1>1, <1>4, <2>1, <2>2, <2>3 DEF IssueChallenge, TypeOK, Account, Doing
  <2>5. Known' /\ Counted'
    BY <1>2, <1>4, <2>1 DEF IssueChallenge, Known, Counted
  <2> QED BY <2>2, <2>4, <2>5
<1>5. ASSUME NEW v \in ChallengeVersion, IsCurrent(v), CanChallenge, user' = Challenged(user),
             used' = [used EXCEPT ![v] = @ + 1]
      PROVE  /\ user' \in Account /\ user'.secret = user.secret
             /\ used' \in [ChallengeVersion -> Nat] /\ Counted'
  <2>1. user' \in Account /\ user'.challenge = user.challenge + 1 /\ user'.secret = user.secret
    BY <1>1, <1>5, RowMovesOn
  <2>2. v = user.challenge
    BY <1>5 DEF IsCurrent
  <2>3. used[v] = 0
    BY <1>2, <2>2 DEF Counted
  <2>4. ASSUME NEW w \in ChallengeVersion
        PROVE  used'[w] \in {0, 1} /\ (used'[w] = 1 => w < user'.challenge)
    BY <1>1, <1>2, <1>5, <2>1, <2>2, <2>3, <2>4 DEF Counted
  <2> QED BY <1>1, <1>5, <2>1, <2>4 DEF Counted
<1>6. CASE ConsumeChallenge(r)
  <2>1. PICK v \in ChallengeVersion : v = request[r].challenge
    BY <1>1, <1>6, Knows DEF ConsumeChallenge, At
  <2>2. /\ user' \in Account /\ user'.secret = user.secret
        /\ used' \in [ChallengeVersion -> Nat] /\ Counted'
    <3>1. CASE IsCurrent(v)
      BY <1>5, <1>6, <2>1, <3>1 DEF ConsumeChallenge
    <3>2. CASE ~IsCurrent(v)
      <4>1. user' = user /\ used' = used
        BY <1>6, <2>1, <3>2 DEF ConsumeChallenge
      <4> QED BY <1>1, <4>1 DEF Counted
    <3> QED BY <3>1, <3>2
  <2>3. request' \in [Request -> Doing] /\ Secrets' /\ Fresh'
    BY <1>3, <1>6, <2>2 DEF ConsumeChallenge
  <2>4. TypeOK'
    BY <1>1, <1>6, <2>2, <2>3 DEF ConsumeChallenge, TypeOK, Account, Doing
  <2>5. Known'
    BY <1>6 DEF ConsumeChallenge, Known
  <2> QED BY <2>2, <2>3, <2>4, <2>5
<1>7. CASE ConsumeRecoveryCode(r)
  <2>1. PICK v \in ChallengeVersion, k \in RecoveryCode : v = request[r].challenge /\ k = request[r].code
    BY <1>1, <1>7, Knows DEF ConsumeRecoveryCode, At
  <2>2. PICK row : row = [code |-> k, isPending |-> FALSE]
    OBVIOUS
  <2>3. /\ user' \in Account /\ user'.secret = user.secret
        /\ used' \in [ChallengeVersion -> Nat] /\ Counted'
        /\ codes' \subseteq CodeRow /\ spent' \in [RecoveryCode -> Nat]
        /\ Known'
    <3>1. CASE IsCurrent(v) /\ row \in codes
      <4>1. /\ CanChallenge /\ user' = Challenged(user) /\ codes' = codes \ {row}
            /\ used' = [used EXCEPT ![v] = @ + 1] /\ spent' = [spent EXCEPT ![k] = @ + 1]
            /\ shown' = shown
        BY <1>7, <2>1, <2>2, <3>1 DEF ConsumeRecoveryCode, ConsumedRow
      <4>2. /\ user' \in Account /\ user'.secret = user.secret
            /\ used' \in [ChallengeVersion -> Nat] /\ Counted'
        BY <1>5, <3>1, <4>1
      <4>3. spent[k] = 0 /\ k.setup \in shown /\ [code |-> k, isPending |-> TRUE] \notin codes
        BY <2>2, <3>1 DEF Known, KnownIn
      <4>4. \A p \in BOOLEAN : [code |-> k, isPending |-> p] \notin codes'
        BY <2>2, <4>1, <4>3
      <4>5. spent'[k] = 1 /\ \A h \in RecoveryCode \ {k} : spent'[h] = spent[h]
        BY <1>1, <4>1, <4>3
      <4>6. KnownIn(codes', shown, spent')
        BY <4>1, <4>3, <4>4, <4>5 DEF Known, KnownIn
      <4> QED BY <1>1, <4>1, <4>2, <4>6 DEF Known
    <3>2. CASE ~(IsCurrent(v) /\ row \in codes)
      <4>1. user' = user /\ codes' = codes /\ used' = used /\ spent' = spent /\ shown' = shown
        BY <1>7, <2>1, <2>2, <3>2 DEF ConsumeRecoveryCode
      <4> QED BY <1>1, <4>1 DEF Counted, Known
    <3> QED BY <3>1, <3>2
  <2>4. request' \in [Request -> Doing] /\ Secrets' /\ Fresh'
    BY <1>3, <1>7, <2>3 DEF ConsumeRecoveryCode
  <2>5. TypeOK'
    BY <1>1, <1>7, <2>3, <2>4 DEF ConsumeRecoveryCode, TypeOK, Account, Doing
  <2> QED BY <2>3, <2>4, <2>5
<1> QED BY <1>4, <1>6, <1>7

\* Steps of nobody's request, and no step at all.
LEMMA OtherStep ==
  ASSUME IInv, RaiseTokenVersion \/ Restart \/ UNCHANGED vars PROVE IInv'
<1> USE DEF IInv
<1>1. user \in Account /\ request \in [Request -> Doing]
  BY Typed
<1>2. CASE RaiseTokenVersion
  <2>1. user' = [user EXCEPT !.version = @ + 1] /\ user.version + 1 \in Version
    BY <1>1, <1>2, BoundsAssumption DEF RaiseTokenVersion, Account, Version
  <2>2. user' \in Account /\ user'.secret = user.secret /\ user'.challenge = user.challenge
    BY <1>1, <2>1 DEF Account
  <2>3. TypeOK'
    BY <1>2, <2>2, Typed DEF RaiseTokenVersion, TypeOK, Account, Doing
  <2>4. Secrets' /\ Fresh' /\ Known' /\ Counted'
    BY <1>2, <2>2 DEF RaiseTokenVersion, Secrets, Fresh, Known, Counted, At
  <2> QED BY <2>3, <2>4
<1>3. CASE Restart
  <2>1. /\ UNCHANGED <<user, codes, shown, proven, challenges, used, spent>>
        /\ request' \in [Request -> Doing] /\ \A r \in Request : request'[r] = Idle
    BY <1>3, MayDo DEF Restart
  <2>2. TypeOK'
    BY <2>1, Typed DEF TypeOK, Account, Doing
  <2>3. Secrets' /\ Fresh' /\ Known' /\ Counted'
    BY <2>1, MayDo DEF Secrets, Fresh, Known, Counted, At
  <2> QED BY <2>2, <2>3
<1>4. CASE UNCHANGED vars
  BY <1>4 DEF vars, TypeOK, Secrets, Fresh, Known, Counted, At
<1> QED BY <1>2, <1>3, <1>4

LEMMA NextInv == IInv /\ [Next]_vars => IInv'
<1> SUFFICES ASSUME IInv, [Next]_vars PROVE IInv'
  OBVIOUS
<1>1. ASSUME NEW r \in Request, Arrive(r) \/ Proceed(r) PROVE IInv'
  BY <1>1, ArriveStep, SetupStep, LoginStep DEF Proceed
<1> QED BY <1>1, OtherStep DEF Next

THEOREM Invariance == Spec => []IInv
BY InitInv, NextInv, PTL DEF Spec

-----------------------------------------------------------------------------
\* Whatever requests of one account overlap, its rows, its challenges and what is known of them
\* keep their type.
THEOREM TypeCorrect == Spec => []TypeOK
<1>1. IInv => TypeOK
  BY DEF IInv
<1> QED BY <1>1, Invariance, PTL

\* A login challenge that completeTwoFactorLogin accepts is used up: no second login follows
\* from it, by whatever factor.
THEOREM ChallengesCorrect == Spec => []ChallengeOnce
<1>1. IInv => ChallengeOnce
  BY DEF IInv, Counted, ChallengeOnce
<1> QED BY <1>1, Invariance, PTL

\* A recovery code is good for one login: it is deleted with its use, and nothing stores it
\* again.
THEOREM RecoveryCorrect == Spec => []RecoveryCodeOnce
<1>1. ASSUME IInv, NEW k \in RecoveryCode PROVE spent[k] <= 1
  <2>1. spent[k] \in {0, 1}
    BY <1>1 DEF IInv, Known, KnownIn
  <2> QED BY <2>1
<1>2. IInv => RecoveryCodeOnce
  BY <1>1 DEF RecoveryCodeOnce
<1> QED BY <1>2, Invariance, PTL

\* The secret that activatePendingTwoFactorSetup writes is the one a code was checked against.
THEOREM SecretCorrect == Spec => []SecretIsProven
<1>1. IInv => SecretIsProven
  BY DEF IInv, Secrets, SecretIsProven
<1> QED BY <1>1, Invariance, PTL

\* The old factor stands until the new one is confirmed: a recovery code that works ceases to by
\* its use, by a confirmation or by disabling, the secret by the last two.
THEOREM OldFactorCorrect == Spec => OldFactorStands
<1> DEFINE Ended == \E r \in Request : Ends(r, "activate") \/ Ends(r, "clear")
           Stands == /\ user'.secret = user.secret
                     /\ \A k \in Active(codes) \ codes' : spent'[k.code] = spent[k.code] + 1
<1>1. ASSUME IInv, Next PROVE Ended \/ Stands
  <2>t. /\ user \in Account /\ codes \subseteq CodeRow
        /\ spent \in [RecoveryCode -> Nat] /\ request \in [Request -> Doing]
    BY <1>1, Typed DEF IInv
  <2>i. Idle \in Doing
    BY MayDo
  <2>1. ASSUME NEW r \in Request, Activate(r) \/ Clear(r) PROVE Ended
    BY <2>1, <2>t, <2>i, OneRequest DEF Activate, Clear, Ends
  <2>2. ASSUME codes' = codes, user'.secret = user.secret PROVE Stands
    BY <2>2 DEF Active, Pending
  <2>3. ASSUME NEW r \in Request, ReplacePending(r) PROVE Stands
    <3>1. user'.secret = user.secret
      BY <2>3, <2>t DEF ReplacePending, Account
    <3>2. Active(codes) \subseteq codes'
      BY <2>3 DEF ReplacePending, WithPendingSetup
    <3> QED BY <3>1, <3>2
  <2>4. ASSUME NEW r \in Request, ConsumeRecoveryCode(r) PROVE Stands
    <3> DEFINE k == request[r].code
    <3>1. user'.secret = user.secret
      BY <2>4, <2>t DEF ConsumeRecoveryCode, Challenged, Account
    <3>2. k \in RecoveryCode
      BY <2>4, <2>t, Knows DEF ConsumeRecoveryCode, At
    <3>3. CASE codes' = codes
      BY <3>1, <3>3 DEF Active, Pending
    <3>4. CASE codes' # codes
      <4>1. codes' = codes \ ConsumedRow(k) /\ spent' = [spent EXCEPT ![k] = @ + 1]
        BY <2>4, <3>4 DEF ConsumeRecoveryCode
      <4>2. \A row \in codes \ codes' : row.code = k
        BY <4>1 DEF ConsumedRow
      <4>3. spent'[k] = spent[k] + 1
        BY <4>1, <3>2, <2>t
      <4> QED BY <3>1, <4>2, <4>3 DEF Active
    <3> QED BY <3>3, <3>4
  <2>5. ASSUME NEW r \in Request, Arrive(r) PROVE Stands
    BY <2>5, <2>2 DEF Arrive, StartSetup, Confirm, Disable, Login, EnterTotp, EnterRecoveryCode
  <2>6. ASSUME NEW r \in Request, IssueChallenge(r) \/ ConsumeChallenge(r) PROVE Stands
    BY <2>6, <2>2, <2>t DEF IssueChallenge, ConsumeChallenge, Challenged, Account
  <2>7. CASE RaiseTokenVersion \/ Restart
    BY <2>7, <2>2, <2>t DEF RaiseTokenVersion, Restart, Account
  <2> QED BY <1>1, <2>1, <2>3, <2>4, <2>5, <2>6, <2>7 DEF Next, Proceed
<1>2. IInv /\ [Next]_vars =>
      [\/ \E r \in Request : Ends(r, "activate") \/ Ends(r, "clear")
       \/ /\ user'.secret = user.secret
          /\ \A k \in Active(codes) \ codes' : spent'[k.code] = spent[k.code] + 1]_vars
  BY <1>1
<1> QED BY <1>2, Invariance, PTL DEF Spec, OldFactorStands
=============================================================================
