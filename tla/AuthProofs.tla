------------------------------ MODULE AuthProofs ------------------------------
(***************************************************************************)
(* What Auth's runs check of the safety of an account, for any number of   *)
(* requests, passwords, reset tokens and versions.                         *)
(*                                                                         *)
(* Every request works on what it has read.  That is harmless because a    *)
(* write that makes what others know about the row wrong raises its        *)
(* version (RowMoves), because what they know says which version it is of  *)
(* (Proven, Good), and because versions never come back.                   *)
(***************************************************************************)
EXTENDS Auth, TLAPS

Account ==
  [version : Version, password : Password \cup {None}, guest : BOOLEAN,
   failed : 0 .. MAX_LOGIN_ATTEMPTS - 1, locked : BOOLEAN, status : Status,
   deleted : BOOLEAN, role : {"USER", "ADMIN"}, reset : ResetId \cup {None}]

Doing ==
  {Idle} \cup [pc : Operation \cup {"promote", "upgrading", "deleting"}]
    \cup [pc : {"lookup"}, version : Version, op : Operation]
    \cup [pc : {"fill"}, op : Operation, entry : CacheEntry]
    \cup [pc : {"compare"}, failed : 0 .. MAX_LOGIN_ATTEMPTS - 1, token : AccessToken]
    \cup [pc : {"admit", "invalidate"}, grants : SUBSET AccessToken]
    \cup [pc : {"changing"}, password : Password]
    \cup [pc : {"store", "mail", "reset"}, id : ResetId]
    \cup [pc : {"commit"}, id : ResetId, password : Password]

\* A token is of a version that was, or its bearer has shown what is right for the row.
Proven(t) ==
  /\ t.version <= user.version
  /\ t.version = user.version
       => t.proof = "oauth" \/ (t.proof = "guest" /\ user.guest) \/ t.proof = user.password

TokensProven ==
  /\ \A t \in tokens : Proven(t)
  /\ \A r \in Request :
       /\ At(r, "compare") => Proven(request[r].token)
       /\ At(r, "admit") \/ At(r, "invalidate") => \A t \in request[r].grants : Proven(t)

\* A cache entry is of a version that was, or agrees with the row.
Good(e) ==
  /\ e.version <= user.version
  /\ e.version = user.version => e.role = user.role /\ CanAuthenticate(user)

EntriesAgree ==
  /\ cache # None => Good(cache)
  /\ \A r \in Request : At(r, "fill") => Good(request[r].entry)

\* A reset token that can still be used has not been, and is not made twice.
ResetsAreNew ==
  /\ \A i \in ResetId :
       /\ uses[i] \in {0, 1}
       /\ user.reset = i => resets[i] # "unmade" /\ uses[i] = 0
       /\ resets[i] = "unmade" => uses[i] = 0
  /\ \A r \in Request :
       /\ At(r, "reset") \/ At(r, "commit") => lock = r /\ user.reset = request[r].id
       /\ At(r, "store") => resets[request[r].id] = "unmade"
       /\ At(r, "mail") => resets[request[r].id] # "unmade"
       /\ \A q \in Request : At(r, "store") /\ At(q, "store") /\ request[r].id = request[q].id => r = q

BaseInv == TypeOK /\ TokensProven /\ EntriesAgree /\ ResetsAreNew

\* A reset that is about to commit has room for its version, as when it was written.
CommitFits == \A r \in Request : At(r, "commit") => CanBump

IInv == BaseInv /\ CommitFits

-----------------------------------------------------------------------------
LEMMA Typed ==
  TypeOK <=>
    /\ user \in Account /\ lock \in Request \cup {None} /\ cache \in CacheEntry \cup {None}
    /\ tokens \subseteq AccessToken
    /\ resets \in [ResetId -> {"unmade", "stored", "mailed"}] /\ uses \in [ResetId -> Nat]
    /\ request \in [Request -> Doing]
BY DEF TypeOK, Account, Doing

\* The next step of one request is no step of another.
LEMMA OneRequest ==
  ASSUME request \in [Request -> Doing], NEW r \in Request, NEW next \in Doing, Becomes(r, next)
  PROVE  /\ request' \in [Request -> Doing]
         /\ request'[r] = next
         /\ \A q \in Request \ {r} : request'[q] = request[q]
BY DEF Becomes

\* What a request knows, by where it is.
LEMMA Knows ==
  ASSUME NEW d \in Doing
  PROVE  /\ d.pc = "lookup" => d.version \in Version /\ d.op \in Operation
         /\ d.pc = "fill" => d.entry \in CacheEntry /\ d.op \in Operation
         /\ d.pc = "compare" => d.failed \in 0 .. MAX_LOGIN_ATTEMPTS - 1 /\ d.token \in AccessToken
         /\ d.pc \in {"admit", "invalidate"} => d.grants \subseteq AccessToken
         /\ d.pc = "changing" => d.password \in Password
         /\ d.pc \in {"store", "mail", "reset"} => d.id \in ResetId
         /\ d.pc = "commit" => d.id \in ResetId /\ d.password \in Password
BY DEF Doing, Idle, Operation

\* And what may be written down of a request.
LEMMA MayDo ==
  /\ Idle \in Doing /\ Idle.pc = "idle"
  /\ \A op \in Operation : Admitted(op) \in Doing /\ Admitted(op).pc \in Operation \cup {"idle"}
  /\ \A grants \in SUBSET AccessToken :
       Invalidating(grants) \in Doing /\ Invalidating(grants).pc = "invalidate"
       /\ Invalidating(grants).grants = grants
BY DEF Doing, Idle, Operation, Admitted, Invalidating

\* The writes that leave the version leave what others rely on, or end a suspension.
RowMoves ==
  \/ user'.version > user.version
  \/ /\ user'.version = user.version /\ user'.password = user.password
     /\ user'.guest = user.guest /\ user'.role = user.role
     /\ user'.deleted = user.deleted /\ user'.status \in {user.status, "ACTIVE"}

LEMMA StillTrue ==
  ASSUME user \in Account, user' \in Account, RowMoves
  PROVE  /\ \A t \in AccessToken : Proven(t) => Proven(t)'
         /\ \A e \in CacheEntry : Good(e) => Good(e)'
<1>1. user.version \in Nat /\ user'.version \in Nat
  BY VersionAssumption DEF Account, Version
<1>2. ASSUME NEW t \in AccessToken, Proven(t) PROVE Proven(t)'
  <2>1. t.version \in Nat
    BY VersionAssumption DEF AccessToken, Version
  <2> QED BY <1>1, <1>2, <2>1 DEF Proven, RowMoves
<1>3. ASSUME NEW e \in CacheEntry, Good(e) PROVE Good(e)'
  <2>1. e.version \in Nat
    BY VersionAssumption DEF CacheEntry, Version
  <2> QED BY <1>1, <1>3, <2>1 DEF Good, RowMoves, CanAuthenticate
<1> QED BY <1>2, <1>3

\* A step of a request, as far as tokens and cache entries go.
LEMMA StepKeepsFaith ==
  ASSUME BaseInv, NEW r \in Request, NEW next \in Doing, Becomes(r, next),
         user' \in Account, RowMoves,
         cache' \in {cache, None} \/ (At(r, "fill") /\ cache' = request[r].entry),
         \A t \in tokens' :
           \/ t \in tokens
           \/ At(r, "compare") /\ t = request[r].token
           \/ (At(r, "admit") \/ At(r, "invalidate")) /\ t \in request[r].grants,
         next.pc = "compare" => Proven(next.token)',
         next.pc \in {"admit", "invalidate"} => \A t \in next.grants : Proven(t)',
         next.pc = "fill" => Good(next.entry)'
  PROVE  /\ TokensProven' /\ EntriesAgree'
         /\ cache' \in CacheEntry \cup {None} /\ tokens' \subseteq AccessToken
         /\ request' \in [Request -> Doing]
<1>1. /\ user \in Account /\ cache \in CacheEntry \cup {None} /\ tokens \subseteq AccessToken
      /\ request \in [Request -> Doing]
  BY Typed DEF BaseInv
<1>2. /\ request' \in [Request -> Doing] /\ request'[r] = next
      /\ \A q \in Request \ {r} : request'[q] = request[q]
  BY <1>1, OneRequest
<1>3. /\ \A t \in AccessToken : Proven(t) => Proven(t)'
      /\ \A e \in CacheEntry : Good(e) => Good(e)'
  BY <1>1, StillTrue
<1>4. ASSUME NEW q \in Request
      PROVE  /\ At(q, "fill") => request[q].entry \in CacheEntry
             /\ At(q, "compare") => request[q].token \in AccessToken
             /\ At(q, "admit") \/ At(q, "invalidate") => request[q].grants \subseteq AccessToken
  BY <1>1, Knows DEF At
<1>5. cache' \in CacheEntry \cup {None} /\ tokens' \subseteq AccessToken
  BY <1>1, <1>4
<1>6. TokensProven'
  <2>1. \A t \in tokens' : Proven(t)'
    BY <1>1, <1>3, <1>4 DEF BaseInv, TokensProven
  <2>2. ASSUME NEW q \in Request
        PROVE  /\ At(q, "compare")' => Proven(request[q].token)'
               /\ At(q, "admit")' \/ At(q, "invalidate")' => \A t \in request'[q].grants : Proven(t)'
    <3>1. CASE q = r
      BY <1>2, <3>1 DEF At, Proven
    <3>2. CASE q # r
      <4>1. PICK d : d = request[q] /\ d = request'[q]
        BY <1>2, <3>2
      <4>2. At(q, "compare")' => Proven(d.token)'
        <5>1. d.pc = "compare" => d.token \in AccessToken /\ Proven(d.token)
          BY <1>4, <4>1 DEF BaseInv, TokensProven, At
        <5> QED BY <1>3, <4>1, <5>1 DEF At
      <4>3. At(q, "admit")' \/ At(q, "invalidate")' => \A t \in d.grants : Proven(t)'
        <5>1. d.pc = "admit" \/ d.pc = "invalidate" => \A t \in d.grants : t \in AccessToken /\ Proven(t)
          BY <1>4, <4>1 DEF BaseInv, TokensProven, At
        <5> QED BY <1>3, <4>1, <5>1 DEF At
      <4> QED BY <4>1, <4>2, <4>3 DEF Proven
    <3> QED BY <3>1, <3>2
  <2> QED BY <2>1, <2>2 DEF TokensProven
<1>7. EntriesAgree'
  <2>1. cache' # None => Good(cache)'
    BY <1>1, <1>3, <1>4 DEF BaseInv, EntriesAgree, Good
  <2>2. ASSUME NEW q \in Request, At(q, "fill")'
        PROVE  Good(request[q].entry)'
    <3>1. CASE q = r
      BY <1>2, <2>2, <3>1 DEF At, Good
    <3>2. CASE q # r
      <4>1. request'[q] = request[q] /\ At(q, "fill")
        BY <1>2, <2>2, <3>2 DEF At
      <4>2. PICK d : d = request[q]
        OBVIOUS
      <4>3. Good(d.entry)'
        BY <1>3, <1>4, <4>1, <4>2 DEF BaseInv, EntriesAgree
      <4> QED BY <4>1, <4>2, <4>3 DEF Good
    <3> QED BY <3>1, <3>2
  <2> QED BY <2>1, <2>2 DEF EntriesAgree
<1> QED BY <1>2, <1>5, <1>6, <1>7

\* A step of a request that is no part of making or using a reset token.
LEMMA StepKeepsResets ==
  ASSUME BaseInv, NEW r \in Request, NEW next \in Doing, Becomes(r, next),
         next.pc \notin {"store", "mail", "reset", "commit"}, ~At(r, "reset"), ~At(r, "commit"),
         UNCHANGED <<lock, resets, uses>>,
         user'.reset = user.reset \/ (lock = None /\ user'.reset = None)
  PROVE  ResetsAreNew'
<1>1. /\ request'[r] = next /\ \A q \in Request \ {r} : request'[q] = request[q]
  BY OneRequest, Typed DEF BaseInv
<1>2. \A q \in Request, pc \in {"store", "mail", "reset", "commit"} :
        At(q, pc)' => At(q, pc) /\ request'[q] = request[q]
  BY <1>1 DEF At
<1>3. \A i \in ResetId :
        /\ uses'[i] \in {0, 1}
        /\ user'.reset = i => resets'[i] # "unmade" /\ uses'[i] = 0
        /\ resets'[i] = "unmade" => uses'[i] = 0
  BY SomethingIsNone DEF BaseInv, ResetsAreNew
<1>4. ASSUME NEW q \in Request
      PROVE  /\ At(q, "reset")' \/ At(q, "commit")' => lock' = q /\ user'.reset = request'[q].id
             /\ At(q, "store")' => resets'[request'[q].id] = "unmade"
             /\ At(q, "mail")' => resets'[request'[q].id] # "unmade"
             /\ \A p \in Request : At(q, "store")' /\ At(p, "store")' /\ request'[q].id = request'[p].id => q = p
  <2>1. At(q, "reset")' \/ At(q, "commit")' => lock = q /\ user.reset = request[q].id /\ request'[q] = request[q]
    BY <1>2 DEF BaseInv, ResetsAreNew
  <2>2. lock = q => user'.reset = user.reset
    BY SomethingIsNone
  <2>3. At(q, "store")' => resets[request[q].id] = "unmade" /\ request'[q] = request[q]
    BY <1>2 DEF BaseInv, ResetsAreNew
  <2>4. ASSUME NEW p \in Request, At(q, "store")', At(p, "store")', request'[q].id = request'[p].id
        PROVE  q = p
    BY <1>2, <2>4 DEF BaseInv, ResetsAreNew
  <2>5. At(q, "mail")' => resets'[request'[q].id] # "unmade"
    BY <1>2 DEF BaseInv, ResetsAreNew
  <2> QED BY <2>1, <2>2, <2>3, <2>4, <2>5
<1> QED BY <1>3, <1>4 DEF ResetsAreNew

LEMMA StepKeeps ==
  ASSUME BaseInv, NEW r \in Request, NEW next \in Doing, Becomes(r, next),
         user' \in Account, RowMoves,
         cache' \in {cache, None} \/ (At(r, "fill") /\ cache' = request[r].entry),
         \A t \in tokens' :
           \/ t \in tokens
           \/ At(r, "compare") /\ t = request[r].token
           \/ (At(r, "admit") \/ At(r, "invalidate")) /\ t \in request[r].grants,
         next.pc = "compare" => Proven(next.token)',
         next.pc \in {"admit", "invalidate"} => \A t \in next.grants : Proven(t)',
         next.pc = "fill" => Good(next.entry)',
         next.pc \notin {"store", "mail", "reset", "commit"}, ~At(r, "reset"), ~At(r, "commit"),
         UNCHANGED <<lock, resets, uses>>,
         user'.reset = user.reset \/ (lock = None /\ user'.reset = None)
  PROVE  BaseInv'
<1>1. ResetsAreNew'
  BY StepKeepsResets
<1>2. /\ TokensProven' /\ EntriesAgree'
      /\ cache' \in CacheEntry \cup {None} /\ tokens' \subseteq AccessToken
      /\ request' \in [Request -> Doing]
  BY StepKeepsFaith
<1>3. TypeOK'
  <2>1. /\ lock' \in Request \cup {None} /\ uses' \in [ResetId -> Nat]
        /\ resets' \in [ResetId -> {"unmade", "stored", "mailed"}]
    BY Typed DEF BaseInv
  <2> QED BY <1>2, <2>1 DEF TypeOK, Account, Doing
<1> QED BY <1>1, <1>2, <1>3 DEF BaseInv

\* A step that leaves the row alone.
LEMMA ReadKeeps ==
  ASSUME BaseInv, NEW r \in Request, NEW next \in Doing, Becomes(r, next),
         UNCHANGED <<user, lock, resets, uses>>,
         cache' \in {cache, None} \/ (At(r, "fill") /\ cache' = request[r].entry),
         \A t \in tokens' :
           \/ t \in tokens
           \/ At(r, "compare") /\ t = request[r].token
           \/ (At(r, "admit") \/ At(r, "invalidate")) /\ t \in request[r].grants,
         next.pc = "compare" => Proven(next.token),
         next.pc \in {"admit", "invalidate"} => \A t \in next.grants : Proven(t),
         next.pc = "fill" => Good(next.entry),
         next.pc \notin {"store", "mail", "reset", "commit"}, ~At(r, "reset"), ~At(r, "commit")
  PROVE  BaseInv'
<1>1. user' \in Account /\ RowMoves /\ user'.reset = user.reset
  BY Typed DEF BaseInv, RowMoves
<1>2. /\ \A t : Proven(t) => Proven(t)'
      /\ \A e : Good(e) => Good(e)'
  BY DEF Proven, Good, CanAuthenticate
<1> QED BY <1>1, <1>2, StepKeeps

-----------------------------------------------------------------------------
\* What is signed for the row, or read of it, is right for the row.
LEMMA ReadNow ==
  ASSUME user \in Account
  PROVE  /\ \A proof : Token(user, proof).version = user.version /\ Token(user, proof).proof = proof
         /\ \A proof \in Password \cup {"guest", "oauth"} : Token(user, proof) \in AccessToken
         /\ Proven(Token(user, "oauth")) /\ Proven(Token(user, user.password))
         /\ Entry(user) \in CacheEntry
         /\ CanAuthenticate(user) => Good(Entry(user))
         /\ ByOAuth(user) \subseteq AccessToken /\ \A t \in ByOAuth(user) : Proven(t)
<1>1. user.version \in Nat /\ user.version \in Version
  BY VersionAssumption DEF Account, Version
<1>2. /\ \A proof : Token(user, proof).version = user.version /\ Token(user, proof).proof = proof
      /\ \A proof \in Password \cup {"guest", "oauth"} : Token(user, proof) \in AccessToken
  BY <1>1 DEF Token, AccessToken
<1>3. Proven(Token(user, "oauth")) /\ Proven(Token(user, user.password))
  BY <1>1, <1>2 DEF Proven
<1>4. Entry(user) \in CacheEntry /\ (CanAuthenticate(user) => Good(Entry(user)))
  BY <1>1 DEF Entry, CacheEntry, Good, Account
<1>5. ByOAuth(user) \subseteq {Token(user, "oauth")}
  BY DEF ByOAuth
<1> QED BY <1>2, <1>3, <1>4, <1>5

\* The token cache is filled with what agreed with the row of its version.
LEMMA CacheKeeps ==
  ASSUME BaseInv, NEW r \in Request,
         \/ \E t \in tokens, op \in Operation : Authenticate(r, t, op)
         \/ LookUp(r) \/ FillCache(r) \/ Invalidate(r)
  PROVE  BaseInv'
<1> USE MayDo
<1>1. user \in Account /\ tokens \subseteq AccessToken /\ request[r] \in Doing
  BY Typed DEF BaseInv
<1>2. ASSUME NEW t \in tokens, NEW op \in Operation, Authenticate(r, t, op)
      PROVE  BaseInv'
  <2>1. PICK next : next = IF Serves(t.version) THEN Admitted(op)
                           ELSE [pc |-> "lookup", version |-> t.version, op |-> op]
    OBVIOUS
  <2>2. t.version \in Version
    BY <1>1 DEF AccessToken
  <2>3. [pc |-> "lookup", version |-> t.version, op |-> op] \in Doing
    BY <2>2 DEF Doing
  <2>4. next \in Doing /\ next.pc \in Operation \cup {"idle", "lookup"}
    BY <2>1, <2>3
  <2>5. /\ Becomes(r, next) /\ At(r, "idle")
        /\ UNCHANGED <<user, lock, cache, tokens, resets, uses>>
    BY <1>2, <2>1 DEF Authenticate
  <2> QED BY <2>4, <2>5, ReadKeeps DEF At, Operation
<1>3. CASE LookUp(r)
  <2>1. PICK next : next = IF user.version = request[r].version /\ CanAuthenticate(user)
                           THEN [pc |-> "fill", entry |-> Entry(user), op |-> request[r].op]
                           ELSE Idle
    OBVIOUS
  <2>2. request[r].op \in Operation
    BY <1>1, <1>3, Knows DEF LookUp, At
  <2>3. [pc |-> "fill", entry |-> Entry(user), op |-> request[r].op] \in Doing
    BY <1>1, <2>2, ReadNow DEF Doing
  <2>4. next \in Doing /\ next.pc \in {"idle", "fill"} /\ (next.pc = "fill" => Good(next.entry))
    BY <1>1, <2>1, <2>3, ReadNow
  <2>5. /\ Becomes(r, next) /\ At(r, "lookup")
        /\ UNCHANGED <<user, lock, cache, tokens, resets, uses>>
    BY <1>3, <2>1 DEF LookUp
  <2> QED BY <2>4, <2>5, ReadKeeps DEF At
<1>4. CASE FillCache(r)
  <2>1. PICK next : next = Admitted(request[r].op)
    OBVIOUS
  <2>2. /\ Becomes(r, next) /\ At(r, "fill") /\ cache' = request[r].entry
        /\ UNCHANGED <<user, lock, tokens, resets, uses>>
    BY <1>4, <2>1 DEF FillCache
  <2>3. next \in Doing /\ next.pc \in Operation \cup {"idle"}
    BY <1>1, <2>1, <2>2, Knows DEF At
  <2> QED BY <2>2, <2>3, ReadKeeps DEF At, Operation
<1>5. CASE Invalidate(r)
  <2>1. /\ Becomes(r, Idle) /\ At(r, "invalidate") /\ cache' = None
        /\ tokens' = tokens \cup request[r].grants
        /\ UNCHANGED <<user, lock, resets, uses>>
    BY <1>5 DEF Invalidate
  <2> QED BY <2>1, ReadKeeps DEF At
<1> QED BY <1>2, <1>3, <1>4, <1>5

\* Logging in: the token signed is for the row that was read, whatever the row is by then.
LEMMA LoginKeeps ==
  ASSUME BaseInv, NEW r \in Request,
         Login(r) \/ LoginWrong(r) \/ LoginRight(r)
  PROVE  BaseInv'
<1> USE MayDo
<1>1. user \in Account /\ request[r] \in Doing
  BY Typed DEF BaseInv
<1>2. CASE Login(r)
  <2>1. PICK next : next = [pc |-> "compare", failed |-> user.failed,
                            token |-> Token(user, user.password)]
    OBVIOUS
  <2>2. /\ Becomes(r, next) /\ At(r, "idle") /\ user.password # None
        /\ UNCHANGED <<user, lock, cache, tokens, resets, uses>>
    BY <1>2, <2>1 DEF Login
  <2>3. user.password \in Password /\ user.failed \in 0 .. MAX_LOGIN_ATTEMPTS - 1
    BY <1>1, <2>2 DEF Account
  <2>4. next \in Doing /\ next.pc = "compare" /\ Proven(next.token)
    BY <1>1, <2>1, <2>3, ReadNow DEF Doing
  <2> QED BY <2>2, <2>4, ReadKeeps DEF At
<1>3. CASE LoginWrong(r)
  <2>1. request[r].failed \in 0 .. MAX_LOGIN_ATTEMPTS - 1 /\ At(r, "compare")
    BY <1>1, <1>3, Knows DEF LoginWrong, At
  <2>2. PICK attempts : attempts = request[r].failed + 1
    OBVIOUS
  <2>3. user' = IF LocksOut(attempts) THEN [user EXCEPT !.failed = 0, !.locked = TRUE]
                ELSE [user EXCEPT !.failed = attempts]
    BY <1>3, <2>2 DEF LoginWrong, UpdateUser
  <2>4. 0 \in 0 .. MAX_LOGIN_ATTEMPTS - 1
        /\ (~LocksOut(attempts) => attempts \in 0 .. MAX_LOGIN_ATTEMPTS - 1)
    BY <2>1, <2>2, AttemptsAssumption DEF LocksOut
  <2>5. user' \in Account
    BY <1>1, <2>3, <2>4 DEF Account
  <2>6. RowMoves /\ user'.reset = user.reset
    BY <1>1, <2>3 DEF Account, RowMoves
  <2>7. Becomes(r, Idle) /\ UNCHANGED <<lock, cache, tokens, resets, uses>>
    BY <1>3 DEF LoginWrong
  <2> QED BY <2>1, <2>5, <2>6, <2>7, StepKeeps DEF At
<1>4. CASE LoginRight(r)
  <2>1. /\ At(r, "compare") /\ Becomes(r, Idle) /\ tokens' = tokens \cup {request[r].token}
        /\ user' = [user EXCEPT !.failed = 0, !.locked = FALSE]
        /\ UNCHANGED <<lock, cache, resets, uses>>
    BY <1>4 DEF LoginRight, UpdateUser, SignedFor
  <2>2. 0 \in 0 .. MAX_LOGIN_ATTEMPTS - 1
    BY AttemptsAssumption
  <2>3. user' \in Account /\ RowMoves /\ user'.reset = user.reset
    BY <1>1, <2>1, <2>2 DEF Account, RowMoves
  <2> QED BY <2>1, <2>3, StepKeeps DEF At
<1> QED BY <1>2, <1>3, <1>4

\* A write that raises the version, or finds nothing to write; the invalidation follows.
LEMMA RaiseKeeps ==
  ASSUME BaseInv, NEW r \in Request, NEW grants \in SUBSET AccessToken,
         Becomes(r, Invalidating(grants)),
         \A t \in grants : Proven(t)',
         user' \in Account, user'.version = user.version + 1 \/ user' = user,
         user'.reset \in {user.reset, None}, lock = None,
         UNCHANGED <<lock, cache, tokens, resets, uses>>,
         ~At(r, "reset"), ~At(r, "commit")
  PROVE  BaseInv'
<1>1. user.version \in Nat
  BY Typed, VersionAssumption DEF BaseInv, Account, Version
<1>2. RowMoves
  <2>1. CASE user' = user
    BY <2>1 DEF RowMoves
  <2>2. CASE user'.version = user.version + 1
    BY <1>1, <2>2 DEF RowMoves
  <2> QED BY <2>1, <2>2
<1>3. PICK next : next = Invalidating(grants)
  OBVIOUS
<1>4. next \in Doing /\ next.pc = "invalidate" /\ next.grants = grants /\ Becomes(r, next)
  BY <1>3, MayDo
<1> QED BY <1>2, <1>4, StepKeeps

LEMMA RaisedVersion ==
  ASSUME user \in Account, CanBump
  PROVE  user.version + 1 \in Version
BY VersionAssumption DEF Account, CanBump, Version

\* Logging in with 42, and the promotion that may come with it.
LEMMA FortyTwoKeeps ==
  ASSUME BaseInv, NEW r \in Request,
         FortyTwoLogin(r) \/ FortyTwoPromote(r) \/ FortyTwoAnswer(r)
  PROVE  BaseInv'
<1> USE MayDo
<1>1. user \in Account /\ request[r] \in Doing
  BY Typed DEF BaseInv
<1>2. CASE FortyTwoLogin(r)
  <2>1. PICK next : next = IF Allowlisted /\ user.role # "ADMIN" THEN [pc |-> "promote"]
                           ELSE [pc |-> "admit", grants |-> ByOAuth(user)]
    OBVIOUS
  <2>2. /\ Becomes(r, next) /\ At(r, "idle")
        /\ UNCHANGED <<user, lock, cache, tokens, resets, uses>>
    BY <1>2, <2>1 DEF FortyTwoLogin
  <2>3. [pc |-> "promote"] \in Doing /\ [pc |-> "admit", grants |-> ByOAuth(user)] \in Doing
    BY <1>1, ReadNow DEF Doing
  <2>4. /\ next \in Doing /\ next.pc \in {"promote", "admit"}
        /\ next.pc = "admit" => \A t \in next.grants : Proven(t)
    BY <1>1, <2>1, <2>3, ReadNow
  <2> QED BY <2>2, <2>4, ReadKeeps DEF At
<1>3. CASE FortyTwoPromote(r)
  <2>1. /\ At(r, "promote") /\ lock = None
        /\ Becomes(r, Invalidating(ByOAuth(user')))
        /\ UNCHANGED <<lock, cache, tokens, resets, uses>>
    BY <1>3 DEF FortyTwoPromote, UpdateUser, Writable
  <2>2. \/ user' = user
        \/ CanBump /\ user' = Bump([user EXCEPT !.role = "ADMIN"])
    BY <1>3 DEF FortyTwoPromote, UpdateUser
  <2>3. /\ user' \in Account /\ user'.reset = user.reset
        /\ user'.version = user.version + 1 \/ user' = user
    <3>1. CASE user' = user
      BY <1>1, <3>1
    <3>2. CASE CanBump /\ user' = Bump([user EXCEPT !.role = "ADMIN"])
      BY <1>1, <3>2, RaisedVersion DEF Account, Bump
    <3> QED BY <2>2, <3>1, <3>2
  <2>4. PICK grants : grants = ByOAuth(user')
    OBVIOUS
  <2>5. grants \in SUBSET AccessToken /\ \A t \in grants : Proven(t)'
    <3>1. user'.version \in Nat /\ user'.version \in Version
      BY <2>3, VersionAssumption DEF Account, Version
    <3>2. \A t \in grants : t = Token(user', "oauth")
      BY <2>4 DEF ByOAuth
    <3> QED BY <3>1, <3>2 DEF Token, AccessToken, Proven
  <2> QED BY <2>1, <2>3, <2>4, <2>5, RaiseKeeps DEF At
<1>4. CASE FortyTwoAnswer(r)
  <2>1. /\ Becomes(r, Idle) /\ At(r, "admit") /\ tokens' = tokens \cup request[r].grants
        /\ UNCHANGED <<user, lock, cache, resets, uses>>
    BY <1>4 DEF FortyTwoAnswer
  <2> QED BY <2>1, ReadKeeps DEF At
<1> QED BY <1>2, <1>3, <1>4

\* Changing the password, upgrading a guest, deleting an account: each reads, then writes.
LEMMA OwnerKeeps ==
  ASSUME BaseInv, NEW r \in Request,
         \/ ChangePassword(r) \/ ChangeWrite(r) \/ UpgradeGuest(r) \/ UpgradeWrite(r)
         \/ DeleteAccount(r) \/ DeleteWrite(r)
  PROVE  BaseInv'
<1> USE MayDo
<1>1. user \in Account /\ request[r] \in Doing
  BY Typed DEF BaseInv
<1>2. CASE ChangePassword(r) \/ UpgradeGuest(r) \/ DeleteAccount(r)
  <2>1. /\ user.password # None => [pc |-> "changing", password |-> user.password] \in Doing
        /\ [pc |-> "upgrading"] \in Doing /\ [pc |-> "deleting"] \in Doing
    BY <1>1 DEF Doing, Account
  <2>2. PICK next \in Doing : Becomes(r, next) /\ next.pc \in {"idle", "changing", "upgrading", "deleting"}
    BY <1>2, <2>1 DEF ChangePassword, UpgradeGuest, DeleteAccount
  <2>3. /\ ~At(r, "reset") /\ ~At(r, "commit")
        /\ UNCHANGED <<user, lock, cache, tokens, resets, uses>>
    BY <1>2 DEF ChangePassword, UpgradeGuest, DeleteAccount, At
  <2> QED BY <2>2, <2>3, ReadKeeps
<1>3. CASE ChangeWrite(r)
  <2>1. PICK p \in NewPassword(request[r].password) : lock = None /\ user' = WithPassword(user, p)
    BY <1>3 DEF ChangeWrite, UpdateUser, Writable
  <2>2. p \in Password
    BY <2>1 DEF NewPassword
  <2>3. /\ At(r, "changing") /\ CanBump /\ Becomes(r, Invalidating({}))
        /\ UNCHANGED <<lock, cache, tokens, resets, uses>>
    BY <1>3 DEF ChangeWrite
  <2>4. user' \in Account /\ user'.version = user.version + 1 /\ user'.reset = None
    BY <1>1, <2>1, <2>2, <2>3, RaisedVersion DEF Account, WithPassword, Bump
  <2> QED BY <2>1, <2>3, <2>4, RaiseKeeps DEF At
<1>4. CASE UpgradeWrite(r)
  <2>1. At(r, "upgrading") /\ UNCHANGED <<lock, cache, tokens, resets, uses>>
    BY <1>4 DEF UpgradeWrite
  <2>2. CASE UNCHANGED user /\ Becomes(r, Idle)
    BY <2>1, <2>2, ReadKeeps DEF At
  <2>3. CASE ~(UNCHANGED user /\ Becomes(r, Idle))
    <3>1. CanBump
      BY <1>4, <2>3 DEF UpgradeWrite
    <3>2. PICK p \in Password :
            /\ lock = None
            /\ user' = Upgraded(user, p)
            /\ Becomes(r, Invalidating({Token(user', p)}))
      BY <1>4, <2>3 DEF UpgradeWrite, UpdateUser, Writable
    <3>3. 0 \in 0 .. MAX_LOGIN_ATTEMPTS - 1
      BY AttemptsAssumption
    <3>4. /\ user' \in Account /\ user'.version = user.version + 1 /\ user'.reset = user.reset
          /\ user'.password = p
      BY <1>1, <3>1, <3>2, <3>3, RaisedVersion DEF Account, Upgraded, Bump
    <3>5. PICK grants : grants = {Token(user', p)}
      OBVIOUS
    <3>6. grants \in SUBSET AccessToken /\ \A t \in grants : Proven(t)'
      <4>1. user'.version \in Nat /\ user'.version \in Version
        BY <3>4, VersionAssumption DEF Account, Version
      <4>2. \A t \in grants : t = Token(user', p)
        BY <3>5
      <4> QED BY <3>4, <4>1, <4>2 DEF Token, AccessToken, Proven
    <3> QED BY <2>1, <3>2, <3>4, <3>5, <3>6, RaiseKeeps DEF At
  <2> QED BY <2>2, <2>3
<1>5. CASE DeleteWrite(r)
  <2>1. /\ At(r, "deleting") /\ CanBump /\ lock = None /\ Becomes(r, Invalidating({}))
        /\ user' = Bump([user EXCEPT !.deleted = TRUE, !.password = None, !.guest = FALSE,
                                     !.reset = None, !.failed = 0, !.locked = FALSE])
        /\ UNCHANGED <<lock, cache, tokens, resets, uses>>
    BY <1>5 DEF DeleteWrite, UpdateUser, Writable
  <2>2. 0 \in 0 .. MAX_LOGIN_ATTEMPTS - 1
    BY AttemptsAssumption
  <2>3. user' \in Account /\ user'.version = user.version + 1 /\ user'.reset = None
    BY <1>1, <2>1, <2>2, RaisedVersion DEF Account, Bump
  <2> QED BY <2>1, <2>3, RaiseKeeps DEF At
<1> QED BY <1>2, <1>3, <1>4, <1>5

LEMMA AdministrationKeeps ==
  ASSUME BaseInv, NEW r \in Request, Administrate(r)
  PROVE  BaseInv'
<1>1. user \in Account
  BY Typed DEF BaseInv
<1>2. /\ At(r, "idle") /\ CanBump /\ lock = None /\ Becomes(r, Invalidating({}))
      /\ UNCHANGED <<lock, cache, tokens, resets, uses>>
  BY DEF Administrate, UpdateUser, Writable
<1>3. \/ \E s \in Status : user' = WithStatus(user, s)
      \/ \E role \in {"USER", "ADMIN"} : user' = WithRole(user, role)
      \/ user' = Bump([user EXCEPT !.deleted = TRUE])
  BY DEF Administrate, UpdateUser
<1>4. /\ user' \in Account /\ user'.reset = user.reset
      /\ user'.version = user.version + 1 \/ user' = user
  <2>1. ASSUME NEW s \in Status, user' = WithStatus(user, s)
        PROVE  user' \in Account /\ user'.reset = user.reset /\ user'.version = user.version + 1
    BY <1>1, <1>2, <2>1, RaisedVersion DEF Account, WithStatus, Bump
  <2>2. ASSUME NEW role \in {"USER", "ADMIN"}, user' = WithRole(user, role)
        PROVE  /\ user' \in Account /\ user'.reset = user.reset
               /\ user'.version = user.version + 1 \/ user' = user
    <3>1. CASE user.role = role
      BY <1>1, <2>2, <3>1 DEF WithRole
    <3>2. CASE user.role # role
      BY <1>1, <1>2, <2>2, <3>2, RaisedVersion DEF Account, WithRole, Bump
    <3> QED BY <3>1, <3>2
  <2>3. CASE user' = Bump([user EXCEPT !.deleted = TRUE])
    BY <1>1, <1>2, <2>3, RaisedVersion DEF Account, Bump
  <2> QED BY <1>3, <2>1, <2>2, <2>3
<1> QED BY <1>2, <1>4, RaiseKeeps DEF At

-----------------------------------------------------------------------------
\* Making a reset token: its id is nobody else's, and it is stored once.
LEMMA MakingResetKeeps ==
  ASSUME BaseInv, NEW r \in Request, NEW i \in ResetId, RequestReset(r, i)
  PROVE  BaseInv'
<1>1. PICK next : next = [pc |-> "store", id |-> i]
  OBVIOUS
<1>2. /\ Becomes(r, next) /\ At(r, "idle") /\ resets[i] = "unmade"
      /\ \A q \in Request : At(q, "store") => request[q].id # i
      /\ UNCHANGED <<user, lock, cache, tokens, resets, uses>>
  BY <1>1 DEF RequestReset
<1>3. next \in Doing /\ next.pc = "store" /\ next.id = i
  BY <1>1 DEF Doing
<1>4. /\ request'[r] = next /\ \A q \in Request \ {r} : request'[q] = request[q]
  BY <1>2, <1>3, OneRequest, Typed DEF BaseInv
<1>5. ResetsAreNew'
  <2>1. \A q \in Request, pc \in {"reset", "commit", "mail"} :
          At(q, pc)' => At(q, pc) /\ request'[q] = request[q]
    BY <1>3, <1>4 DEF At
  <2>2. \A q \in Request : At(q, "store")' =>
          q = r \/ (At(q, "store") /\ request'[q] = request[q])
    BY <1>4 DEF At
  <2>3. ASSUME NEW q \in Request
        PROVE  /\ At(q, "reset")' \/ At(q, "commit")' => lock' = q /\ user'.reset = request'[q].id
               /\ At(q, "store")' => resets'[request'[q].id] = "unmade"
               /\ At(q, "mail")' => resets'[request'[q].id] # "unmade"
               /\ \A p \in Request : At(q, "store")' /\ At(p, "store")' /\ request'[q].id = request'[p].id => q = p
    <3>1. At(q, "reset")' \/ At(q, "commit")' => lock' = q /\ user'.reset = request'[q].id
      BY <1>2, <2>1 DEF BaseInv, ResetsAreNew
    <3>2. At(q, "store")' => resets'[request'[q].id] = "unmade"
      BY <1>2, <1>3, <1>4, <2>2 DEF BaseInv, ResetsAreNew
    <3>3. ASSUME NEW p \in Request, At(q, "store")', At(p, "store")', request'[q].id = request'[p].id
          PROVE  q = p
      BY <1>2, <1>3, <1>4, <2>2, <3>3 DEF BaseInv, ResetsAreNew
    <3>4. At(q, "mail")' => resets'[request'[q].id] # "unmade"
      BY <1>2, <2>1 DEF BaseInv, ResetsAreNew
    <3> QED BY <3>1, <3>2, <3>3, <3>4
  <2> QED BY <1>2, <2>3 DEF BaseInv, ResetsAreNew
<1>6. user' \in Account /\ RowMoves
  BY <1>2, Typed DEF BaseInv, RowMoves
<1>7. /\ TokensProven' /\ EntriesAgree'
      /\ cache' \in CacheEntry \cup {None} /\ tokens' \subseteq AccessToken
      /\ request' \in [Request -> Doing]
  BY <1>2, <1>3, <1>6, StepKeepsFaith
<1> QED BY <1>2, <1>5, <1>6, <1>7, Typed DEF BaseInv, TypeOK, Account, Doing

LEMMA StoringResetKeeps ==
  ASSUME BaseInv, NEW r \in Request, StoreReset(r)
  PROVE  BaseInv'
<1>1. PICK i : i = request[r].id
  OBVIOUS
<1>2. PICK next : next = [pc |-> "mail", id |-> i]
  OBVIOUS
<1>3. /\ Becomes(r, next) /\ At(r, "store") /\ lock = None
      /\ user' = [user EXCEPT !.reset = i]
      /\ resets' = [resets EXCEPT ![i] = "stored"]
      /\ UNCHANGED <<lock, cache, tokens, uses>>
  BY <1>1, <1>2 DEF StoreReset, UpdateUser, Writable
<1>4. /\ user \in Account /\ request[r] \in Doing
      /\ resets \in [ResetId -> {"unmade", "stored", "mailed"}] /\ uses \in [ResetId -> Nat]
      /\ lock \in Request \cup {None}
  BY Typed DEF BaseInv
<1>5. i \in ResetId /\ resets[i] = "unmade" /\ uses[i] = 0
  BY <1>1, <1>3, <1>4, Knows DEF BaseInv, ResetsAreNew, At
<1>6. next \in Doing /\ next.pc = "mail"
  BY <1>2, <1>5 DEF Doing
<1>7. /\ request'[r] = next /\ \A q \in Request \ {r} : request'[q] = request[q]
  BY <1>3, <1>6, OneRequest, Typed DEF BaseInv
<1>8. user' \in Account /\ RowMoves /\ user'.reset = i
  BY <1>3, <1>4, <1>5 DEF Account, RowMoves
<1>9. ResetsAreNew'
  <2>1. \A q \in Request : ~At(q, "reset") /\ ~At(q, "commit")
    BY <1>3, SomethingIsNone DEF BaseInv, ResetsAreNew
  <2>2. \A q \in Request, pc \in {"reset", "commit", "store"} :
          At(q, pc)' => q # r /\ At(q, pc) /\ request'[q] = request[q]
    BY <1>6, <1>7 DEF At
  <2>3. \A q \in Request \ {r} : At(q, "store") => request[q].id # i /\ resets[request[q].id] = "unmade"
    BY <1>1, <1>3 DEF BaseInv, ResetsAreNew
  <2>4. \A j \in ResetId :
          /\ uses'[j] \in {0, 1}
          /\ user'.reset = j => resets'[j] # "unmade" /\ uses'[j] = 0
          /\ resets'[j] = "unmade" => uses'[j] = 0
    BY <1>3, <1>4, <1>5, <1>8 DEF BaseInv, ResetsAreNew
  <2>5. ASSUME NEW q \in Request
        PROVE  /\ ~At(q, "reset")' /\ ~At(q, "commit")'
               /\ At(q, "store")' => resets'[request'[q].id] = "unmade"
               /\ At(q, "mail")' => resets'[request'[q].id] # "unmade"
               /\ \A p \in Request : At(q, "store")' /\ At(p, "store")' /\ request'[q].id = request'[p].id => q = p
    <3>1. ~At(q, "reset")' /\ ~At(q, "commit")'
      BY <2>1, <2>2
    <3>2. At(q, "store")' => resets'[request'[q].id] = "unmade"
      <4>1. At(q, "store") => request[q].id \in ResetId
        BY Typed, Knows DEF BaseInv, At
      <4> QED BY <1>3, <1>4, <2>2, <2>3, <4>1
    <3>4. At(q, "mail")' => resets'[request'[q].id] # "unmade"
      <4>1. At(q, "mail") => request[q].id \in ResetId /\ resets[request[q].id] # "unmade"
        BY Typed, Knows DEF BaseInv, ResetsAreNew, At
      <4>2. \A j \in ResetId : resets[j] # "unmade" => resets'[j] # "unmade"
        BY <1>3, <1>4
      <4>3. q # r => (At(q, "mail")' => At(q, "mail") /\ request'[q] = request[q])
        BY <1>7 DEF At
      <4>4. request'[r].id = i /\ resets'[i] # "unmade"
        BY <1>2, <1>3, <1>4, <1>5, <1>7
      <4> QED BY <4>1, <4>2, <4>3, <4>4
    <3>3. ASSUME NEW p \in Request, At(q, "store")', At(p, "store")', request'[q].id = request'[p].id
          PROVE  q = p
      BY <2>2, <3>3 DEF BaseInv, ResetsAreNew
    <3> QED BY <3>1, <3>2, <3>3, <3>4
  <2> QED BY <2>4, <2>5 DEF ResetsAreNew
<1>10. /\ TokensProven' /\ EntriesAgree'
       /\ cache' \in CacheEntry \cup {None} /\ tokens' \subseteq AccessToken
       /\ request' \in [Request -> Doing]
  BY <1>3, <1>6, <1>8, StepKeepsFaith
<1>11. resets' \in [ResetId -> {"unmade", "stored", "mailed"}]
  BY <1>3, <1>4, <1>5
<1> QED BY <1>3, <1>4, <1>8, <1>9, <1>10, <1>11 DEF BaseInv, TypeOK, Account, Doing

\* The mail gets out, or the account's token is cleared.
LEMMA MailingResetKeeps ==
  ASSUME BaseInv, NEW r \in Request, MailReset(r) \/ MailFails(r)
  PROVE  BaseInv'
<1>1. /\ Becomes(r, Idle) /\ At(r, "mail") /\ UNCHANGED <<lock, cache, tokens, uses>>
  BY DEF MailReset, MailFails
<1>2. user \in Account /\ request[r] \in Doing
      /\ resets \in [ResetId -> {"unmade", "stored", "mailed"}]
  BY Typed DEF BaseInv
<1>3. CASE MailFails(r)
  <2>1. CASE UNCHANGED user
    <3>1. UNCHANGED resets
      BY <1>3 DEF MailFails
    <3> QED BY <1>1, <2>1, <3>1, MayDo, ReadKeeps DEF At
  <2>2. CASE lock = None /\ user' = [user EXCEPT !.reset = None]
    <3>1. user' \in Account /\ RowMoves /\ user'.reset = None
      BY <1>2, <2>2 DEF Account, RowMoves
    <3>2. UNCHANGED resets
      BY <1>3 DEF MailFails
    <3> QED BY <1>1, <2>2, <3>1, <3>2, MayDo, StepKeeps DEF At
  <2> QED BY <1>3, <2>1, <2>2 DEF MailFails, UpdateUser, Writable
<1>4. CASE MailReset(r)
  <2>1. PICK i : i = request[r].id
    OBVIOUS
  <2>2. UNCHANGED user /\ resets' = [resets EXCEPT ![i] = "mailed"] /\ i \in ResetId
    BY <1>1, <1>2, <1>4, <2>1, Knows DEF MailReset, At
  <2>3. user' \in Account /\ RowMoves
    BY <1>2, <2>2 DEF RowMoves
  <2>4. /\ TokensProven' /\ EntriesAgree'
        /\ cache' \in CacheEntry \cup {None} /\ tokens' \subseteq AccessToken
        /\ request' \in [Request -> Doing]
    BY <1>1, <2>3, MayDo, StepKeepsFaith
  <2>5. /\ request'[r] = Idle /\ \A q \in Request \ {r} : request'[q] = request[q]
    BY <1>1, MayDo, OneRequest, Typed DEF BaseInv
  <2>6. \A q \in Request, pc \in {"reset", "commit", "store", "mail"} :
          At(q, pc)' => At(q, pc) /\ request'[q] = request[q]
    BY <2>5, MayDo DEF At
  <2>7. resets' \in [ResetId -> {"unmade", "stored", "mailed"}]
        /\ \A j \in ResetId : resets'[j] = "unmade" <=> resets[j] = "unmade" /\ j # i
    BY <1>2, <2>2
  <2>8. ResetsAreNew'
    <3>1. \A j \in ResetId :
            /\ uses'[j] \in {0, 1}
            /\ user'.reset = j => resets'[j] # "unmade" /\ uses'[j] = 0
            /\ resets'[j] = "unmade" => uses'[j] = 0
      BY <1>1, <2>2, <2>7 DEF BaseInv, ResetsAreNew
    <3>2. ASSUME NEW q \in Request
          PROVE  /\ At(q, "reset")' \/ At(q, "commit")' => lock' = q /\ user'.reset = request'[q].id
                 /\ At(q, "store")' => resets'[request'[q].id] = "unmade"
                 /\ At(q, "mail")' => resets'[request'[q].id] # "unmade"
                 /\ \A p \in Request : At(q, "store")' /\ At(p, "store")' /\ request'[q].id = request'[p].id => q = p
      <4>1. At(q, "reset")' \/ At(q, "commit")' => lock' = q /\ user'.reset = request'[q].id
        BY <1>1, <2>2, <2>6 DEF BaseInv, ResetsAreNew
      <4>2. At(q, "store")' => resets'[request'[q].id] = "unmade"
        <5>1. At(q, "store") => request[q].id \in ResetId /\ resets[request[q].id] = "unmade"
          BY Typed, Knows DEF BaseInv, ResetsAreNew, At
        <5>2. resets[i] = "unmade" => FALSE
          BY <1>1, <2>1, <2>2 DEF BaseInv, ResetsAreNew
        <5> QED BY <2>6, <2>7, <5>1, <5>2
      <4>3. ASSUME NEW p \in Request, At(q, "store")', At(p, "store")', request'[q].id = request'[p].id
            PROVE  q = p
        BY <2>6, <4>3 DEF BaseInv, ResetsAreNew
      <4>4. At(q, "mail")' => resets'[request'[q].id] # "unmade"
        <5>1. At(q, "mail") => request[q].id \in ResetId /\ resets[request[q].id] # "unmade"
          BY Typed, Knows DEF BaseInv, ResetsAreNew, At
        <5> QED BY <2>6, <2>7, <5>1
      <4> QED BY <4>1, <4>2, <4>3, <4>4
    <3> QED BY <3>1, <3>2 DEF ResetsAreNew
  <2> QED BY <1>1, <2>3, <2>4, <2>7, <2>8, Typed DEF BaseInv, TypeOK, Account, Doing
<1> QED BY <1>3, <1>4

\* Using a reset token: one transaction at a time holds the row, and its commit uses it up.
LEMMA UsingResetKeeps ==
  ASSUME BaseInv, NEW r \in Request,
         (\E i \in ResetId : ResetPassword(r, i)) \/ ResetWrite(r)
  PROVE  BaseInv'
<1>1. /\ user \in Account /\ request[r] \in Doing /\ lock \in Request \cup {None}
      /\ resets \in [ResetId -> {"unmade", "stored", "mailed"}] /\ uses \in [ResetId -> Nat]
  BY Typed DEF BaseInv
<1>2. PICK next \in Doing :
        /\ Becomes(r, next) /\ next.pc \in {"reset", "commit"} /\ next.id = user.reset
        /\ lock' = r /\ (lock = None \/ lock = r) /\ cache' \in {cache, None}
        /\ UNCHANGED <<user, tokens, resets, uses>>
  <2>1. ASSUME NEW i \in ResetId, ResetPassword(r, i)
        PROVE  \E next \in Doing :
                 /\ Becomes(r, next) /\ next.pc = "reset" /\ next.id = user.reset
                 /\ lock' = r /\ lock = None /\ cache' \in {cache, None}
                 /\ UNCHANGED <<user, tokens, resets, uses>>
    <3>1. [pc |-> "reset", id |-> i] \in Doing
      BY DEF Doing
    <3> QED BY <2>1, <3>1 DEF ResetPassword, ForUpdate, Writable
  <2>2. ASSUME ResetWrite(r)
        PROVE  \E next \in Doing :
                 /\ Becomes(r, next) /\ next.pc = "commit" /\ next.id = user.reset
                 /\ lock' = r /\ lock = r /\ cache' \in {cache, None}
                 /\ UNCHANGED <<user, tokens, resets, uses>>
    <3>1. At(r, "reset") /\ lock = r /\ lock' = r /\ request[r].id = user.reset
          /\ request[r].id \in ResetId
      BY <1>1, <2>2, Knows DEF ResetWrite, BaseInv, ResetsAreNew, At
    <3>2. PICK p \in NewPassword(user.password) :
            Becomes(r, [pc |-> "commit", id |-> request[r].id, password |-> p])
      BY <2>2 DEF ResetWrite
    <3>3. [pc |-> "commit", id |-> request[r].id, password |-> p] \in Doing
      BY <3>1, <3>2 DEF Doing, NewPassword
    <3> QED BY <2>2, <3>1, <3>2, <3>3 DEF ResetWrite
  <2> QED BY <2>1, <2>2
<1>3. user' \in Account /\ RowMoves
  BY <1>1, <1>2 DEF RowMoves
<1>4. /\ TokensProven' /\ EntriesAgree'
      /\ cache' \in CacheEntry \cup {None} /\ tokens' \subseteq AccessToken
      /\ request' \in [Request -> Doing]
  BY <1>2, <1>3, StepKeepsFaith
<1>5. /\ request'[r] = next /\ \A q \in Request \ {r} : request'[q] = request[q]
  BY <1>2, OneRequest, Typed DEF BaseInv
<1>6. ResetsAreNew'
  <2>1. \A q \in Request \ {r} : ~At(q, "reset") /\ ~At(q, "commit")
    BY <1>2, SomethingIsNone DEF BaseInv, ResetsAreNew
  <2>2. \A q \in Request \ {r}, pc \in {"reset", "commit", "store", "mail"} :
          At(q, pc)' <=> At(q, pc)
    BY <1>5 DEF At
  <2>3. \A pc \in {"store", "mail"} : ~At(r, pc)'
    BY <1>2, <1>5 DEF At
  <2>4. ASSUME NEW q \in Request
        PROVE  /\ At(q, "reset")' \/ At(q, "commit")' => lock' = q /\ user'.reset = request'[q].id
               /\ At(q, "store")' => resets'[request'[q].id] = "unmade"
               /\ At(q, "mail")' => resets'[request'[q].id] # "unmade"
               /\ \A p \in Request : At(q, "store")' /\ At(p, "store")' /\ request'[q].id = request'[p].id => q = p
    <3>1. CASE q = r
      BY <1>2, <1>5, <2>3, <3>1
    <3>2. CASE q # r
      BY <1>2, <1>5, <2>1, <2>2, <2>3, <3>2 DEF BaseInv, ResetsAreNew
    <3> QED BY <3>1, <3>2
  <2> QED BY <1>2, <2>4 DEF BaseInv, ResetsAreNew
<1> QED BY <1>2, <1>3, <1>4, <1>6, Typed DEF BaseInv, TypeOK, Account, Doing

LEMMA EndingResetKeeps ==
  ASSUME BaseInv, CommitFits, NEW r \in Request, ResetCommit(r) \/ ResetRollback(r)
  PROVE  BaseInv'
<1>1. /\ user \in Account /\ request[r] \in Doing
      /\ resets \in [ResetId -> {"unmade", "stored", "mailed"}] /\ uses \in [ResetId -> Nat]
  BY Typed DEF BaseInv
<1>2. /\ Becomes(r, Idle) /\ lock' = None /\ UNCHANGED <<cache, tokens, resets>>
      /\ At(r, "reset") \/ At(r, "commit")
      /\ lock = r
  BY DEF ResetCommit, ResetRollback, BaseInv, ResetsAreNew
<1>3. /\ request'[r] = Idle /\ \A q \in Request \ {r} : request'[q] = request[q]
  BY <1>2, MayDo, OneRequest, Typed DEF BaseInv
<1>4. PICK i : i = request[r].id
  OBVIOUS
<1>5. i \in ResetId /\ user.reset = i /\ uses[i] = 0 /\ resets[i] # "unmade"
  BY <1>1, <1>2, <1>4, Knows DEF BaseInv, ResetsAreNew, At
<1>6. /\ user' \in Account /\ RowMoves
      /\ \/ user' = user /\ uses' = uses
         \/ user'.reset = None /\ uses' = [uses EXCEPT ![i] = 1]
  <2>1. CASE ResetCommit(r)
    <3>1. /\ user' = WithPassword(user, request[r].password) /\ CanBump
          /\ request[r].password \in Password
          /\ uses' = [uses EXCEPT ![i] = @ + 1]
      BY <1>1, <1>4, <2>1, Knows DEF ResetCommit, CommitFits, At
    <3>2. user' \in Account /\ user'.version = user.version + 1 /\ user'.reset = None
      BY <1>1, <3>1, RaisedVersion DEF Account, WithPassword, Bump
    <3>3. RowMoves
      BY <1>1, <3>2, VersionAssumption DEF RowMoves, Account, Version
    <3>4. uses' = [uses EXCEPT ![i] = 1]
      BY <1>1, <1>5, <3>1
    <3> QED BY <3>2, <3>3, <3>4
  <2>2. CASE ResetRollback(r)
    BY <1>1, <2>2 DEF ResetRollback, RowMoves
  <2> QED BY <2>1, <2>2
<1>7. /\ TokensProven' /\ EntriesAgree'
      /\ cache' \in CacheEntry \cup {None} /\ tokens' \subseteq AccessToken
      /\ request' \in [Request -> Doing]
  BY <1>2, <1>6, MayDo, StepKeepsFaith
<1>8. uses' \in [ResetId -> Nat]
  BY <1>1, <1>6
<1>9. ResetsAreNew'
  <2>1. \A q \in Request : ~At(q, "reset")' /\ ~At(q, "commit")'
    <3>1. \A q \in Request \ {r} : ~At(q, "reset") /\ ~At(q, "commit")
      BY <1>2 DEF BaseInv, ResetsAreNew
    <3> QED BY <1>3, <3>1, MayDo DEF At
  <2>2. \A q \in Request, pc \in {"store", "mail"} : At(q, pc)' => At(q, pc) /\ request'[q] = request[q]
    BY <1>3, MayDo DEF At
  <2>3. \A j \in ResetId :
          /\ uses'[j] \in {0, 1}
          /\ user'.reset = j => resets'[j] # "unmade" /\ uses'[j] = 0
          /\ resets'[j] = "unmade" => uses'[j] = 0
    BY <1>1, <1>2, <1>5, <1>6, SomethingIsNone DEF BaseInv, ResetsAreNew
  <2>4. ASSUME NEW q \in Request
        PROVE  /\ ~At(q, "reset")' /\ ~At(q, "commit")'
               /\ At(q, "store")' => resets'[request'[q].id] = "unmade"
               /\ At(q, "mail")' => resets'[request'[q].id] # "unmade"
               /\ \A p \in Request : At(q, "store")' /\ At(p, "store")' /\ request'[q].id = request'[p].id => q = p
    BY <1>2, <2>1, <2>2 DEF BaseInv, ResetsAreNew
  <2> QED BY <2>3, <2>4 DEF ResetsAreNew
<1> QED BY <1>2, <1>6, <1>7, <1>8, <1>9, Typed DEF BaseInv, TypeOK, Account, Doing

-----------------------------------------------------------------------------
\* Time passes: nobody takes a step.
LEMMA TimeKeeps ==
  ASSUME BaseInv, CacheExpires \/ LockoutEnds \/ SuspensionEnds
  PROVE  BaseInv'
<1>1. user \in Account /\ cache \in CacheEntry \cup {None} /\ tokens \subseteq AccessToken
      /\ request \in [Request -> Doing]
  BY Typed DEF BaseInv
<1>2. /\ cache' \in {cache, None} /\ UNCHANGED <<lock, tokens, resets, uses, request>>
      /\ user' = user \/ user' = [user EXCEPT !.locked = FALSE]
         \/ (user.status = "SUSPENDED" /\ user' = [user EXCEPT !.status = "ACTIVE"])
  BY DEF CacheExpires, LockoutEnds, SuspensionEnds, UpdateUser
<1>3. user' \in Account /\ RowMoves /\ user'.reset = user.reset
  <2>1. CASE user' = user
    BY <1>1, <2>1 DEF RowMoves
  <2>2. CASE user' = [user EXCEPT !.locked = FALSE]
    BY <1>1, <2>2 DEF RowMoves, Account
  <2>3. CASE user' = [user EXCEPT !.status = "ACTIVE"]
    BY <1>1, <2>3 DEF RowMoves, Account, Status
  <2> QED BY <1>2, <2>1, <2>2, <2>3
<1>4. /\ \A t \in AccessToken : Proven(t) => Proven(t)'
      /\ \A e \in CacheEntry : Good(e) => Good(e)'
  BY <1>1, <1>3, StillTrue
<1>5. ASSUME NEW q \in Request
      PROVE  /\ At(q, "fill") => request[q].entry \in CacheEntry
             /\ At(q, "compare") => request[q].token \in AccessToken
             /\ At(q, "admit") \/ At(q, "invalidate") => request[q].grants \subseteq AccessToken
  BY <1>1, Knows DEF At
<1>6. TokensProven'
  <2>1. \A t \in tokens' : Proven(t)'
    BY <1>1, <1>2, <1>4 DEF BaseInv, TokensProven
  <2>2. ASSUME NEW q \in Request
        PROVE  /\ At(q, "compare")' => Proven(request[q].token)'
               /\ At(q, "admit")' \/ At(q, "invalidate")' => \A t \in request'[q].grants : Proven(t)'
    <3>1. PICK d : d = request[q] /\ d = request'[q]
      BY <1>2
    <3>2. d.pc = "compare" => Proven(d.token)'
      BY <1>4, <1>5, <3>1 DEF BaseInv, TokensProven, At
    <3>3. d.pc = "admit" \/ d.pc = "invalidate" => \A t \in d.grants : Proven(t)'
      BY <1>4, <1>5, <3>1 DEF BaseInv, TokensProven, At
    <3> QED BY <3>1, <3>2, <3>3 DEF At, Proven
  <2> QED BY <2>1, <2>2 DEF TokensProven
<1>7. EntriesAgree'
  <2>1. cache' # None => Good(cache)'
    BY <1>1, <1>2, <1>4 DEF BaseInv, EntriesAgree, Good
  <2>2. ASSUME NEW q \in Request, At(q, "fill")'
        PROVE  Good(request[q].entry)'
    <3>1. PICK d : d = request[q] /\ d = request'[q]
      BY <1>2
    <3>2. Good(d.entry)'
      BY <1>4, <1>5, <2>2, <3>1 DEF BaseInv, EntriesAgree, At
    <3> QED BY <3>1, <3>2 DEF Good
  <2> QED BY <2>1, <2>2 DEF EntriesAgree
<1>8. ResetsAreNew'
  BY <1>2, <1>3 DEF BaseInv, ResetsAreNew, At
<1>9. cache' \in CacheEntry \cup {None}
  BY <1>1, <1>2
<1> QED BY <1>2, <1>3, <1>6, <1>7, <1>8, <1>9, Typed DEF BaseInv, TypeOK, Account, Doing

LEMMA RestartKeeps ==
  ASSUME BaseInv, Restart
  PROVE  BaseInv'
<1>1. /\ request' = [r \in Request |-> Idle] /\ lock' = None /\ cache' = None
      /\ UNCHANGED <<user, tokens, resets, uses>>
  BY DEF Restart
<1>2. \A q \in Request, pc \in {"compare", "admit", "invalidate", "fill", "store", "mail", "reset", "commit"} :
        ~At(q, pc)'
  BY <1>1, MayDo DEF At
<1>3. TokensProven'
  BY <1>1, <1>2 DEF BaseInv, TokensProven, Proven
<1>4. EntriesAgree'
  BY <1>1, <1>2 DEF EntriesAgree
<1>5. ResetsAreNew'
  BY <1>1, <1>2 DEF BaseInv, ResetsAreNew
<1>6. request' \in [Request -> Doing]
  BY <1>1, MayDo
<1> QED BY <1>1, <1>3, <1>4, <1>5, <1>6, Typed DEF BaseInv, TypeOK, Account, Doing

\* The transaction that is about to commit keeps the version from being raised before it.
LEMMA CommitKeepsRoom == IInv /\ [Next]_vars => CommitFits'
<1> SUFFICES ASSUME IInv, [Next]_vars, NEW q \in Request, At(q, "commit")' PROVE CanBump'
  BY DEF CommitFits
<1>1. request \in [Request -> Doing] /\ user \in Account
  BY Typed DEF IInv, BaseInv
<1>2. At(q, "commit") => lock = q /\ lock # None /\ CanBump
  BY SomethingIsNone DEF IInv, BaseInv, ResetsAreNew, CommitFits
<1>3. user'.version = user.version => (CanBump => CanBump')
  BY DEF CanBump
<1>4. CASE UNCHANGED vars
  BY <1>2, <1>3, <1>4 DEF vars, At
<1>5. CASE CacheExpires \/ LockoutEnds \/ SuspensionEnds
  <2>1. At(q, "commit")
    BY <1>5 DEF CacheExpires, LockoutEnds, SuspensionEnds, At
  <2>2. user'.version = user.version
    BY <1>1, <1>5 DEF CacheExpires, LockoutEnds, SuspensionEnds, UpdateUser, Account
  <2> QED BY <1>2, <1>3, <2>1, <2>2
<1>6. CASE Restart
  BY <1>6, MayDo DEF Restart, At
<1>7. ASSUME NEW r \in Request, Arrive(r) \/ Proceed(r)
      PROVE  CanBump'
  <2>1. CASE ResetWrite(r)
    BY <2>1 DEF ResetWrite, CanBump
  <2>2. CASE ResetCommit(r)
    <3>1. At(r, "commit") /\ request' = [request EXCEPT ![r] = Idle] /\ lock = r
      BY <2>2 DEF ResetCommit, Becomes, IInv, BaseInv, ResetsAreNew
    <3>2. q # r => At(q, "commit")
      BY <1>1, <3>1 DEF At
    <3> QED BY <1>1, <1>2, <3>1, <3>2, MayDo DEF At
  <2>3. CASE ~ResetWrite(r) /\ ~ResetCommit(r)
    <3>1. PICK next : Becomes(r, next) /\ next.pc # "commit"
      <4>1. CASE \E t \in tokens, op \in Operation : Authenticate(r, t, op)
        <5>1. PICK t \in tokens, op \in Operation : Authenticate(r, t, op)
          BY <4>1
        <5>2. Admitted(op).pc # "commit"
          BY MayDo DEF Operation
        <5> QED BY <5>1, <5>2 DEF Authenticate
      <4>2. CASE LookUp(r)
        BY <4>2, MayDo DEF LookUp
      <4>3. CASE FillCache(r)
        <5>1. request[r].op \in Operation
          BY <1>1, <4>3, Knows DEF FillCache, At
        <5>2. Admitted(request[r].op).pc # "commit"
          BY <5>1, MayDo DEF Operation
        <5> QED BY <4>3, <5>2 DEF FillCache
      <4>4. \A grants : Invalidating(grants).pc # "commit"
        BY DEF Invalidating
      <4>5. CASE Login(r) \/ FortyTwoLogin(r) \/ Administrate(r)
        BY <4>4, <4>5 DEF Login, FortyTwoLogin, Administrate
      <4>6. CASE \E i \in ResetId : RequestReset(r, i) \/ ResetPassword(r, i)
        BY <4>6 DEF RequestReset, ResetPassword
      <4>7. CASE Invalidate(r) \/ LoginWrong(r) \/ LoginRight(r) \/ FortyTwoPromote(r) \/ FortyTwoAnswer(r)
        BY <4>4, <4>7, MayDo DEF Invalidate, LoginWrong, LoginRight, FortyTwoPromote, FortyTwoAnswer
      <4>8. CASE ChangePassword(r) \/ ChangeWrite(r) \/ StoreReset(r) \/ MailReset(r) \/ MailFails(r)
        BY <4>4, <4>8, MayDo DEF ChangePassword, ChangeWrite, StoreReset, MailReset, MailFails
      <4>9. CASE ResetRollback(r) \/ UpgradeGuest(r) \/ DeleteAccount(r) \/ DeleteWrite(r)
        BY <4>4, <4>9, MayDo DEF ResetRollback, UpgradeGuest, DeleteAccount, DeleteWrite
      <4>10. CASE UpgradeWrite(r)
        <5>1. Becomes(r, Idle) \/ \E p \in Password : Becomes(r, Invalidating({Token(user', p)}))
          BY <4>10 DEF UpgradeWrite
        <5> QED BY <4>4, <5>1, MayDo
      <4> QED BY <1>7, <2>3, <4>1, <4>2, <4>3, <4>5, <4>6, <4>7, <4>8, <4>9, <4>10 DEF Arrive, Proceed
    <3>2. At(q, "commit")
      BY <1>1, <3>1 DEF Becomes, At
    <3>3. lock # None => user' = user
      <4>1. ASSUME lock # None, NEW row, UpdateUser(row) PROVE FALSE
        BY <4>1 DEF UpdateUser, Writable
      <4>2. CASE Arrive(r)
        BY <4>1, <4>2 DEF Arrive, Authenticate, Login, FortyTwoLogin, Administrate, RequestReset,
                          ResetPassword
      <4>3. CASE LookUp(r) \/ FillCache(r) \/ Invalidate(r) \/ FortyTwoAnswer(r) \/ ChangePassword(r)
                 \/ MailReset(r) \/ ResetRollback(r) \/ UpgradeGuest(r) \/ DeleteAccount(r)
        BY <4>3 DEF LookUp, FillCache, Invalidate, FortyTwoAnswer, ChangePassword, MailReset,
                    ResetRollback, UpgradeGuest, DeleteAccount
      <4>4. CASE LoginWrong(r) \/ LoginRight(r) \/ FortyTwoPromote(r) \/ ChangeWrite(r)
                 \/ StoreReset(r) \/ MailFails(r) \/ DeleteWrite(r)
        BY <4>1, <4>4 DEF LoginWrong, LoginRight, FortyTwoPromote, ChangeWrite, StoreReset,
                          MailFails, DeleteWrite, Writable
      <4>5. CASE UpgradeWrite(r)
        BY <4>1, <4>5 DEF UpgradeWrite, Writable
      <4> QED BY <1>7, <2>3, <4>2, <4>3, <4>4, <4>5 DEF Proceed
    <3> QED BY <1>2, <1>3, <3>2, <3>3
  <2> QED BY <2>1, <2>2, <2>3
<1> QED BY <1>4, <1>5, <1>6, <1>7 DEF Next

-----------------------------------------------------------------------------
LEMMA InitHolds == Init => IInv
<1> SUFFICES ASSUME Init PROVE IInv
  OBVIOUS
<1> USE MayDo
<1>1. /\ lock = None /\ cache = None /\ resets = [i \in ResetId |-> "unmade"]
      /\ uses = [i \in ResetId |-> 0] /\ request = [r \in Request |-> Idle]
  BY DEF Init
<1>2. 0 \in Version /\ 0 \in 0 .. MAX_LOGIN_ATTEMPTS - 1
  BY VersionAssumption, AttemptsAssumption DEF Version
<1>3. /\ user \in Account /\ user.reset = None /\ user.version = 0
      /\ tokens \subseteq AccessToken /\ \A t \in tokens : Proven(t)
  <2>1. CASE Guest
    <3>1. user \in Account /\ user.reset = None /\ user.version = 0 /\ user.guest = TRUE
      BY <1>2, <2>1 DEF Guest, Row, Account, Status
    <3>2. /\ \A t \in tokens : t = [version |-> 0, proof |-> "guest"]
          /\ [version |-> 0, proof |-> "guest"] \in AccessToken
      BY <1>2, <2>1 DEF Guest, AccessToken
    <3> QED BY <3>1, <3>2 DEF Proven
  <2>2. CASE Registered
    BY <1>2, <2>2 DEF Registered, Row, Account, Status
  <2> QED BY <2>1, <2>2 DEF Init
<1>4. \A q \in Request : request[q].pc = "idle"
  BY <1>1
<1>5. request \in [Request -> Doing] /\ uses \in [ResetId -> Nat]
      /\ resets \in [ResetId -> {"unmade", "stored", "mailed"}]
  BY <1>1
<1>6. TypeOK
  BY <1>1, <1>3, <1>5, Typed
<1>7. TokensProven /\ EntriesAgree /\ CommitFits
  BY <1>1, <1>3, <1>4 DEF TokensProven, EntriesAgree, CommitFits, At
<1>8. ResetsAreNew
  BY <1>1, <1>3, <1>4, SomethingIsNone DEF ResetsAreNew, At
<1> QED BY <1>6, <1>7, <1>8 DEF IInv, BaseInv

LEMMA NextKeeps == IInv /\ [Next]_vars => IInv'
<1> SUFFICES ASSUME IInv, [Next]_vars PROVE BaseInv'
  BY CommitKeepsRoom DEF IInv
<1>1. BaseInv /\ CommitFits
  BY DEF IInv
<1>2. CASE UNCHANGED vars
  <2>1. UNCHANGED <<user, lock, cache, tokens, resets, uses, request>>
    BY <1>2 DEF vars
  <2>2. TypeOK'
    BY <1>1, <2>1 DEF BaseInv, TypeOK
  <2>3. TokensProven' /\ EntriesAgree'
    BY <1>1, <2>1 DEF BaseInv, TokensProven, EntriesAgree, Proven, Good, CanAuthenticate, At
  <2>4. ResetsAreNew'
    BY <1>1, <2>1 DEF BaseInv, ResetsAreNew, At
  <2> QED BY <2>2, <2>3, <2>4 DEF BaseInv
<1>3. ASSUME NEW r \in Request, Arrive(r) PROVE BaseInv'
  BY <1>1, <1>3, CacheKeeps, LoginKeeps, FortyTwoKeeps, AdministrationKeeps, MakingResetKeeps,
     UsingResetKeeps DEF Arrive
<1>4. ASSUME NEW r \in Request, Proceed(r) PROVE BaseInv'
  BY <1>1, <1>4, CacheKeeps, LoginKeeps, FortyTwoKeeps, OwnerKeeps, StoringResetKeeps,
     MailingResetKeeps, UsingResetKeeps, EndingResetKeeps DEF Proceed
<1> QED BY <1>1, <1>2, <1>3, <1>4, TimeKeeps, RestartKeeps DEF Next

LEMMA InvariantHolds == Spec => []IInv
BY InitHolds, NextKeeps, PTL DEF Spec

-----------------------------------------------------------------------------
\* The row, the cache and the requests keep their types: in particular, the count of wrong
\* passwords stays below the limit.
THEOREM TypeCorrect == Spec => []TypeOK
<1>1. IInv => TypeOK
  BY DEF IInv, BaseInv
<1> QED BY InvariantHolds, <1>1, PTL

\* However many lookups, bans and changes of role overlap, an entry of the row's version says
\* what the row says.
THEOREM CacheCorrect == Spec => []CurrentEntryAgrees
<1>1. IInv => CurrentEntryAgrees
  BY DEF IInv, BaseInv, EntriesAgree, Good, CurrentEntryAgrees
<1> QED BY InvariantHolds, <1>1, PTL

\* However many logins overlap however many changes of the password, no token outlives the
\* password it was given for.
THEOREM TokensCorrect == Spec => []LiveTokenIsProven
<1>1. IInv => LiveTokenIsProven
  BY DEF IInv, BaseInv, TokensProven, Proven, LiveTokenIsProven
<1> QED BY InvariantHolds, <1>1, PTL

\* A mailed reset token is good once, however many requests bring it.
THEOREM ResetsCorrect == Spec => []ResetOnce
<1>1. IInv => ResetOnce
  BY DEF IInv, BaseInv, ResetsAreNew, ResetOnce
<1> QED BY InvariantHolds, <1>1, PTL
=============================================================================
