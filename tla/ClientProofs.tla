---------------------------- MODULE ClientProofs ----------------------------
(***************************************************************************)
(* What the runs of ClientSession and DirectMessages check, for any number *)
(* of sessions, calls, conversations and messages.                         *)
(*                                                                         *)
(* Sessions: the guards of the code compare tokens, and what makes that    *)
(* enough is that a token is never given twice: a call that is under way   *)
(* when a session ends can never find its token stored again.              *)
(*                                                                         *)
(* The inbox: an event and a request under way hold what was so when they  *)
(* were sent or read (EventGood, CallGood), and that stays good, for time  *)
(* only goes on and what the friend has marked is not unmarked (Ages,      *)
(* LeftAlone).  Answers may overtake each other and be older than what     *)
(* they replace; none of them can show what never was.                     *)
(***************************************************************************)
EXTENDS ClientSession, DirectMessages, FiniteSetTheorems, SequenceTheorems, TLAPS

-----------------------------------------------------------------------------
(* A tab's sessions.                                                       *)

\* Tokens are in use only once they are issued.
Issued ==
  /\ {stored, auth, user, transport, handlers, effect} \subseteq (1 .. issued) \cup {None}
  /\ store \subseteq 1 .. issued
  /\ \A c \in calls : c.token \in (1 .. issued) \cup {None}

\* In a tab that has no session nobody is shown, and no load or save under way is of the token
\* that is stored.
NothingPending ==
  auth = None /\ ~revived =>
    /\ user = None
    /\ \A c \in calls : c.kind \in {"load", "save"} => c.token # stored

IInv == TypeOK /\ Issued /\ SocketIsOfSession /\ HoldsOwnDataOnly /\ NothingPending

-----------------------------------------------------------------------------
\* No step gives the two flags of the page another type.
LEMMA ViewKeeps == IInv /\ [Next]_vars => {loading', callback'} \subseteq BOOLEAN
<1> SUFFICES ASSUME IInv, [Next]_vars PROVE loading' \in BOOLEAN /\ callback' \in BOOLEAN
  OBVIOUS
<1>1. loading \in BOOLEAN /\ callback \in BOOLEAN
  BY DEF IInv, TypeOK
<1>2. CASE \E c \in calls : Answer(c)
  <2>1. PICK c \in calls : Answer(c)
    BY <1>2
  <2>2. CASE AuthInit(c) \/ LoginDone(c) \/ Fails(c)
    BY <1>1, <2>2 DEF AuthInit, LoginDone, Fails, LeavesCallback
  <2>3. CASE InitDone(c) \/ InitFails(c) \/ ClearSession(c) \/ Refused(c)
    BY <1>1, <2>3 DEF InitDone, InitFails, ClearSession, Refused
  <2>4. CASE RefreshDone(c) \/ LoadDone(c) \/ SaveDone(c)
    BY <1>1, <2>4 DEF RefreshDone, LoadDone, SaveDone, view
  <2> QED BY <2>1, <2>2, <2>3, <2>4 DEF Answer
<1>3. CASE Reload
  BY <1>3 DEF Reload
<1>4. CASE ~(\E c \in calls : Answer(c)) /\ ~Reload
  <2>1. view' = view
    BY <1>4 DEF Next, StartLogin, StartCallback, Logout, StartEnd, RefreshUser, Load, SaveProfile,
                SocketEffect, ReceiveEvent, ReceiveChat, OtherTabSignsIn, OtherTabSignsOut, vars
  <2> QED BY <1>1, <2>1 DEF view
<1> QED BY <1>2, <1>3, <1>4

\* What a change of the auth store does to a socket that is the session's.
LEMMA TeardownFollows ==
  ASSUME IInv, NEW token, NEW whose, SetAuth(token, whose)
  PROVE  /\ auth' = token /\ user' = whose /\ revived' = revived
         /\ store' = store \/ store' = {}
         /\ auth # token /\ ~revived => store' = {}
         /\ transport' = None \/ (transport' = transport /\ handlers' = handlers /\ auth = token)
         /\ {transport', handlers'} \subseteq {transport, handlers, None}
<1>1. CASE auth # None /\ auth # token
  BY <1>1 DEF SetAuth, Teardown, Disconnect
<1>2. CASE auth = None \/ auth = token
  <2>1. UNCHANGED <<store, transport, handlers>>
    BY <1>2 DEF SetAuth, Teardown
  <2>2. auth = None => transport = None
    BY DEF IInv, SocketIsOfSession
  <2>3. auth = None /\ ~revived => store = {}
    BY DEF IInv, HoldsOwnDataOnly
  <2> QED BY <1>2, <2>1, <2>2, <2>3 DEF SetAuth
<1> QED BY <1>1, <1>2

LEMMA InitHolds == Init => IInv
<1> SUFFICES ASSUME Init PROVE IInv
  OBVIOUS
<1> USE BoundAssumption, NoneIsNoToken DEF Init
<1>1. TypeOK
  <2>1. issued \in 0 .. MaxTokens
    OBVIOUS
  <2>2. {stored, auth, user, transport, handlers, effect} \subseteq Token \cup {None}
    OBVIOUS
  <2> QED BY <2>1, <2>2 DEF TypeOK
<1>2. Issued
  BY DEF Issued
<1>3. SocketIsOfSession /\ HoldsOwnDataOnly
  BY DEF SocketIsOfSession, HoldsOwnDataOnly
<1>4. NothingPending
  BY DEF NothingPending
<1> QED BY <1>1, <1>2, <1>3, <1>4 DEF IInv

-----------------------------------------------------------------------------
\* A call that is asked keeps its type; it asks with a token that is in use.
LEMMA AskKeeps ==
  ASSUME IInv, NEW kind \in Kind, NEW token, Ask(kind, token),
         kind \in Tokenless \/ token # None,
         token \in {stored, auth, None}
  PROVE  /\ calls' \subseteq [kind : Kind \ Tokenless, token : Token]
                       \cup [kind : Tokenless, token : Token \cup {None}]
         /\ \A c \in calls' : c.token \in (1 .. issued) \cup {None}
<1>1. token \in Token \cup {None} /\ token \in (1 .. issued) \cup {None}
  BY DEF IInv, TypeOK, Issued
<1>2. [kind |-> kind, token |-> token] \in [kind : Kind \ Tokenless, token : Token]
                                           \cup [kind : Tokenless, token : Token \cup {None}]
  BY <1>1
<1>3. calls' = calls \cup {[kind |-> kind, token |-> token]}
  BY DEF Ask
<1>4. calls \subseteq [kind : Kind \ Tokenless, token : Token]
                   \cup [kind : Tokenless, token : Token \cup {None}]
  BY DEF IInv, TypeOK
<1>5. \A c \in calls : c.token \in (1 .. issued) \cup {None}
  BY DEF IInv, Issued
<1> QED BY <1>1, <1>2, <1>3, <1>4, <1>5

\* The invariant when the auth store changes to a token in use, or to none with the stored one.
LEMMA SetAuthKeeps ==
  ASSUME IInv, NEW token \in (1 .. issued') \cup {None}, NEW whose \in {token},
         SetAuth(token, whose),
         calls' \subseteq calls,
         \/ issued' = issued /\ stored' = stored /\ token # None
         \/ issued' = issued /\ stored' = None /\ token = None
         \/ issued' = issued + 1 /\ issued < MaxTokens /\ stored' = issued' /\ token = issued',
         effect' = effect, {loading', callback'} \subseteq BOOLEAN
  PROVE  IInv'
<1> USE BoundAssumption, NoneIsNoToken
<1>1. /\ auth' = token /\ user' = token /\ revived' = revived
      /\ store' = store \/ store' = {}
      /\ auth # token /\ ~revived => store' = {}
      /\ transport' = None \/ (transport' = transport /\ handlers' = handlers /\ auth = token)
      /\ {transport', handlers'} \subseteq {transport, handlers, None}
  BY TeardownFollows
<1>2. issued \in Nat /\ issued' \in Nat /\ issued <= issued' /\ issued' <= MaxTokens
  BY DEF IInv, TypeOK
<1>3. TypeOK'
  <2>1. {stored', auth', user', transport', handlers', effect'} \subseteq Token \cup {None}
    BY <1>1, <1>2 DEF IInv, TypeOK, Token
  <2>2. store' \subseteq Token /\ revived' \in BOOLEAN
    BY <1>1 DEF IInv, TypeOK
  <2>3. calls' \subseteq [kind : Kind \ Tokenless, token : Token]
                     \cup [kind : Tokenless, token : Token \cup {None}]
    BY DEF IInv, TypeOK
  <2> QED BY <1>2, <2>1, <2>2, <2>3 DEF TypeOK
<1>4. Issued'
  <2>1. {stored', auth', user', transport', handlers', effect'} \subseteq (1 .. issued') \cup {None}
    <3>1. \A t \in (1 .. issued) \cup {None} : t \in (1 .. issued') \cup {None}
      BY <1>2
    <3>2. stored' \in (1 .. issued') \cup {None}
      <4>1. stored \in (1 .. issued') \cup {None}
        BY <3>1 DEF IInv, Issued
      <4>2. issued' = issued + 1 => issued' \in 1 .. issued'
        BY <1>2
      <4> QED BY <4>1, <4>2
    <3>3. {transport', handlers', effect'} \subseteq (1 .. issued') \cup {None}
      BY <1>1, <3>1 DEF IInv, Issued
    <3> QED BY <1>1, <3>2, <3>3
  <2>2. store' \subseteq 1 .. issued'
    <3>1. \A t \in 1 .. issued : t \in 1 .. issued'
      BY <1>2
    <3> QED BY <1>1, <3>1 DEF IInv, Issued
  <2>3. \A c \in calls' : c.token \in (1 .. issued') \cup {None}
    BY <1>2 DEF IInv, Issued
  <2> QED BY <2>1, <2>2, <2>3 DEF Issued
<1>5. SocketIsOfSession'
  BY <1>1 DEF IInv, SocketIsOfSession
<1>6. HoldsOwnDataOnly'
  <2>1. CASE auth # token
    BY <1>1, <2>1 DEF HoldsOwnDataOnly
  <2>2. CASE auth = token /\ issued' = issued
    BY <1>1, <2>2 DEF IInv, HoldsOwnDataOnly
  <2>3. CASE auth = token /\ issued' = issued + 1
    BY <1>2, <2>3 DEF IInv, Issued
  <2> QED BY <2>1, <2>2, <2>3
<1>7. NothingPending'
  <2> SUFFICES ASSUME token = None
               PROVE  user' = None /\ \A c \in calls' : c.kind \in {"load", "save"} => c.token # stored'
    BY <1>1 DEF NothingPending
  <2>1. stored' = None
    BY <1>2
  <2>2. \A c \in calls' : c.kind \in {"load", "save"} => c.token \in Token
    BY DEF IInv, TypeOK, Tokenless
  <2> QED BY <1>1, <2>1, <2>2 DEF Token
<1> QED BY <1>3, <1>4, <1>5, <1>6, <1>7 DEF IInv

-----------------------------------------------------------------------------
\* The invariant when only the calls change, some answered and some asked.
LEMMA CallsKeep ==
  ASSUME IInv, UNCHANGED <<session, page, socket>>, {loading', callback'} \subseteq BOOLEAN,
         calls' \subseteq [kind : Kind \ Tokenless, token : Token]
                     \cup [kind : Tokenless, token : Token \cup {None}],
         \A c \in calls' : c.token \in (1 .. issued) \cup {None},
         \A c \in calls' : c.kind \in {"load", "save"} => c \in calls \/ user # None \/ transport # None
  PROVE  IInv'
<1>1. UNCHANGED <<issued, stored, auth, user, store, revived, transport, handlers, effect>>
  BY DEF session, page, socket
<1>2. TypeOK'
  BY <1>1 DEF IInv, TypeOK
<1>3. Issued'
  BY <1>1 DEF IInv, Issued
<1>4. SocketIsOfSession' /\ HoldsOwnDataOnly'
  BY <1>1 DEF IInv, SocketIsOfSession, HoldsOwnDataOnly
<1>5. NothingPending'
  BY <1>1 DEF IInv, NothingPending, SocketIsOfSession
<1> QED BY <1>2, <1>3, <1>4, <1>5 DEF IInv

\* The same for an action that only asks.
LEMMA OnlyAsks ==
  ASSUME IInv, NEW kind \in Kind, NEW token, Ask(kind, token),
         kind \in Tokenless \/ token # None,
         token \in {stored, auth, None},
         kind \in {"load", "save"} => user # None,
         UNCHANGED <<session, page, socket>>, {loading', callback'} \subseteq BOOLEAN
  PROVE  IInv'
<1>1. /\ calls' \subseteq [kind : Kind \ Tokenless, token : Token]
                       \cup [kind : Tokenless, token : Token \cup {None}]
      /\ \A c \in calls' : c.token \in (1 .. issued) \cup {None}
  BY AskKeeps
<1>2. \A c \in calls' : c.kind \in {"load", "save"} => c \in calls \/ user # None
  BY DEF Ask
<1> HIDE DEF Ask
<1> QED BY <1>1, <1>2, CallsKeep

\* The same for one that only takes an answer.
LEMMA OnlyAnswers ==
  ASSUME IInv, NEW c \in calls, Answered(c), UNCHANGED <<session, page, socket>>,
         {loading', callback'} \subseteq BOOLEAN
  PROVE  IInv'
<1>1. calls' \subseteq calls
  BY DEF Answered
<1>2. /\ calls' \subseteq [kind : Kind \ Tokenless, token : Token]
                       \cup [kind : Tokenless, token : Token \cup {None}]
      /\ \A d \in calls' : d.token \in (1 .. issued) \cup {None}
  BY <1>1 DEF IInv, TypeOK, Issued
<1> QED BY <1>1, <1>2, CallsKeep

\* Every answer, however late, keeps the invariant.
LEMMA AnswerKeeps ==
  ASSUME IInv, NEW c \in calls, Answer(c), {loading', callback'} \subseteq BOOLEAN
  PROVE  IInv'
<1> USE BoundAssumption, NoneIsNoToken
<1>1. /\ c.kind \in Kind /\ c.token \in Token \cup {None}
      /\ c.token \in (1 .. issued) \cup {None}
      /\ c.kind \notin Tokenless => c.token # None
  BY DEF IInv, TypeOK, Issued, Kind, Tokenless, Token
<1>2. Answered(c) => calls' \subseteq calls
  BY DEF Answered
<1>3. CASE AuthInit(c)
  <2> DEFINE d == [kind |-> "init", token |-> stored]
  <2>1. UNCHANGED <<session, page, socket>>
    BY <1>3 DEF AuthInit
  <2>2. \A e \in calls' : e \in calls \/ (e = d /\ stored # None)
    BY <1>3 DEF AuthInit, HasStoredToken
  <2>3. stored # None => d \in [kind : Kind \ Tokenless, token : Token]
    BY DEF IInv, TypeOK, Kind, Tokenless
  <2>4. /\ calls' \subseteq [kind : Kind \ Tokenless, token : Token]
                         \cup [kind : Tokenless, token : Token \cup {None}]
        /\ \A e \in calls' : e.token \in (1 .. issued) \cup {None}
    BY <2>2, <2>3 DEF IInv, TypeOK, Issued
  <2>5. \A e \in calls' : e.kind \in {"load", "save"} => e \in calls
    BY <2>2
  <2> QED BY <2>1, <2>4, <2>5, CallsKeep
<1>4. CASE LoginDone(c)
  <2>1. issued' = issued + 1 /\ issued < MaxTokens /\ stored' = issued' /\ effect' = effect
    BY <1>4 DEF LoginDone
  <2>2. issued' \in (1 .. issued') \cup {None}
    BY <2>1 DEF IInv, TypeOK
  <2>3. SetAuth(issued', issued') /\ calls' \subseteq calls
    BY <1>2, <1>4 DEF LoginDone
  <2> QED BY <2>1, <2>2, <2>3, SetAuthKeeps
<1>5. CASE InitDone(c) \/ RefreshDone(c)
  <2>1. /\ SetAuth(c.token, c.token) /\ calls' \subseteq calls
        /\ issued' = issued /\ stored' = stored /\ effect' = effect
    BY <1>2, <1>5 DEF InitDone, RefreshDone, session
  <2>2. c.token # None /\ c.token \in (1 .. issued') \cup {None}
    BY <1>1, <1>5, <2>1 DEF InitDone, RefreshDone, Tokenless
  <2> QED BY <2>1, <2>2, SetAuthKeeps
<1>6. CASE InitFails(c) \/ ClearSession(c)
  <2>1. /\ SetAuth(None, None) /\ calls' \subseteq calls
        /\ issued' = issued /\ stored' = None /\ effect' = effect
    BY <1>2, <1>6 DEF InitFails, ClearSession, SignedOut
  <2> QED BY <2>1, SetAuthKeeps
<1>7. CASE Refused(c)
  <2>1. CASE Expires(c) \/ c.kind = "init"
    <3>1. /\ SetAuth(None, None) /\ calls' \subseteq calls
          /\ issued' = issued /\ stored' = None /\ effect' = effect
      BY <1>2, <1>7, <2>1 DEF Refused, SignedOut
    <3> QED BY <3>1, SetAuthKeeps
  <2>2. CASE ~(Expires(c) \/ c.kind = "init")
    <3>1. Answered(c) /\ UNCHANGED <<session, page, socket>>
      BY <1>7, <2>2 DEF Refused, session, socket
    <3> QED BY <3>1, OnlyAnswers
  <2> QED BY <2>1, <2>2
<1>8. CASE Fails(c)
  BY <1>8, OnlyAnswers DEF Fails
<1>9. CASE LoadDone(c)
  <2>1. /\ UNCHANGED <<issued, stored, auth, user, revived, transport, handlers, effect>>
        /\ calls' \subseteq calls /\ c.kind = "load"
        /\ store' = IF stored = c.token THEN store \cup {c.token} ELSE store
    BY <1>2, <1>9 DEF LoadDone, IsActiveToken, session, socket
  <2>2. c.token # None
    BY <1>1, <2>1 DEF Tokenless
  <2>3. TypeOK'
    BY <1>1, <2>1, <2>2 DEF IInv, TypeOK
  <2>4. Issued'
    BY <1>1, <2>1, <2>2 DEF IInv, Issued
  <2>5. SocketIsOfSession' /\ NothingPending'
    BY <2>1 DEF IInv, SocketIsOfSession, NothingPending
  <2>6. HoldsOwnDataOnly'
    BY <2>1 DEF IInv, HoldsOwnDataOnly, NothingPending
  <2> QED BY <2>3, <2>4, <2>5, <2>6 DEF IInv
<1>10. CASE SaveDone(c)
  <2>1. /\ UNCHANGED <<issued, stored, auth, transport, handlers, effect>>
        /\ calls' \subseteq calls /\ c.kind = "save"
        /\ user' = c.token /\ revived' = (revived \/ auth = None)
        /\ store' = IF stored = c.token THEN store \cup {c.token} ELSE store
    BY <1>2, <1>10 DEF SaveDone, IsActiveToken, session, socket
  <2>2. c.token # None
    BY <1>1, <2>1 DEF Tokenless
  <2>3. TypeOK'
    <3>1. revived' \in BOOLEAN
      BY <2>1
    <3>2. store' \subseteq Token /\ user' \in Token
      BY <1>1, <2>1, <2>2 DEF IInv, TypeOK
    <3> QED BY <2>1, <3>1, <3>2 DEF IInv, TypeOK
  <2>4. Issued'
    BY <1>1, <2>1, <2>2 DEF IInv, Issued
  <2>5. SocketIsOfSession'
    BY <2>1 DEF IInv, SocketIsOfSession
  <2>6. HoldsOwnDataOnly' /\ NothingPending'
    BY <2>1 DEF IInv, HoldsOwnDataOnly, NothingPending
  <2> QED BY <2>3, <2>4, <2>5, <2>6 DEF IInv
<1> QED BY <1>3, <1>4, <1>5, <1>6, <1>7, <1>8, <1>9, <1>10 DEF Answer

\* Every step keeps the invariant.
LEMMA NextKeeps == IInv /\ [Next]_vars => IInv'
<1> SUFFICES ASSUME IInv, [Next]_vars PROVE IInv'
  OBVIOUS
<1> USE BoundAssumption, NoneIsNoToken
<1>0. {loading', callback'} \subseteq BOOLEAN
  BY ViewKeeps
<1>1. CASE \E c \in calls : Answer(c)
  BY <1>0, <1>1, AnswerKeeps
<1>2. CASE Reload
  <2>1. /\ issued' = issued /\ stored' = stored /\ auth' = stored /\ user' = None
        /\ store' = {} /\ revived' = FALSE
        /\ transport' = None /\ handlers' = None /\ effect' = None
        /\ calls' = {[kind |-> "boot", token |-> stored]}
    BY <1>2 DEF Reload, session
  <2>2. [kind |-> "boot", token |-> stored] \in [kind : Tokenless, token : Token \cup {None}]
    BY DEF IInv, TypeOK, Tokenless
  <2>3. TypeOK'
    <3>1. calls' \subseteq [kind : Kind \ Tokenless, token : Token]
                       \cup [kind : Tokenless, token : Token \cup {None}]
      BY <2>1, <2>2
    <3> QED BY <1>0, <2>1, <3>1 DEF IInv, TypeOK
  <2>4. Issued'
    BY <2>1 DEF IInv, Issued
  <2>5. SocketIsOfSession' /\ HoldsOwnDataOnly' /\ NothingPending'
    BY <2>1 DEF SocketIsOfSession, HoldsOwnDataOnly, NothingPending
  <2> QED BY <2>3, <2>4, <2>5 DEF IInv
<1>3. CASE StartLogin \/ StartCallback
  <2>1. UNCHANGED <<session, page, socket>>
    BY <1>3 DEF StartLogin, StartCallback
  <2>2. \E kind \in Tokenless : Ask(kind, None)
    BY <1>3 DEF StartLogin, StartCallback, Tokenless
  <2>3. \A kind \in Tokenless : kind \in Kind /\ kind \notin {"load", "save"}
    BY DEF Tokenless, Kind
  <2> QED BY <2>1, <2>2, <2>3, <1>0, OnlyAsks
<1>4. CASE Logout
  <2>1. /\ SetAuth(None, None) /\ calls' \subseteq calls
        /\ issued' = issued /\ stored' = None /\ effect' = effect
    BY <1>4 DEF Logout, SignedOut
  <2> QED BY <2>1, <1>0, SetAuthKeeps
<1>5. CASE StartEnd \/ RefreshUser \/ SaveProfile
  <2>1. user # None /\ UNCHANGED <<session, page, socket>>
    BY <1>5 DEF StartEnd, RefreshUser, SaveProfile, SignedIn
  <2>2. ActiveToken # None /\ ActiveToken \in {stored, auth, None}
    BY <1>5 DEF StartEnd, RefreshUser, SaveProfile, ActiveToken
  <2>3. \E kind \in Kind : Ask(kind, ActiveToken)
    BY <1>5 DEF StartEnd, RefreshUser, SaveProfile, Kind
  <2> QED BY <2>1, <2>2, <2>3, <1>0, OnlyAsks
<1>6. CASE Load
  <2>1. user # None /\ UNCHANGED <<session, page, socket>>
    BY <1>6 DEF Load, SignedIn
  <2>2. PICK token \in {stored, auth} \ {None} : Ask("load", token)
    BY <1>6 DEF Load
  <2> QED BY <2>1, <2>2, <1>0, OnlyAsks DEF Kind
<1>7. CASE SocketEffect
  <2>1. /\ effect' = auth /\ transport' = auth /\ handlers' = auth
        /\ UNCHANGED <<issued, stored, auth, user, store, revived, calls>>
    BY <1>7 DEF SocketEffect, session, page
  <2>2. TypeOK'
    BY <1>0, <2>1 DEF IInv, TypeOK
  <2>3. Issued'
    BY <2>1 DEF IInv, Issued
  <2>4. SocketIsOfSession' /\ HoldsOwnDataOnly' /\ NothingPending'
    BY <2>1 DEF IInv, SocketIsOfSession, HoldsOwnDataOnly, NothingPending
  <2> QED BY <2>2, <2>3, <2>4 DEF IInv
<1>8. CASE ReceiveEvent \/ ReceiveChat
  <2>1. /\ transport # None /\ store' = store \cup {transport}
        /\ UNCHANGED <<issued, stored, auth, user, revived, transport, handlers, effect>>
    BY <1>8 DEF ReceiveEvent, ReceiveChat, session, socket
  <2>2. auth = transport
    BY <2>1 DEF IInv, SocketIsOfSession
  <2>3. /\ calls' \subseteq [kind : Kind \ Tokenless, token : Token]
                         \cup [kind : Tokenless, token : Token \cup {None}]
        /\ \A c \in calls' : c.token \in (1 .. issued) \cup {None}
    <3>1. CASE ReceiveEvent
      BY <3>1 DEF ReceiveEvent, IInv, TypeOK, Issued
    <3>2. CASE ReceiveChat
      <4>1. Ask("load", stored) /\ stored # None
        BY <3>2 DEF ReceiveChat
      <4> QED BY <4>1, AskKeeps DEF Kind
    <3> QED BY <1>8, <3>1, <3>2
  <2>4. transport \in Token /\ transport \in 1 .. issued
    BY <1>0, <2>1 DEF IInv, TypeOK, Issued
  <2>5. TypeOK'
    BY <1>0, <2>1, <2>3, <2>4 DEF IInv, TypeOK
  <2>6. Issued'
    BY <2>1, <2>3, <2>4 DEF IInv, Issued
  <2>7. SocketIsOfSession' /\ HoldsOwnDataOnly' /\ NothingPending'
    BY <2>1, <2>2 DEF IInv, SocketIsOfSession, HoldsOwnDataOnly, NothingPending
  <2> QED BY <2>5, <2>6, <2>7 DEF IInv
<1>9. CASE OtherTabSignsIn
  <2>1. /\ issued < MaxTokens /\ issued' = issued + 1 /\ stored' = issued'
        /\ UNCHANGED <<auth, user, store, revived, calls, transport, handlers, effect>>
    BY <1>9 DEF OtherTabSignsIn, page, socket
  <2>2. issued \in Nat /\ issued' \in Nat
    BY <1>0, <2>1 DEF IInv, TypeOK
  <2>3. \A t \in (1 .. issued) \cup {None} : t \in (1 .. issued') \cup {None} /\ t # stored'
    BY <2>1, <2>2
  <2>4. TypeOK'
    BY <1>0, <2>1, <2>2 DEF IInv, TypeOK, Token
  <2>5. Issued'
    <3>1. \A t \in 1 .. issued : t \in 1 .. issued'
      BY <2>1, <2>2
    <3>2. stored' \in 1 .. issued'
      BY <2>1, <2>2
    <3>3. {auth', user', transport', handlers', effect'} \subseteq (1 .. issued') \cup {None}
      BY <2>1, <2>3 DEF IInv, Issued
    <3>4. store' \subseteq 1 .. issued'
      BY <2>1, <3>1 DEF IInv, Issued
    <3>5. \A c \in calls' : c.token \in (1 .. issued') \cup {None}
      BY <2>1, <2>3 DEF IInv, Issued
    <3> QED BY <3>2, <3>3, <3>4, <3>5 DEF Issued
  <2>6. SocketIsOfSession'
    BY <2>1 DEF IInv, SocketIsOfSession
  <2>7. HoldsOwnDataOnly' /\ NothingPending'
    <3>1. auth \in (1 .. issued) \cup {None} /\ \A c \in calls : c.token \in (1 .. issued) \cup {None}
      BY DEF IInv, Issued
    <3>2. auth' # stored' /\ \A c \in calls' : c.token # stored'
      BY <2>1, <2>3, <3>1
    <3> QED BY <2>1, <3>2 DEF IInv, HoldsOwnDataOnly, NothingPending
  <2> QED BY <2>4, <2>5, <2>6, <2>7 DEF IInv
<1>10. CASE OtherTabSignsOut
  <2>1. /\ stored' = None
        /\ UNCHANGED <<issued, auth, user, store, revived, calls, transport, handlers, effect>>
    BY <1>10 DEF OtherTabSignsOut, page, socket
  <2>2. TypeOK'
    BY <1>0, <2>1 DEF IInv, TypeOK
  <2>3. Issued'
    BY <2>1 DEF IInv, Issued
  <2>4. SocketIsOfSession' /\ HoldsOwnDataOnly'
    BY <2>1 DEF IInv, SocketIsOfSession, HoldsOwnDataOnly
  <2>5. NothingPending'
    <3>1. \A c \in calls : c.kind \in {"load", "save"} => c.token \in Token
      BY DEF IInv, TypeOK, Tokenless
    <3> QED BY <2>1, <3>1 DEF IInv, NothingPending, Token
  <2> QED BY <2>2, <2>3, <2>4, <2>5 DEF IInv
<1>11. CASE UNCHANGED vars
  <2>1. UNCHANGED <<issued, stored, auth, user, store, revived, calls, transport, handlers, effect>>
    BY <1>11 DEF vars, session, page, socket
  <2>2. TypeOK' /\ Issued'
    BY <1>0, <2>1 DEF IInv, TypeOK, Issued
  <2>3. SocketIsOfSession' /\ HoldsOwnDataOnly' /\ NothingPending'
    BY <2>1 DEF IInv, SocketIsOfSession, HoldsOwnDataOnly, NothingPending
  <2> QED BY <2>2, <2>3 DEF IInv
<1> QED BY <1>1, <1>2, <1>3, <1>4, <1>5, <1>6, <1>7, <1>8, <1>9, <1>10, <1>11 DEF Next

LEMMA InvariantHolds == Spec => []IInv
BY InitHolds, NextKeeps, PTL DEF Spec

-----------------------------------------------------------------------------
\* Every variable of the tab keeps its type.
THEOREM TypeCorrect == Spec => []TypeOK
<1>1. IInv => TypeOK
  BY DEF IInv
<1> QED BY InvariantHolds, <1>1, PTL

\* No step opens a socket that is not the session's, and every change of session closes it.
THEOREM SocketSafe == Spec => []SocketIsOfSession
<1>1. IInv => SocketIsOfSession
  BY DEF IInv
<1> QED BY InvariantHolds, <1>1, PTL

\* The teardown and the guards keep every other session's data out of the tab of the session
\* that is stored, for any number of sessions, calls and other tabs.
THEOREM OwnDataOnly == Spec => []HoldsOwnDataOnly
<1>1. IInv => HoldsOwnDataOnly
  BY DEF IInv
<1> QED BY InvariantHolds, <1>1, PTL

\* A late answer to a load is without effect, whichever answer it is and whatever session the
\* tab is in by then.
THEOREM LateLoadsHarmless == Spec => LateLoadsChangeNothing
<1>1. ASSUME IInv, [Next]_vars, NEW d \in calls \ calls',
             d.kind = "load", d.token \notin {auth, stored}, Booted'
      PROVE  UNCHANGED <<stored, auth, user, store>>
  <2>1. CASE \E c \in calls : Answer(c)
    <3>1. PICK c \in calls : Answer(c)
      BY <2>1
    <3>2. c = d
      BY <1>1, <3>1 DEF Answer, Answered, AuthInit, LoginDone, InitDone, InitFails, RefreshDone,
                        ClearSession, LoadDone, SaveDone, Refused, Fails
    <3>3. CASE LoadDone(c)
      BY <1>1, <3>2, <3>3 DEF LoadDone, IsActiveToken, session
    <3>4. CASE Refused(c)
      BY <1>1, <3>2, <3>4 DEF Refused, Expires, page
    <3>5. CASE Fails(c)
      BY <3>5 DEF Fails, session, page
    <3>6. LoadDone(c) \/ Refused(c) \/ Fails(c)
      BY <1>1, <3>1, <3>2 DEF Answer, AuthInit, LoginDone, InitDone, InitFails, RefreshDone,
                              ClearSession, SaveDone
    <3> QED BY <3>3, <3>4, <3>5, <3>6
  <2>2. CASE Reload
    BY <1>1, <2>2 DEF Reload, Booted
  <2>3. ~(\E c \in calls : Answer(c)) /\ ~Reload => calls \subseteq calls'
    BY <1>1 DEF Next, StartLogin, StartCallback, Logout, StartEnd, RefreshUser, Load, SaveProfile,
                SocketEffect, ReceiveEvent, ReceiveChat, OtherTabSignsIn, OtherTabSignsOut, Ask, vars
  <2> QED BY <1>1, <2>1, <2>2, <2>3
<1>2. IInv /\ [Next]_vars => [LateLoadIsIgnored]_vars
  BY <1>1 DEF LateLoadIsIgnored
<1> QED BY InvariantHolds, <1>2, PTL DEF Spec, LateLoadsChangeNothing

-----------------------------------------------------------------------------
(* The inbox: what its events and requests hold.                           *)

\* A function on the conversations.
OfEach(f) == f = [c \in Conversation |-> f[c]]

\* A request that writes the cursors one by one.
MarksAll(x) == x = [pc |-> "markAllWrite", times |-> x.times, left |-> x.left]

\* The time of each conversation.
Clock == [c \in Conversation |-> Now(c)]

\* The cursors of a row, as it is or was read: mine is no later than now, the friend's no later
\* than what it has marked.
CursorsGood(row, now, mark) == row \in [me : 0 .. now, friend : 0 .. mark]

\* An entry of the list shows the friend's cursor of some time.
EntryGood(e, mark) == e \in [listed : BOOLEAN, unread : Nat, friendReadAt : 0 .. mark]

\* A thread has messages of its conversation, each once, as many as fit.
ThreadGood(s, now) == s \in Seq(1 .. now) /\ Len(s) <= ThreadLimit /\ IsInjective(s)

Event == [type : {"private_message", "conversation_read", "typing", "stop_typing"},
          conv : Conversation, at : Nat]

\* An event on the way is about something that has happened.
EventGood(e, clock, marks) ==
  /\ e \in Event
  /\ e.type = "private_message" => e.at \in 1 .. clock[e.conv]
  /\ e.type = "conversation_read" => e.at \in 0 .. marks[e.conv]

Talking == {"open", "openWrite", "mark", "markWrite", "thread", "refresh", "answer",
            "ensure", "found", "ensured"}

\* What a request under way has read was so when it was read.
CallGood(x, clock, marks) ==
  /\ x.pc \in Talking => x.conv \in Conversation
  /\ x.pc \in {"openWrite", "markWrite"} => x.at \in 0 .. clock[x.conv]
  /\ x.pc = "count" => \A c \in Conversation : CursorsGood(x.rows[c], clock[c], marks[c])
  /\ x.pc = "listed" => /\ OfEach(x.entries)
                        /\ \A c \in Conversation : EntryGood(x.entries[c], marks[c])
  /\ x.pc = "found" => CursorsGood(x.row, clock[x.conv], marks[x.conv])
  /\ x.pc \in {"ensured", "answer"} => EntryGood(x.entry, marks[x.conv])
  /\ x.pc \in {"refresh", "answer"} => ThreadGood(x.messages, clock[x.conv])
  /\ x.pc = "markAllWrite" =>
       /\ MarksAll(x)
       /\ x.left \subseteq Conversation
       /\ \A c \in Conversation : x.times[c] \in 0 .. clock[c]

SentBy(c, who) == {n \in Messages(c) : written[c][n] = who}

RowsGood ==
  /\ written \in [Conversation -> Seq(Sender)]
  /\ OfEach(readAt)
  /\ marked \in [Conversation -> Nat]
  /\ \A c \in Conversation :
       /\ CursorsGood(readAt[c], Now(c), marked[c])
       /\ marked[c] <= Now(c)
       /\ \A who \in Sender : Cardinality(SentBy(c, who)) <= MaxMessage[c]
  /\ \A m \in uncommitted : m[1] \in Conversation /\ m[2] \in Messages(m[1])

EventsGood ==
  /\ pending \in Seq(Event) /\ Len(pending) <= MaxPending
  /\ \A i \in 1 .. Len(pending) : EventGood(pending[i], Clock, marked)

ListGood ==
  /\ OfEach(entry)
  /\ \A c \in Conversation : EntryGood(entry[c], marked[c])

ThreadsGood ==
  /\ OfEach(thread)
  /\ \A c \in Conversation : ThreadGood(thread[c], Now(c))

TypingGood ==
  /\ typing \in Seq(Conversation) /\ Len(typing) <= TypingLimit
  /\ TypingIsTimed

CallsGood ==
  /\ call = [k \in Call |-> call[k]]
  /\ \A k \in Call : CallGood(call[k], Clock, marked)

InboxInv ==
  /\ RowsGood /\ EventsGood /\ ListGood /\ ThreadsGood /\ TypingGood /\ CallsGood
  /\ active \in Conversation \cup {NoConversation}

-----------------------------------------------------------------------------
(* Lists without duplicates.                                               *)

\* A part of a list has its elements, and none twice.
LEMMA PartOfList ==
  ASSUME NEW S, NEW s \in Seq(S), IsInjective(s), NEW m \in 1 .. Len(s) + 1,
         NEW n \in m - 1 .. Len(s)
  PROVE  /\ SubSeq(s, m, n) \in Seq(S)
         /\ Len(SubSeq(s, m, n)) = n - m + 1
         /\ \A i \in 1 .. n - m + 1 : SubSeq(s, m, n)[i] = s[m + i - 1]
         /\ IsInjective(SubSeq(s, m, n))
<1> DEFINE t == SubSeq(s, m, n)
<1>1. Len(s) \in Nat /\ DOMAIN s = 1 .. Len(s)
  BY LenProperties
<1>2. m \in Int /\ n \in Int /\ n - m + 1 \in Nat
  BY <1>1
<1>3. \A i \in m .. n : s[i] \in S
  BY <1>1, ElementOfSeq
<1>4. /\ t \in Seq(S)
      /\ Len(t) = IF m <= n THEN n - m + 1 ELSE 0
      /\ \A i \in 1 .. n - m + 1 : t[i] = s[m + i - 1]
  BY <1>2, <1>3, SubSeqProperties
<1> HIDE DEF t
<1>5. Len(t) = n - m + 1
  BY <1>2, <1>4
<1>6. DOMAIN t = 1 .. n - m + 1
  BY <1>4, <1>5, LenProperties
<1>7. ASSUME NEW i \in 1 .. n - m + 1, NEW j \in 1 .. n - m + 1, t[i] = t[j] PROVE i = j
  <2>1. m + i - 1 \in 1 .. Len(s) /\ m + j - 1 \in 1 .. Len(s)
    BY <1>1, <1>2
  <2>2. s[m + i - 1] = s[m + j - 1]
    BY <1>4, <1>7
  <2>3. m + i - 1 = m + j - 1
    BY <1>1, <2>1, <2>2 DEF IsInjective
  <2>4. QED BY <1>2, <2>3
<1>8. IsInjective(t)
  BY <1>6, <1>7 DEF IsInjective
<1>9. QED BY <1>4, <1>5, <1>8 DEF t

LEMMA NewestKeeps ==
  ASSUME NEW S, NEW s \in Seq(S), IsInjective(s)
  PROVE  Newest(s) \in Seq(S) /\ Len(Newest(s)) <= ThreadLimit /\ IsInjective(Newest(s))
<1> DEFINE m == IF Len(s) > ThreadLimit THEN Len(s) - ThreadLimit + 1 ELSE 1
<1>1. Len(s) \in Nat /\ ThreadLimit \in Nat \ {0}
  BY LenProperties, LimitsAssumption
<1>2. m \in 1 .. Len(s) + 1 /\ Len(s) \in m - 1 .. Len(s)
  BY <1>1
<1>3. Len(s) - m + 1 <= ThreadLimit
  BY <1>1
<1>4. Newest(s) = SubSeq(s, m, Len(s))
  BY DEF Newest
<1> HIDE DEF m
<1>5. QED BY <1>1, <1>2, <1>3, <1>4, PartOfList

\* A list that grows by what it has not.
LEMMA GrownList ==
  ASSUME NEW S, NEW s \in Seq(S), IsInjective(s), NEW e \in S, e \notin Range(s)
  PROVE  /\ Append(s, e) \in Seq(S) /\ Len(Append(s, e)) = Len(s) + 1
         /\ Range(Append(s, e)) = Range(s) \cup {e}
         /\ IsInjective(Append(s, e))
<1> DEFINE t == Append(s, e)
<1>1. Len(s) \in Nat /\ DOMAIN s = 1 .. Len(s)
  BY LenProperties
<1>2. /\ t \in Seq(S) /\ Len(t) = Len(s) + 1
      /\ \A i \in 1 .. Len(s) : t[i] = s[i]
      /\ t[Len(s) + 1] = e
  BY AppendProperties
<1> HIDE DEF t
<1>3. DOMAIN t = 1 .. Len(s) + 1
  BY <1>2, LenProperties
<1>4. \A i \in 1 .. Len(s) : s[i] # e
  BY <1>1 DEF Range
<1>5. IsInjective(t)
  BY <1>1, <1>2, <1>3, <1>4 DEF IsInjective
<1>6. Range(t) = Range(s) \cup {e}
  BY <1>1, <1>2, <1>3 DEF Range
<1>7. QED BY <1>2, <1>5, <1>6 DEF t

LEMMA AppendedKeeps ==
  ASSUME NEW now \in Nat, NEW s, ThreadGood(s, now), NEW n \in 1 .. now
  PROVE  ThreadGood(Appended(s, n), now)
<1>1. DOMAIN s = 1 .. Len(s)
  BY LenProperties DEF ThreadGood
<1>2. CASE \E i \in 1 .. Len(s) : s[i] = n
  BY <1>2 DEF ThreadGood, Appended
<1>3. CASE ~ \E i \in 1 .. Len(s) : s[i] = n
  <2>1. n \notin Range(s)
    BY <1>1, <1>3 DEF Range
  <2>2. Append(s, n) \in Seq(1 .. now) /\ IsInjective(Append(s, n))
    BY <2>1, GrownList DEF ThreadGood
  <2>3. Appended(s, n) = Newest(Append(s, n))
    BY <1>3 DEF Appended
  <2>4. QED BY <2>2, <2>3, NewestKeeps DEF ThreadGood
<1>4. QED BY <1>2, <1>3

\* The server's answer, in its order.
LEMMA ListedIsGood ==
  ASSUME RowsGood, NEW c \in Conversation, NEW messages \in Listed(c)
  PROVE  ThreadGood(messages, Now(c))
<1>1. PICK s \in InOrder(Committed(c)) : messages = Newest(s)
  BY DEF Listed
<1>2. Len(written[c]) \in Nat
  BY LenProperties DEF RowsGood
<1>3. Committed(c) \subseteq Messages(c) /\ IsFiniteSet(Messages(c))
  <2>1. Committed(c) \subseteq Messages(c)
    BY DEF Committed
  <2>2. IsFiniteSet(Messages(c))
    BY <1>2, FS_Interval DEF Messages
  <2>3. QED BY <2>1, <2>2
<1>4. Cardinality(Committed(c)) \in Nat
  BY <1>3, FS_Subset, FS_CardinalityType
<1>5. /\ s \in [1 .. Cardinality(Committed(c)) -> Messages(c)]
      /\ \A i, j \in DOMAIN s : i < j => s[i] < s[j]
  BY <1>3 DEF InOrder
<1>6. s \in Seq(Messages(c))
  BY <1>4, <1>5
<1>7. IsInjective(s)
  <2> SUFFICES ASSUME NEW i \in DOMAIN s, NEW j \in DOMAIN s, s[i] = s[j], i # j PROVE FALSE
    BY DEF IsInjective
  <2>1. i \in Nat /\ j \in Nat /\ s[i] \in Nat /\ s[j] \in Nat
    BY <1>2, <1>4, <1>5 DEF Messages
  <2>2. QED BY <1>5, <2>1
<1>8. QED BY <1>1, <1>6, <1>7, NewestKeeps DEF ThreadGood, Messages, Now

\* deleteTypingEntry takes one conversation out of the list.
LEMMA WithoutProperties ==
  ASSUME NEW S, NEW s \in Seq(S), IsInjective(s), NEW e
  PROVE  /\ Without(s, e) \in Seq(S) /\ Len(Without(s, e)) <= Len(s)
         /\ Range(Without(s, e)) = Range(s) \ {e}
         /\ IsInjective(Without(s, e))
<1>1. Len(s) \in Nat /\ DOMAIN s = 1 .. Len(s) /\ \A i \in 1 .. Len(s) : s[i] \in S
  BY LenProperties, ElementOfSeq
<1>2. CASE e \notin Range(s)
  <2>1. Without(s, e) = s
    BY <1>2 DEF Without, Range
  <2>2. QED BY <1>1, <1>2, <2>1
<1>3. CASE e \in Range(s)
  <2>1. PICK m \in DOMAIN s : m = CHOOSE i \in DOMAIN s : s[i] = e
    BY <1>3 DEF Range
  <2>2. s[m] = e /\ m \in 1 .. Len(s) /\ \A i \in 1 .. Len(s) : s[i] = e => i = m
    BY <1>1, <1>3, <2>1 DEF Range, IsInjective
  <2> DEFINE a == SubSeq(s, 1, m - 1)
             b == SubSeq(s, m + 1, Len(s))
             t == a \o b
  <2>3. Without(s, e) = t
    BY <1>3, <2>1 DEF Without, RemoveAt, Range
  <2>4. /\ a \in Seq(S) /\ Len(a) = m - 1
        /\ \A i \in 1 .. m - 1 : a[i] = s[i]
    <3>1. 1 \in 1 .. Len(s) + 1 /\ m - 1 \in 1 - 1 .. Len(s)
      BY <1>1, <2>2
    <3>2. a \in Seq(S) /\ Len(a) = (m - 1) - 1 + 1
          /\ \A i \in 1 .. (m - 1) - 1 + 1 : a[i] = s[1 + i - 1]
      BY <3>1, PartOfList
    <3> HIDE DEF a
    <3>3. QED BY <1>1, <2>2, <3>2
  <2>5. /\ b \in Seq(S) /\ Len(b) = Len(s) - m
        /\ \A i \in 1 .. Len(s) - m : b[i] = s[m + i]
    <3>1. m + 1 \in 1 .. Len(s) + 1 /\ Len(s) \in (m + 1) - 1 .. Len(s)
      BY <1>1, <2>2
    <3>2. b \in Seq(S) /\ Len(b) = Len(s) - (m + 1) + 1
          /\ \A i \in 1 .. Len(s) - (m + 1) + 1 : b[i] = s[(m + 1) + i - 1]
      BY <3>1, PartOfList
    <3> HIDE DEF b
    <3>3. Len(s) - (m + 1) + 1 = Len(s) - m
      BY <1>1, <2>2
    <3>4. ASSUME NEW i \in 1 .. Len(s) - m PROVE b[i] = s[m + i]
      <4>1. (m + 1) + i - 1 = m + i
        BY <2>2
      <4>2. QED BY <3>2, <3>3, <4>1
    <3>5. QED BY <3>2, <3>3, <3>4
  <2> HIDE DEF a, b
  <2>6. /\ t \in Seq(S) /\ Len(t) = Len(s) - 1
        /\ \A i \in 1 .. Len(s) - 1 : t[i] = IF i < m THEN s[i] ELSE s[i + 1]
    <3>1. /\ t \in Seq(S) /\ Len(t) = Len(a) + Len(b)
          /\ \A i \in 1 .. Len(a) + Len(b) : t[i] = IF i <= Len(a) THEN a[i] ELSE b[i - Len(a)]
      BY <2>4, <2>5, ConcatProperties
    <3>2. Len(a) + Len(b) = Len(s) - 1
      BY <1>1, <2>2, <2>4, <2>5
    <3> HIDE DEF t
    <3>3. ASSUME NEW i \in 1 .. Len(s) - 1 PROVE t[i] = IF i < m THEN s[i] ELSE s[i + 1]
      <4>1. CASE i < m
        <5>1. i \in 1 .. m - 1 /\ i \in 1 .. Len(a) + Len(b) /\ i <= Len(a)
          <6>1. i \in 1 .. m - 1
            BY <1>1, <2>2, <4>1
          <6>2. i <= Len(a)
            BY <2>2, <2>4, <4>1
          <6> QED BY <3>2, <6>1, <6>2
        <5>2. QED BY <2>4, <3>1, <4>1, <5>1
      <4>2. CASE ~(i < m)
        <5>1. t[i] = b[i - (m - 1)]
          BY <1>1, <2>2, <2>4, <3>1, <3>2, <4>2
        <5>2. i - (m - 1) \in 1 .. Len(s) - m /\ m + (i - (m - 1)) = i + 1
          BY <1>1, <2>2, <4>2
        <5>3. QED BY <2>5, <4>2, <5>1, <5>2
      <4>3. QED BY <4>1, <4>2
    <3>4. QED BY <3>1, <3>2, <3>3
  <2> HIDE DEF t
  <2>7. DOMAIN t = 1 .. Len(s) - 1
    BY <2>6, LenProperties
  <2>8. \A i \in 1 .. Len(s) - 1 : t[i] # e
    BY <1>1, <2>2, <2>6
  <2>9. \A i \in 1 .. Len(s) : i # m => \E j \in 1 .. Len(s) - 1 : t[j] = s[i]
    <3> SUFFICES ASSUME NEW i \in 1 .. Len(s), i # m
                 PROVE  \E j \in 1 .. Len(s) - 1 : t[j] = s[i]
      OBVIOUS
    <3>1. CASE i < m
      <4>1. i \in 1 .. Len(s) - 1
        BY <1>1, <2>2, <3>1
      <4>2. QED BY <2>6, <3>1, <4>1
    <3>2. CASE i > m
      <4>1. i - 1 \in 1 .. Len(s) - 1 /\ ~(i - 1 < m) /\ (i - 1) + 1 = i
        BY <1>1, <2>2, <3>2
      <4>2. t[i - 1] = s[i]
        BY <2>6, <4>1
      <4>3. QED BY <4>1, <4>2
    <3>3. QED BY <1>1, <2>2, <3>1, <3>2
  <2>10. \A i \in 1 .. Len(s) - 1 : \E j \in 1 .. Len(s) : t[i] = s[j]
    <3> SUFFICES ASSUME NEW i \in 1 .. Len(s) - 1 PROVE \E j \in 1 .. Len(s) : t[i] = s[j]
      OBVIOUS
    <3>1. i \in 1 .. Len(s) /\ i + 1 \in 1 .. Len(s)
      BY <1>1
    <3>2. QED BY <2>6, <3>1
  <2>11. Range(t) = Range(s) \ {e}
    <3>1. ASSUME NEW x \in Range(t) PROVE x \in Range(s) \ {e}
      <4>1. PICK i \in 1 .. Len(s) - 1 : x = t[i]
        BY <2>7 DEF Range
      <4>2. QED BY <1>1, <2>8, <2>10, <4>1 DEF Range
    <3>2. ASSUME NEW x \in Range(s) \ {e} PROVE x \in Range(t)
      <4>1. PICK i \in 1 .. Len(s) : x = s[i]
        BY <1>1 DEF Range
      <4>2. i # m
        BY <2>2, <4>1
      <4>3. QED BY <2>7, <2>9, <4>1, <4>2 DEF Range
    <3>3. QED BY <3>1, <3>2
  <2>12. ASSUME NEW i \in 1 .. Len(s) - 1, NEW j \in 1 .. Len(s) - 1, t[i] = t[j] PROVE i = j
    <3> DEFINE at(x) == IF x < m THEN x ELSE x + 1
    <3>1. at(i) \in 1 .. Len(s) /\ at(j) \in 1 .. Len(s)
      BY <1>1
    <3>2. s[at(i)] = s[at(j)]
      BY <2>6, <2>12
    <3>3. at(i) = at(j)
      <4> HIDE DEF at
      <4> QED BY <1>1, <3>1, <3>2 DEF IsInjective
    <3>4. QED BY <1>1, <2>2, <3>3
  <2>13. IsInjective(t)
    BY <2>7, <2>12 DEF IsInjective
  <2>14. QED BY <1>1, <2>3, <2>6, <2>11, <2>13
<1>4. QED BY <1>2, <1>3

-----------------------------------------------------------------------------
(* The inbox's invariant.                                                  *)

LEMMA NowIsNat ==
  ASSUME RowsGood, NEW c \in Conversation
  PROVE  /\ Now(c) \in Nat /\ Messages(c) = 1 .. Now(c) /\ DOMAIN written[c] = 1 .. Now(c)
         /\ Clock[c] = Now(c) /\ marked[c] \in 0 .. Now(c)
         /\ \A n \in Messages(c) : written[c][n] \in Sender
<1>1. written[c] \in Seq(Sender) /\ marked[c] \in Nat /\ marked[c] <= Now(c)
  BY DEF RowsGood
<1>2. /\ Len(written[c]) \in Nat /\ DOMAIN written[c] = 1 .. Len(written[c])
      /\ \A n \in 1 .. Len(written[c]) : written[c][n] \in Sender
  BY <1>1, LenProperties, ElementOfSeq
<1>3. QED BY <1>1, <1>2 DEF Messages, Now, Clock

\* What is counted is a number.
LEMMA UnreadIsNat ==
  ASSUME RowsGood, NEW c \in Conversation, NEW t
  PROVE  UnreadSince(c, t) \in Nat
<1> DEFINE S == {n \in Committed(c) : written[c][n] = "friend" /\ n > t}
<1>1. S \subseteq 1 .. Now(c) /\ Now(c) \in Nat
  BY NowIsNat DEF Committed
<1>2. IsFiniteSet(1 .. Now(c))
  BY <1>1, FS_Interval
<1> HIDE DEF S
<1>3. Cardinality(S) \in Nat
  BY <1>1, <1>2, FS_Subset, FS_CardinalityType
<1>4. QED BY <1>3 DEF S, UnreadSince

LEMMA DtoIsGood ==
  ASSUME RowsGood, NEW c \in Conversation, NEW now \in Nat, NEW mark \in Nat, NEW row,
         CursorsGood(row, now, mark), NEW unread \in Nat
  PROVE  EntryGood(Dto(row, unread), mark)
BY DEF CursorsGood, EntryGood, Dto, FriendLastReadAt

LEMMA InboxInitHolds == InboxInit => InboxInv
<1> SUFFICES ASSUME InboxInit PROVE InboxInv
  OBVIOUS
<1> USE LimitsAssumption DEF InboxInit
<1>1. RowsGood
  <2>1. \A c \in Conversation, who \in Sender : SentBy(c, who) = {}
    BY DEF SentBy, Messages
  <2>2. \A c \in Conversation : MaxMessage[c] \in Nat /\ Cardinality({}) = 0
    BY FS_EmptySet
  <2>3. written \in [Conversation -> Seq(Sender)] /\ marked \in [Conversation -> Nat]
    OBVIOUS
  <2>4. \A c \in Conversation : Now(c) = 0 /\ marked[c] = 0
    BY DEF Now
  <2>5. \A c \in Conversation : CursorsGood(readAt[c], Now(c), marked[c])
    BY <2>4 DEF CursorsGood
  <2>6. OfEach(readAt)
    BY DEF OfEach
  <2>7. ASSUME NEW c \in Conversation, NEW who \in Sender
        PROVE  Cardinality(SentBy(c, who)) <= MaxMessage[c]
    <3>1. Cardinality(SentBy(c, who)) = 0
      BY <2>1, FS_EmptySet
    <3>2. QED BY <2>2, <3>1
  <2>8. \A m \in uncommitted : m[1] \in Conversation /\ m[2] \in Messages(m[1])
    OBVIOUS
  <2>9. QED BY <2>3, <2>4, <2>5, <2>6, <2>7, <2>8 DEF RowsGood
<1>2. EventsGood
  BY DEF EventsGood
<1>3. ListGood
  BY DEF ListGood, OfEach, EntryGood, NotListed
<1>4. ThreadsGood
  <2>1. \A n : ThreadGood(<<>>, n)
    BY DEF ThreadGood, IsInjective
  <2>2. QED BY <2>1 DEF ThreadsGood, OfEach
<1>5. TypingGood
  <2>1. Range(<<>>) = {} /\ IsInjective(<<>>)
    BY DEF Range, IsInjective
  <2>2. QED BY <2>1 DEF TypingGood, TypingIsTimed
<1>6. CallsGood
  <2>1. \A k \in Call : call[k].pc = "idle"
    BY DEF Idle
  <2>2. \A k \in Call : CallGood(call[k], Clock, marked)
    BY <2>1 DEF CallGood, Talking
  <2>3. QED BY <2>2 DEF CallsGood
<1>7. QED BY <1>1, <1>2, <1>3, <1>4, <1>5, <1>6 DEF InboxInv

\* Time goes on, and so does what the friend has marked; nothing else ages what has been read.
Ages ==
  \A c \in Conversation : Now(c) <= Now(c)' /\ marked[c] <= marked'[c]

LEMMA GoodAges ==
  ASSUME NEW now \in Nat, NEW later \in Nat, now <= later,
         NEW mark \in Nat, NEW mark2 \in Nat, mark <= mark2
  PROVE  /\ \A t \in 0 .. now : t \in 0 .. later
         /\ \A row : CursorsGood(row, now, mark) => CursorsGood(row, later, mark2)
         /\ \A e : EntryGood(e, mark) => EntryGood(e, mark2)
         /\ \A s : ThreadGood(s, now) => ThreadGood(s, later)
<1>1. 0 .. now \subseteq 0 .. later /\ 0 .. mark \subseteq 0 .. mark2 /\ 1 .. now \subseteq 1 .. later
  OBVIOUS
<1>2. \A s : ThreadGood(s, now) => ThreadGood(s, later)
  BY <1>1, SeqMonotonic DEF ThreadGood
<1>3. \A row : CursorsGood(row, now, mark) => CursorsGood(row, later, mark2)
  BY <1>1 DEF CursorsGood
<1>4. \A e : EntryGood(e, mark) => EntryGood(e, mark2)
  BY <1>1 DEF EntryGood
<1>5. QED BY <1>1, <1>2, <1>3, <1>4

LEMMA CallAges ==
  ASSUME NEW clock, NEW clock2, NEW marks, NEW marks2,
         \A c \in Conversation : /\ clock[c] \in Nat /\ clock2[c] \in Nat /\ clock[c] <= clock2[c]
                                 /\ marks[c] \in Nat /\ marks2[c] \in Nat /\ marks[c] <= marks2[c],
         NEW x, CallGood(x, clock, marks)
  PROVE  CallGood(x, clock2, marks2)
<1>1. \A c \in Conversation :
        /\ \A t \in 0 .. clock[c] : t \in 0 .. clock2[c]
        /\ \A row : CursorsGood(row, clock[c], marks[c]) => CursorsGood(row, clock2[c], marks2[c])
        /\ \A e : EntryGood(e, marks[c]) => EntryGood(e, marks2[c])
        /\ \A s : ThreadGood(s, clock[c]) => ThreadGood(s, clock2[c])
  BY GoodAges
<1>2. x.pc \in Talking => x.conv \in Conversation
  BY DEF CallGood
<1>3. x.pc \in {"openWrite", "markWrite"} => x.at \in 0 .. clock2[x.conv]
  BY <1>1, <1>2 DEF CallGood, Talking
<1>4. x.pc = "count" => \A c \in Conversation : CursorsGood(x.rows[c], clock2[c], marks2[c])
  BY <1>1 DEF CallGood
<1>5. x.pc = "listed" => /\ OfEach(x.entries)
                         /\ \A c \in Conversation : EntryGood(x.entries[c], marks2[c])
  BY <1>1 DEF CallGood
<1>6. x.pc = "found" => CursorsGood(x.row, clock2[x.conv], marks2[x.conv])
  BY <1>1, <1>2 DEF CallGood, Talking
<1>7. x.pc \in {"ensured", "answer"} => EntryGood(x.entry, marks2[x.conv])
  BY <1>1, <1>2 DEF CallGood, Talking
<1>8. x.pc \in {"refresh", "answer"} => ThreadGood(x.messages, clock2[x.conv])
  BY <1>1, <1>2 DEF CallGood, Talking
<1>9. x.pc = "markAllWrite" =>
        /\ MarksAll(x)
        /\ x.left \subseteq Conversation
        /\ \A c \in Conversation : x.times[c] \in 0 .. clock2[c]
  BY <1>1 DEF CallGood
<1>10. QED BY <1>2, <1>3, <1>4, <1>5, <1>6, <1>7, <1>8, <1>9 DEF CallGood

\* What a step leaves alone stays good, though the rows move.
LEMMA LeftAlone ==
  ASSUME InboxInv, RowsGood', Ages
  PROVE  /\ UNCHANGED entry => ListGood'
         /\ UNCHANGED thread => ThreadsGood'
         /\ UNCHANGED <<typing, timers>> => TypingGood'
         /\ UNCHANGED pending => EventsGood'
         /\ \A e : EventGood(e, Clock, marked) => EventGood(e, Clock', marked')
         /\ \A x : CallGood(x, Clock, marked) => CallGood(x, Clock', marked')
<1>1. \A c \in Conversation : /\ Now(c) \in Nat /\ Clock[c] = Now(c) /\ marked[c] \in Nat
  BY NowIsNat DEF InboxInv
<1>2. \A c \in Conversation : /\ Now(c)' \in Nat /\ Clock'[c] = Now(c)' /\ marked'[c] \in Nat
  <2>1. TRUE /\ RowsGood' OBVIOUS
  <2>2. \A c \in Conversation : Now(c)' \in Nat
    <3> SUFFICES ASSUME NEW c \in Conversation PROVE Now(c)' \in Nat
      OBVIOUS
    <3>1. written'[c] \in Seq(Sender)
      BY DEF RowsGood
    <3>2. QED BY <3>1, LenProperties DEF Now
  <2>3. QED BY <2>2 DEF RowsGood, Clock
<1>3. \A c \in Conversation : Clock[c] <= Clock'[c] /\ marked[c] <= marked'[c]
  BY <1>1, <1>2 DEF Ages
<1>4. \A c \in Conversation :
        /\ \A e : EntryGood(e, marked[c]) => EntryGood(e, marked'[c])
        /\ \A s : ThreadGood(s, Now(c)) => ThreadGood(s, Now(c)')
  BY <1>1, <1>2, <1>3, GoodAges
<1>5. UNCHANGED entry => ListGood'
  BY <1>4 DEF InboxInv, ListGood
<1>6. UNCHANGED thread => ThreadsGood'
  BY <1>4 DEF InboxInv, ThreadsGood
<1>7. UNCHANGED <<typing, timers>> => TypingGood'
  BY DEF InboxInv, TypingGood, TypingIsTimed
<1>8. \A e : EventGood(e, Clock, marked) => EventGood(e, Clock', marked')
  <2> SUFFICES ASSUME NEW e, EventGood(e, Clock, marked) PROVE EventGood(e, Clock', marked')
    OBVIOUS
  <2>1. e.conv \in Conversation
    BY DEF EventGood, Event
  <2> DEFINE c == e.conv
  <2>2. /\ Clock[c] \in Nat /\ Clock'[c] \in Nat /\ Clock[c] <= Clock'[c]
        /\ marked[c] \in Nat /\ marked'[c] \in Nat /\ marked[c] <= marked'[c]
    BY <1>1, <1>2, <1>3, <2>1
  <2>3. QED BY <2>2 DEF EventGood
<1>9. UNCHANGED pending => EventsGood'
  BY <1>8 DEF InboxInv, EventsGood
<1>10. \A x : CallGood(x, Clock, marked) => CallGood(x, Clock', marked')
  <2> SUFFICES ASSUME NEW x, CallGood(x, Clock, marked) PROVE CallGood(x, Clock', marked')
    OBVIOUS
  <2>1. \A c \in Conversation :
          /\ Clock[c] \in Nat /\ Clock'[c] \in Nat /\ Clock[c] <= Clock'[c]
          /\ marked[c] \in Nat /\ marked'[c] \in Nat /\ marked[c] <= marked'[c]
    BY <1>1, <1>2, <1>3
  <2>2. QED BY <2>1, CallAges
<1>11. QED BY <1>5, <1>6, <1>7, <1>8, <1>9, <1>10

-----------------------------------------------------------------------------
(* The rows.                                                               *)

\* A write appends a message of the one who may still write.
LEMMA WriteKeepsRows ==
  ASSUME InboxInv, NEW c \in Conversation, NEW who \in Sender, Write(c, who)
  PROVE  RowsGood' /\ Ages
<1> DEFINE n == Now(c) + 1
<1>1. /\ written \in [Conversation -> Seq(Sender)] /\ marked \in [Conversation -> Nat]
      /\ written' = [written EXCEPT ![c] = Append(@, who)]
      /\ uncommitted' = uncommitted \cup {<<c, n>>}
      /\ UNCHANGED <<readAt, marked>>
      /\ Cardinality(SentBy(c, who)) < MaxMessage[c]
  BY DEF Write, InboxInv, RowsGood, SentBy
<1>2. Now(c) \in Nat /\ Messages(c) = 1 .. Now(c)
  BY NowIsNat DEF InboxInv
<1>3. /\ written'[c] = Append(written[c], who) /\ written'[c] \in Seq(Sender)
      /\ Len(written'[c]) = n /\ written'[c][n] = who
      /\ \A i \in 1 .. Now(c) : written'[c][i] = written[c][i]
  BY <1>1, AppendProperties DEF Now
<1>4. \A d \in Conversation : d # c => written'[d] = written[d]
  BY <1>1
<1>5. written' \in [Conversation -> Seq(Sender)]
  BY <1>1, <1>3
<1>6. Now(c)' = n /\ Messages(c)' = 1 .. n
  BY <1>3 DEF Now, Messages
<1>7. \A d \in Conversation : d # c => Now(d)' = Now(d) /\ Messages(d)' = Messages(d)
  BY <1>4 DEF Now, Messages
<1>8. \A d \in Conversation : Now(d) \in Nat /\ Now(d) <= Now(d)' /\ Messages(d) \subseteq Messages(d)'
  <2> SUFFICES ASSUME NEW d \in Conversation
               PROVE Now(d) \in Nat /\ Now(d) <= Now(d)' /\ Messages(d) \subseteq Messages(d)'
    OBVIOUS
  <2>1. Now(d) \in Nat
    BY NowIsNat DEF InboxInv
  <2>2. CASE d = c
    BY <1>2, <1>6, <2>2
  <2>3. CASE d # c
    BY <1>7, <2>1, <2>3
  <2>4. QED BY <2>1, <2>2, <2>3
<1>9. Ages
  BY <1>1, <1>8 DEF Ages
<1>10. ASSUME NEW d \in Conversation, NEW w \in Sender
       PROVE  Cardinality(SentBy(d, w)') <= MaxMessage[d]
  <2>1. Cardinality(SentBy(d, w)) <= MaxMessage[d]
    BY DEF InboxInv, RowsGood
  <2>2. CASE d # c
    <3>1. SentBy(d, w)' = SentBy(d, w)
      BY <1>4, <1>7, <2>2 DEF SentBy
    <3>2. QED BY <2>1, <3>1
  <2>3. CASE d = c /\ w # who
    <3>1. SentBy(c, w)' = SentBy(c, w)
      BY <1>2, <1>3, <1>6, <2>3 DEF SentBy
    <3>2. QED BY <2>1, <2>3, <3>1
  <2>4. CASE d = c /\ w = who
    <3>1. SentBy(c, who)' = SentBy(c, who) \cup {n}
      BY <1>2, <1>3, <1>6 DEF SentBy
    <3>2. IsFiniteSet(SentBy(c, who)) /\ n \notin SentBy(c, who)
      <4>1. SentBy(c, who) \subseteq 1 .. Now(c)
        BY <1>2 DEF SentBy
      <4>2. IsFiniteSet(1 .. Now(c)) /\ n \notin 1 .. Now(c)
        BY <1>2, FS_Interval
      <4>3. QED BY <4>1, <4>2, FS_Subset
    <3>3. Cardinality(SentBy(c, who)') = Cardinality(SentBy(c, who)) + 1
      BY <3>1, <3>2, FS_AddElement
    <3>4. Cardinality(SentBy(c, who)) \in Nat /\ MaxMessage[c] \in Nat
      BY <3>2, FS_CardinalityType, LimitsAssumption
    <3>5. QED BY <1>1, <2>4, <3>3, <3>4
  <2>5. QED BY <2>2, <2>3, <2>4
<1>11. \A m \in uncommitted' : m[1] \in Conversation /\ m[2] \in Messages(m[1])'
  <2> SUFFICES ASSUME NEW m \in uncommitted' PROVE m[1] \in Conversation /\ m[2] \in Messages(m[1])'
    OBVIOUS
  <2>1. CASE m \in uncommitted
    BY <1>8, <2>1 DEF InboxInv, RowsGood
  <2>2. CASE m = <<c, n>>
    BY <1>2, <1>6, <2>2
  <2>3. QED BY <1>1, <2>1, <2>2
<1>12. \A d \in Conversation : CursorsGood(readAt'[d], Now(d)', marked'[d]) /\ marked'[d] <= Now(d)'
  <2> SUFFICES ASSUME NEW d \in Conversation
               PROVE  CursorsGood(readAt'[d], Now(d)', marked'[d]) /\ marked'[d] <= Now(d)'
    OBVIOUS
  <2>1. CursorsGood(readAt[d], Now(d), marked[d]) /\ marked[d] \in Nat /\ marked[d] <= Now(d)
    BY <1>1 DEF InboxInv, RowsGood
  <2>2. Now(d)' \in Nat
    BY <1>5, LenProperties DEF Now
  <2>3. QED BY <1>1, <1>8, <2>1, <2>2, GoodAges
<1>13. OfEach(readAt')
  BY <1>1 DEF InboxInv, RowsGood
<1>14. RowsGood'
  <2> HIDE DEF n
  <2> QED BY <1>1, <1>5, <1>10, <1>11, <1>12, <1>13 DEF RowsGood, OfEach
<1>15. QED BY <1>9, <1>14

\* A cursor is set to a time that has come; the friend's is marked.
LEMMA CursorsKeepRows ==
  ASSUME InboxInv, NEW c \in Conversation, UNCHANGED written,
         uncommitted' \subseteq uncommitted,
         \A d \in Conversation : d # c => readAt'[d] = readAt[d] /\ marked'[d] = marked[d],
         OfEach(readAt'), marked' \in [Conversation -> Nat],
         marked[c] <= marked'[c], marked'[c] <= Now(c),
         CursorsGood(readAt'[c], Now(c), marked'[c])
  PROVE  RowsGood' /\ Ages
<1>1. \A d \in Conversation : Now(d)' = Now(d) /\ Messages(d)' = Messages(d) /\ Now(d) \in Nat
  BY NowIsNat DEF Now, Messages, InboxInv
<1>2. \A d \in Conversation : marked[d] \in Nat /\ marked[d] <= Now(d)
  BY DEF InboxInv, RowsGood
<1>3. Ages
  BY <1>1, <1>2 DEF Ages
<1>4. \A d \in Conversation, w \in Sender :
        SentBy(d, w)' = SentBy(d, w) /\ Cardinality(SentBy(d, w)) <= MaxMessage[d]
  BY <1>1 DEF SentBy, InboxInv, RowsGood
<1>5. \A d \in Conversation : CursorsGood(readAt'[d], Now(d)', marked'[d]) /\ marked'[d] <= Now(d)'
  <2> SUFFICES ASSUME NEW d \in Conversation
               PROVE  CursorsGood(readAt'[d], Now(d)', marked'[d]) /\ marked'[d] <= Now(d)'
    OBVIOUS
  <2>1. CursorsGood(readAt[d], Now(d), marked[d])
    BY DEF InboxInv, RowsGood
  <2>2. QED BY <1>1, <1>2, <2>1
<1>6. \A m \in uncommitted' : m[1] \in Conversation /\ m[2] \in Messages(m[1])'
  BY <1>1 DEF InboxInv, RowsGood
<1>7. written' \in [Conversation -> Seq(Sender)]
  BY DEF InboxInv, RowsGood
<1>8. QED BY <1>3, <1>4, <1>5, <1>6, <1>7 DEF RowsGood, OfEach

\* One cursor of one row.
LEMMA CursorSet ==
  ASSUME RowsGood, NEW c \in Conversation, NEW t
  PROVE  /\ OfEach([readAt EXCEPT ![c].me = t]) /\ OfEach([readAt EXCEPT ![c].friend = t])
         /\ \A d \in Conversation : d # c => /\ [readAt EXCEPT ![c].me = t][d] = readAt[d]
                                             /\ [readAt EXCEPT ![c].friend = t][d] = readAt[d]
         /\ [readAt EXCEPT ![c].me = t][c] = [readAt[c] EXCEPT !.me = t]
         /\ [readAt EXCEPT ![c].friend = t][c] = [readAt[c] EXCEPT !.friend = t]
BY DEF RowsGood, OfEach

LEMMA CommitKeepsRows ==
  ASSUME InboxInv, NEW c \in Conversation, NEW n, Commit(c, n)
  PROVE  RowsGood' /\ Ages
<1> DEFINE who == written[c][n]
<1>1. n \in 1 .. Now(c) /\ who \in Sender /\ Now(c) \in Nat /\ marked[c] \in 0 .. Now(c)
  <2>1. <<c, n>>[1] = c /\ <<c, n>>[2] = n /\ <<c, n>> \in uncommitted
    BY DEF Commit
  <2>2. n \in Messages(c)
    BY <2>1 DEF InboxInv, RowsGood
  <2>3. QED BY <2>2, NowIsNat DEF InboxInv
<1>2. /\ readAt' = [readAt EXCEPT ![c][who] = n]
      /\ marked' = IF who = "friend" /\ n > marked[c] THEN [marked EXCEPT ![c] = n] ELSE marked
      /\ uncommitted' \subseteq uncommitted /\ UNCHANGED written
  BY DEF Commit
<1> HIDE DEF who
<1>3. /\ OfEach(readAt) /\ marked \in [Conversation -> Nat]
      /\ readAt[c] \in [me : 0 .. Now(c), friend : 0 .. marked[c]]
  BY DEF InboxInv, RowsGood, CursorsGood
<1>4. /\ marked' \in [Conversation -> Nat] /\ marked[c] <= marked'[c] /\ marked'[c] <= Now(c)
      /\ \A d \in Conversation : d # c => marked'[d] = marked[d]
      /\ who = "friend" => n <= marked'[c]
  BY <1>1, <1>2, <1>3
<1>5. CASE who = "me"
  <2>1. readAt' = [readAt EXCEPT ![c].me = n]
    BY <1>2, <1>5
  <2>2. readAt'[c] = [readAt[c] EXCEPT !.me = n]
    BY <2>1, CursorSet DEF InboxInv
  <2>3. CursorsGood(readAt'[c], Now(c), marked'[c])
    BY <1>1, <1>3, <1>4, <2>2 DEF CursorsGood
  <2>4. OfEach(readAt') /\ \A d \in Conversation : d # c => readAt'[d] = readAt[d]
    <3>1. RowsGood
      BY DEF InboxInv
    <3>2. OfEach(readAt')
      BY <2>1, <3>1, CursorSet
    <3>3. \A d \in Conversation : d # c => readAt'[d] = readAt[d]
      BY <2>1, <3>1, CursorSet
    <3>4. QED BY <3>2, <3>3
  <2>5. QED BY <1>2, <1>4, <2>3, <2>4, CursorsKeepRows
<1>6. CASE who = "friend"
  <2>1. readAt' = [readAt EXCEPT ![c].friend = n]
    BY <1>2, <1>6
  <2>2. readAt'[c] = [readAt[c] EXCEPT !.friend = n]
    BY <2>1, CursorSet DEF InboxInv
  <2>3. CursorsGood(readAt'[c], Now(c), marked'[c])
    BY <1>1, <1>3, <1>4, <1>6, <2>2 DEF CursorsGood
  <2>4. OfEach(readAt') /\ \A d \in Conversation : d # c => readAt'[d] = readAt[d]
    <3>1. RowsGood
      BY DEF InboxInv
    <3>2. OfEach(readAt')
      BY <2>1, <3>1, CursorSet
    <3>3. \A d \in Conversation : d # c => readAt'[d] = readAt[d]
      BY <2>1, <3>1, CursorSet
    <3>4. QED BY <3>2, <3>3
  <2>5. QED BY <1>2, <1>4, <2>3, <2>4, CursorsKeepRows
<1>7. QED BY <1>1, <1>5, <1>6 DEF Sender

LEMMA FriendReadsKeepsRows ==
  ASSUME InboxInv, NEW c \in Conversation, NEW t \in Nat, FriendReads(c, t)
  PROVE  RowsGood' /\ Ages
<1>1. /\ t <= Now(c) /\ readAt' = [readAt EXCEPT ![c].friend = t]
      /\ marked' = IF t > marked[c] THEN [marked EXCEPT ![c] = t] ELSE marked
      /\ UNCHANGED <<written, uncommitted>>
  BY DEF FriendReads
<1>2. Now(c) \in Nat /\ marked[c] \in 0 .. Now(c)
  BY NowIsNat DEF InboxInv
<1>3. /\ marked \in [Conversation -> Nat]
      /\ readAt[c] \in [me : 0 .. Now(c), friend : 0 .. marked[c]]
  BY DEF InboxInv, RowsGood, CursorsGood
<1>4. /\ marked' \in [Conversation -> Nat] /\ marked[c] <= marked'[c] /\ marked'[c] <= Now(c)
      /\ t <= marked'[c]
      /\ \A d \in Conversation : d # c => marked'[d] = marked[d]
  BY <1>1, <1>2, <1>3
<1>5. readAt'[c] = [readAt[c] EXCEPT !.friend = t]
  BY <1>1, CursorSet DEF InboxInv
<1>6. CursorsGood(readAt'[c], Now(c), marked'[c])
  BY <1>2, <1>3, <1>4, <1>5 DEF CursorsGood
<1>7. OfEach(readAt') /\ \A d \in Conversation : d # c => readAt'[d] = readAt[d]
  <2>1. RowsGood
    BY DEF InboxInv
  <2>2. OfEach(readAt')
    BY <1>1, <2>1, CursorSet
  <2>3. \A d \in Conversation : d # c => readAt'[d] = readAt[d]
    BY <1>1, <2>1, CursorSet
  <2>4. QED BY <2>2, <2>3
<1>8. QED BY <1>1, <1>4, <1>6, <1>7, CursorsKeepRows

LEMMA MarkKeepsRows ==
  ASSUME InboxInv, NEW c \in Conversation, NEW t \in 0 .. Now(c), MarkRead(c, t),
         UNCHANGED <<written, uncommitted, marked>>
  PROVE  RowsGood' /\ Ages
<1>1. readAt' = [readAt EXCEPT ![c].me = t]
  BY DEF MarkRead
<1>2. Now(c) \in Nat /\ marked[c] \in 0 .. Now(c) /\ marked \in [Conversation -> Nat]
  BY NowIsNat DEF InboxInv, RowsGood
<1>3. readAt[c] \in [me : 0 .. Now(c), friend : 0 .. marked[c]]
  BY DEF InboxInv, RowsGood, CursorsGood
<1>4. readAt'[c] = [readAt[c] EXCEPT !.me = t]
  BY <1>1, CursorSet DEF InboxInv
<1>5. CursorsGood(readAt'[c], Now(c), marked'[c])
  BY <1>2, <1>3, <1>4 DEF CursorsGood
<1>6. OfEach(readAt') /\ \A d \in Conversation : d # c => readAt'[d] = readAt[d]
  <2>1. RowsGood
    BY DEF InboxInv
  <2>2. OfEach(readAt')
    BY <1>1, <2>1, CursorSet
  <2>3. \A d \in Conversation : d # c => readAt'[d] = readAt[d]
    BY <1>1, <2>1, CursorSet
  <2>4. QED BY <2>2, <2>3
<1>7. marked[c] <= marked'[c] /\ marked'[c] <= Now(c)
  BY <1>2
<1>8. QED BY <1>2, <1>5, <1>6, <1>7, CursorsKeepRows

LEMMA SameRows ==
  ASSUME InboxInv, UNCHANGED rows
  PROVE  RowsGood' /\ Ages
<1>1. \A c \in Conversation : Now(c)' = Now(c) /\ Messages(c)' = Messages(c) /\ Now(c) \in Nat
                              /\ marked[c] \in Nat
  BY NowIsNat DEF rows, Now, Messages, InboxInv
<1>2. RowsGood'
  BY <1>1 DEF InboxInv, RowsGood, rows, SentBy, OfEach
<1>3. Ages
  BY <1>1 DEF Ages, rows
<1>4. QED BY <1>2, <1>3

-----------------------------------------------------------------------------
(* The steps.                                                              *)

\* One request goes on, with what it has just read.
LEMMA CallGoesOn ==
  ASSUME InboxInv, RowsGood', Ages, NEW k \in Call, NEW next, Becomes(k, next),
         CallGood(next, Clock', marked')
  PROVE  CallsGood'
<1>1. call' = [call EXCEPT ![k] = next] /\ call = [j \in Call |-> call[j]]
  BY DEF Becomes, InboxInv, CallsGood
<1>2. call' = [j \in Call |-> call'[j]]
  BY <1>1
<1>3. ASSUME NEW j \in Call PROVE CallGood(call'[j], Clock', marked')
  <2>1. CASE j = k
    <3>1. call'[j] = next
      BY <1>1, <2>1
    <3>2. QED BY <3>1
  <2>2. CASE j # k
    <3>1. call'[j] = call[j]
      BY <1>1, <2>2
    <3>2. CallGood(call[j], Clock, marked)
      BY DEF InboxInv, CallsGood
    <3>3. QED BY <3>1, <3>2, LeftAlone
  <2>3. QED BY <2>1, <2>2
<1>4. QED BY <1>2, <1>3 DEF CallsGood

LEMMA CallsWait ==
  ASSUME InboxInv, RowsGood', Ages, UNCHANGED call
  PROVE  CallsGood'
<1>1. \A j \in Call : CallGood(call[j], Clock', marked')
  BY LeftAlone DEF InboxInv, CallsGood
<1>2. QED BY <1>1 DEF InboxInv, CallsGood

\* One more event.
LEMMA EventSent ==
  ASSUME InboxInv, RowsGood', Ages, CanEmit, NEW e, EventGood(e, Clock', marked'),
         pending' = Append(pending, e)
  PROVE  EventsGood'
<1>1. pending \in Seq(Event) /\ e \in Event /\ Len(pending) < MaxPending
  BY DEF InboxInv, EventsGood, EventGood, CanEmit
<1>2. /\ pending' \in Seq(Event) /\ Len(pending') = Len(pending) + 1
      /\ \A i \in 1 .. Len(pending) : pending'[i] = pending[i]
      /\ pending'[Len(pending) + 1] = e
      /\ Len(pending) \in Nat
  BY <1>1, AppendProperties, LenProperties
<1>3. \A i \in 1 .. Len(pending) : EventGood(pending[i], Clock', marked')
  BY LeftAlone DEF InboxInv, EventsGood
<1>4. ASSUME NEW i \in 1 .. Len(pending') PROVE EventGood(pending'[i], Clock', marked')
  <2>1. CASE i \in 1 .. Len(pending)
    BY <1>2, <1>3, <2>1
  <2>2. CASE i = Len(pending) + 1
    BY <1>2, <2>2
  <2>3. QED BY <1>2, <2>1, <2>2
<1>5. Len(pending') <= MaxPending
  BY <1>1, <1>2, LimitsAssumption
<1>6. QED BY <1>2, <1>4, <1>5 DEF EventsGood

LEMMA ServerStep ==
  ASSUME InboxInv, Server
  PROVE  InboxInv'
<1>1. UNCHANGED <<entry, thread, typing, timers, active, call>>
  <2>1. ASSUME NEW c, NEW who, Write(c, who) PROVE UNCHANGED <<inboxStore, call>>
    BY <2>1 DEF Write
  <2>2. ASSUME NEW c, NEW n, Commit(c, n) PROVE UNCHANGED <<inboxStore, call>>
    BY <2>2 DEF Commit
  <2>3. ASSUME NEW c, NEW n, FriendReads(c, n) PROVE UNCHANGED <<inboxStore, call>>
    BY <2>3 DEF FriendReads
  <2>4. ASSUME NEW c, NEW type, FriendTypes(c, type) PROVE UNCHANGED <<inboxStore, call>>
    BY <2>4 DEF FriendTypes
  <2>5. Reconnect => UNCHANGED <<inboxStore, call>>
    BY DEF Reconnect
  <2>6. UNCHANGED <<inboxStore, call>>
    BY <2>1, <2>2, <2>3, <2>4, <2>5 DEF Server
  <2>7. QED BY <2>6 DEF inboxStore
<1>2. RowsGood' /\ Ages /\ EventsGood' => InboxInv'
  BY <1>1, LeftAlone, CallsWait DEF InboxInv
<1>3. ASSUME NEW c \in Conversation, NEW who \in Sender, Write(c, who) PROVE InboxInv'
  <2>1. RowsGood' /\ Ages /\ UNCHANGED pending
    BY <1>3, WriteKeepsRows DEF Write
  <2>2. QED BY <1>2, <2>1, LeftAlone
<1>4. ASSUME NEW c \in Conversation, NEW n \in 1 .. 2 * MaxMessage[c], Commit(c, n)
      PROVE  InboxInv'
  <2>1. RowsGood' /\ Ages
    BY <1>4, CommitKeepsRows
  <2> DEFINE e == [type |-> "private_message", conv |-> c, at |-> n]
  <2>2. pending' = Append(pending, e) /\ CanEmit /\ <<c, n>> \in uncommitted /\ UNCHANGED written
    BY <1>4 DEF Commit
  <2>3. n \in 1 .. Now(c) /\ Clock'[c] = Now(c) /\ Now(c) \in Nat
    <3>1. <<c, n>>[1] = c /\ <<c, n>>[2] = n
      OBVIOUS
    <3>2. n \in Messages(c) /\ Now(c) \in Nat
      BY <2>2, <3>1, NowIsNat DEF InboxInv, RowsGood
    <3>3. QED BY <2>2, <3>2 DEF Clock, Now, Messages
  <2>4. EventGood(e, Clock', marked')
    BY <2>3 DEF EventGood, Event
  <2> HIDE DEF e
  <2>5. QED BY <1>2, <2>1, <2>2, <2>4, EventSent
<1>5. ASSUME NEW c \in Conversation, NEW t \in 1 .. 2 * MaxMessage[c], FriendReads(c, t)
      PROVE  InboxInv'
  <2>1. t \in Nat
    BY LimitsAssumption
  <2>2. RowsGood' /\ Ages
    BY <1>5, <2>1, FriendReadsKeepsRows
  <2> DEFINE e == [type |-> "conversation_read", conv |-> c, at |-> t]
  <2>3. /\ pending' = Append(pending, e) /\ CanEmit
        /\ marked' = IF t > marked[c] THEN [marked EXCEPT ![c] = t] ELSE marked
    BY <1>5 DEF FriendReads
  <2>4. t \in 0 .. marked'[c]
    <3>1. marked \in [Conversation -> Nat]
      BY DEF InboxInv, RowsGood
    <3>2. QED BY <2>1, <2>3, <3>1
  <2>5. EventGood(e, Clock', marked')
    BY <2>1, <2>4 DEF EventGood, Event
  <2> HIDE DEF e
  <2>6. QED BY <1>2, <2>2, <2>3, <2>5, EventSent
<1>6. ASSUME NEW c \in Conversation, NEW type \in {"typing", "stop_typing"}, FriendTypes(c, type)
      PROVE  InboxInv'
  <2> DEFINE e == [type |-> type, conv |-> c, at |-> 0]
  <2>1. pending' = Append(pending, e) /\ CanEmit /\ UNCHANGED rows
    BY <1>6 DEF FriendTypes
  <2>2. RowsGood' /\ Ages
    BY <2>1, SameRows
  <2>3. EventGood(e, Clock', marked')
    BY DEF EventGood, Event
  <2> HIDE DEF e
  <2>4. QED BY <1>2, <2>1, <2>2, <2>3, EventSent
<1>7. ASSUME Reconnect PROVE InboxInv'
  <2>1. pending' = <<>> /\ UNCHANGED rows
    BY <1>7 DEF Reconnect
  <2>2. RowsGood' /\ Ages
    BY <2>1, SameRows
  <2>3. EventsGood'
    BY <2>1, LimitsAssumption DEF EventsGood
  <2>4. QED BY <1>2, <2>2, <2>3
<1>8. QED BY <1>3, <1>4, <1>5, <1>6, <1>7 DEF Server

\* An entry is set to a good one.
LEMMA EntrySet ==
  ASSUME InboxInv, RowsGood', Ages, NEW c \in Conversation, NEW e, EntryGood(e, marked'[c]),
         entry' = [entry EXCEPT ![c] = e]
  PROVE  ListGood'
<1>1. \A d \in Conversation : EntryGood(entry[d], marked'[d])
  <2> SUFFICES ASSUME NEW d \in Conversation PROVE EntryGood(entry[d], marked'[d])
    OBVIOUS
  <2>1. marked[d] \in Nat /\ marked'[d] \in Nat /\ marked[d] <= marked'[d]
    BY DEF InboxInv, RowsGood, Ages
  <2>2. EntryGood(entry[d], marked[d])
    BY DEF InboxInv, ListGood
  <2>3. QED BY <2>1, <2>2, GoodAges
<1>2. entry = [d \in Conversation |-> entry[d]]
  BY DEF InboxInv, ListGood, OfEach
<1>3. \A d \in Conversation : entry'[d] = IF d = c THEN e ELSE entry[d]
  BY <1>2
<1>4. entry' = [d \in Conversation |-> entry'[d]]
  BY <1>2
<1>5. \A d \in Conversation : EntryGood(entry'[d], marked'[d])
  BY <1>1, <1>3
<1>6. QED BY <1>4, <1>5 DEF ListGood, OfEach

LEMMA ThreadSet ==
  ASSUME InboxInv, UNCHANGED rows, NEW c \in Conversation, NEW s, ThreadGood(s, Now(c)),
         thread' = [thread EXCEPT ![c] = s]
  PROVE  ThreadsGood'
<1>1. \A d \in Conversation : Now(d)' = Now(d)
  BY DEF rows, Now
<1>2. OfEach(thread) /\ \A d \in Conversation : ThreadGood(thread[d], Now(d))
  BY DEF InboxInv, ThreadsGood
<1>3. \A d \in Conversation : thread'[d] = IF d = c THEN s ELSE thread[d]
  BY <1>2 DEF OfEach
<1>4. OfEach(thread')
  BY <1>2 DEF OfEach
<1>5. \A d \in Conversation : ThreadGood(thread'[d], Now(d)')
  BY <1>1, <1>2, <1>3
<1>6. QED BY <1>4, <1>5 DEF ThreadsGood, OfEach

LEMMA SetActiveStep ==
  ASSUME InboxInv, NEW c \in Conversation, SetActiveConversation(c)
  PROVE  InboxInv'
<1>1. active' = c /\ UNCHANGED <<rows, pending, entry, thread, typing, timers, call>>
  BY DEF SetActiveConversation
<1>2. RowsGood' /\ Ages
  BY <1>1, SameRows
<1>3. QED BY <1>1, <1>2, LeftAlone, CallsWait DEF InboxInv

\* What types no more has neither its place nor its timer.
LEMMA TypingEnds ==
  ASSUME InboxInv, NEW c, typing' = Without(typing, c), timers' = timers \ {c}
  PROVE  TypingGood'
<1>1. /\ typing \in Seq(Conversation) /\ Len(typing) <= TypingLimit
      /\ Range(typing) = timers /\ IsInjective(typing)
  BY DEF InboxInv, TypingGood, TypingIsTimed
<1>2. /\ typing' \in Seq(Conversation) /\ Len(typing') <= Len(typing)
      /\ Range(typing') = timers' /\ IsInjective(typing')
  BY <1>1, WithoutProperties
<1>3. Len(typing) \in Nat /\ Len(typing') \in Nat /\ TypingLimit \in Nat
  BY <1>1, <1>2, LenProperties, LimitsAssumption
<1>4. QED BY <1>1, <1>2, <1>3 DEF TypingGood, TypingIsTimed

LEMMA TypingGoesStaleStep ==
  ASSUME InboxInv, NEW c \in Conversation, TypingGoesStale(c)
  PROVE  InboxInv'
<1>1. /\ typing' = Without(typing, c) /\ timers' = timers \ {c}
      /\ UNCHANGED <<rows, pending, entry, thread, active, call>>
  BY DEF TypingGoesStale, ClearTyping
<1>2. RowsGood' /\ Ages
  BY <1>1, SameRows
<1>3. TypingGood'
  BY <1>1, TypingEnds
<1>4. QED BY <1>1, <1>2, <1>3, LeftAlone, CallsWait DEF InboxInv

\* Whoever types comes last; the oldest go with their timers when they are too many.
LEMMA TypingStarts ==
  ASSUME InboxInv, NEW c \in Conversation, ReceiveTyping(c)
  PROVE  TypingGood'
<1> DEFINE rest == Without(typing, c)
           list == Append(rest, c)
           gone == Excess(list)
<1>1. /\ typing \in Seq(Conversation) /\ Len(typing) <= TypingLimit
      /\ Range(typing) = timers /\ IsInjective(typing)
  BY DEF InboxInv, TypingGood, TypingIsTimed
<1>2. /\ rest \in Seq(Conversation) /\ Range(rest) = timers \ {c} /\ IsInjective(rest)
  BY <1>1, WithoutProperties
<1>3. /\ typing' = SubSeq(list, gone + 1, Len(list))
      /\ timers' = (timers \cup {c}) \ Range(SubSeq(list, 1, gone))
  BY DEF ReceiveTyping, TimersOf, Oldest
<1> HIDE DEF rest
<1>4. list \in Seq(Conversation) /\ Range(list) = timers \cup {c} /\ IsInjective(list)
  BY <1>2, GrownList
<1> HIDE DEF list
<1>5. Len(list) \in Nat /\ TypingLimit \in Nat /\ DOMAIN list = 1 .. Len(list)
  BY <1>4, LenProperties, LimitsAssumption
<1>6. gone \in 0 .. Len(list) /\ Len(list) - gone <= TypingLimit
  BY <1>5 DEF Excess
<1> HIDE DEF gone
<1> DEFINE old == SubSeq(list, 1, gone)
           new == SubSeq(list, gone + 1, Len(list))
<1>7. /\ old \in Seq(Conversation) /\ Len(old) = gone
      /\ \A i \in 1 .. gone : old[i] = list[i]
  <2>1. 1 \in 1 .. Len(list) + 1 /\ gone \in 1 - 1 .. Len(list)
    BY <1>5, <1>6
  <2>2. old \in Seq(Conversation) /\ Len(old) = gone - 1 + 1
        /\ \A i \in 1 .. gone - 1 + 1 : old[i] = list[1 + i - 1]
    BY <1>4, <2>1, PartOfList
  <2> HIDE DEF old
  <2>3. QED BY <1>5, <1>6, <2>2
<1>8. /\ new \in Seq(Conversation) /\ Len(new) = Len(list) - gone /\ IsInjective(new)
      /\ \A i \in 1 .. Len(list) - gone : new[i] = list[gone + i]
  <2>1. gone + 1 \in 1 .. Len(list) + 1 /\ Len(list) \in (gone + 1) - 1 .. Len(list)
    BY <1>5, <1>6
  <2>2. /\ new \in Seq(Conversation) /\ Len(new) = Len(list) - (gone + 1) + 1 /\ IsInjective(new)
        /\ \A i \in 1 .. Len(list) - (gone + 1) + 1 : new[i] = list[(gone + 1) + i - 1]
    BY <1>4, <2>1, PartOfList
  <2> HIDE DEF new
  <2>3. Len(list) - (gone + 1) + 1 = Len(list) - gone
    BY <1>5, <1>6
  <2>4. ASSUME NEW i \in 1 .. Len(list) - gone PROVE new[i] = list[gone + i]
    <3>1. (gone + 1) + i - 1 = gone + i
      BY <1>6
    <3>2. QED BY <2>2, <2>3, <3>1
  <2>5. QED BY <2>2, <2>3, <2>4
<1> HIDE DEF old, new
<1>9. DOMAIN old = 1 .. gone /\ DOMAIN new = 1 .. Len(list) - gone
  BY <1>7, <1>8, LenProperties
<1>10. ASSUME NEW d \in Range(new) PROVE d \in Range(list) \ Range(old)
  <2>1. PICK i \in 1 .. Len(list) - gone : d = new[i]
    BY <1>9 DEF Range
  <2>2. gone + i \in 1 .. Len(list) /\ d = list[gone + i]
    BY <1>5, <1>6, <1>8, <2>1
  <2>3. ASSUME NEW j \in 1 .. gone PROVE old[j] # d
    <3>1. old[j] = list[j] /\ j \in 1 .. Len(list) /\ j # gone + i
      BY <1>5, <1>6, <1>7, <2>1
    <3>2. QED BY <1>4, <1>5, <2>2, <3>1 DEF IsInjective
  <2>4. QED BY <1>5, <1>9, <2>2, <2>3 DEF Range
<1>11. ASSUME NEW d \in Range(list) \ Range(old) PROVE d \in Range(new)
  <2>1. PICK i \in 1 .. Len(list) : d = list[i]
    BY <1>5 DEF Range
  <2>2. i \notin 1 .. gone
    BY <1>7, <1>9, <2>1 DEF Range
  <2>3. i - gone \in 1 .. Len(list) - gone /\ gone + (i - gone) = i
    BY <1>5, <1>6, <2>1, <2>2
  <2>4. new[i - gone] = d
    BY <1>8, <2>1, <2>3
  <2>5. QED BY <1>9, <2>3, <2>4 DEF Range
<1>12. Range(new) = (timers \cup {c}) \ Range(old)
  BY <1>4, <1>10, <1>11
<1>13. typing' = new /\ timers' = (timers \cup {c}) \ Range(old)
  BY <1>3 DEF old, new
<1>14. QED BY <1>6, <1>8, <1>12, <1>13 DEF TypingGood, TypingIsTimed

\* The first event has been delivered.
LEMMA Delivered ==
  ASSUME InboxInv, RowsGood', Ages, pending # <<>>, pending' = Tail(pending)
  PROVE  EventsGood' /\ EventGood(Head(pending), Clock, marked)
<1>1. pending \in Seq(Event) /\ Len(pending) <= MaxPending
  BY DEF InboxInv, EventsGood
<1>2. /\ pending' \in Seq(Event) /\ Len(pending') = Len(pending) - 1
      /\ \A i \in 1 .. Len(pending') : pending'[i] = pending[i + 1]
      /\ Len(pending) \in Nat \ {0} /\ Head(pending) = pending[1]
  BY <1>1, HeadTailProperties, EmptySeq
<1>3. \A i \in 1 .. Len(pending) :
        EventGood(pending[i], Clock, marked) /\ EventGood(pending[i], Clock', marked')
  BY LeftAlone DEF InboxInv, EventsGood
<1>4. EventGood(Head(pending), Clock, marked)
  <2>1. 1 \in 1 .. Len(pending)
    BY <1>2
  <2>2. QED BY <1>2, <1>3, <2>1
<1>5. \A i \in 1 .. Len(pending') : EventGood(pending'[i], Clock', marked')
  <2> SUFFICES ASSUME NEW i \in 1 .. Len(pending') PROVE EventGood(pending'[i], Clock', marked')
    OBVIOUS
  <2>1. i + 1 \in 1 .. Len(pending)
    BY <1>2
  <2>2. QED BY <1>2, <1>3, <2>1
<1>6. Len(pending') <= MaxPending
  BY <1>1, <1>2, LimitsAssumption
<1>7. QED BY <1>2, <1>4, <1>5, <1>6 DEF EventsGood

LEMMA ReceiveMessageStep ==
  ASSUME InboxInv, UNCHANGED rows, EventsGood', NEW c \in Conversation, NEW n \in 1 .. Now(c),
         ReceiveMessage(c, n)
  PROVE  InboxInv'
<1>1. RowsGood' /\ Ages
  BY SameRows
<1> DEFINE isIncoming == written[c][n] = "friend"
           unread == IF isIncoming /\ active # c THEN entry[c].unread + 1 ELSE entry[c].unread
           e == [listed |-> TRUE, unread |-> unread, friendReadAt |-> entry[c].friendReadAt]
<1>2. entry[c] \in [listed : BOOLEAN, unread : Nat, friendReadAt : 0 .. marked[c]]
      /\ entry = [d \in Conversation |-> entry[d]]
  BY DEF InboxInv, ListGood, EntryGood, OfEach
<1>3. entry' = [entry EXCEPT ![c].listed = TRUE,
                             ![c].unread = IF isIncoming /\ active # c THEN @ + 1 ELSE @]
  BY DEF ReceiveMessage
<1>4. entry' = [entry EXCEPT ![c] = e]
  <2>1. \A d \in Conversation : d # c => entry'[d] = entry[d]
    BY <1>2, <1>3
  <2>2. entry'[c] = e
    BY <1>2, <1>3
  <2>3. entry' = [d \in Conversation |-> entry'[d]]
    BY <1>2, <1>3
  <2> HIDE DEF e
  <2>4. QED BY <1>2, <2>1, <2>2, <2>3
<1>5. EntryGood(e, marked'[c])
  BY <1>2 DEF EntryGood, rows
<1>6. ListGood'
  <2> HIDE DEF e
  <2> QED BY <1>1, <1>4, <1>5, EntrySet
<1>7. ThreadsGood'
  <2>1. ThreadGood(thread[c], Now(c)) /\ Now(c) \in Nat
    BY NowIsNat DEF InboxInv, ThreadsGood
  <2>2. ThreadGood(Appended(thread[c], n), Now(c))
    BY <2>1, AppendedKeeps
  <2>3. thread' = [thread EXCEPT ![c] = Appended(thread[c], n)]
    BY DEF ReceiveMessage
  <2>4. QED BY <2>2, <2>3, ThreadSet
<1>8. TypingGood'
  BY TypingEnds DEF ReceiveMessage
<1>9. CallsGood'
  <2>1. CASE UNCHANGED call
    BY <1>1, <2>1, CallsWait
  <2>2. CASE \E k \in Call : Becomes(k, [pc |-> "mark", conv |-> c])
    <3>1. PICK k \in Call : Becomes(k, [pc |-> "mark", conv |-> c])
      BY <2>2
    <3>2. CallGood([pc |-> "mark", conv |-> c], Clock', marked')
      BY DEF CallGood, Talking
    <3>3. QED BY <1>1, <3>1, <3>2, CallGoesOn
  <2>3. QED BY <2>1, <2>2 DEF ReceiveMessage, AskToMark
<1>10. UNCHANGED active
  BY DEF ReceiveMessage
<1>11. QED BY <1>1, <1>6, <1>7, <1>8, <1>9, <1>10 DEF InboxInv

LEMMA MarkReadByFriendStep ==
  ASSUME InboxInv, UNCHANGED rows, EventsGood', NEW c \in Conversation, NEW t \in 0 .. marked[c],
         MarkReadByFriend(c, t)
  PROVE  InboxInv'
<1>1. RowsGood' /\ Ages
  BY SameRows
<1>2. /\ entry' = IF entry[c].listed /\ t # 0
                  THEN [entry EXCEPT ![c].friendReadAt = Later(@, t)] ELSE entry
      /\ UNCHANGED <<thread, active, typing, timers, call>>
  BY DEF MarkReadByFriend
<1>3. /\ entry[c] \in [listed : BOOLEAN, unread : Nat, friendReadAt : 0 .. marked[c]]
      /\ OfEach(entry)
  BY DEF InboxInv, ListGood, EntryGood
<1>4. CASE ~(entry[c].listed /\ t # 0)
  BY <1>1, <1>2, <1>4, LeftAlone, CallsWait DEF InboxInv
<1>5. CASE entry[c].listed /\ t # 0
  <2> DEFINE e == [entry[c] EXCEPT !.friendReadAt = Later(@, t)]
  <2>1. entry' = [entry EXCEPT ![c] = e]
    BY <1>2, <1>5
  <2>2. EntryGood(e, marked'[c])
    <3>1. Later(entry[c].friendReadAt, t) \in 0 .. marked[c]
      BY <1>3 DEF Later
    <3>2. QED BY <1>3, <3>1 DEF EntryGood, rows
  <2> HIDE DEF e
  <2>3. ListGood'
    BY <1>1, <2>1, <2>2, EntrySet
  <2>4. QED BY <1>1, <1>2, <2>3, LeftAlone, CallsWait DEF InboxInv
<1>6. QED BY <1>4, <1>5

LEMMA DeliverStep ==
  ASSUME InboxInv, Deliver
  PROVE  InboxInv'
<1> DEFINE e == Head(pending)
<1>1. UNCHANGED rows /\ pending # <<>> /\ pending' = Tail(pending)
  BY DEF Deliver
<1>2. RowsGood' /\ Ages
  BY <1>1, SameRows
<1>3. EventsGood' /\ EventGood(e, Clock, marked)
  BY <1>1, <1>2, Delivered
<1> HIDE DEF e
<1>4. e.conv \in Conversation
  BY <1>3 DEF EventGood, Event
<1>5. CASE e.type = "private_message" /\ ReceiveMessage(e.conv, e.at)
  <2>1. e.at \in 1 .. Now(e.conv)
    BY <1>3, <1>4, <1>5 DEF EventGood, Clock
  <2>2. QED BY <1>1, <1>3, <1>4, <1>5, <2>1, ReceiveMessageStep
<1>6. CASE e.type = "conversation_read" /\ MarkReadByFriend(e.conv, e.at)
  <2>1. e.at \in 0 .. marked[e.conv]
    BY <1>3, <1>6 DEF EventGood
  <2>2. QED BY <1>1, <1>3, <1>4, <1>6, <2>1, MarkReadByFriendStep
<1>7. CASE e.type = "typing" /\ ReceiveTyping(e.conv)
  <2>1. UNCHANGED <<entry, thread, active, call>>
    BY <1>7 DEF ReceiveTyping
  <2>2. TypingGood'
    BY <1>4, <1>7, TypingStarts
  <2>3. QED BY <1>2, <1>3, <2>1, <2>2, LeftAlone, CallsWait DEF InboxInv
<1>8. CASE e.type = "stop_typing" /\ ClearTyping(e.conv)
  <2>1. /\ UNCHANGED <<entry, thread, active, call>>
        /\ typing' = Without(typing, e.conv) /\ timers' = timers \ {e.conv}
    BY <1>8 DEF ClearTyping
  <2>2. TypingGood'
    BY <2>1, TypingEnds
  <2>3. QED BY <1>2, <1>3, <2>1, <2>2, LeftAlone, CallsWait DEF InboxInv
<1>9. QED BY <1>5, <1>6, <1>7, <1>8 DEF Deliver, e

\* A request that reads leaves everything else alone.
LEMMA ReadStep ==
  ASSUME InboxInv, NEW k \in Call, NEW next, Becomes(k, next), UNCHANGED <<rows, pending, inboxStore>>,
         CallGood(next, Clock, marked)
  PROVE  InboxInv'
<1>1. RowsGood' /\ Ages
  BY SameRows
<1>2. CallGood(next, Clock', marked')
  BY <1>1, LeftAlone
<1>3. CallsGood'
  BY <1>1, <1>2, CallGoesOn
<1>4. QED BY <1>1, <1>3, LeftAlone DEF InboxInv, inboxStore

LEMMA IdleIsGood == \A clock, marks : CallGood(Idle, clock, marks)
BY DEF CallGood, Idle, Talking

LEMMA PageStep ==
  ASSUME InboxInv, NEW k \in Call, Page(k)
  PROVE  InboxInv'
<1>1. CASE LoadConversations(k)
  <2>1. CallGood([pc |-> "list"], Clock, marked)
    BY DEF CallGood, Talking
  <2>2. QED BY <1>1, <2>1, ReadStep DEF LoadConversations, Request
<1>2. CASE LoadMessages(k)
  <2>1. active \in Conversation
    BY <1>2 DEF LoadMessages, InboxInv
  <2>2. CallGood([pc |-> "open", conv |-> active], Clock, marked)
    BY <2>1 DEF CallGood, Talking
  <2>3. QED BY <1>2, <2>2, ReadStep DEF LoadMessages, Request
<1>3. CASE MarkAllRead(k)
  <2>1. /\ entry' = [c \in Conversation |-> [entry[c] EXCEPT !.unread = 0]]
        /\ Becomes(k, [pc |-> "markAll"])
        /\ UNCHANGED <<rows, pending, thread, active, typing, timers>>
    BY <1>3 DEF MarkAllRead
  <2>2. RowsGood' /\ Ages
    BY <2>1, SameRows
  <2>3. ListGood'
    <3>1. \A c \in Conversation : EntryGood(entry[c], marked[c])
      BY DEF InboxInv, ListGood
    <3>2. \A c \in Conversation : EntryGood([entry[c] EXCEPT !.unread = 0], marked[c])
      BY <3>1 DEF EntryGood
    <3>3. UNCHANGED marked
      BY <2>1 DEF rows
    <3>4. OfEach(entry')
      BY <2>1 DEF OfEach
    <3>5. QED BY <2>1, <3>2, <3>3, <3>4 DEF ListGood
  <2>4. CallGood([pc |-> "markAll"], Clock', marked')
    BY DEF CallGood, Talking
  <2>5. CallsGood'
    BY <2>1, <2>2, <2>4, CallGoesOn
  <2>6. QED BY <2>1, <2>2, <2>3, <2>5, LeftAlone DEF InboxInv
<1>4. ASSUME NEW c \in Conversation, EnsureConversation(k, c) PROVE InboxInv'
  <2>1. CallGood([pc |-> "ensure", conv |-> c], Clock, marked)
    BY DEF CallGood, Talking
  <2>2. QED BY <1>4, <2>1, ReadStep DEF EnsureConversation, Request
<1>5. QED BY <1>1, <1>2, <1>3, <1>4 DEF Page

\* What a list answers: the friend's cursor as it was, and a count.
LEMMA CountRowsStep ==
  ASSUME InboxInv, NEW k \in Call, CountRows(k)
  PROVE  InboxInv'
<1> DEFINE read == call[k].rows
           entries == [c \in Conversation |-> Dto(read[c], UnreadSince(c, read[c].me))]
           next == [pc |-> "listed", entries |-> entries]
<1>1. call[k].pc = "count" /\ Becomes(k, next) /\ UNCHANGED <<rows, pending, inboxStore>>
  BY DEF CountRows, At, Reads
<1>2. \A c \in Conversation : CursorsGood(read[c], Clock[c], marked[c])
  BY <1>1 DEF InboxInv, CallsGood, CallGood
<1> HIDE DEF read
<1>3. \A c \in Conversation : EntryGood(entries[c], marked[c])
  <2> SUFFICES ASSUME NEW c \in Conversation PROVE EntryGood(entries[c], marked[c])
    OBVIOUS
  <2>1. UnreadSince(c, read[c].me) \in Nat
    BY UnreadIsNat DEF InboxInv
  <2>2. Clock[c] \in Nat /\ marked[c] \in Nat
    BY NowIsNat DEF InboxInv, RowsGood
  <2>3. QED BY <1>2, <2>1, <2>2, DtoIsGood DEF InboxInv
<1>4. OfEach(entries)
  BY DEF OfEach
<1> HIDE DEF entries
<1>5. CallGood(next, Clock, marked)
  BY <1>3, <1>4 DEF CallGood, Talking
<1> HIDE DEF next
<1>6. QED BY <1>1, <1>5, ReadStep

LEMMA ListStep ==
  ASSUME InboxInv, NEW k \in Call, ListRows(k) \/ AnswerConversations(k)
  PROVE  InboxInv'
<1>1. CASE ListRows(k)
  <2> DEFINE next == [pc |-> "count", rows |-> readAt]
  <2>1. Becomes(k, next) /\ UNCHANGED <<rows, pending, inboxStore>>
    BY <1>1 DEF ListRows, Reads
  <2>2. \A c \in Conversation : CursorsGood(readAt[c], Clock[c], marked[c])
    BY NowIsNat DEF InboxInv, RowsGood
  <2>3. CallGood(next, Clock, marked)
    BY <2>2 DEF CallGood, Talking
  <2> HIDE DEF next
  <2>4. QED BY <2>1, <2>3, ReadStep
<1>2. CASE AnswerConversations(k)
  <2>1. /\ call[k].pc = "listed" /\ entry' = call[k].entries /\ Becomes(k, Idle)
        /\ UNCHANGED <<rows, pending, thread, active, typing, timers>>
    BY <1>2 DEF AnswerConversations, At
  <2>2. RowsGood' /\ Ages
    BY <2>1, SameRows
  <2>3. ListGood'
    <3>1. /\ OfEach(call[k].entries)
          /\ \A c \in Conversation : EntryGood(call[k].entries[c], marked[c])
      BY <2>1 DEF InboxInv, CallsGood, CallGood
    <3>2. UNCHANGED marked
      BY <2>1 DEF rows
    <3>3. QED BY <2>1, <3>1, <3>2 DEF ListGood
  <2>4. CallsGood'
    BY <2>1, <2>2, IdleIsGood, CallGoesOn
  <2>5. QED BY <2>1, <2>2, <2>3, <2>4, LeftAlone DEF InboxInv
<1>3. QED BY <1>1, <1>2

LEMMA EnsureStep ==
  ASSUME InboxInv, NEW k \in Call, FindConversation(k) \/ CountRow(k) \/ AnswerConversation(k)
  PROVE  InboxInv'
<1> DEFINE c == call[k].conv
<1>1. CallGood(call[k], Clock, marked)
  BY DEF InboxInv, CallsGood
<1>2. c \in Conversation
  BY <1>1 DEF FindConversation, CountRow, AnswerConversation, At, CallGood, Talking
<1>3. Now(c) \in Nat /\ Clock[c] = Now(c) /\ marked[c] \in Nat
  BY <1>2, NowIsNat DEF InboxInv, RowsGood
<1>4. CASE FindConversation(k)
  <2> DEFINE next == [pc |-> "found", conv |-> c, row |-> readAt[c]]
  <2>1. Becomes(k, next) /\ UNCHANGED <<rows, pending, inboxStore>>
    BY <1>4 DEF FindConversation, Reads
  <2>2. CursorsGood(readAt[c], Clock[c], marked[c])
    BY <1>2, <1>3 DEF InboxInv, RowsGood
  <2> HIDE DEF c
  <2>3. CallGood(next, Clock, marked)
    BY <1>2, <2>2 DEF CallGood, Talking
  <2> HIDE DEF next
  <2>4. QED BY <2>1, <2>3, ReadStep
<1>5. CASE CountRow(k)
  <2> DEFINE row == call[k].row
             e == Dto(row, UnreadSince(c, row.me))
             next == [pc |-> "ensured", conv |-> c, entry |-> e]
  <2>1. call[k].pc = "found" /\ Becomes(k, next) /\ UNCHANGED <<rows, pending, inboxStore>>
    BY <1>5 DEF CountRow, At, Reads
  <2>2. CursorsGood(row, Clock[c], marked[c])
    BY <1>1, <2>1 DEF CallGood
  <2> HIDE DEF c, row
  <2>3. EntryGood(e, marked[c])
    <3>1. UnreadSince(c, row.me) \in Nat
      BY <1>2, UnreadIsNat DEF InboxInv
    <3>2. QED BY <1>2, <1>3, <2>2, <3>1, DtoIsGood DEF InboxInv
  <2> HIDE DEF e
  <2>4. CallGood(next, Clock, marked)
    BY <1>2, <2>3 DEF CallGood, Talking
  <2> HIDE DEF next
  <2>5. QED BY <2>1, <2>4, ReadStep
<1>6. CASE AnswerConversation(k)
  <2>1. /\ call[k].pc = "ensured" /\ entry' = [entry EXCEPT ![c] = call[k].entry] /\ active' = c
        /\ Becomes(k, Idle) /\ UNCHANGED <<rows, pending, thread, typing, timers>>
    BY <1>6 DEF AnswerConversation, At
  <2>2. RowsGood' /\ Ages
    BY <2>1, SameRows
  <2>3. EntryGood(call[k].entry, marked'[c])
    BY <1>1, <2>1 DEF CallGood, rows
  <2>4. ListGood'
    BY <1>2, <2>1, <2>2, <2>3, EntrySet
  <2>5. CallsGood'
    BY <2>1, <2>2, IdleIsGood, CallGoesOn
  <2>6. QED BY <1>2, <2>1, <2>2, <2>4, <2>5, LeftAlone DEF InboxInv
<1>7. QED BY <1>4, <1>5, <1>6

LEMMA TakeTimeStep ==
  ASSUME InboxInv, NEW k \in Call, TakeTime(k)
  PROVE  InboxInv'
<1> DEFINE c == call[k].conv
<1>1. CallGood(call[k], Clock, marked)
  BY DEF InboxInv, CallsGood
<1>2. \A d \in Conversation : Now(d) \in 0 .. Clock[d]
  BY NowIsNat DEF InboxInv
<1>3. ASSUME NEW pc \in {"openWrite", "markWrite"}, c \in Conversation,
             Reads(k, [pc |-> pc, conv |-> c, at |-> Now(c)])
      PROVE  InboxInv'
  <2> DEFINE next == [pc |-> pc, conv |-> c, at |-> Now(c)]
  <2>1. Becomes(k, next) /\ UNCHANGED <<rows, pending, inboxStore>>
    BY <1>3 DEF Reads
  <2>2. Now(c) \in 0 .. Clock[c]
    BY <1>2, <1>3
  <2> HIDE DEF c
  <2>3. CallGood(next, Clock, marked)
    BY <1>3, <2>2 DEF CallGood, Talking
  <2> HIDE DEF next
  <2>4. QED BY <2>1, <2>3, ReadStep
<1>4. CASE At(k, "open") /\ Reads(k, [pc |-> "openWrite", conv |-> c, at |-> Now(c)])
  <2>1. c \in Conversation
    BY <1>1, <1>4 DEF At, CallGood, Talking
  <2>2. QED BY <1>3, <1>4, <2>1
<1>5. CASE At(k, "mark") /\ Reads(k, [pc |-> "markWrite", conv |-> c, at |-> Now(c)])
  <2>1. c \in Conversation
    BY <1>1, <1>5 DEF At, CallGood, Talking
  <2>2. QED BY <1>3, <1>5, <2>1
<1>6. CASE Reads(k, [pc |-> "markAllWrite", times |-> [d \in Conversation |-> Now(d)],
                     left |-> Conversation])
  <2> DEFINE times == [d \in Conversation |-> Now(d)]
             next == [pc |-> "markAllWrite", times |-> times, left |-> Conversation]
  <2>1. Becomes(k, next) /\ UNCHANGED <<rows, pending, inboxStore>>
    BY <1>6 DEF Reads
  <2>2. \A d \in Conversation : times[d] \in 0 .. Clock[d]
    BY <1>2
  <2> HIDE DEF times
  <2>3. MarksAll(next)
    BY DEF MarksAll
  <2>4. /\ next.pc = "markAllWrite" /\ next.times = times /\ next.left = Conversation
    OBVIOUS
  <2> HIDE DEF next
  <2>5. CallGood(next, Clock, marked)
    BY <2>2, <2>3, <2>4 DEF CallGood, Talking
  <2>6. QED BY <2>1, <2>5, ReadStep
<1>7. QED BY <1>4, <1>5, <1>6 DEF TakeTime

LEMMA WriteReadStep ==
  ASSUME InboxInv, NEW k \in Call, WriteRead(k)
  PROVE  InboxInv'
<1> DEFINE c == call[k].conv
<1>1. CallGood(call[k], Clock, marked)
  BY DEF InboxInv, CallsGood
<1>2. UNCHANGED <<written, uncommitted, marked, pending, inboxStore>>
  BY DEF WriteRead
<1>3. ASSUME NEW d \in Conversation, NEW t \in 0 .. Clock[d], MarkRead(d, t), NEW next,
             Becomes(k, next), CallGood(next, Clock, marked)
      PROVE  InboxInv'
  <2>1. t \in 0 .. Now(d)
    BY <1>3, NowIsNat DEF InboxInv
  <2>2. RowsGood' /\ Ages
    BY <1>2, <1>3, <2>1, MarkKeepsRows
  <2>3. CallGood(next, Clock', marked')
    BY <1>3, <2>2, LeftAlone
  <2>4. CallsGood'
    BY <1>3, <2>2, <2>3, CallGoesOn
  <2>5. QED BY <1>2, <2>2, <2>4, LeftAlone DEF InboxInv, inboxStore
<1>4. CASE At(k, "openWrite") /\ MarkRead(c, call[k].at) /\ Becomes(k, [pc |-> "thread", conv |-> c])
  <2>1. c \in Conversation /\ call[k].at \in 0 .. Clock[c]
    BY <1>1, <1>4 DEF At, CallGood, Talking
  <2> HIDE DEF c
  <2>2. CallGood([pc |-> "thread", conv |-> c], Clock, marked)
    BY <2>1 DEF CallGood, Talking
  <2>3. QED BY <1>3, <1>4, <2>1, <2>2
<1>5. CASE At(k, "markWrite") /\ MarkRead(c, call[k].at) /\ Becomes(k, Idle)
  <2>1. c \in Conversation /\ call[k].at \in 0 .. Clock[c]
    BY <1>1, <1>5 DEF At, CallGood, Talking
  <2>2. QED BY <1>3, <1>5, <2>1, IdleIsGood
<1>6. ASSUME At(k, "markAllWrite"), NEW d \in call[k].left, MarkRead(d, call[k].times[d]),
             Becomes(k, IF call[k].left = {d} THEN Idle ELSE [call[k] EXCEPT !.left = @ \ {d}])
      PROVE  InboxInv'
  <2> DEFINE times == call[k].times
             left == call[k].left
             next == [call[k] EXCEPT !.left = left \ {d}]
  <2>1. /\ call[k] = [pc |-> "markAllWrite", times |-> times, left |-> left]
        /\ left \subseteq Conversation
        /\ \A x \in Conversation : times[x] \in 0 .. Clock[x]
    BY <1>1, <1>6 DEF At, CallGood, MarksAll
  <2>2. d \in Conversation /\ times[d] \in 0 .. Clock[d]
    BY <1>6, <2>1
  <2> HIDE DEF times, left
  <2>3. next = [pc |-> "markAllWrite", times |-> times, left |-> left \ {d}]
    BY <2>1
  <2>4. next.pc = "markAllWrite" /\ next.times = times /\ next.left = left \ {d}
    BY <2>3
  <2>5. MarksAll(next)
    BY <2>3, <2>4 DEF MarksAll
  <2>6. CallGood(next, Clock, marked)
    <3> HIDE DEF next
    <3> QED BY <2>1, <2>4, <2>5 DEF CallGood, Talking
  <2>7. Becomes(k, IF left = {d} THEN Idle ELSE next)
    BY <1>6 DEF left
  <2> HIDE DEF next
  <2>8. MarkRead(d, times[d])
    BY <1>6 DEF times
  <2>9. QED BY <1>3, <2>2, <2>6, <2>7, <2>8, IdleIsGood
<1>7. QED BY <1>4, <1>5, <1>6 DEF WriteRead

LEMMA ThreadStep ==
  ASSUME InboxInv, NEW k \in Call, ListMessages(k) \/ RefreshRow(k) \/ AnswerMessages(k)
  PROVE  InboxInv'
<1> DEFINE c == call[k].conv
<1>1. CallGood(call[k], Clock, marked)
  BY DEF InboxInv, CallsGood
<1>2. c \in Conversation
  BY <1>1 DEF ListMessages, RefreshRow, AnswerMessages, At, CallGood, Talking
<1>3. Now(c) \in Nat /\ Clock[c] = Now(c) /\ marked[c] \in Nat
  BY <1>2, NowIsNat DEF InboxInv, RowsGood
<1>4. CASE ListMessages(k)
  <2>1. PICK messages \in Listed(c) :
          Reads(k, [pc |-> "refresh", conv |-> c, messages |-> messages])
    BY <1>4 DEF ListMessages
  <2> DEFINE next == [pc |-> "refresh", conv |-> c, messages |-> messages]
  <2>2. Becomes(k, next) /\ UNCHANGED <<rows, pending, inboxStore>>
    BY <2>1 DEF Reads
  <2>3. ThreadGood(messages, Clock[c])
    BY <1>2, <1>3, ListedIsGood DEF InboxInv
  <2> HIDE DEF c
  <2>4. CallGood(next, Clock, marked)
    BY <1>2, <2>3 DEF CallGood, Talking
  <2> HIDE DEF next
  <2>5. QED BY <2>2, <2>4, ReadStep
<1>5. CASE RefreshRow(k)
  <2> DEFINE messages == call[k].messages
             e == Dto(readAt[c], 0)
             next == [pc |-> "answer", conv |-> c, messages |-> messages, entry |-> e]
  <2>1. /\ call[k].pc = "refresh" /\ Becomes(k, next) /\ UNCHANGED <<rows, pending, inboxStore>>
    BY <1>5 DEF RefreshRow, At, Reads
  <2>2. ThreadGood(messages, Clock[c])
    BY <1>1, <2>1 DEF CallGood
  <2>3. EntryGood(e, marked[c])
    <3>1. CursorsGood(readAt[c], Now(c), marked[c])
      BY <1>2 DEF InboxInv, RowsGood
    <3>2. QED BY <1>2, <1>3, <3>1, DtoIsGood DEF InboxInv
  <2> HIDE DEF c, messages, e
  <2>4. CallGood(next, Clock, marked)
    BY <1>2, <2>2, <2>3 DEF CallGood, Talking
  <2> HIDE DEF next
  <2>5. QED BY <2>1, <2>4, ReadStep
<1>6. CASE AnswerMessages(k)
  <2>1. /\ call[k].pc = "answer" /\ entry' = [entry EXCEPT ![c] = call[k].entry]
        /\ thread' = [thread EXCEPT ![c] = Newest(call[k].messages)]
        /\ Becomes(k, Idle) /\ UNCHANGED <<rows, pending, active, typing, timers>>
    BY <1>6 DEF AnswerMessages, At
  <2>2. RowsGood' /\ Ages
    BY <2>1, SameRows
  <2>3. EntryGood(call[k].entry, marked'[c]) /\ ThreadGood(call[k].messages, Now(c))
    BY <1>1, <1>3, <2>1 DEF CallGood, rows
  <2>4. ListGood'
    BY <1>2, <2>1, <2>2, <2>3, EntrySet
  <2>5. ThreadGood(Newest(call[k].messages), Now(c))
    BY <2>3, NewestKeeps DEF ThreadGood
  <2>6. ThreadsGood'
    BY <1>2, <2>1, <2>5, ThreadSet
  <2>7. CallsGood'
    BY <2>1, <2>2, IdleIsGood, CallGoesOn
  <2>8. QED BY <2>1, <2>2, <2>4, <2>6, <2>7, LeftAlone DEF InboxInv
<1>7. QED BY <1>4, <1>5, <1>6

LEMMA FailStep ==
  ASSUME InboxInv, NEW k \in Call, Fail(k)
  PROVE  InboxInv'
<1>1. CallGood([pc |-> "list"], Clock, marked) /\ CallGood(Idle, Clock, marked)
  <2>1. CallGood([pc |-> "list"], Clock, marked)
    BY DEF CallGood, Talking
  <2>2. QED BY <2>1, IdleIsGood
<1>2. /\ Becomes(k, [pc |-> "list"]) \/ Becomes(k, Idle)
      /\ UNCHANGED <<rows, pending, inboxStore>>
  BY DEF Fail, Reads
<1>3. QED BY <1>1, <1>2, ReadStep

LEMMA InboxStep ==
  ASSUME InboxInv, [InboxNext]_inbox
  PROVE  InboxInv'
<1>1. CASE UNCHANGED inbox
  <2>1. RowsGood' /\ Ages
    BY <1>1, SameRows DEF inbox
  <2>2. QED BY <1>1, <2>1, LeftAlone, CallsWait DEF inbox, inboxStore, InboxInv
<1>2. CASE Server
  BY <1>2, ServerStep
<1>3. CASE Deliver
  BY <1>3, DeliverStep
<1>4. ASSUME NEW c \in Conversation, SetActiveConversation(c) \/ TypingGoesStale(c)
      PROVE  InboxInv'
  BY <1>4, SetActiveStep, TypingGoesStaleStep
<1>5. ASSUME NEW k \in Call, Page(k) PROVE InboxInv'
  BY <1>5, PageStep
<1>6. ASSUME NEW k \in Call, Proceed(k) PROVE InboxInv'
  BY <1>6, ListStep, CountRowsStep, EnsureStep, TakeTimeStep, WriteReadStep, ThreadStep, FailStep
     DEF Proceed
<1>7. QED BY <1>1, <1>2, <1>3, <1>4, <1>5, <1>6 DEF InboxNext

THEOREM InboxInvariant == InboxSpec => []InboxInv
BY InboxInitHolds, InboxStep, PTL DEF InboxSpec

\* The two sides of a conversation write what its bound allows, so no time is out of bounds.
LEMMA TimesAreBounded ==
  ASSUME RowsGood, NEW c \in Conversation
  PROVE  Now(c) \in Time(c) /\ 0 .. Now(c) \subseteq Time(c)
<1>1. Now(c) \in Nat /\ Messages(c) = 1 .. Now(c) /\ \A n \in Messages(c) : written[c][n] \in Sender
  BY NowIsNat
<1> DEFINE Mine == SentBy(c, "me")
           Theirs == SentBy(c, "friend")
<1>2. Mine \cup Theirs = 1 .. Now(c) /\ Mine \cap Theirs = {}
  BY <1>1 DEF SentBy, Sender
<1>3. IsFiniteSet(1 .. Now(c)) /\ Cardinality(1 .. Now(c)) = Now(c)
  BY <1>1, FS_Interval
<1>4. Cardinality(Mine) <= MaxMessage[c] /\ Cardinality(Theirs) <= MaxMessage[c]
  BY DEF RowsGood, Sender
<1> HIDE DEF Mine, Theirs
<1>5. IsFiniteSet(Mine) /\ IsFiniteSet(Theirs)
  <2>1. Mine \subseteq 1 .. Now(c) /\ Theirs \subseteq 1 .. Now(c)
    BY <1>2
  <2>2. QED BY <1>3, <2>1, FS_Subset
<1>6. Cardinality(Mine) \in Nat /\ Cardinality(Theirs) \in Nat /\ Cardinality({}) = 0
  BY <1>5, FS_CardinalityType, FS_EmptySet
<1>7. Now(c) = Cardinality(Mine) + Cardinality(Theirs)
  <2>1. Cardinality(Mine \cup Theirs)
          = Cardinality(Mine) + Cardinality(Theirs) - Cardinality(Mine \cap Theirs)
    BY <1>5, FS_Union
  <2>2. Cardinality(Mine \cap Theirs) = 0
    BY <1>2, FS_EmptySet
  <2>3. Cardinality(Mine \cup Theirs) = Now(c)
    BY <1>2, <1>3
  <2>4. QED BY <1>6, <2>1, <2>2, <2>3
<1>8. Now(c) <= 2 * MaxMessage[c] /\ MaxMessage[c] \in Nat
  BY <1>4, <1>6, <1>7, LimitsAssumption
<1>9. QED BY <1>1, <1>8 DEF Time

LEMMA InvTyped == InboxInv => InboxTypeOK
<1> SUFFICES ASSUME InboxInv PROVE InboxTypeOK
  OBVIOUS
<1>1. ASSUME NEW c \in Conversation
      PROVE  /\ Now(c) \in Time(c)
             /\ readAt[c] \in [me : Time(c), friend : Time(c)]
             /\ marked[c] \in Time(c)
             /\ entry[c] \in [listed : BOOLEAN, unread : Nat, friendReadAt : Time(c)]
             /\ thread[c] \in Seq(Messages(c)) /\ Len(thread[c]) <= ThreadLimit
  <2>1. Now(c) \in Time(c) /\ 0 .. Now(c) \subseteq Time(c) /\ marked[c] \in 0 .. Now(c)
        /\ Now(c) \in Nat /\ Messages(c) = 1 .. Now(c)
    BY TimesAreBounded, NowIsNat DEF InboxInv
  <2>2. 0 .. marked[c] \subseteq Time(c)
    BY <2>1
  <2>3. CursorsGood(readAt[c], Now(c), marked[c])
    BY DEF InboxInv, RowsGood
  <2>4. EntryGood(entry[c], marked[c])
    BY DEF InboxInv, ListGood
  <2>5. ThreadGood(thread[c], Now(c))
    BY DEF InboxInv, ThreadsGood
  <2> HIDE DEF Time
  <2>6. readAt[c] \in [me : Time(c), friend : Time(c)]
    BY <2>1, <2>2, <2>3 DEF CursorsGood
  <2>7. entry[c] \in [listed : BOOLEAN, unread : Nat, friendReadAt : Time(c)]
    BY <2>2, <2>4 DEF EntryGood
  <2>8. thread[c] \in Seq(Messages(c)) /\ Len(thread[c]) <= ThreadLimit
    BY <2>1, <2>5 DEF ThreadGood
  <2>9. marked[c] \in Time(c)
    BY <2>1
  <2>10. QED BY <2>1, <2>6, <2>7, <2>8, <2>9
<1>2. written \in [Conversation -> Seq(Sender)]
      /\ \A m \in uncommitted : m[1] \in Conversation /\ m[2] \in Messages(m[1])
  BY DEF InboxInv, RowsGood
<1>3. /\ active \in Conversation \cup {NoConversation}
      /\ Len(typing) <= TypingLimit /\ Len(pending) <= MaxPending
  BY DEF InboxInv, TypingGood, EventsGood
<1>4. timers \subseteq Conversation
  <2>1. typing \in Seq(Conversation) /\ Range(typing) = timers
    BY DEF InboxInv, TypingGood, TypingIsTimed
  <2>2. DOMAIN typing = 1 .. Len(typing) /\ \A i \in 1 .. Len(typing) : typing[i] \in Conversation
    BY <2>1, LenProperties, ElementOfSeq
  <2>3. QED BY <2>1, <2>2 DEF Range
<1>5. QED BY <1>1, <1>2, <1>3, <1>4 DEF InboxTypeOK

-----------------------------------------------------------------------------
(* The theorems of the inbox.                                              *)

\* Every variable of the inbox keeps its type, and threads, typing entries and events on the way
\* their limits, whatever answers and events come.
THEOREM InboxTypes == InboxSpec => []InboxTypeOK
BY InboxInvariant, InvTyped, PTL

\* A message is in its thread once, by whichever of socket and answer it came
\* (appendMessage, loadMessages).
THEOREM MessagesAreNotDoubled == InboxSpec => []NoMessageTwice
<1>1. InboxInv => NoMessageTwice
  BY DEF InboxInv, ThreadsGood, ThreadGood, NoMessageTwice
<1>2. QED BY <1>1, InboxInvariant, PTL

\* What shows as seen has been marked by the friend at that time or later: no answer that was
\* under way, and no event, shows a receipt that was not given.
THEOREM ReceiptsWereGiven == InboxSpec => []SeenWasRead
<1>1. InboxInv => SeenWasRead
  <2> SUFFICES ASSUME InboxInv, NEW c \in Conversation PROVE entry[c].friendReadAt <= marked[c]
    BY DEF SeenWasRead
  <2>1. EntryGood(entry[c], marked[c]) /\ marked[c] \in Nat
    BY DEF InboxInv, ListGood, RowsGood
  <2>2. QED BY <2>1 DEF EntryGood
<1>2. QED BY <1>1, InboxInvariant, PTL

\* Whoever shows as typing has a timer that ends it, and a timer has an entry to end, also when
\* limitTypingEntries has dropped the oldest.
THEOREM TypingEntriesAreTimed == InboxSpec => []TypingIsTimed
<1>1. InboxInv => TypingIsTimed
  BY DEF InboxInv, TypingGood
<1>2. QED BY <1>1, InboxInvariant, PTL
=============================================================================
