---------------------------- MODULE ClientSession ----------------------------
(***************************************************************************)
(* One browser tab, its sessions one after the other, and what its stores  *)
(* hold of whom (client/src/stores: useAuthStore, createSessionStore,      *)
(* sessionTeardown, sessionGuard, useSocketStore, socketSessionHandlers,   *)
(* and the loads of the session stores).                                   *)
(*                                                                         *)
(* A session is its token, and every sign-in has a new one.  The token is  *)
(* in localStorage, which other tabs share, and in the auth store, which   *)
(* they do not.  Calls to the server are answered in any order, or fail,   *)
(* or are refused with 401.  What a load brings is reduced to the session  *)
(* it was asked under.                                                     *)
(***************************************************************************)
EXTENDS Integers, FiniteSets

CONSTANTS MaxTokens,       \* bound: sign-ins
          MaxCalls,        \* bound: calls under way in the tab
          OtherTabs,       \* does another tab sign in and out?
          None

ASSUME BoundAssumption == MaxTokens \in Nat /\ MaxCalls \in Nat
ASSUME TabAssumption == OtherTabs \in BOOLEAN
ASSUME NoneIsNoToken == None \notin Nat

VARIABLES issued,          \* how many tokens the server has given
          stored,          \* localStorage: the token the tabs share, or None
          auth,            \* the auth store's token, or None
          user,            \* the session whose user the auth store shows, or None
          store,           \* the sessions whose data the session stores hold
          revived,         \* history: has a save shown a user without a session since then?
          loading,         \* isLoading: every page but 42's is a spinner
          callback,        \* is 42's callback page open, its login not answered yet?
          calls,           \* calls under way
          transport,       \* the token the socket's connection was opened with, or None
          handlers,        \* the token its handlers were built for, or None
          effect           \* the token App's socket effect last ran for, or None

session == <<issued, stored>>
page == <<auth, user, store, revived>>
view == <<loading, callback>>
socket == <<transport, handlers, effect>>
vars == <<session, page, view, calls, socket>>

-----------------------------------------------------------------------------
Token == 1 .. MaxTokens

\* "boot" is the App before its init; a login has no token yet, nor has 42's ("callback").
Kind == {"boot", "login", "callback", "init", "refresh", "load", "save", "end"}
Tokenless == {"boot", "login", "callback"}

Init ==
  /\ issued = 0 /\ stored = None
  /\ auth = None /\ user = None /\ store = {} /\ calls = {} /\ revived = FALSE
  /\ loading = FALSE /\ callback = FALSE
  /\ transport = None /\ handlers = None /\ effect = None

Disconnect == transport' = None /\ handlers' = None

\* A teardown that leaves the stores alone when a token follows a token.
TeardownAtSignOut(token) ==
  IF auth # None /\ token = None
  THEN store' = {} /\ Disconnect
  ELSE UNCHANGED <<store, transport, handlers>>

\* initSessionTeardown's subscription, which runs inside the change of the auth store.
Teardown(token) ==
  IF auth # None /\ auth # token
  THEN store' = {} /\ Disconnect
  ELSE UNCHANGED <<store, transport, handlers>>

SetAuth(token, whose) ==
  auth' = token /\ user' = whose /\ Teardown(token) /\ UNCHANGED revived

SignedOut == SetAuth(None, None)

Ask(kind, token) ==
  /\ Cardinality(calls) < MaxCalls
  /\ calls' = calls \cup {[kind |-> kind, token |-> token]}

\* get().token || getStoredToken()
ActiveToken == IF auth # None THEN auth ELSE stored

Answered(c) == calls' = calls \ {c}

Booted == \A c \in calls : c.kind # "boot"

\* What the pages behind ProtectedRoute, and what the login page, wait for.
SignedIn == user # None /\ ~loading /\ ~callback

SignedOff == Booted /\ user = None /\ ~loading /\ ~callback

-----------------------------------------------------------------------------
(* The page and the auth store.                                            *)

\* The page is loaded, perhaps at 42's callback: the auth store starts with the token that is
\* stored, and is loading if there is one.
Reload ==
  /\ auth' = stored /\ user' = None /\ store' = {} /\ revived' = FALSE
  /\ calls' = {[kind |-> "boot", token |-> stored]}
  /\ transport' = None /\ handlers' = None /\ effect' = None
  /\ loading' = (stored # None) /\ callback' \in BOOLEAN
  /\ UNCHANGED session

HasStoredToken == stored # None

\* init reads the stored token again.
AuthInit(c) ==
  /\ c.kind = "boot"
  /\ calls' = (calls \ {c}) \cup
       IF HasStoredToken THEN {[kind |-> "init", token |-> stored]} ELSE {}
  /\ loading' = (loading /\ HasStoredToken)
  /\ UNCHANGED <<session, page, callback, socket>>

InitDone(c) ==
  /\ c.kind = "init" /\ Answered(c)
  /\ SetAuth(c.token, c.token) /\ loading' = FALSE
  /\ UNCHANGED <<session, callback, effect>>

\* Any failure at all ends the session, for every tab.
InitFails(c) ==
  /\ c.kind = "init" /\ Answered(c)
  /\ stored' = None /\ SignedOut /\ loading' = FALSE
  /\ UNCHANGED <<issued, callback, effect>>

\* Login and sign-up pages; Login.jsx shows its forms to nobody who is signed in, and to nobody
\* while the session is loading.
StartLogin ==
  /\ SignedOff
  /\ Ask("login", None)
  /\ UNCHANGED <<session, page, view, socket>>

\* 42's callback page asks as soon as it is there, once, whether or not the session is loading.
StartCallback ==
  /\ callback /\ Booted /\ \A c \in calls : c.kind # "callback"
  /\ Ask("callback", None)
  /\ UNCHANGED <<session, page, view, socket>>

\* That page goes on to another when it has its answer.
LeavesCallback(c) == callback' = (callback /\ c.kind # "callback")

\* applyAuthenticatedResult, of a login, a guest, a second factor or 42
LoginDone(c) ==
  /\ c.kind \in {"login", "callback"} /\ issued < MaxTokens /\ Answered(c)
  /\ issued' = issued + 1 /\ stored' = issued'
  /\ SetAuth(issued', issued') /\ LeavesCallback(c)
  /\ UNCHANGED <<loading, effect>>

Logout ==
  /\ SignedIn
  /\ stored' = None /\ SignedOut
  /\ UNCHANGED <<issued, view, calls, effect>>

\* Deleting the account, or changing the password.
StartEnd ==
  /\ SignedIn
  /\ ActiveToken # None /\ Ask("end", ActiveToken)
  /\ UNCHANGED <<session, page, view, socket>>

\* clearSession, of whatever session it is by now.
ClearSession(c) ==
  /\ c.kind = "end" /\ Answered(c)
  /\ stored' = None /\ SignedOut /\ loading' = FALSE
  /\ UNCHANGED <<issued, callback, effect>>

\* refreshUser, after a change of the second factor
RefreshUser ==
  /\ SignedIn /\ stored # None
  /\ Ask("refresh", ActiveToken)
  /\ UNCHANGED <<session, page, view, socket>>

\* Its answer is written whatever has happened to the session.
RefreshDone(c) ==
  /\ c.kind = "refresh" /\ Answered(c)
  /\ SetAuth(c.token, c.token)
  /\ UNCHANGED <<session, view, effect>>

\* handleSessionExpired without its look at the token
AnyRefusal(c) == TRUE

\* handleSessionExpired minds its own session only.
Expires(c) == auth = c.token

\* A call is answered 401; request.js tells the auth store.
Refused(c) ==
  /\ c.kind \notin Tokenless /\ Answered(c)
  /\ IF Expires(c) \/ c.kind = "init" THEN stored' = None /\ SignedOut
     ELSE UNCHANGED <<stored, page, transport, handlers>>
  /\ loading' = (loading /\ c.kind # "init")
  /\ UNCHANGED <<issued, callback, effect>>

\* A call fails otherwise.
Fails(c) ==
  /\ c.kind \notin {"boot", "init"} /\ Answered(c) /\ LeavesCallback(c)
  /\ UNCHANGED <<session, page, loading, socket>>

-----------------------------------------------------------------------------
(* The session stores.                                                     *)

\* Friends, chat and messages ask with the stored token, games, tournaments and profiles with
\* the auth store's.
Load ==
  /\ SignedIn
  /\ \E token \in {stored, auth} \ {None} : Ask("load", token)
  /\ UNCHANGED <<session, page, view, socket>>

\* A load that only asks for some session.
SomeToken(token) == stored # None

\* sessionGuard
IsActiveToken(token) == stored = token

LoadDone(c) ==
  /\ c.kind = "load" /\ Answered(c)
  /\ store' = IF IsActiveToken(c.token) THEN store \cup {c.token} ELSE store
  /\ UNCHANGED <<session, auth, user, revived, view, socket>>

\* A profile or an avatar is saved.
SaveProfile ==
  /\ SignedIn /\ ActiveToken # None
  /\ Ask("save", ActiveToken)
  /\ UNCHANGED <<session, page, view, socket>>

\* updateUser comes before the look at the session; what follows is like any load.
SaveDone(c) ==
  /\ c.kind = "save" /\ Answered(c)
  /\ user' = c.token /\ revived' = (revived \/ auth = None)
  /\ store' = IF IsActiveToken(c.token) THEN store \cup {c.token} ELSE store
  /\ UNCHANGED <<session, auth, view, socket>>

-----------------------------------------------------------------------------
(* The socket.                                                             *)

\* App's effect: its cleanup disconnects, and with a token it connects.
SocketEffect ==
  /\ Booted /\ effect # auth
  /\ effect' = auth /\ transport' = auth /\ handlers' = auth
  /\ UNCHANGED <<session, page, view, calls>>

HasActiveSession == handlers # None /\ auth = handlers

\* Games, rooms, tournaments
ReceiveEvent ==
  /\ transport # None /\ HasActiveSession
  /\ store' = store \cup {transport}
  /\ UNCHANGED <<session, auth, user, revived, view, calls, socket>>

\* Messages want a stored token as well, and the notifications are loaded again.
ReceiveChat ==
  /\ transport # None /\ HasActiveSession /\ stored # None
  /\ store' = store \cup {transport}
  /\ Ask("load", stored)
  /\ UNCHANGED <<session, auth, user, revived, view, socket>>

\* Another tab
OtherTabSignsIn ==
  /\ OtherTabs /\ issued < MaxTokens
  /\ issued' = issued + 1 /\ stored' = issued'
  /\ UNCHANGED <<page, view, calls, socket>>

OtherTabSignsOut ==
  /\ OtherTabs /\ stored # None /\ stored' = None
  /\ UNCHANGED <<issued, page, view, calls, socket>>

-----------------------------------------------------------------------------
Answer(c) ==
  \/ AuthInit(c) \/ LoginDone(c) \/ InitDone(c) \/ InitFails(c) \/ RefreshDone(c) \/ ClearSession(c)
  \/ LoadDone(c) \/ SaveDone(c) \/ Refused(c) \/ Fails(c)

Next ==
  \/ \E c \in calls : Answer(c)
  \/ Reload \/ StartLogin \/ StartCallback \/ Logout \/ StartEnd \/ RefreshUser \/ Load \/ SaveProfile
  \/ SocketEffect \/ ReceiveEvent \/ ReceiveChat \/ OtherTabSignsIn \/ OtherTabSignsOut

Spec == Init /\ [][Next]_vars

-----------------------------------------------------------------------------
\* Every variable keeps its type.
TypeOK ==
  /\ issued \in 0 .. MaxTokens
  /\ {stored, auth, user, transport, handlers, effect} \subseteq Token \cup {None}
  /\ store \subseteq Token /\ {revived, loading, callback} \subseteq BOOLEAN
  /\ calls \subseteq [kind : Kind \ Tokenless, token : Token]
              \cup [kind : Tokenless, token : Token \cup {None}]

\* The socket is the session's or it is closed: no event can come of a session that has ended.
SocketIsOfSession == transport # None => transport = auth /\ handlers = auth

\* Whatever answers, refusals and socket events come in late, and whatever other tabs do with
\* the stored token: a tab of the session that is stored holds that session's data and nobody
\* else's, and a tab without a session holds nothing -- unless the answer to a save came after
\* the end of its session, and opened the pages again without one.
HoldsOwnDataOnly ==
  revived \/ /\ auth # None /\ auth = stored => store \subseteq {auth}
             /\ auth = None => store = {}

\* The answer to a load of a session that is neither the tab's nor the stored one changes
\* neither of them and no data, a refusal included: it does not sign the next user out.  (The
\* stores' own flags, as of being busy, are not in the model.)
LateLoadIsIgnored ==
  \A c \in calls \ calls' :
    c.kind = "load" /\ c.token \notin {auth, stored} /\ Booted'
      => UNCHANGED <<stored, auth, user, store>>

LateLoadsChangeNothing == [][LateLoadIsIgnored]_vars

\* What App.jsx says of the teardown ("so the next user never sees the previous user's data"):
\* nothing of an earlier session is shown under the one that is stored.
NextUserSeesOwnData == stored # None => store \subseteq {stored} /\ user \in {stored, None}
=============================================================================
