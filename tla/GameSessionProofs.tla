-------------------------- MODULE GameSessionProofs --------------------------
(***************************************************************************)
(* What GameSession's runs check of it, for any number of users, sockets,  *)
(* games and rooms and for rooms of any size, whether or not the database  *)
(* fails.                                                                  *)
(*                                                                         *)
(* A game is finished by whoever flips its status, and the flip is only    *)
(* made from IN_PROGRESS, which no game is twice (Finishing).  The seats   *)
(* that fill a room race for its status, and between the claim and the     *)
(* game id no other operation finds the room OPEN or by a game (Claims).   *)
(* Every change of a game's engine or of whom it waits for comes with its  *)
(* clock, except before the start and after the end (Clock).               *)
(***************************************************************************)
EXTENDS GameSession, WellFoundedInduction, FiniteSetTheorems, TLAPS

GameState == [status : {"NONE", "IN_PROGRESS", "COMPLETED", "ABANDONED"},
              players : SUBSET User, stored : BOOLEAN]

RoomRow == [status : {"NONE", "OPEN", "IN_GAME", "CLOSED"},
            players : SUBSET User, gameId : Game \cup {None}]

Leaving == {Idle} \cup [pc : {"unseat", "find_game"}] \cup [pc : {"pause"}, game : Game]

LeavingHandlers == [User -> [Closing -> Leaving]]

Entering ==
  {Idle} \cup [pc : {"seat"}]
    \cup [pc : {"claim", "create"}, room : Room, players : SUBSET User]
    \cup [pc : {"mark", "announce", "release"}, room : Room, game : Game]

Abandoning == {Idle} \cup [pc : {"flip", "persist", "reopen"}, game : Game]

\* The type of everything but the sockets and the graces.
Typed ==
  /\ games \in [Game -> GameState]
  /\ engines \in [Game -> {"none", "live", "dry", "won"}]
  /\ turnTimers \in [Game -> {"none", "armed", "stale"}]
  /\ pausedGames \in [Game -> SUBSET User]
  /\ gameRows \in [Game -> Nat]
  /\ rooms \in [Room -> RoomRow]
  /\ leaving \in LeavingHandlers
  /\ entry \in [User -> Entering]
  /\ abandoning \in [User -> Abandoning]
  /\ ending \in [Game -> {"idle", "flip", "persist", "close"}]

TypedOnline ==
  /\ sockets \in [User -> 0 .. MaxSockets] /\ pendingAbandons \subseteq User
  /\ graceTimers \in [User -> Nat]

-----------------------------------------------------------------------------
LEMMA TypeParts == TypeOK <=> Typed /\ TypedOnline
BY DEF TypeOK, Typed, TypedOnline, GameState, RoomRow, Leaving, LeavingHandlers, Entering, Abandoning

\* The first of some numbers is one of them.
LEMMA MinIsMember ==
  ASSUME NEW S, S \subseteq Nat, S # {}
  PROVE  Min(S) \in S
<1> DEFINE R == {p \in Nat \X Nat : p[1] < p[2]}
<1>1. IsWellFoundedOn(R, Nat)
  BY NatLessThanWellFounded DEF OpToRel
<1>2. \A y, x \in Nat : y < x => <<y, x>> \in R
  OBVIOUS
<1> HIDE DEF R
<1>3. PICK x \in S : \A y \in S : ~(<<y, x>> \in R)
  BY <1>1, WFMin
<1>4. ASSUME NEW y \in S PROVE x <= y
  <2>1. x \in Nat /\ y \in Nat /\ ~(<<y, x>> \in R)
    BY <1>3
  <2>2. ~(y < x)
    BY <2>1, <1>2
  <2> QED BY <2>1, <2>2
<1> QED BY <1>4 DEF Min

LEMMA Numbers == Game \subseteq Nat /\ Room \subseteq Nat /\ None \notin Game
BY BoundsAssumption, NoneAssumption DEF Game, Room

LEMMA ActiveGameIsGame == \A u \in User : ActiveGame(u) \in Game \cup {None}
<1> SUFFICES ASSUME NEW u \in User PROVE ActiveGame(u) \in Game \cup {None}
  OBVIOUS
<1> DEFINE found == {g \in Game : games[g].stored /\ InProgress(g) /\ u \in games[g].players}
<1>1. found \subseteq Game
  OBVIOUS
<1>2. ActiveGame(u) = IF found = {} THEN None ELSE Min(found)
  BY DEF ActiveGame
<1> HIDE DEF found
<1> QED BY <1>1, <1>2, MinIsMember, Numbers

LEMMA WhatWaits ==
  /\ \A l \in Leaving : l.pc = "pause" => l.game \in Game
  /\ \A a \in Abandoning : a.pc \in {"flip", "persist", "reopen"} =>
       a.game \in Game /\ a = [pc |-> a.pc, game |-> a.game]
  /\ \A e \in Entering :
       /\ e.pc \in {"claim", "create"} => e.room \in Room /\ e.players \in SUBSET User
       /\ e.pc \in {"mark", "announce", "release"} => e.room \in Room /\ e.game \in Game
BY DEF Leaving, Abandoning, Entering, Idle

LEMMA WhatMayWait ==
  /\ Idle \in Leaving /\ Idle \in Entering /\ Idle \in Abandoning
  /\ [pc |-> "unseat"] \in Leaving /\ [pc |-> "find_game"] \in Leaving
  /\ [pc |-> "seat"] \in Entering
  /\ \A g \in Game :
       /\ [pc |-> "pause", game |-> g] \in Leaving
       /\ \A pc \in {"flip", "persist", "reopen"} : [pc |-> pc, game |-> g] \in Abandoning
       /\ \A r \in Room, pc \in {"mark", "announce", "release"} :
            [pc |-> pc, room |-> r, game |-> g] \in Entering
  /\ \A r \in Room, p \in SUBSET User, pc \in {"claim", "create"} :
       [pc |-> pc, room |-> r, players |-> p] \in Entering
BY DEF Leaving, Abandoning, Entering, Idle

LEMMA TimerType ==
  ASSUME NEW e, NEW w PROVE SyncedTimer(e, w) \in {"none", "armed", "stale"}
BY DEF SyncedTimer

\* A call of abandonActiveGame only makes one user wait who did not.
LEMMA AbandonCalled ==
  ASSUME abandoning \in [User -> Abandoning], NEW u \in User, CallAbandon(u)
  PROVE  /\ abandoning' \in [User -> Abandoning]
         /\ abandoning'[u] = Idle \/ abandoning'[u].pc = "flip"
         /\ abandoning[u] = Idle
         /\ \A v \in User \ {u} : abandoning'[v] = abandoning[v]
BY ActiveGameIsGame, WhatMayWait DEF CallAbandon

-----------------------------------------------------------------------------
(* Who is connected, and whose grace is running.                           *)

\* The one grace of a user that may run is the one in the map, and the user has no socket.
Graced(u) == /\ graceTimers[u] = IF u \in pendingAbandons THEN 1 ELSE 0
             /\ u \in pendingAbandons => sockets[u] = 0

Absent == TypedOnline /\ \A u \in User : Graced(u)

LEMMA AbsentStep == Absent /\ [Next]_vars => Absent'
<1> SUFFICES ASSUME Absent, [Next]_vars PROVE Absent'
  OBVIOUS
<1> USE BoundsAssumption DEF Absent, TypedOnline, Graced
<1>1. CASE UNCHANGED <<sockets, pendingAbandons, graceTimers>>
  BY <1>1
\* The grace in the map stops, or fires: either way none is left.
<1>2. ASSUME NEW u \in User, graceTimers' = GraceStopped(u), pendingAbandons' = pendingAbandons \ {u}
      PROVE  /\ graceTimers' \in [User -> Nat] /\ graceTimers'[u] = 0
             /\ \A v \in User \ {u} : graceTimers'[v] = graceTimers[v]
  BY <1>2 DEF GraceStopped
<1>3. ASSUME NEW u \in User, Connect(u) PROVE Absent'
  BY <1>2, <1>3 DEF Connect
<1>4. ASSUME NEW u \in User, NEW s \in Closing, Disconnect(u, s) PROVE Absent'
  BY <1>4 DEF Disconnect
<1>5. ASSUME NEW u \in User, NEW s \in Closing, LeavePause(u, s) PROVE Absent'
  <2>1. CASE UNCHANGED <<pendingAbandons, graceTimers>>
    BY <1>1, <1>5, <2>1 DEF LeavePause
  <2>2. CASE /\ ~RemainingSockets(u) /\ pendingAbandons' = pendingAbandons \cup {u}
             /\ graceTimers' = GraceRestarted(u) /\ UNCHANGED sockets
    <3>1. /\ graceTimers' \in [User -> Nat] /\ graceTimers'[u] = 1
          /\ \A v \in User \ {u} : graceTimers'[v] = graceTimers[v]
      BY <2>2 DEF GraceRestarted, GraceStopped
    <3>2. sockets[u] = 0
      BY <2>2 DEF RemainingSockets
    <3> QED BY <2>2, <3>1, <3>2
  <2> QED BY <1>5, <2>1, <2>2 DEF LeavePause
<1>6. ASSUME NEW u \in User, Act(u) PROVE Absent'
  <2>1. CASE LeaveGame(u)
    BY <1>2, <2>1 DEF LeaveGame
  <2>2. CASE \E g \in Game : Move(u, g) \/ MoveThrows(u, g) \/ WinningMove(u, g)
    BY <1>1, <2>2 DEF Move, MoveThrows, WinningMove
  <2> QED BY <1>6, <1>1, <1>3, <1>4, <2>1, <2>2 DEF Act, LeaveRoom, EndRoom, EnterRoom
<1>7. ASSUME NEW u \in User, NEW s \in Closing, Leave(u, s) PROVE Absent'
  BY <1>7, <1>1, <1>5 DEF Leave, LeaveUnseat, LeaveFindGame
<1>8. ASSUME NEW u \in User, Abandon(u) \/ Enter(u) PROVE Absent'
  <2>1. CASE Abandon(u)
    BY <1>1, <2>1 DEF Abandon, AbandonFlip, AbandonPersist, AbandonReopen
  <2>2. CASE Seat(u) \/ Claim(u) \/ CreateMatch(u)
    BY <1>1, <2>2 DEF Seat, Claim, CreateMatch
  <2>3. CASE MarkRoom(u) \/ ReleaseClaim(u) \/ StartMatch(u)
    BY <1>1, <2>3 DEF MarkRoom, ReleaseClaim, StartMatch
  <2> QED BY <1>8, <2>1, <2>2, <2>3 DEF Enter
<1>9. ASSUME NEW g \in Game, TurnExpires(g) \/ End(g) PROVE Absent'
  BY <1>9, <1>1 DEF TurnExpires, End, EndFlip, EndPersist, EndClose
<1>10. CASE UNCHANGED vars
  BY <1>10, <1>1 DEF vars
<1>11. ASSUME NEW u \in User, GraceExpires(u) PROVE Absent'
  <2>1. /\ graceTimers' \in [User -> Nat] /\ graceTimers'[u] = 0
        /\ \A v \in User \ {u} : graceTimers'[v] = graceTimers[v]
    BY <1>11 DEF GraceExpires
  <2> QED BY <1>11, <2>1 DEF GraceExpires
<1> QED BY <1>6, <1>7, <1>8, <1>9, <1>10, <1>11 DEF Next

-----------------------------------------------------------------------------
(* The types of the rest.                                                  *)

\* removePlayerFromRoom on a room that is a row.
LEMMA LeaveOpenRoomType ==
  ASSUME Typed, NEW u \in User, LeaveOpenRoom(u)
  PROVE  rooms' \in [Room -> RoomRow]
<1>1. ASSUME NEW room \in RoomRow PROVE Unseated(room, u) \in RoomRow
  <2>1. room.players \ {u} \in SUBSET User
    BY DEF RoomRow
  <2>2. CASE room.players \subseteq {u}
    <3>1. Unseated(room, u) = [room EXCEPT !.players = room.players \ {u}, !.status = "CLOSED"]
      BY <2>2 DEF Unseated
    <3> QED BY <2>1, <3>1 DEF RoomRow
  <2>3. CASE ~(room.players \subseteq {u})
    <3>1. Unseated(room, u) = [room EXCEPT !.players = room.players \ {u}, !.status = room.status]
      BY <2>3 DEF Unseated, RoomRow
    <3> QED BY <2>1, <3>1 DEF RoomRow
  <2> QED BY <2>2, <2>3
<1> QED BY <1>1 DEF LeaveOpenRoom, SeatsOf, Typed

LEMMA DeleteGameType ==
  ASSUME Typed, NEW g \in Game PROVE DeleteGame(g) \in [Game -> GameState]
<1>1. games[g] \in GameState
  BY DEF Typed
<1>2. [games[g] EXCEPT !.stored = FALSE] \in GameState
  BY <1>1 DEF GameState
<1>3. DeleteGame(g) = [games EXCEPT ![g] = [games[g] EXCEPT !.stored = FALSE]]
  BY DEF DeleteGame, Typed
<1> QED BY <1>2, <1>3 DEF Typed

LEMMA OverType ==
  ASSUME NEW state \in GameState, NEW status \in {"COMPLETED", "ABANDONED"}
  PROVE  Over(state, status) \in GameState /\ Over(state, status).status = status
BY DEF Over, GameState

LEMMA LeavesType ==
  ASSUME leaving \in LeavingHandlers, NEW u \in User, NEW s \in Closing,
         NEW next \in Leaving, Leaves(u, s, next)
  PROVE  leaving' \in LeavingHandlers
BY DEF Leaves, LeavingHandlers

LEMMA ActType ==
  ASSUME Typed, NEW u \in User, Act(u) PROVE Typed'
<1>1. CASE Connect(u)
  <2>1. ActiveGame(u) \in Game \cup {None}
    BY ActiveGameIsGame
  <2>2. turnTimers' \in [Game -> {"none", "armed", "stale"}] /\ pausedGames' \in [Game -> SUBSET User]
    BY <1>1, <2>1, TimerType DEF Connect, StillWaitedFor, Typed
  <2> QED BY <1>1, <2>2 DEF Connect, Typed
<1>2. CASE LeaveRoom(u)
  BY <1>2, LeaveOpenRoomType DEF LeaveRoom, Typed
<1>3. CASE EndRoom(u)
  <2>1. rooms' \in [Room -> RoomRow]
    BY <1>3 DEF EndRoom, SeatsOf, Typed, RoomRow
  <2> QED BY <1>3, <2>1 DEF EndRoom, Typed
<1>4. ASSUME NEW g \in Game, Move(u, g) \/ MoveThrows(u, g) \/ WinningMove(u, g) PROVE Typed'
  <2>1. CASE Move(u, g)
    BY <2>1, TimerType DEF Move, Typed
  <2>2. CASE MoveThrows(u, g)
    BY <2>2 DEF MoveThrows, Typed
  <2>3. CASE WinningMove(u, g)
    BY <2>3 DEF WinningMove, Typed
  <2> QED BY <1>4, <2>1, <2>2, <2>3
<1>5. ASSUME NEW s \in Closing, Disconnect(u, s) PROVE Typed'
  BY <1>5, WhatMayWait, LeavesType DEF Disconnect, Typed
<1>6. CASE LeaveGame(u)
  BY <1>6, AbandonCalled DEF LeaveGame, Typed
<1>7. CASE EnterRoom(u)
  BY <1>7, AbandonCalled, WhatMayWait DEF EnterRoom, Typed
<1> QED BY <1>1, <1>2, <1>3, <1>4, <1>5, <1>6, <1>7 DEF Act

LEMMA LeaveType ==
  ASSUME Typed, NEW u \in User, NEW s \in Closing, Leave(u, s) PROVE Typed'
<1>2. CASE LeaveUnseat(u, s)
  BY <1>2, LeaveOpenRoomType, LeavesType, WhatMayWait DEF LeaveUnseat, Typed
<1>3. CASE LeaveFindGame(u, s)
  <2>1. leaving' \in LeavingHandlers
    BY <1>3, ActiveGameIsGame, LeavesType, WhatMayWait DEF LeaveFindGame, Typed
  <2> QED BY <1>3, <2>1 DEF LeaveFindGame, Typed
<1>4. CASE LeavePause(u, s)
  <2>1. leaving[u][s].game \in Game
    BY <1>4, WhatWaits DEF LeavePause, Typed, LeavingHandlers
  <2>2. turnTimers' \in [Game -> {"none", "armed", "stale"}] /\ pausedGames' \in [Game -> SUBSET User]
    BY <1>4, <2>1 DEF LeavePause, Typed
  <2>3. leaving' \in LeavingHandlers
    BY <1>4, LeavesType, WhatMayWait DEF LeavePause, Typed
  <2> QED BY <1>4, <2>2, <2>3 DEF LeavePause, Typed
<1> QED BY <1>2, <1>3, <1>4 DEF Leave

LEMMA GraceType ==
  ASSUME Typed, NEW u \in User, GraceExpires(u) PROVE Typed'
BY AbandonCalled DEF GraceExpires, Typed

LEMMA AbandonType ==
  ASSUME Typed, NEW u \in User, Abandon(u) PROVE Typed'
<1> DEFINE g == abandoning[u].game
<1>1. abandoning[u].pc \in {"flip", "persist", "reopen"}
  BY DEF Abandon, AbandonFlip, AbandonPersist, AbandonReopen
<1>2. g \in Game /\ abandoning[u] = [pc |-> abandoning[u].pc, game |-> g]
  BY <1>1, WhatWaits DEF Typed
<1>3. ASSUME NEW pc \in {"flip", "persist", "reopen"},
             abandoning' = [abandoning EXCEPT ![u].pc = pc]
      PROVE  abandoning' \in [User -> Abandoning]
  <2>1. abandoning' = [abandoning EXCEPT ![u] = [abandoning[u] EXCEPT !.pc = pc]]
    BY <1>3 DEF Typed
  <2>2. [abandoning[u] EXCEPT !.pc = pc] = [pc |-> pc, game |-> g]
    BY <1>2
  <2> HIDE DEF g
  <2>3. [pc |-> pc, game |-> g] \in Abandoning
    BY <1>2, WhatMayWait
  <2> QED BY <2>1, <2>2, <2>3 DEF Typed
<1>4. abandoning' \in [User -> Abandoning]
  <2>1. CASE abandoning' = [abandoning EXCEPT ![u] = Idle]
    BY <2>1, WhatMayWait DEF Typed
  <2> QED BY <1>3, <2>1 DEF Abandon, AbandonFlip, AbandonPersist, AbandonReopen
<1> HIDE DEF g
<1>5. CASE AbandonFlip(u)
  <2>1. games' \in [Game -> GameState] /\ engines' \in [Game -> {"none", "live", "dry", "won"}]
    <3>1. CASE games' = games /\ engines' = engines
      BY <3>1 DEF Typed
    <3>2. CASE /\ games' = [games EXCEPT ![g] = Over(@, "ABANDONED")]
               /\ engines' = [engines EXCEPT ![g] = "none"]
      BY <3>2, <1>2, OverType DEF Typed
    <3> QED BY <1>5, <3>1, <3>2 DEF AbandonFlip, g
  <2> QED BY <1>5, <1>4, <2>1 DEF AbandonFlip, Typed
<1>6. CASE AbandonPersist(u)
  <2>1. games' \in [Game -> GameState]
    BY <1>6, <1>2, DeleteGameType DEF AbandonPersist, g
  <2>2. /\ gameRows' \in [Game -> Nat] /\ pausedGames' \in [Game -> SUBSET User]
        /\ turnTimers' \in [Game -> {"none", "armed", "stale"}]
    BY <1>6, <1>2 DEF AbandonPersist, Typed, g
  <2> QED BY <1>6, <1>4, <2>1, <2>2 DEF AbandonPersist, Typed
<1>7. CASE AbandonReopen(u)
  <2>1. ASSUME NEW room \in RoomRow PROVE Reopened(room, u) \in RoomRow
    BY DEF Reopened, RoomRow
  <2>2. rooms' \in [Room -> RoomRow]
    BY <1>7, <2>1 DEF AbandonReopen, Typed
  <2> QED BY <1>7, <1>4, <2>2 DEF AbandonReopen, Typed
<1> QED BY <1>5, <1>6, <1>7 DEF Abandon

LEMMA StatusType ==
  ASSUME Typed, NEW r \in Room, NEW status \in {"OPEN", "IN_GAME", "CLOSED"},
         rooms' = [rooms EXCEPT ![r].status = status]
  PROVE  /\ rooms' \in [Room -> RoomRow]
         /\ rooms'[r] = [rooms[r] EXCEPT !.status = status]
         /\ \A q \in Room \ {r} : rooms'[q] = rooms[q]
<1>1. rooms' = [rooms EXCEPT ![r] = [rooms[r] EXCEPT !.status = status]]
  BY DEF Typed
<1>2. [rooms[r] EXCEPT !.status = status] \in RoomRow
  <2>1. rooms[r] \in RoomRow
    BY DEF Typed
  <2> QED BY <2>1 DEF RoomRow
<1> QED BY <1>1, <1>2 DEF Typed

LEMMA MarkType ==
  ASSUME NEW room \in RoomRow, NEW g \in Game
  PROVE  Marked(room, g) \in RoomRow /\ Marked(room, g).gameId = g
BY DEF Marked, RoomRow

\* A start that goes on has its room, and the rest.
LEMMA StartGoesOn ==
  ASSUME entry \in [User -> Entering], NEW u \in User, NEW pc,
         entry' = [entry EXCEPT ![u].pc = pc]
  PROVE  entry' = [entry EXCEPT ![u] = [entry[u] EXCEPT !.pc = pc]]
OBVIOUS

LEMMA EnterType ==
  ASSUME Typed, NEW u \in User, Enter(u) PROVE Typed'
<1> DEFINE e == entry[u]
<1>e. /\ e.pc \in {"claim", "create"} => e.room \in Room /\ e.players \in SUBSET User
      /\ e.pc \in {"mark", "announce", "release"} => e.room \in Room /\ e.game \in Game
  BY WhatWaits DEF Typed
<1>1. CASE Seat(u)
  <2> DEFINE mine == SeatsOf(u, {"OPEN", "IN_GAME"})
  <2>1. mine # {} => Min(mine) \in Room
    BY MinIsMember, Numbers DEF SeatsOf
  <2>2. ASSUME NEW r \in Room, NEW room \in RoomRow PROVE AfterSeat(r, room) \in Entering
    BY WhatMayWait DEF AfterSeat, RoomRow
  <2>3. CASE mine # {} /\ entry' = [entry EXCEPT ![u] = AfterSeat(Min(mine), rooms[Min(mine)])]
             /\ UNCHANGED rooms
    BY <1>1, <2>1, <2>2, <2>3 DEF Seat, Typed
  <2>4. ASSUME NEW r \in Room, rooms' = [rooms EXCEPT ![r].players = @ \cup {u}],
               entry' = [entry EXCEPT ![u] = AfterSeat(r, rooms'[r])]
        PROVE Typed'
    <3>1. rooms' \in [Room -> RoomRow]
      BY <2>4 DEF Typed, RoomRow
    <3> QED BY <1>1, <2>2, <2>4, <3>1 DEF Seat, Typed
  <2>5. ASSUME NEW r \in Room,
               rooms' = [rooms EXCEPT ![r] = [status |-> "OPEN", players |-> {u}, gameId |-> None]],
               entry' = [entry EXCEPT ![u] = Idle]
        PROVE Typed'
    <3>1. rooms' \in [Room -> RoomRow]
      BY <2>5 DEF Typed, RoomRow
    <3> QED BY <1>1, WhatMayWait, <2>5, <3>1 DEF Seat, Typed
  <2>6. CASE entry' = [entry EXCEPT ![u] = Idle] /\ UNCHANGED rooms
    BY <1>1, WhatMayWait, <2>6 DEF Seat, Typed
  <2> HIDE DEF mine
  <2> QED BY <1>1, <2>3, <2>4, <2>5, <2>6 DEF Seat, mine
<1>2. CASE Claim(u)
  <2>1. e.room \in Room /\ e = [pc |-> "claim", room |-> e.room, players |-> e.players]
    BY <1>2 DEF Claim, Typed, Entering, Idle
  <2>2. CASE UNCHANGED rooms /\ entry' = [entry EXCEPT ![u] = Idle]
    BY <1>2, <2>2, WhatMayWait DEF Claim, Typed
  <2>3. CASE rooms' = [rooms EXCEPT ![e.room].status = "IN_GAME"]
             /\ entry' = [entry EXCEPT ![u].pc = "create"]
    <3>1. rooms' \in [Room -> RoomRow]
      BY <2>1, <2>3, StatusType
    <3>2. entry' = [entry EXCEPT ![u] = [pc |-> "create", room |-> e.room, players |-> e.players]]
      <4>1. [entry[u] EXCEPT !.pc = "create"] = [pc |-> "create", room |-> e.room, players |-> e.players]
        BY <2>1
      <4>2. entry' = [entry EXCEPT ![u] = [entry[u] EXCEPT !.pc = "create"]]
        BY <2>3, StartGoesOn DEF Typed
      <4> QED BY <4>1, <4>2
    <3>3. entry' \in [User -> Entering]
      BY <1>2, <1>e, <3>2, WhatMayWait DEF Claim, Typed
    <3> QED BY <1>2, <3>1, <3>3 DEF Claim, Typed
  <2> QED BY <1>2, <2>2, <2>3 DEF Claim
<1>3. CASE CreateMatch(u)
  <2>1. e.room \in Room /\ e.players \in SUBSET User
    BY <1>3, <1>e DEF CreateMatch
  <2>2. PICK g \in Game :
          /\ games' = [games EXCEPT ![g] = [status |-> "IN_PROGRESS", players |-> e.players, stored |-> TRUE]]
          /\ engines' = [engines EXCEPT ![g] = "live"]
          /\ entry' = [entry EXCEPT ![u] = [pc |-> "mark", room |-> e.room, game |-> g]]
    BY <1>3 DEF CreateMatch
  <2>3. games' \in [Game -> GameState] /\ engines' \in [Game -> {"none", "live", "dry", "won"}]
    BY <2>1, <2>2 DEF Typed, GameState
  <2>4. entry' \in [User -> Entering]
    BY <2>1, <2>2, WhatMayWait DEF Typed
  <2> QED BY <1>3, <2>3, <2>4 DEF CreateMatch, Typed
<1>4. CASE MarkRoom(u)
  <2>1. e.room \in Room /\ e.game \in Game /\ e = [pc |-> "mark", room |-> e.room, game |-> e.game]
    BY <1>4 DEF MarkRoom, Typed, Entering, Idle
  <2>2. ASSUME NEW pc \in {"announce", "release"}, entry' = [entry EXCEPT ![u].pc = pc]
        PROVE  entry' \in [User -> Entering]
    <3>1. entry' = [entry EXCEPT ![u] = [pc |-> pc, room |-> e.room, game |-> e.game]]
      <4>1. [entry[u] EXCEPT !.pc = pc] = [pc |-> pc, room |-> e.room, game |-> e.game]
        BY <2>1
      <4>2. entry' = [entry EXCEPT ![u] = [entry[u] EXCEPT !.pc = pc]]
        BY <2>2, StartGoesOn DEF Typed
      <4> QED BY <4>1, <4>2
    <3> QED BY <2>1, <3>1, WhatMayWait DEF Typed
  <2>3. entry' \in [User -> Entering]
    BY <1>4, <2>2 DEF MarkRoom
  <2>4. CASE rooms' = [rooms EXCEPT ![e.room] = Marked(@, e.game)]
             /\ UNCHANGED <<games, engines>>
    <3>1. rooms' \in [Room -> RoomRow]
      BY <2>1, <2>4, MarkType DEF Typed
    <3> QED BY <1>4, <2>3, <2>4, <3>1 DEF MarkRoom, Typed
  <2>5. CASE engines' = [engines EXCEPT ![e.game] = "none"] /\ games' = DeleteGame(e.game)
             /\ UNCHANGED rooms
    BY <1>4, <2>1, <2>3, <2>5, DeleteGameType DEF MarkRoom, Typed
  <2> QED BY <1>4, <2>4, <2>5 DEF MarkRoom
<1>5. CASE ReleaseClaim(u)
  <2>1. e.room \in Room
    BY <1>5, <1>e DEF ReleaseClaim
  <2>2. rooms' \in [Room -> RoomRow]
    <3>1. CASE rooms' = [rooms EXCEPT ![e.room].status = "OPEN"]
      BY <2>1, <3>1, StatusType
    <3> QED BY <1>5, <3>1 DEF ReleaseClaim, Typed
  <2> QED BY <1>5, <2>2, WhatMayWait DEF ReleaseClaim, Typed
<1>6. CASE StartMatch(u)
  BY <1>6, <1>e, TimerType, WhatMayWait DEF StartMatch, Typed
<1> QED BY <1>1, <1>2, <1>3, <1>4, <1>5, <1>6 DEF Enter

LEMMA EndType ==
  ASSUME Typed, NEW g \in Game, TurnExpires(g) \/ End(g) PROVE Typed'
<1>1. CASE TurnExpires(g)
  BY <1>1, TimerType DEF TurnExpires, Typed
<1>2. CASE EndFlip(g)
  <2>1. games' \in [Game -> GameState]
    BY <1>2, OverType DEF EndFlip, Typed
  <2> QED BY <1>2, <2>1 DEF EndFlip, Typed
<1>3. CASE EndPersist(g)
  BY <1>3, DeleteGameType DEF EndPersist, Typed
<1>4. CASE EndClose(g)
  <2>1. CASE rooms' = [r \in Room |-> IF rooms[r].gameId = g
                                     THEN [rooms[r] EXCEPT !.status = "CLOSED"] ELSE rooms[r]]
    <3>1. \A r \in Room : rooms[r] \in RoomRow
      BY DEF Typed
    <3>2. \A q \in RoomRow : [q EXCEPT !.status = "CLOSED"] \in RoomRow
      BY DEF RoomRow
    <3>3. \A r \in Room : rooms'[r] \in RoomRow
      BY <2>1, <3>1, <3>2
    <3> QED BY <1>4, <2>1, <3>3 DEF EndClose, Typed
  <2>2. CASE UNCHANGED rooms
    BY <1>4, <2>2 DEF EndClose, Typed
  <2> QED BY <1>4, <2>1, <2>2 DEF EndClose
<1> QED BY <1>1, <1>2, <1>3, <1>4 DEF End

LEMMA InitTypes == Init => Typed /\ Absent
<1> SUFFICES ASSUME Init PROVE Typed /\ Absent
  OBVIOUS
<1>1. rooms \in [Room -> RoomRow] /\ games \in [Game -> GameState]
  BY DEF Init, RoomRow, GameState
<1>2. leaving \in LeavingHandlers /\ entry \in [User -> Entering] /\ abandoning \in [User -> Abandoning]
  BY WhatMayWait DEF Init, LeavingHandlers
<1>3. Absent
  BY BoundsAssumption DEF Init, Absent, TypedOnline, Graced
<1> QED BY <1>1, <1>2, <1>3 DEF Init, Typed

LEMMA TypedStep == Typed /\ [Next]_vars => Typed'
<1>1. Typed /\ UNCHANGED vars => Typed'
  BY DEF vars, Typed
<1> QED BY <1>1, ActType, GraceType, LeaveType, AbandonType, EnterType, EndType DEF Next

-----------------------------------------------------------------------------
(* Who starts the match of a room.                                         *)

Starts(u, r) == entry[u].pc \in {"create", "mark", "release"} /\ entry[u].room = r

\* A room that is being started is in game without a game yet, and by one user; a room before
\* its game has none.
Claims ==
  /\ \A r \in Room : rooms[r].status \in {"NONE", "OPEN"} => rooms[r].gameId = None
  /\ \A r \in Room, u \in User : Starts(u, r) =>
       /\ rooms[r].status = "IN_GAME" /\ rooms[r].gameId = None
       /\ \A v \in User : Starts(v, r) => v = u

\* A step that takes no room up and leaves those alone that are being started.
LEMMA ClaimsHold ==
  ASSUME Claims,
         \A u \in User, r \in Room : Starts(u, r)' => Starts(u, r),
         \A r \in Room : rooms[r].status = "IN_GAME" /\ rooms[r].gameId = None => rooms'[r] = rooms[r],
         \A r \in Room : rooms'[r].status \in {"NONE", "OPEN"} => rooms'[r].gameId = None
  PROVE  Claims'
BY DEF Claims

LEMMA LeaveOpenRoomHolds ==
  ASSUME Typed, Claims, NEW u \in User, LeaveOpenRoom(u), UNCHANGED entry
  PROVE  Claims'
<1>1. CASE UNCHANGED rooms
  BY <1>1 DEF Claims, Starts
<1>2. ASSUME NEW r \in Room, rooms[r].status = "OPEN", rooms' = [rooms EXCEPT ![r] = Unseated(@, u)]
      PROVE  Claims'
  <2>1. rooms[r] \in RoomRow
    BY DEF Typed
  <2>2. Unseated(rooms[r], u).gameId = rooms[r].gameId
    BY <2>1 DEF Unseated, RoomRow
  <2>3. \A q \in Room : rooms'[q].gameId = rooms[q].gameId /\ (q # r => rooms'[q] = rooms[q])
    BY <1>2, <2>2 DEF Typed
  <2>4. rooms[r].gameId = None
    BY <1>2 DEF Claims
  <2> QED BY <1>2, <2>3, <2>4, ClaimsHold DEF Claims, Starts
<1> QED BY <1>1, <1>2 DEF LeaveOpenRoom, SeatsOf

LEMMA ClaimsActStep ==
  ASSUME Typed, Claims, NEW u \in User,
         Act(u) \/ GraceExpires(u) \/ \E s \in Closing : Leave(u, s)
  PROVE  Claims'
<1>1. CASE UNCHANGED <<rooms, entry>>
  BY <1>1 DEF Claims, Starts
<1>2. CASE EndRoom(u)
  <2>1. PICK r \in Room : rooms[r].status = "OPEN" /\ rooms' = [rooms EXCEPT ![r].status = "CLOSED"]
    BY <1>2 DEF EndRoom, SeatsOf
  <2>2. rooms'[r] = [rooms[r] EXCEPT !.status = "CLOSED"] /\ \A q \in Room \ {r} : rooms'[q] = rooms[q]
    BY <2>1, StatusType
  <2>3. rooms'[r].status = "CLOSED"
    BY <2>2 DEF Typed, RoomRow
  <2>4. UNCHANGED entry
    BY <1>2 DEF EndRoom
  <2>5. \A q \in Room : rooms[q].status = "IN_GAME" => rooms'[q] = rooms[q]
    BY <2>1, <2>2
  <2>6. \A q \in Room : rooms'[q].status \in {"NONE", "OPEN"} => rooms'[q].gameId = None
    <3>1. ASSUME NEW q \in Room \ {r}, rooms'[q].status \in {"NONE", "OPEN"} PROVE rooms'[q].gameId = None
      BY <2>2, <3>1 DEF Claims
    <3> QED BY <2>3, <3>1
  <2> QED BY <2>4, <2>5, <2>6, ClaimsHold DEF Starts
<1>3. CASE EnterRoom(u)
  <2>1. UNCHANGED rooms /\ \A v \in User, r \in Room : Starts(v, r)' => Starts(v, r)
    BY <1>3 DEF EnterRoom, Starts, Typed
  <2> QED BY <2>1, ClaimsHold DEF Claims
<1>4. CASE LeaveRoom(u) \/ \E s \in Closing : LeaveUnseat(u, s)
  BY <1>4, LeaveOpenRoomHolds DEF LeaveRoom, LeaveUnseat
<1>5. CASE Act(u)
  BY <1>5, <1>1, <1>2, <1>3, <1>4 DEF Act, Connect, Move, MoveThrows, WinningMove, Disconnect, LeaveGame
<1>6. CASE GraceExpires(u) \/ \E s \in Closing : Leave(u, s)
  BY <1>6, <1>1, <1>4 DEF GraceExpires, Leave, LeaveFindGame, LeavePause
<1> QED BY <1>5, <1>6

LEMMA ClaimsAbandonStep ==
  ASSUME Typed, Claims, NEW u \in User, Abandon(u) PROVE Claims'
<1>1. CASE UNCHANGED <<rooms, entry>>
  BY <1>1 DEF Claims, Starts
<1>2. CASE AbandonReopen(u)
  <2>1. abandoning[u].game \in Game /\ UNCHANGED entry
    BY <1>2, WhatWaits DEF AbandonReopen, Typed
  <2>2. ASSUME NEW r \in Room, rooms[r].gameId = abandoning[u].game,
               rooms' = [rooms EXCEPT ![r] = Reopened(@, u)]
        PROVE  Claims'
    <3>1. rooms[r].gameId # None
      BY <2>1, <2>2, Numbers
    <3>2. rooms'[r] = Reopened(rooms[r], u) /\ \A q \in Room \ {r} : rooms'[q] = rooms[q]
      BY <2>2 DEF Typed
    <3>3. rooms[r] \in RoomRow
      BY DEF Typed
    <3>4. \/ Reopened(rooms[r], u).status = "OPEN" /\ Reopened(rooms[r], u).gameId = None
          \/ Reopened(rooms[r], u).status = "CLOSED"
      BY <3>3 DEF Reopened, RoomRow
    <3>5. \A q \in Room : rooms[q].gameId = None => rooms'[q] = rooms[q]
      BY <3>1, <3>2
    <3>6. \A q \in Room : rooms'[q].status \in {"NONE", "OPEN"} => rooms'[q].gameId = None
      BY <3>2, <3>4 DEF Claims
    <3> QED BY <2>1, <3>5, <3>6, ClaimsHold DEF Starts
  <2> QED BY <1>1, <1>2, <2>1, <2>2 DEF AbandonReopen
<1> QED BY <1>1, <1>2 DEF Abandon, AbandonFlip, AbandonPersist

LEMMA ClaimsEndStep ==
  ASSUME Typed, Claims, NEW g \in Game, TurnExpires(g) \/ End(g) PROVE Claims'
<1>1. CASE UNCHANGED <<rooms, entry>>
  <2>1. \A u \in User, r \in Room : Starts(u, r)' <=> Starts(u, r)
    BY <1>1 DEF Starts
  <2> QED BY <1>1, <2>1 DEF Claims
<1>2. CASE EndClose(g) /\ ~UNCHANGED rooms
  <2>1. \A r \in Room : rooms'[r] = IF rooms[r].gameId = g THEN [rooms[r] EXCEPT !.status = "CLOSED"]
                                    ELSE rooms[r]
    BY <1>2 DEF EndClose
  <2>2. \A r \in Room : rooms[r].gameId = None => rooms'[r] = rooms[r]
    BY <2>1, Numbers
  <2>3. \A r \in Room : rooms[r].gameId = g => rooms'[r].status = "CLOSED"
    BY <2>1 DEF Typed, RoomRow
  <2>4. \A r \in Room : rooms'[r].status \in {"NONE", "OPEN"} => rooms'[r].gameId = None
    BY <2>1, <2>3 DEF Claims
  <2>5. UNCHANGED entry
    BY <1>2 DEF EndClose
  <2> QED BY <2>2, <2>4, <2>5, ClaimsHold DEF Starts
<1> QED BY <1>1, <1>2 DEF TurnExpires, End, EndFlip, EndPersist, EndClose

LEMMA ClaimsEnterStep ==
  ASSUME Typed, Claims, NEW u \in User, Enter(u) PROVE Claims'
<1> DEFINE e == entry[u]
<1>e. /\ e.pc \in {"claim", "create"} => e.room \in Room /\ e.players \in SUBSET User
      /\ e.pc \in {"mark", "announce", "release"} => e.room \in Room /\ e.game \in Game
  BY WhatWaits DEF Typed
<1>i. ASSUME entry' = [entry EXCEPT ![u] = Idle]
      PROVE  \A v \in User, r \in Room : Starts(v, r)' => Starts(v, r) /\ v # u
  BY <1>i DEF Starts, Idle, Typed
<1>1. CASE Seat(u)
  <2> DEFINE mine == SeatsOf(u, {"OPEN", "IN_GAME"})
  <2>1. ASSUME NEW r, NEW room, entry' = [entry EXCEPT ![u] = AfterSeat(r, room)]
        PROVE  \A v \in User, q \in Room : Starts(v, q)' => Starts(v, q)
    BY <2>1 DEF AfterSeat, Starts, Idle, Typed
  <2>2. CASE UNCHANGED rooms
    BY <1>1, <1>i, <2>1, <2>2, ClaimsHold DEF Seat, Claims
  <2>3. ASSUME NEW r \in Room, rooms[r].status = "OPEN",
               rooms' = [rooms EXCEPT ![r].players = @ \cup {u}],
               entry' = [entry EXCEPT ![u] = AfterSeat(r, rooms'[r])]
        PROVE  Claims'
    <3>1. \A q \in Room : /\ rooms'[q].gameId = rooms[q].gameId
                          /\ rooms'[q].status = rooms[q].status
                          /\ q # r => rooms'[q] = rooms[q]
      BY <2>3 DEF Typed, RoomRow
    <3>2. \A q \in Room : rooms[q].status = "IN_GAME" => rooms'[q] = rooms[q]
      BY <2>3, <3>1
    <3>3. \A v \in User, q \in Room : Starts(v, q)' => Starts(v, q)
      BY <2>1, <2>3
    <3> QED BY <3>1, <3>2, <3>3, ClaimsHold DEF Claims
  <2>4. ASSUME NEW r \in Room, rooms[r].status = "NONE",
               rooms' = [rooms EXCEPT ![r] = [status |-> "OPEN", players |-> {u}, gameId |-> None]],
               entry' = [entry EXCEPT ![u] = Idle]
        PROVE  Claims'
    <3>1. rooms'[r].gameId = None /\ \A q \in Room \ {r} : rooms'[q] = rooms[q]
      BY <2>4 DEF Typed
    <3>2. \A q \in Room : rooms[q].status = "IN_GAME" => rooms'[q] = rooms[q]
      BY <2>4, <3>1
    <3> QED BY <1>i, <2>4, <3>1, <3>2, ClaimsHold DEF Claims
  <2> HIDE DEF mine
  <2> QED BY <1>1, <2>2, <2>3, <2>4 DEF Seat, mine
<1>2. CASE Claim(u)
  <2>1. CASE UNCHANGED rooms /\ entry' = [entry EXCEPT ![u] = Idle]
    BY <1>i, <2>1, ClaimsHold DEF Claims
  <2>2. CASE Claimable(e.room) /\ rooms' = [rooms EXCEPT ![e.room].status = "IN_GAME"]
             /\ entry' = [entry EXCEPT ![u].pc = "create"]
    <3>1. PICK r \in Room : r = e.room
      BY <1>2, <1>e DEF Claim
    <3>2. rooms' = [rooms EXCEPT ![r].status = "IN_GAME"]
      BY <2>2, <3>1
    <3>3. rooms'[r] = [rooms[r] EXCEPT !.status = "IN_GAME"]
          /\ \A q \in Room \ {r} : rooms'[q] = rooms[q]
      BY <3>2, StatusType
    <3>4. rooms'[r].status = "IN_GAME" /\ rooms'[r].gameId = rooms[r].gameId
      BY <3>3 DEF Typed, RoomRow
    <3>5. rooms[r].gameId = None /\ \A v \in User : ~Starts(v, r)
      BY <2>2, <3>1 DEF Claimable, Claims
    <3>6. entry' = [entry EXCEPT ![u] = [entry[u] EXCEPT !.pc = "create"]]
      BY <2>2, StartGoesOn DEF Typed
    <3>7. e \in [pc : {"claim"}, room : Room, players : SUBSET User]
      BY <1>2 DEF Claim, Typed, Entering, Idle
    <3>8. entry'[u].room = r /\ \A v \in User \ {u} : entry'[v] = entry[v]
      BY <3>1, <3>6, <3>7 DEF Typed
    <3>9. \A v \in User, q \in Room : Starts(v, q)' => (v = u /\ q = r) \/ (v # u /\ q # r /\ Starts(v, q))
      BY <3>5, <3>8 DEF Starts
    <3>10. \A q \in Room : rooms'[q].status \in {"NONE", "OPEN"} => rooms'[q].gameId = None
      BY <3>3, <3>4 DEF Claims
    <3>11. ASSUME NEW q \in Room, NEW v \in User, Starts(v, q)'
           PROVE  /\ rooms'[q].status = "IN_GAME" /\ rooms'[q].gameId = None
                  /\ \A w \in User : Starts(w, q)' => w = v
      BY <3>3, <3>4, <3>5, <3>9, <3>11 DEF Claims
    <3> HIDE DEF e
    <3> QED BY <3>10, <3>11 DEF Claims
  <2> QED BY <1>2, <2>1, <2>2 DEF Claim
<1>3. CASE CreateMatch(u)
  <2>1. \A v \in User, r \in Room : Starts(v, r)' => Starts(v, r)
    BY <1>3 DEF CreateMatch, Starts, Typed
  <2> QED BY <1>3, <2>1, ClaimsHold DEF CreateMatch, Claims
<1>4. CASE MarkRoom(u)
  <2>1. PICK r \in Room, g \in Game : r = e.room /\ g = e.game
    BY <1>4, <1>e DEF MarkRoom
  <2>2. \A pc \in {"announce", "release"} : entry' = [entry EXCEPT ![u].pc = pc] =>
          entry' = [entry EXCEPT ![u] = [entry[u] EXCEPT !.pc = pc]]
    BY StartGoesOn DEF Typed
  <2>3. e \in [pc : {"mark"}, room : Room, game : Game]
    BY <1>4 DEF MarkRoom, Typed, Entering, Idle
  <2>4. CASE UNCHANGED rooms /\ entry' = [entry EXCEPT ![u].pc = "release"]
    <3>1. entry'[u].room = entry[u].room /\ \A v \in User \ {u} : entry'[v] = entry[v]
      BY <2>2, <2>3, <2>4 DEF Typed
    <3>2. \A v \in User, q \in Room : Starts(v, q)' => Starts(v, q)
      BY <2>3, <3>1 DEF Starts
    <3> QED BY <2>4, <3>2, ClaimsHold DEF Claims
  <2>5. CASE rooms' = [rooms EXCEPT ![e.room] = Marked(@, e.game)]
             /\ entry' = [entry EXCEPT ![u].pc = "announce"]
    <3>1. entry'[u].pc = "announce" /\ \A v \in User \ {u} : entry'[v] = entry[v]
      BY <2>2, <2>3, <2>5 DEF Typed
    <3>2. Starts(u, r)
      BY <2>1, <2>3 DEF Starts
    <3>3. \A v \in User, q \in Room : Starts(v, q)' => Starts(v, q) /\ q # r
      BY <3>1, <3>2 DEF Starts, Claims
    <3>4. \A q \in Room \ {r} : rooms'[q] = rooms[q]
      BY <2>1, <2>5 DEF Typed
    <3>5. rooms'[r].status = "IN_GAME"
      BY <2>1, <2>5 DEF Typed, Marked, RoomRow
    <3>6. ASSUME NEW q \in Room, NEW v \in User, Starts(v, q)'
          PROVE  /\ rooms'[q].status = "IN_GAME" /\ rooms'[q].gameId = None
                 /\ \A w \in User : Starts(w, q)' => w = v
      BY <3>3, <3>4, <3>6 DEF Claims
    <3>7. \A q \in Room : rooms'[q].status \in {"NONE", "OPEN"} => rooms'[q].gameId = None
      BY <3>4, <3>5 DEF Claims
    <3> HIDE DEF e
    <3> QED BY <3>6, <3>7 DEF Claims
  <2> QED BY <1>4, <2>4, <2>5 DEF MarkRoom
<1>5. CASE ReleaseClaim(u)
  <2>1. PICK r \in Room : r = e.room
    BY <1>5, <1>e DEF ReleaseClaim
  <2>2. \A v \in User, q \in Room : Starts(v, q)' => Starts(v, q) /\ q # r
    BY <1>5, <1>i, <2>1 DEF ReleaseClaim, Starts, Claims
  <2>3. CASE UNCHANGED rooms
    BY <2>2, <2>3, ClaimsHold DEF Claims
  <2>4. CASE rooms[r].gameId = None /\ rooms' = [rooms EXCEPT ![r].status = "OPEN"]
    <3>1. rooms'[r] = [rooms[r] EXCEPT !.status = "OPEN"] /\ \A q \in Room \ {r} : rooms'[q] = rooms[q]
      BY <2>4, StatusType
    <3>2. rooms'[r].gameId = None
      BY <2>4, <3>1 DEF Typed, RoomRow
    <3>3. ASSUME NEW q \in Room, NEW v \in User, Starts(v, q)'
          PROVE  /\ rooms'[q].status = "IN_GAME" /\ rooms'[q].gameId = None
                 /\ \A w \in User : Starts(w, q)' => w = v
      BY <2>2, <3>1, <3>3 DEF Claims
    <3>4. \A q \in Room : rooms'[q].status \in {"NONE", "OPEN"} => rooms'[q].gameId = None
      BY <3>1, <3>2 DEF Claims
    <3> QED BY <3>3, <3>4 DEF Claims
  <2> QED BY <1>5, <2>1, <2>3, <2>4 DEF ReleaseClaim
<1>6. CASE StartMatch(u)
  BY <1>6, <1>i, ClaimsHold DEF StartMatch, Claims
<1> QED BY <1>1, <1>2, <1>3, <1>4, <1>5, <1>6 DEF Enter

-----------------------------------------------------------------------------
(* Who finishes a game.                                                    *)

GameOver(g) == games[g].status \in {"COMPLETED", "ABANDONED"}

Closes(u, g) == abandoning[u].pc \in {"persist", "reopen"} /\ abandoning[u].game = g

Ends(g) == ending[g] \in {"persist", "close"}

\* Nobody has finished a game that is not over.  A game that is over has no engine, so nobody
\* wins it again; one handler finishes it, and writes its result if nobody has.
Finishing ==
  /\ \A g \in Game : ~GameOver(g) => gameRows[g] = 0 /\ ~Ends(g) /\ \A u \in User : ~Closes(u, g)
  /\ \A g \in Game : GameOver(g) => engines[g] = "none"
  /\ \A g \in Game : gameRows[g] <= 1
  /\ \A g \in Game : ending[g] = "persist" => gameRows[g] = 0
  /\ \A g \in Game, u \in User : Closes(u, g) =>
       /\ ~Ends(g)
       /\ \A v \in User : Closes(v, g) => v = u
       /\ abandoning[u].pc = "persist" => gameRows[g] = 0

\* A step that flips no status, writes no result and sends nobody on to finish a game.
LEMMA FinishingHolds ==
  ASSUME Finishing, UNCHANGED gameRows,
         \A g \in Game : games'[g].status = games[g].status,
         \A g \in Game : GameOver(g) => engines'[g] = engines[g],
         \A g \in Game : Ends(g)' => ending'[g] = ending[g],
         \A u \in User : abandoning'[u] = abandoning[u] \/ abandoning'[u].pc \notin {"persist", "reopen"}
  PROVE  Finishing'
<1>1. \A g \in Game : GameOver(g)' <=> GameOver(g)
  BY DEF GameOver
<1>2. \A g \in Game : Ends(g)' => Ends(g)
  BY DEF Ends
<1>3. \A g \in Game, u \in User : Closes(u, g)' => Closes(u, g) /\ abandoning'[u] = abandoning[u]
  BY DEF Closes
<1>4. \A g \in Game : ending'[g] = "persist" => ending[g] = "persist"
  BY DEF Ends
<1> QED BY <1>1, <1>2, <1>3, <1>4 DEF Finishing

LEMMA DeleteGameStatus ==
  ASSUME Typed, NEW g \in Game, games' = DeleteGame(g)
  PROVE  \A h \in Game : games'[h].status = games[h].status
BY DEF DeleteGame, Typed, GameState

\* A step the handlers that finish games take no part in.
LEMMA FinishingAside ==
  ASSUME Finishing, UNCHANGED <<games, gameRows, ending>>,
         \A g \in Game : GameOver(g) => engines'[g] = engines[g],
         \A u \in User : abandoning'[u] = abandoning[u] \/ abandoning'[u].pc \notin {"persist", "reopen"}
  PROVE  Finishing'
BY FinishingHolds

LEMMA FinishingActStep ==
  ASSUME Typed, Finishing, NEW u \in User,
         Act(u) \/ GraceExpires(u) \/ \E s \in Closing : Leave(u, s)
  PROVE  Finishing'
<1>1. CASE UNCHANGED <<games, gameRows, ending, engines, abandoning>>
  BY <1>1, FinishingAside
<1>2. CASE UNCHANGED <<games, gameRows, ending, engines>> /\ CallAbandon(u)
  <2>1. \A v \in User : abandoning'[v] = abandoning[v] \/ abandoning'[v].pc \notin {"persist", "reopen"}
    BY <1>2, AbandonCalled DEF Typed, Idle
  <2> QED BY <1>2, <2>1, FinishingAside
<1>3. ASSUME NEW g \in Game, MoveThrows(u, g) PROVE Finishing'
  <2>1. ~GameOver(g)
    BY <1>3 DEF MoveThrows, MayMove, Playing, Finishing
  <2>2. \A h \in Game : GameOver(h) => engines'[h] = engines[h]
    BY <1>3, <2>1 DEF MoveThrows, Typed
  <2> QED BY <1>3, <2>2, FinishingAside DEF MoveThrows
<1>4. ASSUME NEW g \in Game, WinningMove(u, g) PROVE Finishing'
  <2>1. ~GameOver(g)
    BY <1>4 DEF WinningMove, MayMove, Playing, Finishing
  <2>2. \A h \in Game : GameOver(h) => engines'[h] = engines[h]
    BY <1>4, <2>1 DEF WinningMove, Typed
  <2>3. \A h \in Game : Ends(h)' => ending'[h] = ending[h]
    BY <1>4 DEF WinningMove, Ends, Typed
  <2> QED BY <1>4, <2>2, <2>3, FinishingHolds DEF WinningMove
<1>5. CASE Act(u)
  BY <1>5, <1>1, <1>2, <1>3, <1>4
     DEF Act, Connect, LeaveRoom, EndRoom, Move, Disconnect, LeaveGame, EnterRoom
<1>6. CASE GraceExpires(u)
  BY <1>6, <1>2 DEF GraceExpires
<1>7. CASE \E s \in Closing : Leave(u, s)
  BY <1>7, <1>1 DEF Leave, LeaveUnseat, LeaveFindGame, LeavePause
<1> QED BY <1>5, <1>6, <1>7

\* The flip: from here on the game is over, and the handler that made it has it to itself.
LEMMA AbandonFlips ==
  ASSUME Typed, Finishing, NEW u \in User, NEW g \in Game, AbandonFlip(u), abandoning[u].game = g,
         InProgress(g)
  PROVE  Finishing'
<1>1. ~GameOver(g)
  BY DEF InProgress, GameOver
<1>2. /\ games' = [games EXCEPT ![g] = Over(games[g], "ABANDONED")]
      /\ engines' = [engines EXCEPT ![g] = "none"]
      /\ abandoning' = [abandoning EXCEPT ![u].pc = "persist"]
      /\ UNCHANGED <<gameRows, ending>>
  BY DEF AbandonFlip, Typed
<1>3. GameOver(g)' /\ engines'[g] = "none"
  BY <1>2, OverType DEF GameOver, Typed
<1>4. \A h \in Game \ {g} : GameOver(h)' <=> GameOver(h)
  BY <1>2 DEF GameOver, Typed
<1>5. \A h \in Game \ {g} : engines'[h] = engines[h]
  BY <1>2 DEF Typed
<1>6. abandoning[u] = [pc |-> "flip", game |-> g]
  BY WhatWaits DEF Typed, AbandonFlip
<1>7. abandoning' = [abandoning EXCEPT ![u] = [abandoning[u] EXCEPT !.pc = "persist"]]
  BY <1>2 DEF Typed
<1>8. abandoning'[u] = [pc |-> "persist", game |-> g] /\ \A v \in User \ {u} : abandoning'[v] = abandoning[v]
  BY <1>6, <1>7 DEF Typed
<1>9. \A v \in User, h \in Game : Closes(v, h)' => (v = u /\ h = g) \/ (v # u /\ h # g /\ Closes(v, h))
  BY <1>1, <1>8 DEF Closes, Finishing
<1>10. \A h \in Game : Ends(h)' <=> Ends(h)
  BY <1>2 DEF Ends
<1>11. gameRows[g] = 0 /\ ~Ends(g)
  BY <1>1 DEF Finishing
<1>12. ASSUME NEW h \in Game, NEW v \in User, Closes(v, h)'
       PROVE  /\ ~Ends(h)' /\ \A w \in User : Closes(w, h)' => w = v
              /\ abandoning'[v].pc = "persist" => gameRows'[h] = 0
  <2>1. CASE v = u /\ h = g
    BY <1>2, <1>9, <1>10, <1>11, <2>1
  <2>2. CASE v # u /\ h # g /\ Closes(v, h)
    <3>1. \A w \in User : Closes(w, h)' => Closes(w, h)
      BY <1>9, <2>2
    <3>2. ~Ends(h) /\ \A w \in User : Closes(w, h) => w = v
      BY <2>2 DEF Finishing
    <3>3. abandoning[v].pc = "persist" => gameRows[h] = 0
      BY <2>2 DEF Finishing
    <3> QED BY <1>2, <1>8, <1>10, <2>2, <3>1, <3>2, <3>3
  <2> QED BY <1>9, <1>12, <2>1, <2>2
<1>13. \A h \in Game : GameOver(h)' => engines'[h] = "none"
  BY <1>3, <1>4, <1>5 DEF Finishing
<1>14. ASSUME NEW h \in Game, ~GameOver(h)'
       PROVE  gameRows'[h] = 0 /\ ~Ends(h)' /\ \A v \in User : ~Closes(v, h)'
  <2>1. h # g /\ ~GameOver(h)
    BY <1>3, <1>4, <1>14
  <2>2. gameRows[h] = 0 /\ ~Ends(h) /\ \A v \in User : ~Closes(v, h)
    BY <2>1 DEF Finishing
  <2> QED BY <1>2, <1>9, <1>10, <2>1, <2>2
<1>15. \A h \in Game : gameRows'[h] <= 1 /\ (ending'[h] = "persist" => gameRows'[h] = 0)
  BY <1>2 DEF Finishing
<1> QED BY <1>12, <1>13, <1>14, <1>15 DEF Finishing

LEMMA FinishingAbandonStep ==
  ASSUME Typed, Finishing, NEW u \in User, Abandon(u) PROVE Finishing'
<1> DEFINE g == abandoning[u].game
<1>1. abandoning[u].pc \in {"flip", "persist", "reopen"}
  BY DEF Abandon, AbandonFlip, AbandonPersist, AbandonReopen
<1>2. g \in Game /\ abandoning[u] = [pc |-> abandoning[u].pc, game |-> g]
  BY <1>1, WhatWaits DEF Typed
<1>3. ASSUME abandoning' = [abandoning EXCEPT ![u] = Idle], UNCHANGED <<games, gameRows, ending, engines>>
      PROVE  Finishing'
  <2>1. \A v \in User : abandoning'[v] = abandoning[v] \/ abandoning'[v].pc \notin {"persist", "reopen"}
    BY <1>3 DEF Typed, Idle
  <2> QED BY <1>3, <2>1, FinishingAside
<1> HIDE DEF g
<1>4. CASE AbandonFlip(u)
  <2>1. CASE InProgress(g)
    BY <1>2, <1>4, <2>1, AbandonFlips DEF g
  <2>2. CASE ~InProgress(g)
    BY <1>3, <1>4, <2>2 DEF AbandonFlip, g
  <2> QED BY <2>1, <2>2
<1>5. CASE AbandonPersist(u)
  <2>1. Closes(u, g) /\ abandoning[u].pc = "persist"
    BY <1>5 DEF AbandonPersist, Closes, g
  <2>2. GameOver(g) /\ gameRows[g] = 0 /\ ~Ends(g) /\ \A v \in User : Closes(v, g) => v = u
    BY <1>2, <2>1 DEF Finishing
  <2>3. \A h \in Game : games'[h].status = games[h].status
    BY <1>2, <1>5, DeleteGameStatus DEF AbandonPersist, g
  <2>4. UNCHANGED <<engines, ending>>
    BY <1>5 DEF AbandonPersist
  <2>5. gameRows'[g] \in {0, 1} /\ \A h \in Game \ {g} : gameRows'[h] = gameRows[h]
    BY <1>2, <1>5, <2>2 DEF AbandonPersist, Typed, g
  <2>6. abandoning' = [abandoning EXCEPT ![u] = [abandoning[u] EXCEPT !.pc = "reopen"]]
    BY <1>5 DEF AbandonPersist, Typed
  <2>7. abandoning'[u] = [pc |-> "reopen", game |-> g] /\ \A v \in User \ {u} : abandoning'[v] = abandoning[v]
    BY <1>2, <2>6 DEF Typed
  <2>8. \A v \in User, h \in Game : Closes(v, h)' => Closes(v, h) /\ (v = u <=> h = g)
    BY <2>1, <2>2, <2>7 DEF Closes
  <2>9. \A h \in Game : (GameOver(h)' <=> GameOver(h)) /\ (Ends(h)' <=> Ends(h))
    BY <2>3, <2>4 DEF GameOver, Ends
  <2>10. ASSUME NEW h \in Game, NEW v \in User, Closes(v, h)'
         PROVE  /\ ~Ends(h)' /\ \A w \in User : Closes(w, h)' => w = v
                /\ abandoning'[v].pc = "persist" => gameRows'[h] = 0
    <3>1. Closes(v, h) /\ (v = u <=> h = g)
      BY <2>8, <2>10
    <3>2. ~Ends(h) /\ (\A w \in User : Closes(w, h) => w = v)
      BY <3>1 DEF Finishing
    <3>3. h # g => (abandoning'[v].pc = "persist" => gameRows'[h] = 0)
      BY <2>5, <2>7, <3>1 DEF Finishing
    <3>4. h = g => abandoning'[v].pc = "reopen"
      BY <2>7, <3>1
    <3>5. abandoning'[v].pc = "persist" => gameRows'[h] = 0
      BY <3>3, <3>4
    <3> QED BY <2>8, <2>9, <3>2, <3>5
  <2>11. ASSUME NEW h \in Game, ~GameOver(h)'
         PROVE  gameRows'[h] = 0 /\ ~Ends(h)' /\ \A v \in User : ~Closes(v, h)'
    <3>1. ~GameOver(h) /\ h # g
      BY <2>2, <2>9, <2>11
    <3> QED BY <2>5, <2>8, <2>9, <3>1 DEF Finishing
  <2>12. \A h \in Game : gameRows'[h] <= 1 /\ (ending'[h] = "persist" => gameRows'[h] = 0)
    BY <2>2, <2>4, <2>5 DEF Finishing, Ends
  <2>13. \A h \in Game : GameOver(h)' => engines'[h] = "none"
    BY <2>4, <2>9 DEF Finishing
  <2> QED BY <2>10, <2>11, <2>12, <2>13 DEF Finishing
<1>6. CASE AbandonReopen(u)
  BY <1>3, <1>6 DEF AbandonReopen
<1> QED BY <1>4, <1>5, <1>6 DEF Abandon

LEMMA FinishingEnterStep ==
  ASSUME Typed, Finishing, NEW u \in User, Enter(u) PROVE Finishing'
<1>1. CASE UNCHANGED <<games, engines>>
  BY <1>1, FinishingAside
     DEF Enter, Seat, Claim, CreateMatch, MarkRoom, ReleaseClaim, StartMatch
<1>2. CASE CreateMatch(u)
  <2>1. PICK g \in Game : /\ games[g].status = "NONE"
                          /\ games' = [games EXCEPT ![g] = [status |-> "IN_PROGRESS",
                                         players |-> entry[u].players, stored |-> TRUE]]
                          /\ engines' = [engines EXCEPT ![g] = "live"]
    BY <1>2 DEF CreateMatch
  <2>2. ~GameOver(g) /\ \A h \in Game : GameOver(h)' <=> GameOver(h)
    BY <2>1 DEF GameOver, Typed
  <2>3. \A h \in Game : GameOver(h) => engines'[h] = engines[h]
    BY <2>1, <2>2 DEF Typed
  <2>4. UNCHANGED <<gameRows, ending, abandoning>>
    BY <1>2 DEF CreateMatch
  <2> QED BY <2>2, <2>3, <2>4 DEF Finishing, Closes, Ends
<1>3. ASSUME NEW g \in Game, engines' = [engines EXCEPT ![g] = "none"], games' = DeleteGame(g),
             UNCHANGED <<gameRows, ending, abandoning>>
      PROVE  Finishing'
  <2>1. \A h \in Game : GameOver(h) => engines'[h] = engines[h]
    BY <1>3 DEF Finishing, Typed
  <2> QED BY <1>3, <2>1, DeleteGameStatus, FinishingHolds
<1>4. CASE MarkRoom(u)
  <2>1. entry[u].game \in Game
    BY <1>4, WhatWaits DEF MarkRoom, Typed
  <2> QED BY <1>1, <1>3, <1>4, <2>1 DEF MarkRoom
<1> QED BY <1>1, <1>2, <1>4 DEF Enter, Seat, Claim, ReleaseClaim, StartMatch

\* checkGameEnd's flip.
LEMMA EndFlips ==
  ASSUME Typed, Finishing, NEW g \in Game, EndFlip(g), InProgress(g) PROVE Finishing'
<1>1. ~GameOver(g)
  BY DEF InProgress, GameOver
<1>2. /\ games' = [games EXCEPT ![g] = Over(games[g], "COMPLETED")]
      /\ engines' = [engines EXCEPT ![g] = "none"]
      /\ ending' = [ending EXCEPT ![g] = "persist"]
      /\ UNCHANGED <<gameRows, abandoning>>
  BY DEF EndFlip, Typed
<1>3. GameOver(g)' /\ engines'[g] = "none"
  BY <1>2, OverType DEF GameOver, Typed
<1>4. \A h \in Game \ {g} : /\ GameOver(h)' <=> GameOver(h)
                            /\ engines'[h] = engines[h] /\ ending'[h] = ending[h]
  BY <1>2 DEF GameOver, Typed
<1>5. gameRows[g] = 0 /\ \A u \in User : ~Closes(u, g)
  BY <1>1 DEF Finishing
<1>6. \A u \in User, h \in Game : Closes(u, h)' <=> Closes(u, h)
  BY <1>2 DEF Closes
<1>7. \A h \in Game \ {g} : Ends(h)' <=> Ends(h)
  BY <1>4 DEF Ends
<1>8. ASSUME NEW h \in Game, NEW v \in User, Closes(v, h)'
      PROVE  /\ ~Ends(h)' /\ \A w \in User : Closes(w, h)' => w = v
             /\ abandoning'[v].pc = "persist" => gameRows'[h] = 0
  BY <1>2, <1>5, <1>6, <1>7, <1>8 DEF Finishing
<1>9. \A h \in Game : ~GameOver(h)' =>
        gameRows'[h] = 0 /\ ~Ends(h)' /\ \A v \in User : ~Closes(v, h)'
  BY <1>2, <1>3, <1>4, <1>6, <1>7 DEF Finishing
<1>10. \A h \in Game : gameRows'[h] <= 1 /\ (ending'[h] = "persist" => gameRows'[h] = 0)
  BY <1>2, <1>4, <1>5 DEF Finishing
<1>11. \A h \in Game : GameOver(h)' => engines'[h] = "none"
  BY <1>3, <1>4 DEF Finishing
<1> QED BY <1>8, <1>9, <1>10, <1>11 DEF Finishing

LEMMA FinishingEndStep ==
  ASSUME Typed, Finishing, NEW g \in Game, TurnExpires(g) \/ End(g) PROVE Finishing'
<1>1. CASE TurnExpires(g)
  <2>1. \A h \in Game : GameOver(h) => engines'[h] = engines[h]
    BY <1>1 DEF TurnExpires, Playing, Finishing, Typed
  <2> QED BY <1>1, <2>1, FinishingAside DEF TurnExpires
<1>2. ASSUME ending' = [ending EXCEPT ![g] = "idle"],
             UNCHANGED <<games, engines, gameRows, abandoning>>
      PROVE  Finishing'
  <2>1. \A h \in Game : Ends(h)' => ending'[h] = ending[h]
    BY <1>2 DEF Ends, Typed
  <2> QED BY <1>2, <2>1, FinishingHolds
<1>3. CASE EndFlip(g)
  BY <1>2, <1>3, EndFlips DEF EndFlip
<1>4. CASE EndPersist(g)
  <2>1. Ends(g) /\ gameRows[g] = 0 /\ GameOver(g) /\ \A u \in User : ~Closes(u, g)
    BY <1>4 DEF EndPersist, Ends, Finishing
  <2>2. \A h \in Game : games'[h].status = games[h].status
    BY <1>4, DeleteGameStatus DEF EndPersist
  <2>3. gameRows'[g] \in {0, 1} /\ \A h \in Game \ {g} : gameRows'[h] = gameRows[h]
    BY <1>4, <2>1 DEF EndPersist, Typed
  <2>4. ending'[g] = "close" /\ \A h \in Game \ {g} : ending'[h] = ending[h]
    BY <1>4 DEF EndPersist, Typed
  <2>5. UNCHANGED <<engines, abandoning>>
    BY <1>4 DEF EndPersist
  <2>6. \A h \in Game : (GameOver(h)' <=> GameOver(h)) /\ (Ends(h)' <=> Ends(h))
    BY <2>1, <2>2, <2>4 DEF GameOver, Ends
  <2>7. \A u \in User, h \in Game : Closes(u, h)' <=> Closes(u, h)
    BY <2>5 DEF Closes
  <2> QED BY <2>1, <2>3, <2>4, <2>5, <2>6, <2>7 DEF Finishing
<1>5. CASE EndClose(g)
  BY <1>2, <1>5 DEF EndClose
<1> QED BY <1>1, <1>3, <1>4, <1>5 DEF End

-----------------------------------------------------------------------------
(* The clock of a game.                                                    *)

Timed(g) ==
  /\ pausedGames[g] # {} => turnTimers[g] = "none"
  /\ engines[g] = "live" /\ pausedGames[g] = {} /\ ~Starting(g) => turnTimers[g] = "armed"

Clock == \A g \in Game : Timed(g)

LEMMA TimedHolds ==
  ASSUME NEW g \in Game, Timed(g), pausedGames'[g] = pausedGames[g], turnTimers'[g] = turnTimers[g],
         engines'[g] = "live" => engines[g] = "live", Starting(g) => Starting(g)'
  PROVE  Timed(g)'
BY DEF Timed

LEMMA TimedAfterSync ==
  ASSUME NEW g \in Game, UNCHANGED engines, turnTimers'[g] = SyncedTimer(engines[g], pausedGames'[g])
  PROVE  Timed(g)'
BY DEF Timed, SyncedTimer, Playing

LEMMA ClockActStep ==
  ASSUME Typed, Clock, NEW u \in User,
         Act(u) \/ GraceExpires(u) \/ \E s \in Closing : Leave(u, s)
  PROVE  Clock'
<1>1. CASE UNCHANGED <<engines, turnTimers, pausedGames, entry>>
  BY <1>1 DEF Clock, Timed, Starting
<1>2. CASE Connect(u)
  <2>1. UNCHANGED <<engines, entry>>
    BY <1>2 DEF Connect
  <2>2. ASSUME NEW g \in Game, g = ActiveGame(u), u \in pausedGames[g] PROVE Clock'
    <3>1. /\ pausedGames'[g] = StillWaitedFor(g, u)
          /\ \A h \in Game \ {g} : pausedGames'[h] = pausedGames[h]
      BY <1>2, <2>2, Numbers DEF Connect, Typed
    <3>2. CASE StillWaitedFor(g, u) = {}
      <4>1. /\ turnTimers'[g] = SyncedTimer(engines[g], pausedGames'[g])
            /\ \A h \in Game \ {g} : turnTimers'[h] = turnTimers[h]
        BY <1>2, <2>2, <3>1, <3>2, Numbers DEF Connect, Typed
      <4>2. Timed(g)'
        BY <2>1, <4>1, TimedAfterSync
      <4> QED BY <2>1, <3>1, <4>1, <4>2, TimedHolds DEF Clock, Starting
    <3>3. CASE StillWaitedFor(g, u) # {}
      <4>1. UNCHANGED turnTimers
        BY <1>2, <2>2, <3>3, Numbers DEF Connect
      <4>2. Timed(g)'
        BY <2>2, <3>1, <3>3, <4>1 DEF Clock, Timed
      <4> QED BY <2>1, <3>1, <4>1, <4>2, TimedHolds DEF Clock, Starting
    <3> QED BY <3>2, <3>3
  <2>3. CASE UNCHANGED <<pausedGames, turnTimers>>
    BY <1>1, <2>1, <2>3
  <2> QED BY <1>2, <2>2, <2>3, ActiveGameIsGame DEF Connect
<1>3. ASSUME NEW g \in Game, Move(u, g) PROVE Clock'
  <2>1. /\ turnTimers'[g] = SyncedTimer(engines[g], pausedGames'[g])
        /\ \A h \in Game \ {g} : turnTimers'[h] = turnTimers[h]
    BY <1>3 DEF Move, Typed
  <2> QED BY <1>3, <2>1, TimedAfterSync, TimedHolds DEF Move, Clock, Starting
<1>4. ASSUME NEW g \in Game, MoveThrows(u, g) \/ WinningMove(u, g) PROVE Clock'
  <2>1. /\ pausedGames[g] = {} /\ engines'[g] # "live" /\ UNCHANGED <<pausedGames, entry>>
        /\ \A h \in Game \ {g} : turnTimers'[h] = turnTimers[h] /\ engines'[h] = engines[h]
    BY <1>4 DEF MoveThrows, WinningMove, MayMove, Typed
  <2> QED BY <2>1, TimedHolds DEF Clock, Timed, Starting
<1>5. CASE EnterRoom(u)
  <2>1. \A g \in Game : Starting(g) => Starting(g)'
    <3>1. ASSUME NEW g \in Game, NEW v \in User, entry[v].pc \in {"mark", "announce"} /\ entry[v].game = g
          PROVE  Starting(g)'
      BY <1>5, <3>1 DEF EnterRoom, Starting, Idle, Typed
    <3> QED BY <3>1 DEF Starting
  <2> QED BY <1>5, <2>1, TimedHolds DEF EnterRoom, Clock
<1>6. ASSUME NEW s \in Closing, LeavePause(u, s) PROVE Clock'
  <2>1. leaving[u][s].game \in Game
    BY <1>6, WhatWaits DEF LeavePause, Typed, LeavingHandlers
  <2>2. CASE UNCHANGED <<pausedGames, turnTimers>>
    BY <1>1, <1>6, <2>2 DEF LeavePause
  <2>3. ASSUME NEW g \in Game, pausedGames' = [pausedGames EXCEPT ![g] = @ \cup {u}],
               turnTimers' = [turnTimers EXCEPT ![g] = "none"], UNCHANGED <<engines, entry>>
        PROVE  Clock'
    <3>1. Timed(g)'
      BY <2>3 DEF Timed, Typed
    <3>2. \A h \in Game \ {g} : pausedGames'[h] = pausedGames[h] /\ turnTimers'[h] = turnTimers[h]
      BY <2>3 DEF Typed
    <3> QED BY <2>3, <3>1, <3>2, TimedHolds DEF Clock, Starting
  <2> QED BY <1>6, <2>1, <2>2, <2>3 DEF LeavePause
<1>7. CASE Act(u)
  BY <1>7, <1>1, <1>2, <1>3, <1>4, <1>5 DEF Act, LeaveRoom, EndRoom, Disconnect, LeaveGame
<1>8. CASE GraceExpires(u) \/ \E s \in Closing : Leave(u, s)
  BY <1>8, <1>1, <1>6 DEF GraceExpires, Leave, LeaveUnseat, LeaveFindGame
<1> QED BY <1>7, <1>8

LEMMA ClockAbandonStep ==
  ASSUME Typed, Finishing, Clock, NEW u \in User, Abandon(u) PROVE Clock'
<1>1. CASE UNCHANGED <<engines, turnTimers, pausedGames, entry>>
  BY <1>1 DEF Clock, Timed, Starting
<1>2. ASSUME NEW g \in Game, engines' = [engines EXCEPT ![g] = "none"],
             UNCHANGED <<turnTimers, pausedGames, entry>>
      PROVE  Clock'
  <2>1. \A h \in Game : engines'[h] = "live" => engines[h] = "live"
    BY <1>2 DEF Typed
  <2> QED BY <1>2, <2>1, TimedHolds DEF Clock, Starting
<1>3. CASE AbandonFlip(u)
  <2>1. abandoning[u].game \in Game
    BY <1>3, WhatWaits DEF AbandonFlip, Typed
  <2> QED BY <1>1, <1>2, <1>3, <2>1 DEF AbandonFlip
<1>4. CASE AbandonPersist(u)
  <2>1. PICK g \in Game : g = abandoning[u].game /\ Closes(u, g)
    BY <1>4, WhatWaits DEF AbandonPersist, Closes, Typed
  <2>2. engines[g] = "none" /\ UNCHANGED <<engines, entry>>
    BY <1>4, <2>1 DEF AbandonPersist, Finishing
  <2>3. /\ pausedGames'[g] = {}
        /\ \A h \in Game \ {g} : pausedGames'[h] = pausedGames[h] /\ turnTimers'[h] = turnTimers[h]
    BY <1>4, <2>1 DEF AbandonPersist, Typed
  <2>4. Timed(g)'
    BY <2>2, <2>3 DEF Timed
  <2> QED BY <2>2, <2>3, <2>4, TimedHolds DEF Clock, Starting
<1> QED BY <1>1, <1>3, <1>4 DEF Abandon, AbandonReopen

LEMMA ClockEnterStep ==
  ASSUME Typed, Clock, NEW u \in User, Enter(u) PROVE Clock'
\* A user whose queue is not at a match already starts none by going on.
<1>1. ASSUME entry[u].pc \notin {"mark", "announce"}, \A v \in User \ {u} : entry'[v] = entry[v]
      PROVE  \A g \in Game : Starting(g) => Starting(g)'
  BY <1>1 DEF Starting
<1>2. CASE Seat(u) \/ Claim(u) \/ ReleaseClaim(u)
  <2>1. entry[u].pc \notin {"mark", "announce"} /\ \A v \in User \ {u} : entry'[v] = entry[v]
    BY <1>2 DEF Seat, Claim, ReleaseClaim, Typed
  <2> QED BY <1>1, <1>2, <2>1, TimedHolds DEF Seat, Claim, ReleaseClaim, Clock
<1>3. CASE CreateMatch(u)
  <2>1. PICK g \in Game : /\ engines' = [engines EXCEPT ![g] = "live"]
                          /\ entry' = [entry EXCEPT ![u] = [pc |-> "mark", room |-> entry[u].room, game |-> g]]
    BY <1>3 DEF CreateMatch
  <2>2. entry'[u].pc = "mark" /\ entry'[u].game = g /\ \A v \in User \ {u} : entry'[v] = entry[v]
    BY <2>1 DEF Typed
  <2>3. Starting(g)'
    BY <2>2 DEF Starting
  <2>4. \A h \in Game : Starting(h) => Starting(h)'
    BY <1>1, <1>3, <2>2 DEF CreateMatch
  <2>5. \A h \in Game \ {g} : engines'[h] = engines[h]
    BY <2>1 DEF Typed
  <2>6. UNCHANGED <<turnTimers, pausedGames>>
    BY <1>3 DEF CreateMatch
  <2>7. Timed(g)'
    BY <2>3, <2>6 DEF Clock, Timed
  <2> QED BY <2>4, <2>5, <2>6, <2>7, TimedHolds DEF Clock
<1>4. CASE MarkRoom(u)
  <2>1. PICK g \in Game : g = entry[u].game /\ entry[u] = [pc |-> "mark", room |-> entry[u].room, game |-> g]
    BY <1>4 DEF MarkRoom, Typed, Entering, Idle
  <2>2. UNCHANGED <<turnTimers, pausedGames>>
    BY <1>4 DEF MarkRoom
  <2>3. CASE UNCHANGED engines /\ entry' = [entry EXCEPT ![u].pc = "announce"]
    <3>1. entry' = [entry EXCEPT ![u] = [entry[u] EXCEPT !.pc = "announce"]]
      BY <2>3, StartGoesOn DEF Typed
    <3>2. entry'[u].pc = "announce" /\ entry'[u].game = g /\ \A v \in User \ {u} : entry'[v] = entry[v]
      BY <2>1, <3>1 DEF Typed
    <3>3. \A h \in Game : Starting(h) => Starting(h)'
      BY <2>1, <3>2 DEF Starting
    <3> QED BY <2>2, <2>3, <3>3, TimedHolds DEF Clock
  <2>4. CASE engines' = [engines EXCEPT ![g] = "none"] /\ entry' = [entry EXCEPT ![u].pc = "release"]
    <3>1. engines'[g] = "none" /\ \A h \in Game \ {g} : engines'[h] = engines[h]
      BY <2>4 DEF Typed
    <3>2. \A v \in User \ {u} : entry'[v] = entry[v]
      BY <2>4 DEF Typed
    <3>3. \A h \in Game \ {g} : Starting(h) => Starting(h)'
      BY <2>1, <3>2 DEF Starting
    <3>4. Timed(g)'
      BY <2>2, <3>1 DEF Clock, Timed
    <3> QED BY <2>2, <3>1, <3>3, <3>4, TimedHolds DEF Clock
  <2> QED BY <1>4, <2>1, <2>3, <2>4 DEF MarkRoom
<1>5. CASE StartMatch(u)
  <2>1. PICK g \in Game : g = entry[u].game
    BY <1>5, WhatWaits DEF StartMatch, Typed
  <2>2. UNCHANGED <<engines, pausedGames>>
    BY <1>5 DEF StartMatch
  <2>3. /\ turnTimers'[g] = SyncedTimer(engines[g], pausedGames'[g])
        /\ \A h \in Game \ {g} : turnTimers'[h] = turnTimers[h]
    BY <1>5, <2>1, <2>2 DEF StartMatch, Typed
  <2>4. \A v \in User \ {u} : entry'[v] = entry[v]
    BY <1>5 DEF StartMatch, Typed
  <2>5. \A h \in Game \ {g} : Starting(h) => Starting(h)'
    BY <2>1, <2>4 DEF Starting
  <2> QED BY <2>2, <2>3, <2>5, TimedAfterSync, TimedHolds DEF Clock
<1> QED BY <1>2, <1>3, <1>4, <1>5 DEF Enter

LEMMA ClockEndStep ==
  ASSUME Typed, Clock, NEW g \in Game, TurnExpires(g) \/ End(g) PROVE Clock'
<1>1. CASE TurnExpires(g)
  <2>1. UNCHANGED <<pausedGames, entry>>
    BY <1>1 DEF TurnExpires
  <2>2. \A h \in Game \ {g} : turnTimers'[h] = turnTimers[h] /\ engines'[h] = engines[h]
    BY <1>1 DEF TurnExpires, Typed
  <2>3. Timed(g)'
    <3>1. CASE turnTimers'[g] = SyncedTimer(engines[g], pausedGames'[g]) /\ UNCHANGED engines
      BY <3>1, TimedAfterSync
    <3>2. CASE pausedGames[g] = {} /\ engines'[g] = "dry"
      BY <2>1, <3>2 DEF Timed
    <3>3. CASE /\ ~(pausedGames[g] = {} /\ Playing(engines[g]) /\ turnTimers[g] = "armed")
               /\ turnTimers'[g] = "none" /\ UNCHANGED engines
      BY <2>1, <3>3 DEF Clock, Timed, Playing, Starting
    <3> QED BY <1>1, <3>1, <3>2, <3>3 DEF TurnExpires, Typed
  <2> QED BY <2>1, <2>2, <2>3, TimedHolds DEF Clock, Starting
<1>2. CASE EndFlip(g)
  <2>1. \A h \in Game : engines'[h] = "live" => engines[h] = "live"
    BY <1>2 DEF EndFlip, Typed
  <2> QED BY <1>2, <2>1, TimedHolds DEF EndFlip, Clock, Starting
<1>3. CASE EndPersist(g) \/ EndClose(g)
  BY <1>3 DEF EndPersist, EndClose, Clock, Timed, Starting
<1> QED BY <1>1, <1>2, <1>3 DEF End

-----------------------------------------------------------------------------
IInv == Typed /\ Absent /\ Claims /\ Finishing /\ Clock

LEMMA InitIInv == Init => IInv
<1> SUFFICES ASSUME Init PROVE IInv
  OBVIOUS
<1>1. Claims
  BY DEF Init, Claims, Starts, Idle
<1>2. Finishing
  BY DEF Init, Finishing, GameOver, Closes, Ends, Idle
<1>3. Clock
  BY DEF Init, Clock, Timed
<1> QED BY <1>1, <1>2, <1>3, InitTypes DEF IInv

LEMMA ClaimsStep == Typed /\ Claims /\ [Next]_vars => Claims'
<1>1. Claims /\ UNCHANGED vars => Claims'
  BY DEF vars, Claims, Starts
<1> QED BY <1>1, ClaimsActStep, ClaimsAbandonStep, ClaimsEnterStep, ClaimsEndStep DEF Next

LEMMA FinishingStep == Typed /\ Finishing /\ [Next]_vars => Finishing'
<1>1. Finishing /\ UNCHANGED vars => Finishing'
  BY DEF vars, Finishing, GameOver, Closes, Ends
<1> QED BY <1>1, FinishingActStep, FinishingAbandonStep, FinishingEnterStep, FinishingEndStep DEF Next

LEMMA ClockStep == Typed /\ Finishing /\ Clock /\ [Next]_vars => Clock'
<1>1. Clock /\ UNCHANGED vars => Clock'
  BY DEF vars, Clock, Timed, Starting
<1> QED BY <1>1, ClockActStep, ClockAbandonStep, ClockEnterStep, ClockEndStep DEF Next

\* The rows, the waiting handlers, the clocks and the graces fit together at all times.
THEOREM Invariance == Spec => []IInv
<1>1. IInv /\ [Next]_vars => IInv'
  BY TypedStep, AbsentStep, ClaimsStep, FinishingStep, ClockStep DEF IInv
<1> QED BY InitIInv, <1>1, PTL DEF Spec

\* Every variable keeps its type, and no waiting handler lacks what it needs to go on.
THEOREM TypeCorrect == Spec => []TypeOK
<1>1. IInv => TypeOK
  BY TypeParts DEF IInv, Absent
<1> QED BY Invariance, <1>1, PTL

\* However many sockets of a user close and open at once, no grace that could end a game under
\* a connected player runs.
THEOREM GracesCorrect == Spec => []GraceOnlyForAbsent
<1>1. IInv => GraceOnlyForAbsent
  BY DEF IInv, Absent, Graced, GraceOnlyForAbsent
<1> QED BY Invariance, <1>1, PTL

\* A running game is timed for the current turn, except while it waits for somebody.
THEOREM ClocksCorrect == Spec => []ClockFollowsGame
<1>1. IInv => ClockFollowsGame
  BY DEF IInv, Clock, Timed, ClockFollowsGame
<1> QED BY Invariance, <1>1, PTL

\* Sets with one element at most.
LEMMA AtMostOne ==
  ASSUME NEW S, \A x, y \in S : x = y
  PROVE  Cardinality(S) <= 1
<1>1. CASE S = {}
  BY <1>1, FS_EmptySet
<1>2. CASE S # {}
  <2>1. PICK x \in S : TRUE
    BY <1>2
  <2>2. S = {x}
    BY <2>1
  <2>3. Cardinality({x}) = 1
    BY FS_Singleton
  <2> QED BY <2>2, <2>3
<1> QED BY <1>1, <1>2

\* However many seats fill a room at once, one of them starts its match.
THEOREM ClaimsCorrect == Spec => []ClaimIsExclusive
<1>1. ASSUME IInv PROVE ClaimIsExclusive
  <2>1. ASSUME NEW r \in Room
        PROVE  Cardinality(Starters(r)) <= 1 /\ (Starters(r) # {} => rooms[r].gameId = None)
    <3>1. Starters(r) = {u \in User : Starts(u, r)}
      BY DEF Starters, Starts
    <3>2. \A u, v \in Starters(r) : u = v
      BY <1>1, <3>1 DEF IInv, Claims
    <3>3. Starters(r) # {} => rooms[r].gameId = None
      BY <1>1, <3>1 DEF IInv, Claims
    <3> QED BY <3>2, <3>3, AtMostOne
  <2> QED BY <2>1 DEF ClaimIsExclusive
<1> QED BY Invariance, <1>1, PTL

\* However a win, forfeits and grace expiries race, one of them finishes the game.
THEOREM FinishersCorrect == Spec => []OneFinisher
<1>1. ASSUME IInv PROVE OneFinisher
  <2>1. ASSUME NEW g \in Game
        PROVE  /\ Cardinality(Finishers(g)) <= 1 /\ gameRows[g] <= 1
               /\ Finishers(g) # {} \/ gameRows[g] > 0 => GameOver(g)
    <3>1. \A u \in Finishers(g) : (u \in User /\ Closes(u, g)) \/ (u = None /\ Ends(g))
      BY DEF Finishers, Closes, Ends
    <3>2. \A u, v \in Finishers(g) : u = v
      BY <1>1, <3>1 DEF IInv, Finishing
    <3>3. gameRows[g] \in Nat /\ gameRows[g] <= 1
      BY <1>1 DEF IInv, Typed, Finishing
    <3>4. Finishers(g) # {} \/ gameRows[g] > 0 => GameOver(g)
      BY <1>1, <3>1, <3>3 DEF IInv, Finishing
    <3> QED BY <3>2, <3>3, <3>4, AtMostOne
  <2> QED BY <2>1 DEF OneFinisher, GameOver
<1> QED BY Invariance, <1>1, PTL
=============================================================================
