----------------------------- MODULE GameSession -----------------------------
(***************************************************************************)
(* The live games of one server process: the socket handlers               *)
(* (server/src/socket/socket.handlers.js), the matchmaking service, the    *)
(* in-memory game store, the turn timers, and the room rows they keep in   *)
(* step with the games.                                                    *)
(*                                                                         *)
(* Node runs one handler at a time and lets others in at every await.      *)
(* Here each stretch of a handler from one await to the next is an action, *)
(* and a handler that is waiting is a record of its own: the disconnect    *)
(* handlers of a user, its room lifecycle queue, an abandonActiveGame, the  *)
(* checkGameEnd of a game.  A database call that can fail or come back     *)
(* with a serialization CONFLICT does so only if DatabaseFails.            *)
(*                                                                         *)
(* The rows a room operation reads and the transaction that follows are    *)
(* one step; RoomSeating takes them apart.                                 *)
(*                                                                         *)
(* The engine is seen from outside: "live", "dry" once a draw has thrown   *)
(* because both piles were empty, "won".  Whose turn it is, UnoEngine      *)
(* says; here any player may turn out to be on turn.  Nobody but the turn  *)
(* timer reads turnNonce, to see whether it was armed for the current      *)
(* turn; so a timer is "armed" (for this turn) or "stale".                 *)
(***************************************************************************)
EXTENDS Integers, FiniteSets, FiniteSetsExt

CONSTANTS User,
          Capacity,        \* seats in a room
          MaxSockets,      \* bound: open tabs of a user
          MaxClosing,      \* bound: disconnect handlers of a user under way
          MaxGames,        \* bound: games created
          MaxRooms,        \* bound: rooms created
          MaxWaiting,      \* bound: handlers under way when a player starts one more
          DatabaseFails,   \* whether database calls can fail
          None

Game == 1 .. MaxGames      \* in the order of their creation, which is activeGames' order
Room == 1 .. MaxRooms
Closing == 1 .. MaxClosing   \* the disconnect handlers of a user

ASSUME UserAssumption == IsFiniteSet(User) /\ None \notin User
ASSUME CapacityAssumption == Capacity \in Nat /\ Capacity >= 2
ASSUME BoundsAssumption ==
  /\ MaxSockets \in Nat \ {0} /\ MaxClosing \in Nat \ {0}
  /\ MaxGames \in Nat \ {0} /\ MaxRooms \in Nat \ {0} /\ MaxWaiting \in Nat
ASSUME NoneAssumption == None \notin Game \cup Room
ASSUME DatabaseAssumption == DatabaseFails \in BOOLEAN

VARIABLES sockets,           \* number of sockets in `user:${id}`
          games,             \* the state objects, and whether activeGames holds them
          engines,           \* activeEngines: "none", "live", "dry" or "won"
          turnTimers,
          pausedGames,       \* the users each game waits for; {} is no entry
          pendingAbandons,   \* users with an entry in the map of reconnect graces
          graceTimers,       \* reconnect graces of a user that run, in the map or not
          gameRows,          \* Game rows written to PostgreSQL for each game
          rooms,             \* Room rows
          leaving,           \* the disconnect handlers of a user
          entry,             \* the action at the head of a user's room lifecycle queue
          abandoning,        \* a user's abandonActiveGame
          ending             \* a game's checkGameEnd

vars == <<sockets, games, engines, turnTimers, pausedGames, pendingAbandons, graceTimers,
          gameRows, rooms, leaving, entry, abandoning, ending>>

-----------------------------------------------------------------------------
Idle == [pc |-> "idle"]

\* A status filter that lets an abandoned game through.
InProgressOrAbandoned(g) == games[g].status \in {"IN_PROGRESS", "ABANDONED"}

InProgress(g) == games[g].status = "IN_PROGRESS"

\* findActiveGameByUser(u, { status: 'IN_PROGRESS' }): the first in the store, or None.
ActiveGame(u) ==
  LET found == {g \in Game : games[g].stored /\ InProgress(g) /\ u \in games[g].players}
  IN  IF found = {} THEN None ELSE Min(found)

Playing(engine) == engine \in {"live", "dry"}

\* syncTurn without the isGamePaused check.
SyncedTimerEvenPaused(engine, waiting) == IF Playing(engine) THEN "armed" ELSE "none"

\* syncTurn: the clock of a game, given its engine and the users it waits for.
SyncedTimer(engine, waiting) == IF Playing(engine) /\ waiting = {} THEN "armed" ELSE "none"

\* Rooms u is seated in with a status of S.
SeatsOf(u, S) == {r \in Room : rooms[r].status \in S /\ u \in rooms[r].players}

\* removePlayerFromRoom: an emptied room closes.
Unseated(room, u) ==
  [room EXCEPT !.players = @ \ {u},
               !.status = IF room.players \subseteq {u} THEN "CLOSED" ELSE @]

Init ==
  /\ sockets = [u \in User |-> 0]
  /\ games = [g \in Game |-> [status |-> "NONE", players |-> {}, stored |-> FALSE]]
  /\ engines = [g \in Game |-> "none"]
  /\ turnTimers = [g \in Game |-> "none"]
  /\ pausedGames = [g \in Game |-> {}]
  /\ pendingAbandons = {}
  /\ graceTimers = [u \in User |-> 0]
  /\ gameRows = [g \in Game |-> 0]
  /\ rooms = [r \in Room |-> [status |-> "NONE", players |-> {}, gameId |-> None]]
  /\ leaving = [u \in User |-> [s \in Closing |-> Idle]]
  /\ entry = [u \in User |-> Idle]
  /\ abandoning = [u \in User |-> Idle]
  /\ ending = [g \in Game |-> "idle"]

-----------------------------------------------------------------------------
\* resumeGameForUser that looks up a user nobody waits for.
StillWaitedForNobodyBack(g, u) == pausedGames[g]

\* resumeGameForUser: whom g still waits for once u is back.
StillWaitedFor(g, u) == pausedGames[g] \ {u}

\* clearTimeout(pendingAbandons.get(u)): of u's graces, the one in the map stops.
GraceStopped(u) ==
  [graceTimers EXCEPT ![u] = IF u \in pendingAbandons THEN @ - 1 ELSE @]

\* registerHandlers on a new socket: the pending abandon is cancelled, and the game waits for
\* this user no longer (resumeGameForUser).
Connect(u) ==
  /\ sockets[u] < MaxSockets
  /\ sockets' = [sockets EXCEPT ![u] = @ + 1]
  /\ pendingAbandons' = pendingAbandons \ {u}
  /\ graceTimers' = GraceStopped(u)
  /\ LET g == ActiveGame(u) IN
     IF g # None /\ u \in pausedGames[g]
     THEN LET waiting == StillWaitedFor(g, u) IN
          /\ pausedGames' = [pausedGames EXCEPT ![g] = waiting]
          /\ turnTimers' = IF waiting # {} THEN turnTimers
                           ELSE [turnTimers EXCEPT ![g] = SyncedTimer(engines[g], {})]
     ELSE UNCHANGED <<pausedGames, turnTimers>>
  /\ UNCHANGED <<games, engines, gameRows, rooms, leaving, entry, abandoning, ending>>

\* A disconnect handler of u goes on to next.
Leaves(u, s, next) == leaving' = [leaving EXCEPT ![u][s] = next]

\* A socket closes; its disconnect handler first leaves the user's open room.  The handlers of
\* sockets that closed before may still be under way.
Disconnect(u, s) ==
  /\ sockets[u] > 0
  /\ leaving[u][s] = Idle /\ \A t \in Closing : t < s => leaving[u][t] # Idle
  /\ sockets' = [sockets EXCEPT ![u] = @ - 1]
  /\ Leaves(u, s, [pc |-> "unseat"])
  /\ UNCHANGED <<games, engines, turnTimers, pausedGames, pendingAbandons, graceTimers, gameRows,
                 rooms, entry, abandoning, ending>>

\* leaveOpenRoom, which gives up when the conflicts do not end.
LeaveOpenRoom(u) ==
  \/ \E r \in SeatsOf(u, {"OPEN"}) : rooms' = [rooms EXCEPT ![r] = Unseated(@, u)]
  \/ (SeatsOf(u, {"OPEN"}) = {} \/ DatabaseFails) /\ UNCHANGED rooms

LeaveUnseat(u, s) ==
  /\ leaving[u][s].pc = "unseat"
  /\ LeaveOpenRoom(u)
  /\ Leaves(u, s, [pc |-> "find_game"])
  /\ UNCHANGED <<sockets, games, engines, turnTimers, pausedGames, pendingAbandons, graceTimers,
                 gameRows, entry, abandoning, ending>>

LeaveFindGame(u, s) ==
  /\ leaving[u][s].pc = "find_game"
  /\ Leaves(u, s, IF ActiveGame(u) = None THEN Idle
                  ELSE [pc |-> "pause", game |-> ActiveGame(u)])
  /\ UNCHANGED <<sockets, games, engines, turnTimers, pausedGames, pendingAbandons, graceTimers,
                 gameRows, rooms, entry, abandoning, ending>>

\* fetchSockets finds another tab, or one opened since.
RemainingSockets(u) == sockets[u] > 0

\* A grace that starts beside the one a handler before it started.
GraceStartedBeside(u) == [graceTimers EXCEPT ![u] = @ + 1]

\* clearTimeout and setTimeout: u's grace starts over.
GraceRestarted(u) == [GraceStopped(u) EXCEPT ![u] = @ + 1]

\* fetchSockets and the rest: the last socket gone, start the grace and freeze the table of
\* the game found before the await.
LeavePause(u, s) ==
  /\ leaving[u][s].pc = "pause"
  /\ LET g == leaving[u][s].game IN
     IF RemainingSockets(u)
     THEN UNCHANGED <<pendingAbandons, graceTimers, pausedGames, turnTimers>>
     ELSE /\ pendingAbandons' = pendingAbandons \cup {u}
          /\ graceTimers' = GraceRestarted(u)
          /\ pausedGames' = [pausedGames EXCEPT ![g] = @ \cup {u}]
          /\ turnTimers' = [turnTimers EXCEPT ![g] = "none"]
  /\ Leaves(u, s, Idle)
  /\ UNCHANGED <<sockets, games, engines, gameRows, rooms, entry, abandoning, ending>>

-----------------------------------------------------------------------------
\* abandonActiveGame, called: it finds the game before its first await.
CallAbandon(u) ==
  /\ abandoning[u] = Idle
  /\ abandoning' = [abandoning EXCEPT ![u] = IF ActiveGame(u) = None THEN Idle
                                             ELSE [pc |-> "flip", game |-> ActiveGame(u)]]

\* A reconnect grace runs out.
GraceExpires(u) ==
  /\ graceTimers[u] > 0
  /\ graceTimers' = [graceTimers EXCEPT ![u] = @ - 1]
  /\ pendingAbandons' = pendingAbandons \ {u}
  /\ CallAbandon(u)
  /\ UNCHANGED <<sockets, games, engines, turnTimers, pausedGames, gameRows, rooms, leaving,
                 entry, ending>>

\* game:leave, the intentional forfeit.
LeaveGame(u) ==
  /\ sockets[u] > 0
  /\ ActiveGame(u) # None
  /\ pendingAbandons' = pendingAbandons \ {u}
  /\ graceTimers' = GraceStopped(u)
  /\ CallAbandon(u)
  /\ UNCHANGED <<sockets, games, engines, turnTimers, pausedGames, gameRows, rooms, leaving,
                 entry, ending>>

\* The status flip, and setGame.
Over(state, status) == [state EXCEPT !.status = status, !.stored = TRUE]

\* handlePlayerDisconnect after its await: re-check the status, flip it, free the engine.
AbandonFlip(u) ==
  /\ abandoning[u].pc = "flip"
  /\ LET g == abandoning[u].game IN
     IF InProgress(g)
     THEN /\ games' = [games EXCEPT ![g] = Over(@, "ABANDONED")]
          /\ engines' = [engines EXCEPT ![g] = "none"]
          /\ abandoning' = [abandoning EXCEPT ![u].pc = "persist"]
     ELSE /\ abandoning' = [abandoning EXCEPT ![u] = Idle]
          /\ UNCHANGED <<games, engines>>
  /\ UNCHANGED <<sockets, turnTimers, pausedGames, pendingAbandons, graceTimers, gameRows, rooms,
                 leaving, entry, ending>>

\* deleteGame of a key the store does not have.
DeleteGameMissed(g) == games

\* deleteGame.
DeleteGame(g) == [games EXCEPT ![g].stored = FALSE]

\* persistGameResult, then deleteGame and abandonActiveGame's own clean-up.  Losing the row
\* is logged and stops nothing.
AbandonPersist(u) ==
  /\ abandoning[u].pc = "persist"
  /\ LET g == abandoning[u].game IN
     /\ \/ gameRows' = [gameRows EXCEPT ![g] = @ + 1]
        \/ DatabaseFails /\ UNCHANGED gameRows
     /\ games' = DeleteGame(g)
     /\ turnTimers' = [turnTimers EXCEPT ![g] = "none"]
     /\ pausedGames' = [pausedGames EXCEPT ![g] = {}]
  /\ abandoning' = [abandoning EXCEPT ![u].pc = "reopen"]
  /\ UNCHANGED <<sockets, engines, pendingAbandons, graceTimers, rooms, leaving, entry, ending>>

\* reopenRoomForSurvivors: unseat the leaver; the room reopens for who is left, or closes.
Reopened(room, u) ==
  IF room.players \subseteq {u}
  THEN [room EXCEPT !.players = {}, !.status = "CLOSED"]
  ELSE [status |-> "OPEN", players |-> room.players \ {u}, gameId |-> None]

\* A CONFLICT is not retried: the room is left as it is.
AbandonReopen(u) ==
  /\ abandoning[u].pc = "reopen"
  /\ LET found == {r \in Room : rooms[r].gameId = abandoning[u].game /\ rooms[r].status = "IN_GAME"} IN
     \/ \E r \in found : rooms' = [rooms EXCEPT ![r] = Reopened(@, u)]
     \/ (found = {} \/ DatabaseFails) /\ UNCHANGED rooms
  /\ abandoning' = [abandoning EXCEPT ![u] = Idle]
  /\ UNCHANGED <<sockets, games, engines, turnTimers, pausedGames, pendingAbandons, graceTimers,
                 gameRows, leaving, entry, ending>>

-----------------------------------------------------------------------------
\* room:seat, room:create or room:join: whatever game the user is still in is abandoned first.
EnterRoom(u) ==
  /\ sockets[u] > 0 /\ entry[u] = Idle
  /\ entry' = [entry EXCEPT ![u] = [pc |-> "seat"]]
  /\ CallAbandon(u)
  /\ UNCHANGED <<sockets, games, engines, turnTimers, pausedGames, pendingAbandons, graceTimers,
                 gameRows, rooms, leaving, ending>>

\* What finishRoomSeat does next with the room the seat was taken in.
AfterSeat(r, room) ==
  IF room.status = "OPEN" /\ Cardinality(room.players) >= Capacity
  THEN [pc |-> "claim", room |-> r, players |-> room.players]
  ELSE Idle

\* seatUser, createRoom or joinRoom: the room the user is in already; else a free seat of an
\* open room, or a room of the user's own; or the error the user is told (the room is gone or
\* full, no more rooms may open, the database failed).
Seat(u) ==
  /\ entry[u].pc = "seat" /\ abandoning[u] = Idle
  /\ LET mine == SeatsOf(u, {"OPEN", "IN_GAME"}) IN
     \/ /\ mine # {}
        /\ entry' = [entry EXCEPT ![u] = AfterSeat(Min(mine), rooms[Min(mine)])]
        /\ UNCHANGED rooms
     \/ \E r \in Room :
          /\ mine = {} /\ rooms[r].status = "OPEN" /\ Cardinality(rooms[r].players) < Capacity
          /\ rooms' = [rooms EXCEPT ![r].players = @ \cup {u}]
          /\ entry' = [entry EXCEPT ![u] = AfterSeat(r, rooms'[r])]
     \/ \E r \in Room :
          /\ mine = {} /\ rooms[r].status = "NONE"
          /\ rooms' = [rooms EXCEPT ![r] = [status |-> "OPEN", players |-> {u}, gameId |-> None]]
          /\ entry' = [entry EXCEPT ![u] = Idle]
     \/ /\ entry' = [entry EXCEPT ![u] = Idle]
        /\ UNCHANGED rooms
  /\ UNCHANGED <<sockets, games, engines, turnTimers, pausedGames, pendingAbandons, graceTimers,
                 gameRows, leaving, abandoning, ending>>

\* The claim without its compare.
ClaimableUnlessClosed(r) == rooms[r].status # "CLOSED"

\* updateMany's where clause.
Claimable(r) == rooms[r].status = "OPEN"

\* claimRoomForGame: the compare-and-set that one of several starters wins.
Claim(u) ==
  /\ entry[u].pc = "claim"
  /\ LET r == entry[u].room IN
     \/ /\ Claimable(r)
        /\ \E g \in Game : games[g].status = "NONE"
        /\ rooms' = [rooms EXCEPT ![r].status = "IN_GAME"]
        /\ entry' = [entry EXCEPT ![u].pc = "create"]
     \/ /\ ~Claimable(r) \/ DatabaseFails \/ \A g \in Game : games[g].status # "NONE"
        /\ entry' = [entry EXCEPT ![u] = Idle]
        /\ UNCHANGED rooms
  /\ UNCHANGED <<sockets, games, engines, turnTimers, pausedGames, pendingAbandons, graceTimers,
                 gameRows, leaving, abandoning, ending>>

\* createMatch for the players of the room as it was seated.
CreateMatch(u) ==
  /\ entry[u].pc = "create"
  /\ \E g \in Game :
       /\ games[g].status = "NONE" /\ \A h \in Game : h < g => games[h].status # "NONE"
       /\ games' = [games EXCEPT ![g] = [status |-> "IN_PROGRESS",
                                         players |-> entry[u].players, stored |-> TRUE]]
       /\ engines' = [engines EXCEPT ![g] = "live"]
       /\ entry' = [entry EXCEPT ![u] = [pc |-> "mark", room |-> entry[u].room, game |-> g]]
  /\ UNCHANGED <<sockets, turnTimers, pausedGames, pendingAbandons, graceTimers, gameRows, rooms,
                 leaving, abandoning, ending>>

Marked(room, g) == [room EXCEPT !.status = "IN_GAME", !.gameId = g]

\* markRoomInGame, an unconditional update.  If it fails, abortMatch drops the match.
MarkRoom(u) ==
  /\ entry[u].pc = "mark"
  /\ LET g == entry[u].game IN
     \/ /\ rooms' = [rooms EXCEPT ![entry[u].room] = Marked(@, g)]
        /\ entry' = [entry EXCEPT ![u].pc = "announce"]
        /\ UNCHANGED <<games, engines>>
     \/ /\ DatabaseFails
        /\ engines' = [engines EXCEPT ![g] = "none"]
        /\ games' = DeleteGame(g)
        /\ entry' = [entry EXCEPT ![u].pc = "release"]
        /\ UNCHANGED rooms
  /\ UNCHANGED <<sockets, turnTimers, pausedGames, pendingAbandons, graceTimers, gameRows,
                 leaving, abandoning, ending>>

\* releaseRoomClaim, only while no game id was written.
ReleaseClaim(u) ==
  /\ entry[u].pc = "release"
  /\ LET room == rooms[entry[u].room] IN
     \/ rooms' = IF room.status = "IN_GAME" /\ room.gameId = None
                 THEN [rooms EXCEPT ![entry[u].room].status = "OPEN"] ELSE rooms
     \/ DatabaseFails /\ UNCHANGED rooms
  /\ entry' = [entry EXCEPT ![u] = Idle]
  /\ UNCHANGED <<sockets, games, engines, turnTimers, pausedGames, pendingAbandons, graceTimers,
                 gameRows, leaving, abandoning, ending>>

\* startMatch: the players are sent to the game and its first clock starts.
StartMatch(u) ==
  /\ entry[u].pc = "announce"
  /\ LET g == entry[u].game IN
     turnTimers' = [turnTimers EXCEPT ![g] = SyncedTimer(engines[g], pausedGames[g])]
  /\ entry' = [entry EXCEPT ![u] = Idle]
  /\ UNCHANGED <<sockets, games, engines, pausedGames, pendingAbandons, graceTimers, gameRows,
                 rooms, leaving, abandoning, ending>>

\* room:leave, through the same queue.
LeaveRoom(u) ==
  /\ sockets[u] > 0 /\ entry[u] = Idle
  /\ SeatsOf(u, {"OPEN"}) # {}
  /\ LeaveOpenRoom(u)
  /\ UNCHANGED <<sockets, games, engines, turnTimers, pausedGames, pendingAbandons, graceTimers,
                 gameRows, leaving, entry, abandoning, ending>>

\* room:end, through the same queue, by the room's owner (anybody seated may be): its players
\* keep their seats in a closed room.
EndRoom(u) ==
  /\ sockets[u] > 0 /\ entry[u] = Idle
  /\ \E r \in SeatsOf(u, {"OPEN"}) : rooms' = [rooms EXCEPT ![r].status = "CLOSED"]
  /\ UNCHANGED <<sockets, games, engines, turnTimers, pausedGames, pendingAbandons, graceTimers,
                 gameRows, leaving, entry, abandoning, ending>>

-----------------------------------------------------------------------------
\* Game g has been created and its players not told yet.
Starting(g) == \E u \in User : entry[u].pc \in {"mark", "announce"} /\ entry[u].game = g

\* The checks of game:play_card, game:draw_card and game:pass_turn, and of the engine.  They do
\* not ask whether the match was announced, and a player who reconnects while it is Starting
\* has the game's id from active_game.
MayMove(u, g) ==
  /\ sockets[u] > 0
  /\ u \in games[g].players /\ Playing(engines[g])
  /\ pausedGames[g] = {}

\* A move that ends no game: syncTurn restarts the clock.
Move(u, g) ==
  /\ MayMove(u, g)
  /\ turnTimers' = [turnTimers EXCEPT ![g] = SyncedTimer(engines[g], pausedGames[g])]
  /\ UNCHANGED <<sockets, games, engines, pausedGames, pendingAbandons, graceTimers, gameRows,
                 rooms, leaving, entry, abandoning, ending>>

\* A play that throws half-way, when the piles run out under its forced draw: the turn has
\* moved on, and the handler's catch neither syncs the clock nor tells the players.
MoveThrows(u, g) ==
  /\ MayMove(u, g)
  /\ engines' = [engines EXCEPT ![g] = "dry"]
  /\ turnTimers' = [turnTimers EXCEPT ![g] = IF @ = "none" THEN @ ELSE "stale"]
  /\ UNCHANGED <<sockets, games, pausedGames, pendingAbandons, graceTimers, gameRows, rooms,
                 leaving, entry, abandoning, ending>>

\* The winning play: syncTurn clears the clock, and checkGameEnd reads the game state.
WinningMove(u, g) ==
  /\ MayMove(u, g)
  /\ engines' = [engines EXCEPT ![g] = "won"]
  /\ turnTimers' = [turnTimers EXCEPT ![g] = "none"]
  /\ ending' = [ending EXCEPT ![g] = IF games[g].stored THEN "flip" ELSE "idle"]
  /\ UNCHANGED <<sockets, games, pausedGames, pendingAbandons, graceTimers, gameRows, rooms,
                 leaving, entry, abandoning>>

\* onTurnExpire: nothing unless the game is live, unpaused and still in the armed turn.  The
\* forced draw throws when the piles are empty, and the clock is not armed again.
TurnExpires(g) ==
  /\ turnTimers[g] # "none"
  /\ IF pausedGames[g] = {} /\ Playing(engines[g]) /\ turnTimers[g] = "armed"
     THEN \/ /\ turnTimers' = [turnTimers EXCEPT ![g] = SyncedTimer(engines[g], pausedGames[g])]
             /\ UNCHANGED engines
          \/ /\ engines' = [engines EXCEPT ![g] = "dry"]
             /\ turnTimers' = [turnTimers EXCEPT ![g] = "none"]
     ELSE /\ turnTimers' = [turnTimers EXCEPT ![g] = "none"]
          /\ UNCHANGED engines
  /\ UNCHANGED <<sockets, games, pausedGames, pendingAbandons, graceTimers, gameRows, rooms,
                 leaving, entry, abandoning, ending>>

-----------------------------------------------------------------------------
\* checkGameEnd after its await: the status check, the flip, and the engine is freed.
EndFlip(g) ==
  /\ ending[g] = "flip"
  /\ IF InProgress(g)
     THEN /\ games' = [games EXCEPT ![g] = Over(@, "COMPLETED")]
          /\ engines' = [engines EXCEPT ![g] = "none"]
          /\ ending' = [ending EXCEPT ![g] = "persist"]
     ELSE /\ ending' = [ending EXCEPT ![g] = "idle"]
          /\ UNCHANGED <<games, engines>>
  /\ UNCHANGED <<sockets, turnTimers, pausedGames, pendingAbandons, graceTimers, gameRows, rooms,
                 leaving, entry, abandoning>>

\* persistGameResult, whose failure is logged, and deleteGame.
EndPersist(g) ==
  /\ ending[g] = "persist"
  /\ \/ gameRows' = [gameRows EXCEPT ![g] = @ + 1]
     \/ DatabaseFails /\ UNCHANGED gameRows
  /\ games' = DeleteGame(g)
  /\ ending' = [ending EXCEPT ![g] = "close"]
  /\ UNCHANGED <<sockets, engines, turnTimers, pausedGames, pendingAbandons, graceTimers, rooms,
                 leaving, entry, abandoning>>

\* closeRoomsForGame, whose failure is logged.
EndClose(g) ==
  /\ ending[g] = "close"
  /\ \/ rooms' = [r \in Room |->
                    IF rooms[r].gameId = g THEN [rooms[r] EXCEPT !.status = "CLOSED"]
                    ELSE rooms[r]]
     \/ DatabaseFails /\ UNCHANGED rooms
  /\ ending' = [ending EXCEPT ![g] = "idle"]
  /\ UNCHANGED <<sockets, games, engines, turnTimers, pausedGames, pendingAbandons, graceTimers,
                 gameRows, leaving, entry, abandoning>>

-----------------------------------------------------------------------------
\* The handlers that are waiting at some await.
Waiting ==
  Cardinality({c \in User \X Closing : leaving[c[1]][c[2]] # Idle})
    + Cardinality({u \in User : entry[u] # Idle}) + Cardinality({u \in User : abandoning[u] # Idle})
    + Cardinality({g \in Game : ending[g] # "idle"})

\* What the players do.
Act(u) ==
  \/ Connect(u) \/ LeaveRoom(u) \/ EndRoom(u)
  \/ \E g \in Game : Move(u, g) \/ MoveThrows(u, g) \/ WinningMove(u, g)
  \/ Waiting < MaxWaiting /\ ((\E s \in Closing : Disconnect(u, s)) \/ LeaveGame(u) \/ EnterRoom(u))

\* The next stretch of a handler that is waiting.
Leave(u, s) == LeaveUnseat(u, s) \/ LeaveFindGame(u, s) \/ LeavePause(u, s)
Abandon(u) == AbandonFlip(u) \/ AbandonPersist(u) \/ AbandonReopen(u)
Enter(u) ==
  \/ Seat(u) \/ Claim(u) \/ CreateMatch(u) \/ MarkRoom(u) \/ ReleaseClaim(u) \/ StartMatch(u)
End(g) == EndFlip(g) \/ EndPersist(g) \/ EndClose(g)

Next ==
  \/ \E u \in User : Act(u) \/ GraceExpires(u) \/ Abandon(u) \/ Enter(u)
  \/ \E u \in User, s \in Closing : Leave(u, s)
  \/ \E g \in Game : TurnExpires(g) \/ End(g)

Spec == Init /\ [][Next]_vars

\* Every await settles, and every timer that is not cancelled fires.  The players owe nothing.
Fairness ==
  /\ \A u \in User : WF_vars(GraceExpires(u)) /\ WF_vars(Abandon(u)) /\ WF_vars(Enter(u))
  /\ \A u \in User, s \in Closing : WF_vars(Leave(u, s))
  /\ \A g \in Game : WF_vars(TurnExpires(g)) /\ WF_vars(End(g))

FairSpec == Spec /\ Fairness

-----------------------------------------------------------------------------
\* Every variable keeps its type, the records of the waiting handlers included.
TypeOK ==
  /\ sockets \in [User -> 0 .. MaxSockets]
  /\ games \in [Game -> [status : {"NONE", "IN_PROGRESS", "COMPLETED", "ABANDONED"},
                         players : SUBSET User, stored : BOOLEAN]]
  /\ engines \in [Game -> {"none", "live", "dry", "won"}]
  /\ turnTimers \in [Game -> {"none", "armed", "stale"}]
  /\ pausedGames \in [Game -> SUBSET User]
  /\ pendingAbandons \subseteq User
  /\ graceTimers \in [User -> Nat]
  /\ gameRows \in [Game -> Nat]
  /\ rooms \in [Room -> [status : {"NONE", "OPEN", "IN_GAME", "CLOSED"},
                         players : SUBSET User, gameId : Game \cup {None}]]
  /\ leaving \in [User -> [Closing -> {Idle} \cup [pc : {"unseat", "find_game"}]
                                     \cup [pc : {"pause"}, game : Game]]]
  /\ entry \in [User -> {Idle} \cup [pc : {"seat"}]
                       \cup [pc : {"claim", "create"}, room : Room, players : SUBSET User]
                       \cup [pc : {"mark", "announce", "release"}, room : Room, game : Game]]
  /\ abandoning \in [User -> {Idle}
                       \cup [pc : {"flip", "persist", "reopen"}, game : Game]]
  /\ ending \in [Game -> {"idle", "flip", "persist", "close"}]

\* Who is past the status flip of g, tearing it down: users abandoning it, or its checkGameEnd.
Finishers(g) ==
  {u \in User : abandoning[u].pc \in {"persist", "reopen"} /\ abandoning[u].game = g}
    \cup IF ending[g] \in {"persist", "close"} THEN {None} ELSE {}

\* However a win, forfeits and grace expiries race, one of them finishes the game, and at most
\* one result is written for it, once it is over.
OneFinisher ==
  \A g \in Game :
    /\ Cardinality(Finishers(g)) <= 1
    /\ gameRows[g] <= 1
    /\ Finishers(g) # {} \/ gameRows[g] > 0 => games[g].status \in {"COMPLETED", "ABANDONED"}

\* Users starting the match of room r, from the claim to the moment its game id is written.
Starters(r) ==
  {u \in User : entry[u].pc \in {"create", "mark", "release"} /\ entry[u].room = r}

\* Of the seats that fill a room at once only one starts a match, and no room that has a game
\* is claimed again.
ClaimIsExclusive ==
  \A r \in Room : /\ Cardinality(Starters(r)) <= 1
                  /\ Starters(r) # {} => rooms[r].gameId = None

\* Unless its piles have run out, an unfinished game that has started is always timed for the
\* current turn, except while it waits for somebody, when it is never timed.
ClockFollowsGame ==
  \A g \in Game :
    /\ pausedGames[g] # {} => turnTimers[g] = "none"
    /\ engines[g] = "live" /\ pausedGames[g] = {} /\ ~Starting(g) => turnTimers[g] = "armed"

\* However many of a user's sockets close and open at once, no grace timer of a user who is
\* connected runs on, to end the game under it.
GraceOnlyForAbsent == \A u \in User : graceTimers[u] > 0 => sockets[u] = 0

\* A game the store knows as in progress.
Running(g) == games[g].stored /\ InProgress(g)

\* No game waits for a player for ever: it comes back, or the game ends.
PauseIsLifted ==
  \A g \in Game, u \in User :
    u \in pausedGames[g] /\ Running(g) ~> u \notin pausedGames[g] \/ ~Running(g)

\* A game that has ended leaves nothing in the process's two registries, nor a timer.
EndedIsFreed ==
  \A g \in Game :
    games[g].status \in {"COMPLETED", "ABANDONED"}
      ~> ~games[g].stored /\ engines[g] = "none" /\ turnTimers[g] = "none"
=============================================================================
