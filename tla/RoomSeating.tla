----------------------------- MODULE RoomSeating -----------------------------
(***************************************************************************)
(* How players get into and out of rooms: the room service, statement by   *)
(* statement (server/src/modules/room/room.service.js on the rows of       *)
(* room.repository.js), and the start of the match once a room is full.    *)
(*                                                                         *)
(* Every database call is a step: a read, a transaction, an update with a  *)
(* where clause.  What a read returned is kept in the record of the        *)
(* request, and may be stale when the next statement uses it.              *)
(*                                                                         *)
(* A user's requests run one at a time, in the user's room lifecycle       *)
(* queue; the disconnect handler's leaveOpenRoom does not join that queue, *)
(* and neither does the tournament bridge, which opens the room of a match *)
(* for its two players.  So a user has two tasks, and the bridge of a      *)
(* tournament has one.  A serializable transaction may always come back    *)
(* with CONFLICT.  An attempt that failed ends the request here: the retry *)
(* of the code is a request like any other.                                *)
(*                                                                         *)
(* Lobby rooms have one capacity, and a game is the set of its players,    *)
(* kept where the row has the gameId.  Abandoning a game before one's next *)
(* room entry, and games that end before markRoomInGame, are GameSession's.*)
(***************************************************************************)
EXTENDS Integers, Sequences, FiniteSets, SequencesExt

CONSTANTS User,
          Bot,            \* server-owned players that fill rooms
          Capacity,       \* seats in a room
          MAX_OPEN_ROOMS, \* 8 in the code
          MaxRooms,       \* bound: rooms created
          MaxTasks,       \* bound: requests under way
          MaxPairings,    \* bound: rooms opened for matches
          None

Room == 1 .. MaxRooms     \* in the order of their creation, as the reads sort them
Bridge == <<None, "bridge">>
Task == (User \X {"queue", "disconnect"}) \cup {Bridge}

ASSUME PlayersAssumption == IsFiniteSet(User \cup Bot) /\ User \cap Bot = {}
                             /\ None \notin User \cup Bot
ASSUME CapacityAssumption == Capacity \in Nat /\ Capacity >= 2
ASSUME RoomsAssumption == MAX_OPEN_ROOMS \in Nat \ {0} /\ MaxRooms \in Nat \ {0}
                           /\ MaxTasks \in Nat /\ MaxPairings \in Nat

VARIABLES rooms,          \* the rows; players in join order
          task            \* where each task is, and what it has read

vars == <<rooms, task>>

-----------------------------------------------------------------------------
Idle == [pc |-> "idle"]

Becomes(t, next) == task' = [task EXCEPT ![t] = next]

\* MaxTasks.
MayStart(t) == task[t] = Idle /\ Cardinality({s \in Task : task[s] # Idle}) < MaxTasks

Seated(room, p) == p \in ToSet(room.players)

\* A match is of two.
SeatsIn(room) == IF room.paired THEN 2 ELSE Capacity

Full(room) == Len(room.players) >= SeatsIn(room)

\* findOpenRoomByUserId for findActiveRoomByUserId: an in-game room is overlooked.
OpenSeats(p) == {r \in Room : rooms[r].status = "OPEN" /\ Seated(rooms[r], p)}

\* findActiveRoomByUserId: the rooms it may return.
ActiveSeats(p) == {r \in Room : rooms[r].status \in {"OPEN", "IN_GAME"} /\ Seated(rooms[r], p)}

\* addPlayerToRoom without its FULL check.
JoinableWhenFull(room, p) == Seated(room, p) \/ room.status = "OPEN"

\* addPlayerToRoom with its look at the status left to the list the room was found on.
JoinableUnlessClosed(room, p) == Seated(room, p) \/ (room.status # "CLOSED" /\ ~Full(room))

\* addPlayerToRoom's checks, inside its transaction.
Joinable(room, p) == Seated(room, p) \/ (room.status = "OPEN" /\ ~Full(room))

WithPlayer(room, p) ==
  IF Seated(room, p) THEN room ELSE [room EXCEPT !.players = Append(@, p)]

\* A row as it is created, for the first of its players.  (That a room was opened for a match is
\* in no column: it is noted for SeatsIn and the properties.)
NewRoom(players, paired) ==
  [status |-> "OPEN", owner |-> players[1], players |-> players, match |-> {}, paired |-> paired]

\* The row that is created next.
FreshRows ==
  {r \in Room : rooms[r].status = "NONE" /\ \A s \in Room : s < r => rooms[s].status # "NONE"}

\* createRoomIfUnderLimit, when it succeeds.
CreateRoom(u) ==
  /\ Cardinality({r \in Room : rooms[r].status = "OPEN"}) < MAX_OPEN_ROOMS
  /\ \E r \in FreshRows : rooms' = [rooms EXCEPT ![r] = NewRoom(<<u>>, FALSE)]

\* Who stays, in the order they joined: the filter of removePlayerFromRoom and of
\* reopenRoomForRematch.  (SelectSeq, written out to be reasoned about.)
Staying(seats, leavers) ==
  LET stay[i \in 0 .. Len(seats)] ==
        IF i = 0 THEN <<>>
        ELSE IF seats[i] \in leavers THEN stay[i - 1] ELSE Append(stay[i - 1], seats[i])
  IN stay[Len(seats)]

\* An unseating that leaves the ownership where it was.
WithoutKeepingOwner(room, leavers) ==
  LET stay == Staying(room.players, leavers) IN
  [room EXCEPT !.players = stay, !.status = IF stay = <<>> THEN "CLOSED" ELSE @]

\* An unseating that passes the room to the seat of the earliest joiner instead of its player.
WithoutPassingToTheSeat(room, leavers) ==
  LET stay == Staying(room.players, leavers) IN
  [room EXCEPT !.players = stay,
               !.status = IF stay = <<>> THEN "CLOSED" ELSE @,
               !.owner = IF stay # <<>> /\ @ \in leavers THEN 1 ELSE @]

\* removePlayerFromRoom and reopenRoomForRematch unseat alike: an emptied room closes, and the
\* room of an owner who leaves passes to the earliest joiner.
Without(room, leavers) ==
  LET stay == Staying(room.players, leavers) IN
  [room EXCEPT !.players = stay,
               !.status = IF stay = <<>> THEN "CLOSED" ELSE @,
               !.owner = IF stay # <<>> /\ @ \in leavers THEN stay[1] ELSE @]

\* What startMatchIfRoomFull makes of the room a request ended up in, as it was read.
StartIfFull(r, room) ==
  IF room.status = "OPEN" /\ Full(room)
  THEN [pc |-> "claim", room |-> r, players |-> ToSet(room.players)] ELSE Idle

Init ==
  /\ rooms = [r \in Room |-> [status |-> "NONE", owner |-> None, players |-> <<>>,
                              match |-> {}, paired |-> FALSE]]
  /\ task = [t \in Task |-> Idle]

-----------------------------------------------------------------------------
\* A request at the head of a user's queue starts with a read.  One that finds nothing to do
\* is no step.
MayRequest(t) == t[2] = "queue" /\ MayStart(t)

\* addPlayerToRoom for a request that is then done.
TakeSeat(t, r) ==
  /\ Joinable(rooms[r], t[1])
  /\ rooms' = [rooms EXCEPT ![r] = WithPlayer(@, t[1])]
  /\ Becomes(t, StartIfFull(r, rooms'[r]))

\* seatUser reads the visible rooms.
SeatUser(t) ==
  /\ MayRequest(t)
  /\ IF ActiveSeats(t[1]) # {}
     THEN \E r \in ActiveSeats(t[1]) : Becomes(t, StartIfFull(r, rooms[r]))
     ELSE Becomes(t, [pc |-> "seat_try",
                      todo |-> {r \in Room : rooms[r].status = "OPEN" /\ ~Full(rooms[r])}])
  /\ UNCHANGED rooms

\* seatUser tries the oldest candidate left; any error leads to the next.
SeatTry(t) ==
  /\ task[t].pc = "seat_try"
  /\ \E r \in task[t].todo :
       /\ \A s \in task[t].todo : r <= s
       /\ \/ TakeSeat(t, r)
          \/ /\ Becomes(t, [task[t] EXCEPT !.todo = @ \ {r}])
             /\ UNCHANGED rooms

\* seatUser out of candidates opens a room.
SeatOpen(t) ==
  /\ task[t].pc = "seat_try" /\ task[t].todo = {}
  /\ CreateRoom(t[1]) \/ UNCHANGED rooms
  /\ Becomes(t, Idle)

\* createRoom: the owner of an open room gets that room back, anybody else in a room an error.
CreateRoomFind(t) ==
  /\ MayRequest(t)
  /\ IF ActiveSeats(t[1]) = {} THEN Becomes(t, [pc |-> "create"])
     ELSE \E r \in ActiveSeats(t[1]) :
            rooms[r].owner = t[1] /\ Becomes(t, StartIfFull(r, rooms[r]))
  /\ UNCHANGED rooms

CreateRoomOpen(t) ==
  /\ task[t].pc = "create"
  /\ CreateRoom(t[1]) \/ UNCHANGED rooms
  /\ Becomes(t, Idle)

\* joinRoom: for a user who is in a room, what SeatUser does.
JoinRoomFind(t, r) ==
  /\ MayRequest(t)
  /\ ActiveSeats(t[1]) = {}
  /\ Becomes(t, [pc |-> "join", room |-> r])
  /\ UNCHANGED rooms

JoinRoomAdd(t) ==
  /\ task[t].pc = "join"
  /\ TakeSeat(t, task[t].room) \/ (Becomes(t, Idle) /\ UNCHANGED rooms)

-----------------------------------------------------------------------------
\* leaveOpenRoom reads the open room: room:leave, or the disconnect handler.
LeaveFind(t) ==
  /\ MayStart(t)
  /\ \E r \in OpenSeats(t[1]) : Becomes(t, [pc |-> "leave", room |-> r])
  /\ UNCHANGED rooms

\* removePlayerFromRoom looks at the membership, not at the status.
LeaveRemove(t) ==
  /\ task[t].pc = "leave"
  /\ \/ /\ Seated(rooms[task[t].room], t[1])
        /\ rooms' = [rooms EXCEPT ![task[t].room] = Without(@, {t[1]})]
     \/ UNCHANGED rooms
  /\ Becomes(t, Idle)

\* endOwnedRoom reads the owner's room.
EndFind(t) ==
  /\ MayRequest(t)
  /\ \E r \in OpenSeats(t[1]) :
       rooms[r].owner = t[1] /\ Becomes(t, [pc |-> "end", room |-> r])
  /\ UNCHANGED rooms

Closable(room) == room.status = "OPEN"

\* closeOpenRoomById.
EndClose(t) ==
  /\ task[t].pc = "end"
  /\ rooms' = IF Closable(rooms[task[t].room])
              THEN [rooms EXCEPT ![task[t].room].status = "CLOSED"] ELSE rooms
  /\ Becomes(t, Idle)

-----------------------------------------------------------------------------
\* The request of an owner who fills room r, which was last read as `room`.
Filling(r, room, bots) ==
  IF Full(room) THEN StartIfFull(r, room)
  ELSE IF bots = {} THEN Idle
  ELSE [pc |-> "fill_look", room |-> r, players |-> ToSet(room.players), todo |-> bots]

\* fillOpenRoomWithBots reads the owner's room.
FillFind(t) ==
  /\ MayRequest(t)
  /\ \E r \in OpenSeats(t[1]) :
       rooms[r].owner = t[1] /\ Becomes(t, Filling(r, rooms[r], Bot))
  /\ UNCHANGED rooms

\* The next bot, and whether it sits in another room.
FillLook(t) ==
  /\ task[t].pc = "fill_look"
  /\ \E b \in task[t].todo :
       LET left == task[t].todo \ {b} IN
       \/ /\ ActiveSeats(b) \subseteq {task[t].room} /\ b \notin task[t].players
          /\ Becomes(t, [pc |-> "fill_add", room |-> task[t].room, bot |-> b, todo |-> left])
       \/ /\ ~(ActiveSeats(b) \subseteq {task[t].room}) \/ b \in task[t].players
          /\ Becomes(t, IF left = {} THEN Idle ELSE [task[t] EXCEPT !.todo = left])
  /\ UNCHANGED rooms

\* addPlayerToRoom for the bot.
FillAdd(t) ==
  /\ task[t].pc = "fill_add"
  /\ LET r == task[t].room IN
     \/ /\ Joinable(rooms[r], task[t].bot)
        /\ rooms' = [rooms EXCEPT ![r] = WithPlayer(@, task[t].bot)]
        /\ Becomes(t, Filling(r, rooms'[r], task[t].todo))
     \/ Becomes(t, Idle) /\ UNCHANGED rooms

-----------------------------------------------------------------------------
\* The room of a start that came to nothing: the bridge closes the one it opened for it.
Unstarted(t) == IF t = Bridge THEN [pc |-> "end", room |-> task[t].room] ELSE Idle

\* claimRoomForGame.
Claim(t) ==
  /\ task[t].pc = "claim"
  /\ IF rooms[task[t].room].status = "OPEN"
     THEN /\ rooms' = [rooms EXCEPT ![task[t].room].status = "IN_GAME"]
          /\ Becomes(t, [task[t] EXCEPT !.pc = "mark"])
     ELSE Becomes(t, Unstarted(t)) /\ UNCHANGED rooms

\* createMatch for the players as they were read, and setRoomInGame, which checks nothing.
Mark(t) ==
  /\ task[t].pc = "mark"
  /\ \/ /\ rooms' = [rooms EXCEPT ![task[t].room].status = "IN_GAME",
                                  ![task[t].room].match = task[t].players]
        /\ Becomes(t, Idle)
     \/ /\ Becomes(t, [pc |-> "release", room |-> task[t].room])
        /\ UNCHANGED rooms

\* reopenClaimedRoom, after a start that failed.
Release(t) ==
  /\ task[t].pc = "release"
  /\ rooms' = IF rooms[task[t].room].status = "IN_GAME" /\ rooms[task[t].room].match = {}
              THEN [rooms EXCEPT ![task[t].room].status = "OPEN"] ELSE rooms
  /\ Becomes(t, Unstarted(t))

\* A game that is won: closeRoomsByGameId.
GameWon(r) ==
  /\ rooms[r].status = "IN_GAME" /\ rooms[r].match # {}
  /\ rooms' = [rooms EXCEPT ![r].status = "CLOSED"]
  /\ UNCHANGED task

\* A room whose game u leaves: reopenRoomForRematch unseats u and the bots.
Reopened(room, u) ==
  LET left == Without(room, {u} \cup Bot) IN
  IF left.status = "CLOSED" THEN left ELSE [left EXCEPT !.status = "OPEN", !.match = {}]

AbandonsGame(r, u) ==
  /\ rooms[r].status = "IN_GAME" /\ u \in rooms[r].match
  /\ rooms' = [rooms EXCEPT ![r] = Reopened(@, u)]

GameLeft(r, u) == AbandonsGame(r, u) /\ UNCHANGED task

-----------------------------------------------------------------------------
\* What the bridge has to do before it opens a room for a match of a and b: startReadyMatch ends
\* the game and leaves the open room of each, createRoomForMatch leaves their open rooms again.
Sweeps(a, b) == <<<<"game", a>>, <<"room", a>>, <<"game", b>>, <<"room", b>>,
                  <<"room", a>>, <<"room", b>>>>

Pairing(pair, todo) == [pc |-> "pair", pair |-> pair, todo |-> todo]

\* The bridge goes on to the next sweep.
Swept == Becomes(Bridge, Pairing(task[Bridge].pair, Tail(task[Bridge].todo)))

\* startReadyMatch has read a match of a and b.  (MaxRooms, MaxPairings: there is a row left for
\* its room.)
PairStart(a, b) ==
  /\ MayStart(Bridge) /\ a # b
  /\ FreshRows # {} /\ Cardinality({r \in Room : rooms[r].paired}) < MaxPairings
  /\ Becomes(Bridge, Pairing(<<a, b>>, Sweeps(a, b)))
  /\ UNCHANGED rooms

\* abandonActiveGame, of a player who may have no game; a conflict leaves the room as it is.
PairAbandon ==
  /\ task[Bridge].pc = "pair" /\ task[Bridge].todo # <<>> /\ Head(task[Bridge].todo)[1] = "game"
  /\ \/ UNCHANGED rooms
     \/ \E r \in Room : AbandonsGame(r, Head(task[Bridge].todo)[2])
  /\ Swept

\* leaveOpenRoom reads.
PairLeave ==
  /\ task[Bridge].pc = "pair" /\ task[Bridge].todo # <<>> /\ Head(task[Bridge].todo)[1] = "room"
  /\ LET seats == OpenSeats(Head(task[Bridge].todo)[2]) IN
     \/ seats = {} /\ Swept
     \/ \E r \in seats : Becomes(Bridge, [pc |-> "pair_leave", room |-> r,
                                          pair |-> task[Bridge].pair, todo |-> task[Bridge].todo])
  /\ UNCHANGED rooms

\* leaveOpenRoom unseats the player, or fails and reads again, or has failed too often.
PairRemove ==
  /\ task[Bridge].pc = "pair_leave"
  /\ LET r == task[Bridge].room
         u == Head(task[Bridge].todo)[2] IN
     \/ /\ Seated(rooms[r], u)
        /\ rooms' = [rooms EXCEPT ![r] = Without(@, {u})]
        /\ Swept
     \/ /\ UNCHANGED rooms
        /\ Swept \/ Becomes(Bridge, Pairing(task[Bridge].pair, task[Bridge].todo))

\* createRoomWithPlayers, which looks at nothing, and the start of the match on the new room.
PairOpen ==
  /\ task[Bridge].pc = "pair" /\ task[Bridge].todo = <<>>
  /\ \/ \E r \in FreshRows :
          /\ rooms' = [rooms EXCEPT ![r] = NewRoom(task[Bridge].pair, TRUE)]
          /\ Becomes(Bridge, StartIfFull(r, rooms'[r]))
     \/ UNCHANGED rooms /\ Becomes(Bridge, Idle)

-----------------------------------------------------------------------------
\* What a user asks for.
Request(t) ==
  \/ SeatUser(t) \/ CreateRoomFind(t) \/ LeaveFind(t) \/ EndFind(t) \/ FillFind(t)
  \/ \E r \in Room : JoinRoomFind(t, r)

\* The next database call of a request.
Continue(t) ==
  \/ SeatTry(t) \/ SeatOpen(t) \/ CreateRoomOpen(t) \/ JoinRoomAdd(t)
  \/ LeaveRemove(t) \/ EndClose(t) \/ FillLook(t) \/ FillAdd(t)
  \/ Claim(t) \/ Mark(t) \/ Release(t)

\* The next step of the tournament bridge.
Pair ==
  \/ \E a, b \in User : PairStart(a, b)
  \/ PairAbandon \/ PairLeave \/ PairRemove \/ PairOpen

Next ==
  \/ \E t \in Task \ {Bridge} : Request(t)
  \/ \E t \in Task : Continue(t)
  \/ Pair
  \/ \E r \in Room : GameWon(r) \/ \E u \in User : GameLeft(r, u)

Spec == Init /\ [][Next]_vars

-----------------------------------------------------------------------------
\* Every row and every waiting request keeps its type.
TypeOK ==
  /\ rooms \in [Room -> [status : {"NONE", "OPEN", "IN_GAME", "CLOSED"},
                         owner : User \cup Bot \cup {None}, players : Seq(User \cup Bot),
                         match : SUBSET (User \cup Bot), paired : BOOLEAN]]
  /\ task \in [Task ->
       {Idle} \cup [pc : {"create"}]
         \cup [pc : {"seat_try"}, todo : SUBSET Room]
         \cup [pc : {"join", "leave", "end", "release"}, room : Room]
         \cup [pc : {"fill_look"}, room : Room, players : SUBSET (User \cup Bot), todo : SUBSET Bot]
         \cup [pc : {"fill_add"}, room : Room, bot : Bot, todo : SUBSET Bot]
         \cup [pc : {"claim", "mark"}, room : Room, players : SUBSET (User \cup Bot)]
         \cup [pc : {"pair"}, pair : User \X User, todo : Seq({"game", "room"} \X User)]
         \cup [pc : {"pair_leave"}, room : Room, pair : User \X User,
               todo : Seq({"game", "room"} \X User)]]

\* However seats, bots and leavers race for a room, it never has more players than seats, and
\* nobody sits in it twice.
SeatsWithinCapacity ==
  \A r \in Room : Len(rooms[r].players) <= SeatsIn(rooms[r]) /\ IsInjective(rooms[r].players)

\* A user is in one room of the lobby at a time, open or in game, for all the reads that are
\* stale by the time a seat is taken.  (Of bots this is not true.)
OneLobbySeat ==
  \A u \in User : Cardinality({r \in ActiveSeats(u) : ~rooms[r].paired}) <= 1

\* What createRoomForMatch says of the room of a match: that it does not break the one-active-room
\* invariant, which keeps its players from seating anywhere else.  Their room queues do not know
\* of the bridge, so a request that has looked for a seat still takes one.
OneSeatPerUser == \A u \in User : Cardinality(ActiveSeats(u)) <= 1

\* An open room has its owner among its players, so it is never empty and somebody can end it.
OwnerIsSeated == \A r \in Room : rooms[r].status = "OPEN" => Seated(rooms[r], rooms[r].owner)

\* Seats are locked while a game is running: nobody joins a room in game, however old the list
\* is that offered it.  (A leaver that read the room when it was open is still unseated.)
NobodyJoinsInGame ==
  [][\A r \in Room : rooms[r].status = "IN_GAME" /\ rooms'[r].status = "IN_GAME"
       => \A p \in User \cup Bot : Seated(rooms'[r], p) => Seated(rooms[r], p)]_vars
=============================================================================
