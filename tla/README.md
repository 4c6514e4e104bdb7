# Formal models of Trackscendence

Trackscendence is an online UNO game: a Node server (`src/server`, Express, Socket.IO and
Prisma on PostgreSQL) and a React client (`src/client`). These modules model the parts of both
whose correctness depends on the order of events, check them with TLC, and prove most of what is
checked for every value of the constants with TLAPS.

| Module | What it is | Proofs |
|---|---|---|
| `UnoEngine` | one match: deal, plays, draws, penalties, timeouts, the UNO window | `UnoEngineProofs` |
| `GameSession` | the live games of a process: socket handlers, store, timers, reconnects, room rows | `GameSessionProofs` |
| `RoomSeating` | the room service cut at every database call | `RoomSeatingProofs` |
| `Tournament` | one tournament: sign-up, bracket, results, and the bridge that starts its games | `TournamentProofs` |
| `Auth` | one account: its row, tokens, token cache, lockout, resets, moderation | `AuthProofs` |
| `TwoFactor` | its second factor: setups, challenges, recovery codes | `TwoFactorProofs` |
| `Friendship` | what two users may be to each other: the abstract life cycle | |
| `Social` | friendship rows, locks, requests, conversations and sends; implements `Friendship` | `SocialProofs` |
| `ClientSession` | a browser tab: its sessions one after the other, stored token, loading, stores, socket | `ClientProofs` |
| `DirectMessages` | the inbox of one user: its store, the server's answers, the socket's events | `ClientProofs` |
| `MC_*` | instances for TLC; each `.cfg` is one run | |

`PROJECT.json` says, for every definition, which lines of the source it stands for, and for
every property, a change of the code that would break it. Some definitions in the modules are such
changes (their comment says which slip it is); nothing else uses them.

## 1. Inventory

### Components

| Component (under `src/server/src` or `src/client/src`) | State | Operations | Hard part |
|---|---|---|---|
| UNO engine, `modules/game/game.engine.js` | hands, two piles, turn, direction, colour, UNO window, winner | `playCard`, `drawCard`, `pass`, `applyTurnTimeout`, `callUno`, `catchUno` | piles run out in the middle of an operation; the window is open to everybody at any time |
| Session handlers, `socket/socket.handlers.js` | `pendingAbandons`, `pausedGames`, per-socket user | connect, disconnect, `room:*`, `game:*`, end of game | every `await` lets other handlers in |
| Game store, `game.store.js` | `activeGames`, `activeEngines` | save, find, delete | shared objects: a handler that waits sees the status change |
| Turn timer, `turn-timer.service.js` | one timer per game, with the `turnNonce` it was armed for | `startTurnTimer`, `clear`, expiry | fires against a move of the same moment |
| Matchmaking, `matchmaking.service.js` | none | `createMatch`, `abortMatch`, `handlePlayerDisconnect` | a forfeit meets the end of the game |
| Rooms, `modules/room` | `Room`, `RoomPlayer` rows | seat, create, join, leave, end, fill with bots, claim, mark, release, reopen, close | reads that are stale when the transaction runs |
| Per-user queue, `room-action-guard.js` | a FIFO per user | enqueue, run exclusively | the disconnect handlers and the tournament bridge do not join it |
| Tournaments, `modules/tournament`, `socket/tournament.bridge.js` | tournament, sign-ups, matches | sign up, start, record, bridge to live games | serializable writes with bounded retries; the game starts before the match row knows it |
| Bots, `bot-*.service.js` | scheduled moves | choose and play | a move that throws is not scheduled again |
| Results, `modules/game/game.service.js` | `Game` rows, Elo, statistics | `persistGameResult` | at most once per game |
| Authentication, `modules/auth` | `User` row, token cache, reset token, lockout, second factor | register, login, 42, guests, upgrade, change, reset, 2FA | no session table: a version on the row; rows are read before awaits |
| Administration and data rights, `modules/admin`, `modules/users` | the same row | suspend, ban, role, delete | must end sessions that are under way |
| Friends, `modules/friends` | one `Friendship` row per pair | request, answer, cancel, unfriend, block, unblock | decided on a read, written under a lock |
| Messages, `modules/messages`, `socket/chat.handlers.js` | conversations, messages, read cursors | open, send, list, mark read | a friendship checked before the transaction; lists of several reads |
| Notifications, `modules/notifications` | `SocialNotification` rows | request, acceptance, conversation | written after the fact they announce |
| Client sessions, `stores/useAuthStore.js` and its neighbours | stored token, auth store, session stores, socket | init, login, logout, expiry, refresh, save | answers that arrive in the next session; other tabs |
| Inbox, `stores/useDirectMessageStore.js` | conversations, threads, typing entries and timers | load, mark, receive | answers and events over each other |
| Chat rooms, API keys, public API, room grid, users' profiles, avatars | one row per thing | create, read, update, delete | none beyond the database |
| Views, pages, styles | what the stores hold | render | |

### How they interact

A user's sockets sit in the Socket.IO room `user:<id>`. `room:seat`, `room:create` and `room:join`
run in the user's room queue: they abandon the game the user is still in, seat the user, and if
the room is now full claim it (a compare-and-set on the row), create the match (store and engine),
write the game id to the row, and send `game_start`. `game:*` events call the engine, and then
`syncTurn` (the timer) and `checkGameEnd`. The end of a game, whether it is won or abandoned,
flips the status in the shared state object, frees the engine, writes the result, deletes the
game and then closes or reopens the room; for a bracket game its hook records the result. A
disconnect unseats the user, and if it was the last socket starts a grace timer and pauses the
game; a new socket takes both back.

A REST request passes `requireAuth`, which asks the token cache and then the row; whatever must end
sessions raises `tokenVersion` and invalidates the entry. A message is sent if the friendship row
allows it, by REST or by socket, and reaches both inboxes by the socket. The client keeps a token
in `localStorage` for all its tabs and in the auth store for this one; a change of the latter tears
down the session stores and the socket, and the stores' guards drop answers to another token.

### What has to be right

- Engine: no card in two places, none lost; exactly the player without cards wins; a finished
  match is over; an UNO window is settled fairly.
- Session: one finisher and at most one result per game; one starter per room; the clock runs
  exactly when it should; nobody who is connected is timed out; no table waits for ever; what is
  over is freed.
- Rooms: capacity, one seat per user in the lobby, an owner who is there, nobody joins a running game.
- Tournaments: everybody who entered is in the bracket once, winners advance to their seat, one
  champion, no game is started over one that runs.
- Authentication: a token is worth what its bearer proved; a revoked one dies; a reset works once;
  a challenge and a recovery code work once; the second factor is one that was tried out.
- Friends: the rows follow one life cycle whatever crosses; only the blocker unblocks; sends end.
- Client: nobody's data under somebody else's session; late answers do nothing; inbox threads
  without duplicates, no receipt that was not given, nobody typing for ever.

The hazards at their lines, and the properties that cover them, are in `PROJECT.json`.

## 2. Plan

In the order in which it was carried out: the engine with its proofs; `GameSession`;
`RoomSeating`; `Tournament`; `Auth`; `Friendship` and `Social`, the abstract specification and its
implementation; `ClientSession`; `TwoFactor`; `DirectMessages`; the proofs of `Auth`, `Social`,
`ClientSession`, `TwoFactor` and `GameSession`, then those of `RoomSeating`, `Tournament` and
`DirectMessages`. What would come next: the rule of one active tournament per user (several
tournaments), bots' scheduled moves as handlers of `GameSession`, and an abstract room (a set of
seats and a status) that `GameSession`'s rooms and `RoomSeating`'s both implement.

Lists are written so that they can be reasoned about: a filter is a recursive function
(`Staying`), a sorted answer is any listing of its set in order (`InOrder`), a removal takes one
index out (`Without`). `SelectSeq` and `SetToSortSeq` have no facts in the library.

## 3. The modules

### UnoEngine

Each public method that changes state is an action; so is each way in which one of them throws
after it has changed something. `_drawOne` throws when both piles are empty:

- inside the penalty of `playCard`, the card stays in the hand, the window stays open, and the
  cards drawn so far are with the penalised player (`PlayBlocked`);
- inside a forced draw, the card is played and the turn has moved on once, but the cards drawn
  so far were arguments of a `push` that never ran, so they are nowhere (`PlayOn`, short draw);
- inside `catchUno`, the penalty is half paid and the window stays open (`CatchUno`).

Data is abstracted where the code cannot tell: the draw pile is a set (it is shuffled and only its
top is taken), the discard is its top card and the set below, hands are sets. `playCard` after a
draw accepts only the last card of the hand; the model compares with `drawnCardThisTurn`, and
`DrawnCardStaysLast`, which is proved, says that the two are the same card. `turnNonce` counts turns; no guard of
the engine reads it.

Left out: `getState` and the other reads, and the validation of `declaredColor` and `cardIndex`,
which refuse before anything changes. Logging.

### GameSession

Node runs a handler up to its next `await`. Each such stretch is an action, and a waiting handler
is a record with its program counter and what it has read: `leaving` (disconnect), `entry` (the
room queue's head), `abandoning` (`abandonActiveGame`), `ending` (`checkGameEnd`). Choices of
atomicity, and why:

- *Connect with resume is one step*: between cancelling the grace and `resumeGameForUser` lies
  only the store's look-up, an already settled promise.
- *A user's sockets may close together*, so a user has several disconnect handlers (`Closing`), each
  in its own place between its awaits. Each of them may find the last socket gone and start a grace.
  The map has room for one timer per user: `graceTimers` counts the timers that run, in the map or
  not, `GraceRestarted` is the `clearTimeout` before the second `setTimeout`, and
  `GraceOnlyForAbsent` is about all of them. A timer pushed out of the map would survive the
  reconnect and end the game; `GraceStartedBeside` is the code without that line.
- *`LeavePause` is `fetchSockets` and what follows it.* The answer is that of the local adapter;
  the interesting gap is the one before it, in which the game found earlier may end.
- *The status flip and the freeing of the engine are one step*: only an already settled
  promise lies between them. So are `persistGameResult`, `deleteGame` and the clean-up behind it.
- *A room operation is one step here*; `RoomSeating` takes it apart.
- A `game:*` event needs the game id. It reaches the players with `game_start`, and one who reconnects
  with `active_game`, which may be earlier, so a move may precede the start (`MayMove` does
  not ask). `game:leave` finds the game by user and may come earlier too: see section 6.
- A user has one `abandonActiveGame` under way at a time.

The engine is seen from outside as "live", "dry" (a draw has thrown for lack of cards), "won". A
timer is "armed" for the current turn or "stale". With `DatabaseFails` any call may fail or
come back with CONFLICT, where the code handles one (and `releaseRoomClaim` too, whose failure
leaves the claim behind).

Left out: `call_uno` and `catch_uno` (they touch nothing of this state), bots, the tournament
hook, development rooms, chat, and `join_lobby`, which no client sends.

### RoomSeating

The statements of `room.service.js` are steps: a read keeps what it found in the task's record,
and the following transaction runs on rows that may have changed since. A user has two tasks: the
head of the room queue, and the disconnect handler's `leaveOpenRoom`, which is outside the queue
(of several such handlers of one user one is under way here; each only unseats the user). A
serializable transaction may always come back with CONFLICT. A failed attempt ends the request,
and its retry is a request like any other: this allows every order of attempts the loops
allow. Where `reopenRoomForRematch` conflicts nothing happens, which is no step. A match is the
set of players it was created for; it is won (`GameWon`) or somebody leaves it (`GameLeft`).

One more task is the bridge of a tournament, which opens the room of a match for its two players
and is outside of every queue too. `PairStart` has read a match; `Sweeps` is what `startReadyMatch`
and then `createRoomForMatch` do before they open the room, one database call a step: give up the
game of each player, leave the open room of each, and leave their open rooms again. `PairOpen` is
`createRoomWithPlayers`, which seats the two in a new room and looks at nothing; the claim and the
mark follow as for any full room, and a start that fails closes the room (`Unstarted`). So the room
of a match may seat a user who has a seat in the lobby by then. `OneLobbySeat` says what holds, and
section 6 what does not. There is one tournament, so one bridge, which has one pairing under way
(its FIFO). That the pair is one of a bracket, and that each match is started once, is `Tournament`'s:
here any two users may be paired.

Left out: `createRoomForOwner` (development tools).
Giving up one's game before entering the next room, and games that end before
`markRoomInGame`, are in `GameSession`.

### Tournament

The rows of one tournament, and the handlers that work on them: the creator's start request
(`starting`), the bridge's task and the queue of ready lists behind it (`bridge`, `events`), and
for each live game the hook that records its result (`recording`). A read outside a transaction
and the transaction that uses it are two steps: the roster and the lock, the bracket and the
result, the look at a match row and the stamp of its game.

- *A match is its round and slot*, the row's unique key. Seeds are the first-round seats, in any
  order (`fisherYatesShuffle`).
- *A serializable transaction is one step*, and may come back with CONFLICT: a result is then read
  again, `WRITE_ATTEMPTS` times; a start, join or leave is a request like any other the next time.
- *A live game* is a pair of players one of whom wins, by cards or by forfeit. `GameSession` says how.
  Starting one (`BridgeStart`) ends the games the two are still in, opens the room and deals; it
  may fail before or after the first part. `RoomSeating` takes the sweeps and the room apart. That nothing but the stamp is in between
  `BridgeStart` and `BridgeClaim` is the point of the first finding in section 6.
- *A restart* keeps the rows and loses everything else.

Joining, leaving and cancelling are announced too, but the bridge only broadcasts those. Left out:
other tournaments, and the checks of who asks (only the creator may start or cancel).

### Auth

A token is the version it was signed for and what its bearer had shown (a password, the 42
account, having made the guest). A request keeps what it has read of the row in its record: between
`LookUp` and `FillCache`, between reading the row and comparing the password, between a write
and the cache's invalidation. `withLockedPasswordResetToken` is the lock of the row, and
`resetPassword`'s transaction is two steps, with its invalidation inside. A suspension ends by
itself. `Restart` rolls back what is open and empties the cache. An operation that changes nothing
when it is refused is no step. A reset can be
asked for by e-mail whatever has become of the account, deletion included (`RequestReset`). Left out:
the e-mail checks, terms and privacy dates, and expiry of the
tokens themselves (a token that has expired is one nobody uses).

### TwoFactor

A setup is its secret with its recovery codes; whoever was shown it can enter right codes of it.
Started setups replace the pending one (`ReplacePending`); a right code of the pending secret, read
before the transaction, leads to `Activate`, with the secret that was checked. Challenges carry the
token version and a challenge version; `ConsumeChallenge` and `ConsumeRecoveryCode` are the
`updateMany` and the transaction that decide. What ends sessions in `Auth` is `RaiseTokenVersion`.

### Friendship and Social

`Friendship` is the life cycle of a pair as the service's pure functions decide it: nothing,
pending, friends, blocked by one of them. `Social` has the row with its lock, and every operation as
what it read (`SendFriendRequest`, `RespondToFriendRequest`, ...), then its decision under the lock
(`StillPending`, `StillRemovable`, ...); accepting is a transaction of two steps, with the
conversation, the intro and the notification. With `FollowsLifecycle` the row of the
pair, `relation`, implements `Friendship`, of which `Social` has an instance: the mapping reads a
blocked row as blocked by its blocker and a pending one as its requester's. Sends check the friendship and then save.

### ClientSession

A session is its token. The page starts loading if a token is stored (`loading` is `isLoading`), and
until `init` has settled the login page and the protected pages are a spinner: `SignedOff` and
`SignedIn` are what they wait for. 42's callback page does not look at `isLoading`: it asks as soon as
it is there (`StartCallback`) and goes on to another page with the answer (`callback`). `SetAuth` is a change of the auth store with the teardown that follows in
the same tick; `calls` are requests under way, with the token they were asked under, answered in any
order, refused with 401, or lost. Another tab writes the stored token only. `SocketEffect` is
App's effect, which runs later than the change it is about. What a load brings is the session it
was asked under.

### DirectMessages

The n-th message of a conversation is n, and so is the time from its `createdAt` on: of two times the
code asks only which messages lie before them. A list is three steps (rows, counts, answer), a thread
five (time, cursor, messages, row, answer). A message has its `createdAt` before its transaction
commits, so that a cursor may pass a message nobody has seen. Socket events are a queue, in order; a
reconnect loses them. `ThreadLimit` and `TypingLimit` are the store's limits.
The end of a session is in `ClientSession`; here the user stays signed in. The two are proved about in
one module, which is why this one's specification is `InboxSpec`, of `InboxInit` and `InboxNext`.

## 4. Runs

| Run | Instance | Shows |
|---|---|---|
| `engine` | 2 players, 7 cards, every match to its end | cards are neither doubled nor lost, the winner, the end, the UNO window |
| `session` | 2 users, 1 tab and 2 disconnect handlers each, 2 games, 1 room, failing database | one finisher, one starter, the clock |
| `session_live` | the same with 2 tabs and 1 game, fair | graces, no game waits for ever, what is over is freed |
| `rooms` | 2 users, 1 bot, 2 rooms of 2 seats, up to 2 matches of a tournament | seating |
| `tournament` | 5 users, a bracket of 4, 4 games, 2 attempts, failing calls, 1 restart | the bracket |
| `auth` | 2 requests, 2 passwords, 1 reset mail, 2 attempts, one raise of the version, fair | tokens, cache, resets; revoked tokens die |
| `social` | 2 users, 2 requests, 2 friendships, 2 messages, failing calls | the refinement, blocks, single acceptance, sends |
| `client` | 3 sessions, 3 calls, 42's callback, another tab | one tab's sessions do not mix |
| `two_factor` | 2 requests, 2 setups of 2 codes, 4 challenge versions | one login each, the secret is tried out |
| `inbox` | 2 conversations, 2 messages in one, 1 call, 1 event on the way | threads, receipts, typing |
| `tournament_link`, `client_next` | small, without failures | the findings of section 6 |

### Bounds, and why they are enough

- *Decks.* The instance has one card of each effect, and fewer cards than the players can draw, so
  that reshuffles, short draws and every throwing path happen within a match. `StandardDeck` is
  the real deck; `DeckSize` checks it has 112 cards. The theorems hold for every deck.
- *`VIEW NonceFree`* drops `turnNonce`, which only counts and which no guard reads. A property
  that reads it does so by comparing it over one step.
- *Two users* suffice for every race in the session code, which is between a user and
  itself (tabs, timers, queue) or between two users of a room. In `session_live` two tabs
  tell "last" from "not last". Two games let a grace timer or an entry outlive its game into the next.
- *`MaxWaiting` = 2*: a player starts nothing new while two handlers wait. Timers and game
  ends start theirs regardless, so three or four are under way at times.
- *`MaxClosing` = 2* disconnect handlers of a user are under way at a time. In `session_live` they are
  of two tabs that close together; in `session`, whose two games make more states, a user has
  one tab, and its handlers overlap when it closes, comes back and closes again.
- *`MaxTasks` = 2 in `rooms`*: two of the users' four tasks and the bridge are under way at a time,
  whichever two. What three of them do to each other is in the theorems, which hold for any
  number. `MaxPairings` = 2: both rooms may be opened for matches.
- *Two players* at the engine's table make a reverse a skip. What a third one changes (windows that
  belong to neither the player nor the next one, a reverse that is no skip) is in the theorems,
  which hold for every number of players.
- *A bracket of four* has the first round, where two results meet, and a final with a seat for
  each side; a fifth user may take a seat that an entrant gives up. Four games are one more than the
  bracket has matches, for the match that is started twice.
- *Two rooms* let one user race for two seats; `MAX_OPEN_ROOMS` is reached. Rooms are never reused,
  so a run ends when they are all closed.
- *Two requests under way* are what a race of one account, or of one pair, is between. `MaxVersion`
  1 tells "of this version" from "of an earlier one"; a longer history only repeats it, and the
  theorems hold for any. `MAX_LOGIN_ATTEMPTS` 2 has a failure that locks and one that does not.
  `MaxRows` 2 lets a request meet the row that followed its own.
- *Three sessions* have a next one for the answers that arrive after the next one too; three calls
  a load, a refresh and a save at a time.
- *Four challenge versions* are two logins, each with its challenge and its consumption. Two
  setups have a pending one and an active one, two codes one that is used and one that is not.
- *The inbox* has one message from each side, in one of the conversations, so its thread has room for
  all of them (`ThreadLimit` 2); `TypingLimit` 1 is exceeded as soon as both friends type. A
  message for the open thread that meets a call under way has its mark fail, for the model has no
  second call (`AskToMark`).
- *Symmetry*: users, requests and setups are interchangeable (in `Tournament` but for the creator),
  and no symmetric run checks liveness.
- *Type invariants*: each module has a `TypeOK` (`InboxTypeOK` in `DirectMessages`), and each is
  proved for every instance. It is in a run too where it also bounds queues and lists: those of
  `RoomSeating`, `Tournament` and `DirectMessages`.

`CHECK_DEADLOCK FALSE` stands where the system really may stop: a match that is won has no moves,
and neither has one whose player on turn can do nothing because both piles are empty; in
`GameSession` everybody may be offline with all games used up; a tournament ends; in `Social` the
rows and the messages are used up. The other runs check deadlock.

### Fairness

`GameSession`'s `FairSpec` asks that awaits settle (`Leave`, `Abandon`, `Enter`, `End`) and timers
fire (`GraceExpires`, `TurnExpires`), weakly, for each user and each game. `Auth`'s asks that awaits
settle (`Proceed`) and that a cache entry's time to live runs out (`CacheExpires`). Node's event
loop and the database driver see to both. Users owe nothing: they may leave, never move, never
come back. No other module promises that anything happens.

## 5. What is proved

The assumptions are those named in the modules; TLC evaluates them in every run. Each proof has an
inductive invariant (`IInv`, `SeatingInv`, `TournamentInv`, `InboxInv`), a lemma per action or group of
actions, and a theorem per property.

**`UnoEngineProofs`**, for any number of players from two, any subset of the deck, and any hand and
penalty size: every property of the run `engine`, `TypeOK`, and `DrawnCardStaysLast`. `IInv` adds
two facts without which the properties are not inductive: a won match has no open window
(`callUno` and `catchUno` do not ask whether the match is on; it is the winning play's clearing of
the window that keeps them from moving after it), and a player who has drawn this turn holds the drawn
card and owns no window, which is why no penalty is pushed on top of the card. The lemma the rest
stands on is `DrawsMoveCards`: whatever `_drawOne` is called for, cards move from the piles to the taken
ones and are nowhere twice. `UnoIsSettled` counts: a completed draw takes exactly what it was asked
for (`DrawsCount`), and a hand grows by what it is given (`GiveCount`). `CardsKept` follows the
cards through the two parts of a play.

**`GameSessionProofs`**, for any number of users, tabs, games, rooms and seats, whether or not the
database fails: `OneFinisher`, `ClaimIsExclusive`, `ClockFollowsGame`, `GraceOnlyForAbsent`, and
`TypeOK`. `IInv` has five parts. *Typed* is the type. *Absent*: of a user's grace timers one runs at
most, it is the one in the map, and whoever has it has no socket; however many disconnect handlers
of the user are under way, each that starts one has stopped the one before. *Claims*: of those
between the claim of a room and its game id there is one, and while there is no other operation
finds the room OPEN or by a game. *Finishing*: of those who may still write the result of a game
there is one, its status is no longer IN_PROGRESS, and the result is unwritten; nothing sets the
status back. *Clock*: a game whose engine is live has the timer its status, its pause and its turn
call for, except before the start and after the end. `MinIsMember` shows with well-founded induction
that `findActiveGameByUser` returns a game.

**`AuthProofs`**: `CurrentEntryAgrees`, `LiveTokenIsProven`, `ResetOnce`, `TypeOK`. Requests work
on old reads, and that is harmless because a write that makes what others know wrong raises the
version (`RowMoves`), because what they know says of which version it is (`Proven`, `Good`), and
because versions never come back. Reset tokens are new each time (`ResetsAreNew`); a reset holds the
row's lock from its look at the token to its commit (`CommitFits` with it says that the commit
is possible).

**`TwoFactorProofs`**: all four properties and `TypeOK`. *Secrets*: an activation under way holds a
secret that was shown to work. *Fresh* and *Known*: a setup's codes are generated once, so that a
code that is spent is never stored again. *Counted*: the row is past every challenge that has let
somebody in.

**`SocialProofs`**: `AcceptedOnce`, `BlockStands`, `SendsDryUp`, `TypeOK`, and `FollowsLifecycle`,
the refinement of `Friendship`: the initial states map to initial states, and every step to a
step or a stutter (`RowMoves`). `LockKept`: what an accepting transaction decided on still holds when
it writes, because everybody who writes the row takes its lock. `Numbered`, `AnswerKnown` and `Once`
count acceptances by their notifications.

**`RoomSeatingProofs`**, for any number of users, bots and rooms, any capacity and limit of open
rooms, any number of pairings and of requests under way: `SeatsWithinCapacity`, `OneLobbySeat`,
`OwnerIsSeated`, `NobodyJoinsInGame`, `TypeOK`. A step changes one row, in one of the ways `RowMove`
lists, and one task, in one of those of `TaskMove`. *RowsGood* is a row's shape: its seats fit,
nobody has two of them, an open room's owner has one. *TasksGood*: outside the queue a task only
leaves, and nobody starts a match for no players. *ClaimsHold*: a claim has one task, and until that
marks or releases the room it is in game without a game, or a stale leaver has emptied it.
`OneLobbySeat` (*OnlySeat*) is not inductive: *SeeksSeat* has to say that a user whose request is on
its way to a seat has no seat in the lobby yet. That is what the per-user queue is for. The other
task of a user, the disconnect handler's, only ever takes a seat away, and the bridge seats in rooms
of matches only. (Such a room counts as one of a match for good, even if a forfeit has opened it
again.) What `Staying` returns (`StayingProperties`) needs induction, and the library's induction
theorems cannot be used; a set of naturals takes the place of the predicate (`SetInduction`), and
that every such set has a least member comes from strict inclusion of finite sets being well
founded.

**`TournamentProofs`**, for any number of rounds, users, games, attempts and restarts, whether or not
calls fail: `BracketSeatsEntrants`, `WinnersAdvance`, `LastOneStanding`, `HostedGameRunsOn`, `TypeOK`.
`BracketInv` is about the rows. Nobody has two undecided matches (`OneUndecided`); a decided match had
both its players (`DecidedSeated`); who is in an undecided match has lost none (`Undefeated`), and
every entrant has lost one, is in an undecided one, or is the champion (`Accounted`), of whom there
is one, when the final is decided (`Champion`). `RowMoves` reduces the actions to five steps of
the rows, for each of which `BracketInv` is shown on its own. It needs one thing of the handlers, that
a winner they write is one of the pair of an undecided match. `TasksInv` provides that: the rows
only fill in (`RowsGoOn`), and a game keeps its match and its pair (`GamesGoOn`), so a result read
before a conflict is still one when it is written. `HostedGameRunsOn` needs that a match with a live
game is not free to be started (`MatchIsFree`), and that no one's other game can host another of
his matches, which is `OneUndecided` again. A bracket of R rounds has 2^R first seats: what
is used of powers of two is read off the subsets of 1..R. That the final is decided last
(`FinalIsLast`) is shown on the undecided match that is nearest to it.

**`ClientProofs`**, of a tab's sessions: `SocketIsOfSession`, `HoldsOwnDataOnly`,
`LateLoadsChangeNothing`, `TypeOK`. The guards of the code compare tokens, and that is enough because
a token is never given twice (`Issued`): what was asked in an ended session can never find its token
stored again. `NothingPending`: in a tab without a session, no load or save under way is of the stored
token.

Of the inbox, for any number of conversations, messages, requests and events and any limits:
`NoMessageTwice`, `SeenWasRead`, `TypingIsTimed`, `InboxTypeOK`. The invariant says of every event
on the way and every request under way that what it carries was so when it was sent or read
(`EventGood`, `CallGood`): a thread without duplicates, an entry whose receipt was marked by then.
`LeftAlone` is the argument: time goes on and a mark is not taken back, so what was good
stays good however late it comes, and it is good for the store when it gets there. Nothing more can
be promised: that an answer is the newest is false (section 6). `PartOfList`, `GrownList` and
`WithoutProperties` are the facts about lists without duplicates.

Every safety property of the runs is proved. Only model-checked: `PauseIsLifted`, `EndedIsFreed` and
`RevokedTokenDies`. Liveness under fairness is out of the prover's reach.

## 6. Findings

Two have a run in which TLC finds the behaviour.

1. **A bracket that stands still** (`tournament_link`). A forfeit right after `game_start` comes before
   `claimMatchForGame`. Its hook finds no match for the game; then the match is stamped with the
   dead game, so it is on no ready list again.
2. **The earlier session comes back** (`client_next`). `init` writes the token and the user of the
   session it found stored, without looking whether that still is the session. The login page shows
   only a spinner until `init` has settled (`Login.jsx:52`), so nobody can sign in there
   meanwhile; but 42's callback page asks without looking at `isLoading`
   (`OAuth42Callback.jsx:29-58`). In the run: a page is loaded at 42's callback while an earlier session is
   stored, the callback signs in anew, and the late answer to `init` shows the earlier user again and
   connects the socket with the earlier token, while the new token is the stored one. `refreshUser`
   (`useAuthStore.js:165`) and, for the user only, a saved profile's `updateUser`
   (`profileStore.helpers.js:103`) write their late answers over the next session in the same way.
   `App.jsx:144-146` says "so the next user never sees the previous user's data".

Met on the way, without a run of their own:

- *A stranded room*: a player leaves between `createMatch` and `markRoomInGame`
  (`socket.handlers.js:311`). The abandon finds no room with the game's id; then the room is tied to the
  dead game. Nor does anybody retry a `reopenRoomForRematch` that came back with CONFLICT.
- *A ghost occupant*: a seat being taken as the socket closes lands after the disconnect handler,
  which is outside the user's queue, has looked.
- *Seats that are not locked*: `leaveOpenRoom` finds the room OPEN, the room is claimed, and
  `removePlayerFromRoom`, which does not look at the status, unseats a player of the running match.
- *A paused game that is over*: a disconnect handler that found the game before it ended adds it to
  `pausedGames` after, where it stays; nothing reads it again.
- *Two seats*: `createRoomForMatch` says that the room of a match is opened "without breaking the
  one-active-room invariant", which "then blocks these players from seating anywhere else"
  (`room.service.js:254-258`). The bridge is in nobody's room queue: a `room:seat` that has read that
  its user has no seat goes on after the bridge's sweeps, opens or joins a room of the lobby, and
  the bridge seats the user in the room of the match as well. `OneSeatPerUser` in `RoomSeating` states
  the comment; TLC refutes it in eleven states when it is added to `MC_RoomSeating.cfg`.
- *A penalty the rules page does not know*: `docs/game-rules.md:107-108` says "No "UNO!" call-out
  penalty" and "there is no two-card penalty for being caught", and
  `docs/game-realtime-contract.md:152` repeats it. The engine has both: the next play penalizes an owner who
  has not called (`game.engine.js:313`, `:522-538`), and `catchUno` one who is caught (`:504-513`).
  Its tests (`game.engine.test.js:724`, `:743`) and the repository's `README.md:62` agree with the code;
  `UnoSettledByNextPlay` states what they say, and is false of what the rules page says.
- *Catching a player with two cards*: `drawCard` closes the drawer's UNO window,
  `applyTurnTimeout`, which draws too, does not.
- *A timeout that cannot advance*: with every card in the hands `applyTurnTimeout` throws in the
  forced draw, and the clock is not armed again.
- *A round that is not counted*: the last two results of a round, each read before either is written,
  both see the round unfinished, and `currentRound` stays behind.
- *A cache entry after its invalidation*: `getUserFromToken` fills the cache with the user it read
  before its await, so a revocation in between is served until the entry expires; `resetPassword`
  invalidates before it commits (its comment, `auth.service.js:1177`, says that it is safe there).
  `RevokedTokenDies` is what remains: it expires.
- *Wrong passwords under-counted*: those compared at the same time write the same count
  (`docs/freeze_policy.md:7` says that eight freeze the account).
- *Codes of another setup*: a confirmation that crosses a restarted setup activates the secret that was
  checked with the recovery codes of the newer setup (`docs/two-factor-auth.md:46` has one set per setup).
- *Notifications out of order*: the acceptance that overtakes its request's notification stamps
  its conversation on an older one (`notifications.repository.js:78`); the socket events of an acceptance
  are sent before its transaction commits.
- *A message after a block*: the friendship is checked before the transaction. `SendsDryUp` is what
  remains: only those already checked are stored.
- *The inbox*: the answer to a load replaces the thread, a message that came by the socket in the
  meantime included; an event whose message a list answer has counted counts it again; a list answer
  may show older cursors and counts; the last conversation that was open stays the active one
  off the page, so that its messages are marked as read there; and a reconnect loads nothing of the
  inbox (`socketSessionHandlers.js:37`).
- *A saved profile after logout*: `updateUser` shows the user again (`profileStore.helpers.js:103`);
  `revived` is this in `ClientSession`.

## 7. Not modelled

- *Bots* only choose among moves `UnoEngine` allows, as scheduled handlers that
  `GameSession` does not have. A bot's move that throws is not scheduled again; nothing promises more.
- *Chat rooms*, API keys and the public API, profiles, avatars, exports, the administration's lists
  and its rule about the last administrator, and other notifications are reads and writes of single
  rows. The room grid and the lobby queue behind `join_lobby`, which no client sends.
- *Elo, statistics and achievements* are arithmetic over rows in one transaction.
- *Several tournaments*, and with them the rule of one active tournament per user.
- *The client's* game, room and tournament stores hold what the last event said; its pages, components
  and hooks, more than a third of the code, render. The upgrade of a guest is a login for the tab.
- *Bootstrap and middleware* but for `requireAuth`, seeds, scripts and benchmarks.
- PostgreSQL is external: a transaction at serializable isolation, or a single update, is one step, or
  two where a lock lets others wait in between.
