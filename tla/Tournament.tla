------------------------------ MODULE Tournament ------------------------------
(***************************************************************************)
(* One single-elimination tournament: sign-up, the lock of the bracket,    *)
(* and its way to a champion                                               *)
(* (server/src/modules/tournament, and the bridge to the live games,       *)
(* server/src/socket/tournament.bridge.js).                                *)
(*                                                                         *)
(* Every transaction is a step, and so is every read outside one.  A       *)
(* request that is refused changes nothing and is no step.  What the       *)
(* service writes it also announces, after the transaction has returned;   *)
(* the bridge works the announcements off in the order they came in.       *)
(*                                                                         *)
(* A live game is a pairing that ends with one of the two as its winner,   *)
(* won or by forfeit: how it gets there is GameSession's.  Starting one    *)
(* (the players' other games and seats given up, the room, the claim, the  *)
(* engine) succeeds or fails as a whole.                                   *)
(*                                                                         *)
(* A restart of the server loses the games, the announcements and the      *)
(* handlers that were under way.                                           *)
(***************************************************************************)
EXTENDS Integers, FiniteSets, Sequences

CONSTANTS User,
          Creator,
          Rounds,            \* totalRounds: 2 or 3 in the code
          WRITE_ATTEMPTS,    \* 5 in the code
          MaxGames,          \* bound: live games started
          MaxRestarts,       \* bound: restarts of the server
          DatabaseFails,     \* whether transactions and starts can fail
          None

size == 2 ^ Rounds

\* A match is its round and its slot, as in the unique key of its row.
Match == {m \in (1 .. Rounds) \X (0 .. size) : m[2] < 2 ^ (Rounds - m[1])}
Game == 1 .. MaxGames

ASSUME UserAssumption == IsFiniteSet(User) /\ Creator \in User /\ None \notin User \cup Game
ASSUME RoundsAssumption == Rounds \in Nat \ {0}
ASSUME BoundsAssumption == WRITE_ATTEMPTS \in Nat \ {0} /\ MaxGames \in Nat /\ MaxRestarts \in Nat
ASSUME DatabaseAssumption == DatabaseFails \in BOOLEAN

VARIABLES status, players, eliminated, currentRound, winnerId,   \* the tournament's rows
          matches,           \* its match rows
          starting,          \* the creator's start request
          events,            \* tournament:${id}, the bridge's FIFO of ready lists
          bridge,            \* the task at its head
          games,             \* the live games of bracket matches, in order of creation
          recording,         \* the result hook of a game
          restarts

rows == <<status, players, eliminated, currentRound, winnerId, matches>>
vars == <<rows, starting, events, bridge, games, recording, restarts>>

-----------------------------------------------------------------------------
Idle == [pc |-> "idle"]

Unplayed == [playerAId |-> None, playerBId |-> None, winnerId |-> None, liveGameId |-> None]

\* isFinal with the rounds counted from 0.
IsFinalFromZero(m) == m[1] >= Rounds - 1

IsFinal(m) == m[1] = Rounds

\* nextSeat.side for a bracket whose slots all feed seat A.
SideAlwaysA(m) == "playerAId"

\* nextSeat: the match and the seat the winner of m goes to.
NextMatch(m) == <<m[1] + 1, m[2] \div 2>>
Side(m) == IF m[2] % 2 = 0 THEN "playerAId" ELSE "playerBId"

Loser(m, w) == IF w = matches[m].playerAId THEN matches[m].playerBId ELSE matches[m].playerAId

\* applyResult's roundComplete, on the matches as they are read.
RoundComplete(m) ==
  \A n \in Match : n[1] = m[1] => n = m \/ matches[n].winnerId # None

\* listReadyMatches that looks at one of the two seats.
ReadyMatchesHalfSeated(ms) ==
  {m \in Match : ms[m].playerAId # None /\ ms[m].winnerId = None /\ ms[m].liveGameId = None}

\* listReadyMatches, of the given match rows.
ReadyMatches(ms) ==
  {m \in Match : /\ ms[m].playerAId # None /\ ms[m].playerBId # None
                 /\ ms[m].winnerId = None /\ ms[m].liveGameId = None}

\* Bracket order: by round, then by slot.
Before(m, n) == m[1] < n[1] \/ (m[1] = n[1] /\ m[2] < n[2])

\* createTournament enters its creator.
Init ==
  /\ status = "OPEN" /\ players = {Creator} /\ eliminated = {}
  /\ currentRound = 0 /\ winnerId = None
  /\ matches = [m \in Match |-> Unplayed]
  /\ starting = Idle
  /\ events = <<>>
  /\ bridge = Idle
  /\ games = <<>>
  /\ recording = [g \in Game |-> Idle]
  /\ restarts = 0

-----------------------------------------------------------------------------
\* addPlayerToTournament's checks.
MayJoin(u) == status = "OPEN" /\ u \notin players /\ Cardinality(players) < size

JoinTournament(u) ==
  /\ MayJoin(u)
  /\ players' = players \cup {u}
  /\ UNCHANGED <<status, eliminated, currentRound, winnerId, matches, starting, events, bridge,
                 games, recording, restarts>>

\* leaveTournament: the creator may leave too, and can still start or cancel.
LeaveTournament(u) ==
  /\ status = "OPEN" /\ u \in players
  /\ players' = players \ {u}
  /\ UNCHANGED <<status, eliminated, currentRound, winnerId, matches, starting, events, bridge,
                 games, recording, restarts>>

CancelTournament ==
  /\ status = "OPEN"
  /\ status' = "CANCELLED"
  /\ UNCHANGED <<players, eliminated, currentRound, winnerId, matches, starting, events, bridge,
                 games, recording, restarts>>

\* startTournament reads a full OPEN tournament.
StartRead ==
  /\ starting = Idle
  /\ status = "OPEN" /\ Cardinality(players) = size
  /\ starting' = [pc |-> "lock", seeded |-> players]
  /\ UNCHANGED <<rows, events, bridge, games, recording, restarts>>

\* The lock's checks, without the one the seed updates make.
MayLockAnyFull(seeded) == status = "OPEN" /\ Cardinality(players) = size

\* Inside the transaction: OPEN, full, and a row to update for each of the players read.
MayLock(seeded) == status = "OPEN" /\ Cardinality(players) = size /\ seeded \subseteq players

\* buildBracket: seeds two by two into the first round.
Bracket(seed) ==
  [m \in Match |-> IF m[1] = 1 THEN [Unplayed EXCEPT !.playerAId = seed[2 * m[2] + 1],
                                                     !.playerBId = seed[2 * m[2] + 2]]
                   ELSE Unplayed]

Seedings(S) == {seed \in [1 .. size -> S] : \A i, j \in 1 .. size : i # j => seed[i] # seed[j]}

\* startTournament's transaction, which locks the bracket, or does nothing.
StartLock ==
  /\ starting.pc = "lock"
  /\ \/ /\ MayLock(starting.seeded)
        /\ \E seed \in Seedings(starting.seeded) : matches' = Bracket(seed)
        /\ status' = "RUNNING" /\ currentRound' = 1
        /\ starting' = [pc |-> "announce", ready |-> ReadyMatches(matches')]
     \/ /\ ~MayLock(starting.seeded) \/ DatabaseFails
        /\ starting' = Idle
        /\ UNCHANGED <<status, currentRound, matches>>
  /\ UNCHANGED <<players, eliminated, winnerId, events, bridge, games, recording, restarts>>

\* The STARTED event.
StartAnnounce ==
  /\ starting.pc = "announce"
  /\ events' = Append(events, starting.ready)
  /\ starting' = Idle
  /\ UNCHANGED <<rows, bridge, games, recording, restarts>>

-----------------------------------------------------------------------------
\* onBracketAdvance for the next event.
BridgeNext ==
  /\ bridge = Idle /\ events # <<>>
  /\ bridge' = [pc |-> "read", todo |-> Head(events)]
  /\ events' = Tail(events)
  /\ UNCHANGED <<rows, starting, games, recording, restarts>>

BridgeDone ==
  /\ bridge.pc = "read" /\ bridge.todo = {}
  /\ bridge' = Idle
  /\ UNCHANGED <<rows, starting, events, games, recording, restarts>>

\* startReadyMatch that trusts the event's ready list.
StartableAsListed(m) == TRUE

\* startReadyMatch's look at the row: not started, not decided.
Startable(m) == matches[m].liveGameId = None /\ matches[m].winnerId = None

\* startReadyMatch reads the first match of the list.
BridgeRead ==
  /\ bridge.pc = "read"
  /\ \E m \in bridge.todo :
       /\ \A n \in bridge.todo \ {m} : Before(m, n)
       /\ \/ bridge' = IF Startable(m)
                       THEN [pc |-> "start", todo |-> bridge.todo \ {m}, match |-> m]
                       ELSE [bridge EXCEPT !.todo = @ \ {m}]
          \/ DatabaseFails /\ bridge' = [bridge EXCEPT !.todo = @ \ {m}]
  /\ UNCHANGED <<rows, starting, events, games, recording, restarts>>

\* The games the players of m are still in.  Of this tournament that can be one whose claim failed.
Stranded(m) ==
  {g \in DOMAIN games : /\ games[g].state = "playing"
                        /\ games[g].players \cap {matches[m].playerAId, matches[m].playerBId} # {}}

\* abandonActiveGame for both: a stranded game is over, and its result hook is called for the
\* one the first leaver leaves behind.
GiveUp(m) ==
  LET survivors(g) == IF matches[m].playerAId \in games[g].players
                      THEN games[g].players \ {matches[m].playerAId}
                      ELSE games[g].players \ {matches[m].playerBId} IN
  [games |-> [g \in DOMAIN games |->
                IF g \in Stranded(m) THEN [games[g] EXCEPT !.state = "over"] ELSE games[g]],
   recording |-> [g \in Game |->
                IF g \in Stranded(m)
                THEN [pc |-> "find", winner |-> CHOOSE u \in survivors(g) : TRUE]
                ELSE recording[g]]]

\* The stranded games, then room, seats, game.  A start that fails is logged, and the next
\* match is looked at.
BridgeStart ==
  /\ bridge.pc = "start"
  /\ LET m == bridge.match IN
     \/ /\ Len(games) < MaxGames
        /\ games' = Append(GiveUp(m).games,
                           [match |-> m, state |-> "playing",
                            players |-> {matches[m].playerAId, matches[m].playerBId}])
        /\ recording' = GiveUp(m).recording
        /\ bridge' = [pc |-> "claim", todo |-> bridge.todo, match |-> m, game |-> Len(games')]
     \/ /\ DatabaseFails
        /\ \/ UNCHANGED <<games, recording>>
           \/ games' = GiveUp(m).games /\ recording' = GiveUp(m).recording
        /\ bridge' = [pc |-> "read", todo |-> bridge.todo]
  /\ UNCHANGED <<rows, starting, events, restarts>>

\* claimMatchForGame: the live game is stamped on a match that has none.
BridgeClaim ==
  /\ bridge.pc = "claim"
  /\ LET m == bridge.match IN
     \/ matches' = IF Startable(m) THEN [matches EXCEPT ![m].liveGameId = bridge.game] ELSE matches
     \/ DatabaseFails /\ UNCHANGED matches
  /\ bridge' = [pc |-> "read", todo |-> bridge.todo]
  /\ UNCHANGED <<status, players, eliminated, currentRound, winnerId, starting, events, games,
                 recording, restarts>>

-----------------------------------------------------------------------------
\* A live game ends: w has won it, or the other one has left.
GameEnds(g, w) ==
  /\ g \in DOMAIN games /\ games[g].state = "playing" /\ w \in games[g].players
  /\ games' = [games EXCEPT ![g].state = "over"]
  /\ recording' = [recording EXCEPT ![g] = [pc |-> "find", winner |-> w]]
  /\ UNCHANGED <<rows, starting, events, bridge, restarts>>

\* Any call of the hook may fail: the error is logged, and the hook is not called again.
RecordFails(g) ==
  /\ DatabaseFails
  /\ recording[g].pc \in {"find", "read", "write"}
  /\ recording' = [recording EXCEPT ![g] = Idle]
  /\ UNCHANGED <<rows, starting, events, bridge, games, restarts>>

\* recordResultForLiveGame: the match that hosts the game, if any.
RecordFind(g) ==
  /\ recording[g].pc = "find"
  /\ LET hosts == {m \in Match : matches[m].liveGameId = g} IN
     recording' = [recording EXCEPT ![g] =
       IF hosts = {} THEN Idle
       ELSE [pc |-> "read", winner |-> @.winner, match |-> CHOOSE m \in hosts : TRUE, attempt |-> 0]]
  /\ UNCHANGED <<rows, starting, events, bridge, games, restarts>>

\* recordMatchResult reads the tournament, and applyResult works out what is to be written.
RecordRead(g) ==
  /\ recording[g].pc = "read"
  /\ LET r == recording[g] IN
     recording' = [recording EXCEPT ![g] =
       IF matches[r.match].winnerId # None \/ r.attempt = WRITE_ATTEMPTS THEN Idle
       ELSE [pc |-> "write", winner |-> r.winner, match |-> r.match, attempt |-> r.attempt,
             nextRound |-> IF RoundComplete(r.match) /\ ~IsFinal(r.match) THEN r.match[1] + 1
                           ELSE None]]
  /\ UNCHANGED <<rows, starting, events, bridge, games, restarts>>

\* The match rows once w has won m: its winner, and its seat in the next round unless taken.
Promoted(m, w) ==
  LET recorded == [matches EXCEPT ![m].winnerId = w] IN
  IF IsFinal(m) \/ matches[NextMatch(m)][Side(m)] # None THEN recorded
  ELSE [recorded EXCEPT ![NextMatch(m)][Side(m)] = w]

\* applyMatchResult, or a CONFLICT and another attempt.
RecordWrite(g) ==
  /\ recording[g].pc = "write"
  /\ LET r == recording[g] IN
     \/ /\ matches[r.match].winnerId = None
        /\ matches' = Promoted(r.match, r.winner)
        /\ eliminated' = eliminated \cup {Loser(r.match, r.winner)}
        /\ IF IsFinal(r.match)
           THEN status' = "COMPLETED" /\ winnerId' = r.winner /\ UNCHANGED currentRound
           ELSE /\ currentRound' = IF r.nextRound = None THEN currentRound ELSE r.nextRound
                /\ UNCHANGED <<status, winnerId>>
        /\ recording' = [recording EXCEPT ![g] =
             [pc |-> "announce", ready |-> ReadyMatches(matches')]]
     \/ /\ matches[r.match].winnerId # None
        /\ recording' = [recording EXCEPT ![g] = Idle]
        /\ UNCHANGED <<matches, eliminated, status, winnerId, currentRound>>
     \/ /\ DatabaseFails
        /\ recording' = [recording EXCEPT ![g] =
             [pc |-> "read", winner |-> r.winner, match |-> r.match, attempt |-> r.attempt + 1]]
        /\ UNCHANGED <<matches, eliminated, status, winnerId, currentRound>>
  /\ UNCHANGED <<players, starting, events, bridge, games, restarts>>

\* The MATCH_RESULT event.
RecordAnnounce(g) ==
  /\ recording[g].pc = "announce"
  /\ events' = Append(events, recording[g].ready)
  /\ recording' = [recording EXCEPT ![g] = Idle]
  /\ UNCHANGED <<rows, starting, bridge, games, restarts>>

-----------------------------------------------------------------------------
\* The server restarts: the rows are all that is left.
Restart ==
  /\ restarts < MaxRestarts
  /\ restarts' = restarts + 1
  /\ starting' = Idle /\ events' = <<>> /\ bridge' = Idle
  /\ games' = [g \in DOMAIN games |-> [games[g] EXCEPT !.state = "lost"]]
  /\ recording' = [g \in Game |-> Idle]
  /\ UNCHANGED rows

SignUp ==
  \/ \E u \in User : JoinTournament(u) \/ LeaveTournament(u)
  \/ CancelTournament \/ StartRead \/ StartLock \/ StartAnnounce

Bridge == BridgeNext \/ BridgeDone \/ BridgeRead \/ BridgeStart \/ BridgeClaim

Record(g) ==
  RecordFails(g) \/ RecordFind(g) \/ RecordRead(g) \/ RecordWrite(g) \/ RecordAnnounce(g)

Next ==
  \/ SignUp \/ Bridge \/ Restart
  \/ \E g \in Game : Record(g) \/ \E w \in User : GameEnds(g, w)

Spec == Init /\ [][Next]_vars

-----------------------------------------------------------------------------
Seat == User \cup {None}

\* Every row and every waiting handler keeps its type; a live game is between entrants,
\* never with a seat that is still empty.
TypeOK ==
  /\ status \in {"OPEN", "RUNNING", "COMPLETED", "CANCELLED"}
  /\ players \subseteq User /\ eliminated \subseteq User
  /\ currentRound \in 0 .. Rounds /\ winnerId \in Seat
  /\ matches \in [Match -> [playerAId : Seat, playerBId : Seat, winnerId : Seat,
                            liveGameId : Game \cup {None}]]
  /\ starting \in {Idle} \cup [pc : {"lock"}, seeded : SUBSET User]
                        \cup [pc : {"announce"}, ready : SUBSET Match]
  /\ events \in Seq(SUBSET Match)
  /\ bridge \in {Idle} \cup [pc : {"read"}, todo : SUBSET Match]
                      \cup [pc : {"start"}, todo : SUBSET Match, match : Match]
                      \cup [pc : {"claim"}, todo : SUBSET Match, match : Match, game : Game]
  /\ Len(games) <= MaxGames
  /\ games \in Seq([match : Match, state : {"playing", "over", "lost"}, players : SUBSET User])
  /\ recording \in [Game -> {Idle} \cup [pc : {"find"}, winner : User]
       \cup [pc : {"read"}, winner : User, match : Match, attempt : 0 .. WRITE_ATTEMPTS]
       \cup [pc : {"write"}, winner : User, match : Match, attempt : 0 .. WRITE_ATTEMPTS,
             nextRound : (1 .. Rounds) \cup {None}]
       \cup [pc : {"announce"}, ready : SUBSET Match]]
  /\ restarts \in 0 .. MaxRestarts

Locked == status \in {"RUNNING", "COMPLETED"}

\* The joins that race for the last seat fill the tournament and no more, and a locked bracket
\* has each of its entrants in exactly one first-round seat, whoever left and joined between
\* the read of the roster and the lock.
BracketSeatsEntrants ==
  /\ Cardinality(players) <= size
  /\ Locked => \A u \in User :
       Cardinality({seat \in Match \X {"playerAId", "playerBId"} :
                      seat[1][1] = 1 /\ matches[seat[1]][seat[2]] = u})
         = IF u \in players THEN 1 ELSE 0

\* A later seat is taken by the winner of the match that feeds it, and by nobody before that
\* match is decided: results that are recorded at the same time lose no promotion.
WinnersAdvance ==
  \A m \in Match : ~IsFinal(m) =>
    matches[m].winnerId = matches[NextMatch(m)][IF m[2] % 2 = 0 THEN "playerAId" ELSE "playerBId"]

\* Out is who has lost a match; the tournament is over when all but the champion are.
LastOneStanding ==
  /\ eliminated = {Loser(m, matches[m].winnerId) : m \in {n \in Match : matches[n].winnerId # None}}
  /\ status = "COMPLETED" => players \ eliminated = {winnerId}
  /\ winnerId # None => status = "COMPLETED"

\* What the bridge relies on ("a player's stranded game is never this tournament's"): however
\* often a match is on a ready list, starting it never sweeps away the game that hosts it, or
\* one that hosts another match.
HostedGameRunsOn ==
  [][BridgeStart =>
       \A g \in DOMAIN games :
         games[g].state = "playing" /\ matches[games[g].match].liveGameId = g
           => games'[g].state = "playing"]_vars

\* What the bridge says of the stamp ("so the game-end hooks can route the winner back into
\* the bracket"): a game that is over, with its hook done, has decided its match.  A game may
\* end before it is stamped.
ResultIsRecorded ==
  \A g \in DOMAIN games :
    games[g].state = "over" /\ recording[g] = Idle => matches[games[g].match].winnerId # None
=============================================================================
