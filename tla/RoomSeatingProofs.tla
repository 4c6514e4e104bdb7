--------------------------- MODULE RoomSeatingProofs ---------------------------
(***************************************************************************)
(* Proofs about RoomSeating.                                               *)
(*                                                                         *)
(* A step changes one row, in one of the ways RowMove lists, and one task, *)
(* in one of those of TaskMove.  That a user has one seat in the lobby     *)
(* rests on the queue: the only task that seats u there is u's own, and u  *)
(* has no such seat from the time it has looked to the time it sits        *)
(* (SeeksSeat), for whatever else happens to a row meanwhile only takes    *)
(* players out, adds bots, seats somebody else, or opens a match's room.   *)
(***************************************************************************)
EXTENDS RoomSeating, FiniteSetTheorems, SequenceTheorems, WellFoundedInduction, TLAPS

-----------------------------------------------------------------------------
(* Induction over the naturals, with a set in place of a predicate.        *)

\* Every set of naturals has a least element: intervals 1..n are finite sets, and strict
\* inclusion is well founded on these.
LEMMA LeastNatural ==
  ASSUME NEW S \in SUBSET Nat, S # {}
  PROVE  \E n \in S : \A m \in S : n <= m
<1> DEFINE T == {1 .. n : n \in S}
<1>1. IsWellFoundedOn(StrictSubsetOrdering(Nat), FiniteSubsetsOf(Nat))
  BY FS_StrictSubsetOrderingWellFounded
<1>2. T \subseteq FiniteSubsetsOf(Nat)
  <2> SUFFICES ASSUME NEW n \in S PROVE 1 .. n \in FiniteSubsetsOf(Nat)
    OBVIOUS
  <2>1. IsFiniteSet(1 .. n)
    BY FS_Interval
  <2>2. QED BY <2>1 DEF FiniteSubsetsOf
<1>3. T # {}
  OBVIOUS
<1>4. PICK x \in T : \A y \in T : <<y, x>> \notin StrictSubsetOrdering(Nat)
  <2> HIDE DEF T
  <2> QED BY <1>1, <1>2, <1>3, WFMin
<1>5. PICK n \in S : x = 1 .. n
  OBVIOUS
<1>6. ASSUME NEW m \in S, m < n PROVE FALSE
  <2>1. 1 .. m \subseteq 1 .. n /\ 1 .. m # 1 .. n
    BY <1>6
  <2>2. <<1 .. m, 1 .. n>> \in StrictSubsetOrdering(Nat)
    BY <2>1 DEF StrictSubsetOrdering
  <2>3. QED BY <1>4, <1>5, <2>2
<1>7. QED BY <1>6

LEMMA SetInduction ==
  ASSUME NEW G, 0 \in G, \A n \in Nat : n \in G => n + 1 \in G
  PROVE  Nat \subseteq G
<1> DEFINE Bad == Nat \ G
<1> SUFFICES ASSUME Bad # {} PROVE FALSE
  OBVIOUS
<1>1. PICK n \in Bad : \A m \in Bad : n <= m
  BY LeastNatural
<1>2. n \in Nat \ {0} /\ n - 1 \in Nat /\ n - 1 \notin Bad
  BY <1>1
<1>3. n - 1 \in G /\ (n - 1) + 1 = n
  BY <1>2
<1>4. QED BY <1>1, <1>2, <1>3

-----------------------------------------------------------------------------
(* Who stays in a room.                                                    *)

\* Staying's function over the prefixes of the seats, by the equation it solves.
StayStep(stay, seats, leavers, i) ==
  IF i = 0 THEN <<>>
  ELSE IF seats[i] \in leavers THEN stay[i - 1] ELSE Append(stay[i - 1], seats[i])

Stay(seats, leavers) ==
  CHOOSE stay : stay = [i \in 0 .. Len(seats) |-> StayStep(stay, seats, leavers, i)]

LEMMA StayDefined ==
  ASSUME NEW seats, NEW leavers, Len(seats) \in Nat
  PROVE  /\ Staying(seats, leavers) = Stay(seats, leavers)[Len(seats)]
         /\ \A i \in 0 .. Len(seats) :
              Stay(seats, leavers)[i] = StayStep(Stay(seats, leavers), seats, leavers, i)
<1> DEFINE Step(f, i) == StayStep(f, seats, leavers, i)
           Solves(f, n) == f = [i \in 0 .. n |-> Step(f, i)]
           G == {n \in Nat : \E f : Solves(f, n)}
<1>1. 0 \in G
  <2>1. Solves([i \in 0 .. 0 |-> <<>>], 0)
    BY DEF StayStep
  <2>2. QED BY <2>1
<1>2. ASSUME NEW n \in Nat, n \in G PROVE n + 1 \in G
  <2>1. PICK f : Solves(f, n)
    BY <1>2
  <2> DEFINE g == [i \in 0 .. n + 1 |-> IF i <= n THEN f[i] ELSE Step(f, n + 1)]
  <2>2. ASSUME NEW i \in 0 .. n + 1 PROVE g[i] = Step(g, i)
    <3>1. CASE i = 0
      BY <2>1, <3>1 DEF StayStep
    <3>2. CASE i \in 1 .. n
      <4>1. g[i - 1] = f[i - 1] /\ g[i] = f[i]
        BY <3>2
      <4>2. f[i] = Step(f, i)
        <5> HIDE DEF Step
        <5> QED BY <2>1, <3>2
      <4>3. QED BY <4>1, <4>2, <3>2 DEF StayStep
    <3>3. CASE i = n + 1
      <4>1. g[i - 1] = f[i - 1] /\ g[i] = Step(f, i)
        BY <3>3
      <4>2. QED BY <4>1, <3>3 DEF StayStep
    <3>4. QED BY <3>1, <3>2, <3>3
  <2>3. Solves(g, n + 1)
    <3> HIDE DEF g, Step
    <3>1. g = [i \in 0 .. n + 1 |-> g[i]]
      BY DEF g
    <3>2. QED BY <2>2, <3>1
  <2>4. QED
    <3> HIDE DEF g, Step
    <3> QED BY <2>3
<1>3. Nat \subseteq G
  <2> HIDE DEF G
  <2> QED BY <1>1, <1>2, SetInduction
<1>4. PICK f : Solves(f, Len(seats))
  BY <1>3
<1>5. Solves(Stay(seats, leavers), Len(seats))
  BY <1>4 DEF Stay
<1>6. Staying(seats, leavers) = Stay(seats, leavers)[Len(seats)]
  BY DEF Staying, Stay, StayStep
<1>7. QED BY <1>5, <1>6

\* Who stays: the seats that nobody gives up, no more of them than there were, and nobody
\* twice who was not there twice.
LEMMA StayingProperties ==
  ASSUME NEW P, NEW seats \in Seq(P), NEW leavers
  PROVE  /\ Staying(seats, leavers) \in Seq(P)
         /\ Len(Staying(seats, leavers)) <= Len(seats)
         /\ ToSet(Staying(seats, leavers)) = ToSet(seats) \ leavers
         /\ IsInjective(seats) => IsInjective(Staying(seats, leavers))
<1> DEFINE N == Len(seats)
           stay == Stay(seats, leavers)
           Good(i) == /\ stay[i] \in Seq(P)
                      /\ Len(stay[i]) <= i
                      /\ ToSet(stay[i]) = {seats[j] : j \in 1 .. i} \ leavers
                      /\ IsInjective(seats) => IsInjective(stay[i])
           G == {i \in Nat : i <= N => Good(i)}
<1>1. N \in Nat /\ DOMAIN seats = 1 .. N /\ \A i \in 1 .. N : seats[i] \in P
  BY LenProperties, ElementOfSeq
<1>2. /\ Staying(seats, leavers) = stay[N]
      /\ \A i \in 0 .. N : stay[i] = StayStep(stay, seats, leavers, i)
  BY <1>1, StayDefined
<1> HIDE DEF N, stay
<1>3. 0 \in G
  <2>1. stay[0] = <<>>
    BY <1>1, <1>2 DEF StayStep
  <2>2. <<>> \in Seq(P) /\ Len(<<>>) = 0 /\ DOMAIN <<>> = {}
    OBVIOUS
  <2>3. ToSet(<<>>) = {} /\ IsInjective(<<>>)
    BY <2>2 DEF ToSet, IsInjective
  <2>4. {seats[j] : j \in 1 .. 0} = {} /\ {} \ leavers = {}
    OBVIOUS
  <2>5. Good(0)
    BY <2>1, <2>2, <2>3, <2>4
  <2>6. QED
    <3> HIDE DEF Good
    <3> QED BY <2>5
<1>4. ASSUME NEW i \in Nat, i \in G PROVE i + 1 \in G
  <2> SUFFICES ASSUME i + 1 <= N PROVE Good(i + 1)
    OBVIOUS
  <2>1. Good(i)
    BY <1>4, <1>1
  <2>2. i + 1 \in 1 .. N /\ seats[i + 1] \in P /\ (i + 1) - 1 = i /\ i + 1 # 0
    BY <1>1
  <2>3. stay[i + 1] = IF seats[i + 1] \in leavers THEN stay[i] ELSE Append(stay[i], seats[i + 1])
    BY <1>1, <1>2, <2>2 DEF StayStep
  <2>4. {seats[j] : j \in 1 .. i + 1} = {seats[j] : j \in 1 .. i} \cup {seats[i + 1]}
    BY <1>1, <2>2
  <2>5. CASE seats[i + 1] \in leavers
    BY <2>1, <2>3, <2>4, <2>5
  <2>6. CASE seats[i + 1] \notin leavers
    <3> DEFINE a == stay[i]
               b == Append(a, seats[i + 1])
    <3>1. /\ a \in Seq(P) /\ b \in Seq(P) /\ Len(b) = Len(a) + 1 /\ Len(a) \in Nat
          /\ DOMAIN a = 1 .. Len(a) /\ DOMAIN b = 1 .. Len(a) + 1
          /\ \A j \in 1 .. Len(a) : b[j] = a[j]
          /\ b[Len(a) + 1] = seats[i + 1]
      BY <2>1, <2>2, AppendProperties, LenProperties
    <3> HIDE DEF a, b
    <3>2. ToSet(b) = ToSet(a) \cup {seats[i + 1]}
      BY <3>1 DEF ToSet
    <3>3. ASSUME IsInjective(seats) PROVE IsInjective(b)
      <4>1. IsInjective(a) /\ ToSet(a) = {seats[j] : j \in 1 .. i} \ leavers
        BY <2>1, <3>3 DEF a
      <4>2. seats[i + 1] \notin ToSet(a)
        BY <1>1, <2>2, <3>3, <4>1 DEF IsInjective
      <4>3. ASSUME NEW j \in 1 .. Len(a) + 1, NEW k \in 1 .. Len(a) + 1, b[j] = b[k] PROVE j = k
        <5>1. \A l \in 1 .. Len(a) : a[l] # seats[i + 1]
          BY <3>1, <4>2 DEF ToSet
        <5>2. CASE j \in 1 .. Len(a) /\ k \in 1 .. Len(a)
          BY <3>1, <4>1, <4>3, <5>2 DEF IsInjective
        <5>3. CASE j = Len(a) + 1 \/ k = Len(a) + 1
          BY <3>1, <4>3, <5>1, <5>3
        <5>4. QED BY <3>1, <5>2, <5>3
      <4>4. QED BY <3>1, <4>3 DEF IsInjective
    <3>4. stay[i + 1] = b
      BY <2>3, <2>6 DEF a, b
    <3>5. Len(b) <= i + 1 /\ ToSet(b) = {seats[j] : j \in 1 .. i + 1} \ leavers
      BY <2>1, <2>4, <2>6, <3>1, <3>2 DEF a
    <3>6. QED BY <3>1, <3>3, <3>4, <3>5
  <2>7. QED BY <2>5, <2>6
<1>5. Nat \subseteq G
  <2> HIDE DEF G
  <2> QED BY <1>3, <1>4, SetInduction
<1>6. Good(N)
  <2> HIDE DEF Good
  <2> QED BY <1>1, <1>5
<1>7. ToSet(seats) = {seats[j] : j \in 1 .. N}
  BY <1>1 DEF ToSet
<1>8. QED BY <1>2, <1>6, <1>7 DEF N

-----------------------------------------------------------------------------
(* What every row satisfies, and what a step may do to one.                *)

Player == User \cup Bot

RoomRow == [status : {"NONE", "OPEN", "IN_GAME", "CLOSED"}, owner : Player \cup {None},
            players : Seq(Player), match : SUBSET Player, paired : BOOLEAN]

\* A room that is not empty has its owner among its players.  It can be open, or claimed for a
\* game that has no id yet, only while it is not empty.
OwnerSits(room) ==
  /\ room.players # <<>> => Seated(room, room.owner)
  /\ room.status = "NONE" => room.players = <<>>
  /\ room.status = "OPEN" => room.players # <<>> /\ room.match = {}
  /\ room.status = "IN_GAME" /\ room.match = {} => room.players # <<>>

GoodRow(room) ==
  /\ room \in RoomRow
  /\ Len(room.players) <= SeatsIn(room)
  /\ IsInjective(room.players)
  /\ OwnerSits(room)

\* What createRoomIfUnderLimit and createRoomWithPlayers insert.
LobbyRoom(u) == NewRoom(<<u>>, FALSE)

MatchRoom(a, b) == NewRoom(<<a, b>>, TRUE)

LEMMA RoomHasSeats == \A room : SeatsIn(room) \in Nat /\ SeatsIn(room) >= 2
BY CapacityAssumption DEF SeatsIn

LEMMA EmptyRoom ==
  ASSUME NEW room, room.players \in Seq(Player)
  PROVE  room.players = <<>> <=> ToSet(room.players) = {}
<1>1. /\ Len(room.players) \in Nat /\ DOMAIN room.players = 1 .. Len(room.players)
      /\ room.players = <<>> <=> Len(room.players) = 0
  BY LenProperties, EmptySeq
<1>2. CASE Len(room.players) = 0
  BY <1>1, <1>2 DEF ToSet
<1>3. CASE Len(room.players) # 0
  <2>1. 1 \in DOMAIN room.players
    BY <1>1, <1>3
  <2>2. room.players[1] \in ToSet(room.players)
    BY <2>1 DEF ToSet
  <2>3. QED BY <1>1, <1>3, <2>2
<1>4. QED BY <1>2, <1>3

LEMMA LobbyRoomIsGood ==
  ASSUME NEW u \in User
  PROVE  /\ GoodRow(LobbyRoom(u)) /\ ToSet(LobbyRoom(u).players) = {u}
         /\ ~LobbyRoom(u).paired
<1>1. /\ <<u>> \in Seq(Player) /\ Len(<<u>>) = 1 /\ DOMAIN <<u>> = {1} /\ <<u>>[1] = u
      /\ <<u>> # <<>>
  BY DEF Player
<1>2. ToSet(<<u>>) = {u} /\ IsInjective(<<u>>)
  BY <1>1 DEF ToSet, IsInjective
<1>3. LobbyRoom(u) = [status |-> "OPEN", owner |-> u, players |-> <<u>>, match |-> {}, paired |-> FALSE]
  BY DEF LobbyRoom, NewRoom
<1>4. QED
  BY <1>1, <1>2, <1>3, RoomHasSeats DEF GoodRow, OwnerSits, RoomRow, Seated, Player

LEMMA MatchRoomIsGood ==
  ASSUME NEW a \in User, NEW b \in User, a # b
  PROVE  /\ GoodRow(MatchRoom(a, b)) /\ MatchRoom(a, b).paired
         /\ MatchRoom(a, b).status = "OPEN" /\ Full(MatchRoom(a, b))
<1> DEFINE pair == <<a, b>>
<1>1. /\ pair \in Seq(Player) /\ Len(pair) = 2 /\ DOMAIN pair = {1, 2} /\ pair[1] = a /\ pair[2] = b
      /\ pair # <<>>
  BY DEF Player
<1>2. MatchRoom(a, b) = [status |-> "OPEN", owner |-> a, players |-> pair, match |-> {}, paired |-> TRUE]
  BY DEF MatchRoom, NewRoom
<1> HIDE DEF pair
<1>3. a \in ToSet(pair) /\ IsInjective(pair)
  BY <1>1 DEF ToSet, IsInjective
<1>4. SeatsIn(MatchRoom(a, b)) = 2
  BY <1>2 DEF SeatsIn
<1>5. MatchRoom(a, b) \in RoomRow
  BY <1>1, <1>2 DEF RoomRow, Player
<1>6. OwnerSits(MatchRoom(a, b))
  BY <1>1, <1>2, <1>3 DEF OwnerSits, Seated
<1>7. /\ MatchRoom(a, b).players = pair /\ MatchRoom(a, b).paired
      /\ MatchRoom(a, b).status = "OPEN"
  BY <1>2
<1>8. Len(pair) <= 2 /\ Len(pair) >= 2
  BY <1>1
<1> HIDE DEF MatchRoom
<1>9. QED
  BY <1>3, <1>4, <1>5, <1>6, <1>7, <1>8 DEF GoodRow, Full

\* addPlayerToRoom, where it accepts the player.
LEMMA WithPlayerIsGood ==
  ASSUME NEW room, GoodRow(room), NEW p \in Player, Joinable(room, p)
  PROVE  /\ GoodRow(WithPlayer(room, p))
         /\ ToSet(WithPlayer(room, p).players) = ToSet(room.players) \cup {p}
         /\ WithPlayer(room, p).status = room.status
         /\ WithPlayer(room, p).match = room.match
         /\ WithPlayer(room, p).paired = room.paired
<1>1. CASE Seated(room, p)
  BY <1>1 DEF WithPlayer, Seated
<1>2. CASE ~Seated(room, p)
  <2> DEFINE a == room.players
             b == Append(a, p)
  <2>1. /\ room \in RoomRow /\ room.status = "OPEN" /\ Len(a) < SeatsIn(room)
        /\ a \in Seq(Player) /\ IsInjective(a) /\ p \notin ToSet(a) /\ OwnerSits(room)
        /\ Len(a) \in Nat
    BY <1>2, RoomHasSeats, LenProperties DEF GoodRow, Joinable, Full, RoomRow, Seated
  <2>2. WithPlayer(room, p) = [room EXCEPT !.players = b]
    BY <1>2 DEF WithPlayer
  <2>3. /\ b \in Seq(Player) /\ Len(b) = Len(a) + 1 /\ b # <<>>
        /\ DOMAIN a = 1 .. Len(a) /\ DOMAIN b = 1 .. Len(a) + 1
        /\ \A j \in 1 .. Len(a) : b[j] = a[j]
        /\ b[Len(a) + 1] = p
    BY <2>1, AppendProperties, LenProperties
  <2> HIDE DEF b
  <2>4. ToSet(b) = ToSet(a) \cup {p}
    BY <2>3 DEF ToSet
  <2>5. IsInjective(b)
    <3>1. \A j \in 1 .. Len(a) : b[j] # p
      BY <2>1, <2>3 DEF ToSet
    <3>2. ASSUME NEW j \in 1 .. Len(a) + 1, NEW k \in 1 .. Len(a) + 1, b[j] = b[k] PROVE j = k
      <4>1. CASE j \in 1 .. Len(a) /\ k \in 1 .. Len(a)
        BY <2>1, <2>3, <3>2, <4>1 DEF IsInjective
      <4>2. CASE j = Len(a) + 1 \/ k = Len(a) + 1
        BY <2>1, <2>3, <3>1, <3>2, <4>2
      <4>3. QED BY <2>1, <4>1, <4>2
    <3>3. QED BY <2>3, <3>2 DEF IsInjective
  <2>6. [room EXCEPT !.players = b] \in RoomRow
    BY <2>1, <2>3 DEF RoomRow
  <2>7. OwnerSits([room EXCEPT !.players = b])
    BY <2>1, <2>3, <2>4, <2>6 DEF OwnerSits, Seated, RoomRow
  <2>8. /\ WithPlayer(room, p).players = b /\ Len(b) <= SeatsIn(room)
        /\ WithPlayer(room, p).status = room.status /\ WithPlayer(room, p).match = room.match
        /\ WithPlayer(room, p).paired = room.paired
    BY <2>1, <2>2, <2>3, RoomHasSeats DEF RoomRow
  <2>9. SeatsIn(WithPlayer(room, p)) = SeatsIn(room)
    BY <2>8 DEF SeatsIn
  <2>10. QED BY <2>2, <2>4, <2>5, <2>6, <2>7, <2>8, <2>9 DEF GoodRow
<1>3. QED BY <1>1, <1>2

\* removePlayerFromRoom and reopenRoomForRematch, whoever leaves.
LEMMA WithoutIsGood ==
  ASSUME NEW room, GoodRow(room), NEW leavers
  PROVE  /\ GoodRow(Without(room, leavers))
         /\ ToSet(Without(room, leavers).players) = ToSet(room.players) \ leavers
         /\ Without(room, leavers).match = room.match
         /\ Without(room, leavers).paired = room.paired
         /\ Without(room, leavers).status =
              IF Without(room, leavers).players = <<>> THEN "CLOSED" ELSE room.status
<1> DEFINE stay == Staying(room.players, leavers)
           left == Without(room, leavers)
<1>1. /\ room \in RoomRow /\ room.players \in Seq(Player) /\ Len(room.players) <= SeatsIn(room)
      /\ IsInjective(room.players) /\ OwnerSits(room) /\ Len(room.players) \in Nat
  BY LenProperties DEF GoodRow, RoomRow
<1>2. /\ stay \in Seq(Player) /\ Len(stay) <= Len(room.players) /\ IsInjective(stay)
      /\ ToSet(stay) = ToSet(room.players) \ leavers /\ Len(stay) \in Nat
  BY <1>1, StayingProperties, LenProperties
<1> HIDE DEF stay
<1>3. left = [room EXCEPT !.players = stay,
                          !.status = IF stay = <<>> THEN "CLOSED" ELSE @,
                          !.owner = IF stay # <<>> /\ @ \in leavers THEN stay[1] ELSE @]
  BY DEF Without, stay
<1>4. /\ left.players = stay /\ left.match = room.match /\ left.paired = room.paired
      /\ left.status = IF stay = <<>> THEN "CLOSED" ELSE room.status
      /\ left.owner = IF stay # <<>> /\ room.owner \in leavers THEN stay[1] ELSE room.owner
  BY <1>1, <1>3 DEF RoomRow
<1>5. stay # <<>> => 1 \in DOMAIN stay /\ stay[1] \in Player /\ stay[1] \in ToSet(stay)
  <2> SUFFICES ASSUME stay # <<>> PROVE 1 \in DOMAIN stay /\ stay[1] \in Player /\ stay[1] \in ToSet(stay)
    OBVIOUS
  <2>1. DOMAIN stay = 1 .. Len(stay) /\ Len(stay) # 0
    BY <1>2, LenProperties, EmptySeq
  <2>2. 1 \in DOMAIN stay
    BY <1>2, <2>1
  <2>3. QED BY <1>2, <2>1, <2>2, ElementOfSeq DEF ToSet
<1>6. left \in RoomRow
  BY <1>1, <1>2, <1>3, <1>5 DEF RoomRow
<1>7. stay # <<>> => room.players # <<>>
  <2>1. stay = <<>> <=> Len(stay) = 0
    BY <1>2, EmptySeq
  <2>2. room.players = <<>> => Len(room.players) = 0
    OBVIOUS
  <2>3. QED BY <1>1, <1>2, <2>1, <2>2
<1>8. stay # <<>> => Seated(left, left.owner)
  BY <1>1, <1>2, <1>4, <1>5, <1>7 DEF OwnerSits, Seated
<1>9. OwnerSits(left)
  BY <1>1, <1>4, <1>7, <1>8 DEF OwnerSits
<1>10. Len(stay) <= SeatsIn(left)
  BY <1>1, <1>2, <1>4, RoomHasSeats DEF SeatsIn
<1>11. QED BY <1>2, <1>4, <1>6, <1>9, <1>10 DEF GoodRow

LEMMA ReopenedIsGood ==
  ASSUME NEW room, GoodRow(room), room.status = "IN_GAME", NEW u
  PROVE  /\ GoodRow(Reopened(room, u))
         /\ ToSet(Reopened(room, u).players) \subseteq ToSet(room.players)
         /\ Reopened(room, u).status \in {"OPEN", "CLOSED"}
         /\ Reopened(room, u).paired = room.paired
<1> DEFINE left == Without(room, {u} \cup Bot)
<1>1. /\ GoodRow(left) /\ ToSet(left.players) \subseteq ToSet(room.players)
      /\ left.paired = room.paired
      /\ left.status = IF left.players = <<>> THEN "CLOSED" ELSE "IN_GAME"
  BY WithoutIsGood
<1> HIDE DEF left
<1>2. CASE left.players = <<>>
  BY <1>1, <1>2 DEF Reopened, left
<1>3. CASE left.players # <<>>
  <2> DEFINE open == [left EXCEPT !.status = "OPEN", !.match = {}]
  <2>1. Reopened(room, u) = open
    BY <1>1, <1>3 DEF Reopened, left
  <2>2. /\ open \in RoomRow /\ open.players = left.players /\ open.owner = left.owner
        /\ open.status = "OPEN" /\ open.match = {} /\ open.paired = left.paired
    BY <1>1 DEF GoodRow, RoomRow
  <2>3. GoodRow(open)
    BY <1>1, <1>3, <2>2 DEF GoodRow, OwnerSits, Seated, SeatsIn
  <2>4. QED BY <1>1, <2>1, <2>2, <2>3
<1>4. QED BY <1>2, <1>3

-----------------------------------------------------------------------------
(* The invariant.                                                          *)

TaskRecord ==
  {Idle} \cup [pc : {"create"}]
    \cup [pc : {"seat_try"}, todo : SUBSET Room]
    \cup [pc : {"join", "leave", "end", "release"}, room : Room]
    \cup [pc : {"fill_look"}, room : Room, players : SUBSET Player, todo : SUBSET Bot]
    \cup [pc : {"fill_add"}, room : Room, bot : Bot, todo : SUBSET Bot]
    \cup [pc : {"claim", "mark"}, room : Room, players : SUBSET Player]
    \cup [pc : {"pair"}, pair : User \X User, todo : Seq({"game", "room"} \X User)]
    \cup [pc : {"pair_leave"}, room : Room, pair : User \X User, todo : Seq({"game", "room"} \X User)]

RowsGood == rooms \in [Room -> RoomRow] /\ \A r \in Room : GoodRow(rooms[r])

\* A disconnect only ever leaves, and the bridge pairs and starts; everything else runs in the
\* user's queue.
OfBridge == {"pair", "pair_leave", "claim", "mark", "release", "end"}

GoodPlace(t, next) ==
  next.pc # "idle" =>
    IF t = Bridge THEN next.pc \in OfBridge
    ELSE /\ next.pc \notin {"pair", "pair_leave"}
         /\ next.pc # "leave" => t[2] = "queue"

\* A match is of two, and a leaving belongs to a sweep.
GoodPair(next) ==
  /\ next.pc \in {"pair", "pair_leave"} => next.pair[1] # next.pair[2]
  /\ next.pc = "pair_leave" => next.todo # <<>>

InPlace == \A t \in Task : GoodPlace(t, task[t]) /\ GoodPair(task[t])

\* A match is never started for nobody.
StartsWithPlayers == \A t \in Task : task[t].pc \in {"claim", "mark"} => task[t].players # {}

TasksGood == task \in [Task -> TaskRecord] /\ InPlace /\ StartsWithPlayers

\* u's seats in the lobby.
Seats(u) == {r \in ActiveSeats(u) : ~rooms[r].paired}

OnlySeat == \A u \in User : \A r, s \in Seats(u) : r = s

\* A request that is about to seat its user has found the user without a seat, and only the
\* user's queue seats the user in the lobby: what it found is still so there.
SeeksSeat ==
  \A t \in Task : task[t].pc \in {"create", "seat_try", "join"} => Seats(t[1]) = {}

\* A claimed room, until it is marked or released, stays in game without a game id, or has
\* been emptied.
Claimed(room) ==
  /\ room.match = {}
  /\ room.status = "IN_GAME" \/ (room.status = "CLOSED" /\ room.players = <<>>)

Starts(t, r) == task[t].pc \in {"mark", "release"} /\ task[t].room = r

ClaimsHold ==
  \A t \in Task, r \in Room : Starts(t, r) =>
    Claimed(rooms[r]) /\ \A o \in Task : Starts(o, r) => o = t

SeatingInv == RowsGood /\ TasksGood /\ OnlySeat /\ SeeksSeat /\ ClaimsHold

\* What a task has read and kept, by where it is.
LEMMA TaskFields ==
  ASSUME task \in [Task -> TaskRecord], NEW t \in Task
  PROVE  /\ task[t] \in TaskRecord
         /\ task[t].pc = "seat_try" => task[t].todo \in SUBSET Room
         /\ task[t].pc \in {"join", "leave", "end", "release", "fill_look", "fill_add", "claim", "mark"}
              => task[t].room \in Room
         /\ task[t].pc \in {"fill_look", "claim", "mark"} => task[t].players \in SUBSET Player
         /\ task[t].pc \in {"fill_look", "fill_add"} => task[t].todo \in SUBSET Bot
         /\ task[t].pc = "fill_add" => task[t].bot \in Bot
         /\ task[t].pc = "pair_leave" => task[t].room \in Room
         /\ task[t].pc \in {"pair", "pair_leave"} =>
              task[t].pair \in User \X User /\ task[t].todo \in Seq({"game", "room"} \X User)
<1>1. task[t] \in TaskRecord
  OBVIOUS
<1>2. QED BY <1>1 DEF TaskRecord, Idle

\* Which task may be where.
LEMMA Placed ==
  ASSUME NEW t \in Task
  PROVE  /\ t # Bridge => t[1] \in User
         /\ t[2] = "queue" => t # Bridge /\ t = <<t[1], "queue">>
         /\ TasksGood => /\ task[t].pc \in {"create", "seat_try", "join", "fill_look", "fill_add"}
                             => t[2] = "queue"
                         /\ task[t].pc \in {"claim", "mark", "release", "end"}
                             => t = Bridge \/ t[2] = "queue"
                         /\ task[t].pc = "leave" => t # Bridge
                         /\ task[t].pc \in {"pair", "pair_leave"} => t = Bridge
<1>1. /\ t # Bridge => t[1] \in User
      /\ t[2] = "queue" => t # Bridge /\ t = <<t[1], "queue">>
  BY DEF Task, Bridge
<1>2. TasksGood => GoodPlace(t, task[t])
  BY DEF TasksGood, InPlace
<1>3. QED BY <1>1, <1>2 DEF GoodPlace, OfBridge

LEMMA TheBridge == Bridge \in Task
BY DEF Task

InStatus(room, to) == [room EXCEPT !.status = to]

InGame(room, S) == [room EXCEPT !.status = "IN_GAME", !.match = S]

\* u's queue has found u without a seat, and is done with seating.
TakesSeat(u) ==
  /\ task[<<u, "queue">>].pc \in {"create", "seat_try", "join"}
  /\ task'[<<u, "queue">>].pc \in {"idle", "claim"}

\* The task that claimed room r is done with it.
Finishes(r) == \E t \in Task : Starts(t, r) /\ task'[t].pc \in {"idle", "end"}

\* What one step may do to row r, from a to b, and who does it.
RowMove(r, a, b) ==
  \/ b = a
  \/ \E p \in Player : Joinable(a, p) /\ b = WithPlayer(a, p) /\ (p \in User => TakesSeat(p))
  \/ a.status = "NONE" /\ \E u \in User : b = LobbyRoom(u) /\ TakesSeat(u)
  \/ a.status = "NONE" /\ \E u, v \in User : u # v /\ b = MatchRoom(u, v)
  \/ \E u \in User : b = Without(a, {u})
  \/ a.status = "OPEN" /\ \E to \in {"IN_GAME", "CLOSED"} : b = InStatus(a, to)
  \/ \E S \in SUBSET Player : S # {} /\ b = InGame(a, S) /\ Finishes(r)
  \/ a.status = "IN_GAME" /\ a.match = {} /\ b = InStatus(a, "OPEN") /\ Finishes(r)
  \/ a.status = "IN_GAME" /\ a.match # {} /\ b = InStatus(a, "CLOSED")
  \/ a.status = "IN_GAME" /\ \E u \in User : u \in a.match /\ b = Reopened(a, u)

LEMMA RowMoveIsGood ==
  ASSUME NEW r, NEW a, NEW b, GoodRow(a), RowMove(r, a, b)
  PROVE  GoodRow(b)
<1>1. ASSUME NEW p \in Player, Joinable(a, p), b = WithPlayer(a, p) PROVE GoodRow(b)
  BY <1>1, WithPlayerIsGood
<1>2. ASSUME NEW u \in User, b = LobbyRoom(u) PROVE GoodRow(b)
  BY <1>2, LobbyRoomIsGood
<1>10. ASSUME NEW u \in User, NEW v \in User, u # v, b = MatchRoom(u, v) PROVE GoodRow(b)
  BY <1>10, MatchRoomIsGood
<1>3. ASSUME NEW u \in User, b = Without(a, {u}) PROVE GoodRow(b)
  BY <1>3, WithoutIsGood
<1>4. ASSUME a.status = "OPEN", NEW to \in {"IN_GAME", "CLOSED"}, b = InStatus(a, to)
      PROVE GoodRow(b)
  BY <1>4 DEF GoodRow, RoomRow, OwnerSits, Seated, SeatsIn, InStatus
<1>5. ASSUME NEW S \in SUBSET Player, S # {}, b = InGame(a, S) PROVE GoodRow(b)
  BY <1>5 DEF GoodRow, RoomRow, OwnerSits, Seated, SeatsIn, InGame
<1>6. ASSUME a.status = "IN_GAME", a.match = {}, b = InStatus(a, "OPEN") PROVE GoodRow(b)
  BY <1>6 DEF GoodRow, RoomRow, OwnerSits, Seated, SeatsIn, InStatus
<1>7. ASSUME a.status = "IN_GAME", a.match # {}, b = InStatus(a, "CLOSED") PROVE GoodRow(b)
  BY <1>7 DEF GoodRow, RoomRow, OwnerSits, Seated, SeatsIn, InStatus
<1>8. ASSUME a.status = "IN_GAME", NEW u, b = Reopened(a, u) PROVE GoodRow(b)
  BY <1>8, ReopenedIsGood
<1>9. QED BY ZenonT(30), <1>1, <1>2, <1>3, <1>4, <1>5, <1>6, <1>7, <1>8, <1>10 DEF RowMove

\* addPlayerToRoom and createRoomIfUnderLimit, for a user whose queue is seating the user.
LEMMA TakeSeatMoves ==
  ASSUME RowsGood, TasksGood, NEW t \in Task, task[t].pc \in {"seat_try", "join"},
         NEW q \in Room, TakeSeat(t, q), NEW r \in Room
  PROVE  RowMove(r, rooms[r], rooms'[r])
<1>1. t[1] \in Player /\ t = <<t[1], "queue">>
  BY Placed DEF Player
<1>2. Joinable(rooms[q], t[1]) /\ rooms'[r] = IF r = q THEN WithPlayer(rooms[r], t[1]) ELSE rooms[r]
  BY DEF TakeSeat, RowsGood
<1>3. task'[t].pc \in {"idle", "claim"}
  <2>1. task'[t] = StartIfFull(q, rooms'[q])
    BY DEF TakeSeat, Becomes, TasksGood
  <2>2. QED BY <2>1 DEF StartIfFull, Idle
<1>4. TakesSeat(t[1])
  BY <1>1, <1>3 DEF TakesSeat
<1>5. QED BY <1>1, <1>2, <1>4 DEF RowMove

LEMMA CreateRoomMoves ==
  ASSUME RowsGood, TasksGood, NEW t \in Task, task[t].pc \in {"seat_try", "create"},
         CreateRoom(t[1]), Becomes(t, Idle), NEW r \in Room
  PROVE  RowMove(r, rooms[r], rooms'[r])
<1>1. t[1] \in User /\ t = <<t[1], "queue">>
  BY Placed
<1>2. PICK q \in Room : rooms[q].status = "NONE" /\ rooms' = [rooms EXCEPT ![q] = LobbyRoom(t[1])]
  BY DEF CreateRoom, FreshRows, LobbyRoom
<1>3. rooms'[r] = IF r = q THEN LobbyRoom(t[1]) ELSE rooms[r]
  BY <1>2 DEF RowsGood
<1>4. task'[t].pc = "idle"
  BY DEF Becomes, TasksGood, Idle
<1>5. TakesSeat(t[1])
  BY <1>1, <1>4 DEF TakesSeat
<1>6. QED BY <1>1, <1>2, <1>3, <1>5 DEF RowMove

\* What the bridge has in hand.
LEMMA BridgeFields ==
  ASSUME TasksGood, task[Bridge].pc \in {"pair", "pair_leave"}
  PROVE  /\ task[Bridge].pair \in User \X User /\ task[Bridge].pair[1] # task[Bridge].pair[2]
         /\ task[Bridge].todo \in Seq({"game", "room"} \X User)
         /\ task[Bridge].todo # <<>> => Head(task[Bridge].todo)[2] \in User
         /\ task[Bridge].pc = "pair_leave" => task[Bridge].room \in Room
<1>1. /\ task[Bridge].pair \in User \X User
      /\ task[Bridge].todo \in Seq({"game", "room"} \X User)
      /\ task[Bridge].pc = "pair_leave" => task[Bridge].room \in Room
  BY TheBridge, TaskFields DEF TasksGood
<1>2. GoodPair(task[Bridge])
  BY TheBridge DEF TasksGood, InPlace
<1>3. task[Bridge].todo # <<>> => Head(task[Bridge].todo) \in {"game", "room"} \X User
  BY <1>1, HeadTailProperties
<1>4. QED BY <1>1, <1>2, <1>3 DEF GoodPair

\* A sweep that unseats, where it finds the player seated.
LEMMA PairRemoveShape ==
  ASSUME TasksGood, PairRemove
  PROVE  \/ UNCHANGED rooms
         \/ \E q \in Room, u \in User : rooms' = [rooms EXCEPT ![q] = Without(rooms[q], {u})]
<1>1. /\ task[Bridge].pc = "pair_leave"
      /\ \/ UNCHANGED rooms
         \/ rooms' = [rooms EXCEPT ![task[Bridge].room]
                                      = Without(@, {Head(task[Bridge].todo)[2]})]
  BY DEF PairRemove
<1>2. task[Bridge].room \in Room /\ (task[Bridge].todo # <<>> => Head(task[Bridge].todo)[2] \in User)
  BY <1>1, BridgeFields
<1>3. task[Bridge].todo # <<>>
  BY <1>1, TheBridge DEF TasksGood, InPlace, GoodPair
<1>4. QED BY <1>1, <1>2, <1>3

LEMMA PairOpenShape ==
  ASSUME TasksGood, PairOpen
  PROVE  \/ UNCHANGED rooms
         \/ \E q \in Room, a, b \in User :
              /\ a # b /\ rooms[q].status = "NONE"
              /\ rooms' = [rooms EXCEPT ![q] = MatchRoom(a, b)]
<1>1. /\ task[Bridge].pc = "pair"
      /\ \/ UNCHANGED rooms
         \/ \E q \in FreshRows : rooms' = [rooms EXCEPT ![q] = NewRoom(task[Bridge].pair, TRUE)]
  BY DEF PairOpen
<1>2. PICK a \in User, b \in User : a # b /\ task[Bridge].pair = <<a, b>>
  BY <1>1, BridgeFields
<1>3. NewRoom(task[Bridge].pair, TRUE) = MatchRoom(a, b)
  BY <1>2 DEF MatchRoom
<1>4. \A q \in FreshRows : q \in Room /\ rooms[q].status = "NONE"
  BY DEF FreshRows
<1>5. ASSUME NEW q \in FreshRows, rooms' = [rooms EXCEPT ![q] = NewRoom(task[Bridge].pair, TRUE)]
      PROVE  /\ q \in Room /\ rooms[q].status = "NONE"
             /\ rooms' = [rooms EXCEPT ![q] = MatchRoom(a, b)]
  BY <1>3, <1>4, <1>5
<1>6. CASE UNCHANGED rooms
  BY <1>6
<1>7. CASE \E q \in FreshRows : rooms' = [rooms EXCEPT ![q] = NewRoom(task[Bridge].pair, TRUE)]
  <2>1. PICK q \in FreshRows : rooms' = [rooms EXCEPT ![q] = NewRoom(task[Bridge].pair, TRUE)]
    BY <1>7
  <2>2. /\ q \in Room /\ rooms[q].status = "NONE"
        /\ rooms' = [rooms EXCEPT ![q] = MatchRoom(a, b)]
    BY <1>5, <2>1
  <2>3. QED BY <1>2, <2>2, Zenon
<1>8. QED BY <1>1, <1>6, <1>7

\* The shape of a step: each row makes one of these moves, or stays as it is.
LEMMA RowMoves ==
  ASSUME RowsGood, TasksGood, Next, NEW r \in Room
  PROVE  RowMove(r, rooms[r], rooms'[r])
<1> DEFINE Move == RowMove(r, rooms[r], rooms'[r])
<1>0. rooms \in [Room -> RoomRow] /\ task \in [Task -> TaskRecord]
  BY DEF RowsGood, TasksGood
<1>1. ASSUME UNCHANGED rooms PROVE Move
  <2>1. rooms'[r] = rooms[r]
    BY <1>1
  <2>2. QED BY <2>1 DEF RowMove
<1>2. ASSUME NEW t \in Task, Request(t) PROVE UNCHANGED rooms
  BY <1>2 DEF Request, SeatUser, CreateRoomFind, LeaveFind, EndFind, FillFind, JoinRoomFind
<1>3. ASSUME NEW t \in Task, Continue(t) PROVE Move
  <2>2. CASE SeatTry(t)
    <3>1. task[t].pc = "seat_try" => task[t].todo \subseteq Room
      BY <1>0, TaskFields
    <3>2. UNCHANGED rooms \/ \E q \in Room : TakeSeat(t, q)
      BY <2>2, <3>1 DEF SeatTry
    <3>3. QED BY <1>1, <2>2, <3>2, TakeSeatMoves DEF SeatTry
  <2>3. CASE SeatOpen(t) \/ CreateRoomOpen(t)
    <3>1. /\ task[t].pc \in {"seat_try", "create"} /\ Becomes(t, Idle)
          /\ UNCHANGED rooms \/ CreateRoom(t[1])
      BY <2>3 DEF SeatOpen, CreateRoomOpen
    <3>2. QED BY <1>1, <3>1, CreateRoomMoves
  <2>4. CASE JoinRoomAdd(t)
    <3>1. task[t].room \in Room
      BY <1>0, <2>4, TaskFields DEF JoinRoomAdd
    <3>2. task[t].pc = "join" /\ (UNCHANGED rooms \/ TakeSeat(t, task[t].room))
      BY <2>4 DEF JoinRoomAdd
    <3>3. QED BY <1>1, <3>1, <3>2, TakeSeatMoves
  <2>5. CASE LeaveRemove(t)
    <3>1. rooms'[r] = rooms[r] \/ rooms'[r] = Without(rooms[r], {t[1]})
      BY <1>0, <2>5 DEF LeaveRemove
    <3>2. t[1] \in User
      BY <2>5, Placed DEF LeaveRemove
    <3>3. QED BY <3>1, <3>2 DEF RowMove
  <2>6. CASE EndClose(t)
    <3>1. rooms'[r] = rooms[r] \/ (rooms[r].status = "OPEN" /\ rooms'[r] = InStatus(rooms[r], "CLOSED"))
      BY <1>0, <2>6 DEF EndClose, Closable, InStatus
    <3>2. QED BY <3>1 DEF RowMove
  <2>7. CASE FillLook(t)
    BY <1>1, <2>7 DEF FillLook
  <2>8. CASE FillAdd(t)
    <3>1. task[t].bot \in Player /\ task[t].bot \notin User
      BY <1>0, <2>8, TaskFields, PlayersAssumption DEF FillAdd, Player
    <3>2. \/ rooms'[r] = rooms[r]
          \/ Joinable(rooms[r], task[t].bot) /\ rooms'[r] = WithPlayer(rooms[r], task[t].bot)
      BY <1>0, <2>8 DEF FillAdd
    <3>3. QED BY <3>1, <3>2 DEF RowMove
  <2>9. CASE Claim(t)
    <3>1. rooms'[r] = rooms[r] \/ (rooms[r].status = "OPEN" /\ rooms'[r] = InStatus(rooms[r], "IN_GAME"))
      BY <1>0, <2>9 DEF Claim, InStatus
    <3>2. QED BY <3>1 DEF RowMove
  <2>10. CASE Mark(t)
    <3>1. task[t].players \in SUBSET Player /\ task[t].players # {}
      BY <1>0, <2>10, TaskFields DEF Mark, TasksGood, StartsWithPlayers
    <3>2. \/ rooms'[r] = rooms[r]
          \/ /\ task[t].room = r /\ task'[t].pc = "idle"
             /\ rooms'[r] = InGame(rooms[r], task[t].players)
      <4>1. CASE UNCHANGED rooms
        BY <4>1
      <4>2. CASE ~UNCHANGED rooms
        <5>1. /\ rooms' = [rooms EXCEPT ![task[t].room].status = "IN_GAME",
                                      ![task[t].room].match = task[t].players]
              /\ Becomes(t, Idle)
          BY <2>10, <4>2 DEF Mark
        <5>2. task'[t].pc = "idle"
          BY <1>0, <5>1 DEF Becomes, Idle
        <5>3. rooms'[r] = IF r = task[t].room THEN InGame(rooms[r], task[t].players) ELSE rooms[r]
          BY <1>0, <5>1 DEF InGame
        <5>4. QED BY <5>2, <5>3
      <4>3. QED BY <4>1, <4>2
    <3>3. rooms'[r] # rooms[r] => Finishes(r)
      BY <2>10, <3>2 DEF Mark, Finishes, Starts, Idle
    <3>4. QED BY <3>1, <3>2, <3>3 DEF RowMove
  <2>11. CASE Release(t)
    <3>1. \/ rooms'[r] = rooms[r]
          \/ /\ rooms[r].status = "IN_GAME" /\ rooms[r].match = {}
             /\ rooms'[r] = InStatus(rooms[r], "OPEN") /\ task[t].room = r
             /\ task'[t].pc \in {"idle", "end"}
      BY <1>0, <2>11 DEF Release, InStatus, Becomes, Unstarted, Idle
    <3>2. rooms'[r] # rooms[r] => Finishes(r)
      BY <2>11, <3>1 DEF Release, Finishes, Starts, Idle
    <3>3. QED BY <3>1, <3>2 DEF RowMove
  <2>12. QED
    BY <1>3, <2>2, <2>3, <2>4, <2>5, <2>6, <2>7, <2>8, <2>9, <2>10, <2>11 DEF Continue
<1>4. ASSUME NEW q \in Room, GameWon(q) PROVE Move
  <2>1. \/ rooms'[r] = rooms[r]
        \/ /\ rooms[r].status = "IN_GAME" /\ rooms[r].match # {}
           /\ rooms'[r] = InStatus(rooms[r], "CLOSED")
    BY <1>0, <1>4 DEF GameWon, InStatus
  <2>2. QED BY <2>1 DEF RowMove
<1>5. ASSUME NEW q \in Room, NEW u \in User, AbandonsGame(q, u) PROVE Move
  <2>1. /\ rooms[q].status = "IN_GAME" /\ u \in rooms[q].match
        /\ rooms' = [rooms EXCEPT ![q] = Reopened(rooms[q], u)]
    BY <1>5, Zenon DEF AbandonsGame
  <2>2. rooms'[r] = IF r = q THEN Reopened(rooms[r], u) ELSE rooms[r]
    BY <1>0, <2>1
  <2>3. QED BY <2>1, <2>2 DEF RowMove
<1>6. CASE Pair
  <2>1. CASE \E a, b \in User : PairStart(a, b)
    BY <1>1, <2>1 DEF PairStart
  <2>2. CASE PairAbandon
    <3>1. \/ UNCHANGED rooms
          \/ \E q \in Room : AbandonsGame(q, Head(task[Bridge].todo)[2])
      BY <2>2 DEF PairAbandon
    <3>2. Head(task[Bridge].todo)[2] \in User
      BY <2>2, BridgeFields DEF PairAbandon
    <3>3. QED BY <1>1, <1>5, <3>1, <3>2
  <2>3. CASE PairLeave
    BY <1>1, <2>3 DEF PairLeave
  <2>4. CASE PairRemove
    <3>1. CASE UNCHANGED rooms
      BY <1>1, <3>1
    <3>2. ASSUME NEW q \in Room, NEW u \in User, rooms' = [rooms EXCEPT ![q] = Without(rooms[q], {u})]
          PROVE  Move
      <4>1. rooms'[r] = IF r = q THEN Without(rooms[r], {u}) ELSE rooms[r]
        BY <1>0, <3>2
      <4>2. QED BY <4>1 DEF RowMove
    <3>3. QED BY <2>4, <3>1, <3>2, PairRemoveShape
  <2>5. CASE PairOpen
    <3>1. CASE UNCHANGED rooms
      BY <1>1, <3>1
    <3>2. ASSUME NEW q \in Room, NEW a \in User, NEW b \in User, a # b, rooms[q].status = "NONE",
                 rooms' = [rooms EXCEPT ![q] = MatchRoom(a, b)]
          PROVE  Move
      <4>1. rooms'[r] = IF r = q THEN MatchRoom(a, b) ELSE rooms[r]
        BY <1>0, <3>2
      <4>2. QED BY <3>2, <4>1 DEF RowMove
    <3>3. QED BY <2>5, <3>1, <3>2, PairOpenShape
  <2>6. QED BY <1>6, <2>1, <2>2, <2>3, <2>4, <2>5 DEF Pair
<1>7. QED BY <1>1, <1>2, <1>3, <1>4, <1>5, <1>6 DEF Next, GameLeft

\* A step replaces no more than one of them.
LEMMA OneRowMoves ==
  ASSUME RowsGood, TasksGood, Next
  PROVE  \E q \in Room : rooms' = [rooms EXCEPT ![q] = rooms'[q]]
<1> DEFINE One == \E q \in Room : rooms' = [rooms EXCEPT ![q] = rooms'[q]]
<1>0. rooms \in [Room -> RoomRow] /\ task \in [Task -> TaskRecord]
  BY DEF RowsGood, TasksGood
<1>1. ASSUME NEW q \in Room, NEW x, rooms' = [rooms EXCEPT ![q] = x] PROVE One
  BY <1>0, <1>1
<1>2. ASSUME UNCHANGED rooms PROVE One
  <2>1. 1 \in Room
    BY RoomsAssumption DEF Room
  <2>2. QED BY <1>0, <1>2, <2>1
<1>3. ASSUME NEW t \in Task, NEW q \in Room, TakeSeat(t, q) PROVE One
  BY <1>1, <1>3, Zenon DEF TakeSeat
<1>4. ASSUME NEW u, CreateRoom(u) PROVE One
  BY <1>1, <1>4, Zenon DEF CreateRoom, FreshRows
<1>5. ASSUME NEW t \in Task, Request(t) PROVE UNCHANGED rooms
  BY <1>5 DEF Request, SeatUser, CreateRoomFind, LeaveFind, EndFind, FillFind, JoinRoomFind
<1>6. ASSUME NEW t \in Task, Continue(t) PROVE One
  <2> DEFINE q == task[t].room
  <2>0. /\ task[t].pc = "seat_try" => task[t].todo \subseteq Room
        /\ task[t].pc \in {"join", "leave", "end", "release", "fill_add", "claim", "mark"} => q \in Room
    BY <1>0, TaskFields
  <2>1. CASE SeatTry(t) \/ JoinRoomAdd(t)
    <3>1. UNCHANGED rooms \/ \E r \in Room : TakeSeat(t, r)
      BY <2>0, <2>1 DEF SeatTry, JoinRoomAdd
    <3>2. QED BY <1>2, <1>3, <3>1
  <2>2. CASE SeatOpen(t) \/ CreateRoomOpen(t)
    BY <1>2, <1>4, <2>2, Zenon DEF SeatOpen, CreateRoomOpen
  <2>3. CASE LeaveRemove(t)
    <3>1. q \in Room
      BY <2>0, <2>3 DEF LeaveRemove
    <3>2. QED BY <1>1, <1>2, <2>3, <3>1, Zenon DEF LeaveRemove
  <2>4. CASE EndClose(t)
    <3>1. q \in Room /\ (UNCHANGED rooms \/ rooms' = [rooms EXCEPT ![q].status = "CLOSED"])
      BY <2>0, <2>4 DEF EndClose
    <3>2. QED BY <1>0, <1>2, <3>1
  <2>5. CASE FillLook(t)
    BY <1>2, <2>5 DEF FillLook
  <2>6. CASE FillAdd(t)
    <3>1. q \in Room
      BY <2>0, <2>6 DEF FillAdd
    <3>2. QED BY <1>1, <1>2, <2>6, <3>1, Zenon DEF FillAdd
  <2>7. CASE Claim(t)
    <3>1. q \in Room /\ (UNCHANGED rooms \/ rooms' = [rooms EXCEPT ![q].status = "IN_GAME"])
      BY <2>0, <2>7 DEF Claim
    <3>2. QED BY <1>0, <1>2, <3>1
  <2>8. CASE Mark(t)
    <3>1. /\ q \in Room
          /\ \/ UNCHANGED rooms
             \/ rooms' = [rooms EXCEPT ![q].status = "IN_GAME", ![q].match = task[t].players]
      BY <2>0, <2>8 DEF Mark
    <3>2. QED BY <1>0, <1>2, <3>1
  <2>9. CASE Release(t)
    <3>1. q \in Room /\ (UNCHANGED rooms \/ rooms' = [rooms EXCEPT ![q].status = "OPEN"])
      BY <2>0, <2>9 DEF Release
    <3>2. QED BY <1>0, <1>2, <3>1
  <2>10. QED
    BY <1>6, <2>1, <2>2, <2>3, <2>4, <2>5, <2>6, <2>7, <2>8, <2>9 DEF Continue
<1>7. ASSUME NEW q \in Room, GameWon(q) PROVE One
  BY <1>0, <1>7 DEF GameWon
<1>8. ASSUME NEW q \in Room, NEW u, AbandonsGame(q, u) PROVE One
  BY <1>1, <1>8, Zenon DEF AbandonsGame
<1>9. CASE Pair
  <2>1. CASE (\E a, b \in User : PairStart(a, b)) \/ PairLeave
    BY <1>2, <2>1 DEF PairStart, PairLeave
  <2>2. CASE PairAbandon
    BY <1>2, <1>8, <2>2 DEF PairAbandon
  <2>3. CASE PairRemove
    BY <1>1, <1>2, <2>3, PairRemoveShape, Zenon
  <2>4. CASE PairOpen
    BY <1>1, <1>2, <2>4, PairOpenShape, Zenon
  <2>5. QED BY <1>9, <2>1, <2>2, <2>3, <2>4 DEF Pair
<1>10. QED BY <1>2, <1>5, <1>6, <1>7, <1>8, <1>9 DEF Next, GameLeft

LEMMA RowsStayGood ==
  ASSUME RowsGood, TasksGood, [Next]_vars
  PROVE  RowsGood'
<1>1. CASE UNCHANGED vars
  BY <1>1 DEF vars, RowsGood
<1>2. CASE Next
  <2>1. ASSUME NEW r \in Room PROVE GoodRow(rooms'[r])
    BY <1>2, RowMoves, RowMoveIsGood DEF RowsGood
  <2>2. \A r \in Room : rooms'[r] \in RoomRow
    BY <2>1 DEF GoodRow
  <2>3. rooms' \in [Room -> RoomRow]
    BY <1>2, <2>2, OneRowMoves DEF RowsGood, TasksGood
  <2>4. QED BY <2>1, <2>3 DEF RowsGood
<1>3. QED BY <1>1, <1>2

-----------------------------------------------------------------------------
(* What a task may become.                                                 *)

GoodTask(t, next) ==
  /\ next \in TaskRecord
  /\ GoodPlace(t, next)
  /\ GoodPair(next)
  /\ next.pc \in {"claim", "mark"} => next.players # {}

\* A task that may be anywhere but at the bridge's work, and one that may start a match.
AtQueue(t) == t \in Task /\ t[2] = "queue"

MayClaim(t) == t = Bridge \/ AtQueue(t)

LEMMA QueueIsGood ==
  ASSUME NEW t, NEW next \in TaskRecord, next.pc \notin {"pair", "pair_leave"},
         AtQueue(t) \/ (t = Bridge /\ next.pc \in OfBridge)
                    \/ (t \in Task \ {Bridge} /\ next.pc = "leave"),
         next.pc \in {"claim", "mark"} => next.players # {}
  PROVE  GoodTask(t, next)
<1>1. AtQueue(t) => t # Bridge
  BY DEF AtQueue, Bridge
<1>2. QED BY <1>1 DEF GoodTask, GoodPlace, GoodPair, AtQueue

LEMMA IdleIsGood == \A t \in Task : GoodTask(t, Idle)
BY DEF GoodTask, GoodPlace, GoodPair, TaskRecord, Idle

LEMMA UnstartedIsGood ==
  ASSUME NEW t \in Task, task[t].room \in Room
  PROVE  GoodTask(t, Unstarted(t)) /\ Unstarted(t).pc \in {"idle", "end"}
<1>1. CASE t = Bridge
  <2>1. /\ Unstarted(t) = [pc |-> "end", room |-> task[t].room]
        /\ [pc |-> "end", room |-> task[t].room] \in TaskRecord
    BY <1>1 DEF Unstarted, TaskRecord
  <2>2. QED BY <1>1, <2>1, QueueIsGood DEF OfBridge
<1>2. CASE t # Bridge
  BY <1>2, IdleIsGood DEF Unstarted, Idle
<1>3. QED BY <1>1, <1>2

LEMMA FullRoom ==
  ASSUME NEW room, GoodRow(room), Full(room)
  PROVE  ToSet(room.players) \in SUBSET Player /\ ToSet(room.players) # {}
<1>1. /\ room.players \in Seq(Player) /\ Len(room.players) \in Nat
      /\ DOMAIN room.players = 1 .. Len(room.players) /\ Len(room.players) >= 2
  BY RoomHasSeats, LenProperties DEF GoodRow, RoomRow, Full
<1>2. \A i \in DOMAIN room.players : room.players[i] \in Player
  BY <1>1, ElementOfSeq
<1>3. 1 \in DOMAIN room.players
  BY <1>1
<1>4. QED BY <1>2, <1>3 DEF ToSet

LEMMA SeatsArePlayers ==
  ASSUME NEW room, GoodRow(room)
  PROVE  ToSet(room.players) \in SUBSET Player
<1>1. \A i \in DOMAIN room.players : room.players[i] \in Player
  BY LenProperties, ElementOfSeq DEF GoodRow, RoomRow
<1>2. QED BY <1>1 DEF ToSet

LEMMA StartIfFullIsGood ==
  ASSUME NEW t \in Task, MayClaim(t), NEW r \in Room, NEW room, GoodRow(room)
  PROVE  GoodTask(t, StartIfFull(r, room)) /\ StartIfFull(r, room).pc \in {"idle", "claim"}
<1>1. CASE room.status = "OPEN" /\ Full(room)
  <2> DEFINE next == [pc |-> "claim", room |-> r, players |-> ToSet(room.players)]
  <2>1. StartIfFull(r, room) = next
    BY <1>1 DEF StartIfFull
  <2>2. next \in TaskRecord /\ next.players # {}
    BY <1>1, FullRoom DEF TaskRecord
  <2> HIDE DEF next
  <2>3. next.pc = "claim"
    BY DEF next
  <2>4. QED BY <2>1, <2>2, <2>3, QueueIsGood DEF MayClaim, OfBridge
<1>2. CASE ~(room.status = "OPEN" /\ Full(room))
  <2>1. StartIfFull(r, room) = Idle
    BY <1>2 DEF StartIfFull
  <2>2. QED BY <2>1, IdleIsGood DEF Idle
<1>3. QED BY <1>1, <1>2

LEMMA FillingIsGood ==
  ASSUME NEW t \in Task, AtQueue(t), NEW r \in Room, NEW room, GoodRow(room),
         NEW bots \in SUBSET Bot
  PROVE  /\ GoodTask(t, Filling(r, room, bots))
         /\ Filling(r, room, bots).pc \in {"idle", "claim", "fill_look"}
<1>1. CASE Full(room)
  BY <1>1, StartIfFullIsGood DEF Filling, MayClaim
<1>2. CASE ~Full(room) /\ bots = {}
  BY <1>2, IdleIsGood DEF Filling, Idle
<1>3. CASE ~Full(room) /\ bots # {}
  <2> DEFINE next == [pc |-> "fill_look", room |-> r, players |-> ToSet(room.players), todo |-> bots]
  <2>1. Filling(r, room, bots) = next
    BY <1>3 DEF Filling
  <2>2. next \in TaskRecord
    BY SeatsArePlayers DEF TaskRecord
  <2>3. QED BY <2>1, <2>2, QueueIsGood
<1>4. QED BY <1>1, <1>2, <1>3

\* What task t becomes in a step of its own.
TaskMove(t, next) ==
  /\ Becomes(t, next)
  /\ GoodTask(t, next)
  /\ next.pc \in {"create", "seat_try", "join"} =>
       /\ UNCHANGED rooms
       /\ Seats(t[1]) = {} \/ task[t].pc \in {"create", "seat_try", "join"}
  /\ next.pc \in {"mark", "release"} =>
       /\ next.room = task[t].room
       /\ \/ task[t].pc = "mark"
          \/ /\ rooms[next.room].status = "OPEN"
             /\ rooms' = [rooms EXCEPT ![next.room].status = "IN_GAME"]

LEMMA PlainMove ==
  ASSUME NEW t \in Task, NEW next, Becomes(t, next), GoodTask(t, next),
         next.pc \notin {"create", "seat_try", "join", "mark", "release"}
  PROVE  TaskMove(t, next)
BY DEF TaskMove

LEMMA RequestMoves ==
  ASSUME RowsGood, TasksGood, NEW t \in Task \ {Bridge}, Request(t)
  PROVE  \E next : TaskMove(t, next)
<1>1. \A u : OpenSeats(u) \subseteq Room /\ ActiveSeats(u) \subseteq Room
  BY DEF OpenSeats, ActiveSeats
<1>2. \A r \in Room : GoodRow(rooms[r])
  BY DEF RowsGood
<1>0. /\ t \in Task
      /\ \A u : Seats(u) \subseteq ActiveSeats(u)
      /\ t[2] = "queue" => AtQueue(t) /\ MayClaim(t)
  BY DEF AtQueue, MayClaim, Seats
<1>3. ASSUME NEW r \in Room, t[2] = "queue", Becomes(t, StartIfFull(r, rooms[r]))
      PROVE  \E next : TaskMove(t, next)
  BY <1>0, <1>2, <1>3, StartIfFullIsGood, PlainMove
<1>4. CASE SeatUser(t)
  <2>1. CASE ActiveSeats(t[1]) # {}
    BY <1>1, <1>3, <1>4, <2>1 DEF SeatUser, MayRequest
  <2>2. CASE ActiveSeats(t[1]) = {}
    <3> DEFINE next == [pc |-> "seat_try",
                        todo |-> {r \in Room : rooms[r].status = "OPEN" /\ ~Full(rooms[r])}]
    <3>1. t[2] = "queue" /\ Becomes(t, next) /\ UNCHANGED rooms
      BY <1>4, <2>2 DEF SeatUser, MayRequest
    <3>2. next \in TaskRecord
      BY DEF TaskRecord
    <3>3. GoodTask(t, next)
      BY <1>0, <3>1, <3>2, QueueIsGood
    <3>4. TaskMove(t, next)
      BY <1>0, <2>2, <3>1, <3>3 DEF TaskMove
    <3>5. QED BY <3>4
  <2>3. QED BY <2>1, <2>2
<1>5. CASE CreateRoomFind(t)
  <2>1. CASE ActiveSeats(t[1]) # {}
    BY <1>1, <1>3, <1>5, <2>1 DEF CreateRoomFind, MayRequest
  <2>2. CASE ActiveSeats(t[1]) = {}
    <3> DEFINE next == [pc |-> "create"]
    <3>1. t[2] = "queue" /\ Becomes(t, next) /\ UNCHANGED rooms
      BY <1>5, <2>2 DEF CreateRoomFind, MayRequest
    <3>2. next \in TaskRecord
      BY DEF TaskRecord
    <3>3. GoodTask(t, next)
      BY <1>0, <3>1, <3>2, QueueIsGood
    <3>4. TaskMove(t, next)
      BY <1>0, <2>2, <3>1, <3>3 DEF TaskMove
    <3>5. QED BY <3>4
  <2>3. QED BY <2>1, <2>2
<1>6. CASE LeaveFind(t)
  <2>1. PICK r \in Room : Becomes(t, [pc |-> "leave", room |-> r])
    BY <1>1, <1>6 DEF LeaveFind
  <2>2. [pc |-> "leave", room |-> r] \in TaskRecord
    BY DEF TaskRecord
  <2>3. QED BY <1>0, <2>1, <2>2, PlainMove, QueueIsGood
<1>7. CASE EndFind(t)
  <2>1. PICK r \in Room : Becomes(t, [pc |-> "end", room |-> r])
    BY <1>1, <1>7 DEF EndFind
  <2>2. [pc |-> "end", room |-> r] \in TaskRecord /\ t[2] = "queue"
    BY <1>7 DEF TaskRecord, EndFind, MayRequest
  <2>3. QED BY <1>0, <2>1, <2>2, PlainMove, QueueIsGood
<1>8. CASE FillFind(t)
  <2>1. PICK r \in Room : Becomes(t, Filling(r, rooms[r], Bot))
    BY <1>1, <1>8 DEF FillFind
  <2>2. t[2] = "queue"
    BY <1>8 DEF FillFind, MayRequest
  <2>3. QED BY <1>0, <1>2, <2>1, <2>2, FillingIsGood, PlainMove
<1>9. ASSUME NEW r \in Room, JoinRoomFind(t, r) PROVE \E next : TaskMove(t, next)
  <2> DEFINE next == [pc |-> "join", room |-> r]
  <2>1. t[2] = "queue" /\ Becomes(t, next) /\ UNCHANGED rooms /\ ActiveSeats(t[1]) = {}
    BY <1>9 DEF JoinRoomFind, MayRequest
  <2>2. next \in TaskRecord
    BY DEF TaskRecord
  <2>3. GoodTask(t, next)
    BY <1>0, <2>1, <2>2, QueueIsGood
  <2>4. TaskMove(t, next)
    BY <1>0, <2>1, <2>3 DEF TaskMove
  <2>5. QED BY <2>4
<1>10. QED BY <1>4, <1>5, <1>6, <1>7, <1>8, <1>9 DEF Request

LEMMA ContinueMoves ==
  ASSUME RowsGood, RowsGood', TasksGood, NEW t \in Task, Continue(t)
  PROVE  \E next : TaskMove(t, next)
<1> DEFINE q == task[t].room
           Moves == \E next : TaskMove(t, next)
<1>0. /\ task[t] \in TaskRecord
      /\ task[t].pc = "seat_try" => task[t].todo \in SUBSET Room
      /\ task[t].pc \in {"join", "leave", "end", "release", "fill_look", "fill_add", "claim", "mark"}
           => q \in Room
      /\ task[t].pc \in {"fill_look", "claim", "mark"} => task[t].players \in SUBSET Player
      /\ task[t].pc \in {"fill_look", "fill_add"} => task[t].todo \in SUBSET Bot
      /\ task[t].pc = "fill_add" => task[t].bot \in Bot
  BY TaskFields DEF TasksGood
<1>1. \A r \in Room : GoodRow(rooms[r]) /\ GoodRow(rooms'[r])
  BY DEF RowsGood
<1>2. /\ task[t].pc \in {"create", "seat_try", "join", "fill_look", "fill_add"} => AtQueue(t)
      /\ task[t].pc \in {"claim", "mark", "release", "end"} => MayClaim(t)
  BY Placed DEF AtQueue, MayClaim
<1>3. ASSUME Becomes(t, Idle) PROVE Moves
  BY <1>3, IdleIsGood, PlainMove DEF Idle
<1>13. ASSUME Becomes(t, Unstarted(t)), q \in Room PROVE Moves
  BY <1>13, UnstartedIsGood, PlainMove
<1>4. ASSUME AtQueue(t), NEW r \in Room, TakeSeat(t, r) PROVE Moves
  <2>1. Becomes(t, StartIfFull(r, rooms'[r]))
    BY <1>4 DEF TakeSeat
  <2>2. QED BY <1>1, <1>4, <2>1, StartIfFullIsGood, PlainMove DEF MayClaim
<1>5. CASE SeatTry(t)
  <2>1. task[t].pc = "seat_try" /\ AtQueue(t)
    BY <1>2, <1>5 DEF SeatTry
  <2>2. ASSUME NEW r \in task[t].todo, UNCHANGED rooms,
               Becomes(t, [task[t] EXCEPT !.todo = @ \ {r}])
        PROVE  Moves
    <3> DEFINE next == [task[t] EXCEPT !.todo = @ \ {r}]
    <3>1. next \in TaskRecord /\ next.pc = "seat_try"
      BY <1>0, <2>1 DEF TaskRecord, Idle
    <3>2. GoodTask(t, next)
      BY <2>1, <3>1, QueueIsGood
    <3>3. TaskMove(t, next)
      BY <2>1, <2>2, <3>1, <3>2 DEF TaskMove
    <3>4. QED BY <3>3
  <2>3. task[t].todo \subseteq Room
    BY <1>0, <2>1
  <2>4. QED BY <1>4, <1>5, <2>1, <2>2, <2>3 DEF SeatTry
<1>6. CASE SeatOpen(t) \/ CreateRoomOpen(t) \/ LeaveRemove(t) \/ EndClose(t)
  BY <1>3, <1>6 DEF SeatOpen, CreateRoomOpen, LeaveRemove, EndClose
<1>14. CASE Release(t)
  BY <1>0, <1>13, <1>14 DEF Release
<1>7. CASE JoinRoomAdd(t)
  BY <1>0, <1>2, <1>3, <1>4, <1>7 DEF JoinRoomAdd
<1>8. CASE FillLook(t)
  <2>1. /\ task[t].pc = "fill_look" /\ AtQueue(t) /\ q \in Room
        /\ task[t].players \in SUBSET Player /\ task[t].todo \in SUBSET Bot
    BY <1>0, <1>2, <1>8 DEF FillLook
  <2>2. PICK b \in task[t].todo :
          \/ Becomes(t, [pc |-> "fill_add", room |-> q, bot |-> b, todo |-> task[t].todo \ {b}])
          \/ Becomes(t, Idle)
          \/ Becomes(t, [task[t] EXCEPT !.todo = task[t].todo \ {b}])
    BY <1>8 DEF FillLook
  <2>3. CASE Becomes(t, [pc |-> "fill_add", room |-> q, bot |-> b, todo |-> task[t].todo \ {b}])
    <3>1. [pc |-> "fill_add", room |-> q, bot |-> b, todo |-> task[t].todo \ {b}] \in TaskRecord
      BY <2>1 DEF TaskRecord
    <3>2. QED BY <2>1, <2>3, <3>1, PlainMove, QueueIsGood
  <2>4. CASE Becomes(t, [task[t] EXCEPT !.todo = task[t].todo \ {b}])
    <3> DEFINE next == [task[t] EXCEPT !.todo = task[t].todo \ {b}]
    <3>1. next \in TaskRecord /\ next.pc = "fill_look"
      BY <1>0, <2>1 DEF TaskRecord, Idle
    <3>2. GoodTask(t, next) /\ Becomes(t, next)
      BY <2>1, <2>4, <3>1, QueueIsGood
    <3> HIDE DEF next
    <3>3. QED BY <3>1, <3>2, PlainMove
  <2>5. QED BY <1>3, <2>2, <2>3, <2>4
<1>9. CASE FillAdd(t)
  <2>1. AtQueue(t) /\ q \in Room /\ task[t].todo \in SUBSET Bot
    BY <1>0, <1>2, <1>9 DEF FillAdd
  <2>2. Becomes(t, Idle) \/ Becomes(t, Filling(q, rooms'[q], task[t].todo))
    BY <1>9 DEF FillAdd
  <2>3. QED BY <1>1, <1>3, <2>1, <2>2, FillingIsGood, PlainMove
<1>10. CASE Claim(t)
  <2>1. /\ task[t].pc = "claim" /\ MayClaim(t) /\ q \in Room
        /\ task[t].players \in SUBSET Player /\ task[t].players # {}
    BY <1>0, <1>2, <1>10 DEF Claim, TasksGood, StartsWithPlayers
  <2>2. CASE rooms[q].status = "OPEN"
    <3> DEFINE next == [task[t] EXCEPT !.pc = "mark"]
    <3>1. next \in TaskRecord /\ next.pc = "mark" /\ next.room = q /\ next.players # {}
      BY <1>0, <2>1 DEF TaskRecord, Idle
    <3>2. Becomes(t, next) /\ rooms' = [rooms EXCEPT ![q].status = "IN_GAME"]
      BY <1>10, <2>2 DEF Claim
    <3> HIDE DEF next
    <3>3. GoodTask(t, next)
      BY <2>1, <3>1, QueueIsGood DEF MayClaim, OfBridge
    <3>4. TaskMove(t, next)
      BY <2>2, <3>1, <3>2, <3>3 DEF TaskMove
    <3>5. QED BY <3>4
  <2>3. CASE rooms[q].status # "OPEN"
    BY <1>13, <1>10, <2>1, <2>3 DEF Claim
  <2>4. QED BY <2>2, <2>3
<1>11. CASE Mark(t)
  <2>1. task[t].pc = "mark" /\ MayClaim(t) /\ q \in Room
    BY <1>0, <1>2, <1>11 DEF Mark
  <2> DEFINE next == [pc |-> "release", room |-> q]
  <2>2. next \in TaskRecord
    BY <2>1 DEF TaskRecord
  <2>3. Becomes(t, Idle) \/ Becomes(t, next)
    BY <1>11 DEF Mark
  <2>4. ASSUME Becomes(t, next) PROVE TaskMove(t, next)
    <3>1. GoodTask(t, next)
      BY <2>1, <2>2, QueueIsGood DEF MayClaim, OfBridge
    <3>2. QED BY <2>1, <2>4, <3>1 DEF TaskMove
  <2>5. QED BY <1>3, <2>3, <2>4
<1>12. QED BY <1>5, <1>6, <1>14, <1>7, <1>8, <1>9, <1>10, <1>11 DEF Continue

\* A sweep is one of a game or of a room.
LEMMA SweepsAreSweeps ==
  ASSUME NEW a \in User, NEW b \in User
  PROVE  Sweeps(a, b) \in Seq({"game", "room"} \X User)
BY DEF Sweeps

LEMMA PairingIsGood ==
  ASSUME NEW pair \in User \X User, pair[1] # pair[2], NEW todo \in Seq({"game", "room"} \X User)
  PROVE  GoodTask(Bridge, Pairing(pair, todo)) /\ Pairing(pair, todo).pc = "pair"
<1>1. Pairing(pair, todo) \in TaskRecord
  BY DEF Pairing, TaskRecord
<1>2. QED BY <1>1 DEF Pairing, GoodTask, GoodPlace, GoodPair, OfBridge

LEMMA PairMoves ==
  ASSUME RowsGood, RowsGood', TasksGood, Pair
  PROVE  \E next : TaskMove(Bridge, next)
<1> DEFINE b == task[Bridge]
           Moves == \E next : TaskMove(Bridge, next)
<1>1. b.pc \in {"pair", "pair_leave"} =>
        /\ b.pair \in User \X User /\ b.pair[1] # b.pair[2]
        /\ b.todo \in Seq({"game", "room"} \X User)
        /\ b.todo # <<>> => Tail(b.todo) \in Seq({"game", "room"} \X User)
  BY BridgeFields, HeadTailProperties
<1>2. ASSUME NEW pair \in User \X User, pair[1] # pair[2],
             NEW todo \in Seq({"game", "room"} \X User), Becomes(Bridge, Pairing(pair, todo))
      PROVE  Moves
  BY <1>2, TheBridge, PairingIsGood, PlainMove
<1>3. ASSUME Swept, b.pc \in {"pair", "pair_leave"}, b.todo # <<>> PROVE Moves
  BY <1>1, <1>2, <1>3 DEF Swept
<1>4. ASSUME NEW x \in User, NEW y \in User, PairStart(x, y) PROVE Moves
  <2>1. <<x, y>> \in User \X User /\ <<x, y>>[1] # <<x, y>>[2]
    BY <1>4 DEF PairStart
  <2>2. QED BY <1>2, <1>4, <2>1, SweepsAreSweeps DEF PairStart
<1>5. CASE PairAbandon
  BY <1>3, <1>5 DEF PairAbandon
<1>6. CASE PairLeave
  <2> DEFINE next(r) == [pc |-> "pair_leave", room |-> r, pair |-> b.pair, todo |-> b.todo]
  <2>1. b.pc = "pair" /\ b.todo # <<>>
    BY <1>6 DEF PairLeave
  <2>2. ASSUME NEW r \in Room, Becomes(Bridge, next(r)) PROVE Moves
    <3>1. next(r) \in TaskRecord
      BY <1>1, <2>1 DEF TaskRecord
    <3>2. GoodTask(Bridge, next(r)) /\ next(r).pc = "pair_leave"
      BY <1>1, <2>1, <3>1 DEF GoodTask, GoodPlace, GoodPair, OfBridge
    <3> HIDE DEF next
    <3>3. QED BY <2>2, <3>2, TheBridge, PlainMove
  <2>3. Swept \/ \E r \in Room : Becomes(Bridge, next(r))
    BY <1>6 DEF PairLeave, OpenSeats
  <2>4. QED BY <1>3, <2>1, <2>2, <2>3
<1>7. CASE PairRemove
  <2>1. b.pc = "pair_leave" /\ b.todo # <<>>
    BY <1>7, TheBridge DEF PairRemove, TasksGood, InPlace, GoodPair
  <2>2. Swept \/ Becomes(Bridge, Pairing(b.pair, b.todo))
    BY <1>7 DEF PairRemove
  <2>3. QED BY <1>1, <1>2, <1>3, <2>1, <2>2
<1>8. CASE PairOpen
  <2>1. Becomes(Bridge, Idle) \/ \E r \in Room : Becomes(Bridge, StartIfFull(r, rooms'[r]))
    BY <1>8 DEF PairOpen, FreshRows
  <2>2. \A r \in Room : GoodRow(rooms'[r])
    BY DEF RowsGood
  <2>3. ASSUME Becomes(Bridge, Idle) PROVE Moves
    BY <2>3, TheBridge, IdleIsGood, PlainMove DEF Idle
  <2>4. ASSUME NEW r \in Room, Becomes(Bridge, StartIfFull(r, rooms'[r])) PROVE Moves
    BY <2>2, <2>4, TheBridge, StartIfFullIsGood, PlainMove DEF MayClaim
  <2>5. QED BY <2>1, <2>3, <2>4
<1>9. QED BY <1>4, <1>5, <1>6, <1>7, <1>8 DEF Pair

\* The shape of a step, for the tasks.
LEMMA TaskMoves ==
  ASSUME RowsGood, TasksGood, Next
  PROVE  UNCHANGED task \/ \E t \in Task : \E next : TaskMove(t, next)
<1>1. RowsGood'
  BY RowsStayGood
<1>2. ASSUME NEW q \in Room, GameWon(q) \/ \E u \in User : GameLeft(q, u) PROVE UNCHANGED task
  BY <1>2, Zenon DEF GameWon, GameLeft
<1>3. QED BY <1>1, <1>2, RequestMoves, ContinueMoves, PairMoves, TheBridge DEF Next

LEMMA TasksStayGood ==
  ASSUME RowsGood, TasksGood, [Next]_vars
  PROVE  TasksGood'
<1>1. ASSUME UNCHANGED task PROVE TasksGood'
  BY <1>1 DEF TasksGood, InPlace, StartsWithPlayers
<1>2. ASSUME NEW t \in Task, NEW next, TaskMove(t, next) PROVE TasksGood'
  <2>1. GoodTask(t, next) /\ task' = [task EXCEPT ![t] = next]
    BY <1>2 DEF TaskMove, Becomes
  <2>2. \A o \in Task : task'[o] = IF o = t THEN next ELSE task[o]
    BY <2>1 DEF TasksGood
  <2>3. QED BY <2>1, <2>2 DEF TasksGood, InPlace, StartsWithPlayers, GoodTask
<1>3. QED BY <1>1, <1>2, TaskMoves DEF vars

-----------------------------------------------------------------------------
(* One seat per user, and one task per claimed room.                       *)

Active(room, u) ==
  room.status \in {"OPEN", "IN_GAME"} /\ u \in ToSet(room.players) /\ ~room.paired

\* A user comes by a seat in the lobby only while the user's own queue seats the user.
LEMMA SeatOnRequest ==
  ASSUME NEW r, NEW a, NEW b, GoodRow(a), RowMove(r, a, b), Finishes(r) => Claimed(a),
         NEW u \in User, Active(b, u)
  PROVE  Active(a, u) \/ TakesSeat(u)
<1>1. ASSUME NEW p \in Player, Joinable(a, p), b = WithPlayer(a, p), p \in User => TakesSeat(p)
      PROVE  Active(a, u) \/ TakesSeat(u)
  <2>1. ToSet(b.players) = ToSet(a.players) \cup {p} /\ b.status = a.status
        /\ b.paired = a.paired
    BY <1>1, WithPlayerIsGood
  <2>2. QED BY <1>1, <2>1 DEF Active
<1>2. ASSUME NEW v \in User, b = LobbyRoom(v), TakesSeat(v) PROVE TakesSeat(u)
  BY <1>2, LobbyRoomIsGood DEF Active
<1>8. ASSUME NEW v \in User, NEW w \in User, v # w, b = MatchRoom(v, w) PROVE FALSE
  BY <1>8, MatchRoomIsGood DEF Active
<1>3. ASSUME NEW v \in User, b = Without(a, {v}) PROVE Active(a, u)
  BY <1>3, WithoutIsGood DEF Active
<1>4. ASSUME a.status = "OPEN" \/ a.status = "IN_GAME", NEW to, b = InStatus(a, to)
      PROVE  Active(a, u)
  BY <1>4 DEF Active, InStatus, GoodRow, RoomRow
<1>5. ASSUME NEW S, b = InGame(a, S), Finishes(r) PROVE Active(a, u)
  <2>1. b.players = a.players /\ b.paired = a.paired
    BY <1>5 DEF InGame, GoodRow, RoomRow
  <2>2. a.players # <<>>
    <3>1. a.players \in Seq(Player)
      BY DEF GoodRow, RoomRow
    <3>2. QED BY <2>1, <3>1, EmptyRoom DEF Active
  <2>3. QED BY <1>5, <2>1, <2>2 DEF Active, Claimed
<1>6. ASSUME a.status = "IN_GAME", NEW v, b = Reopened(a, v) PROVE Active(a, u)
  BY <1>6, ReopenedIsGood DEF Active
<1>7. QED BY ZenonT(30), <1>1, <1>2, <1>3, <1>4, <1>5, <1>6, <1>8 DEF RowMove

\* A claim stands for as long as its task is not done with it.
LEMMA ClaimStands ==
  ASSUME NEW r, NEW a, NEW b, GoodRow(a), RowMove(r, a, b), ~Finishes(r), Claimed(a)
  PROVE  Claimed(b)
<1>0. a.status # "OPEN" /\ a.status # "NONE" /\ a.match = {} /\ (a.status # "IN_GAME" => a.players = <<>>)
  BY DEF Claimed
<1>1. ASSUME NEW p \in Player, Joinable(a, p), b = WithPlayer(a, p) PROVE b = a
  BY <1>0, <1>1 DEF Joinable, WithPlayer
<1>2. ASSUME NEW v \in User, b = Without(a, {v}) PROVE Claimed(b)
  <2>1. /\ ToSet(b.players) = ToSet(a.players) \ {v} /\ b.match = a.match /\ GoodRow(b)
        /\ b.status = IF b.players = <<>> THEN "CLOSED" ELSE a.status
    BY <1>2, WithoutIsGood
  <2>2. b.players = <<>> \/ a.players # <<>>
    <3>1. a.players \in Seq(Player) /\ b.players \in Seq(Player)
      BY <2>1 DEF GoodRow, RoomRow
    <3>2. QED BY <2>1, <3>1, EmptyRoom
  <2>3. QED BY <1>0, <2>1, <2>2 DEF Claimed
<1>3. QED BY ZenonT(30), <1>0, <1>1, <1>2 DEF RowMove

LEMMA SeatsStay ==
  ASSUME SeatingInv, RowsGood', TasksGood', [Next]_vars
  PROVE  OnlySeat' /\ SeeksSeat'
<1>1. CASE UNCHANGED vars
  BY <1>1 DEF vars, SeatingInv, OnlySeat, SeeksSeat, Seats, ActiveSeats, Seated
<1>2. CASE Next
  <2>0. \A r \in Room : \A u : r \in Seats(u) <=> Active(rooms[r], u)
    BY DEF Seats, ActiveSeats, Active, Seated
  <2>1. \A r \in Room : \A u : r \in Seats(u)' <=> Active(rooms'[r], u)
    BY DEF Seats, ActiveSeats, Active, Seated
  <2>2. ASSUME NEW u \in User, NEW r \in Seats(u)'
        PROVE  r \in Room /\ (r \in Seats(u) \/ TakesSeat(u))
    <3>1. r \in Room
      BY <2>2 DEF Seats, ActiveSeats
    <3>2. RowMove(r, rooms[r], rooms'[r]) /\ GoodRow(rooms[r])
      BY <1>2, <3>1, RowMoves DEF SeatingInv, RowsGood
    <3>3. Finishes(r) => Claimed(rooms[r])
      BY <3>1 DEF SeatingInv, ClaimsHold, Finishes
    <3>4. Active(rooms'[r], u)
      BY <2>1, <2>2, <3>1
    <3>5. Active(rooms[r], u) \/ TakesSeat(u)
      BY <3>2, <3>3, <3>4, SeatOnRequest
    <3>6. QED BY <2>0, <3>1, <3>5
  <2>3. ASSUME NEW u \in User, TakesSeat(u) PROVE Seats(u) = {}
    <3>1. <<u, "queue">> \in Task
      BY DEF Task
    <3>2. QED BY <2>3, <3>1 DEF TakesSeat, SeatingInv, SeeksSeat
  <2>4. OnlySeat'
    <3> SUFFICES ASSUME NEW u \in User, NEW r \in Seats(u)', NEW s \in Seats(u)'
                 PROVE  r = s
      BY DEF OnlySeat
    <3>1. r \in Room /\ s \in Room
      BY <2>2
    <3>2. CASE TakesSeat(u)
      <4>1. PICK q \in Room : rooms' = [rooms EXCEPT ![q] = rooms'[q]]
        BY <1>2, OneRowMoves DEF SeatingInv, RowsGood, TasksGood
      <4>2. ~Active(rooms[r], u) /\ ~Active(rooms[s], u)
        BY <2>0, <2>3, <3>1, <3>2
      <4>3. Active(rooms'[r], u) /\ Active(rooms'[s], u)
        BY <2>1, <3>1
      <4>4. rooms'[r] # rooms[r] /\ rooms'[s] # rooms[s]
        BY <4>2, <4>3
      <4>5. QED BY <3>1, <4>1, <4>4 DEF SeatingInv, RowsGood
    <3>3. CASE ~TakesSeat(u)
      BY <2>2, <3>3 DEF SeatingInv, OnlySeat
    <3>4. QED BY <3>2, <3>3
  <2>5. SeeksSeat'
    <3> SUFFICES ASSUME NEW t \in Task, task'[t].pc \in {"create", "seat_try", "join"}
                 PROVE  Seats(t[1])' = {}
      BY DEF SeeksSeat
    <3>1. t[1] \in User /\ t = <<t[1], "queue">>
      <4>1. GoodPlace(t, task'[t])
        BY DEF TasksGood, InPlace
      <4>2. t[2] = "queue"
        BY <4>1 DEF GoodPlace, OfBridge
      <4>3. QED BY <4>2, Placed
    <3>2. ~TakesSeat(t[1])
      BY <3>1 DEF TakesSeat
    <3>3. Seats(t[1])' \subseteq Seats(t[1])
      BY <2>2, <3>1, <3>2
    <3>4. Seats(t[1]) = {} \/ task[t].pc \in {"create", "seat_try", "join"}
      <4>1. UNCHANGED task \/ \E o \in Task : \E next : TaskMove(o, next)
        BY <1>2, TaskMoves DEF SeatingInv
      <4>2. ASSUME NEW o \in Task, NEW next, TaskMove(o, next)
            PROVE  Seats(t[1]) = {} \/ task[t].pc \in {"create", "seat_try", "join"}
        <5>1. task'[t] = IF t = o THEN next ELSE task[t]
          BY <4>2 DEF TaskMove, Becomes, SeatingInv, TasksGood
        <5>2. QED BY <4>2, <5>1 DEF TaskMove
      <4>3. QED BY <4>1, <4>2
    <3>5. QED BY <3>3, <3>4 DEF SeatingInv, SeeksSeat
  <2>6. QED BY <2>4, <2>5
<1>3. QED BY <1>1, <1>2

LEMMA ClaimsStay ==
  ASSUME SeatingInv, [Next]_vars
  PROVE  ClaimsHold'
<1>1. CASE UNCHANGED vars
  BY <1>1 DEF vars, SeatingInv, ClaimsHold, Starts
<1>2. CASE Next
  <2> SUFFICES ASSUME NEW t \in Task, NEW r \in Room, Starts(t, r)'
               PROVE  Claimed(rooms'[r]) /\ \A o \in Task : Starts(o, r)' => o = t
    BY DEF ClaimsHold
  <2>1. RowMove(r, rooms[r], rooms'[r]) /\ GoodRow(rooms[r])
    BY <1>2, RowMoves DEF SeatingInv, RowsGood
  \* Whoever starts a match in r now did so before, or has just claimed the open room r.
  <2>2. ASSUME NEW o \in Task, Starts(o, r)', ~Starts(o, r)
        PROVE  /\ rooms[r].status = "OPEN" /\ rooms' = [rooms EXCEPT ![r].status = "IN_GAME"]
               /\ \A x \in Task : x # o => task'[x] = task[x]
    <3>1. UNCHANGED task \/ \E x \in Task : \E next : TaskMove(x, next)
      BY <1>2, TaskMoves DEF SeatingInv
    <3>2. task'[o] # task[o]
      BY <2>2 DEF Starts
    <3>3. PICK x \in Task : \E next : TaskMove(x, next)
      BY <3>1, <3>2
    <3>4. PICK next : TaskMove(x, next)
      BY <3>3
    <3>5. \A y \in Task : task'[y] = IF y = x THEN next ELSE task[y]
      BY <3>4 DEF TaskMove, Becomes, SeatingInv, TasksGood
    <3>6. x = o /\ next.pc \in {"mark", "release"} /\ next.room = r
      BY <2>2, <3>2, <3>5 DEF Starts
    <3>7. task[o].room = r /\ task[o].pc # "mark"
      BY <2>2, <3>4, <3>6 DEF TaskMove, Starts
    <3>8. QED BY <3>4, <3>5, <3>6, <3>7 DEF TaskMove
  <2>3. CASE Starts(t, r)
    <3>1. Claimed(rooms[r]) /\ \A o \in Task : Starts(o, r) => o = t
      BY <2>3 DEF SeatingInv, ClaimsHold
    <3>2. ~Finishes(r)
      BY <3>1 DEF Finishes, Starts
    <3>3. Claimed(rooms'[r])
      BY <2>1, <3>1, <3>2, ClaimStands
    <3>4. \A o \in Task : Starts(o, r)' => o = t
      BY <2>2, <3>1 DEF Claimed
    <3>5. QED BY <3>3, <3>4
  <2>4. CASE ~Starts(t, r)
    <3>1. /\ rooms[r].status = "OPEN" /\ rooms' = [rooms EXCEPT ![r].status = "IN_GAME"]
          /\ \A x \in Task : x # t => task'[x] = task[x]
      BY <2>2, <2>4
    <3>2. Claimed(rooms'[r])
      BY <2>1, <3>1 DEF SeatingInv, RowsGood, GoodRow, RoomRow, OwnerSits, Claimed
    <3>3. ASSUME NEW o \in Task, Starts(o, r)', o # t PROVE FALSE
      <4>1. Starts(o, r)
        BY <3>1, <3>3 DEF Starts
      <4>2. Claimed(rooms[r])
        BY <4>1 DEF SeatingInv, ClaimsHold
      <4>3. QED BY <3>1, <4>2 DEF Claimed
    <3>4. QED BY <3>2, <3>3
  <2>5. QED BY <2>3, <2>4
<1>3. QED BY <1>1, <1>2

-----------------------------------------------------------------------------
(* The theorems.                                                           *)

\* The inductive invariant: every row is well formed and seats its owner, a user has one seat of
\* the lobby at most and none while the user's queue looks for one, and every claim has one task.
THEOREM SeatingInvariant == Spec => []SeatingInv
<1>1. Init => SeatingInv
  <2> SUFFICES ASSUME Init PROVE SeatingInv
    OBVIOUS
  <2>1. RowsGood
    <3>1. <<>> \in Seq(Player) /\ Len(<<>>) = 0 /\ DOMAIN <<>> = {}
      OBVIOUS
    <3>2. IsInjective(<<>>)
      BY <3>1 DEF IsInjective
    <3>3. QED BY <3>1, <3>2, RoomHasSeats DEF Init, RowsGood, GoodRow, RoomRow, OwnerSits
  <2>2. TasksGood
    BY DEF Init, TasksGood, InPlace, GoodPlace, GoodPair, StartsWithPlayers, TaskRecord, Idle
  <2>3. \A u : Seats(u) = {}
    BY DEF Init, Seats, ActiveSeats
  <2>4. OnlySeat
    BY <2>3 DEF OnlySeat
  <2>5. SeeksSeat /\ ClaimsHold
    BY <2>3 DEF Init, SeeksSeat, ClaimsHold, Starts, Idle
  <2>6. QED BY <2>1, <2>2, <2>4, <2>5 DEF SeatingInv
<1>2. SeatingInv /\ [Next]_vars => SeatingInv'
  <2> SUFFICES ASSUME SeatingInv, [Next]_vars PROVE SeatingInv'
    OBVIOUS
  <2>1. RowsGood' /\ TasksGood'
    BY RowsStayGood, TasksStayGood DEF SeatingInv
  <2>2. QED BY <2>1, SeatsStay, ClaimsStay DEF SeatingInv
<1>3. QED BY <1>1, <1>2, PTL DEF Spec

\* Every row and every waiting request keeps its type.
THEOREM SeatingTypes == Spec => []TypeOK
<1>1. SeatingInv => TypeOK
  BY DEF SeatingInv, RowsGood, TasksGood, TypeOK, RoomRow, TaskRecord, Player
<1>2. QED BY <1>1, SeatingInvariant, PTL

\* However seats, bots and leavers race, no room has more players than seats, and nobody sits
\* in a room twice.
THEOREM RoomsKeepTheirCapacity == Spec => []SeatsWithinCapacity
<1>1. SeatingInv => SeatsWithinCapacity
  BY DEF SeatingInv, RowsGood, GoodRow, SeatsWithinCapacity
<1>2. QED BY <1>1, SeatingInvariant, PTL

\* A user is in one open or running room of the lobby at a time, however stale the reads are that
\* the user's requests act on, and whatever the tournament bridge does.
THEOREM UsersHaveOneLobbySeat == Spec => []OneLobbySeat
<1>1. ASSUME NEW S, \A r, s \in S : r = s PROVE Cardinality(S) <= 1
  <2>1. S = {} \/ \E r : S = {r}
    BY <1>1
  <2>2. Cardinality(S) = 0 \/ Cardinality(S) = 1
    BY <2>1, FS_EmptySet, FS_Singleton, Zenon
  <2>3. QED BY <2>2
<1>2. SeatingInv => OneLobbySeat
  BY <1>1 DEF SeatingInv, OnlySeat, Seats, OneLobbySeat
<1>3. QED BY <1>2, SeatingInvariant, PTL

\* The owner of an open room sits in it.
THEOREM OwnersSit == Spec => []OwnerIsSeated
<1>1. SeatingInv => OwnerIsSeated
  BY DEF SeatingInv, RowsGood, GoodRow, OwnerSits, OwnerIsSeated
<1>2. QED BY <1>1, SeatingInvariant, PTL

\* Nobody gets a seat in a room that is in game and stays so.
THEOREM SeatsAreLockedInGame == Spec => NobodyJoinsInGame
<1>1. ASSUME NEW r, NEW a, NEW b, GoodRow(a), RowMove(r, a, b),
             a.status = "IN_GAME", b.status = "IN_GAME"
      PROVE  ToSet(b.players) \subseteq ToSet(a.players)
  <2>1. ASSUME NEW p \in Player, Joinable(a, p), b = WithPlayer(a, p) PROVE b = a
    BY <1>1, <2>1 DEF Joinable, WithPlayer
  <2>2. ASSUME NEW v \in User, b = Without(a, {v}) PROVE ToSet(b.players) \subseteq ToSet(a.players)
    <3>1. ToSet(Without(a, {v}).players) = ToSet(a.players) \ {v}
      BY <1>1, WithoutIsGood
    <3>2. QED BY <2>2, <3>1
  <2>3. ASSUME NEW S, b = InGame(a, S) PROVE b.players = a.players
    BY <1>1, <2>3 DEF InGame, GoodRow, RoomRow
  <2>4. ASSUME NEW to, b = InStatus(a, to) PROVE b.players = a.players
    BY <1>1, <2>4 DEF InStatus, GoodRow, RoomRow
  <2>5. ASSUME NEW v, b = Reopened(a, v) PROVE ToSet(b.players) \subseteq ToSet(a.players)
    BY <1>1, <2>5, ReopenedIsGood
  <2>6. QED BY ZenonT(30), <1>1, <2>1, <2>2, <2>3, <2>4, <2>5 DEF RowMove
<1>2. SeatingInv /\ [Next]_vars
        => [\A r \in Room : rooms[r].status = "IN_GAME" /\ rooms'[r].status = "IN_GAME"
             => \A p \in User \cup Bot : Seated(rooms'[r], p) => Seated(rooms[r], p)]_vars
  <2> SUFFICES ASSUME SeatingInv, Next, NEW r \in Room,
                      rooms[r].status = "IN_GAME", rooms'[r].status = "IN_GAME",
                      NEW p \in User \cup Bot, Seated(rooms'[r], p)
               PROVE  Seated(rooms[r], p)
    OBVIOUS
  <2>1. GoodRow(rooms[r]) /\ RowMove(r, rooms[r], rooms'[r])
    BY RowMoves DEF SeatingInv, RowsGood
  <2>2. ToSet(rooms'[r].players) \subseteq ToSet(rooms[r].players)
    BY <1>1, <2>1
  <2>3. QED BY <2>2 DEF Seated
<1>3. QED BY <1>2, SeatingInvariant, PTL DEF Spec, NobodyJoinsInGame
=============================================================================
