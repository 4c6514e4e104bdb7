--------------------------- MODULE TournamentProofs ---------------------------
(***************************************************************************)
(* Proofs about Tournament.                                                *)
(*                                                                         *)
(* The invariant has a part for the rows (BracketInv) and one for what     *)
(* works on them (TasksInv).  RowMoves reduces the actions to five steps   *)
(* of the rows, and BracketInv is kept by each; it needs of the tasks that *)
(* a winner that is written is one of the two of an undecided match.  The  *)
(* tasks know that since the rows only ever fill in (RowsGoOn) and a game  *)
(* keeps its match and its players (GamesGoOn).                            *)
(*                                                                         *)
(* The bracket has 2^Rounds seats in its first round.  What is used of     *)
(* powers of two comes from the number of subsets of 1..n.                 *)
(***************************************************************************)
EXTENDS Tournament, FiniteSetTheorems, FunctionTheorems, SequenceTheorems,
        WellFoundedInduction, TLAPS

-----------------------------------------------------------------------------
(* Naturals.                                                               *)

\* Every set of naturals has a least element: intervals 1..n are finite sets, and strict
\* inclusion is well founded on these.
LEMMA LeastNatural ==
  ASSUME NEW S \in SUBSET Nat, S # {}
  PROVE  \E n \in S : \A m \in S : n <= m
<1> DEFINE T == {1 .. n : n \in S}
<1>1. IsWellFoundedOn(StrictSubsetOrdering(Nat), FiniteSubsetsOf(Nat))
  BY FS_StrictSubsetOrderingWellFounded
<1>2. T \subseteq FiniteSubsetsOf(Nat)
  <2> SUFFICES ASSUME NEW n \in S PROVE 1 .. n \in FiniteSubsetsOf(Nat)
    OBVIOUS
  <2>1. IsFiniteSet(1 .. n)
    BY FS_Interval
  <2>2. QED BY <2>1 DEF FiniteSubsetsOf
<1>3. T # {}
  OBVIOUS
<1>4. PICK x \in T : \A y \in T : <<y, x>> \notin StrictSubsetOrdering(Nat)
  <2> HIDE DEF T
  <2> QED BY <1>1, <1>2, <1>3, WFMin
<1>5. PICK n \in S : x = 1 .. n
  OBVIOUS
<1>6. ASSUME NEW m \in S, m < n PROVE FALSE
  <2>1. 1 .. m \subseteq 1 .. n /\ 1 .. m # 1 .. n
    BY <1>6
  <2>2. <<1 .. m, 1 .. n>> \in StrictSubsetOrdering(Nat)
    BY <2>1 DEF StrictSubsetOrdering
  <2>3. QED BY <1>4, <1>5, <2>2
<1>7. QED BY <1>6

\* Powers of two, counted as subsets: those of 1..n+1 are those of 1..n, with and without n+1.
LEMMA PowerOfTwo ==
  ASSUME NEW n \in Nat
  PROVE  2 ^ n \in Nat \ {0} /\ 2 ^ (n + 1) = 2 * 2 ^ n
<1> DEFINE S == 1 .. n
           T == 1 .. n + 1
           With == {X \cup {n + 1} : X \in SUBSET S}
<1>1. /\ IsFiniteSet(S) /\ Cardinality(S) = n /\ IsFiniteSet(T) /\ Cardinality(T) = n + 1
  BY FS_Interval
<1>2. /\ IsFiniteSet(SUBSET S) /\ Cardinality(SUBSET S) = 2 ^ n
      /\ IsFiniteSet(SUBSET T) /\ Cardinality(SUBSET T) = 2 ^ (n + 1)
  BY <1>1, FS_SUBSET
<1>3. ExistsBijection(SUBSET S, With)
  <2> DEFINE f == [X \in SUBSET S |-> X \cup {n + 1}]
  <2>1. f \in [SUBSET S -> With]
    OBVIOUS
  <2>2. \A X, Y \in SUBSET S : f[X] = f[Y] => X = Y
    <3>1. n + 1 \notin S
      OBVIOUS
    <3>2. QED BY <3>1
  <2>3. \A Z \in With : \E X \in SUBSET S : f[X] = Z
    OBVIOUS
  <2> HIDE DEF f, With, S
  <2>4. f \in Bijection(SUBSET S, With)
    BY <2>1, <2>2, <2>3 DEF Bijection, Injection, IsInjective, Surjection
  <2>5. QED BY <2>4 DEF ExistsBijection
<1>4. IsFiniteSet(With) /\ Cardinality(With) = 2 ^ n
  BY <1>2, <1>3, FS_Bijection
<1>5. SUBSET T = (SUBSET S) \cup With
  <2>1. T = S \cup {n + 1}
    OBVIOUS
  <2>2. ASSUME NEW X \in SUBSET T PROVE X \in SUBSET S \/ X \in With
    <3>1. CASE n + 1 \notin X
      BY <2>1, <3>1
    <3>2. CASE n + 1 \in X
      <4>1. X \ {n + 1} \in SUBSET S /\ X = (X \ {n + 1}) \cup {n + 1}
        BY <2>1, <3>2
      <4>2. QED BY <4>1
    <3>3. QED BY <3>1, <3>2
  <2>3. SUBSET S \subseteq SUBSET T /\ With \subseteq SUBSET T
    BY <2>1
  <2>4. SUBSET T \subseteq (SUBSET S) \cup With
    <3> HIDE DEF With
    <3> QED BY <2>2
  <2>5. QED BY <2>3, <2>4
<1>6. (SUBSET S) \cap With = {}
  OBVIOUS
<1>7. Cardinality(SUBSET T) = Cardinality(SUBSET S) + Cardinality(With) - Cardinality({})
  BY <1>2, <1>4, <1>5, <1>6, FS_Union
<1>8. Cardinality({}) = 0 /\ Cardinality(SUBSET S) \in Nat /\ Cardinality(SUBSET S) # 0
  <2>1. {} \in SUBSET S
    OBVIOUS
  <2>2. QED BY <1>2, <2>1, FS_EmptySet, FS_CardinalityType
<1>9. QED BY <1>2, <1>4, <1>7, <1>8

LEMMA PowerZero == 2 ^ 0 = 1
<1>1. IsFiniteSet({}) /\ Cardinality({}) = 0
  BY FS_EmptySet
<1>2. Cardinality(SUBSET {}) = 2 ^ 0
  BY <1>1, FS_SUBSET
<1>3. SUBSET {} = {{}}
  OBVIOUS
<1>4. QED BY <1>2, <1>3, FS_Singleton

-----------------------------------------------------------------------------
(* The bracket.                                                            *)

Sides == {"playerAId", "playerBId"}

Final == <<Rounds, 0>>

LEMMA SizeType == size \in Nat \ {0}
BY RoundsAssumption, PowerOfTwo DEF size

LEMMA MatchType ==
  ASSUME NEW m \in Match
  PROVE  /\ m = <<m[1], m[2]>>
         /\ m[1] \in 1 .. Rounds /\ m[2] \in 0 .. size /\ m[2] < 2 ^ (Rounds - m[1])
BY DEF Match

\* The last round is one match.
LEMMA TheFinal == Final \in Match /\ \A m \in Match : IsFinal(m) => m = Final
<1>1. 2 ^ (Rounds - Rounds) = 1
  <2>1. Rounds - Rounds = 0
    BY RoundsAssumption
  <2>2. QED BY <2>1, PowerZero, Zenon
<1>2. Final \in Match
  <2>1. Final[1] = Rounds /\ Final[2] = 0
    BY DEF Final
  <2>2. Final \in (1 .. Rounds) \X (0 .. size)
    BY RoundsAssumption, SizeType DEF Final
  <2>3. Final[2] < 2 ^ (Rounds - Final[1])
    <3>1. 2 ^ (Rounds - Final[1]) = 1
      BY <1>1, <2>1, Zenon
    <3>2. QED BY <2>1, <3>1
  <2>4. QED BY <2>2, <2>3 DEF Match
<1>3. ASSUME NEW m \in Match, IsFinal(m) PROVE m = Final
  <2>1. m[1] = Rounds
    BY <1>3 DEF IsFinal
  <2>2. m[2] < 1 /\ m[2] \in Nat
    <3>1. 2 ^ (Rounds - m[1]) = 1
      BY <1>1, <2>1, Zenon
    <3>2. QED BY <3>1, MatchType, SizeType
  <2>3. m[2] = 0
    BY <2>2
  <2>4. QED BY <2>1, <2>3, MatchType DEF Final
<1>4. QED BY <1>2, <1>3

\* The winner of a match that is not the final has a seat in a match of the next round.
LEMMA NextInBracket ==
  ASSUME NEW m \in Match, ~IsFinal(m)
  PROVE  NextMatch(m) \in Match /\ NextMatch(m)[1] = m[1] + 1 /\ NextMatch(m) # m
<1> DEFINE r == m[1]
           s == m[2]
           k == Rounds - (r + 1)
<1>1. r \in 1 .. Rounds /\ r # Rounds /\ s \in 0 .. size /\ s < 2 ^ (Rounds - r)
  BY MatchType DEF IsFinal
<1>2. k \in Nat /\ Rounds - r = k + 1 /\ r + 1 \in 1 .. Rounds
  BY <1>1, RoundsAssumption
<1>3. 2 ^ k \in Nat \ {0} /\ 2 ^ (k + 1) = 2 * 2 ^ k
  <2> HIDE DEF k
  <2> QED BY <1>2, PowerOfTwo
<1>4. s \div 2 < 2 ^ k /\ s \div 2 \in 0 .. size
  <2>1. ASSUME NEW p \in Nat, s < 2 * p PROVE s \div 2 < p /\ s \div 2 \in 0 .. size
    BY <1>1, <2>1, SizeType
  <2>2. s < 2 * 2 ^ k
    <3> HIDE DEF k
    <3> QED BY <1>1, <1>2, <1>3
  <2> HIDE DEF k, s
  <2>3. QED BY <1>3, <2>1, <2>2
<1>5. NextMatch(m) = <<r + 1, s \div 2>>
  BY DEF NextMatch
<1>6. NextMatch(m)[1] = r + 1 /\ NextMatch(m)[2] = s \div 2
  BY <1>5
<1>7. NextMatch(m) \in Match
  <2> HIDE DEF s, r
  <2> QED BY <1>2, <1>4, <1>5, <1>6 DEF Match
<1>8. QED BY <1>1, <1>6, <1>7

LEMMA SideType ==
  ASSUME NEW m
  PROVE  /\ Side(m) \in Sides
         /\ Side(m) = IF m[2] % 2 = 0 THEN "playerAId" ELSE "playerBId"
BY DEF Side, Sides

\* No two matches feed the same seat.
LEMMA NextInjective ==
  ASSUME NEW m \in Match, NEW n \in Match,
         NextMatch(m) = NextMatch(n), Side(m) = Side(n)
  PROVE  m = n
<1>1. m[1] + 1 = n[1] + 1 /\ m[2] \div 2 = n[2] \div 2
  <2>1. /\ NextMatch(m)[1] = m[1] + 1 /\ NextMatch(m)[2] = m[2] \div 2
        /\ NextMatch(n)[1] = n[1] + 1 /\ NextMatch(n)[2] = n[2] \div 2
    BY DEF NextMatch
  <2>2. QED BY <2>1
<1>2. m[2] \in Nat /\ n[2] \in Nat /\ m[1] \in Nat /\ n[1] \in Nat
  BY MatchType, SizeType, RoundsAssumption
<1>3. m[2] % 2 = n[2] % 2
  <2>1. m[2] % 2 \in {0, 1} /\ n[2] % 2 \in {0, 1}
    BY <1>2
  <2>2. m[2] % 2 = 0 <=> n[2] % 2 = 0
    BY SideType
  <2>3. QED BY <2>1, <2>2
<1>4. m[2] = n[2] /\ m[1] = n[1]
  BY <1>1, <1>2, <1>3
<1>5. QED BY <1>4, MatchType

\* The first round has a seat for each index of the seeds, and the seats are apart.
SeedOf(m, a) == IF a = "playerAId" THEN 2 * m[2] + 1 ELSE 2 * m[2] + 2

LEMMA SeedsAndSeats ==
  /\ \A m \in Match, a \in Sides : m[1] = 1 => SeedOf(m, a) \in 1 .. size
  /\ \A i \in 1 .. size : \E m \in Match, a \in Sides : m[1] = 1 /\ SeedOf(m, a) = i
  /\ \A m, n \in Match, a, b \in Sides :
       m[1] = 1 /\ n[1] = 1 /\ SeedOf(m, a) = SeedOf(n, b) => m = n /\ a = b
<1> DEFINE half == 2 ^ (Rounds - 1)
<1>1. half \in Nat \ {0} /\ size = 2 * half
  <2>1. Rounds - 1 \in Nat /\ (Rounds - 1) + 1 = Rounds
    BY RoundsAssumption
  <2>2. QED BY <2>1, PowerOfTwo DEF size
<1>2. ASSUME NEW m \in Match, m[1] = 1
      PROVE  m[2] \in Nat /\ m[2] < half /\ m = <<1, m[2]>>
  BY <1>2, MatchType, SizeType
<1>3. ASSUME NEW s \in Nat, s < half PROVE <<1, s>> \in Match
  BY <1>1, <1>3, RoundsAssumption DEF Match
<1> HIDE DEF half
<1>4. ASSUME NEW m \in Match, NEW a \in Sides, m[1] = 1 PROVE SeedOf(m, a) \in 1 .. size
  BY <1>1, <1>2, <1>4 DEF SeedOf, Sides
<1>5. ASSUME NEW i \in 1 .. size
      PROVE  \E m \in Match, a \in Sides : m[1] = 1 /\ SeedOf(m, a) = i
  <2> DEFINE s == (i - 1) \div 2
             a == IF (i - 1) % 2 = 0 THEN "playerAId" ELSE "playerBId"
  <2>1. s \in Nat /\ s < half
    BY <1>1
  <2>2. IF (i - 1) % 2 = 0 THEN i = 2 * s + 1 ELSE i = 2 * s + 2
    BY <1>1
  <2>3. SeedOf(<<1, s>>, a) = i
    BY <2>2 DEF SeedOf
  <2>4. a \in Sides
    BY DEF Sides
  <2>5. <<1, s>> \in Match
    <3> HIDE DEF s
    <3> QED BY <1>3, <2>1
  <2> HIDE DEF s, a
  <2>6. QED BY <2>3, <2>4, <2>5
<1>6. ASSUME NEW m \in Match, NEW n \in Match, NEW a \in Sides, NEW b \in Sides,
             m[1] = 1, n[1] = 1, SeedOf(m, a) = SeedOf(n, b)
      PROVE  m = n /\ a = b
  <2>1. m[2] \in Nat /\ n[2] \in Nat /\ m = <<1, m[2]>> /\ n = <<1, n[2]>>
    BY <1>2, <1>6
  <2>2. m[2] = n[2] /\ a = b
    BY <1>6, <2>1 DEF SeedOf, Sides
  <2>3. QED BY <2>1, <2>2
<1>7. QED BY <1>4, <1>5, <1>6

-----------------------------------------------------------------------------
(* The inductive invariant: the rows.                                      *)

Decided(m) == matches[m].winnerId # None

Seated(m) == matches[m].playerAId # None /\ matches[m].playerBId # None

Seats(m) == {matches[m].playerAId, matches[m].playerBId}

\* u sits in a match that is still to be decided.
InPlay(u) == \E m \in Match, a \in Sides : ~Decided(m) /\ matches[m][a] = u

Row == [playerAId : Seat, playerBId : Seat, winnerId : Seat, liveGameId : Game \cup {None}]

RowsTyped ==
  /\ status \in {"OPEN", "RUNNING", "COMPLETED", "CANCELLED"}
  /\ players \subseteq User /\ eliminated \subseteq User
  /\ currentRound \in 0 .. Rounds /\ winnerId \in Seat
  /\ matches \in [Match -> Row]

\* Before the lock nothing is played.
Unlocked ==
  ~Locked => eliminated = {} /\ winnerId = None /\ matches = [m \in Match |-> Unplayed]

RoomForAll == Cardinality(players) <= size

\* The first round is a seating of the entrants.
FirstRound ==
  Locked =>
    /\ \A m \in Match, a \in Sides : m[1] = 1 => matches[m][a] \in players
    /\ \A u \in players : \E m \in Match, a \in Sides : m[1] = 1 /\ matches[m][a] = u
    /\ \A m, n \in Match, a, b \in Sides :
         m[1] = 1 /\ n[1] = 1 /\ matches[m][a] = matches[n][b] => m = n /\ a = b

\* Only a pair is decided, for one of the two.
DecidedSeated ==
  \A m \in Match : Decided(m) => Seated(m) /\ matches[m].winnerId \in Seats(m)

SeatsDiffer == \A m \in Match : Seated(m) => matches[m].playerAId # matches[m].playerBId

\* Nobody has two matches ahead.
OneUndecided ==
  \A m, n \in Match, a, b \in Sides :
    ~Decided(m) /\ ~Decided(n) /\ matches[m][a] # None /\ matches[m][a] = matches[n][b]
      => m = n /\ a = b

Undefeated == \A u \in User : InPlay(u) => u \in players \ eliminated

Accounted == Locked => \A u \in players : u \in eliminated \/ InPlay(u) \/ u = winnerId

Champion == winnerId # None => winnerId \in players \ eliminated /\ ~InPlay(winnerId)

\* The tournament is over with its final.
Decides == winnerId = matches[Final].winnerId /\ (status = "COMPLETED" <=> winnerId # None)

Losers ==
  eliminated = {Loser(m, matches[m].winnerId) : m \in {n \in Match : matches[n].winnerId # None}}

BracketInv ==
  /\ RowsTyped /\ Unlocked /\ RoomForAll /\ FirstRound
  /\ DecidedSeated /\ SeatsDiffer /\ WinnersAdvance
  /\ OneUndecided /\ Undefeated /\ Accounted /\ Champion /\ Decides /\ Losers

-----------------------------------------------------------------------------
(* The steps of the rows.                                                  *)

Enters ==
  /\ status = "OPEN" /\ status' \in {"OPEN", "CANCELLED"}
  /\ players' \subseteq User /\ Cardinality(players') <= size
  /\ UNCHANGED <<eliminated, currentRound, winnerId, matches>>

Locks ==
  /\ status = "OPEN" /\ status' = "RUNNING" /\ currentRound' = 1
  /\ Cardinality(players) = size
  /\ \E seed \in Seedings(players) : matches' = Bracket(seed)
  /\ UNCHANGED <<players, eliminated, winnerId>>

Stamps ==
  /\ \E m \in Match, g \in Game :
       /\ Startable(m) /\ g \in DOMAIN games /\ games[g].match = m /\ Seated(m)
       /\ matches' = [matches EXCEPT ![m].liveGameId = g]
  /\ UNCHANGED <<status, players, eliminated, currentRound, winnerId>>

Wins(m, w) ==
  /\ ~Decided(m) /\ Seated(m) /\ w \in Seats(m) /\ w \in User
  /\ matches[m].liveGameId \in DOMAIN games
  /\ games[matches[m].liveGameId].state # "playing"
  /\ matches' = Promoted(m, w)
  /\ eliminated' = eliminated \cup {Loser(m, w)}
  /\ IF IsFinal(m) THEN status' = "COMPLETED" /\ winnerId' = w
                   ELSE UNCHANGED <<status, winnerId>>
  /\ currentRound' \in 0 .. Rounds
  /\ UNCHANGED players

RowStep ==
  Enters \/ Locks \/ Stamps \/ (\E m \in Match, w \in User : Wins(m, w)) \/ UNCHANGED rows

\* A bracket of seeds: the seats of the first round, and nothing else.
LEMMA BracketRows ==
  ASSUME NEW seed \in Seedings(players), players \subseteq User
  PROVE  /\ Bracket(seed) \in [Match -> Row]
         /\ \A m \in Match :
              /\ Bracket(seed)[m].winnerId = None /\ Bracket(seed)[m].liveGameId = None
              /\ \A a \in Sides :
                   Bracket(seed)[m][a] = IF m[1] = 1 THEN seed[SeedOf(m, a)] ELSE None
<1>1. ASSUME NEW m \in Match
      PROVE  /\ Bracket(seed)[m] \in Row
             /\ Bracket(seed)[m].winnerId = None /\ Bracket(seed)[m].liveGameId = None
             /\ \A a \in Sides :
                  Bracket(seed)[m][a] = IF m[1] = 1 THEN seed[SeedOf(m, a)] ELSE None
  <2>1. Unplayed \in Row
    BY DEF Unplayed, Row, Seat
  <2>2. CASE m[1] = 1
    <3>1. Bracket(seed)[m] = [Unplayed EXCEPT !.playerAId = seed[2 * m[2] + 1],
                                              !.playerBId = seed[2 * m[2] + 2]]
      BY <2>2 DEF Bracket
    <3>2. seed[2 * m[2] + 1] \in User /\ seed[2 * m[2] + 2] \in User
      <4>1. 2 * m[2] + 1 \in 1 .. size /\ 2 * m[2] + 2 \in 1 .. size
        BY <2>2, SeedsAndSeats DEF SeedOf, Sides
      <4>2. QED BY <4>1 DEF Seedings
    <3>3. Bracket(seed)[m] = [playerAId |-> seed[2 * m[2] + 1], playerBId |-> seed[2 * m[2] + 2],
                              winnerId |-> None, liveGameId |-> None]
      BY <3>1 DEF Unplayed
    <3>4. QED BY <2>2, <3>2, <3>3 DEF Row, Seat, Sides, SeedOf
  <2>3. CASE m[1] # 1
    <3>1. Bracket(seed)[m] = Unplayed
      BY <2>3 DEF Bracket
    <3>2. QED BY <2>1, <2>3, <3>1 DEF Unplayed, Sides
  <2>4. QED BY <2>2, <2>3
<1>2. Bracket(seed) = [m \in Match |-> Bracket(seed)[m]]
  BY DEF Bracket
<1>3. Bracket(seed) \in [Match -> Row]
  BY <1>1, <1>2
<1>4. QED BY <1>1, <1>3

\* As many seeds as entrants, and none twice: every entrant is one.
LEMMA SeedsAreEntrants ==
  ASSUME NEW seed \in Seedings(players), players \subseteq User, Cardinality(players) = size
  PROVE  \A u \in players : \E i \in 1 .. size : seed[i] = u
<1>1. seed \in Injection(1 .. size, players)
  BY DEF Seedings, Injection, IsInjective
<1>2. IsFiniteSet(players)
  BY UserAssumption, FS_Subset
<1>3. Cardinality(1 .. size) = size
  BY SizeType, FS_Interval
<1>4. seed \in Surjection(1 .. size, players)
  BY <1>1, <1>2, <1>3, FS_Injection
<1>5. QED BY <1>4 DEF Surjection

\* A win: the match is decided, its winner takes the seat it feeds, which was free, and no
\* other seat, winner or stamp changes.
Promotion(m, w) ==
  /\ matches' \in [Match -> Row]
  /\ \A n \in Match : matches'[n].liveGameId = matches[n].liveGameId
  /\ \A n \in Match : matches'[n].winnerId = IF n = m THEN w ELSE matches[n].winnerId
  /\ \A n \in Match, a \in Sides :
       matches'[n][a] = IF ~IsFinal(m) /\ n = NextMatch(m) /\ a = Side(m)
                        THEN w ELSE matches[n][a]
  /\ ~IsFinal(m) => /\ NextMatch(m) \in Match /\ NextMatch(m) # m /\ ~Decided(NextMatch(m))
                    /\ matches[NextMatch(m)][Side(m)] = None

LEMMA PromotedRows ==
  ASSUME RowsTyped, WinnersAdvance, DecidedSeated, NEW m \in Match, NEW w \in User,
         ~Decided(m), matches' = Promoted(m, w)
  PROVE  Promotion(m, w)
<1> DEFINE recorded == [matches EXCEPT ![m] = [matches[m] EXCEPT !.winnerId = w]]
<1>1. matches \in [Match -> Row]
  BY DEF RowsTyped
<1>2. recorded \in [Match -> Row]
  BY <1>1 DEF Row, Seat
<1>3. /\ \A n \in Match : recorded[n].liveGameId = matches[n].liveGameId
      /\ \A n \in Match : recorded[n].winnerId = IF n = m THEN w ELSE matches[n].winnerId
      /\ \A n \in Match, a \in Sides : recorded[n][a] = matches[n][a]
  BY <1>1 DEF Row, Sides
<1>4. CASE IsFinal(m)
  <2>1. matches' = recorded
    BY <1>4 DEF Promoted
  <2> HIDE DEF recorded
  <2>2. QED BY <1>2, <1>3, <1>4, <2>1 DEF Promotion
<1>5. CASE ~IsFinal(m)
  <2> DEFINE n1 == NextMatch(m)
             a1 == Side(m)
  <2>1. n1 \in Match /\ n1 # m
    BY <1>5, NextInBracket
  <2>2. a1 \in Sides
    BY SideType
  <2>3. matches[n1][a1] = None
    BY <1>5, SideType DEF WinnersAdvance, Decided
  <2>4. ~Decided(n1)
    BY <2>1, <2>2, <2>3 DEF DecidedSeated, Seated, Sides
  <2>5. matches' = [recorded EXCEPT ![n1] = [recorded[n1] EXCEPT ![a1] = w]]
    BY <1>5, <2>3 DEF Promoted
  <2> HIDE DEF recorded, n1, a1
  <2>6. [recorded[n1] EXCEPT ![a1] = w] \in Row
    BY <1>2, <2>1, <2>2 DEF Row, Seat, Sides
  <2>7. matches' \in [Match -> Row]
    BY <1>2, <2>1, <2>5, <2>6
  <2>8. /\ \A n \in Match : n # n1 => matches'[n] = recorded[n]
        /\ matches'[n1] = [recorded[n1] EXCEPT ![a1] = w]
    BY <1>2, <2>1, <2>5
  <2>9. /\ matches'[n1].winnerId = recorded[n1].winnerId
        /\ matches'[n1].liveGameId = recorded[n1].liveGameId
        /\ \A a \in Sides : matches'[n1][a] = IF a = a1 THEN w ELSE recorded[n1][a]
    BY <1>2, <2>1, <2>2, <2>8 DEF Row, Sides
  <2>10. ASSUME NEW n \in Match
         PROVE  /\ matches'[n].liveGameId = matches[n].liveGameId
                /\ matches'[n].winnerId = IF n = m THEN w ELSE matches[n].winnerId
                /\ \A a \in Sides : matches'[n][a] = IF n = n1 /\ a = a1
                                                     THEN w ELSE matches[n][a]
    <3>1. CASE n = n1
      BY <1>3, <2>1, <2>9, <3>1
    <3>2. CASE n # n1
      BY <1>3, <2>8, <3>2
    <3>3. QED BY <3>1, <3>2
  <2>11. QED BY <1>5, <2>1, <2>3, <2>4, <2>7, <2>10 DEF Promotion, n1, a1
<1>6. QED BY <1>4, <1>5

-----------------------------------------------------------------------------
(* The rows keep their invariant.                                          *)

LEMMA SeatTypes ==
  ASSUME RowsTyped, NEW m \in Match, NEW a \in Sides
  PROVE  matches[m][a] \in Seat
BY DEF RowsTyped, Row, Sides

LEMMA BracketInit ==
  ASSUME Init
  PROVE  BracketInv
<1>1. \A m \in Match : /\ matches[m] = Unplayed /\ ~Decided(m)
                       /\ \A a \in Sides : matches[m][a] = None
  BY DEF Init, Decided, Unplayed, Sides
<1>2. RowsTyped
  <2>1. Unplayed \in Row
    BY DEF Unplayed, Row, Seat
  <2>2. 0 \in 0 .. Rounds /\ {Creator} \subseteq User
    BY RoundsAssumption, UserAssumption
  <2>3. QED BY <2>1, <2>2 DEF Init, RowsTyped, Seat
<1>3. RoomForAll
  <2>1. Cardinality({Creator}) = 1
    BY FS_Singleton
  <2>2. players = {Creator}
    BY DEF Init
  <2>3. QED BY <2>1, <2>2, SizeType DEF RoomForAll
<1>4. Unlocked /\ FirstRound /\ Accounted /\ Champion
  BY DEF Init, Unlocked, FirstRound, Accounted, Champion, Locked
<1>5. DecidedSeated /\ SeatsDiffer /\ OneUndecided
  BY <1>1 DEF DecidedSeated, SeatsDiffer, OneUndecided, Seated, Sides
<1>6. Undefeated
  BY <1>1, UserAssumption DEF Undefeated, InPlay
<1>7. WinnersAdvance
  <2> SUFFICES ASSUME NEW m \in Match, ~IsFinal(m)
               PROVE  matches[m].winnerId = matches[NextMatch(m)][Side(m)]
    BY SideType DEF WinnersAdvance
  <2>1. QED BY <1>1, NextInBracket, SideType DEF Decided
<1>8. Decides
  BY <1>1, TheFinal DEF Decides, Init, Decided
<1>9. Losers
  BY <1>1 DEF Losers, Init, Decided
<1>10. QED BY <1>2, <1>3, <1>4, <1>5, <1>6, <1>7, <1>8, <1>9 DEF BracketInv

\* Without a step of the bracket's own, seats and winners stay as they are.
LEMMA BracketKept ==
  ASSUME BracketInv, matches' \in [Match -> Row],
         \A m \in Match : matches'[m].winnerId = matches[m].winnerId,
         \A m \in Match, a \in Sides : matches'[m][a] = matches[m][a],
         UNCHANGED <<status, players, eliminated, currentRound, winnerId>>,
         Unlocked'
  PROVE  BracketInv'
<1>1. \A m \in Match : Decided(m)' <=> Decided(m)
  BY DEF Decided
<1>2. \A m \in Match : /\ Seated(m)' <=> Seated(m)
                       /\ Seats(m)' = Seats(m)
                       /\ matches'[m].playerAId = matches[m].playerAId
                       /\ matches'[m].playerBId = matches[m].playerBId
  BY DEF Seated, Seats, Sides
<1>3. RowsTyped' /\ RoomForAll'
  BY DEF BracketInv, RowsTyped, RoomForAll
<1>4. FirstRound'
  BY DEF BracketInv, FirstRound, Locked
<1>5. DecidedSeated' /\ SeatsDiffer'
  BY <1>1, <1>2 DEF BracketInv, DecidedSeated, SeatsDiffer
<1>6. OneUndecided'
  BY <1>1 DEF BracketInv, OneUndecided
<1>7. WinnersAdvance'
  <2> SUFFICES ASSUME NEW m \in Match, ~IsFinal(m)
               PROVE  matches'[m].winnerId = matches'[NextMatch(m)][Side(m)]
    BY SideType DEF WinnersAdvance
  <2>1. matches[m].winnerId = matches[NextMatch(m)][Side(m)]
    BY SideType DEF BracketInv, WinnersAdvance
  <2>2. QED BY <2>1, NextInBracket, SideType
<1>8. \A u : InPlay(u)' <=> InPlay(u)
  BY <1>1 DEF InPlay
<1>9. Undefeated' /\ Accounted' /\ Champion'
  BY <1>8 DEF BracketInv, Undefeated, Accounted, Champion, Locked
<1>10. Decides'
  BY TheFinal DEF BracketInv, Decides
<1>11. Losers'
  <2>1. \A m \in Match : Loser(m, matches[m].winnerId)' = Loser(m, matches[m].winnerId)
    BY <1>2 DEF Loser
  <2>2. {n \in Match : matches[n].winnerId # None}' = {n \in Match : matches[n].winnerId # None}
    OBVIOUS
  <2>3. QED BY <2>1, <2>2 DEF BracketInv, Losers
<1>12. QED
  BY <1>3, <1>4, <1>5, <1>6, <1>7, <1>9, <1>10, <1>11 DEF BracketInv

LEMMA EntersKeeps ==
  ASSUME BracketInv, Enters
  PROVE  BracketInv'
<1>1. ~Locked /\ ~Locked'
  BY DEF Enters, Locked
<1>2. Unlocked' /\ RowsTyped' /\ RoomForAll'
  BY <1>1 DEF BracketInv, Unlocked, RowsTyped, RoomForAll, Enters
<1>3. \A m \in Match, a \in Sides : matches[m][a] = None
  BY <1>1 DEF BracketInv, Unlocked, Unplayed, Sides
<1>4. \A u \in User : ~InPlay(u)'
  BY <1>3, UserAssumption DEF InPlay, Enters
<1>5. FirstRound' /\ Accounted' /\ Undefeated'
  BY <1>1, <1>4 DEF FirstRound, Accounted, Undefeated
<1>6. Champion'
  BY <1>1 DEF BracketInv, Unlocked, Champion, Enters
<1>7. DecidedSeated' /\ SeatsDiffer' /\ OneUndecided' /\ WinnersAdvance' /\ Losers'
  BY DEF BracketInv, DecidedSeated, SeatsDiffer, OneUndecided, WinnersAdvance, Losers, Enters,
         Decided, Seated, Seats, Loser
<1>8. Decides'
  BY <1>1 DEF BracketInv, Decides, Enters, Unlocked
<1>9. QED BY <1>2, <1>5, <1>6, <1>7, <1>8 DEF BracketInv

LEMMA LocksKeeps ==
  ASSUME BracketInv, Locks
  PROVE  BracketInv'
<1>1. PICK seed \in Seedings(players) : matches' = Bracket(seed)
  BY DEF Locks
<1>2. ~Locked /\ Locked' /\ players' = players
  BY DEF Locks, Locked
<1>3. players \subseteq User /\ None \notin User
  BY UserAssumption DEF BracketInv, RowsTyped
<1>4. /\ matches' \in [Match -> Row]
      /\ \A m \in Match : matches'[m].winnerId = None
      /\ \A m \in Match, a \in Sides :
           matches'[m][a] = IF m[1] = 1 THEN seed[SeedOf(m, a)] ELSE None
  BY <1>1, <1>3, BracketRows
<1>5. \A m \in Match, a \in Sides : m[1] = 1 => seed[SeedOf(m, a)] \in players
  BY SeedsAndSeats DEF Seedings
<1>6. \A m, n \in Match, a, b \in Sides :
        m[1] = 1 /\ n[1] = 1 /\ seed[SeedOf(m, a)] = seed[SeedOf(n, b)] => m = n /\ a = b
  BY SeedsAndSeats DEF Seedings
<1>7. eliminated' = {} /\ winnerId' = None
  BY <1>2 DEF BracketInv, Unlocked, Locks
<1>8. RowsTyped' /\ RoomForAll' /\ Unlocked'
  <2>1. 1 \in 0 .. Rounds
    BY RoundsAssumption
  <2>2. QED BY <1>2, <1>3, <1>4, <1>7, <2>1
          DEF BracketInv, RowsTyped, RoomForAll, Unlocked, Locks, Seat
<1>9. FirstRound'
  <2>1. \A u \in players : \E i \in 1 .. size : seed[i] = u
    BY <1>3, SeedsAreEntrants DEF Locks
  <2>2. \A u \in players : \E m \in Match, a \in Sides : m[1] = 1 /\ matches'[m][a] = u
    BY <1>4, <2>1, SeedsAndSeats
  <2>3. QED BY <1>2, <1>4, <1>5, <1>6, <2>2 DEF FirstRound
<1>10. \A m \in Match : ~Decided(m)'
  BY <1>4 DEF Decided
<1>11. DecidedSeated' /\ Losers'
  BY <1>4, <1>7, <1>10 DEF DecidedSeated, Losers
<1>12. OneUndecided'
  <2> SUFFICES ASSUME NEW m \in Match, NEW n \in Match, NEW a \in Sides, NEW b \in Sides,
                      matches'[m][a] # None, matches'[m][a] = matches'[n][b]
               PROVE  m = n /\ a = b
    BY DEF OneUndecided
  <2>1. m[1] = 1 /\ n[1] = 1
    BY <1>4
  <2>2. QED BY <1>4, <1>6, <2>1
<1>13. SeatsDiffer'
  BY <1>10, <1>12 DEF SeatsDiffer, OneUndecided, Seated, Sides
<1>14. WinnersAdvance'
  <2> SUFFICES ASSUME NEW m \in Match, ~IsFinal(m)
               PROVE  matches'[m].winnerId = matches'[NextMatch(m)][Side(m)]
    BY SideType DEF WinnersAdvance
  <2>1. NextMatch(m) \in Match /\ NextMatch(m)[1] # 1
    BY NextInBracket, MatchType, RoundsAssumption
  <2>2. QED BY <1>4, <2>1, SideType
<1>15. \A u \in User : InPlay(u)' <=> u \in players
  <2>1. ASSUME NEW u \in User, InPlay(u)' PROVE u \in players
    BY <1>3, <1>4, <1>5, <2>1 DEF InPlay
  <2>2. ASSUME NEW u \in players PROVE InPlay(u)'
    BY <1>2, <1>9, <1>10 DEF FirstRound, InPlay
  <2>3. QED BY <2>1, <2>2
<1>16. Undefeated' /\ Accounted' /\ Champion'
  BY <1>2, <1>3, <1>7, <1>15 DEF Undefeated, Accounted, Champion
<1>17. Decides'
  BY <1>4, <1>7, TheFinal DEF Decides, Locks
<1>18. QED
  BY <1>8, <1>9, <1>11, <1>12, <1>13, <1>14, <1>16, <1>17 DEF BracketInv

LEMMA WinsKeeps ==
  ASSUME BracketInv, NEW m \in Match, NEW w \in User, Wins(m, w), Locked
  PROVE  BracketInv'
<1> DEFINE n1 == NextMatch(m)
           a1 == Side(m)
           l == Loser(m, w)
           Gains(n, a) == ~IsFinal(m) /\ n = n1 /\ a = a1
<1>1. Promotion(m, w)
  BY PromotedRows DEF BracketInv, Wins
<1>2. None \notin User /\ players \subseteq User
  BY UserAssumption DEF BracketInv, RowsTyped
<1>3. /\ ~Decided(m) /\ Seated(m) /\ w \in Seats(m)
      /\ eliminated' = eliminated \cup {l} /\ players' = players
  BY DEF Wins
<1>4. /\ \A n \in Match : Decided(n)' <=> n = m \/ Decided(n)
      /\ \A n \in Match : matches'[n].winnerId = IF n = m THEN w ELSE matches[n].winnerId
      /\ \A n \in Match, a \in Sides :
           matches'[n][a] = IF Gains(n, a) THEN w ELSE matches[n][a]
  BY <1>1, <1>2 DEF Promotion, Decided
<1>5. a1 \in Sides
  BY SideType
<1>6. ~IsFinal(m) => n1 \in Match /\ n1 # m /\ ~Decided(n1) /\ matches[n1][a1] = None
  BY <1>1 DEF Promotion
<1>7. PICK aw \in Sides, al \in Sides :
        matches[m][aw] = w /\ matches[m][al] = l /\ aw # al
  BY <1>3 DEF Seats, Loser, Sides
<1>8. l # w /\ l # None
  BY <1>3, <1>7 DEF BracketInv, SeatsDiffer, Seated, Seats, Loser
<1>9. l \in User
  BY <1>7, <1>8, SeatTypes DEF BracketInv, Seat
<1>10. \A n \in Match, a \in Sides :
         ~Decided(n) /\ matches[n][a] \in {w, l} => n = m
  <2> SUFFICES ASSUME NEW n \in Match, NEW a \in Sides, ~Decided(n), matches[n][a] \in {w, l}
               PROVE  n = m
    OBVIOUS
  <2>1. \A b \in Sides : matches[m][b] # None /\ matches[m][b] = matches[n][a] => m = n
    BY <1>3 DEF BracketInv, OneUndecided
  <2>2. QED BY <1>2, <1>7, <1>8, <2>1
<1>11. matches' \in [Match -> Row]
  BY <1>1 DEF Promotion
<1>12. Locked' /\ status' \in {"RUNNING", "COMPLETED"}
  BY DEF Wins, Locked
<1> HIDE DEF n1, a1, l
<1>13. RowsTyped'
  <2>1. winnerId' \in Seat /\ currentRound' \in 0 .. Rounds
    BY DEF Wins, BracketInv, RowsTyped, Seat
  <2>2. QED BY <1>2, <1>3, <1>9, <1>11, <1>12, <2>1 DEF BracketInv, RowsTyped
<1>14. Unlocked' /\ RoomForAll'
  BY <1>3, <1>12 DEF Unlocked, BracketInv, RoomForAll
<1>15. FirstRound'
  <2>1. \A n \in Match, a \in Sides : n[1] = 1 => matches'[n][a] = matches[n][a]
    <3> SUFFICES ASSUME NEW n \in Match, NEW a \in Sides, n[1] = 1 PROVE ~Gains(n, a)
      BY <1>4
    <3>1. ~IsFinal(m) => n1[1] # 1
      BY NextInBracket, MatchType, RoundsAssumption DEF n1
    <3>2. QED BY <3>1
  <2>2. QED BY <1>3, <2>1 DEF BracketInv, FirstRound
<1>16. DecidedSeated'
  <2> SUFFICES ASSUME NEW n \in Match, Decided(n)'
               PROVE  Seated(n)' /\ matches'[n].winnerId \in Seats(n)'
    BY DEF DecidedSeated
  <2>1. n = m \/ Decided(n)
    BY <1>4
  <2>2. \A a \in Sides : matches'[n][a] = matches[n][a]
    BY <1>4, <1>6, <2>1
  <2>3. Seated(n) /\ matches'[n].winnerId \in Seats(n)
    BY <1>3, <1>4, <2>1 DEF BracketInv, DecidedSeated
  <2>4. QED BY <2>2, <2>3 DEF Seated, Seats, Sides
<1>17. OneUndecided'
  <2> SUFFICES ASSUME NEW n \in Match, NEW o \in Match, NEW a \in Sides, NEW b \in Sides,
                      ~Decided(n)', ~Decided(o)',
                      matches'[n][a] # None, matches'[n][a] = matches'[o][b]
               PROVE  n = o /\ a = b
    BY DEF OneUndecided
  <2>1. n # m /\ o # m /\ ~Decided(n) /\ ~Decided(o)
    BY <1>4
  <2>2. CASE ~Gains(n, a) /\ ~Gains(o, b)
    BY <1>4, <2>1, <2>2 DEF BracketInv, OneUndecided
  <2>3. ~(Gains(n, a) /\ ~Gains(o, b)) /\ ~(~Gains(n, a) /\ Gains(o, b))
    BY <1>4, <1>10, <2>1
  <2>4. QED BY <2>2, <2>3
<1>18. SeatsDiffer'
  <2> SUFFICES ASSUME NEW n \in Match, Seated(n)'
               PROVE  matches'[n].playerAId # matches'[n].playerBId
    BY DEF SeatsDiffer
  <2>1. CASE Decided(n)'
    <3>1. n = m \/ Decided(n)
      BY <1>4, <2>1
    <3>2. \A a \in Sides : matches'[n][a] = matches[n][a]
      BY <1>4, <1>6, <3>1
    <3>3. QED BY <3>2 DEF BracketInv, SeatsDiffer, Seated, Sides
  <2>2. CASE ~Decided(n)'
    BY <1>17, <2>2 DEF OneUndecided, Seated, Sides
  <2>3. QED BY <2>1, <2>2
<1>19. WinnersAdvance'
  <2> SUFFICES ASSUME NEW n \in Match, ~IsFinal(n)
               PROVE  matches'[n].winnerId = matches'[NextMatch(n)][Side(n)]
    BY SideType DEF WinnersAdvance
  <2>1. NextMatch(n) \in Match /\ Side(n) \in Sides
    BY NextInBracket, SideType
  <2>2. CASE n = m
    BY <1>4, <2>1, <2>2 DEF n1, a1
  <2>3. CASE n # m
    <3>1. matches[n].winnerId = matches[NextMatch(n)][Side(n)]
      BY SideType DEF BracketInv, WinnersAdvance
    <3>2. ~(NextMatch(n) = NextMatch(m) /\ Side(n) = Side(m))
      BY <2>3, NextInjective
    <3>3. QED BY <1>4, <2>1, <2>3, <3>1, <3>2 DEF n1, a1
  <2>4. QED BY <2>2, <2>3
<1>20. ASSUME NEW u \in User
       PROVE  InPlay(u)' <=> (InPlay(u) /\ u \notin {w, l}) \/ (u = w /\ ~IsFinal(m))
  <2>1. CASE u = w /\ ~IsFinal(m)
    <3>1. ~Decided(n1)' /\ matches'[n1][a1] = w /\ n1 \in Match
      BY <1>4, <1>5, <1>6, <2>1
    <3>2. QED BY <1>5, <2>1, <3>1 DEF InPlay
  <2>2. CASE ~(u = w /\ ~IsFinal(m))
    <3>1. \A n \in Match, a \in Sides : matches'[n][a] = u => matches[n][a] = u
      BY <1>4, <2>2
    <3>2. InPlay(u)' => InPlay(u) /\ u \notin {w, l}
      BY <1>4, <1>10, <3>1 DEF InPlay
    <3>3. ASSUME NEW n \in Match, NEW a \in Sides, ~Decided(n), matches[n][a] = u, u \notin {w, l}
          PROVE  ~Decided(n)' /\ matches'[n][a] = u
      <4>1. n # m
        BY <1>7, <3>3 DEF Sides
      <4>2. ~Gains(n, a)
        BY <1>2, <1>6, <3>3
      <4>3. QED BY <1>4, <3>3, <4>1, <4>2
    <3>4. InPlay(u) /\ u \notin {w, l} => InPlay(u)'
      BY <3>3 DEF InPlay
    <3>5. QED BY <2>2, <3>2, <3>4
  <2>3. QED BY <2>1, <2>2
<1>21. InPlay(w) /\ InPlay(l)
  BY <1>3, <1>7 DEF InPlay
<1>22. w \in players \ eliminated /\ l \in players \ eliminated
  BY <1>9, <1>21 DEF BracketInv, Undefeated
<1>23. Undefeated'
  BY <1>3, <1>8, <1>20, <1>22 DEF BracketInv, Undefeated
<1>24. matches'[Final].winnerId = IF IsFinal(m) THEN w ELSE matches[Final].winnerId
  <2>1. Final \in Match /\ (m = Final <=> IsFinal(m))
    BY TheFinal DEF Final, IsFinal
  <2>2. QED BY <1>4, <2>1
<1>25. Decides'
  BY <1>2, <1>24 DEF BracketInv, Decides, Wins
<1>26. Accounted'
  <2> SUFFICES ASSUME NEW u \in players
               PROVE  u \in eliminated' \/ InPlay(u)' \/ u = winnerId'
    BY <1>3 DEF Accounted
  <2>1. u \in eliminated \/ InPlay(u) \/ u = winnerId
    BY DEF BracketInv, Accounted
  <2>2. winnerId # None => ~IsFinal(m)
    BY <1>3, TheFinal DEF BracketInv, Decides, Decided
  <2>3. CASE u = w
    BY <1>2, <1>20, <2>3 DEF Wins
  <2>4. CASE u # w
    BY <1>2, <1>3, <1>20, <2>1, <2>2, <2>4 DEF Wins
  <2>5. QED BY <2>3, <2>4
<1>27. Champion'
  <2>1. CASE IsFinal(m)
    BY <1>3, <1>8, <1>20, <1>22, <2>1 DEF Wins, Champion
  <2>2. CASE ~IsFinal(m)
    <3>1. winnerId' = winnerId
      BY <2>2 DEF Wins
    <3>2. winnerId # None =>
            winnerId \in players \ eliminated /\ ~InPlay(winnerId) /\ winnerId \in User
      BY <1>2 DEF BracketInv, Champion
    <3>3. winnerId # None => winnerId \notin {w, l}
      BY <1>21, <3>2
    <3>4. winnerId # None => ~InPlay(winnerId)'
      BY <1>20, <3>1, <3>2, <3>3
    <3>5. QED BY <1>3, <3>1, <3>2, <3>3, <3>4 DEF Champion
  <2>3. QED BY <2>1, <2>2
<1>28. Losers'
  <2> DEFINE D == {n \in Match : matches[n].winnerId # None}
             Lost(n) == Loser(n, matches[n].winnerId)
  <2>1. D' = D \cup {m} /\ m \notin D
    BY <1>3, <1>4 DEF Decided
  <2>2. ASSUME NEW n \in D PROVE Lost(n)' = Lost(n)
    <3>1. Decided(n) /\ n # m /\ n \in Match
      BY <1>3 DEF Decided
    <3>2. \A a \in Sides : matches'[n][a] = matches[n][a]
      BY <1>4, <1>6, <3>1
    <3>3. QED BY <1>4, <3>1, <3>2 DEF Loser, Sides
  <2>3. Lost(m)' = l
    <3>1. \A a \in Sides : matches'[m][a] = matches[m][a]
      BY <1>4, <1>6
    <3>2. QED BY <1>4, <3>1 DEF Loser, Sides, l
  <2>4. eliminated = {Lost(n) : n \in D}
    BY DEF BracketInv, Losers
  <2> HIDE DEF D, Lost
  <2>5. eliminated' = {Lost(n)' : n \in D'}
    BY <1>3, <2>1, <2>2, <2>3, <2>4
  <2> USE DEF D, Lost
  <2>6. QED BY <2>5 DEF Losers
<1>29. QED
  BY <1>13, <1>14, <1>15, <1>16, <1>17, <1>18, <1>19, <1>23, <1>25, <1>26, <1>27, <1>28
  DEF BracketInv

-----------------------------------------------------------------------------
(* What the rows' invariant says.                                          *)

\* A final that is decided leaves no match undecided: the last undecided round would feed a
\* decided match.
LEMMA FinalIsLast ==
  ASSUME BracketInv, Decided(Final)
  PROVE  \A m \in Match : Decided(m)
<1> DEFINE U == {n \in Match : ~Decided(n)}
           ToGo == {Rounds - n[1] : n \in U}
<1>1. SUFFICES ASSUME U # {} PROVE FALSE
  OBVIOUS
<1>2. ToGo \in SUBSET Nat /\ ToGo # {}
  <2>1. \A n \in Match : Rounds - n[1] \in Nat
    BY MatchType, RoundsAssumption
  <2>2. QED BY <1>1, <2>1
<1>3. PICK k \in ToGo : \A j \in ToGo : k <= j
  <2> HIDE DEF ToGo
  <2>1. QED BY <1>2, LeastNatural
<1>4. PICK m \in U : k = Rounds - m[1]
  OBVIOUS
<1>5. m \in Match /\ ~Decided(m) /\ ~IsFinal(m)
  BY TheFinal
<1>6. NextMatch(m) \in Match /\ NextMatch(m)[1] = m[1] + 1
  BY <1>5, NextInBracket
<1>7. Decided(NextMatch(m))
  <2>1. SUFFICES ASSUME NextMatch(m) \in U PROVE FALSE
    BY <1>6
  <2>2. Rounds - NextMatch(m)[1] \in ToGo
    BY <2>1
  <2>3. m[1] \in Nat
    BY <1>5, MatchType, RoundsAssumption
  <2>4. Rounds - NextMatch(m)[1] < k
    BY <1>4, <1>6, <2>3, RoundsAssumption
  <2>5. k \in Int /\ Rounds - NextMatch(m)[1] \in Int
    BY <1>4, <1>6, <2>3, RoundsAssumption
  <2> HIDE DEF ToGo
  <2>6. QED BY <1>3, <2>2, <2>4, <2>5
<1>8. matches[NextMatch(m)][Side(m)] # None
  BY <1>6, <1>7, SideType DEF BracketInv, DecidedSeated, Seated, Sides
<1>9. matches[m].winnerId # None
  BY <1>5, <1>8, SideType DEF BracketInv, WinnersAdvance
<1>10. QED BY <1>5, <1>9 DEF Decided

LEMMA LastOneStandingHolds ==
  ASSUME BracketInv
  PROVE  LastOneStanding
<1>1. status = "COMPLETED" => players \ eliminated = {winnerId}
  <2> SUFFICES ASSUME status = "COMPLETED" PROVE players \ eliminated = {winnerId}
    OBVIOUS
  <2>1. winnerId # None /\ Decided(Final)
    BY DEF BracketInv, Decides, Decided
  <2>2. winnerId \in players \ eliminated
    BY <2>1 DEF BracketInv, Champion
  <2>3. \A u : ~InPlay(u)
    BY <2>1, FinalIsLast DEF InPlay
  <2>4. \A u \in players : u \in eliminated \/ u = winnerId
    BY <2>3 DEF BracketInv, Accounted, Locked
  <2>5. QED BY <2>2, <2>4
<1>2. QED BY <1>1 DEF LastOneStanding, BracketInv, Losers, Decides

LEMMA BracketSeatsEntrantsHolds ==
  ASSUME BracketInv
  PROVE  BracketSeatsEntrants
<1> SUFFICES ASSUME Locked, NEW u \in User
             PROVE  Cardinality({seat \in Match \X {"playerAId", "playerBId"} :
                                   seat[1][1] = 1 /\ matches[seat[1]][seat[2]] = u})
                      = IF u \in players THEN 1 ELSE 0
  BY DEF BracketSeatsEntrants, BracketInv, RoomForAll
<1> DEFINE Taken == {seat \in Match \X {"playerAId", "playerBId"} :
                       seat[1][1] = 1 /\ matches[seat[1]][seat[2]] = u}
<1>1. CASE u \in players
  <2>1. PICK m \in Match, a \in Sides : m[1] = 1 /\ matches[m][a] = u
    BY <1>1 DEF BracketInv, FirstRound
  <2>2. <<m, a>> \in Taken
    BY <2>1 DEF Sides
  <2>3. ASSUME NEW seat \in Taken PROVE seat = <<m, a>>
    <3>1. /\ seat[1] \in Match /\ seat[2] \in Sides /\ seat = <<seat[1], seat[2]>>
          /\ seat[1][1] = 1 /\ matches[seat[1]][seat[2]] = u
      BY DEF Sides
    <3>2. seat[1] = m /\ seat[2] = a
      BY <2>1, <3>1 DEF BracketInv, FirstRound
    <3>3. QED BY <3>1, <3>2
  <2> HIDE DEF Taken
  <2>4. Taken = {<<m, a>>}
    BY <2>2, <2>3
  <2>5. Cardinality(Taken) = 1
    BY <2>4, FS_Singleton
  <2> USE DEF Taken
  <2>6. QED BY <1>1, <2>5
<1>2. CASE u \notin players
  <2>1. ASSUME NEW seat \in Taken PROVE FALSE
    <3>1. /\ seat[1] \in Match /\ seat[2] \in Sides
          /\ seat[1][1] = 1 /\ matches[seat[1]][seat[2]] = u
      BY DEF Sides
    <3>2. QED BY <1>2, <3>1 DEF BracketInv, FirstRound
  <2> HIDE DEF Taken
  <2>2. Cardinality(Taken) = 0
    BY <2>1, FS_EmptySet
  <2> USE DEF Taken
  <2>3. QED BY <1>2, <2>2
<1>3. QED BY <1>1, <1>2

-----------------------------------------------------------------------------
(* The inductive invariant: the tasks.                                     *)

LiveGame == [match : Match, state : {"playing", "over", "lost"}, players : SUBSET User]

StartTask ==
  {Idle} \cup [pc : {"lock"}, seeded : SUBSET User] \cup [pc : {"announce"}, ready : SUBSET Match]

BridgeTask ==
  {Idle} \cup [pc : {"read"}, todo : SUBSET Match]
         \cup [pc : {"start"}, todo : SUBSET Match, match : Match]
         \cup [pc : {"claim"}, todo : SUBSET Match, match : Match, game : Game]

HookTask ==
  {Idle} \cup [pc : {"find"}, winner : User]
         \cup [pc : {"read"}, winner : User, match : Match, attempt : 0 .. WRITE_ATTEMPTS]
         \cup [pc : {"write"}, winner : User, match : Match, attempt : 0 .. WRITE_ATTEMPTS,
               nextRound : (1 .. Rounds) \cup {None}]
         \cup [pc : {"announce"}, ready : SUBSET Match]

GamesTyped == games \in Seq(LiveGame) /\ Len(games) <= MaxGames

HooksTyped == recording \in [Game -> HookTask]

TasksTyped ==
  /\ starting \in StartTask /\ events \in Seq(SUBSET Match) /\ bridge \in BridgeTask
  /\ GamesTyped /\ HooksTyped /\ restarts \in 0 .. MaxRestarts

LEMMA TypeParts == TypeOK <=> RowsTyped /\ TasksTyped
BY DEF TypeOK, RowsTyped, TasksTyped, Row, LiveGame, StartTask, BridgeTask, HookTask,
       GamesTyped, HooksTyped

LockSize == starting.pc = "lock" => Cardinality(starting.seeded) = size

\* A live game is a full match's.
GamesOfPairs ==
  \A g \in DOMAIN games : Seated(games[g].match) /\ games[g].players = Seats(games[g].match)

\* A stamp names a game of that match.
Hosts ==
  \A m \in Match : matches[m].liveGameId # None =>
    matches[m].liveGameId \in DOMAIN games /\ games[matches[m].liveGameId].match = m

\* A match is decided by the game it is stamped with, which is over.
DecidedOver ==
  \A m \in Match : Decided(m) =>
    matches[m].liveGameId # None /\ games[matches[m].liveGameId].state # "playing"

AllSeated(S) == \A m \in S : Seated(m)

ListsSeated ==
  /\ \A i \in DOMAIN events : AllSeated(events[i])
  /\ bridge # Idle => AllSeated(bridge.todo)
  /\ starting.pc = "announce" => AllSeated(starting.ready)
  /\ \A g \in Game : recording[g].pc = "announce" => AllSeated(recording[g].ready)

\* Only the bridge starts games, and one at a time: the match it has looked at stays free.
MatchIsFree ==
  /\ bridge.pc \in {"start", "claim"} => Startable(bridge.match) /\ Seated(bridge.match)
  /\ bridge.pc = "claim" =>
       bridge.game \in DOMAIN games /\ games[bridge.game].match = bridge.match

\* A hook works for one of the two players of a game that has ended, on the match it is
\* stamped on.
HooksOfGames ==
  \A g \in Game :
    /\ recording[g].pc \in {"find", "read", "write"} =>
         /\ g \in DOMAIN games /\ games[g].state # "playing"
         /\ recording[g].winner \in games[g].players
    /\ recording[g].pc \in {"read", "write"} => matches[recording[g].match].liveGameId = g
    /\ recording[g].pc = "write" => recording[g].attempt < WRITE_ATTEMPTS

TasksInv ==
  /\ TasksTyped /\ LockSize /\ GamesOfPairs /\ Hosts /\ DecidedOver
  /\ ListsSeated /\ MatchIsFree /\ HooksOfGames

TournamentInv == BracketInv /\ TasksInv

-----------------------------------------------------------------------------
(* The steps of the rows are the actions'.                                 *)

LEMMA GamesAreNumbered ==
  ASSUME GamesTyped
  PROVE  /\ DOMAIN games = 1 .. Len(games) /\ Len(games) \in Nat
         /\ DOMAIN games \subseteq Game
         /\ \A g \in DOMAIN games : games[g] \in LiveGame
BY BoundsAssumption DEF GamesTyped, Game

LEMMA StampsAreLocked ==
  ASSUME BracketInv, NEW m \in Match, matches[m].liveGameId # None \/ Seated(m)
  PROVE  Locked
BY DEF BracketInv, Unlocked, Unplayed, Seated

LEMMA JoinEnters ==
  ASSUME BracketInv, NEW u \in User, JoinTournament(u)
  PROVE  Enters
<1>1. IsFiniteSet(players) /\ Cardinality(players) \in Nat
  BY UserAssumption, FS_Subset, FS_CardinalityType DEF BracketInv, RowsTyped
<1>2. Cardinality(players \cup {u}) = Cardinality(players) + 1
  BY <1>1, FS_AddElement DEF JoinTournament, MayJoin
<1>3. Cardinality(players') <= size
  BY <1>1, <1>2, SizeType DEF JoinTournament, MayJoin
<1>4. QED BY <1>3 DEF JoinTournament, MayJoin, Enters, BracketInv, RowsTyped

LEMMA LeaveEnters ==
  ASSUME BracketInv, NEW u \in User, LeaveTournament(u)
  PROVE  Enters
<1>1. IsFiniteSet(players) /\ Cardinality(players) \in Nat
  BY UserAssumption, FS_Subset, FS_CardinalityType DEF BracketInv, RowsTyped
<1>2. Cardinality(players \ {u}) <= Cardinality(players)
  BY <1>1, FS_Subset
<1>3. Cardinality(players \ {u}) \in Nat
  BY <1>1, FS_RemoveElement, FS_CardinalityType
<1>4. Cardinality(players') <= size
  BY <1>1, <1>2, <1>3, SizeType DEF LeaveTournament, BracketInv, RoomForAll
<1>5. QED BY <1>4 DEF LeaveTournament, Enters, BracketInv, RowsTyped

LEMMA StartLocks ==
  ASSUME BracketInv, LockSize, StartLock
  PROVE  Locks \/ UNCHANGED rows
<1>1. CASE MayLock(starting.seeded) /\ \E seed \in Seedings(starting.seeded) : matches' = Bracket(seed)
           /\ status' = "RUNNING" /\ currentRound' = 1
  <2>1. IsFiniteSet(players)
    BY UserAssumption, FS_Subset DEF BracketInv, RowsTyped
  <2>2. starting.seeded = players
    BY <1>1, <2>1, FS_Subset DEF LockSize, MayLock, StartLock
  <2>3. QED BY <1>1, <2>2 DEF Locks, MayLock, StartLock
<1>2. CASE UNCHANGED <<status, currentRound, matches>>
  BY <1>2 DEF StartLock, rows
<1>3. QED BY <1>1, <1>2 DEF StartLock

LEMMA ClaimStamps ==
  ASSUME TournamentInv, BridgeClaim
  PROVE  Stamps \/ UNCHANGED rows
<1>1. /\ bridge.pc = "claim" /\ bridge.match \in Match /\ bridge.game \in Game
      /\ Seated(bridge.match) /\ bridge.game \in DOMAIN games
      /\ games[bridge.game].match = bridge.match
  BY DEF BridgeClaim, TournamentInv, TasksInv, TasksTyped, BridgeTask, Idle, MatchIsFree
<1>2. UNCHANGED <<status, players, eliminated, currentRound, winnerId>>
  BY DEF BridgeClaim
<1>3. \/ Startable(bridge.match) /\ matches' = [matches EXCEPT ![bridge.match].liveGameId = bridge.game]
      \/ UNCHANGED matches
  BY DEF BridgeClaim
<1>4. QED BY <1>1, <1>2, <1>3 DEF Stamps, rows

LEMMA WriteWins ==
  ASSUME TournamentInv, NEW g \in Game, RecordWrite(g)
  PROVE  (\E m \in Match, w \in User : Wins(m, w)) \/ UNCHANGED rows
<1> DEFINE r == recording[g]
<1>1. /\ r.pc = "write" /\ r.match \in Match /\ r.winner \in User
      /\ r.nextRound \in (1 .. Rounds) \cup {None}
  BY DEF RecordWrite, TournamentInv, TasksInv, TasksTyped, HooksTyped, HookTask, Idle
<1>2. /\ g \in DOMAIN games /\ games[g].state # "playing" /\ r.winner \in games[g].players
      /\ matches[r.match].liveGameId = g
  BY <1>1 DEF TournamentInv, TasksInv, HooksOfGames
<1>3. games[g].match = r.match
  BY <1>1, <1>2, BoundsAssumption, UserAssumption DEF TournamentInv, TasksInv, Hosts
<1>4. Seated(r.match) /\ r.winner \in Seats(r.match)
  BY <1>2, <1>3 DEF TournamentInv, TasksInv, GamesOfPairs
<1>5. UNCHANGED players
  BY DEF RecordWrite
<1> HIDE DEF r
<1>6. \/ /\ matches[r.match].winnerId = None
         /\ matches' = Promoted(r.match, r.winner)
         /\ eliminated' = eliminated \cup {Loser(r.match, r.winner)}
         /\ IF IsFinal(r.match)
            THEN status' = "COMPLETED" /\ winnerId' = r.winner /\ UNCHANGED currentRound
            ELSE /\ currentRound' = IF r.nextRound = None THEN currentRound ELSE r.nextRound
                 /\ UNCHANGED <<status, winnerId>>
      \/ UNCHANGED <<matches, eliminated, status, winnerId, currentRound>>
  BY DEF RecordWrite, r
<1>7. CASE UNCHANGED <<matches, eliminated, status, winnerId, currentRound>>
  BY <1>5, <1>7 DEF rows
<1>8. CASE ~UNCHANGED <<matches, eliminated, status, winnerId, currentRound>>
  <2>1. currentRound' \in 0 .. Rounds
    BY <1>1, <1>6, <1>8, RoundsAssumption DEF TournamentInv, BracketInv, RowsTyped
  <2>2. Wins(r.match, r.winner)
    BY <1>1, <1>2, <1>4, <1>5, <1>6, <1>8, <2>1 DEF Wins, Decided
  <2>3. QED BY <1>1, <2>2
<1>9. QED BY <1>7, <1>8

LEMMA RowMoves ==
  ASSUME TournamentInv, Next
  PROVE  \/ Enters \/ Locks \/ UNCHANGED rows
         \/ BridgeClaim /\ Stamps
         \/ \E m \in Match, w \in User : Wins(m, w)
<1>1. CASE SignUp
  <2>1. CASE \E u \in User : JoinTournament(u) \/ LeaveTournament(u)
    BY <2>1, JoinEnters, LeaveEnters DEF TournamentInv
  <2>2. CASE CancelTournament
    BY <2>2 DEF CancelTournament, Enters, TournamentInv, BracketInv, RowsTyped, RoomForAll
  <2>3. CASE StartRead \/ StartAnnounce
    BY <2>3 DEF StartRead, StartAnnounce
  <2>4. CASE StartLock
    BY <2>4, StartLocks DEF TournamentInv, TasksInv
  <2>5. QED BY <1>1, <2>1, <2>2, <2>3, <2>4 DEF SignUp
<1>2. CASE Bridge
  <2>1. CASE BridgeClaim
    BY <2>1, ClaimStamps
  <2>2. CASE BridgeNext \/ BridgeDone \/ BridgeRead \/ BridgeStart
    <3>1. CASE BridgeNext
      BY <3>1 DEF BridgeNext
    <3>2. CASE BridgeDone
      BY <3>2 DEF BridgeDone
    <3>3. CASE BridgeRead
      BY <3>3, Zenon DEF BridgeRead
    <3>4. CASE BridgeStart
      BY <3>4, Zenon DEF BridgeStart
    <3>5. QED BY <2>2, <3>1, <3>2, <3>3, <3>4
  <2>3. QED BY <1>2, <2>1, <2>2 DEF Bridge
<1>3. CASE Restart
  BY <1>3, Zenon DEF Restart
<1>4. ASSUME NEW g \in Game, Record(g)
      PROVE  UNCHANGED rows \/ \E m \in Match, w \in User : Wins(m, w)
  <2>1. CASE RecordFails(g)
    BY <2>1 DEF RecordFails
  <2>2. CASE RecordFind(g)
    BY <2>2, Zenon DEF RecordFind
  <2>3. CASE RecordRead(g)
    BY <2>3, Zenon DEF RecordRead
  <2>4. CASE RecordWrite(g)
    BY <2>4, WriteWins
  <2>5. CASE RecordAnnounce(g)
    BY <2>5 DEF RecordAnnounce
  <2>6. QED BY <1>4, <2>1, <2>2, <2>3, <2>4, <2>5 DEF Record
<1>5. ASSUME NEW g \in Game, NEW w \in User, GameEnds(g, w) PROVE UNCHANGED rows
  BY <1>5 DEF GameEnds
<1>6. QED BY <1>1, <1>2, <1>3, <1>4, <1>5 DEF Next

LEMMA BracketNext ==
  ASSUME TournamentInv, Next
  PROVE  BracketInv'
<1>1. BracketInv
  BY DEF TournamentInv
<1>2. CASE Enters
  BY <1>1, <1>2, EntersKeeps
<1>3. CASE Locks
  BY <1>1, <1>3, LocksKeeps
<1>4. CASE Stamps
  <2>1. PICK m \in Match, g \in Game :
          /\ Seated(m)
          /\ matches' = [matches EXCEPT ![m].liveGameId = g]
    BY <1>4 DEF Stamps
  <2>2. matches \in [Match -> Row]
    BY <1>1 DEF BracketInv, RowsTyped
  <2>3. matches' \in [Match -> Row]
    BY <2>1, <2>2 DEF Row
  <2>4. /\ \A n \in Match : matches'[n].winnerId = matches[n].winnerId
        /\ \A n \in Match, a \in Sides : matches'[n][a] = matches[n][a]
    BY <2>1, <2>2 DEF Row, Sides
  <2>5. Locked
    BY <1>1, <2>1, StampsAreLocked
  <2>6. UNCHANGED <<status, players, eliminated, currentRound, winnerId>>
    BY <1>4 DEF Stamps
  <2>7. Unlocked'
    BY <2>5, <2>6 DEF Unlocked, Locked
  <2>8. QED BY <1>1, <2>3, <2>4, <2>6, <2>7, BracketKept
<1>5. ASSUME NEW m \in Match, NEW w \in User, Wins(m, w) PROVE BracketInv'
  <2>1. Locked
    BY <1>1, <1>5, StampsAreLocked DEF Wins
  <2>2. QED BY <1>1, <1>5, <2>1, WinsKeeps
<1>6. CASE UNCHANGED rows
  <2>1. UNCHANGED <<status, players, eliminated, currentRound, winnerId, matches>>
    BY <1>6 DEF rows
  <2>2. Unlocked'
    BY <1>1, <2>1 DEF BracketInv, Unlocked, Locked
  <2>3. matches' \in [Match -> Row]
    BY <1>1, <2>1 DEF BracketInv, RowsTyped
  <2>4. QED BY <1>1, <2>1, <2>2, <2>3, BracketKept
<1>7. QED BY <1>2, <1>3, <1>4, <1>5, <1>6, RowMoves

\* A seat that is taken, a winner and a stamp stay.
LEMMA RowsGoOn ==
  ASSUME TournamentInv, Next, NEW m \in Match
  PROVE  /\ \A a \in Sides : matches[m][a] # None => matches'[m][a] = matches[m][a]
         /\ matches[m].liveGameId # None => matches'[m].liveGameId = matches[m].liveGameId
         /\ Seated(m) => Seated(m)' /\ Seats(m)' = Seats(m)
<1>1. /\ \A a \in Sides : matches[m][a] # None => matches'[m][a] = matches[m][a]
      /\ matches[m].liveGameId # None => matches'[m].liveGameId = matches[m].liveGameId
  <2>1. matches \in [Match -> Row]
    BY DEF TournamentInv, BracketInv, RowsTyped
  <2>2. CASE Enters \/ UNCHANGED rows
    BY <2>2 DEF Enters, rows
  <2>3. CASE Locks
    <3>1. ~Locked
      BY <2>3 DEF Locks, Locked
    <3>2. matches[m] = Unplayed
      BY <3>1 DEF TournamentInv, BracketInv, Unlocked
    <3>3. QED BY <3>2 DEF Unplayed, Sides
  <2>4. CASE Stamps
    <3>1. PICK n \in Match, g \in Game :
            Startable(n) /\ matches' = [matches EXCEPT ![n].liveGameId = g]
      BY <2>4 DEF Stamps
    <3>2. QED BY <2>1, <3>1 DEF Startable, Row, Sides
  <2>5. ASSUME NEW n \in Match, NEW w \in User, Wins(n, w)
        PROVE  /\ \A a \in Sides : matches[m][a] # None => matches'[m][a] = matches[m][a]
               /\ matches[m].liveGameId # None => matches'[m].liveGameId = matches[m].liveGameId
    <3>1. Promotion(n, w)
      BY <2>5, PromotedRows DEF TournamentInv, BracketInv, Wins
    <3>2. QED BY <3>1 DEF Promotion
  <2>6. QED BY <2>2, <2>3, <2>4, <2>5, RowMoves
<1>2. QED BY <1>1 DEF Seated, Seats, Sides

\* Seated, free, after a step.
SeatedNext(m) == matches'[m].playerAId # None /\ matches'[m].playerBId # None

AllSeatedNext(S) == \A m \in S : SeatedNext(m)

FreeNext(m) == matches'[m].liveGameId = None /\ matches'[m].winnerId = None /\ SeatedNext(m)

LEMMA AllSeatedStays ==
  ASSUME TournamentInv, Next, NEW S \in SUBSET Match, AllSeated(S)
  PROVE  AllSeatedNext(S)
BY RowsGoOn DEF AllSeated, AllSeatedNext, Seated, SeatedNext

\* Whoever is ready is a pair.
LEMMA ReadyMatchesSeated ==
  ASSUME NEW ms
  PROVE  /\ ReadyMatches(ms) \in SUBSET Match
         /\ \A m \in ReadyMatches(ms) : ms[m].playerAId # None /\ ms[m].playerBId # None
BY DEF ReadyMatches

\* A match that is free is only taken by the bridge.
LEMMA StartableStays ==
  ASSUME TournamentInv, Next, ~BridgeClaim, NEW m \in Match, Startable(m)
  PROVE  Startable(m)'
<1>1. CASE Enters \/ UNCHANGED rows
  BY <1>1 DEF Enters, rows, Startable
<1>2. CASE Locks
  <2>1. PICK seed \in Seedings(players) : matches' = Bracket(seed)
    BY <1>2 DEF Locks
  <2>2. QED BY <2>1, BracketRows DEF Startable, TournamentInv, BracketInv, RowsTyped
<1>3. ASSUME NEW n \in Match, NEW w \in User, Wins(n, w) PROVE Startable(m)'
  <2>1. Promotion(n, w)
    BY <1>3, PromotedRows DEF TournamentInv, BracketInv, Wins
  <2>2. matches[n].liveGameId # None
    <3>1. matches[n].liveGameId \in Game
      BY <1>3, GamesAreNumbered DEF Wins, TournamentInv, TasksInv, TasksTyped
    <3>2. QED BY <3>1, UserAssumption
  <2>3. n # m
    BY <2>2 DEF Startable
  <2>4. QED BY <2>1, <2>3 DEF Promotion, Startable
<1>4. QED BY <1>1, <1>2, <1>3, RowMoves

-----------------------------------------------------------------------------
(* The steps of the games.                                                 *)

\* What happens to a stranded game: it is over, with its hook called for one of its players.
LEMMA GivenUp ==
  ASSUME TasksTyped, GamesOfPairs, SeatsDiffer, NEW m \in Match
  PROVE  /\ GiveUp(m).games \in Seq(LiveGame)
         /\ Len(GiveUp(m).games) = Len(games)
         /\ DOMAIN GiveUp(m).games = DOMAIN games
         /\ \A g \in DOMAIN games :
              /\ GiveUp(m).games[g].match = games[g].match
              /\ GiveUp(m).games[g].players = games[g].players
              /\ g \notin Stranded(m) => GiveUp(m).games[g] = games[g]
              /\ games[g].state # "playing" => GiveUp(m).games[g].state # "playing"
         /\ \A g \in Game :
              \/ GiveUp(m).recording[g] = recording[g]
              \/ /\ g \in DOMAIN games /\ GiveUp(m).games[g].state # "playing"
                 /\ \E w \in User : /\ w \in games[g].players
                                    /\ GiveUp(m).recording[g] = [pc |-> "find", winner |-> w]
         /\ GiveUp(m).recording = [g \in Game |-> GiveUp(m).recording[g]]
<1> DEFINE gs == GiveUp(m).games
           rs == GiveUp(m).recording
           survivors(g) == IF matches[m].playerAId \in games[g].players
                           THEN games[g].players \ {matches[m].playerAId}
                           ELSE games[g].players \ {matches[m].playerBId}
<1>1. /\ DOMAIN games = 1 .. Len(games) /\ Len(games) \in Nat
      /\ DOMAIN games \subseteq Game
      /\ \A g \in DOMAIN games : games[g] \in LiveGame
  BY GamesAreNumbered DEF TasksTyped
<1>2. gs = [g \in DOMAIN games |->
              IF g \in Stranded(m) THEN [games[g] EXCEPT !.state = "over"] ELSE games[g]]
  BY DEF GiveUp
<1>3. rs = [g \in Game |-> IF g \in Stranded(m)
                           THEN [pc |-> "find", winner |-> CHOOSE u \in survivors(g) : TRUE]
                           ELSE recording[g]]
  BY DEF GiveUp
<1>4. Stranded(m) \subseteq DOMAIN games
  BY DEF Stranded
<1> HIDE DEF gs, rs
<1>5. ASSUME NEW g \in DOMAIN games
      PROVE  /\ gs[g] \in LiveGame
             /\ gs[g].match = games[g].match /\ gs[g].players = games[g].players
             /\ g \notin Stranded(m) => gs[g] = games[g]
             /\ g \in Stranded(m) => gs[g].state = "over"
  <2>1. games[g] \in LiveGame
    BY <1>1
  <2>2. CASE g \in Stranded(m)
    <3>1. gs[g] = [games[g] EXCEPT !.state = "over"]
      BY <1>2, <2>2
    <3>2. QED BY <2>1, <2>2, <3>1 DEF LiveGame
  <2>3. CASE g \notin Stranded(m)
    <3>1. gs[g] = games[g]
      BY <1>2, <2>3
    <3>2. QED BY <2>1, <2>3, <3>1
  <2>4. QED BY <2>2, <2>3
<1>6. gs \in Seq(LiveGame) /\ DOMAIN gs = DOMAIN games /\ Len(gs) = Len(games)
  <2>1. DOMAIN gs = 1 .. Len(games)
    BY <1>1, <1>2
  <2>2. gs = [g \in 1 .. Len(games) |-> gs[g]]
    BY <1>2, <2>1
  <2>3. gs \in [1 .. Len(games) -> LiveGame]
    BY <1>1, <1>5, <2>2
  <2>4. gs \in Seq(LiveGame)
    BY <1>1, <2>3, SeqDef
  <2>5. QED BY <1>1, <2>1, <2>4, LenProperties
<1>7. ASSUME NEW g \in Stranded(m)
      PROVE  \E w \in User : w \in games[g].players /\ rs[g] = [pc |-> "find", winner |-> w]
  <2>1. games[g].players \subseteq User
    BY <1>1, <1>4 DEF LiveGame
  <2>2. PICK a, b : a # b /\ games[g].players = {a, b}
    <3>1. g \in DOMAIN games /\ games[g].match \in Match
      BY <1>1, <1>4 DEF LiveGame
    <3>2. QED BY <3>1 DEF GamesOfPairs, SeatsDiffer, Seats
  <2>3. survivors(g) # {} /\ survivors(g) \subseteq games[g].players
    BY <2>2
  <2>4. (CHOOSE u \in survivors(g) : TRUE) \in survivors(g)
    <3> HIDE DEF survivors
    <3> QED BY <2>3
  <2>5. rs[g] = [pc |-> "find", winner |-> CHOOSE u \in survivors(g) : TRUE]
    BY <1>1, <1>3, <1>4
  <2> HIDE DEF survivors
  <2>6. QED BY <2>1, <2>3, <2>4, <2>5
<1>8. rs = [g \in Game |-> rs[g]] /\ \A g \in Game : g \notin Stranded(m) => rs[g] = recording[g]
  BY <1>3
<1> HIDE DEF survivors
<1>9. \A g \in DOMAIN games : games[g].state # "playing" => gs[g].state # "playing"
  BY <1>5
<1>10. \A g \in Game : \/ rs[g] = recording[g]
                       \/ /\ g \in DOMAIN games /\ gs[g].state # "playing"
                          /\ \E w \in User : /\ w \in games[g].players
                                             /\ rs[g] = [pc |-> "find", winner |-> w]
  BY <1>4, <1>5, <1>7, <1>8
<1>11. QED BY <1>5, <1>6, <1>8, <1>9, <1>10 DEF gs, rs

\* Games are numbered in the order of their start and go on until they are over.  A new one is
\* the bridge's, of the match it has looked at.
GamesGoOn ==
  /\ \A g \in DOMAIN games :
       /\ g \in DOMAIN games'
       /\ games'[g].match = games[g].match /\ games'[g].players = games[g].players
       /\ games[g].state # "playing" => games'[g].state # "playing"
  /\ \A g \in DOMAIN games' :
       g \in DOMAIN games \/ /\ BridgeStart /\ games'[g].match = bridge.match
                             /\ games'[g].players = Seats(bridge.match)

\* A start's two outcomes.
LEMMA BridgeStarts ==
  ASSUME TournamentInv, BridgeStart
  PROVE  /\ bridge.pc = "start" /\ bridge.match \in Match /\ UNCHANGED matches
         /\ Startable(bridge.match) /\ Seated(bridge.match)
         /\ \/ /\ Len(games) < MaxGames
               /\ games' = Append(GiveUp(bridge.match).games,
                                  [match |-> bridge.match, state |-> "playing",
                                   players |-> Seats(bridge.match)])
               /\ recording' = GiveUp(bridge.match).recording
               /\ bridge' = [pc |-> "claim", todo |-> bridge.todo, match |-> bridge.match,
                             game |-> Len(games')]
            \/ UNCHANGED <<games, recording>> /\ bridge' = [pc |-> "read", todo |-> bridge.todo]
            \/ /\ games' = GiveUp(bridge.match).games
               /\ recording' = GiveUp(bridge.match).recording
               /\ bridge' = [pc |-> "read", todo |-> bridge.todo]
<1>1. bridge.pc = "start" /\ UNCHANGED matches
  BY Zenon DEF BridgeStart, rows
<1>2. bridge.match \in Match /\ Startable(bridge.match) /\ Seated(bridge.match)
  BY <1>1 DEF TournamentInv, TasksInv, TasksTyped, BridgeTask, Idle, MatchIsFree
<1>3. QED BY <1>1, <1>2, Zenon DEF BridgeStart, Seats

LEMMA GamesGoOnIn ==
  ASSUME TournamentInv, Next
  PROVE  GamesTyped' /\ GamesGoOn
<1>1. /\ DOMAIN games = 1 .. Len(games) /\ Len(games) \in Nat
      /\ \A g \in DOMAIN games : games[g] \in LiveGame
      /\ games \in Seq(LiveGame) /\ Len(games) <= MaxGames
  BY GamesAreNumbered DEF TournamentInv, TasksInv, TasksTyped, GamesTyped
<1>2. CASE UNCHANGED games
  BY <1>1, <1>2 DEF GamesTyped, GamesGoOn
<1>3. CASE BridgeStart
  <2> DEFINE m == bridge.match
             gs == GiveUp(m).games
             new == [match |-> m, state |-> "playing", players |-> Seats(m)]
  <2>1. m \in Match /\ Seated(m)
    BY <1>3, BridgeStarts
  <2>2. /\ gs \in Seq(LiveGame) /\ Len(gs) = Len(games) /\ DOMAIN gs = DOMAIN games
        /\ \A g \in DOMAIN games :
             /\ gs[g].match = games[g].match /\ gs[g].players = games[g].players
             /\ games[g].state # "playing" => gs[g].state # "playing"
    BY <2>1, GivenUp DEF TournamentInv, TasksInv, BracketInv
  <2>3. \/ Len(games) < MaxGames /\ games' = Append(gs, new)
        \/ UNCHANGED games
        \/ games' = gs
    BY <1>3, BridgeStarts
  <2>4. new \in LiveGame
    <3>1. Seats(m) \subseteq User
      BY <2>1 DEF TournamentInv, BracketInv, RowsTyped, Row, Seat, Seats, Seated
    <3>2. QED BY <2>1, <3>1 DEF LiveGame
  <2>5. CASE Len(games) < MaxGames /\ games' = Append(gs, new)
    <3> HIDE DEF gs, m
    <3>1. /\ games' \in Seq(LiveGame) /\ Len(games') = Len(games) + 1
          /\ DOMAIN games' = 1 .. Len(games) + 1
          /\ \A g \in 1 .. Len(games) : games'[g] = gs[g]
          /\ games'[Len(games) + 1] = new
      <4> HIDE DEF new
      <4> QED BY <1>1, <2>2, <2>4, <2>5, AppendProperties
    <3>2. GamesTyped'
      BY <1>1, <2>5, <3>1, BoundsAssumption DEF GamesTyped
    <3>3. \A g \in DOMAIN games' : g \in DOMAIN games \/ g = Len(games) + 1
      BY <1>1, <3>1
    <3>4. DOMAIN games \subseteq DOMAIN games'
      BY <1>1, <3>1
    <3>5. QED BY <1>1, <1>3, <2>2, <3>1, <3>2, <3>3, <3>4 DEF GamesGoOn, m
  <2>6. CASE UNCHANGED games
    BY <1>2, <2>6
  <2>7. CASE games' = gs
    <3> HIDE DEF gs, m
    <3>1. GamesTyped'
      BY <1>1, <2>2, <2>7 DEF GamesTyped
    <3>2. QED BY <2>2, <2>7, <3>1 DEF GamesGoOn
  <2>8. QED BY <2>3, <2>5, <2>6, <2>7
<1>4. ASSUME NEW g \in Game, NEW w \in User, GameEnds(g, w) PROVE GamesTyped' /\ GamesGoOn
  <2>1. g \in DOMAIN games /\ games' = [games EXCEPT ![g] = [games[g] EXCEPT !.state = "over"]]
    BY <1>4 DEF GameEnds
  <2>2. [games[g] EXCEPT !.state = "over"] \in LiveGame
    BY <1>1, <2>1 DEF LiveGame
  <2>3. games' \in Seq(LiveGame) /\ Len(games') = Len(games)
    BY <1>1, <2>1, <2>2, ExceptSeq
  <2>4. /\ DOMAIN games' = DOMAIN games
        /\ \A h \in DOMAIN games : h # g => games'[h] = games[h]
        /\ games'[g] = [games[g] EXCEPT !.state = "over"]
    BY <1>1, <2>1
  <2>5. /\ games'[g].match = games[g].match /\ games'[g].players = games[g].players
        /\ games'[g].state = "over"
    BY <1>1, <2>1, <2>4 DEF LiveGame
  <2>6. GamesTyped'
    BY <1>1, <2>3 DEF GamesTyped
  <2>7. \A h \in DOMAIN games :
          /\ games'[h].match = games[h].match /\ games'[h].players = games[h].players
          /\ games[h].state # "playing" => games'[h].state # "playing"
    BY <2>4, <2>5
  <2>8. QED BY <2>4, <2>6, <2>7 DEF GamesGoOn
<1>5. CASE Restart
  <2>1. games' = [g \in DOMAIN games |-> [games[g] EXCEPT !.state = "lost"]]
    BY <1>5 DEF Restart
  <2>2. ASSUME NEW g \in DOMAIN games
        PROVE  /\ games'[g] \in LiveGame
               /\ games'[g].match = games[g].match /\ games'[g].players = games[g].players
               /\ games'[g].state # "playing"
    <3>1. games'[g] = [games[g] EXCEPT !.state = "lost"] /\ games[g] \in LiveGame
      BY <1>1, <2>1
    <3>2. QED BY <3>1 DEF LiveGame
  <2>3. DOMAIN games' = 1 .. Len(games) /\ games' = [g \in 1 .. Len(games) |-> games'[g]]
    BY <1>1, <2>1
  <2>4. games' \in [1 .. Len(games) -> LiveGame]
    BY <1>1, <2>2, <2>3
  <2>5. games' \in Seq(LiveGame)
    BY <1>1, <2>4, SeqDef
  <2>6. Len(games') = Len(games)
    BY <1>1, <2>3, <2>5, LenProperties
  <2>7. GamesTyped'
    BY <1>1, <2>5, <2>6 DEF GamesTyped
  <2>8. QED BY <1>1, <2>2, <2>3, <2>7 DEF GamesGoOn
<1>6. \/ UNCHANGED games \/ BridgeStart \/ Restart
      \/ \E g \in Game, w \in User : GameEnds(g, w)
  <2>1. CASE SignUp
    BY <2>1, ZenonT(30) DEF SignUp, JoinTournament, LeaveTournament, CancelTournament, StartRead, StartLock,
           StartAnnounce
  <2>2. CASE Bridge
    BY <2>2, ZenonT(30) DEF Bridge, BridgeNext, BridgeDone, BridgeRead, BridgeClaim
  <2>3. ASSUME NEW g \in Game, Record(g) PROVE UNCHANGED games
    BY <2>3, ZenonT(30) DEF Record, RecordFails, RecordFind, RecordRead, RecordWrite, RecordAnnounce
  <2>4. QED BY <2>1, <2>2, <2>3 DEF Next
<1>7. QED BY <1>2, <1>3, <1>4, <1>5, <1>6

-----------------------------------------------------------------------------
(* The steps of the hooks.                                                 *)

\* What a step makes of the hook of g.
HookMoves(g) ==
  \/ recording'[g] = recording[g]
  \/ recording'[g] = Idle
  \/ \E w \in User : /\ recording'[g] = [pc |-> "find", winner |-> w]
                     /\ g \in DOMAIN games /\ w \in games[g].players
                     /\ games'[g].state # "playing"
  \/ \E m \in Match : /\ recording[g].pc = "find" /\ matches[m].liveGameId = g
                      /\ recording'[g] = [pc |-> "read", winner |-> recording[g].winner,
                                          match |-> m, attempt |-> 0]
  \/ \E k \in (1 .. Rounds) \cup {None} :
       /\ recording[g].pc = "read" /\ recording[g].attempt # WRITE_ATTEMPTS
       /\ recording'[g] = [pc |-> "write", winner |-> recording[g].winner,
                           match |-> recording[g].match, attempt |-> recording[g].attempt,
                           nextRound |-> k]
  \/ /\ recording[g].pc = "write"
     /\ recording'[g] = [pc |-> "read", winner |-> recording[g].winner,
                         match |-> recording[g].match, attempt |-> recording[g].attempt + 1]
  \/ recording'[g] = [pc |-> "announce", ready |-> ReadyMatches(matches')]

\* A step of g's hook writes recording[g] and no other.
HookIsSet(g) ==
  \E task : recording' = [recording EXCEPT ![g] = task]

LEMMA OneHookMoves ==
  ASSUME HooksTyped, NEW g \in Game, HookIsSet(g), HookMoves(g)
  PROVE  DOMAIN recording' = Game /\ \A h \in Game : HookMoves(h)
<1>1. PICK task : recording' = [recording EXCEPT ![g] = task]
  BY DEF HookIsSet
<1>2. DOMAIN recording = Game
  BY DEF HooksTyped
<1>3. DOMAIN recording' = Game /\ \A h \in Game \ {g} : recording'[h] = recording[h]
  BY <1>1, <1>2
<1>4. \A h \in Game \ {g} : HookMoves(h)
  BY <1>3 DEF HookMoves
<1>5. QED BY <1>3, <1>4

LEMMA RecordMoves ==
  ASSUME TournamentInv, NEW g \in Game, Record(g)
  PROVE  HookIsSet(g) /\ HookMoves(g)
<1> DEFINE r == recording[g]
<1>1. g \in DOMAIN recording /\ r \in HookTask
  BY DEF TournamentInv, TasksInv, TasksTyped, HooksTyped
<1>2. ASSUME NEW task, recording' = [recording EXCEPT ![g] = task]
      PROVE  HookIsSet(g) /\ recording'[g] = task
  BY <1>1, <1>2 DEF HookIsSet
<1>3. CASE RecordFails(g) \/ RecordAnnounce(g)
  <2>1. recording' = [recording EXCEPT ![g] = Idle]
    BY <1>3 DEF RecordFails, RecordAnnounce
  <2>2. QED BY <1>2, <2>1 DEF HookMoves
<1>4. CASE RecordFind(g)
  <2> DEFINE hosts == {m \in Match : matches[m].liveGameId = g}
  <2>1. /\ r.pc = "find"
        /\ recording' = [recording EXCEPT ![g] =
             IF hosts = {} THEN Idle
             ELSE [pc |-> "read", winner |-> r.winner, match |-> CHOOSE m \in hosts : TRUE,
                   attempt |-> 0]]
    BY <1>4 DEF RecordFind
  <2>2. CASE hosts = {}
    <3>1. recording' = [recording EXCEPT ![g] = Idle]
      BY <2>1, <2>2
    <3>2. QED BY <1>2, <3>1 DEF HookMoves
  <2>3. CASE hosts # {}
    <3>1. PICK m \in Match : m = (CHOOSE n \in hosts : TRUE) /\ matches[m].liveGameId = g
      <4>1. (CHOOSE n \in hosts : TRUE) \in hosts
        <5> HIDE DEF hosts
        <5> QED BY <2>3
      <4>2. QED BY <4>1
    <3>2. recording' = [recording EXCEPT ![g] =
                          [pc |-> "read", winner |-> r.winner, match |-> m, attempt |-> 0]]
      <4> HIDE DEF hosts
      <4> QED BY <2>1, <2>3, <3>1
    <3>3. recording'[g] = [pc |-> "read", winner |-> r.winner, match |-> m, attempt |-> 0]
      <4> HIDE DEF r
      <4> QED BY <1>2, <3>2
    <3>4. HookIsSet(g)
      BY <3>2 DEF HookIsSet
    <3>5. r.pc = "find" /\ matches[m].liveGameId = g
      BY <2>1, <3>1
    <3> HIDE DEF hosts
    <3>6. QED BY <3>3, <3>4, <3>5 DEF HookMoves
  <2>4. QED BY <2>2, <2>3
<1>5. CASE RecordRead(g)
  <2> DEFINE next == IF RoundComplete(r.match) /\ ~IsFinal(r.match) THEN r.match[1] + 1 ELSE None
  <2>1. /\ r.pc = "read"
        /\ recording' = [recording EXCEPT ![g] =
             IF matches[r.match].winnerId # None \/ r.attempt = WRITE_ATTEMPTS THEN Idle
             ELSE [pc |-> "write", winner |-> r.winner, match |-> r.match, attempt |-> r.attempt,
                   nextRound |-> next]]
    BY <1>5 DEF RecordRead
  <2>2. CASE matches[r.match].winnerId # None \/ r.attempt = WRITE_ATTEMPTS
    <3>1. recording' = [recording EXCEPT ![g] = Idle]
      BY <2>1, <2>2
    <3>2. QED BY <1>2, <3>1 DEF HookMoves
  <2>3. CASE ~(matches[r.match].winnerId # None \/ r.attempt = WRITE_ATTEMPTS)
    <3>1. r.match \in Match
      BY <1>1, <2>1 DEF HookTask, Idle
    <3>2. next \in (1 .. Rounds) \cup {None}
      BY <3>1, MatchType, RoundsAssumption DEF IsFinal
    <3>3. recording' = [recording EXCEPT ![g] =
                          [pc |-> "write", winner |-> r.winner, match |-> r.match,
                           attempt |-> r.attempt, nextRound |-> next]]
      <4> HIDE DEF next
      <4> QED BY <2>1, <2>3
    <3> HIDE DEF next
    <3>4. QED BY <1>2, <2>1, <2>3, <3>2, <3>3 DEF HookMoves
  <2>4. QED BY <2>2, <2>3
<1>6. CASE RecordWrite(g)
  <2>1. /\ r.pc = "write"
        /\ \/ recording' = [recording EXCEPT ![g] =
                              [pc |-> "announce", ready |-> ReadyMatches(matches')]]
           \/ recording' = [recording EXCEPT ![g] = Idle]
           \/ recording' = [recording EXCEPT ![g] =
                              [pc |-> "read", winner |-> r.winner, match |-> r.match,
                               attempt |-> r.attempt + 1]]
    BY <1>6 DEF RecordWrite
  <2>2. QED BY <1>2, <2>1 DEF HookMoves
<1>7. QED BY <1>3, <1>4, <1>5, <1>6 DEF Record

LEMMA HooksMove ==
  ASSUME TournamentInv, Next
  PROVE  recording' = [g \in Game |-> recording'[g]] /\ \A g \in Game : HookMoves(g)
<1>1. HooksTyped /\ recording \in [Game -> HookTask]
  BY DEF TournamentInv, TasksInv, TasksTyped, HooksTyped
<1>2. CASE UNCHANGED recording
  BY <1>1, <1>2 DEF HookMoves
<1>3. ASSUME NEW g \in Game, Record(g)
      PROVE  recording' = [h \in Game |-> recording'[h]] /\ \A h \in Game : HookMoves(h)
  <2>1. HookIsSet(g) /\ HookMoves(g)
    BY <1>3, RecordMoves
  <2>2. DOMAIN recording' = Game /\ \A h \in Game : HookMoves(h)
    BY <1>1, <2>1, OneHookMoves
  <2>3. PICK task : recording' = [recording EXCEPT ![g] = task]
    BY <2>1 DEF HookIsSet
  <2>4. recording' = [h \in Game |-> recording'[h]]
    BY <1>1, <2>3
  <2>5. QED BY <2>2, <2>4
<1>4. ASSUME NEW g \in Game, NEW w \in User, GameEnds(g, w)
      PROVE  recording' = [h \in Game |-> recording'[h]] /\ \A h \in Game : HookMoves(h)
  <2>1. /\ g \in DOMAIN games /\ w \in games[g].players
        /\ games' = [games EXCEPT ![g] = [games[g] EXCEPT !.state = "over"]]
        /\ recording' = [recording EXCEPT ![g] = [pc |-> "find", winner |-> w]]
    BY <1>4 DEF GameEnds
  <2>2. recording'[g] = [pc |-> "find", winner |-> w]
    BY <1>1, <2>1
  <2>3. games'[g].state # "playing"
    <3>1. games[g] \in LiveGame
      BY <2>1, GamesAreNumbered DEF TournamentInv, TasksInv, TasksTyped
    <3>2. games'[g] = [games[g] EXCEPT !.state = "over"]
      BY <2>1
    <3>3. QED BY <3>1, <3>2 DEF LiveGame
  <2>4. HookIsSet(g) /\ HookMoves(g)
    BY <2>1, <2>2, <2>3 DEF HookIsSet, HookMoves
  <2>5. \A h \in Game : HookMoves(h)
    BY <1>1, <2>4, OneHookMoves
  <2>6. recording' = [h \in Game |-> recording'[h]]
    BY <1>1, <2>1
  <2>7. QED BY <2>5, <2>6
<1>5. CASE BridgeStart
  <2> DEFINE m == bridge.match
             gs == GiveUp(m).games
             rs == GiveUp(m).recording
  <2>1. m \in Match
    BY <1>5, BridgeStarts
  <2>2. /\ \A g \in Game :
             \/ rs[g] = recording[g]
             \/ /\ g \in DOMAIN games /\ gs[g].state # "playing"
                /\ \E w \in User : /\ w \in games[g].players
                                   /\ rs[g] = [pc |-> "find", winner |-> w]
        /\ rs = [g \in Game |-> rs[g]]
        /\ gs \in Seq(LiveGame) /\ DOMAIN gs = DOMAIN games /\ Len(gs) = Len(games)
    BY <2>1, GivenUp DEF TournamentInv, TasksInv, BracketInv
  <2>3. \/ /\ games' = Append(gs, [match |-> m, state |-> "playing", players |-> Seats(m)])
           /\ recording' = rs
        \/ UNCHANGED recording
        \/ games' = gs /\ recording' = rs
    BY <1>5, BridgeStarts
  <2> HIDE DEF gs, rs, m
  <2>4. CASE recording' = rs
    <3>1. \A g \in DOMAIN games : games'[g] = gs[g] \/ recording' = recording
      <4>1. \A g \in DOMAIN games : g \in 1 .. Len(gs)
        BY <2>2, GamesAreNumbered DEF TournamentInv, TasksInv, TasksTyped
      <4>2. CASE games' = Append(gs, [match |-> m, state |-> "playing", players |-> Seats(m)])
        <5>1. \A g \in 1 .. Len(gs) : games'[g] = gs[g]
          BY <2>2, <4>2
        <5>2. QED BY <4>1, <5>1
      <4>3. QED BY <2>3, <4>2
    <3>2. \A g \in Game : HookMoves(g)
      BY <2>2, <2>4, <3>1 DEF HookMoves
    <3>3. QED BY <2>2, <2>4, <3>2
  <2>5. QED BY <1>2, <2>3, <2>4
<1>6. CASE Restart
  <2>1. recording' = [g \in Game |-> Idle]
    BY <1>6 DEF Restart
  <2>2. QED BY <2>1 DEF HookMoves
<1>7. \/ UNCHANGED recording \/ BridgeStart \/ Restart
      \/ (\E g \in Game : Record(g)) \/ \E g \in Game, w \in User : GameEnds(g, w)
  <2>1. CASE SignUp
    BY <2>1, ZenonT(30) DEF SignUp, JoinTournament, LeaveTournament, CancelTournament, StartRead,
           StartLock, StartAnnounce
  <2>2. CASE Bridge
    BY <2>2, ZenonT(30) DEF Bridge, BridgeNext, BridgeDone, BridgeRead, BridgeClaim
  <2>3. QED BY <2>1, <2>2 DEF Next
<1>8. QED BY <1>2, <1>3, <1>4, <1>5, <1>6, <1>7

LEMMA HooksNext ==
  ASSUME TournamentInv, Next
  PROVE  HooksTyped' /\ HooksOfGames'
<1> SUFFICES ASSUME NEW g \in Game
             PROVE  /\ recording'[g] \in HookTask
                    /\ recording'[g].pc \in {"find", "read", "write"} =>
                         /\ g \in DOMAIN games' /\ games'[g].state # "playing"
                         /\ recording'[g].winner \in games'[g].players
                    /\ recording'[g].pc \in {"read", "write"} =>
                         matches'[recording'[g].match].liveGameId = g
                    /\ recording'[g].pc = "write" => recording'[g].attempt < WRITE_ATTEMPTS
  <2>1. recording' = [g \in Game |-> recording'[g]]
    BY HooksMove
  <2>2. (\A g \in Game : recording'[g] \in HookTask) => recording' \in [Game -> HookTask]
    BY <2>1
  <2>3. QED BY <2>2 DEF HooksTyped, HooksOfGames
<1> DEFINE r == recording[g]
           q == recording'[g]
<1>1. /\ r \in HookTask
      /\ r.pc \in {"find", "read", "write"} =>
           g \in DOMAIN games /\ games[g].state # "playing" /\ r.winner \in games[g].players
      /\ r.pc \in {"read", "write"} => matches[r.match].liveGameId = g
      /\ r.pc = "write" => r.attempt < WRITE_ATTEMPTS
  BY DEF TournamentInv, TasksInv, TasksTyped, HooksTyped, HooksOfGames
<1>2. g \in DOMAIN games => /\ g \in DOMAIN games' /\ games'[g].players = games[g].players
                            /\ games[g].state # "playing" => games'[g].state # "playing"
  BY GamesGoOnIn DEF GamesGoOn
<1>3. ASSUME NEW m \in Match, matches[m].liveGameId = g PROVE matches'[m].liveGameId = g
  <2>1. g # None
    BY UserAssumption
  <2>2. QED BY <1>3, <2>1, RowsGoOn
<1>4. HookMoves(g)
  BY HooksMove
<1>5. /\ r.pc \in {"find", "read", "write"} => r.winner \in User
      /\ r.pc \in {"read", "write"} => r.match \in Match /\ r.attempt \in 0 .. WRITE_ATTEMPTS
  BY <1>1 DEF HookTask, Idle
<1>6. 0 \in 0 .. WRITE_ATTEMPTS
  BY BoundsAssumption
<1> HIDE DEF r, q
<1>7. CASE q = r
  BY <1>1, <1>2, <1>3, <1>5, <1>7 DEF r, q
<1>8. CASE q = Idle
  BY <1>8 DEF q, Idle, HookTask
<1>9. ASSUME NEW w \in User, q = [pc |-> "find", winner |-> w],
             g \in DOMAIN games, w \in games[g].players, games'[g].state # "playing"
      PROVE  /\ q \in HookTask /\ q.pc = "find" /\ g \in DOMAIN games'
             /\ q.winner \in games'[g].players
  BY <1>2, <1>9 DEF HookTask
<1>10. ASSUME NEW m \in Match, r.pc = "find", matches[m].liveGameId = g,
              q = [pc |-> "read", winner |-> r.winner, match |-> m, attempt |-> 0]
       PROVE  /\ q \in HookTask /\ q.pc = "read" /\ g \in DOMAIN games'
              /\ games'[g].state # "playing" /\ q.winner \in games'[g].players
              /\ matches'[q.match].liveGameId = g
  <2>1. q \in HookTask
    BY <1>5, <1>6, <1>10 DEF HookTask
  <2>2. QED BY <1>1, <1>2, <1>3, <1>10, <2>1
<1>11. ASSUME NEW k \in (1 .. Rounds) \cup {None}, r.pc = "read", r.attempt # WRITE_ATTEMPTS,
              q = [pc |-> "write", winner |-> r.winner, match |-> r.match, attempt |-> r.attempt,
                   nextRound |-> k]
       PROVE  /\ q \in HookTask /\ q.pc = "write" /\ g \in DOMAIN games'
              /\ games'[g].state # "playing" /\ q.winner \in games'[g].players
              /\ matches'[q.match].liveGameId = g /\ q.attempt < WRITE_ATTEMPTS
  <2>1. q \in HookTask
    BY <1>5, <1>11 DEF HookTask
  <2>2. r.attempt < WRITE_ATTEMPTS
    BY <1>5, <1>11, BoundsAssumption
  <2>3. QED BY <1>1, <1>2, <1>3, <1>5, <1>11, <2>1, <2>2
<1>12. ASSUME r.pc = "write",
              q = [pc |-> "read", winner |-> r.winner, match |-> r.match,
                   attempt |-> r.attempt + 1]
       PROVE  /\ q \in HookTask /\ q.pc = "read" /\ g \in DOMAIN games'
              /\ games'[g].state # "playing" /\ q.winner \in games'[g].players
              /\ matches'[q.match].liveGameId = g
  <2>1. r.attempt + 1 \in 0 .. WRITE_ATTEMPTS
    BY <1>1, <1>5, <1>12, BoundsAssumption
  <2>2. q \in HookTask
    BY <1>5, <1>12, <2>1 DEF HookTask
  <2>3. QED BY <1>1, <1>2, <1>3, <1>5, <1>12, <2>2
<1>13. ASSUME q = [pc |-> "announce", ready |-> ReadyMatches(matches')]
       PROVE  q \in HookTask /\ q.pc = "announce"
  BY <1>13, ReadyMatchesSeated DEF HookTask
<1>14. \/ q = r \/ q = Idle
       \/ \E w \in User : /\ q = [pc |-> "find", winner |-> w] /\ g \in DOMAIN games
                          /\ w \in games[g].players /\ games'[g].state # "playing"
       \/ \E m \in Match : /\ r.pc = "find" /\ matches[m].liveGameId = g
                           /\ q = [pc |-> "read", winner |-> r.winner, match |-> m, attempt |-> 0]
       \/ \E k \in (1 .. Rounds) \cup {None} :
            /\ r.pc = "read" /\ r.attempt # WRITE_ATTEMPTS
            /\ q = [pc |-> "write", winner |-> r.winner, match |-> r.match, attempt |-> r.attempt,
                    nextRound |-> k]
       \/ /\ r.pc = "write"
          /\ q = [pc |-> "read", winner |-> r.winner, match |-> r.match,
                  attempt |-> r.attempt + 1]
       \/ q = [pc |-> "announce", ready |-> ReadyMatches(matches')]
  BY <1>4 DEF HookMoves, r, q
<1> DEFINE Good == /\ q \in HookTask
                   /\ q.pc \in {"find", "read", "write"} =>
                        /\ g \in DOMAIN games' /\ games'[g].state # "playing"
                        /\ q.winner \in games'[g].players
                   /\ q.pc \in {"read", "write"} => matches'[q.match].liveGameId = g
                   /\ q.pc = "write" => q.attempt < WRITE_ATTEMPTS
<1>15. q = r \/ q = Idle => Good
  BY <1>7, <1>8 DEF q
<1>16. (q # r /\ q # Idle) => Good
  BY <1>9, <1>10, <1>11, <1>12, <1>13, <1>14
<1>17. QED BY <1>15, <1>16 DEF q

-----------------------------------------------------------------------------
(* The steps of the lists, the start request and the bridge.               *)

\* Where a ready list comes from.
EventsMove ==
  \/ events' = events \/ events' = <<>>
  \/ events # <<>> /\ events' = Tail(events)
  \/ starting.pc = "announce" /\ events' = Append(events, starting.ready)
  \/ \E g \in Game : recording[g].pc = "announce" /\ events' = Append(events, recording[g].ready)

StartMoves ==
  \/ starting' = starting \/ starting' = Idle
  \/ status = "OPEN" /\ Cardinality(players) = size
       /\ starting' = [pc |-> "lock", seeded |-> players]
  \/ starting' = [pc |-> "announce", ready |-> ReadyMatches(matches')]

BridgeMoves ==
  \/ bridge' = bridge /\ ~BridgeClaim
  \/ bridge' = Idle
  \/ events # <<>> /\ bridge' = [pc |-> "read", todo |-> Head(events)]
  \/ /\ bridge.pc \in {"read", "start", "claim"}
     /\ \E S \in SUBSET bridge.todo : bridge' = [pc |-> "read", todo |-> S]
  \/ /\ bridge.pc = "read" /\ ~BridgeClaim
     /\ \E S \in SUBSET bridge.todo, m \in bridge.todo :
          Startable(m) /\ bridge' = [pc |-> "start", todo |-> S, match |-> m]
  \/ /\ bridge.pc = "start" /\ BridgeStart
     /\ Len(games') \in DOMAIN games' /\ games'[Len(games')].match = bridge.match
     /\ bridge' = [pc |-> "claim", todo |-> bridge.todo, match |-> bridge.match,
                   game |-> Len(games')]

LEMMA EventsDoMove ==
  ASSUME Next
  PROVE  EventsMove
<1>1. CASE SignUp
  BY <1>1, ZenonT(30) DEF EventsMove, SignUp, JoinTournament, LeaveTournament, CancelTournament,
         StartRead, StartLock, StartAnnounce
<1>2. CASE Bridge
  BY <1>2, ZenonT(30) DEF EventsMove, Bridge, BridgeNext, BridgeDone, BridgeRead, BridgeStart,
         BridgeClaim
<1>3. CASE Restart
  BY <1>3, Zenon DEF EventsMove, Restart
<1>4. ASSUME NEW g \in Game, Record(g) PROVE EventsMove
  BY <1>4, ZenonT(30) DEF EventsMove, Record, RecordFails, RecordFind, RecordRead, RecordWrite,
         RecordAnnounce
<1>5. ASSUME NEW g \in Game, NEW w \in User, GameEnds(g, w) PROVE EventsMove
  BY <1>5, Zenon DEF EventsMove, GameEnds
<1>6. QED BY <1>1, <1>2, <1>3, <1>4, <1>5 DEF Next

LEMMA StartDoesMove ==
  ASSUME Next
  PROVE  StartMoves
<1>1. CASE SignUp
  BY <1>1, ZenonT(30) DEF StartMoves, SignUp, JoinTournament, LeaveTournament, CancelTournament,
         StartRead, StartLock, StartAnnounce
<1>2. CASE Bridge
  BY <1>2, ZenonT(30) DEF StartMoves, Bridge, BridgeNext, BridgeDone, BridgeRead, BridgeStart,
         BridgeClaim
<1>3. CASE Restart
  BY <1>3, Zenon DEF StartMoves, Restart
<1>4. ASSUME NEW g \in Game, Record(g) PROVE StartMoves
  BY <1>4, ZenonT(30) DEF StartMoves, Record, RecordFails, RecordFind, RecordRead, RecordWrite,
         RecordAnnounce
<1>5. ASSUME NEW g \in Game, NEW w \in User, GameEnds(g, w) PROVE StartMoves
  BY <1>5, Zenon DEF StartMoves, GameEnds
<1>6. QED BY <1>1, <1>2, <1>3, <1>4, <1>5 DEF Next

\* Only the bridge and a restart write bridge, and a claim leaves its state.
LEMMA BridgeIsTheBridges ==
  ASSUME Next
  PROVE  Bridge \/ bridge' = Idle \/ (bridge' = bridge /\ ~BridgeClaim)
<1>1. BridgeClaim => Bridge
  BY DEF Bridge
<1>2. SUFFICES Bridge \/ bridge' = Idle \/ bridge' = bridge
  BY <1>1
<1>3. CASE SignUp
  BY <1>3, ZenonT(30) DEF SignUp, JoinTournament, LeaveTournament, CancelTournament,
         StartRead, StartLock, StartAnnounce
<1>4. CASE Restart
  BY <1>4, Zenon DEF Restart
<1>5. ASSUME NEW g \in Game, Record(g) PROVE bridge' = bridge
  BY <1>5, ZenonT(30) DEF Record, RecordFails, RecordFind, RecordRead, RecordWrite, RecordAnnounce
<1>6. ASSUME NEW g \in Game, NEW w \in User, GameEnds(g, w) PROVE bridge' = bridge
  BY <1>6, Zenon DEF GameEnds
<1>7. QED BY <1>3, <1>4, <1>5, <1>6 DEF Next

LEMMA BridgeDoesMove ==
  ASSUME TournamentInv, Next
  PROVE  BridgeMoves
<1>1. CASE BridgeNext
  BY <1>1, Zenon DEF BridgeNext, BridgeMoves
<1>2. CASE BridgeDone
  BY <1>2, Zenon DEF BridgeDone, BridgeMoves
<1>3. CASE BridgeRead
  <2>1. bridge.pc = "read" /\ bridge = [pc |-> "read", todo |-> bridge.todo]
    BY <1>3 DEF BridgeRead, TournamentInv, TasksInv, TasksTyped, BridgeTask, Idle
  <2>2. ~BridgeClaim
    BY <2>1 DEF BridgeClaim
  <2>3. PICK m \in bridge.todo :
          \/ Startable(m) /\ bridge' = [pc |-> "start", todo |-> bridge.todo \ {m}, match |-> m]
          \/ bridge' = [bridge EXCEPT !.todo = bridge.todo \ {m}]
    BY <1>3, Zenon DEF BridgeRead
  <2>4. [bridge EXCEPT !.todo = bridge.todo \ {m}] = [pc |-> "read", todo |-> bridge.todo \ {m}]
    BY <2>1
  <2>5. bridge.todo \ {m} \in SUBSET bridge.todo
    OBVIOUS
  <2>6. QED BY <2>1, <2>2, <2>3, <2>4, <2>5 DEF BridgeMoves
<1>4. CASE BridgeClaim
  <2>1. bridge.pc = "claim" /\ bridge' = [pc |-> "read", todo |-> bridge.todo]
    BY <1>4, Zenon DEF BridgeClaim
  <2>2. QED BY <2>1 DEF BridgeMoves
<1>5. CASE BridgeStart
  <2> DEFINE gs == GiveUp(bridge.match).games
             new == [match |-> bridge.match, state |-> "playing", players |-> Seats(bridge.match)]
  <2>1. bridge.pc = "start" /\ bridge.match \in Match /\ Seated(bridge.match)
    BY <1>5, BridgeStarts
  <2>2. \/ /\ games' = Append(gs, new)
           /\ bridge' = [pc |-> "claim", todo |-> bridge.todo, match |-> bridge.match,
                         game |-> Len(games')]
        \/ bridge' = [pc |-> "read", todo |-> bridge.todo]
    BY <1>5, BridgeStarts
  <2>3. gs \in Seq(LiveGame) /\ Len(gs) \in Nat
    BY <2>1, GivenUp, LenProperties DEF TournamentInv, TasksInv, BracketInv
  <2>4. new \in LiveGame
    <3>1. Seats(bridge.match) \subseteq User
      BY <2>1 DEF TournamentInv, BracketInv, RowsTyped, Row, Seat, Seats, Seated
    <3>2. QED BY <2>1, <3>1 DEF LiveGame
  <2>5. new.match = bridge.match
    OBVIOUS
  <2> HIDE DEF gs, new
  <2>6. CASE bridge' = [pc |-> "read", todo |-> bridge.todo]
    BY <2>1, <2>6 DEF BridgeMoves
  <2>7. CASE /\ games' = Append(gs, new)
             /\ bridge' = [pc |-> "claim", todo |-> bridge.todo, match |-> bridge.match,
                           game |-> Len(games')]
    <3>1. /\ games' \in Seq(LiveGame) /\ Len(games') = Len(gs) + 1
          /\ games'[Len(gs) + 1] = new
      BY <2>3, <2>4, <2>7, AppendProperties
    <3>2. DOMAIN games' = 1 .. Len(games')
      BY <3>1, LenProperties
    <3>3. Len(games') \in DOMAIN games' /\ games'[Len(games')] = new
      BY <2>3, <3>1, <3>2
    <3>4. QED BY <1>5, <2>1, <2>5, <2>7, <3>3 DEF BridgeMoves
  <2>8. QED BY <2>2, <2>6, <2>7
<1>6. CASE ~Bridge
  BY <1>6, BridgeIsTheBridges DEF BridgeMoves
<1>7. QED BY <1>1, <1>2, <1>3, <1>4, <1>5, <1>6 DEF Bridge

-----------------------------------------------------------------------------
(* The tasks keep their invariant.                                         *)

\* A ready list worked out in this step is a list of pairs.
LEMMA NewListSeated ==
  /\ ReadyMatches(matches') \in SUBSET Match
  /\ AllSeatedNext(ReadyMatches(matches'))
BY ReadyMatchesSeated DEF AllSeatedNext, SeatedNext

LEMMA EventsNext ==
  ASSUME TournamentInv, Next
  PROVE  /\ events' \in Seq(SUBSET Match)
         /\ \A i \in DOMAIN events' : AllSeatedNext(events'[i])
<1>1. /\ events \in Seq(SUBSET Match) /\ DOMAIN events = 1 .. Len(events) /\ Len(events) \in Nat
      /\ \A i \in DOMAIN events : events[i] \in SUBSET Match /\ AllSeatedNext(events[i])
  <2>1. events \in Seq(SUBSET Match)
    BY DEF TournamentInv, TasksInv, TasksTyped
  <2>2. DOMAIN events = 1 .. Len(events) /\ Len(events) \in Nat
    BY <2>1, LenProperties
  <2>3. \A i \in DOMAIN events : events[i] \in SUBSET Match
    BY <2>1, <2>2, ElementOfSeq
  <2>4. \A i \in DOMAIN events : AllSeated(events[i])
    BY DEF TournamentInv, TasksInv, ListsSeated
  <2>5. QED BY <2>1, <2>2, <2>3, <2>4, AllSeatedStays
<1>2. ASSUME NEW S \in SUBSET Match, AllSeated(S), events' = Append(events, S)
      PROVE  /\ events' \in Seq(SUBSET Match)
             /\ \A i \in DOMAIN events' : AllSeatedNext(events'[i])
  <2>1. AllSeatedNext(S)
    BY <1>2, AllSeatedStays
  <2>2. /\ events' \in Seq(SUBSET Match) /\ Len(events') = Len(events) + 1
        /\ \A i \in 1 .. Len(events) : events'[i] = events[i]
        /\ events'[Len(events) + 1] = S
    BY <1>1, <1>2, AppendProperties
  <2>3. DOMAIN events' = 1 .. Len(events) + 1
    BY <2>2, LenProperties
  <2>4. ASSUME NEW i \in DOMAIN events' PROVE AllSeatedNext(events'[i])
    <3>1. CASE i \in 1 .. Len(events)
      <4>1. events'[i] = events[i]
        BY <2>2, <3>1
      <4>2. i \in DOMAIN events
        BY <1>1, <3>1
      <4>3. QED BY <1>1, <4>1, <4>2
    <3>2. CASE i = Len(events) + 1
      BY <2>1, <2>2, <3>2
    <3>3. QED BY <1>1, <2>3, <3>1, <3>2
  <2>5. QED BY <2>2, <2>4
<1>3. CASE events' = events
  BY <1>1, <1>3
<1>4. CASE events' = <<>>
  BY <1>4
<1>5. CASE events # <<>> /\ events' = Tail(events)
  <2>1. /\ events' \in Seq(SUBSET Match) /\ Len(events') = Len(events) - 1
        /\ \A i \in 1 .. Len(events') : events'[i] = events[i + 1]
    BY <1>1, <1>5, HeadTailProperties
  <2>2. DOMAIN events' = 1 .. Len(events) - 1
    BY <2>1, LenProperties
  <2>3. ASSUME NEW i \in DOMAIN events' PROVE AllSeatedNext(events'[i])
    <3>1. i + 1 \in DOMAIN events /\ events'[i] = events[i + 1]
      BY <1>1, <2>1, <2>2
    <3>2. QED BY <1>1, <3>1
  <2>4. QED BY <2>1, <2>3
<1>6. CASE starting.pc = "announce" /\ events' = Append(events, starting.ready)
  <2>1. starting.ready \in SUBSET Match /\ AllSeated(starting.ready)
    BY <1>6 DEF TournamentInv, TasksInv, TasksTyped, StartTask, Idle, ListsSeated
  <2>2. QED BY <1>2, <1>6, <2>1
<1>7. ASSUME NEW g \in Game, recording[g].pc = "announce",
             events' = Append(events, recording[g].ready)
      PROVE  /\ events' \in Seq(SUBSET Match)
             /\ \A i \in DOMAIN events' : AllSeatedNext(events'[i])
  <2>1. recording[g] \in HookTask
    BY DEF TournamentInv, TasksInv, TasksTyped, HooksTyped
  <2>2. recording[g].ready \in SUBSET Match
    BY <1>7, <2>1 DEF HookTask, Idle
  <2>3. AllSeated(recording[g].ready)
    BY <1>7 DEF TournamentInv, TasksInv, ListsSeated
  <2>4. QED BY <1>2, <1>7, <2>2, <2>3
<1>8. QED BY <1>3, <1>4, <1>5, <1>6, <1>7, EventsDoMove DEF EventsMove

LEMMA StartNext ==
  ASSUME TournamentInv, Next
  PROVE  /\ starting' \in StartTask /\ LockSize'
         /\ starting'.pc = "announce" => AllSeatedNext(starting'.ready)
<1>1. /\ starting \in StartTask
      /\ starting.pc = "lock" => Cardinality(starting.seeded) = size
      /\ starting.pc = "announce" => AllSeated(starting.ready)
      /\ players \subseteq User
  BY DEF TournamentInv, TasksInv, TasksTyped, LockSize, ListsSeated, BracketInv, RowsTyped
<1>2. CASE starting' = starting
  <2>1. starting.pc = "announce" => starting.ready \in SUBSET Match
    BY <1>1 DEF StartTask, Idle
  <2>2. starting.pc = "announce" => AllSeatedNext(starting.ready)
    BY <1>1, <2>1, AllSeatedStays
  <2>3. starting'.pc = "announce" => AllSeatedNext(starting'.ready)
    BY <1>2, <2>2
  <2>4. QED BY <1>1, <1>2, <2>3 DEF LockSize
<1>3. CASE starting' = Idle
  BY <1>3 DEF Idle, StartTask, LockSize
<1>4. CASE Cardinality(players) = size /\ starting' = [pc |-> "lock", seeded |-> players]
  BY <1>1, <1>4 DEF StartTask, LockSize
<1>5. CASE starting' = [pc |-> "announce", ready |-> ReadyMatches(matches')]
  <2>1. starting'.ready = ReadyMatches(matches') /\ starting'.pc = "announce"
    BY <1>5
  <2>2. starting' \in StartTask
    BY <1>5, NewListSeated DEF StartTask
  <2>3. AllSeatedNext(starting'.ready)
    BY <2>1, NewListSeated
  <2>4. QED BY <2>1, <2>2, <2>3 DEF LockSize
<1>6. QED BY <1>2, <1>3, <1>4, <1>5, StartDoesMove DEF StartMoves

LEMMA HookListsNext ==
  ASSUME TournamentInv, Next, NEW g \in Game, recording'[g].pc = "announce"
  PROVE  AllSeatedNext(recording'[g].ready)
<1>1. CASE recording'[g] = recording[g]
  <2>1. recording[g] \in HookTask
    BY DEF TournamentInv, TasksInv, TasksTyped, HooksTyped
  <2>2. recording[g].ready \in SUBSET Match /\ AllSeated(recording[g].ready)
    BY <1>1, <2>1 DEF TournamentInv, TasksInv, ListsSeated, HookTask, Idle
  <2>3. AllSeatedNext(recording[g].ready)
    BY <2>2, AllSeatedStays
  <2>4. QED BY <1>1, <2>3
<1>2. CASE recording'[g] = [pc |-> "announce", ready |-> ReadyMatches(matches')]
  BY <1>2, NewListSeated
<1>3. /\ recording'[g] # Idle
      /\ \A w : recording'[g] # [pc |-> "find", winner |-> w]
      /\ \A w, m, a : recording'[g] # [pc |-> "read", winner |-> w, match |-> m, attempt |-> a]
      /\ \A w, m, a, k :
           recording'[g] # [pc |-> "write", winner |-> w, match |-> m, attempt |-> a,
                            nextRound |-> k]
  BY DEF Idle
<1>4. HookMoves(g)
  BY HooksMove
<1>5. recording'[g] = recording[g] \/ recording'[g] = [pc |-> "announce", ready |-> ReadyMatches(matches')]
  BY <1>3, <1>4, ZenonT(30) DEF HookMoves
<1>6. QED BY <1>1, <1>2, <1>5

LEMMA BridgeNextInv ==
  ASSUME TournamentInv, Next
  PROVE  /\ bridge' \in BridgeTask /\ MatchIsFree'
         /\ bridge' # Idle => AllSeatedNext(bridge'.todo)
<1>1. /\ bridge \in BridgeTask
      /\ bridge # Idle => AllSeated(bridge.todo)
      /\ bridge.pc \in {"start", "claim"} => Startable(bridge.match) /\ Seated(bridge.match)
      /\ bridge.pc = "claim" =>
           bridge.game \in DOMAIN games /\ games[bridge.game].match = bridge.match
  BY DEF TournamentInv, TasksInv, TasksTyped, ListsSeated, MatchIsFree
<1>2. bridge # Idle => /\ bridge.pc \in {"read", "start", "claim"}
                       /\ bridge.todo \in SUBSET Match
                       /\ bridge.pc # "read" => bridge.match \in Match
                       /\ AllSeatedNext(bridge.todo)
  <2>1. bridge # Idle => /\ bridge.pc \in {"read", "start", "claim"}
                         /\ bridge.todo \in SUBSET Match
                         /\ bridge.pc # "read" => bridge.match \in Match
    BY <1>1 DEF BridgeTask
  <2>2. QED BY <1>1, <2>1, AllSeatedStays
<1>3. bridge.pc \in {"read", "start", "claim"} => bridge # Idle
  BY DEF Idle
<1>4. ASSUME NEW m \in Match, Startable(m), Seated(m), ~BridgeClaim
      PROVE  FreeNext(m)
  BY <1>4, StartableStays, RowsGoOn DEF FreeNext, SeatedNext, Startable, Seated
<1>5. CASE bridge' = bridge /\ ~BridgeClaim
  <2>1. bridge' # Idle => AllSeatedNext(bridge'.todo)
    BY <1>2, <1>5
  <2>2. bridge.pc \in {"start", "claim"} => bridge.match \in Match
    BY <1>2, <1>3
  <2>3. bridge.pc \in {"start", "claim"} => FreeNext(bridge'.match)
    BY <1>1, <1>4, <1>5, <2>2
  <2>4. bridge.pc = "claim" =>
          bridge.game \in DOMAIN games' /\ games'[bridge.game].match = bridge.match
    BY <1>1, GamesGoOnIn DEF GamesGoOn
  <2>5. MatchIsFree'
    BY <1>5, <2>3, <2>4 DEF MatchIsFree, FreeNext, SeatedNext, Startable, Seated
  <2>6. QED BY <1>1, <1>5, <2>1, <2>5
<1>6. CASE bridge' = Idle
  BY <1>6 DEF BridgeTask, MatchIsFree, Idle
<1>7. CASE events # <<>> /\ bridge' = [pc |-> "read", todo |-> Head(events)]
  <2>1. Head(events) \in SUBSET Match /\ AllSeated(Head(events))
    <3>1. events \in Seq(SUBSET Match)
      BY DEF TournamentInv, TasksInv, TasksTyped
    <3>2. Head(events) = events[1] /\ 1 \in DOMAIN events
      BY <1>7, <3>1
    <3>3. QED BY <1>7, <3>1, <3>2, HeadTailProperties DEF TournamentInv, TasksInv, ListsSeated
  <2>2. AllSeatedNext(Head(events))
    BY <2>1, AllSeatedStays
  <2>3. bridge' \in BridgeTask /\ bridge'.pc = "read" /\ bridge'.todo = Head(events)
    BY <1>7, <2>1 DEF BridgeTask
  <2>4. QED BY <2>2, <2>3 DEF MatchIsFree
<1>8. ASSUME bridge.pc \in {"read", "start", "claim"}, NEW S \in SUBSET bridge.todo,
             bridge' = [pc |-> "read", todo |-> S]
      PROVE  /\ bridge' \in BridgeTask /\ MatchIsFree'
             /\ bridge' # Idle => AllSeatedNext(bridge'.todo)
  <2>1. S \in SUBSET Match /\ AllSeatedNext(S)
    BY <1>2, <1>3, <1>8 DEF AllSeatedNext
  <2>2. bridge' \in BridgeTask /\ bridge'.pc = "read" /\ bridge'.todo = S
    BY <1>8, <2>1 DEF BridgeTask
  <2>3. QED BY <2>1, <2>2 DEF MatchIsFree
<1>9. ASSUME bridge.pc = "read", ~BridgeClaim, NEW S \in SUBSET bridge.todo,
             NEW m \in bridge.todo, Startable(m),
             bridge' = [pc |-> "start", todo |-> S, match |-> m]
      PROVE  /\ bridge' \in BridgeTask /\ MatchIsFree'
             /\ bridge' # Idle => AllSeatedNext(bridge'.todo)
  <2>1. S \in SUBSET Match /\ AllSeatedNext(S) /\ m \in Match /\ Seated(m)
    BY <1>1, <1>2, <1>3, <1>9 DEF AllSeated, AllSeatedNext
  <2>2. FreeNext(m)
    BY <1>4, <1>9, <2>1
  <2>3. bridge' \in BridgeTask /\ bridge'.pc = "start" /\ bridge'.todo = S /\ bridge'.match = m
    BY <1>9, <2>1 DEF BridgeTask
  <2>4. FreeNext(bridge'.match)
    BY <2>2, <2>3
  <2>5. QED BY <2>1, <2>3, <2>4
          DEF MatchIsFree, FreeNext, SeatedNext, Startable, Seated
<1>10. ASSUME bridge.pc = "start", BridgeStart, Len(games') \in DOMAIN games',
              games'[Len(games')].match = bridge.match,
              bridge' = [pc |-> "claim", todo |-> bridge.todo, match |-> bridge.match,
                         game |-> Len(games')]
       PROVE  /\ bridge' \in BridgeTask /\ MatchIsFree'
              /\ bridge' # Idle => AllSeatedNext(bridge'.todo)
  <2>1. bridge.match \in Match /\ ~BridgeClaim
    BY <1>2, <1>3, <1>10 DEF BridgeClaim
  <2>2. FreeNext(bridge.match)
    <3> DEFINE m == bridge.match
    <3>1. m \in Match /\ Startable(m) /\ Seated(m) /\ UNCHANGED matches
      BY <1>10, BridgeStarts
    <3>2. bridge'.match = m
      BY <1>10
    <3>3. QED BY <3>1, <3>2 DEF FreeNext, SeatedNext, Startable, Seated
  <2>3. DOMAIN games' \subseteq Game
    <3>1. GamesTyped'
      BY GamesGoOnIn
    <3>2. games' \in Seq(LiveGame) /\ Len(games') <= MaxGames
      BY <3>1 DEF GamesTyped
    <3>3. QED BY <3>2, BoundsAssumption, LenProperties DEF Game
  <2>4. /\ bridge'.pc = "claim" /\ bridge'.todo = bridge.todo /\ bridge'.match = bridge.match
        /\ bridge'.game = Len(games')
    BY <1>10
  <2>5. bridge' \in BridgeTask
    BY <1>2, <1>3, <1>10, <2>1, <2>3 DEF BridgeTask
  <2>6. MatchIsFree'
    BY <1>10, <2>2, <2>4 DEF MatchIsFree, FreeNext, SeatedNext, Startable, Seated
  <2>7. AllSeatedNext(bridge'.todo)
    BY <1>2, <1>3, <1>10, <2>4
  <2>8. QED BY <2>5, <2>6, <2>7
<1>11. QED BY <1>5, <1>6, <1>7, <1>8, <1>9, <1>10, BridgeDoesMove DEF BridgeMoves

LEMMA TasksNext ==
  ASSUME TournamentInv, Next
  PROVE  TasksInv'
<1>1. GamesTyped' /\ GamesGoOn
  BY GamesGoOnIn
<1>2. RowsTyped
  BY DEF TournamentInv, BracketInv
<1>3. restarts' \in 0 .. MaxRestarts
  <2>1. restarts \in 0 .. MaxRestarts
    BY DEF TournamentInv, TasksInv, TasksTyped
  <2>2. CASE Restart
    BY <2>1, <2>2, BoundsAssumption DEF Restart
  <2>3. CASE UNCHANGED restarts
    BY <2>1, <2>3
  <2>4. Restart \/ UNCHANGED restarts
    <3>1. CASE SignUp
      BY <3>1, ZenonT(30) DEF SignUp, JoinTournament, LeaveTournament, CancelTournament, StartRead,
             StartLock, StartAnnounce
    <3>2. CASE Bridge
      BY <3>2, ZenonT(30) DEF Bridge, BridgeNext, BridgeDone, BridgeRead, BridgeStart, BridgeClaim
    <3>3. ASSUME NEW g \in Game, Record(g) PROVE UNCHANGED restarts
      BY <3>3, ZenonT(30) DEF Record, RecordFails, RecordFind, RecordRead, RecordWrite,
             RecordAnnounce
    <3>4. ASSUME NEW g \in Game, NEW w \in User, GameEnds(g, w) PROVE UNCHANGED restarts
      BY <3>4, Zenon DEF GameEnds
    <3>5. QED BY <3>1, <3>2, <3>3, <3>4 DEF Next
  <2>5. QED BY <2>2, <2>3, <2>4
<1>4. TasksTyped' /\ HooksOfGames'
  BY <1>1, <1>3, EventsNext, StartNext, BridgeNextInv, HooksNext DEF TasksTyped
<1>5. LockSize' /\ MatchIsFree'
  BY StartNext, BridgeNextInv
<1>6. ListsSeated'
  <2>1. \A S : AllSeatedNext(S) <=> \A m \in S : matches'[m].playerAId # None /\ matches'[m].playerBId # None
    BY DEF AllSeatedNext, SeatedNext
  <2>2. \A g \in Game : recording'[g].pc = "announce" => AllSeatedNext(recording'[g].ready)
    BY HookListsNext
  <2>3. QED BY <2>1, <2>2, EventsNext, StartNext, BridgeNextInv DEF ListsSeated, AllSeated, Seated
<1>7. GamesOfPairs'
  <2> SUFFICES ASSUME NEW g \in DOMAIN games'
               PROVE  /\ SeatedNext(games'[g].match)
                      /\ games'[g].players = {matches'[games'[g].match].playerAId,
                                              matches'[games'[g].match].playerBId}
    BY DEF GamesOfPairs, SeatedNext, Seated, Seats
  <2>1. PICK m \in Match : games'[g].match = m /\ Seated(m) /\ games'[g].players = Seats(m)
    <3>1. CASE g \in DOMAIN games
      <4>1. games[g].match \in Match
        BY <3>1, GamesAreNumbered DEF TournamentInv, TasksInv, TasksTyped, LiveGame
      <4>2. QED BY <1>1, <3>1, <4>1 DEF GamesGoOn, TournamentInv, TasksInv, GamesOfPairs
    <3>2. CASE g \notin DOMAIN games
      BY <1>1, <3>2, BridgeStarts DEF GamesGoOn
    <3>3. QED BY <3>1, <3>2
  <2>2. Seated(m)' /\ Seats(m)' = Seats(m)
    BY <2>1, RowsGoOn
  <2>3. QED BY <2>1, <2>2 DEF Seated, Seats, SeatedNext
<1>8. Hosts'
  <2> SUFFICES ASSUME NEW m \in Match, matches'[m].liveGameId # None
               PROVE  /\ matches'[m].liveGameId \in DOMAIN games'
                      /\ games'[matches'[m].liveGameId].match = m
    BY DEF Hosts
  <2>1. matches'[m].liveGameId \in DOMAIN games /\ games[matches'[m].liveGameId].match = m
    <3>1. CASE matches'[m].liveGameId = matches[m].liveGameId
      BY <3>1 DEF TournamentInv, TasksInv, Hosts
    <3>2. CASE matches'[m].liveGameId # matches[m].liveGameId
      <4>1. CASE Enters \/ UNCHANGED rows
        BY <3>2, <4>1 DEF Enters, rows
      <4>2. CASE Locks
        <5>1. PICK seed \in Seedings(players) : matches' = Bracket(seed)
          BY <4>2 DEF Locks
        <5>2. QED BY <1>2, <5>1, BracketRows DEF RowsTyped
      <4>3. CASE Stamps
        <5>1. PICK n \in Match, g \in Game :
                /\ g \in DOMAIN games /\ games[g].match = n
                /\ matches' = [matches EXCEPT ![n].liveGameId = g]
          BY <4>3 DEF Stamps
        <5>2. matches \in [Match -> Row]
          BY <1>2 DEF RowsTyped
        <5>3. n = m /\ matches'[m].liveGameId = g
          BY <3>2, <5>1, <5>2 DEF Row
        <5>4. QED BY <5>1, <5>3
      <4>4. ASSUME NEW n \in Match, NEW w \in User, Wins(n, w) PROVE FALSE
        <5>1. Promotion(n, w)
          BY <1>2, <4>4, PromotedRows DEF TournamentInv, BracketInv, Wins
        <5>2. QED BY <3>2, <5>1 DEF Promotion
      <4>5. QED BY <4>1, <4>2, <4>3, <4>4, RowMoves
    <3>3. QED BY <3>1, <3>2
  <2>2. QED BY <1>1, <2>1 DEF GamesGoOn
<1>9. DecidedOver'
  <2> SUFFICES ASSUME NEW m \in Match, matches'[m].winnerId # None
               PROVE  /\ matches'[m].liveGameId # None
                      /\ games'[matches'[m].liveGameId].state # "playing"
    BY DEF DecidedOver, Decided
  <2>1. /\ matches[m].liveGameId # None /\ matches[m].liveGameId \in DOMAIN games
        /\ games[matches[m].liveGameId].state # "playing"
    <3>1. CASE Decided(m)
      BY <3>1 DEF TournamentInv, TasksInv, DecidedOver, Hosts
    <3>2. CASE ~Decided(m)
      <4>1. CASE Enters \/ UNCHANGED rows
        BY <3>2, <4>1 DEF Enters, rows, Decided
      <4>2. CASE Locks
        <5>1. PICK seed \in Seedings(players) : matches' = Bracket(seed)
          BY <4>2 DEF Locks
        <5>2. QED BY <1>2, <5>1, BracketRows DEF RowsTyped
      <4>3. CASE Stamps
        <5>1. PICK n \in Match, g \in Game : matches' = [matches EXCEPT ![n].liveGameId = g]
          BY <4>3 DEF Stamps
        <5>2. matches'[m].winnerId = matches[m].winnerId
          BY <1>2, <5>1 DEF RowsTyped, Row
        <5>3. QED BY <3>2, <5>2 DEF Decided
      <4>4. ASSUME NEW n \in Match, NEW w \in User, Wins(n, w)
            PROVE  /\ matches[m].liveGameId # None /\ matches[m].liveGameId \in DOMAIN games
                   /\ games[matches[m].liveGameId].state # "playing"
        <5>1. Promotion(n, w)
          BY <1>2, <4>4, PromotedRows DEF TournamentInv, BracketInv, Wins
        <5>2. n = m
          BY <3>2, <5>1 DEF Promotion, Decided
        <5>3. DOMAIN games \subseteq Game
          BY GamesAreNumbered DEF TournamentInv, TasksInv, TasksTyped
        <5>4. QED BY <4>4, <5>2, <5>3, UserAssumption DEF Wins
      <4>5. QED BY <4>1, <4>2, <4>3, <4>4, RowMoves
    <3>3. QED BY <3>1, <3>2
  <2>2. matches'[m].liveGameId = matches[m].liveGameId
    BY <2>1, RowsGoOn
  <2>3. QED BY <1>1, <2>1, <2>2 DEF GamesGoOn
<1>10. QED BY <1>4, <1>5, <1>6, <1>7, <1>8, <1>9 DEF TasksInv

LEMMA TasksInit ==
  ASSUME Init
  PROVE  TasksInv
<1>1. /\ starting = Idle /\ events = <<>> /\ bridge = Idle /\ games = <<>> /\ restarts = 0
      /\ recording = [g \in Game |-> Idle]
      /\ matches = [m \in Match |-> Unplayed]
  BY DEF Init
<1>2. TasksTyped
  <2>1. 0 \in 0 .. MaxRestarts /\ 0 <= MaxGames
    BY BoundsAssumption
  <2>2. events \in Seq(SUBSET Match) /\ games \in Seq(LiveGame) /\ Len(games) = 0
    BY <1>1, EmptySeq
  <2>3. QED BY <1>1, <2>1, <2>2 DEF TasksTyped, StartTask, BridgeTask, GamesTyped, HooksTyped, HookTask
<1>3. LockSize /\ MatchIsFree /\ HooksOfGames
  BY <1>1 DEF LockSize, MatchIsFree, HooksOfGames, Idle
<1>4. ListsSeated
  BY <1>1 DEF ListsSeated, Idle
<1>5. GamesOfPairs
  BY <1>1 DEF GamesOfPairs
<1>6. Hosts /\ DecidedOver
  BY <1>1 DEF Hosts, DecidedOver, Decided, Unplayed
<1>7. QED BY <1>2, <1>3, <1>4, <1>5, <1>6 DEF TasksInv

-----------------------------------------------------------------------------
(* The theorems.                                                           *)

LEMMA VarsStay ==
  ASSUME TournamentInv, UNCHANGED vars
  PROVE  TournamentInv'
<1>1. UNCHANGED <<status, players, eliminated, currentRound, winnerId, matches, starting, events,
                  bridge, games, recording, restarts>>
  BY DEF vars, rows
<1>2. BracketInv'
  <2>1. matches' \in [Match -> Row] /\ Unlocked'
    BY <1>1 DEF TournamentInv, BracketInv, RowsTyped, Unlocked, Locked
  <2>2. QED BY <1>1, <2>1, BracketKept DEF TournamentInv
<1>3. TasksInv'
  BY <1>1 DEF TournamentInv, TasksInv, TasksTyped, GamesTyped, HooksTyped, LockSize, GamesOfPairs,
     Hosts, DecidedOver, ListsSeated, MatchIsFree, HooksOfGames, Seated, Seats, Decided, AllSeated,
     Startable
<1>4. QED BY <1>2, <1>3 DEF TournamentInv

\* The rows of the bracket and the tasks that work on them keep their invariant: every request
\* and hook works on a match that is a pair, free when it is started and stamped when its result
\* comes in.
THEOREM TournamentInvariant == Spec => []TournamentInv
<1>1. Init => TournamentInv
  BY BracketInit, TasksInit DEF TournamentInv
<1>2. TournamentInv /\ [Next]_vars => TournamentInv'
  BY BracketNext, TasksNext, VarsStay DEF TournamentInv
<1>3. QED BY <1>1, <1>2, PTL DEF Spec

\* Every row and every waiting handler of the tournament service and its bridge keeps its type.
THEOREM TournamentTypes == Spec => []TypeOK
<1>1. TournamentInv => TypeOK
  BY TypeParts DEF TournamentInv, BracketInv, TasksInv
<1>2. QED BY <1>1, TournamentInvariant, PTL

\* For every number of rounds: joins never overfill the tournament, and a locked bracket seats
\* each of its entrants exactly once.
THEOREM EntrantsAreSeatedOnce == Spec => []BracketSeatsEntrants
<1>1. TournamentInv => BracketSeatsEntrants
  BY BracketSeatsEntrantsHolds DEF TournamentInv
<1>2. QED BY <1>1, TournamentInvariant, PTL

\* Results recorded in whatever order, with conflicts and restarts in between, fill a seat with
\* the winner of the match that feeds it and with nobody else.
THEOREM PromotionsAreKept == Spec => []WinnersAdvance
<1>1. TournamentInv => WinnersAdvance
  BY DEF TournamentInv, BracketInv
<1>2. QED BY <1>1, TournamentInvariant, PTL

\* Out is who has lost; the tournament is over when all but the champion are.
THEOREM OneChampion == Spec => []LastOneStanding
<1>1. TournamentInv => LastOneStanding
  BY LastOneStandingHolds DEF TournamentInv
<1>2. QED BY <1>1, TournamentInvariant, PTL

\* The games a start sweeps away never host a match of the bracket: their players have no other
\* match ahead than the one that is started.
LEMMA StartSparesHosted ==
  ASSUME TournamentInv, BridgeStart, NEW g \in DOMAIN games, games[g].state = "playing",
         matches[games[g].match].liveGameId = g
  PROVE  games'[g].state = "playing"
<1> DEFINE m == bridge.match
           n == games[g].match
           gs == GiveUp(m).games
<1>1. m \in Match /\ Startable(m) /\ Seated(m)
  BY BridgeStarts
<1>2. /\ DOMAIN games = 1 .. Len(games) /\ g \in Game /\ n \in Match
  BY GamesAreNumbered DEF TournamentInv, TasksInv, TasksTyped, LiveGame
<1>3. ~Decided(n)
  BY <1>2 DEF TournamentInv, TasksInv, DecidedOver
<1>4. m # n /\ ~Decided(m)
  BY <1>1, <1>2, UserAssumption DEF Startable, Decided
<1>5. games[g].players = Seats(n)
  BY DEF TournamentInv, TasksInv, GamesOfPairs
<1>6. Seats(n) \cap Seats(m) = {}
  BY <1>1, <1>2, <1>3, <1>4 DEF TournamentInv, BracketInv, OneUndecided, Seats, Seated, Sides
<1>7. g \notin Stranded(m)
  BY <1>5, <1>6 DEF Stranded, Seats
<1>8. /\ gs[g] = games[g] /\ gs \in Seq(LiveGame) /\ Len(gs) = Len(games)
  BY <1>1, <1>7, GivenUp DEF TournamentInv, TasksInv, BracketInv
<1>9. \/ games' = Append(gs, [match |-> m, state |-> "playing", players |-> Seats(m)])
      \/ UNCHANGED games \/ games' = gs
  BY BridgeStarts
<1> HIDE DEF gs, m
<1>10. g \in 1 .. Len(gs)
  BY <1>2, <1>8
<1>11. games'[g] = games[g]
  <2>1. CASE games' = Append(gs, [match |-> m, state |-> "playing", players |-> Seats(m)])
    BY <1>8, <1>10, <2>1
  <2>2. QED BY <1>8, <1>9, <2>1
<1>12. QED BY <1>11

\* However often a match is listed, starting it sweeps away no game that hosts a match.
THEOREM StartsSpareHostedGames == Spec => HostedGameRunsOn
<1>1. TournamentInv =>
        (BridgeStart =>
          \A g \in DOMAIN games :
            games[g].state = "playing" /\ matches[games[g].match].liveGameId = g
              => games'[g].state = "playing")
  BY StartSparesHosted
<1>2. QED BY <1>1, TournamentInvariant, PTL DEF HostedGameRunsOn
=============================================================================
