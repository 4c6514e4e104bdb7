--------------------------- MODULE UnoEngineProofs ---------------------------
(***************************************************************************)
(* Proofs about UnoEngine, for every number of players, every deck and     *)
(* every hand size: the invariants and action properties MC_UnoEngine      *)
(* checks on one small deck.                                               *)
(***************************************************************************)
EXTENDS UnoEngine, FiniteSetTheorems, TLAPS

(***************************************************************************)
(* The inductive invariant.  The last two conjuncts are what makes the     *)
(* properties inductive: a won match has no open window (so the unguarded  *)
(* callUno and catchUno cannot touch it), and a player who has drawn holds *)
(* the drawn card and owns no window (so no penalty can reach it).         *)
(***************************************************************************)
IInv ==
  /\ TypeOK
  /\ CardsInOnePlace
  /\ WinnerIffEmptyHand
  /\ winner # None => unoState = None
  /\ winner = None /\ hasDrawnThisTurn =>
       /\ drawnCardThisTurn \in players[currentPlayerIndex]
       /\ unoState # None => unoState.playerId # currentPlayerIndex

-----------------------------------------------------------------------------
\* Drawing moves cards: what was in the two piles is afterwards taken or in the piles, in one
\* place each, and a draw that comes up short leaves both piles empty.
LEMMA DrawsMoveCards ==
  ASSUME NEW pile, NEW rest, NEW k \in Nat,
         IsFiniteSet(pile), IsFiniteSet(rest), pile \cap rest = {},
         NEW d \in Draws(pile, rest, k)
  PROVE  /\ d.taken \cup d.pile \cup d.rest = pile \cup rest
         /\ d.taken \cap d.pile = {}
         /\ d.taken \cap d.rest = {}
         /\ d.pile \cap d.rest = {}
         /\ Short(d, k) => d.pile = {} /\ d.rest = {}
<1>0. Cardinality(pile) \in Nat /\ Cardinality(rest) \in Nat
  BY FS_CardinalityType
<1>1. CASE Cardinality(pile) >= k
  <2>1. PICK t \in kSubset(k, pile) : d = [taken |-> t, pile |-> pile \ t, rest |-> rest]
    BY <1>1 DEF Draws
  <2>2. t \subseteq pile /\ Cardinality(t) = k
    BY DEF kSubset
  <2> QED
    BY <2>1, <2>2 DEF Short
<1>2. CASE ~(Cardinality(pile) >= k) /\ Cardinality(pile) + Cardinality(rest) >= k
  <2>1. PICK t \in kSubset(k - Cardinality(pile), rest) :
          d = [taken |-> pile \cup t, pile |-> rest \ t, rest |-> {}]
    BY <1>2 DEF Draws
  <2>2. t \subseteq rest /\ Cardinality(t) = k - Cardinality(pile)
    BY DEF kSubset
  <2>3. Cardinality(pile \cup t) = k
    <3>1. IsFiniteSet(t)
      BY <2>2, FS_Subset
    <3>2. pile \cap t = {}
      BY <2>2
    <3>3. Cardinality(pile \cup t) = Cardinality(pile) + Cardinality(t) - Cardinality(pile \cap t)
      BY <3>1, FS_Union
    <3> QED
      BY <1>0, <2>2, <3>2, <3>3, FS_EmptySet
  <2> QED
    BY <2>1, <2>2, <2>3 DEF Short
<1>3. CASE ~(Cardinality(pile) >= k) /\ ~(Cardinality(pile) + Cardinality(rest) >= k)
  BY <1>3 DEF Draws
<1> QED
  BY <1>1, <1>2, <1>3

\* Going round the table stays at the table, and never ends where it began.
LEMMA AdvanceType ==
  ASSUME NEW i \in Player, NEW dir \in {1, -1}
  PROVE  Advance(i, dir) \in Player /\ Advance(i, dir) # i
BY PlayersAssumption DEF Advance, Player

\* A card makes the next player draw a number of cards.
LEMMA DrawAmountType ==
  ASSUME NEW c
  PROVE  DrawAmount(c) \in Nat
BY DEF DrawAmount

\* A part of the deck is finite.
LEMMA PartFinite ==
  ASSUME NEW S \in SUBSET Deck
  PROVE  IsFiniteSet(S)
BY DeckAssumption, FS_Subset

-----------------------------------------------------------------------------
\* CardsInOnePlace of any hands and piles, so that the parts of one action compose.
Placed(h, pile, top, rest) ==
  /\ \A p, q \in Player : p # q => h[p] \cap h[q] = {}
  /\ \A p \in Player : h[p] \cap (pile \cup rest \cup {top}) = {}
  /\ pile \cap rest = {}
  /\ top \notin pile \cup rest

\* Handing some or all of the drawn cards to a player (to nobody, if q is None) keeps every
\* card in one place and takes no card from a hand.
LEMMA TakePlaced ==
  ASSUME NEW h \in [Player -> SUBSET Deck], NEW pile \in SUBSET Deck, NEW top,
         NEW rest \in SUBSET Deck, Placed(h, pile, top, rest),
         NEW q, NEW k \in Nat, NEW d \in Draws(pile, rest, k), NEW T \in SUBSET d.taken
  PROVE  /\ Give(h, q, T) \in [Player -> SUBSET Deck]
         /\ d.pile \in SUBSET Deck /\ d.rest \in SUBSET Deck
         /\ Placed(Give(h, q, T), d.pile, top, d.rest)
         /\ \A p \in Player : h[p] \subseteq Give(h, q, T)[p]
<1>1. IsFiniteSet(pile) /\ IsFiniteSet(rest) /\ pile \cap rest = {}
  BY PartFinite DEF Placed
<1>2. /\ d.taken \cup d.pile \cup d.rest = pile \cup rest
      /\ d.taken \cap d.pile = {} /\ d.taken \cap d.rest = {} /\ d.pile \cap d.rest = {}
  BY <1>1, DrawsMoveCards
<1>3. \A p \in Player : Give(h, q, T)[p] = IF p = q THEN h[p] \cup T ELSE h[p]
  BY DEF Give
<1>4. Give(h, q, T) \in [Player -> SUBSET Deck]
  BY <1>2 DEF Give
<1>5. Placed(Give(h, q, T), d.pile, top, d.rest)
  <2>1. \A p \in Player : h[p] \cap (pile \cup rest \cup {top}) = {}
    BY DEF Placed
  <2>2. \A p, r \in Player : p # r => Give(h, q, T)[p] \cap Give(h, q, T)[r] = {}
    <3> SUFFICES ASSUME NEW p \in Player, NEW r \in Player, p # r
                 PROVE  Give(h, q, T)[p] \cap Give(h, q, T)[r] = {}
      OBVIOUS
    <3>1. h[p] \cap h[r] = {}
      BY DEF Placed
    <3>2. T \cap h[p] = {} /\ T \cap h[r] = {}
      BY <1>2, <2>1
    <3> QED
      BY <1>3, <3>1, <3>2
  <2>3. \A p \in Player : Give(h, q, T)[p] \cap (d.pile \cup d.rest \cup {top}) = {}
    <3> SUFFICES ASSUME NEW p \in Player
                 PROVE  Give(h, q, T)[p] \cap (d.pile \cup d.rest \cup {top}) = {}
      OBVIOUS
    <3>1. h[p] \cap (d.pile \cup d.rest \cup {top}) = {}
      BY <1>2, <2>1
    <3>2. T \cap (d.pile \cup d.rest \cup {top}) = {}
      BY <1>2 DEF Placed
    <3> QED
      BY <1>3, <3>1, <3>2
  <2> QED
    BY <1>2, <2>2, <2>3 DEF Placed
<1> QED
  BY <1>2, <1>3, <1>4, <1>5

\* Laying a card moves it from its hand to the top, and the old top under it.
LEMMA LayPlaced ==
  ASSUME NEW h \in [Player -> SUBSET Deck], NEW pile \in SUBSET Deck, NEW top \in Deck,
         NEW rest \in SUBSET Deck, Placed(h, pile, top, rest),
         NEW p \in Player, NEW c \in h[p]
  PROVE  /\ [h EXCEPT ![p] = @ \ {c}] \in [Player -> SUBSET Deck]
         /\ rest \cup {top} \in SUBSET Deck
         /\ Placed([h EXCEPT ![p] = @ \ {c}], pile, c, rest \cup {top})
BY DEF Placed

\* nextTurn leaves a legal turn with nothing drawn.
LEMMA NextTurnType ==
  ASSUME TypeOK, NEW dir \in {1, -1}, NEW steps \in {1, 2}, NextTurn(dir, steps)
  PROVE  /\ currentPlayerIndex' \in Player
         /\ turnNonce' \in Nat /\ turnNonce' > turnNonce
         /\ hasDrawnThisTurn' = FALSE /\ drawnCardThisTurn' = None
BY AdvanceType DEF NextTurn, TypeOK

\* Whom a play penalises is another player, or nobody.
LEMMA PenaltyForType ==
  ASSUME TypeOK, NEW p \in Player
  PROVE  PenaltyFor(p) \in (Player \ {p}) \cup {None}
BY DEF PenaltyFor, TypeOK, UnoWindow

-----------------------------------------------------------------------------
\* The constructor establishes the invariant: the deal hands out distinct cards and an odd
\* one stays for the discard pile.
LEMMA InitIInv == Init => IInv
<1> SUFFICES ASSUME Init PROVE IInv
  OBVIOUS
<1>1. PICK deal \in [Player -> kSubset(CARDS_PER_PLAYER, Deck)] :
        /\ \A p, q \in Player : p # q => deal[p] \cap deal[q] = {}
        /\ \E first \in {c \in Deck \ UNION {deal[p] : p \in Player} : c.value # "WILD_DRAW_FOUR"} :
             StartGame(deal, (Deck \ UNION {deal[p] : p \in Player}) \ {first}, first)
  BY DEF Init
<1> DEFINE rest == Deck \ UNION {deal[p] : p \in Player}
<1>2. PICK first \in rest : StartGame(deal, rest \ {first}, first)
  BY <1>1
<1> DEFINE k == IF first.value = "DRAW_TWO" THEN 2 ELSE 0
<1>3. PICK d \in Draws(rest \ {first}, {}, k) :
        players = Give(deal, 0, d.taken) /\ drawPile = d.pile
  BY <1>2 DEF StartGame
<1>4. \A p \in Player : deal[p] \in SUBSET Deck /\ deal[p] # {}
  <2> TAKE p \in Player
  <2>1. deal[p] \subseteq Deck /\ Cardinality(deal[p]) = CARDS_PER_PLAYER
    BY DEF kSubset
  <2> QED
    BY <2>1, FS_EmptySet, RulesAssumption
<1>5. deal \in [Player -> SUBSET Deck] /\ rest \ {first} \in SUBSET Deck
  BY <1>4
<1>6. Placed(deal, rest \ {first}, first, {})
  BY <1>1 DEF Placed
<1>7. /\ players \in [Player -> SUBSET Deck]
      /\ d.pile \in SUBSET Deck
      /\ Placed(players, d.pile, first, d.rest)
      /\ \A p \in Player : deal[p] \subseteq players[p]
  <2>1. k \in Nat /\ {} \in SUBSET Deck /\ d.taken \in SUBSET d.taken
    OBVIOUS
  <2> HIDE DEF k, rest
  <2> QED
    BY <1>3, <1>5, <1>6, <2>1, TakePlaced, ZenonT(30)
<1>8. topCard = first /\ buried = {}
  BY <1>2 DEF StartGame
<1>9. TypeOK
  <2>1. currentPlayerIndex \in Player /\ turnNonce \in Nat
    <3>1. 0 \in Player /\ NumPlayers - 1 \in Player
      BY PlayersAssumption DEF Player
    <3>2. Advance(0, 1) \in Player
      BY <3>1, AdvanceType
    <3> QED
      BY <1>2, <3>1, <3>2 DEF StartGame
  <2>2. first \in Card /\ first \in Deck
    BY DeckAssumption DEF StandardDeck
  <2>3. currentColor \in StandardColor
    BY <1>2, <2>2 DEF StartGame, Card
  <2> QED
    BY <1>2, <1>3, <1>7, <1>8, <2>1, <2>2, <2>3 DEF TypeOK, Init, StartGame
<1>10. CardsInOnePlace
  BY <1>3, <1>7, <1>8 DEF Placed, CardsInOnePlace
<1>11. WinnerIffEmptyHand
  BY <1>4, <1>7, NoneAssumption DEF WinnerIffEmptyHand, Init
<1> QED
  BY <1>9, <1>10, <1>11 DEF IInv, Init

-----------------------------------------------------------------------------
\* The penalty part of a play: the player on turn keeps its hand, nobody loses a card.
LEMMA PenaltyPlaced ==
  ASSUME IInv, NEW p \in Player, NEW pen \in PenaltyDraws(p)
  PROVE  /\ Give(players, PenaltyFor(p), pen.taken) \in [Player -> SUBSET Deck]
         /\ pen.pile \in SUBSET Deck /\ pen.rest \in SUBSET Deck
         /\ Placed(Give(players, PenaltyFor(p), pen.taken), pen.pile, topCard, pen.rest)
         /\ \A q \in Player : players[q] \subseteq Give(players, PenaltyFor(p), pen.taken)[q]
         /\ Give(players, PenaltyFor(p), pen.taken)[p] = players[p]
<1> DEFINE k == IF PenaltyFor(p) = None THEN 0 ELSE UNO_PENALTY_CARDS
<1>1. k \in Nat
  BY RulesAssumption
<1>2. pen \in Draws(drawPile, buried, k) /\ pen.taken \in SUBSET pen.taken
  BY DEF PenaltyDraws
<1>3. /\ players \in [Player -> SUBSET Deck] /\ drawPile \in SUBSET Deck
      /\ buried \in SUBSET Deck /\ Placed(players, drawPile, topCard, buried)
  BY DEF IInv, TypeOK, CardsInOnePlace, Placed
<1>4. Give(players, PenaltyFor(p), pen.taken)[p] = players[p]
  BY PenaltyForType, NoneAssumption DEF Give, IInv
<1> HIDE DEF k
<1> QED
  BY <1>1, <1>2, <1>3, <1>4, TakePlaced, ZenonT(30)

\* A play that throws out of the penalty draw preserves the invariant.
LEMMA PlayBlockedIInv ==
  ASSUME IInv, NEW p \in Player, NEW c \in players[p], PlayBlocked(p, c)
  PROVE  IInv'
<1>1. PICK pen \in PenaltyDraws(p) :
        /\ players' = Give(players, PenaltyFor(p), pen.taken)
        /\ drawPile' = pen.pile /\ buried' = pen.rest
  BY DEF PlayBlocked
<1>2. /\ players' \in [Player -> SUBSET Deck]
      /\ drawPile' \in SUBSET Deck /\ buried' \in SUBSET Deck
      /\ Placed(players', drawPile', topCard, buried')
      /\ \A q \in Player : players[q] \subseteq players'[q]
      /\ players'[p] = players[p]
  BY <1>1, PenaltyPlaced
<1>3. winner = None /\ currentPlayerIndex = p
  BY DEF PlayBlocked, MayPlay, OnTurn
<1>4. TypeOK'
  BY <1>2 DEF IInv, TypeOK, PlayBlocked
<1>5. CardsInOnePlace'
  BY <1>2 DEF CardsInOnePlace, Placed, PlayBlocked
<1>6. WinnerIffEmptyHand'
  BY <1>2, <1>3, NoneAssumption DEF IInv, WinnerIffEmptyHand, PlayBlocked
<1> QED
  BY <1>2, <1>3, <1>4, <1>5, <1>6 DEF IInv, PlayBlocked

\* What Lay does to the cards, for PlayLast and PlayOn.
LEMMA LayKeeps ==
  ASSUME IInv, NEW p \in Player, NEW c \in players[p], NEW color,
         NEW pen \in PenaltyDraws(p), Lay(p, c, color, pen)
  PROVE  /\ HandsAfterLay(p, c, pen) \in [Player -> SUBSET Deck]
         /\ pen.pile \in SUBSET Deck /\ pen.rest \cup {topCard} \in SUBSET Deck
         /\ Placed(HandsAfterLay(p, c, pen), pen.pile, c, pen.rest \cup {topCard})
         /\ HandsAfterLay(p, c, pen)[p] = players[p] \ {c}
         /\ \A q \in Player \ {p} : HandsAfterLay(p, c, pen)[q] # {}
         /\ topCard' = c /\ c \in Deck /\ currentColor' \in StandardColor
         /\ winner = None /\ currentPlayerIndex = p
<1> DEFINE h == Give(players, PenaltyFor(p), pen.taken)
<1>1. /\ h \in [Player -> SUBSET Deck] /\ pen.pile \in SUBSET Deck /\ pen.rest \in SUBSET Deck
      /\ Placed(h, pen.pile, topCard, pen.rest)
      /\ \A q \in Player : players[q] \subseteq h[q]
      /\ h[p] = players[p]
  BY PenaltyPlaced
<1>2. topCard \in Deck /\ c \in Deck
  BY DEF IInv, TypeOK
<1>3. HandsAfterLay(p, c, pen) = [h EXCEPT ![p] = @ \ {c}]
  BY DEF HandsAfterLay
<1>4. winner = None /\ currentPlayerIndex = p
  BY DEF Lay, MayPlay, OnTurn
<1>5. \A q \in Player : players[q] # {}
  BY <1>4, NoneAssumption DEF IInv, WinnerIffEmptyHand
<1>6. topCard' = c /\ currentColor' \in StandardColor
  <2>1. c.color = "WILD" \/ c.color \in StandardColor
    BY <1>2, DeckAssumption DEF StandardDeck, Card
  <2> QED
    BY <2>1 DEF Lay
<1> HIDE DEF h
<1>7. /\ [h EXCEPT ![p] = @ \ {c}] \in [Player -> SUBSET Deck]
      /\ pen.rest \cup {topCard} \in SUBSET Deck
      /\ Placed([h EXCEPT ![p] = @ \ {c}], pen.pile, c, pen.rest \cup {topCard})
  BY <1>1, <1>2, LayPlaced
<1> QED
  BY <1>1, <1>2, <1>3, <1>4, <1>5, <1>6, <1>7

\* The winning play preserves the invariant: one hand is empty, the others are not.
LEMMA PlayLastIInv ==
  ASSUME IInv, NEW p \in Player, NEW c \in players[p], NEW color, PlayLast(p, c, color)
  PROVE  IInv'
<1>1. PICK pen \in PenaltyDraws(p) :
        /\ Lay(p, c, color, pen)
        /\ players' = HandsAfterLay(p, c, pen)
        /\ drawPile' = pen.pile /\ buried' = pen.rest \cup {topCard}
  BY DEF PlayLast
<1>2. /\ players' \in [Player -> SUBSET Deck]
      /\ drawPile' \in SUBSET Deck /\ buried' \in SUBSET Deck
      /\ Placed(players', drawPile', topCard', buried')
      /\ players'[p] = players[p] \ {c}
      /\ \A q \in Player \ {p} : players'[q] # {}
      /\ topCard' \in Deck /\ currentColor' \in StandardColor
  BY <1>1, LayKeeps
<1>3. players[p] = {c} /\ winner' = p /\ unoState' = None
  BY DEF PlayLast
<1>4. TypeOK'
  BY <1>2, <1>3 DEF IInv, TypeOK, PlayLast
<1>5. CardsInOnePlace'
  BY <1>2 DEF CardsInOnePlace, Placed
<1>6. WinnerIffEmptyHand'
  BY <1>2, <1>3 DEF WinnerIffEmptyHand
<1> QED
  BY <1>3, <1>4, <1>5, <1>6, NoneAssumption DEF IInv

\* A play that leaves a card in hand preserves the invariant, a short forced draw included,
\* and moves the turn counter on.
LEMMA PlayOnIInv ==
  ASSUME IInv, NEW p \in Player, NEW c \in players[p], NEW color, PlayOn(p, c, color)
  PROVE  IInv' /\ turnNonce' > turnNonce
<1> DEFINE dir == IF c.value = "REVERSE" THEN -playDirection ELSE playDirection
           k == DrawAmount(c)
<1>1. PICK pen \in PenaltyDraws(p) :
        /\ Lay(p, c, color, pen)
        /\ players[p] # {c}
        /\ unoState' = WindowAfterPlay(p, players[p] \ {c})
        /\ playDirection' = dir
        /\ \E d \in Draws(pen.pile, pen.rest \cup {topCard}, k) :
             /\ players' = Give(HandsAfterLay(p, c, pen), Advance(currentPlayerIndex, dir),
                                IF Short(d, k) THEN {} ELSE d.taken)
             /\ drawPile' = d.pile /\ buried' = d.rest
             /\ NextTurn(dir, IF SkipsNext(c) /\ ~Short(d, k) THEN 2 ELSE 1)
        /\ UNCHANGED winner
  BY DEF PlayOn
<1> DEFINE h == HandsAfterLay(p, c, pen)
           rest == pen.rest \cup {topCard}
           target == Advance(currentPlayerIndex, dir)
<1>2. PICK d \in Draws(pen.pile, rest, k) :
        /\ players' = Give(h, target, IF Short(d, k) THEN {} ELSE d.taken)
        /\ drawPile' = d.pile /\ buried' = d.rest
        /\ NextTurn(dir, IF SkipsNext(c) /\ ~Short(d, k) THEN 2 ELSE 1)
  BY <1>1
<1>3. /\ h \in [Player -> SUBSET Deck] /\ pen.pile \in SUBSET Deck /\ rest \in SUBSET Deck
      /\ Placed(h, pen.pile, c, rest)
      /\ h[p] = players[p] \ {c}
      /\ \A q \in Player \ {p} : h[q] # {}
      /\ topCard' = c /\ c \in Deck /\ currentColor' \in StandardColor
      /\ winner = None
  BY <1>1, LayKeeps
<1>4. h[p] # {}
  BY <1>1, <1>3
<1>5. k \in Nat /\ (IF Short(d, k) THEN {} ELSE d.taken) \in SUBSET d.taken
  BY DrawAmountType
<1>6. dir \in {1, -1}
  BY DEF IInv, TypeOK
<1>7. /\ players' \in [Player -> SUBSET Deck]
      /\ drawPile' \in SUBSET Deck /\ buried' \in SUBSET Deck
      /\ Placed(players', drawPile', c, buried')
      /\ \A q \in Player : h[q] \subseteq players'[q]
  <2> HIDE DEF h, rest, k, target
  <2> QED
    BY <1>2, <1>3, <1>5, TakePlaced, ZenonT(30)
<1>8. /\ currentPlayerIndex' \in Player
      /\ turnNonce' \in Nat /\ turnNonce' > turnNonce
      /\ hasDrawnThisTurn' = FALSE /\ drawnCardThisTurn' = None
  <2>1. TypeOK /\ (IF SkipsNext(c) /\ ~Short(d, k) THEN 2 ELSE 1) \in {1, 2}
    BY DEF IInv
  <2> HIDE DEF k, dir
  <2> QED
    BY <1>2, <1>6, <2>1, NextTurnType
<1>9. unoState' \in UnoWindow \cup {None}
  BY <1>1 DEF WindowAfterPlay, UnoWindow, IInv, TypeOK
<1>10. TypeOK'
  BY <1>1, <1>3, <1>6, <1>7, <1>8, <1>9 DEF TypeOK, IInv
<1>11. CardsInOnePlace'
  BY <1>3, <1>7 DEF CardsInOnePlace, Placed
<1>12. WinnerIffEmptyHand'
  BY <1>1, <1>3, <1>4, <1>7, NoneAssumption DEF WinnerIffEmptyHand
<1> QED
  BY <1>1, <1>3, <1>8, <1>10, <1>11, <1>12 DEF IInv

\* Taking k cards from the piles into p's hand, for the three actions that do just that.
LEMMA TakeKeeps ==
  ASSUME IInv, winner = None, NEW p \in Player, NEW k \in Nat,
         NEW d \in Draws(drawPile, buried, k), NEW T \in SUBSET d.taken,
         players' = Give(players, p, T), drawPile' = d.pile, buried' = d.rest,
         UNCHANGED <<topCard, winner>>
  PROVE  /\ players' \in [Player -> SUBSET Deck]
         /\ drawPile' \in SUBSET Deck /\ buried' \in SUBSET Deck
         /\ CardsInOnePlace'
         /\ WinnerIffEmptyHand'
         /\ players[p] \subseteq players'[p]
         /\ T \subseteq players'[p]
<1>1. /\ players \in [Player -> SUBSET Deck] /\ drawPile \in SUBSET Deck
      /\ buried \in SUBSET Deck /\ Placed(players, drawPile, topCard, buried)
  BY DEF IInv, TypeOK, CardsInOnePlace, Placed
<1>2. /\ players' \in [Player -> SUBSET Deck]
      /\ drawPile' \in SUBSET Deck /\ buried' \in SUBSET Deck
      /\ Placed(players', drawPile', topCard, buried')
      /\ \A q \in Player : players[q] \subseteq players'[q]
  BY <1>1, TakePlaced
<1>3. T \subseteq players'[p]
  BY DEF Give
<1>4. WinnerIffEmptyHand'
  BY <1>2, NoneAssumption DEF IInv, WinnerIffEmptyHand
<1> QED
  BY <1>2, <1>3, <1>4 DEF CardsInOnePlace, Placed

\* drawCard preserves the invariant: the drawn card is in the hand and the window is closed.
LEMMA DrawCardIInv ==
  ASSUME IInv, NEW p \in Player, DrawCard(p)
  PROVE  IInv'
<1>1. PICK d \in Draws(drawPile, buried, 1) : \E c \in d.taken :
        /\ players' = Give(players, p, {c})
        /\ drawPile' = d.pile /\ buried' = d.rest
        /\ IF CanPlayCard(c)
           THEN /\ hasDrawnThisTurn' = TRUE /\ drawnCardThisTurn' = c
                /\ UNCHANGED <<currentPlayerIndex, turnNonce>>
           ELSE NextTurn(playDirection, 1)
  BY DEF DrawCard
<1>2. PICK c \in d.taken :
        /\ players' = Give(players, p, {c})
        /\ drawPile' = d.pile /\ buried' = d.rest
        /\ IF CanPlayCard(c)
           THEN /\ hasDrawnThisTurn' = TRUE /\ drawnCardThisTurn' = c
                /\ UNCHANGED <<currentPlayerIndex, turnNonce>>
           ELSE NextTurn(playDirection, 1)
  BY <1>1
<1>3. winner = None /\ winner' = None /\ currentPlayerIndex = p /\ topCard' = topCard
  BY DEF DrawCard, OnTurn
<1>4. /\ players' \in [Player -> SUBSET Deck]
      /\ drawPile' \in SUBSET Deck /\ buried' \in SUBSET Deck
      /\ CardsInOnePlace' /\ WinnerIffEmptyHand'
      /\ c \in players'[p] /\ c \in Deck
  <2>1. {c} \in SUBSET d.taken /\ 1 \in Nat
    OBVIOUS
  <2> QED
    BY <1>2, <1>3, <2>1, TakeKeeps
<1>5. unoState' \in UnoWindow \cup {None} /\ (unoState' # None => unoState'.playerId # p)
  BY DEF DrawCard, WindowAfterDraw, IInv, TypeOK
<1>6. CASE CanPlayCard(c)
  BY <1>2, <1>3, <1>4, <1>5, <1>6 DEF IInv, TypeOK, DrawCard
<1>7. CASE ~CanPlayCard(c)
  <2>1. /\ currentPlayerIndex' \in Player /\ turnNonce' \in Nat
        /\ hasDrawnThisTurn' = FALSE /\ drawnCardThisTurn' = None
    BY <1>2, <1>7, NextTurnType DEF IInv, TypeOK
  <2> QED
    BY <1>3, <1>4, <1>5, <2>1 DEF IInv, TypeOK, DrawCard
<1> QED
  BY <1>6, <1>7

\* pass preserves the invariant and moves the turn counter on.
LEMMA PassIInv ==
  ASSUME IInv, NEW p \in Player, Pass(p)
  PROVE  IInv' /\ turnNonce' > turnNonce
<1>1. /\ currentPlayerIndex' \in Player /\ turnNonce' \in Nat /\ turnNonce' > turnNonce
      /\ hasDrawnThisTurn' = FALSE /\ drawnCardThisTurn' = None
  BY NextTurnType DEF Pass, IInv, TypeOK
<1>2. CardsInOnePlace' /\ WinnerIffEmptyHand'
  BY DEF Pass, IInv, CardsInOnePlace, WinnerIffEmptyHand
<1> QED
  BY <1>1, <1>2 DEF Pass, IInv, TypeOK

\* applyTurnTimeout preserves the invariant: it hands out a card at most, so it makes no winner.
LEMMA ApplyTurnTimeoutIInv ==
  ASSUME IInv, NEW p \in Player, ApplyTurnTimeout(p)
  PROVE  IInv' /\ turnNonce' > turnNonce
<1> DEFINE k == IF hasDrawnThisTurn THEN 0 ELSE 1
<1>1. PICK d \in Draws(drawPile, buried, k) :
        players' = Give(players, p, d.taken) /\ drawPile' = d.pile /\ buried' = d.rest
  BY DEF ApplyTurnTimeout
<1>2. winner = None /\ UNCHANGED <<topCard, winner>> /\ k \in Nat /\ d.taken \in SUBSET d.taken
  BY DEF ApplyTurnTimeout, OnTurn
<1>3. /\ players' \in [Player -> SUBSET Deck]
      /\ drawPile' \in SUBSET Deck /\ buried' \in SUBSET Deck
      /\ CardsInOnePlace' /\ WinnerIffEmptyHand'
  <2> HIDE DEF k
  <2> QED
    BY <1>1, <1>2, TakeKeeps
<1>4. /\ currentPlayerIndex' \in Player /\ turnNonce' \in Nat /\ turnNonce' > turnNonce
      /\ hasDrawnThisTurn' = FALSE /\ drawnCardThisTurn' = None
  BY NextTurnType DEF ApplyTurnTimeout, IInv, TypeOK
<1> QED
  BY <1>2, <1>3, <1>4 DEF ApplyTurnTimeout, IInv, TypeOK

\* callUno preserves the invariant: it only marks the window.
LEMMA CallUnoIInv ==
  ASSUME IInv, NEW p \in Player, CallUno(p)
  PROVE  IInv'
<1>1. unoState' \in UnoWindow /\ unoState'.playerId = unoState.playerId /\ unoState # None
  BY DEF CallUno, IInv, TypeOK, UnoWindow
<1>2. CardsInOnePlace' /\ WinnerIffEmptyHand'
  BY DEF CallUno, IInv, CardsInOnePlace, WinnerIffEmptyHand
<1> QED
  BY <1>1, <1>2 DEF CallUno, IInv, TypeOK

\* A catch never reaches the player who has drawn this turn.
LEMMA CatchUnoIInv ==
  ASSUME IInv, NEW p \in Player, CatchUno(p)
  PROVE  /\ IInv'
         /\ hasDrawnThisTurn => players'[currentPlayerIndex] = players[currentPlayerIndex]
<1>1. PICK d \in Draws(drawPile, buried, UNO_PENALTY_CARDS) :
        /\ players' = Give(players, p, d.taken) /\ drawPile' = d.pile /\ buried' = d.rest
        /\ unoState' = IF Short(d, UNO_PENALTY_CARDS) THEN unoState ELSE None
  BY DEF CatchUno
<1>2. /\ unoState # None /\ unoState.playerId = p
      /\ UNCHANGED <<topCard, currentPlayerIndex, playDirection, currentColor, winner,
                     hasDrawnThisTurn, drawnCardThisTurn, turnNonce>>
  BY DEF CatchUno
<1>3. winner = None
  BY <1>2 DEF IInv
<1>4. /\ players' \in [Player -> SUBSET Deck]
      /\ drawPile' \in SUBSET Deck /\ buried' \in SUBSET Deck
      /\ CardsInOnePlace' /\ WinnerIffEmptyHand'
  <2>1. d.taken \in SUBSET d.taken /\ UNO_PENALTY_CARDS \in Nat
    BY RulesAssumption
  <2> QED
    BY <1>1, <1>2, <1>3, <2>1, TakeKeeps
<1>5. hasDrawnThisTurn => p # currentPlayerIndex
  BY <1>2, <1>3 DEF IInv
<1>6. hasDrawnThisTurn => players'[currentPlayerIndex] = players[currentPlayerIndex]
  BY <1>1, <1>5 DEF Give, IInv, TypeOK
<1>7. TypeOK'
  BY <1>1, <1>2, <1>4 DEF IInv, TypeOK
<1> QED
  BY <1>1, <1>2, <1>3, <1>4, <1>6, <1>7 DEF IInv

-----------------------------------------------------------------------------
\* A stuttering step preserves the invariant.
LEMMA StutterIInv == IInv /\ UNCHANGED vars => IInv'
BY DEF IInv, TypeOK, CardsInOnePlace, WinnerIffEmptyHand, vars

\* Every step preserves the invariant, none is possible after a win, and none pushes a card
\* on the drawn one while the turn lasts.
LEMMA StepIInv ==
  ASSUME IInv, Next
  PROVE  /\ IInv'
         /\ winner = None
         /\ hasDrawnThisTurn /\ turnNonce' = turnNonce
              => players'[currentPlayerIndex] \subseteq players[currentPlayerIndex]
<1>0. turnNonce \in Nat
  BY DEF IInv, TypeOK
<1>1. ASSUME NEW p \in Player, NEW c \in players[p], PlayBlocked(p, c)
      PROVE  /\ IInv' /\ winner = None
             /\ players'[currentPlayerIndex] = players[currentPlayerIndex]
  <2>1. winner = None /\ currentPlayerIndex = p
    BY <1>1 DEF PlayBlocked, MayPlay, OnTurn
  <2>2. players'[p] = players[p]
    BY <1>1, PenaltyPlaced DEF PlayBlocked
  <2> QED
    BY <1>1, <2>1, <2>2, PlayBlockedIInv
<1>2. ASSUME NEW p \in Player, NEW c \in players[p], NEW color, PlayLast(p, c, color)
      PROVE  /\ IInv' /\ winner = None
             /\ players'[currentPlayerIndex] \subseteq players[currentPlayerIndex]
  <2>1. PICK pen \in PenaltyDraws(p) : Lay(p, c, color, pen) /\ players' = HandsAfterLay(p, c, pen)
    BY <1>2 DEF PlayLast
  <2>2. winner = None /\ currentPlayerIndex = p /\ players'[p] = players[p] \ {c}
    BY <2>1, LayKeeps
  <2> QED
    BY <1>2, <2>2, PlayLastIInv
<1>3. ASSUME NEW p \in Player, NEW c \in players[p], NEW color, PlayOn(p, c, color)
      PROVE  IInv' /\ winner = None /\ turnNonce' > turnNonce
  BY <1>3, PlayOnIInv DEF PlayOn, Lay, MayPlay, OnTurn
<1>4. ASSUME NEW p \in Player, DrawCard(p)
      PROVE  IInv' /\ winner = None /\ ~hasDrawnThisTurn
  BY <1>4, DrawCardIInv DEF DrawCard, OnTurn
<1>5. ASSUME NEW p \in Player, Pass(p)
      PROVE  IInv' /\ winner = None /\ turnNonce' > turnNonce
  BY <1>5, PassIInv DEF Pass, OnTurn
<1>6. ASSUME NEW p \in Player, ApplyTurnTimeout(p)
      PROVE  IInv' /\ winner = None /\ turnNonce' > turnNonce
  BY <1>6, ApplyTurnTimeoutIInv DEF ApplyTurnTimeout, OnTurn
<1>7. ASSUME NEW p \in Player, CallUno(p)
      PROVE  IInv' /\ winner = None /\ players' = players
  BY <1>7, CallUnoIInv DEF CallUno, IInv
<1>8. ASSUME NEW p \in Player, CatchUno(p)
      PROVE  /\ IInv' /\ winner = None
             /\ hasDrawnThisTurn => players'[currentPlayerIndex] = players[currentPlayerIndex]
  BY <1>8, CatchUnoIInv DEF CatchUno, IInv
<1> QED
  BY <1>0, <1>1, <1>2, <1>3, <1>4, <1>5, <1>6, <1>7, <1>8 DEF Next

\* Every match keeps the inductive invariant, whatever the table size and the deck.
THEOREM Invariance == Spec => []IInv
<1>1. IInv /\ [Next]_vars => IInv'
  BY StepIInv, StutterIInv
<1> QED
  BY InitIInv, <1>1, PTL DEF Spec

\* Every variable keeps its type: the player on turn is at the table, hands and piles are
\* cards of the deck.
THEOREM TypeCorrect == Spec => []TypeOK
<1>1. IInv => TypeOK
  BY DEF IInv
<1> QED
  BY Invariance, <1>1, PTL

\* No card is ever in two places, whatever is played, drawn, reshuffled or thrown half-way.
THEOREM NoCardTwice == Spec => []CardsInOnePlace
<1>1. IInv => CardsInOnePlace
  BY DEF IInv
<1> QED
  BY Invariance, <1>1, PTL

\* The winner is exactly the player with an empty hand.
THEOREM WinnerCorrect == Spec => []WinnerIffEmptyHand
<1>1. IInv => WinnerIffEmptyHand
  BY DEF IInv
<1> QED
  BY Invariance, <1>1, PTL

\* A won match never changes again.
THEOREM WinIsFinal == Spec => NoMoveAfterWin
<1>1. IInv /\ [Next]_vars => [winner = None]_vars
  BY StepIInv
<1> QED
  BY Invariance, <1>1, PTL DEF Spec, NoMoveAfterWin

\* The last card of the hand of a player who has drawn stays the drawn card.
THEOREM DrawnCardIsLast == Spec => DrawnCardStaysLast
<1>1. IInv /\ [Next]_vars =>
        [hasDrawnThisTurn /\ turnNonce' = turnNonce
           => players'[currentPlayerIndex] \subseteq players[currentPlayerIndex]]_vars
  BY StepIInv
<1> QED
  BY Invariance, <1>1, PTL DEF Spec, DrawnCardStaysLast

-----------------------------------------------------------------------------
\* _drawOne called k times takes k cards, or fewer when the draw comes up short.
LEMMA DrawsCount ==
  ASSUME NEW pile, NEW rest, NEW k \in Nat,
         IsFiniteSet(pile), IsFiniteSet(rest), pile \cap rest = {},
         NEW d \in Draws(pile, rest, k)
  PROVE  /\ IsFiniteSet(d.taken) /\ Cardinality(d.taken) \in Nat
         /\ Cardinality(d.taken) <= k
         /\ ~Short(d, k) => Cardinality(d.taken) = k
<1>0. Cardinality(pile) \in Nat /\ Cardinality(rest) \in Nat
  BY FS_CardinalityType
<1>1. d.taken \subseteq pile \cup rest
  BY DrawsMoveCards
<1>2. IsFiniteSet(d.taken) /\ Cardinality(d.taken) \in Nat
  BY <1>1, FS_Union, FS_Subset, FS_CardinalityType
<1>3. Cardinality(d.taken) <= k
  <2>1. CASE Cardinality(pile) >= k
    <3>1. PICK t \in kSubset(k, pile) : d = [taken |-> t, pile |-> pile \ t, rest |-> rest]
      BY <2>1 DEF Draws
    <3> QED
      BY <3>1 DEF kSubset
  <2>2. CASE ~(Cardinality(pile) >= k) /\ Cardinality(pile) + Cardinality(rest) >= k
    <3>1. PICK t \in kSubset(k - Cardinality(pile), rest) :
            d = [taken |-> pile \cup t, pile |-> rest \ t, rest |-> {}]
      BY <2>2 DEF Draws
    <3>2. t \subseteq rest /\ Cardinality(t) = k - Cardinality(pile)
      BY DEF kSubset
    <3>3. IsFiniteSet(t) /\ pile \cap t = {}
      BY <3>2, FS_Subset
    <3>4. Cardinality(pile \cup t) = Cardinality(pile) + Cardinality(t) - Cardinality(pile \cap t)
      BY <3>3, FS_Union
    <3>5. Cardinality(pile \cap t) = 0
      BY <3>3, FS_EmptySet
    <3> QED
      BY <1>0, <3>1, <3>2, <3>4, <3>5
  <2>3. CASE ~(Cardinality(pile) >= k) /\ ~(Cardinality(pile) + Cardinality(rest) >= k)
    <3>1. d.taken = pile \cup rest
      BY <2>3 DEF Draws
    <3>2. Cardinality(pile \cup rest) = Cardinality(pile) + Cardinality(rest) - Cardinality(pile \cap rest)
      BY FS_Union
    <3>3. Cardinality(pile \cap rest) = 0
      BY FS_EmptySet
    <3> QED
      BY <1>0, <2>3, <3>1, <3>2, <3>3
  <2> QED
    BY <2>1, <2>2, <2>3
<1> QED
  BY <1>2, <1>3 DEF Short

\* A hand grows by as many cards as it is given.
LEMMA GiveCount ==
  ASSUME NEW h \in [Player -> SUBSET Deck], NEW q, NEW T \in SUBSET Deck,
         NEW p \in Player, h[p] \cap T = {}
  PROVE  /\ Cardinality(h[p]) \in Nat /\ Cardinality(T) \in Nat
         /\ Cardinality(Give(h, q, T)[p]) =
              Cardinality(h[p]) + IF p = q THEN Cardinality(T) ELSE 0
<1>1. IsFiniteSet(h[p]) /\ IsFiniteSet(T)
  BY PartFinite
<1>2. Cardinality(h[p]) \in Nat /\ Cardinality(T) \in Nat
  BY <1>1, FS_CardinalityType
<1>3. Cardinality(h[p] \cup T) = Cardinality(h[p]) + Cardinality(T)
  <2>1. Cardinality(h[p] \cup T) = Cardinality(h[p]) + Cardinality(T) - Cardinality(h[p] \cap T)
    BY <1>1, FS_Union
  <2>2. Cardinality(h[p] \cap T) = 0
    BY FS_EmptySet
  <2> QED
    BY <1>2, <2>1, <2>2
<1>4. Give(h, q, T)[p] = IF p = q THEN h[p] \cup T ELSE h[p]
  BY DEF Give
<1> QED
  BY <1>2, <1>3, <1>4

\* What the penalty part of an opponent's completed play costs the owner of an open window:
\* the whole penalty, or nothing once it has called.
LEMMA PenaltyCount ==
  ASSUME IInv, NEW p \in Player, NEW c \in players[p], NEW color,
         NEW pen \in PenaltyDraws(p), Lay(p, c, color, pen),
         NEW q \in Player \ {p}, unoState # None, unoState.playerId = q
  PROVE  /\ Cardinality(players[q]) \in Nat
         /\ Cardinality(HandsAfterLay(p, c, pen)[q]) =
              Cardinality(players[q]) + IF unoState.called THEN 0 ELSE UNO_PENALTY_CARDS
<1> DEFINE h == Give(players, PenaltyFor(p), pen.taken)
           k == IF PenaltyFor(p) = None THEN 0 ELSE UNO_PENALTY_CARDS
<1>1. players \in [Player -> SUBSET Deck] /\ unoState.called \in BOOLEAN
  BY DEF IInv, TypeOK, UnoWindow
<1>2. IsFiniteSet(drawPile) /\ IsFiniteSet(buried) /\ drawPile \cap buried = {}
  BY PartFinite DEF IInv, TypeOK, CardsInOnePlace
<1>3. pen \in Draws(drawPile, buried, k) /\ k \in Nat
  BY RulesAssumption DEF PenaltyDraws
<1>4. pen.taken \subseteq drawPile \cup buried
  <2> HIDE DEF k
  <2> QED
    BY <1>2, <1>3, DrawsMoveCards
<1>5. pen.taken \in SUBSET Deck /\ players[q] \cap pen.taken = {}
  BY <1>4 DEF IInv, TypeOK, CardsInOnePlace
<1>6. HandsAfterLay(p, c, pen)[q] = h[q]
  BY <1>1 DEF HandsAfterLay, Give
<1>7. /\ Cardinality(players[q]) \in Nat /\ Cardinality(pen.taken) \in Nat
      /\ Cardinality(h[q]) =
           Cardinality(players[q]) + IF q = PenaltyFor(p) THEN Cardinality(pen.taken) ELSE 0
  BY <1>1, <1>5, GiveCount
<1>8. CASE unoState.called
  <2>1. PenaltyFor(p) = None /\ q # None
    BY <1>8, NoneAssumption DEF PenaltyFor
  <2> QED
    BY <1>6, <1>7, <1>8, <2>1
<1>9. CASE ~unoState.called
  <2>1. PenaltyFor(p) = q /\ q # None
    BY <1>9, NoneAssumption DEF PenaltyFor
  <2>2. k = UNO_PENALTY_CARDS /\ ~Short(pen, k)
    BY <2>1 DEF Lay, PenaltyShort
  <2>3. Cardinality(pen.taken) = UNO_PENALTY_CARDS
    <3> HIDE DEF k
    <3> QED
      BY <1>2, <1>3, <2>2, DrawsCount
  <2> QED
    BY <1>6, <1>7, <1>9, <2>1, <2>3
<1> QED
  BY <1>1, <1>7, <1>8, <1>9

\* An opponent's completed play settles the window, for one play of Next.
LEMMA PlaySettlesUno ==
  ASSUME IInv, NEW p \in Player, NEW c \in players[p], NEW color,
         PlayLast(p, c, color) \/ PlayOn(p, c, color),
         NEW q \in Player \ {p}, unoState # None, unoState.playerId = q
  PROVE  LET penalty == IF unoState.called THEN 0 ELSE UNO_PENALTY_CARDS
             taken == Cardinality(players'[q]) - Cardinality(players[q])
         IN  penalty <= taken /\ taken <= penalty + DrawAmount(topCard')
<1> DEFINE penalty == IF unoState.called THEN 0 ELSE UNO_PENALTY_CARDS
<1>0. penalty \in Nat
  BY RulesAssumption
<1>1. CASE PlayLast(p, c, color)
  <2>1. PICK pen \in PenaltyDraws(p) : Lay(p, c, color, pen) /\ players' = HandsAfterLay(p, c, pen)
    BY <1>1 DEF PlayLast
  <2>2. /\ Cardinality(players[q]) \in Nat
        /\ Cardinality(players'[q]) = Cardinality(players[q]) + penalty
    BY <2>1, PenaltyCount
  <2>3. DrawAmount(topCard') \in Nat
    BY DrawAmountType
  <2> HIDE DEF penalty
  <2> QED
    BY <1>0, <2>2, <2>3 DEF penalty
<1>2. CASE PlayOn(p, c, color)
  <2> DEFINE k == DrawAmount(c)
             dir == IF c.value = "REVERSE" THEN -playDirection ELSE playDirection
             target == Advance(currentPlayerIndex, dir)
             h(pen) == HandsAfterLay(p, c, pen)
  <2>1. PICK pen \in PenaltyDraws(p) :
          /\ Lay(p, c, color, pen)
          /\ \E d \in Draws(pen.pile, pen.rest \cup {topCard}, k) :
               players' = Give(h(pen), target, IF Short(d, k) THEN {} ELSE d.taken)
    BY <1>2 DEF PlayOn
  <2>2. PICK d \in Draws(pen.pile, pen.rest \cup {topCard}, k) :
          players' = Give(h(pen), target, IF Short(d, k) THEN {} ELSE d.taken)
    BY <2>1
  <2> DEFINE T == IF Short(d, k) THEN {} ELSE d.taken
  <2> HIDE DEF target
  <2>3. /\ h(pen) \in [Player -> SUBSET Deck]
        /\ pen.pile \in SUBSET Deck /\ pen.rest \cup {topCard} \in SUBSET Deck
        /\ Placed(h(pen), pen.pile, c, pen.rest \cup {topCard})
        /\ topCard' = c
    BY <2>1, LayKeeps
  <2>4. /\ IsFiniteSet(pen.pile) /\ IsFiniteSet(pen.rest \cup {topCard})
        /\ pen.pile \cap (pen.rest \cup {topCard}) = {}
    BY <2>3, PartFinite DEF Placed
  <2>5. k \in Nat
    BY DrawAmountType
  <2>6. d.taken \subseteq pen.pile \cup pen.rest \cup {topCard} /\ Cardinality(d.taken) <= k
    <3> HIDE DEF k
    <3> QED
      BY <2>4, <2>5, DrawsMoveCards, DrawsCount
  <2>7. T \in SUBSET Deck /\ h(pen)[q] \cap T = {} /\ Cardinality(T) <= k
    <3>1. d.taken \in SUBSET Deck /\ h(pen)[q] \cap d.taken = {}
      BY <2>3, <2>6 DEF Placed
    <3>2. Cardinality({}) = 0
      BY FS_EmptySet
    <3> QED
      BY <2>5, <2>6, <3>1, <3>2
  <2>8. /\ Cardinality(players[q]) \in Nat
        /\ Cardinality(h(pen)[q]) = Cardinality(players[q]) + penalty
    BY <2>1, PenaltyCount
  <2>9. /\ Cardinality(T) \in Nat
        /\ Cardinality(players'[q]) =
             Cardinality(h(pen)[q]) + IF q = target THEN Cardinality(T) ELSE 0
    <3> HIDE DEF T, h
    <3> QED
      BY <2>2, <2>3, <2>7, GiveCount DEF T
  <2> HIDE DEF T, h, k, penalty
  <2> QED
    BY <1>0, <2>3, <2>5, <2>7, <2>8, <2>9 DEF k, penalty
<1> QED
  BY <1>1, <1>2

\* No other action touches the top of the discard pile.
LEMMA OnlyPlaysCoverTheTop ==
  ASSUME Next, topCard' # topCard
  PROVE  /\ \E c \in players[currentPlayerIndex] : \E color \in StandardColor :
              PlayLast(currentPlayerIndex, c, color) \/ PlayOn(currentPlayerIndex, c, color)
         /\ currentPlayerIndex \in Player
<1>1. PICK p \in Player :
        \E c \in players[p] : \E color \in StandardColor : PlayLast(p, c, color) \/ PlayOn(p, c, color)
  BY DEF Next, PlayBlocked, DrawCard, Pass, ApplyTurnTimeout, CallUno, CatchUno
<1>2. p = currentPlayerIndex
  BY <1>1, ZenonT(30) DEF PlayLast, PlayOn, Lay, MayPlay, OnTurn
<1> QED
  BY <1>1, <1>2

\* Whatever the table size and the deck, an opponent's completed play settles an open window:
\* the full penalty for an owner who never called, none for one who did.
THEOREM UnoIsSettled == Spec => UnoSettledByNextPlay
<1>1. IInv /\ [Next]_vars =>
        [\A q \in Player \ {currentPlayerIndex} :
           unoState # None /\ unoState.playerId = q /\ topCard' # topCard =>
             LET penalty == IF unoState.called THEN 0 ELSE UNO_PENALTY_CARDS
                 taken == Cardinality(players'[q]) - Cardinality(players[q])
             IN  penalty <= taken /\ taken <= penalty + DrawAmount(topCard')]_vars
  BY OnlyPlaysCoverTheTop, PlaySettlesUno
<1> QED
  BY Invariance, <1>1, PTL DEF Spec, UnoSettledByNextPlay

-----------------------------------------------------------------------------
\* InPlay of any hands and piles.
Everywhere(h, pile, top, rest) == (UNION {h[p] : p \in Player}) \cup pile \cup rest \cup {top}

\* Where a card of the match can be.
LEMMA EverywhereMember ==
  ASSUME NEW h, NEW pile, NEW top, NEW rest, NEW x
  PROVE  x \in Everywhere(h, pile, top, rest)
           <=> (\E p \in Player : x \in h[p]) \/ x \in pile \/ x \in rest \/ x = top
<1>1. x \in UNION {h[p] : p \in Player} <=> \E p \in Player : x \in h[p]
  OBVIOUS
<1> QED
  BY <1>1 DEF Everywhere

\* Handing all the drawn cards to a player leaves the same cards in the match.
LEMMA TakeLosesNone ==
  ASSUME NEW h \in [Player -> SUBSET Deck], NEW pile \in SUBSET Deck, NEW top,
         NEW rest \in SUBSET Deck, pile \cap rest = {},
         NEW q, NEW k \in Nat, NEW d \in Draws(pile, rest, k), q \in Player \/ k = 0
  PROVE  Everywhere(Give(h, q, d.taken), d.pile, top, d.rest) = Everywhere(h, pile, top, rest)
<1> DEFINE g == Give(h, q, d.taken)
<1>1. IsFiniteSet(pile) /\ IsFiniteSet(rest)
  BY PartFinite
<1>2. d.taken \cup d.pile \cup d.rest = pile \cup rest
  BY <1>1, DrawsMoveCards
<1>3. q \in Player \/ d.taken = {}
  <2>1. ASSUME k = 0 PROVE Cardinality(d.taken) = 0 /\ IsFiniteSet(d.taken)
    BY <1>1, <2>1, DrawsCount
  <2> QED
    BY <2>1, FS_EmptySet
<1>4. \A p \in Player : g[p] = IF p = q THEN h[p] \cup d.taken ELSE h[p]
  BY DEF Give
<1> HIDE DEF g
<1>5. ASSUME NEW x
      PROVE  (\E p \in Player : x \in g[p]) <=> (\E p \in Player : x \in h[p]) \/ x \in d.taken
  BY <1>3, <1>4
<1>6. ASSUME NEW x
      PROVE  x \in Everywhere(g, d.pile, top, d.rest) <=> x \in Everywhere(h, pile, top, rest)
  BY <1>2, <1>5, EverywhereMember
<1> QED
  BY <1>6 DEF g

\* The hands once p has laid c.
Laid(h, p, c) == [h EXCEPT ![p] = @ \ {c}]

\* Laying a card leaves the same cards in the match.
LEMMA LayLosesNone ==
  ASSUME NEW h \in [Player -> SUBSET Deck], NEW pile, NEW top, NEW rest,
         NEW p \in Player, NEW c \in h[p]
  PROVE  Everywhere(Laid(h, p, c), pile, c, rest \cup {top}) = Everywhere(h, pile, top, rest)
<1> DEFINE g == Laid(h, p, c)
<1>1. \A q \in Player : g[q] = IF q = p THEN h[p] \ {c} ELSE h[q]
  BY DEF Laid
<1> HIDE DEF g
<1>2. ASSUME NEW x
      PROVE  (\E q \in Player : x \in g[q]) \/ x = c <=> \E q \in Player : x \in h[q]
  BY <1>1
<1>3. ASSUME NEW x
      PROVE  x \in Everywhere(g, pile, c, rest \cup {top}) <=> x \in Everywhere(h, pile, top, rest)
  BY <1>2, EverywhereMember
<1> QED
  BY <1>3 DEF g

\* The penalty and the card laid: the same cards are in the match.
LEMMA PlayLosesNone ==
  ASSUME IInv, NEW p \in Player, NEW c \in players[p], NEW pen \in PenaltyDraws(p)
  PROVE  /\ Everywhere(Give(players, PenaltyFor(p), pen.taken), pen.pile, topCard, pen.rest) = InPlay
         /\ Everywhere(HandsAfterLay(p, c, pen), pen.pile, c, pen.rest \cup {topCard}) = InPlay
<1> DEFINE k == IF PenaltyFor(p) = None THEN 0 ELSE UNO_PENALTY_CARDS
           h == Give(players, PenaltyFor(p), pen.taken)
<1>1. pen \in Draws(drawPile, buried, k) /\ k \in Nat
  BY RulesAssumption DEF PenaltyDraws
<1>2. PenaltyFor(p) \in Player \/ k = 0
  BY PenaltyForType DEF IInv
<1>3. /\ players \in [Player -> SUBSET Deck] /\ drawPile \in SUBSET Deck /\ buried \in SUBSET Deck
      /\ drawPile \cap buried = {}
  BY DEF IInv, TypeOK, CardsInOnePlace
<1>4. Everywhere(h, pen.pile, topCard, pen.rest) = Everywhere(players, drawPile, topCard, buried)
  <2> HIDE DEF k
  <2> QED
    BY <1>1, <1>2, <1>3, TakeLosesNone, SMTT(30)
<1>5. Everywhere(players, drawPile, topCard, buried) = InPlay
  BY DEF Everywhere, InPlay
<1>6. h \in [Player -> SUBSET Deck] /\ h[p] = players[p]
  BY PenaltyPlaced
<1>7. Everywhere(Laid(h, p, c), pen.pile, c, pen.rest \cup {topCard})
        = Everywhere(h, pen.pile, topCard, pen.rest)
  <2> HIDE DEF h
  <2> QED
    BY <1>6, LayLosesNone
<1> QED
  BY <1>4, <1>5, <1>7 DEF HandsAfterLay, Laid

\* A play loses cards only in a forced draw that empties both piles.
LEMMA PlayOnLoses ==
  ASSUME IInv, NEW p \in Player, NEW c \in players[p], NEW color, PlayOn(p, c, color)
  PROVE  InPlay' # InPlay => InPlay' \subseteq InPlay /\ drawPile' = {} /\ buried' = {}
<1> DEFINE k == DrawAmount(c)
           dir == IF c.value = "REVERSE" THEN -playDirection ELSE playDirection
           target == Advance(currentPlayerIndex, dir)
           h(pen) == HandsAfterLay(p, c, pen)
           rest(pen) == pen.rest \cup {topCard}
<1>1. PICK pen \in PenaltyDraws(p) :
        /\ Lay(p, c, color, pen)
        /\ \E d \in Draws(pen.pile, rest(pen), k) :
             /\ players' = Give(h(pen), target, IF Short(d, k) THEN {} ELSE d.taken)
             /\ drawPile' = d.pile /\ buried' = d.rest
  BY DEF PlayOn
<1>2. PICK d \in Draws(pen.pile, rest(pen), k) :
        /\ players' = Give(h(pen), target, IF Short(d, k) THEN {} ELSE d.taken)
        /\ drawPile' = d.pile /\ buried' = d.rest
  BY <1>1
<1>3. /\ h(pen) \in [Player -> SUBSET Deck]
      /\ pen.pile \in SUBSET Deck /\ rest(pen) \in SUBSET Deck
      /\ pen.pile \cap rest(pen) = {}
      /\ topCard' = c /\ currentPlayerIndex = p
  BY <1>1, LayKeeps DEF Placed
<1>4. Everywhere(h(pen), pen.pile, c, rest(pen)) = InPlay
  BY PlayLosesNone
<1>5. InPlay' = Everywhere(players', drawPile', c, buried')
  BY <1>3 DEF InPlay, Everywhere
<1>6. k \in Nat /\ target \in Player
  BY <1>3, DrawAmountType, AdvanceType DEF IInv, TypeOK
<1>7. IsFiniteSet(pen.pile) /\ IsFiniteSet(rest(pen))
  BY <1>3, PartFinite
<1> HIDE DEF k, target, h, rest
<1>8. CASE Short(d, k)
  <2>1. d.pile = {} /\ d.rest = {}
    BY <1>3, <1>6, <1>7, <1>8, DrawsMoveCards
  <2>2. \A q \in Player : players'[q] = h(pen)[q]
    BY <1>2, <1>8 DEF Give
  <2>3. Everywhere(players', drawPile', c, buried') \subseteq Everywhere(h(pen), pen.pile, c, rest(pen))
    BY <1>2, <2>1, <2>2, EverywhereMember
  <2> QED
    BY <1>2, <1>4, <1>5, <2>1, <2>3
<1>9. CASE ~Short(d, k)
  <2>1. Everywhere(players', drawPile', c, buried') = Everywhere(h(pen), pen.pile, c, rest(pen))
    BY <1>2, <1>3, <1>6, <1>9, TakeLosesNone
  <2> QED
    BY <1>4, <1>5, <2>1
<1> QED
  BY <1>8, <1>9

\* Taking all of k drawn cards into one hand loses none.
LEMMA TakeKeepsAll ==
  ASSUME IInv, NEW p \in Player, NEW k \in Nat, NEW d \in Draws(drawPile, buried, k),
         players' = Give(players, p, d.taken), drawPile' = d.pile, buried' = d.rest,
         topCard' = topCard
  PROVE  InPlay' = InPlay
<1>1. /\ players \in [Player -> SUBSET Deck] /\ drawPile \in SUBSET Deck /\ buried \in SUBSET Deck
      /\ drawPile \cap buried = {}
  BY DEF IInv, TypeOK, CardsInOnePlace
<1>2. Everywhere(Give(players, p, d.taken), d.pile, topCard, d.rest)
        = Everywhere(players, drawPile, topCard, buried)
  BY <1>1, TakeLosesNone
<1> QED
  BY <1>2 DEF Everywhere, InPlay

\* Every step keeps the cards of the match, but for the forced draw that throws.
LEMMA StepLoses ==
  ASSUME IInv, Next
  PROVE  InPlay' # InPlay => InPlay' \subseteq InPlay /\ drawPile' = {} /\ buried' = {}
<1>1. ASSUME NEW p \in Player, NEW c \in players[p], PlayBlocked(p, c)
      PROVE  InPlay' = InPlay
  <2>1. PICK pen \in PenaltyDraws(p) :
          /\ players' = Give(players, PenaltyFor(p), pen.taken)
          /\ drawPile' = pen.pile /\ buried' = pen.rest
    BY <1>1 DEF PlayBlocked
  <2>2. topCard' = topCard
    BY <1>1 DEF PlayBlocked
  <2>3. InPlay' = Everywhere(Give(players, PenaltyFor(p), pen.taken), pen.pile, topCard, pen.rest)
    BY <2>1, <2>2 DEF InPlay, Everywhere
  <2> QED
    BY <2>3, PlayLosesNone
<1>2. ASSUME NEW p \in Player, NEW c \in players[p], NEW color, PlayLast(p, c, color)
      PROVE  InPlay' = InPlay
  <2>1. PICK pen \in PenaltyDraws(p) :
          /\ Lay(p, c, color, pen)
          /\ players' = HandsAfterLay(p, c, pen)
          /\ drawPile' = pen.pile /\ buried' = pen.rest \cup {topCard}
    BY <1>2 DEF PlayLast
  <2>2. topCard' = c
    BY <2>1 DEF Lay
  <2>3. InPlay' = Everywhere(HandsAfterLay(p, c, pen), pen.pile, c, pen.rest \cup {topCard})
    BY <2>1, <2>2 DEF InPlay, Everywhere
  <2> QED
    BY <2>3, PlayLosesNone
<1>3. ASSUME NEW p \in Player, DrawCard(p)
      PROVE  InPlay' = InPlay
  <2>1. PICK d \in Draws(drawPile, buried, 1) : \E c \in d.taken :
          players' = Give(players, p, {c}) /\ drawPile' = d.pile /\ buried' = d.rest
    BY <1>3 DEF DrawCard
  <2>2. PICK c \in d.taken : players' = Give(players, p, {c})
    BY <2>1
  <2>3. IsFiniteSet(drawPile) /\ IsFiniteSet(buried) /\ drawPile \cap buried = {}
    BY PartFinite DEF IInv, TypeOK, CardsInOnePlace
  <2>4. IsFiniteSet(d.taken) /\ Cardinality(d.taken) \in Nat /\ Cardinality(d.taken) <= 1
    BY <2>3, DrawsCount
  <2>5. d.taken = {c}
    <3>1. /\ IsFiniteSet(d.taken \ {c})
          /\ Cardinality(d.taken \ {c}) = Cardinality(d.taken) - 1
      BY <2>4, FS_RemoveElement
    <3>2. Cardinality(d.taken \ {c}) \in Nat
      BY <3>1, FS_CardinalityType
    <3>3. Cardinality(d.taken \ {c}) = 0
      BY <2>4, <3>1, <3>2
    <3>4. d.taken \ {c} = {}
      BY <3>1, <3>3, FS_EmptySet
    <3> QED
      BY <3>4
  <2>6. topCard' = topCard
    BY <1>3 DEF DrawCard
  <2> QED
    BY <2>1, <2>2, <2>5, <2>6, TakeKeepsAll
<1>4. ASSUME NEW p \in Player, Pass(p) \/ CallUno(p)
      PROVE  InPlay' = InPlay
  BY <1>4 DEF Pass, CallUno, InPlay
<1>5. ASSUME NEW p \in Player, ApplyTurnTimeout(p)
      PROVE  InPlay' = InPlay
  <2> DEFINE k == IF hasDrawnThisTurn THEN 0 ELSE 1
  <2>1. PICK d \in Draws(drawPile, buried, k) :
          players' = Give(players, p, d.taken) /\ drawPile' = d.pile /\ buried' = d.rest
    BY <1>5 DEF ApplyTurnTimeout
  <2>2. topCard' = topCard /\ k \in Nat
    BY <1>5 DEF ApplyTurnTimeout
  <2> HIDE DEF k
  <2> QED
    BY <2>1, <2>2, TakeKeepsAll
<1>6. ASSUME NEW p \in Player, CatchUno(p)
      PROVE  InPlay' = InPlay
  BY <1>6, TakeKeepsAll, RulesAssumption DEF CatchUno
<1> QED
  BY <1>1, <1>2, <1>3, <1>4, <1>5, <1>6, PlayOnLoses DEF Next

\* Whatever the table size and the deck, a match loses cards only in a forced draw that runs
\* out of both piles, and gets none back.
THEOREM CardsKept == Spec => CardsLostOnlyAtExhaustion
<1>1. IInv /\ [Next]_vars =>
        [InPlay' # InPlay => InPlay' \subseteq InPlay /\ drawPile' = {} /\ buried' = {}]_vars
  BY StepLoses
<1> QED
  BY Invariance, <1>1, PTL DEF Spec, CardsLostOnlyAtExhaustion
=============================================================================
