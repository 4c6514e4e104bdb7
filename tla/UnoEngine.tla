------------------------------ MODULE UnoEngine ------------------------------
(***************************************************************************)
(* The UnoEngine class (server/src/modules/game/game.engine.js): one UNO   *)
(* match, from the deal to the first empty hand.                           *)
(*                                                                         *)
(* A player is its index in playerOrder.  The draw pile is a set: the code *)
(* shuffles it and nobody sees its order, so which card comes off the top  *)
(* is chosen when it is drawn.  The discard pile is its top card and the   *)
(* set of the cards under it, which is all the code ever reads.  Hands are *)
(* sets; the one place where the code looks at a hand's order ("after a    *)
(* draw only the last card may be played") reads drawnCardThisTurn, and    *)
(* DrawnCardStaysLast is what makes the two the same card.                 *)
(*                                                                         *)
(* _drawOne throws when both piles are out of cards.  A call that throws   *)
(* before it has changed anything is no step; one that throws half-way is  *)
(* a step to the half-done state (PlayBlocked, PlayOn with a short draw,   *)
(* CatchUno with a short penalty).                                         *)
(***************************************************************************)
EXTENDS Integers, FiniteSets, FiniteSetsExt

CONSTANTS NumPlayers,         \* playerOrder.length
          Deck,               \* the cards of this match
          CARDS_PER_PLAYER,   \* 7 in the code
          UNO_PENALTY_CARDS,  \* 2 in the code
          None                \* null

Player == 0 .. NumPlayers - 1

StandardColor == {"RED", "YELLOW", "GREEN", "BLUE"}
Number == {"0", "1", "2", "3", "4", "5", "6", "7", "8", "9"}
Action == {"SKIP", "REVERSE", "DRAW_TWO"}
WildValue == {"WILD", "WILD_DRAW_THREE", "WILD_DRAW_FOUR"}
Card == [color : StandardColor \cup {"WILD"}, value : Number \cup Action \cup WildValue,
         copy : 1 .. 4]

\* initDeck: one 0 and two of every other coloured card, four of every wild.
StandardDeck ==
  {c \in Card :
     \/ c.color # "WILD" /\ c.value = "0" /\ c.copy = 1
     \/ c.color # "WILD" /\ c.value \in (Number \ {"0"}) \cup Action /\ c.copy \in 1 .. 2
     \/ c.color = "WILD" /\ c.value \in WildValue}

UnoWindow == [playerId : Player, called : BOOLEAN]

ASSUME PlayersAssumption == NumPlayers \in Nat /\ NumPlayers >= 2
ASSUME DeckAssumption == IsFiniteSet(Deck) /\ Deck \subseteq StandardDeck
ASSUME RulesAssumption == CARDS_PER_PLAYER \in Nat \ {0} /\ UNO_PENALTY_CARDS \in Nat
ASSUME NoneAssumption == None \notin Player /\ None \notin Deck /\ None \notin UnoWindow

VARIABLES players,             \* the hands
          drawPile,
          topCard, buried,     \* discardPile: its last card, and the cards under it
          currentPlayerIndex, playDirection, currentColor, winner,
          hasDrawnThisTurn, drawnCardThisTurn,
          turnNonce,
          unoState             \* the open UNO window, or None

vars == <<players, drawPile, topCard, buried, currentPlayerIndex, playDirection,
          currentColor, winner, hasDrawnThisTurn, drawnCardThisTurn, turnNonce, unoState>>

-----------------------------------------------------------------------------
\* One step of nextTurn's index: round the table in direction dir, wrapping at either end.
Advance(i, dir) ==
  IF i + dir < 0 THEN NumPlayers - 1 ELSE IF i + dir >= NumPlayers THEN 0 ELSE i + dir

\* Draws that leaves the reshuffled cards in the discard pile as well.
DrawsKeepingDiscard(pile, rest, k) ==
  IF Cardinality(pile) >= k
  THEN {[taken |-> t, pile |-> pile \ t, rest |-> rest] : t \in kSubset(k, pile)}
  ELSE {[taken |-> pile \cup t, pile |-> rest \ t, rest |-> rest] :
          t \in kSubset(IF Cardinality(pile) + Cardinality(rest) >= k
                        THEN k - Cardinality(pile) ELSE Cardinality(rest), rest)}

\* Draws that reshuffles before the pile is out, dropping what was left of it.
DrawsDroppingPile(pile, rest, k) ==
  IF Cardinality(pile) >= k
  THEN {[taken |-> t, pile |-> pile \ t, rest |-> rest] : t \in kSubset(k, pile)}
  ELSE IF Cardinality(rest) >= k
  THEN {[taken |-> t, pile |-> rest \ t, rest |-> {}] : t \in kSubset(k, rest)}
  ELSE {[taken |-> rest, pile |-> {}, rest |-> {}]}

\* k calls of _drawOne on a draw pile and the cards under the discard top: the pile first,
\* then the reshuffled discard.  When both run out the draw is short, and both are empty.
Draws(pile, rest, k) ==
  IF Cardinality(pile) >= k
  THEN {[taken |-> t, pile |-> pile \ t, rest |-> rest] : t \in kSubset(k, pile)}
  ELSE IF Cardinality(pile) + Cardinality(rest) >= k
  THEN {[taken |-> pile \cup t, pile |-> rest \ t, rest |-> {}] :
          t \in kSubset(k - Cardinality(pile), rest)}
  ELSE {[taken |-> pile \cup rest, pile |-> {}, rest |-> {}]}

Short(d, k) == Cardinality(d.taken) < k

Give(hands, p, cards) == [q \in Player |-> IF q = p THEN hands[q] \cup cards ELSE hands[q]]

CanPlayCard(c) == c.color = "WILD" \/ c.color = currentColor \/ c.value = topCard.value

\* Cards the played card makes the next player draw.
DrawAmount(c) ==
  CASE c.value = "DRAW_TWO" -> 2
    [] c.value = "WILD_DRAW_THREE" -> 3
    [] c.value = "WILD_DRAW_FOUR" -> 4
    [] OTHER -> 0

SkipsNext(c) ==
  c.value = "SKIP" \/ DrawAmount(c) > 0 \/ (c.value = "REVERSE" /\ NumPlayers = 2)

-----------------------------------------------------------------------------
\* startGame on the flipped card (the code flips again while it is a Wild Draw Four).
StartGame(deal, pile, first) ==
  /\ topCard = first /\ buried = {}
  /\ currentColor \in IF first.color = "WILD" THEN StandardColor ELSE {first.color}
  /\ playDirection = IF first.value = "REVERSE" THEN -1 ELSE 1
  /\ currentPlayerIndex = CASE first.value = "REVERSE" -> NumPlayers - 1
                            [] first.value \in {"SKIP", "DRAW_TWO"} -> Advance(0, 1)
                            [] OTHER -> 0
  /\ turnNonce = IF first.value \in {"SKIP", "DRAW_TWO"} THEN 1 ELSE 0
  /\ \E d \in Draws(pile, {}, IF first.value = "DRAW_TWO" THEN 2 ELSE 0) :
       /\ ~Short(d, IF first.value = "DRAW_TWO" THEN 2 ELSE 0)
       /\ players = Give(deal, 0, d.taken)
       /\ drawPile = d.pile

\* The constructor: initDeck, shuffleDeck, dealCards, startGame.
Init ==
  /\ \E deal \in [Player -> kSubset(CARDS_PER_PLAYER, Deck)] :
       /\ \A p, q \in Player : p # q => deal[p] \cap deal[q] = {}
       /\ LET rest == Deck \ UNION {deal[p] : p \in Player} IN
          \E first \in {c \in rest : c.value # "WILD_DRAW_FOUR"} :
            StartGame(deal, rest \ {first}, first)
  /\ winner = None
  /\ hasDrawnThisTurn = FALSE /\ drawnCardThisTurn = None
  /\ unoState = None

-----------------------------------------------------------------------------
\* The turn check without the end-of-game check.
OnTurnEvenWhenOver(p) == currentPlayerIndex = p

\* The checks playCard, drawCard, pass and applyTurnTimeout start with.
OnTurn(p) == winner = None /\ currentPlayerIndex = p

\* nextTurn, `steps` times in direction dir.
NextTurn(dir, steps) ==
  /\ currentPlayerIndex' = IF steps = 1 THEN Advance(currentPlayerIndex, dir)
                           ELSE Advance(Advance(currentPlayerIndex, dir), dir)
  /\ turnNonce' = turnNonce + steps
  /\ hasDrawnThisTurn' = FALSE
  /\ drawnCardThisTurn' = None

\* The checks of playCard.
MayPlay(p, c) ==
  /\ OnTurn(p)
  /\ c \in players[p]
  /\ hasDrawnThisTurn => c = drawnCardThisTurn
  /\ CanPlayCard(c)

\* PenaltyFor without "the window belongs to the acting player" check.
PenaltyForOwnPlayToo(p) ==
  IF unoState # None /\ ~unoState.called THEN unoState.playerId ELSE None

\* PenaltyFor that does not look at `called`.
PenaltyForCallers(p) ==
  IF unoState # None /\ unoState.playerId # p THEN unoState.playerId ELSE None

\* _resolvePendingUno: the player a play by p penalises (None if nobody).
PenaltyFor(p) ==
  IF unoState # None /\ unoState.playerId # p /\ ~unoState.called
  THEN unoState.playerId ELSE None

PenaltyDraws(p) ==
  Draws(drawPile, buried, IF PenaltyFor(p) = None THEN 0 ELSE UNO_PENALTY_CARDS)

PenaltyShort(p, d) == PenaltyFor(p) # None /\ Short(d, UNO_PENALTY_CARDS)

\* playCard throwing out of the penalty draw: the card stays in hand, the window stays open.
PlayBlocked(p, c) ==
  /\ MayPlay(p, c)
  /\ \E pen \in PenaltyDraws(p) :
       /\ PenaltyShort(p, pen)
       /\ players' = Give(players, PenaltyFor(p), pen.taken)
       /\ drawPile' = pen.pile /\ buried' = pen.rest
  /\ UNCHANGED <<topCard, currentPlayerIndex, playDirection, currentColor, winner,
                 hasDrawnThisTurn, drawnCardThisTurn, turnNonce, unoState>>

\* The play's own moves: penalty, card to the discard, colour.
Lay(p, c, color, pen) ==
  /\ MayPlay(p, c)
  /\ ~PenaltyShort(p, pen)
  /\ color \in IF c.color = "WILD" THEN StandardColor ELSE {c.color}
  /\ topCard' = c
  /\ currentColor' = color

\* The hands once the card is down: the penalty goes to the window's owner.
HandsAfterLay(p, c, pen) ==
  [Give(players, PenaltyFor(p), pen.taken) EXCEPT ![p] = @ \ {c}]

\* playCard of the last card: the turn does not move on.
PlayLast(p, c, color) ==
  \E pen \in PenaltyDraws(p) :
    /\ Lay(p, c, color, pen)
    /\ players[p] = {c}
    /\ players' = HandsAfterLay(p, c, pen)
    /\ drawPile' = pen.pile /\ buried' = pen.rest \cup {topCard}
    /\ winner' = p
    /\ unoState' = None
    /\ UNCHANGED <<currentPlayerIndex, playDirection, hasDrawnThisTurn, drawnCardThisTurn,
                   turnNonce>>

\* The window after p's play: a hand of one opens p's, and any other player's is settled.
WindowAfterPlay(p, hand) ==
  IF Cardinality(hand) = 1 THEN [playerId |-> p, called |-> FALSE]
  ELSE IF unoState # None /\ unoState.playerId # p THEN None ELSE unoState

\* Any other playCard.  A short draw throws after the first nextTurn: the arguments of
\* push are all evaluated first, so the cards drawn so far reach no hand.
PlayOn(p, c, color) ==
  \E pen \in PenaltyDraws(p) :
    /\ Lay(p, c, color, pen)
    /\ players[p] # {c}
    /\ unoState' = WindowAfterPlay(p, players[p] \ {c})
    /\ LET dir == IF c.value = "REVERSE" THEN -playDirection ELSE playDirection IN
       /\ playDirection' = dir
       /\ \E d \in Draws(pen.pile, pen.rest \cup {topCard}, DrawAmount(c)) :
            /\ players' = Give(HandsAfterLay(p, c, pen), Advance(currentPlayerIndex, dir),
                               IF Short(d, DrawAmount(c)) THEN {} ELSE d.taken)
            /\ drawPile' = d.pile /\ buried' = d.rest
            /\ NextTurn(dir, IF SkipsNext(c) /\ ~Short(d, DrawAmount(c)) THEN 2 ELSE 1)
    /\ UNCHANGED winner

-----------------------------------------------------------------------------
\* Drawing back above one card closes the player's own window.
WindowAfterDraw(p) == IF unoState # None /\ unoState.playerId = p THEN None ELSE unoState

\* drawCard: a playable card keeps the turn, any other ends it.
DrawCard(p) ==
  /\ OnTurn(p) /\ ~hasDrawnThisTurn
  /\ \E d \in Draws(drawPile, buried, 1) :
       \E c \in d.taken :
         /\ players' = Give(players, p, {c})
         /\ drawPile' = d.pile /\ buried' = d.rest
         /\ IF CanPlayCard(c)
            THEN /\ hasDrawnThisTurn' = TRUE /\ drawnCardThisTurn' = c
                 /\ UNCHANGED <<currentPlayerIndex, turnNonce>>
            ELSE NextTurn(playDirection, 1)
  /\ unoState' = WindowAfterDraw(p)
  /\ UNCHANGED <<topCard, playDirection, currentColor, winner>>

\* pass: only after a draw.
Pass(p) ==
  /\ OnTurn(p) /\ hasDrawnThisTurn
  /\ NextTurn(playDirection, 1)
  /\ UNCHANGED <<players, drawPile, topCard, buried, playDirection, currentColor, winner,
                 unoState>>

\* applyTurnTimeout: forces the draw if there was none; leaves the UNO window alone.
ApplyTurnTimeout(p) ==
  /\ OnTurn(p)
  /\ \E d \in Draws(drawPile, buried, IF hasDrawnThisTurn THEN 0 ELSE 1) :
       /\ ~hasDrawnThisTurn => ~Short(d, 1)
       /\ players' = Give(players, p, d.taken)
       /\ drawPile' = d.pile /\ buried' = d.rest
  /\ NextTurn(playDirection, 1)
  /\ UNCHANGED <<topCard, playDirection, currentColor, winner, unoState>>

\* callUno: by the window's owner, at any time.
CallUno(p) ==
  /\ unoState # None /\ unoState.playerId = p
  /\ unoState' = [unoState EXCEPT !.called = TRUE]
  /\ UNCHANGED <<players, drawPile, topCard, buried, currentPlayerIndex, playDirection,
                 currentColor, winner, hasDrawnThisTurn, drawnCardThisTurn, turnNonce>>

\* catchUno: of the window's owner, at any time.  A short penalty throws with the window open.
CatchUno(p) ==
  /\ unoState # None /\ unoState.playerId = p /\ ~unoState.called
  /\ \E d \in Draws(drawPile, buried, UNO_PENALTY_CARDS) :
       /\ players' = Give(players, p, d.taken)
       /\ drawPile' = d.pile /\ buried' = d.rest
       /\ unoState' = IF Short(d, UNO_PENALTY_CARDS) THEN unoState ELSE None
  /\ UNCHANGED <<topCard, currentPlayerIndex, playDirection, currentColor, winner,
                 hasDrawnThisTurn, drawnCardThisTurn, turnNonce>>

Next ==
  \E p \in Player :
    \/ \E c \in players[p] :
         \/ PlayBlocked(p, c)
         \/ \E color \in StandardColor : PlayLast(p, c, color) \/ PlayOn(p, c, color)
    \/ DrawCard(p)
    \/ Pass(p)
    \/ ApplyTurnTimeout(p)
    \/ CallUno(p)
    \/ CatchUno(p)

Spec == Init /\ [][Next]_vars

-----------------------------------------------------------------------------
\* Every variable keeps its type: whose turn it is, is somebody at the table.
TypeOK ==
  /\ players \in [Player -> SUBSET Deck]
  /\ drawPile \subseteq Deck /\ buried \subseteq Deck
  /\ topCard \in Deck
  /\ currentPlayerIndex \in Player
  /\ playDirection \in {1, -1}
  /\ currentColor \in StandardColor
  /\ winner \in Player \cup {None}
  /\ hasDrawnThisTurn \in BOOLEAN
  /\ drawnCardThisTurn \in Deck \cup {None}
  /\ turnNonce \in Nat
  /\ unoState \in UnoWindow \cup {None}

\* No card is ever in two places: two hands, a hand and a pile, or twice in the piles, for
\* all the reshuffles, penalties and half-done plays of a match.
CardsInOnePlace ==
  /\ \A p, q \in Player : p # q => players[p] \cap players[q] = {}
  /\ \A p \in Player : players[p] \cap (drawPile \cup buried \cup {topCard}) = {}
  /\ drawPile \cap buried = {}
  /\ topCard \notin drawPile \cup buried

\* The cards that are somewhere.
InPlay == (UNION {players[p] : p \in Player}) \cup drawPile \cup buried \cup {topCard}

\* Cards drop out of a match only in a play whose forced draw empties both piles and throws
\* (the drawn cards were arguments of a push that never ran), and none ever comes back.
CardsLostOnlyAtExhaustion ==
  [][InPlay' # InPlay => InPlay' \subseteq InPlay /\ drawPile' = {} /\ buried' = {}]_vars

\* The winner is exactly the player with no card: no timeout, draw, penalty or half-done play
\* empties a hand without ending the match, and no winner is handed a card.
WinnerIffEmptyHand == \A p \in Player : players[p] = {} <=> winner = p

\* Nothing moves once there is a winner, callUno and catchUno included, which have no check
\* of their own and rely on the window being closed by the winning play.
NoMoveAfterWin == [][winner = None]_vars

\* Until the turn passes on, nothing is pushed on top of the card the player has just drawn:
\* "the last card of the hand", which playCard checks, is that card.
DrawnCardStaysLast ==
  [][hasDrawnThisTurn /\ turnNonce' = turnNonce
       => players'[currentPlayerIndex] \subseteq players[currentPlayerIndex]]_vars

\* An opponent's completed play settles an open window: the owner who never called takes the
\* penalty, the one who called takes nothing but what the played card itself makes it draw.
\* The engine, its comments and its tests say so, and the repository's README; docs/game-rules.md
\* (107-108) still says that nobody is penalized.
UnoSettledByNextPlay ==
  [][\A q \in Player \ {currentPlayerIndex} :
       unoState # None /\ unoState.playerId = q /\ topCard' # topCard =>
         LET penalty == IF unoState.called THEN 0 ELSE UNO_PENALTY_CARDS
             taken == Cardinality(players'[q]) - Cardinality(players[q])
         IN  penalty <= taken /\ taken <= penalty + DrawAmount(topCard')]_vars
=============================================================================
