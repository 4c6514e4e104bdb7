---------------------------- MODULE MC_UnoEngine ----------------------------
(***************************************************************************)
(* Instances of UnoEngine for TLC: decks small enough to play every match  *)
(* to its end, with every kind of card and with piles that run out.        *)
(***************************************************************************)
EXTENDS UnoEngine

C(color, value) == [color |-> color, value |-> value, copy |-> 1]

\* Seven cards with every kind of effect: two players with two cards each, two left to draw.
DuelDeck ==
  {C("RED", "1"), C("RED", "SKIP"), C("BLUE", "1"), C("BLUE", "REVERSE"), C("BLUE", "DRAW_TWO"),
   C("WILD", "WILD"), C("WILD", "WILD_DRAW_FOUR")}

\* initDeck's own arithmetic: 112 cards.
ASSUME DeckSize == Cardinality(StandardDeck) = 112

\* turnNonce only counts; no guard reads it.  Without it every match is a finite graph, so no
\* bound on the number of turns is needed.
NonceFree ==
  <<players, drawPile, topCard, buried, currentPlayerIndex, playDirection, currentColor,
    winner, hasDrawnThisTurn, drawnCardThisTurn, unoState>>
=============================================================================
