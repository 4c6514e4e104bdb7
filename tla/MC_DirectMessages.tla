------------------------- MODULE MC_DirectMessages -------------------------
(***************************************************************************)
(* An instance of DirectMessages for TLC: two conversations, a thread of   *)
(* two messages, one conversation at a time that shows somebody typing.    *)
(***************************************************************************)
EXTENDS DirectMessages

CONSTANTS c1, c2, k1

TwoConversations == {c1, c2}
OneCall == {k1}

\* What happens to one conversation only shows in the other where typing goes.
MessagesInOne == [c \in TwoConversations |-> IF c = c1 THEN 1 ELSE 0]
=============================================================================
