----------------------------- MODULE Friendship -----------------------------
(***************************************************************************)
(* What two users are to each other, as the service's pure functions and   *)
(* docs/erm/friendship.md describe it: nothing, a request that waits for   *)
(* its addressee, friends, or friends of whom one has blocked the other.   *)
(* Social implements this with rows, locks and requests that read before   *)
(* they lock.                                                              *)
(***************************************************************************)
CONSTANTS User, None

VARIABLE relation

Pending(u) == [status |-> "PENDING", by |-> u]      \* by the requester
Accepted == [status |-> "ACCEPTED", by |-> None]
Blocked(u) == [status |-> "BLOCKED", by |-> u]      \* by the blocker

Init == relation = None

\* sendFriendRequest, by u
Befriend(u) == relation = None /\ relation' = Pending(u)

\* The addressee's answer, or the requester's cancelling
Accept == \E u \in User : relation = Pending(u) /\ relation' = Accepted
Withdraw == \E u \in User : relation = Pending(u) /\ relation' = None

\* deleteRelationship between friends: one who is blocked, or who blocks, is still a friend
Unfriend == relation = Accepted /\ relation' = None

\* A block makes no sense but between friends, and only its unblock ends it.
Block(u) == relation = Accepted /\ relation' = Blocked(u)
Unblock(u) == relation = Blocked(u) /\ relation' = Accepted

Next ==
  \/ \E u \in User : Befriend(u) \/ Block(u) \/ Unblock(u)
  \/ Accept \/ Withdraw \/ Unfriend

Spec == Init /\ [][Next]_relation
=============================================================================
