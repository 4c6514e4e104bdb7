-------------------------------- MODULE Social --------------------------------
(***************************************************************************)
(* Two users: their friendship row, their conversation, and the requests   *)
(* of both that work on them (server/src/modules/friends, messages,        *)
(* notifications, and the private messages of socket/chat.handlers.js).    *)
(*                                                                         *)
(* Every operation on a friendship reads the row, decides, and decides     *)
(* again under the row's lock.  The row it then finds by its id may have   *)
(* changed or be gone; ids are never used again.  A direct message only    *)
(* reads the row, before the transaction that saves it.                    *)
(*                                                                         *)
(* A refused operation has changed nothing and is no step, unless it had   *)
(* got past its first read.  A message is its sender; the notification     *)
(* every direct message has is written with it and is not shown again.     *)
(***************************************************************************)
EXTENDS Integers, Sequences, FiniteSets

CONSTANTS User,            \* the two of them
          Request,         \* requests under way at a time
          MaxRows,         \* bound: friendship rows made
          MaxMessages,     \* bound: messages in the conversation
          DatabaseFails,   \* whether database calls can fail
          None

ASSUME TwoUsers == \E u, v \in User : u # v /\ User = {u, v}
ASSUME RequestAssumption == None \notin Request
ASSUME UserIsSome == None \notin User
ASSUME BoundAssumption == MaxRows \in Nat /\ MaxMessages \in Nat
ASSUME DatabaseAssumption == DatabaseFails \in BOOLEAN
ASSUME NoneIsNoRow == None \notin [id : Nat, requester : User, intro : BOOLEAN,
                                   status : {"PENDING", "ACCEPTED", "BLOCKED"},
                                   blockedBy : User \cup {None}]
ASSUME NoneIsNoNumber == None \notin Nat

VARIABLES friendship,      \* the row of the pair, or None
          rows,            \* how many there have been
          lock,            \* the request whose transaction holds the row, or None
          conversation,    \* has the pair one?
          messages,        \* its messages, oldest first
          notices,         \* SocialNotification rows about the friendship, oldest first
          request

vars == <<friendship, rows, lock, conversation, messages, notices, request>>

-----------------------------------------------------------------------------
Row == [id : 1 .. MaxRows, requester : User, intro : BOOLEAN,
        status : {"PENDING", "ACCEPTED", "BLOCKED"}, blockedBy : User \cup {None}]

Message == [sender : User, intro : (1 .. MaxRows) \cup {None}]

\* `row' is the friendship a notification was written for, which the table does not keep.
Notice == [to : User, type : {"FRIEND_REQUEST", "FRIEND_ACCEPTED"}, row : 1 .. MaxRows,
           intro : BOOLEAN, opens : BOOLEAN]

Idle == [pc |-> "idle"]

At(r, pc) == request[r].pc = pc

Becomes(r, next) == request' = [request EXCEPT ![r] = next]

Ends(r) == Becomes(r, Idle)

Friends == friendship # None /\ friendship.status = "ACCEPTED"

\* An operation on the row found: it will look for it again, by its id.
Found(pc, u) == [pc |-> pc, user |-> u, id |-> friendship.id]

\* withLockedFriendshipById: nobody else holds the row, and it may be gone.
Locked == lock = None

StillThere(r) == friendship # None /\ friendship.id = request[r].id

Init ==
  /\ friendship = None /\ rows = 0 /\ lock = None
  /\ conversation = FALSE /\ messages = <<>> /\ notices = <<>>
  /\ request = [r \in Request |-> Idle]

-----------------------------------------------------------------------------
(* Requests and their answers.                                             *)

\* sendFriendRequest finds no relationship.
SendFriendRequest(r, u, intro) ==
  /\ At(r, "idle") /\ friendship = None /\ rows < MaxRows
  /\ Becomes(r, [pc |-> "create", user |-> u, intro |-> intro])
  /\ UNCHANGED <<friendship, rows, lock, conversation, messages, notices>>

\* createFriendRequest; the pair is unique, and who comes second gets a conflict.
CreateFriendRequest(r) ==
  /\ At(r, "create")
  /\ IF friendship = None /\ rows < MaxRows
     THEN /\ friendship' = [id |-> rows + 1, requester |-> request[r].user,
                            intro |-> request[r].intro, status |-> "PENDING", blockedBy |-> None]
          /\ rows' = rows + 1
          /\ Becomes(r, [pc |-> "notify", user |-> request[r].user,
                         id |-> rows + 1, intro |-> request[r].intro])
     ELSE Ends(r) /\ UNCHANGED <<friendship, rows>>
  /\ UNCHANGED <<lock, conversation, messages, notices>>

Other(u) == CHOOSE v \in User : v # u

\* createFriendRequestNotification, a statement of its own.  Losing it fails the call, and
\* the request stays.
NotifyRequest(r) ==
  /\ At(r, "notify")
  /\ \/ notices' = Append(notices, [to |-> Other(request[r].user), type |-> "FRIEND_REQUEST",
                                    row |-> request[r].id, intro |-> request[r].intro,
                                    opens |-> FALSE])
     \/ DatabaseFails /\ UNCHANGED notices
  /\ Ends(r)
  /\ UNCHANGED <<friendship, rows, lock, conversation, messages>>

\* respondToFriendRequest finds a request for u.
RespondToFriendRequest(r, u, answer) ==
  /\ At(r, "idle")
  /\ friendship # None /\ friendship.status = "PENDING" /\ friendship.requester # u
  /\ Becomes(r, Found(answer, u))
  /\ UNCHANGED <<friendship, rows, lock, conversation, messages, notices>>

\* The second assertIncomingPendingRelationship left out.
AnyStatusPending(r) == StillThere(r)

\* assertIncomingPendingRelationship under the lock
StillPending(r) ==
  StillThere(r) /\ friendship.status = "PENDING" /\ friendship.requester # request[r].user

Reject(r) ==
  /\ At(r, "reject") /\ Locked
  /\ friendship' = IF StillPending(r) THEN None ELSE friendship
  /\ Ends(r)
  /\ UNCHANGED <<rows, lock, conversation, messages, notices>>

\* The accepting transaction has done its writes, which nobody sees yet, and has told both
\* users' sockets that something changed.
Accept(r) ==
  /\ At(r, "accept") /\ Locked
  /\ \/ /\ StillPending(r)
        /\ lock' = r
        /\ Becomes(r, [request[r] EXCEPT !.pc = "commit"])
     \/ /\ ~StillPending(r) \/ DatabaseFails
        /\ Ends(r) /\ UNCHANGED lock
  /\ UNCHANGED <<friendship, rows, conversation, messages, notices>>

\* createConversationFromAcceptedRequest: the intro is the first message, once.  (The table
\* forgets which request a message came with when the request's row is deleted.)
WithIntro ==
  IF friendship.intro /\ \A i \in DOMAIN messages : messages[i].intro # friendship.id
  THEN Append(messages, [sender |-> friendship.requester, intro |-> friendship.id])
  ELSE messages

\* attachConversationToLatestFriendRequest: the newest request with an intro from the same
\* actor.
IsLatest(i) ==
  LET Fits(n) == n.type = "FRIEND_REQUEST" /\ n.intro /\ n.to = Other(friendship.requester) IN
  Fits(notices[i]) /\ \A j \in DOMAIN notices : Fits(notices[j]) => j <= i

WithConversation ==
  [i \in DOMAIN notices |->
     IF friendship.intro /\ IsLatest(i) THEN [notices[i] EXCEPT !.opens = TRUE] ELSE notices[i]]

AcceptedNotice == [to |-> friendship.requester, type |-> "FRIEND_ACCEPTED",
                   row |-> friendship.id, intro |-> FALSE, opens |-> FALSE]

\* The transaction commits, or is rolled back.
CommitAccept(r) ==
  /\ At(r, "commit")
  /\ \/ /\ friendship' = [friendship EXCEPT !.status = "ACCEPTED", !.blockedBy = None]
        /\ conversation' = TRUE
        /\ messages' = WithIntro
        /\ notices' = Append(WithConversation, AcceptedNotice)
     \/ DatabaseFails /\ UNCHANGED <<friendship, conversation, messages, notices>>
  /\ lock' = None
  /\ Ends(r)
  /\ UNCHANGED rows

-----------------------------------------------------------------------------
(* Cancelling, unfriending, blocking.                                      *)

\* deleteRelationship: the requester cancels, or either friend ends it.
DeleteRelationship(r, u) ==
  /\ At(r, "idle") /\ friendship # None
  /\ \/ friendship.status = "ACCEPTED" /\ Becomes(r, Found("unfriend", u))
     \/ /\ friendship.status = "PENDING" /\ friendship.requester = u
        /\ Becomes(r, Found("cancel", u))
  /\ UNCHANGED <<friendship, rows, lock, conversation, messages, notices>>

\* A deletion that only asks whether the row is still there.
RemovableIfThere(r) == StillThere(r)

\* assertDeleteRelationshipActionStillValid
StillRemovable(r) ==
  /\ StillThere(r)
  /\ IF At(r, "unfriend") THEN friendship.status = "ACCEPTED"
     ELSE friendship.status = "PENDING" /\ friendship.requester = request[r].user

Delete(r) ==
  /\ At(r, "unfriend") \/ At(r, "cancel")
  /\ Locked
  /\ friendship' = IF StillRemovable(r) THEN None ELSE friendship
  /\ Ends(r)
  /\ UNCHANGED <<rows, lock, conversation, messages, notices>>

BlockUser(r, u) ==
  /\ At(r, "idle") /\ Friends
  /\ Becomes(r, Found("block", u))
  /\ UNCHANGED <<friendship, rows, lock, conversation, messages, notices>>

\* resolveBlockAction: a row blocked already is left as it is, whoever did it.
StillBlockable(r) == StillThere(r) /\ friendship.status = "ACCEPTED"

Block(r) ==
  /\ At(r, "block") /\ Locked
  /\ friendship' = IF StillBlockable(r)
                   THEN [friendship EXCEPT !.status = "BLOCKED", !.blockedBy = request[r].user]
                   ELSE friendship
  /\ Ends(r)
  /\ UNCHANGED <<rows, lock, conversation, messages, notices>>

UnblockUser(r, u) ==
  /\ At(r, "idle")
  /\ friendship # None /\ friendship.status = "BLOCKED" /\ friendship.blockedBy = u
  /\ Becomes(r, Found("unblock", u))
  /\ UNCHANGED <<friendship, rows, lock, conversation, messages, notices>>

\* An unblock that trusts the row it read before the lock.
UnblockableOnceRead(r) == StillThere(r) /\ friendship.status = "BLOCKED"

\* resolveUnblockAction
StillUnblockable(r) ==
  StillThere(r) /\ friendship.status = "BLOCKED" /\ friendship.blockedBy = request[r].user

\* unblockFriendshipById
FriendsAgain(row) == [row EXCEPT !.status = "ACCEPTED", !.blockedBy = None]

Unblock(r) ==
  /\ At(r, "unblock") /\ Locked
  /\ friendship' = IF StillUnblockable(r) THEN FriendsAgain(friendship) ELSE friendship
  /\ Ends(r)
  /\ UNCHANGED <<rows, lock, conversation, messages, notices>>

-----------------------------------------------------------------------------
(* Direct messages.                                                        *)

\* chat:private_message or getOrCreateConversation between friends.
StartConversation(r, u) ==
  /\ At(r, "idle") /\ Friends
  /\ Becomes(r, [pc |-> "open", user |-> u])
  /\ UNCHANGED <<friendship, rows, lock, conversation, messages, notices>>

\* findOrCreateConversationForUsers, which waits for a transaction that is creating it.  The
\* message, if there is one, follows.
OpenConversation(r) ==
  /\ At(r, "open") /\ (conversation \/ Locked)
  /\ conversation' = TRUE
  /\ Ends(r) \/ Becomes(r, [request[r] EXCEPT !.pc = "check"])
  /\ UNCHANGED <<friendship, rows, lock, messages, notices>>

\* POST of a message to a conversation, whatever the two have become.
SendMessage(r, u) ==
  /\ At(r, "idle") /\ conversation
  /\ Becomes(r, [pc |-> "check", user |-> u])
  /\ UNCHANGED <<friendship, rows, lock, conversation, messages, notices>>

\* createMessageInConversation without its own check.
AnybodyMaySend == TRUE

\* assertAcceptedFriends
MaySend == Friends

CheckFriends(r) ==
  /\ At(r, "check")
  /\ IF MaySend THEN Becomes(r, [request[r] EXCEPT !.pc = "save"]) ELSE Ends(r)
  /\ UNCHANGED <<friendship, rows, lock, conversation, messages, notices>>

\* The transaction of createMessageInConversation; both are sent the message.
SaveMessage(r) ==
  /\ At(r, "save")
  /\ \/ /\ Len(messages) < MaxMessages
        /\ messages' = Append(messages, [sender |-> request[r].user, intro |-> None])
     \/ (DatabaseFails \/ Len(messages) >= MaxMessages) /\ UNCHANGED messages
  /\ Ends(r)
  /\ UNCHANGED <<friendship, rows, lock, conversation, notices>>

-----------------------------------------------------------------------------
\* What a user asks for.
Ask(r, u) ==
  \/ \E intro \in BOOLEAN : SendFriendRequest(r, u, intro)
  \/ \E answer \in {"accept", "reject"} : RespondToFriendRequest(r, u, answer)
  \/ DeleteRelationship(r, u) \/ BlockUser(r, u) \/ UnblockUser(r, u)
  \/ StartConversation(r, u) \/ SendMessage(r, u)

\* The next statement of a request.
Proceed(r) ==
  \/ CreateFriendRequest(r) \/ NotifyRequest(r) \/ Reject(r) \/ Accept(r) \/ CommitAccept(r)
  \/ Delete(r) \/ Block(r) \/ Unblock(r)
  \/ OpenConversation(r) \/ CheckFriends(r) \/ SaveMessage(r)

Next == \E r \in Request : Proceed(r) \/ \E u \in User : Ask(r, u)

Spec == Init /\ [][Next]_vars

-----------------------------------------------------------------------------
\* Every variable keeps its type, and the row what the migrations ask of it: a blocker if and
\* only if it is blocked.
TypeOK ==
  /\ friendship \in Row \cup {None} /\ rows \in 0 .. MaxRows
  /\ friendship # None => (friendship.blockedBy # None <=> friendship.status = "BLOCKED")
  /\ lock \in Request \cup {None}
  /\ conversation \in BOOLEAN
  /\ messages \in Seq(Message) /\ notices \in Seq(Notice)
  /\ request \in [Request ->
       {Idle} \cup [pc : {"create"}, user : User, intro : BOOLEAN]
         \cup [pc : {"notify"}, user : User, id : 1 .. MaxRows, intro : BOOLEAN]
         \cup [pc : {"accept", "commit", "reject", "unfriend", "cancel", "block", "unblock"},
               user : User, id : 1 .. MaxRows]
         \cup [pc : {"open", "check", "save"}, user : User]]

\* The row as the state machine of the service's comments sees it.
relation ==
  IF friendship = None THEN None
  ELSE [status |-> friendship.status,
        by |-> IF friendship.status = "PENDING" THEN friendship.requester ELSE friendship.blockedBy]

F == INSTANCE Friendship WITH relation <- relation, User <- User, None <- None

\* Whatever tabs and users race, and however stale the reads are that operations start from,
\* the row only makes the moves of the state machine: no block is deleted, answered or
\* overwritten, no request becomes a block.
FollowsLifecycle == F!Spec

\* A block ends by an unblock of the user who blocked, and by nothing else.
BlockStands ==
  [][friendship # None /\ friendship.status = "BLOCKED" /\ friendship' # friendship
       => \E r \in Request : At(r, "unblock") /\ request[r].user = friendship.blockedBy]_vars

\* Notifications that tell a requester that row i was accepted
AcceptedNotices(i) ==
  {n \in DOMAIN notices : notices[n].type = "FRIEND_ACCEPTED" /\ notices[n].row = i}

Intros(i) == {m \in DOMAIN messages : messages[m].intro = i}

\* Two tabs that accept, or an answer that crosses a cancellation and a new request: a row is
\* accepted once, its intro is posted at most once and never before, and friends are of a row
\* that was accepted.
AcceptedOnce ==
  /\ \A i \in 1 .. MaxRows :
       /\ Cardinality(AcceptedNotices(i)) <= 1
       /\ Cardinality(Intros(i)) <= Cardinality(AcceptedNotices(i))
  /\ friendship # None /\ friendship.status # "PENDING" => AcceptedNotices(friendship.id) # {}

\* Sends past their last look at the friendship.
Sending == {r \in Request : At(r, "save")}

\* Once one has blocked the other, or the friendship has ended, what was past its check may
\* still land; nothing joins it.
SendsDryUp == [][~Friends => Sending' \subseteq Sending]_vars
=============================================================================
