----------------------------- MODULE SocialProofs -----------------------------
(***************************************************************************)
(* What Social's runs check, for any number of requests under way, rows    *)
(* and messages: in particular that the rows, the locks and the stale      *)
(* reads implement Friendship's state machine.                             *)
(*                                                                         *)
(* A transaction that accepts decides in one step and writes in another.   *)
(* What it decided on still holds when it writes because everybody who     *)
(* writes the row takes its lock: that is LockKept.                        *)
(***************************************************************************)
EXTENDS Social, TLAPS, SequenceTheorems, FiniteSetTheorems

Doing ==
  {Idle} \cup [pc : {"create"}, user : User, intro : BOOLEAN]
    \cup [pc : {"notify"}, user : User, id : 1 .. MaxRows, intro : BOOLEAN]
    \cup [pc : {"accept", "commit", "reject", "unfriend", "cancel", "block", "unblock"},
          user : User, id : 1 .. MaxRows]
    \cup [pc : {"open", "check", "save"}, user : User]

\* An accepting transaction holds the lock of the row it has found to be pending.
LockKept ==
  /\ \A r \in Request : At(r, "commit") => lock = r /\ StillPending(r)
  /\ lock # None => At(lock, "commit")

\* Rows are numbered as they are made, and those to come have not been accepted.
Numbered ==
  /\ friendship # None => friendship.id <= rows
  /\ \A i \in 1 .. MaxRows : AcceptedNotices(i) # {} => i <= rows

\* A row that waits has not been accepted; one that does not has.
AnswerKnown ==
  friendship # None => (friendship.status = "PENDING" <=> AcceptedNotices(friendship.id) = {})

\* AcceptedOnce, without counting.
Once ==
  \A i \in 1 .. MaxRows :
    /\ \A m, n \in AcceptedNotices(i) : m = n
    /\ \A m, n \in Intros(i) : m = n
    /\ AcceptedNotices(i) = {} => Intros(i) = {}

IInv == TypeOK /\ LockKept /\ Numbered /\ AnswerKnown /\ Once

-----------------------------------------------------------------------------
\* What a request knows, by where it is.
LEMMA Knows ==
  ASSUME NEW r \in Request, request[r] \in Doing
  PROVE  /\ At(r, "create") => request[r].user \in User /\ request[r].intro \in BOOLEAN
         /\ At(r, "notify") => /\ request[r].user \in User /\ request[r].intro \in BOOLEAN
                               /\ request[r].id \in 1 .. MaxRows
         /\ (\E pc \in {"accept", "commit", "reject", "unfriend", "cancel", "block", "unblock"} : At(r, pc))
               => request[r] \in [pc : {"accept", "commit", "reject", "unfriend", "cancel", "block", "unblock"},
                                  user : User, id : 1 .. MaxRows]
         /\ (\E pc \in {"open", "check", "save"} : At(r, pc))
               => request[r] \in [pc : {"open", "check", "save"}, user : User]
BY DEF Doing, Idle, At

\* The next step of one request is no step of another.
LEMMA OneRequest ==
  ASSUME request \in [Request -> Doing], NEW r \in Request, NEW next \in Doing, Becomes(r, next)
  PROVE  /\ request' \in [Request -> Doing]
         /\ request'[r] = next
         /\ \A q \in Request \ {r} : request'[q] = request[q]
BY DEF Becomes

LEMMA Typed ==
  TypeOK <=>
    /\ friendship \in Row \cup {None} /\ rows \in 0 .. MaxRows
    /\ friendship # None => (friendship.blockedBy # None <=> friendship.status = "BLOCKED")
    /\ lock \in Request \cup {None} /\ conversation \in BOOLEAN
    /\ messages \in Seq(Message) /\ notices \in Seq(Notice)
    /\ request \in [Request -> Doing]
BY DEF TypeOK, Doing

LEMMA OtherIsUser == \A u \in User : Other(u) \in User
BY TwoUsers DEF Other

\* The row that was found, and the one to come.
LEMMA RowFacts ==
  ASSUME TypeOK
  PROVE  /\ friendship # None => friendship \in Row
         /\ rows \in Nat /\ rows <= MaxRows
         /\ \A row \in Row : row # None
<1>1. Row \subseteq [id : Nat, requester : User, intro : BOOLEAN,
                     status : {"PENDING", "ACCEPTED", "BLOCKED"}, blockedBy : User \cup {None}]
  BY BoundAssumption DEF Row
<1> QED BY <1>1, NoneIsNoRow, BoundAssumption DEF TypeOK

LEMMA InitHolds == Init => IInv
<1> SUFFICES ASSUME Init PROVE IInv
  OBVIOUS
<1>1. TypeOK
  <2>1. request \in [Request -> Doing]
    BY DEF Init, Doing
  <2>2. messages \in Seq(Message) /\ notices \in Seq(Notice)
    BY EmptySeq DEF Init
  <2>3. /\ friendship \in Row \cup {None} /\ rows \in 0 .. MaxRows
        /\ lock \in Request \cup {None} /\ conversation \in BOOLEAN
    <3>1. rows \in 0 .. MaxRows
      BY BoundAssumption DEF Init
    <3>2. conversation \in BOOLEAN
      BY DEF Init
    <3> QED BY <3>1, <3>2 DEF Init
  <2>4. friendship = None
    BY DEF Init
  <2> QED BY <2>1, <2>2, <2>3, <2>4, Typed
<1>2. LockKept
  BY DEF Init, LockKept, At, Idle
<1>3. \A i \in 1 .. MaxRows : AcceptedNotices(i) = {} /\ Intros(i) = {}
  BY DEF Init, AcceptedNotices, Intros
<1>4. Numbered /\ AnswerKnown /\ Once
  BY <1>3 DEF Init, Numbered, AnswerKnown, Once
<1> QED BY <1>1, <1>2, <1>4 DEF IInv
-----------------------------------------------------------------------------
\* Steps that write the row hold its lock or need nobody to; the others leave it alone.
LEMMA LockStays ==
  ASSUME IInv, NEW r \in Request, NEW next \in Doing, Becomes(r, next),
         next.pc # "commit", ~At(r, "commit"),
         lock' = lock, friendship' = friendship \/ lock = None
  PROVE  LockKept'
<1>1. /\ request'[r] = next /\ r \in Request
      /\ \A q \in Request \ {r} : request'[q] = request[q]
  BY OneRequest, Typed DEF IInv
<1>2. \A q \in Request : At(q, "commit")' => q # r /\ At(q, "commit") /\ request'[q] = request[q]
  BY <1>1 DEF At
<1>3. \A q \in Request : At(q, "commit") => lock = q /\ lock # None
  BY RequestAssumption DEF IInv, LockKept
<1>4. \A q \in Request : At(q, "commit")' => lock' = q /\ StillPending(q)'
  <2> SUFFICES ASSUME NEW q \in Request, At(q, "commit")' PROVE lock' = q /\ StillPending(q)'
    OBVIOUS
  <2>1. lock = q /\ StillPending(q) /\ friendship' = friendship
    BY <1>2, <1>3 DEF IInv, LockKept
  <2> QED BY <1>2, <2>1 DEF StillPending, StillThere
<1>5. lock' # None => At(lock, "commit")'
  <2>1. lock # None => At(lock, "commit") /\ lock \in Request \ {r}
    BY Typed DEF IInv, LockKept
  <2> QED BY <1>1, <2>1 DEF At
<1> QED BY <1>4, <1>5 DEF LockKept

\* Steps that post no intro and accept nothing.
LEMMA HistoryStays ==
  ASSUME IInv, rows' = rows,
         \A i \in 1 .. MaxRows : AcceptedNotices(i)' = AcceptedNotices(i) /\ Intros(i)' = Intros(i),
         \/ friendship' \in {friendship, None}
         \/ /\ friendship # None /\ friendship'.id = friendship.id
            /\ friendship.status # "PENDING" /\ friendship'.status # "PENDING"
  PROVE  Numbered' /\ AnswerKnown' /\ Once'
<1>1. friendship # None => friendship.id \in 1 .. MaxRows
  BY RowFacts DEF IInv, Row
<1>2. Numbered'
  BY DEF IInv, Numbered
<1>3. AnswerKnown'
  BY <1>1 DEF IInv, AnswerKnown
<1>4. Once'
  BY DEF IInv, Once
<1> QED BY <1>2, <1>3, <1>4

LEMMA SameHistory ==
  ASSUME UNCHANGED <<messages, notices>>
  PROVE  \A i \in 1 .. MaxRows : AcceptedNotices(i)' = AcceptedNotices(i) /\ Intros(i)' = Intros(i)
BY DEF AcceptedNotices, Intros

\* A request that only goes on to its next step.
LEMMA GoesOn ==
  ASSUME IInv, NEW r \in Request, NEW next \in Doing, Becomes(r, next),
         next.pc # "commit", ~At(r, "commit"),
         UNCHANGED <<friendship, rows, lock, messages, notices>>, conversation' \in BOOLEAN
  PROVE  IInv'
<1>1. LockKept'
  BY LockStays
<1>2. Numbered' /\ AnswerKnown' /\ Once'
  BY HistoryStays, SameHistory
<1>3. TypeOK'
  <2>1. request' \in [Request -> Doing]
    BY OneRequest, Typed DEF IInv
  <2> QED BY <2>1, Typed DEF IInv, TypeOK, Doing
<1> QED BY <1>1, <1>2, <1>3 DEF IInv

\* One that writes the row, but not its number, and is done.
LEMMA RowWritten ==
  ASSUME IInv, NEW r \in Request, Ends(r), ~At(r, "commit"), lock = None,
         UNCHANGED <<rows, lock, conversation, messages, notices>>,
         \/ friendship' \in {friendship, None}
         \/ /\ friendship # None /\ friendship' \in Row /\ friendship'.id = friendship.id
            /\ friendship.status # "PENDING" /\ friendship'.status # "PENDING"
            /\ friendship'.blockedBy # None <=> friendship'.status = "BLOCKED"
  PROVE  IInv'
<1>1. Becomes(r, Idle) /\ Idle \in Doing /\ Idle.pc # "commit"
  BY DEF Ends, Idle, Doing
<1>2. LockKept'
  BY <1>1, LockStays
<1>3. Numbered' /\ AnswerKnown' /\ Once'
  BY HistoryStays, SameHistory
<1>4. TypeOK'
  <2>1. request' \in [Request -> Doing]
    BY <1>1, OneRequest, Typed DEF IInv
  <2>2. /\ friendship' \in Row \cup {None}
        /\ friendship' # None => (friendship'.blockedBy # None <=> friendship'.status = "BLOCKED")
    BY Typed DEF IInv
  <2> QED BY <2>1, <2>2, Typed DEF IInv, TypeOK, Doing
<1> QED BY <1>2, <1>3, <1>4 DEF IInv
-----------------------------------------------------------------------------
\* What a new last notification, and a new last message, add to what is counted.
LEMMA NoticeAppended ==
  ASSUME notices \in Seq(Notice), NEW s \in Seq(Notice), NEW n \in Notice,
         notices' = Append(s, n), DOMAIN s = DOMAIN notices,
         \A j \in DOMAIN notices : s[j].type = notices[j].type /\ s[j].row = notices[j].row
  PROVE  /\ notices' \in Seq(Notice)
         /\ \A i \in 1 .. MaxRows :
              AcceptedNotices(i)' = AcceptedNotices(i) \cup
                (IF n.type = "FRIEND_ACCEPTED" /\ n.row = i THEN {Len(notices) + 1} ELSE {})
<1>1. /\ DOMAIN notices = 1 .. Len(notices) /\ Len(notices) \in Nat
      /\ Len(s) = Len(notices)
  BY LenProperties
<1>2. /\ notices' \in Seq(Notice) /\ Len(notices') = Len(notices) + 1
      /\ DOMAIN notices' = 1 .. Len(notices) + 1
      /\ notices'[Len(notices) + 1] = n
      /\ \A j \in 1 .. Len(notices) : notices'[j] = s[j]
  BY <1>1, AppendProperties
<1>3. ASSUME NEW i \in 1 .. MaxRows, NEW j
      PROVE  j \in AcceptedNotices(i)' <=>
               \/ j \in AcceptedNotices(i)
               \/ n.type = "FRIEND_ACCEPTED" /\ n.row = i /\ j = Len(notices) + 1
  BY <1>1, <1>2 DEF AcceptedNotices
<1> QED BY <1>2, <1>3

LEMMA MessageAppended ==
  ASSUME messages \in Seq(Message), NEW m \in Message, messages' = Append(messages, m)
  PROVE  /\ messages' \in Seq(Message)
         /\ \A i \in 1 .. MaxRows :
              Intros(i)' = Intros(i) \cup (IF m.intro = i THEN {Len(messages) + 1} ELSE {})
<1>1. /\ DOMAIN messages = 1 .. Len(messages) /\ Len(messages) \in Nat
  BY LenProperties
<1>2. /\ messages' \in Seq(Message) /\ Len(messages') = Len(messages) + 1
      /\ DOMAIN messages' = 1 .. Len(messages) + 1
      /\ messages'[Len(messages) + 1] = m
      /\ \A j \in 1 .. Len(messages) : messages'[j] = messages[j]
  BY <1>1, AppendProperties
<1>3. ASSUME NEW i \in 1 .. MaxRows, NEW j
      PROVE  j \in Intros(i)' <=> j \in Intros(i) \/ (m.intro = i /\ j = Len(messages) + 1)
  BY <1>1, <1>2 DEF Intros
<1> QED BY <1>2, <1>3

-----------------------------------------------------------------------------
\* Whatever a user asks for, the request has only read.
LEMMA AskKeeps ==
  ASSUME IInv, NEW r \in Request, NEW u \in User, Ask(r, u)
  PROVE  IInv'
<1>1. UNCHANGED <<friendship, rows, lock, conversation, messages, notices>> /\ At(r, "idle")
  BY DEF Ask, SendFriendRequest, RespondToFriendRequest, DeleteRelationship, BlockUser, UnblockUser,
         StartConversation, SendMessage
<1>2. conversation' \in BOOLEAN /\ ~At(r, "commit")
  BY <1>1, Typed DEF IInv, At
<1>3. \E next \in Doing : Becomes(r, next) /\ next.pc # "commit"
  <2>1. friendship # None => friendship.id \in 1 .. MaxRows
    BY RowFacts DEF IInv, Row
  <2>2. CASE \E intro \in BOOLEAN : SendFriendRequest(r, u, intro)
    <3>1. PICK intro \in BOOLEAN : SendFriendRequest(r, u, intro)
      BY <2>2
    <3>2. [pc |-> "create", user |-> u, intro |-> intro] \in Doing
      BY DEF Doing
    <3> QED BY <3>1, <3>2 DEF SendFriendRequest
  <2>3. ASSUME NEW pc \in {"accept", "reject", "unfriend", "cancel", "block", "unblock"},
               friendship # None
        PROVE  Found(pc, u) \in Doing /\ Found(pc, u).pc # "commit"
    BY <2>1, <2>3 DEF Found, Doing
  <2>4. CASE \E answer \in {"accept", "reject"} : RespondToFriendRequest(r, u, answer)
    BY <2>3, <2>4 DEF RespondToFriendRequest
  <2>5. CASE DeleteRelationship(r, u) \/ BlockUser(r, u) \/ UnblockUser(r, u)
    BY <2>3, <2>5 DEF DeleteRelationship, BlockUser, UnblockUser, Friends
  <2>6. CASE StartConversation(r, u) \/ SendMessage(r, u)
    <3>1. /\ [pc |-> "open", user |-> u] \in Doing
          /\ [pc |-> "check", user |-> u] \in Doing
      BY DEF Doing
    <3> QED BY <2>6, <3>1 DEF StartConversation, SendMessage
  <2> QED BY <2>2, <2>4, <2>5, <2>6 DEF Ask
<1> QED BY <1>1, <1>2, <1>3, GoesOn

\* A new row has a number of its own.
LEMMA CreateKeeps ==
  ASSUME IInv, NEW r \in Request, CreateFriendRequest(r)
  PROVE  IInv'
<1>1. /\ At(r, "create") /\ ~At(r, "commit")
      /\ UNCHANGED <<lock, conversation, messages, notices>>
      /\ conversation' \in BOOLEAN
  BY Typed DEF IInv, CreateFriendRequest, At
<1>2. request[r].user \in User /\ request[r].intro \in BOOLEAN
  BY <1>1, Knows, Typed DEF IInv
<1>3. CASE friendship = None /\ rows < MaxRows
  <2> DEFINE row == [id |-> rows + 1, requester |-> request[r].user, intro |-> request[r].intro,
                     status |-> "PENDING", blockedBy |-> None]
             next == [pc |-> "notify", user |-> request[r].user, id |-> rows + 1,
                      intro |-> request[r].intro]
  <2>1. friendship' = row /\ rows' = rows + 1 /\ Becomes(r, next)
    BY <1>3 DEF CreateFriendRequest
  <2>2. rows \in Nat /\ rows + 1 \in 1 .. MaxRows
    BY <1>3, RowFacts, BoundAssumption DEF IInv
  <2>3. row \in Row /\ next \in Doing /\ next.pc # "commit" /\ row # None
        /\ row.id = rows + 1 /\ row.status = "PENDING" /\ row.blockedBy = None
    BY <1>2, <2>2, RowFacts DEF Row, Doing, IInv
  <2> HIDE DEF row, next
  <2>4. \A q \in Request : ~At(q, "commit")
    BY <1>3 DEF IInv, LockKept, StillPending, StillThere
  <2>5. lock = None
    BY <2>4, Typed DEF IInv, LockKept
  <2>6. LockKept'
    BY <1>1, <2>1, <2>3, <2>5, LockStays
  <2>7. TypeOK'
    <3>1. request' \in [Request -> Doing]
      BY <2>1, <2>3, OneRequest, Typed DEF IInv
    <3>2. rows' \in 0 .. MaxRows
      BY <2>1, <2>2
    <3>3. friendship' \in Row \cup {None}
          /\ (friendship' # None => (friendship'.blockedBy # None <=> friendship'.status = "BLOCKED"))
      BY <2>1, <2>3
    <3> QED BY <1>1, <3>1, <3>2, <3>3, Typed DEF IInv, TypeOK, Doing
  <2>8. \A i \in 1 .. MaxRows : AcceptedNotices(i)' = AcceptedNotices(i) /\ Intros(i)' = Intros(i)
    BY <1>1, SameHistory
  <2>9. AcceptedNotices(rows + 1) = {}
    BY <2>2 DEF IInv, Numbered
  <2>10. Numbered'
    <3>1. \A i \in 1 .. MaxRows : AcceptedNotices(i)' # {} => i <= rows + 1
      BY <2>2, <2>8 DEF IInv, Numbered
    <3> QED BY <2>1, <2>2, <2>3, <3>1 DEF Numbered
  <2>11. AnswerKnown'
    BY <2>1, <2>2, <2>3, <2>8, <2>9 DEF AnswerKnown
  <2>12. Once'
    BY <2>8 DEF IInv, Once
  <2> QED BY <2>6, <2>7, <2>10, <2>11, <2>12 DEF IInv
<1>4. CASE ~(friendship = None /\ rows < MaxRows)
  <2>1. UNCHANGED <<friendship, rows>> /\ Becomes(r, Idle)
    BY <1>4 DEF CreateFriendRequest, Ends
  <2>2. Idle \in Doing /\ Idle.pc # "commit"
    BY DEF Doing, Idle
  <2> QED BY <1>1, <2>1, <2>2, GoesOn
<1> QED BY <1>3, <1>4

\* A notification of a request accepts nothing.
LEMMA NotifyKeeps ==
  ASSUME IInv, NEW r \in Request, NotifyRequest(r)
  PROVE  IInv'
<1>1. /\ At(r, "notify") /\ ~At(r, "commit") /\ Becomes(r, Idle)
      /\ UNCHANGED <<friendship, rows, lock, conversation, messages>>
  BY DEF NotifyRequest, At, Ends
<1>2. Idle \in Doing /\ Idle.pc # "commit"
  BY DEF Doing, Idle
<1>3. CASE UNCHANGED notices
  <2>1. conversation' \in BOOLEAN
    BY <1>1, Typed DEF IInv
  <2> QED BY <1>1, <1>2, <1>3, <2>1, GoesOn
<1>4. CASE ~UNCHANGED notices
  <2> DEFINE n == [to |-> Other(request[r].user), type |-> "FRIEND_REQUEST",
                   row |-> request[r].id, intro |-> request[r].intro, opens |-> FALSE]
  <2>1. notices' = Append(notices, n)
    BY <1>4 DEF NotifyRequest
  <2>2. n \in Notice /\ n.type # "FRIEND_ACCEPTED"
    BY <1>1, Knows, OtherIsUser, Typed DEF IInv, Notice
  <2> HIDE DEF n
  <2>3. notices' \in Seq(Notice) /\ \A i \in 1 .. MaxRows : AcceptedNotices(i)' = AcceptedNotices(i)
    BY <2>1, <2>2, NoticeAppended, Typed DEF IInv
  <2>4. \A i \in 1 .. MaxRows : Intros(i)' = Intros(i)
    BY <1>1 DEF Intros
  <2>5. LockKept'
    BY <1>1, <1>2, LockStays
  <2>6. Numbered' /\ AnswerKnown' /\ Once'
    BY <1>1, <2>3, <2>4, HistoryStays
  <2>7. TypeOK'
    <3>1. request' \in [Request -> Doing]
      BY <1>1, <1>2, OneRequest, Typed DEF IInv
    <3> QED BY <1>1, <2>3, <3>1, Typed DEF IInv, TypeOK, Doing
  <2> QED BY <2>5, <2>6, <2>7 DEF IInv
<1> QED BY <1>3, <1>4

\* The transactions that lock the row, look at it again and write it in one step.
LEMMA LockedWritesKeep ==
  ASSUME IInv, NEW r \in Request, Reject(r) \/ Delete(r) \/ Block(r) \/ Unblock(r)
  PROVE  IInv'
<1>1. /\ Ends(r) /\ ~At(r, "commit") /\ lock = None
      /\ UNCHANGED <<rows, lock, conversation, messages, notices>>
  BY DEF Reject, Delete, Block, Unblock, At, Locked
<1>2. CASE Reject(r) \/ Delete(r)
  <2>1. friendship' \in {friendship, None}
    BY <1>2 DEF Reject, Delete
  <2> QED BY <1>1, <2>1, RowWritten
<1>3. CASE Block(r)
  <2>1. CASE StillBlockable(r)
    <3> DEFINE row == [friendship EXCEPT !.status = "BLOCKED", !.blockedBy = request[r].user]
    <3>1. /\ friendship' = row /\ friendship # None /\ friendship \in Row
          /\ friendship.status = "ACCEPTED"
      BY <1>3, <2>1, RowFacts DEF Block, StillBlockable, StillThere, IInv
    <3>2. request[r].user \in User
      BY <1>3, Knows, Typed DEF IInv, Block
    <3>3. /\ row \in Row /\ row.id = friendship.id /\ row.status = "BLOCKED" /\ row.blockedBy # None
      BY <3>1, <3>2, UserIsSome DEF Row
    <3> QED BY <1>1, <3>1, <3>3, RowWritten
  <2>2. CASE ~StillBlockable(r)
    <3>1. friendship' = friendship
      BY <1>3, <2>2 DEF Block
    <3> QED BY <1>1, <3>1, RowWritten
  <2> QED BY <2>1, <2>2
<1>4. CASE Unblock(r)
  <2>1. CASE StillUnblockable(r)
    <3>1. /\ friendship' = FriendsAgain(friendship) /\ friendship # None /\ friendship \in Row
          /\ friendship.status = "BLOCKED"
      BY <1>4, <2>1, RowFacts DEF Unblock, StillUnblockable, StillThere, IInv
    <3>2. /\ friendship' \in Row /\ friendship'.id = friendship.id
          /\ friendship'.status = "ACCEPTED" /\ friendship'.blockedBy = None
      BY <3>1 DEF Row, FriendsAgain
    <3> QED BY <1>1, <3>1, <3>2, RowWritten
  <2>2. CASE ~StillUnblockable(r)
    <3>1. friendship' = friendship
      BY <1>4, <2>2 DEF Unblock
    <3> QED BY <1>1, <3>1, RowWritten
  <2> QED BY <2>1, <2>2
<1> QED BY <1>2, <1>3, <1>4

\* An accept that has found the row pending keeps everybody else out.
LEMMA AcceptKeeps ==
  ASSUME IInv, NEW r \in Request, Accept(r)
  PROVE  IInv'
<1>1. /\ At(r, "accept") /\ ~At(r, "commit") /\ lock = None
      /\ UNCHANGED <<friendship, rows, conversation, messages, notices>>
  BY DEF Accept, At, Locked
<1>2. conversation' \in BOOLEAN
  BY <1>1, Typed DEF IInv
<1>3. CASE Ends(r) /\ UNCHANGED lock
  <2>1. Becomes(r, Idle) /\ Idle \in Doing /\ Idle.pc # "commit"
    BY <1>3 DEF Ends, Doing, Idle
  <2> QED BY <1>1, <1>2, <1>3, <2>1, GoesOn
<1>4. CASE StillPending(r) /\ lock' = r /\ Becomes(r, [request[r] EXCEPT !.pc = "commit"])
  <2> DEFINE next == [request[r] EXCEPT !.pc = "commit"]
  <2>1. /\ next \in Doing /\ next.pc = "commit" /\ next.id = request[r].id
        /\ next.user = request[r].user
    BY <1>1, Knows, Typed DEF IInv, Doing
  <2> HIDE DEF next
  <2>2. /\ request' \in [Request -> Doing] /\ request'[r] = next
        /\ \A q \in Request \ {r} : request'[q] = request[q]
    BY <1>4, <2>1, OneRequest, Typed DEF IInv, next
  <2>3. LockKept'
    <3>1. \A q \in Request : ~At(q, "commit")
      BY <1>1, RequestAssumption DEF IInv, LockKept
    <3>2. \A q \in Request : At(q, "commit")' => q = r
      BY <2>2, <3>1 DEF At
    <3>3. StillPending(r)' /\ At(r, "commit")'
      BY <1>1, <1>4, <2>1, <2>2 DEF StillPending, StillThere, At
    <3> QED BY <1>4, <3>2, <3>3 DEF LockKept
  <2>4. Numbered' /\ AnswerKnown' /\ Once'
    BY <1>1, SameHistory, HistoryStays
  <2>5. TypeOK'
    BY <1>1, <1>4, <2>2, Typed DEF IInv, TypeOK, Doing
  <2> QED BY <2>3, <2>4, <2>5 DEF IInv
<1> QED BY <1>3, <1>4 DEF Accept

\* A message that is nobody's intro.
LEMMA MessagesKeep ==
  ASSUME IInv, NEW r \in Request, OpenConversation(r) \/ CheckFriends(r) \/ SaveMessage(r)
  PROVE  IInv'
<1>1. /\ ~At(r, "commit") /\ UNCHANGED <<friendship, rows, lock, notices>>
      /\ \E pc \in {"open", "check", "save"} : At(r, pc)
  BY DEF OpenConversation, CheckFriends, SaveMessage, At
<1>2. Idle \in Doing /\ Idle.pc # "commit"
  BY DEF Doing, Idle
<1>3. \A pc \in {"check", "save"} :
        [request[r] EXCEPT !.pc = pc] \in Doing /\ [request[r] EXCEPT !.pc = pc].pc # "commit"
  BY <1>1, Knows, Typed DEF IInv, Doing
<1>4. CASE OpenConversation(r) \/ CheckFriends(r)
  <2>1. UNCHANGED messages
    BY <1>4 DEF OpenConversation, CheckFriends
  <2>2. conversation' \in BOOLEAN
    <3>1. conversation \in BOOLEAN
      BY Typed DEF IInv
    <3> QED BY <1>4, <3>1 DEF OpenConversation, CheckFriends
  <2>3. \E next \in Doing : Becomes(r, next) /\ next.pc # "commit"
    BY <1>2, <1>3, <1>4 DEF OpenConversation, CheckFriends, Ends
  <2> QED BY <1>1, <2>1, <2>2, <2>3, GoesOn
<1>5. CASE SaveMessage(r)
  <2>1. Becomes(r, Idle) /\ UNCHANGED conversation
    BY <1>5 DEF SaveMessage, Ends
  <2>2. conversation' \in BOOLEAN
    BY <2>1, Typed DEF IInv
  <2>3. CASE UNCHANGED messages
    BY <1>1, <1>2, <2>1, <2>2, <2>3, GoesOn
  <2>4. CASE ~UNCHANGED messages
    <3> DEFINE m == [sender |-> request[r].user, intro |-> None]
    <3>1. messages' = Append(messages, m)
      BY <1>5, <2>4 DEF SaveMessage
    <3>2. m \in Message /\ m.intro = None
      BY <1>1, Knows, Typed DEF IInv, Message
    <3> HIDE DEF m
    <3>3. messages' \in Seq(Message) /\ \A i \in 1 .. MaxRows : Intros(i)' = Intros(i)
      <4>1. \A i \in 1 .. MaxRows : m.intro # i
        BY <3>2, NoneIsNoNumber
      <4>2. messages \in Seq(Message)
        BY Typed DEF IInv
      <4> QED BY <3>1, <3>2, <4>1, <4>2, MessageAppended
    <3>4. \A i \in 1 .. MaxRows : AcceptedNotices(i)' = AcceptedNotices(i)
      BY <1>1 DEF AcceptedNotices
    <3>5. LockKept'
      BY <1>1, <1>2, <2>1, LockStays
    <3>6. Numbered' /\ AnswerKnown' /\ Once'
      BY <1>1, <3>3, <3>4, HistoryStays
    <3>7. TypeOK'
      <4>1. request' \in [Request -> Doing]
        BY <1>2, <2>1, OneRequest, Typed DEF IInv
      <4> QED BY <1>1, <2>1, <3>3, <4>1, Typed DEF IInv, TypeOK, Doing
    <3> QED BY <3>5, <3>6, <3>7 DEF IInv
  <2> QED BY <2>3, <2>4
<1> QED BY <1>4, <1>5

\* The accept commits: the row it found pending is accepted for the first time, and only now is
\* its intro posted.
LEMMA CommitKeeps ==
  ASSUME IInv, NEW r \in Request, CommitAccept(r)
  PROVE  IInv'
<1>1. /\ At(r, "commit") /\ lock = r /\ StillPending(r) /\ lock' = None
      /\ Becomes(r, Idle) /\ rows' = rows
  BY DEF CommitAccept, IInv, LockKept, Ends
<1>2. /\ friendship \in Row /\ friendship # None /\ friendship.status = "PENDING"
      /\ friendship.id \in 1 .. MaxRows /\ friendship.requester \in User
      /\ friendship.intro \in BOOLEAN
  BY <1>1, RowFacts DEF IInv, StillPending, StillThere, Row
<1>3. /\ request' \in [Request -> Doing] /\ request'[r] = Idle
      /\ \A q \in Request \ {r} : request'[q] = request[q]
  BY <1>1, OneRequest, Typed DEF IInv, Doing
<1>4. LockKept'
  <2>1. \A q \in Request : At(q, "commit") => q = r
    BY <1>1 DEF IInv, LockKept
  <2>2. \A q \in Request : ~At(q, "commit")'
    BY <1>3, <2>1 DEF At, Idle
  <2> QED BY <1>1, <2>2 DEF LockKept
<1>5. /\ notices \in Seq(Notice) /\ messages \in Seq(Message) /\ conversation \in BOOLEAN
      /\ rows \in 0 .. MaxRows
  BY Typed DEF IInv
<1>6. CASE UNCHANGED <<friendship, conversation, messages, notices>>
  <2>1. Numbered' /\ AnswerKnown' /\ Once'
    BY <1>1, <1>6, SameHistory, HistoryStays
  <2>2. TypeOK'
    BY <1>1, <1>3, <1>6, Typed DEF IInv, TypeOK, Doing
  <2> QED BY <1>4, <2>1, <2>2 DEF IInv
<1>7. CASE /\ friendship' = [friendship EXCEPT !.status = "ACCEPTED", !.blockedBy = None]
           /\ conversation' = TRUE
           /\ messages' = WithIntro
           /\ notices' = Append(WithConversation, AcceptedNotice)
  <2>1. PICK f \in 1 .. MaxRows : f = friendship.id
    BY <1>2
  <2>2. /\ friendship' \in Row /\ friendship'.id = f /\ friendship'.status = "ACCEPTED"
        /\ friendship'.blockedBy = None /\ friendship' # None
    BY <1>2, <1>7, <2>1, RowFacts DEF Row, IInv
  <2>3. /\ WithConversation \in Seq(Notice) /\ DOMAIN WithConversation = DOMAIN notices
        /\ \A j \in DOMAIN notices : /\ WithConversation[j].type = notices[j].type
                                    /\ WithConversation[j].row = notices[j].row
    <3>1. DOMAIN notices = 1 .. Len(notices) /\ Len(notices) \in Nat
          /\ \A j \in 1 .. Len(notices) : notices[j] \in Notice
      BY <1>5, LenProperties, ElementOfSeq
    <3>2. ASSUME NEW j \in 1 .. Len(notices)
          PROVE  /\ [notices[j] EXCEPT !.opens = TRUE] \in Notice
                 /\ [notices[j] EXCEPT !.opens = TRUE].type = notices[j].type
                 /\ [notices[j] EXCEPT !.opens = TRUE].row = notices[j].row
      BY <3>1 DEF Notice
    <3>3. DOMAIN WithConversation = DOMAIN notices
      BY DEF WithConversation
    <3>4. \A j \in DOMAIN notices :
            WithConversation[j] \in {notices[j], [notices[j] EXCEPT !.opens = TRUE]}
      BY DEF WithConversation
    <3>5. \A j \in 1 .. Len(notices) : /\ WithConversation[j] \in Notice
                                      /\ WithConversation[j].type = notices[j].type
                                      /\ WithConversation[j].row = notices[j].row
      BY <3>1, <3>2, <3>4
    <3>6. WithConversation \in Seq(Notice)
      <4>1. WithConversation = [j \in 1 .. Len(notices) |-> WithConversation[j]]
        BY <3>1 DEF WithConversation
      <4> QED BY <3>1, <3>5, <4>1, IsASeq
    <3> QED BY <3>1, <3>3, <3>5, <3>6
  <2>4. AcceptedNotice \in Notice /\ AcceptedNotice.type = "FRIEND_ACCEPTED" /\ AcceptedNotice.row = f
    BY <1>2, <2>1 DEF AcceptedNotice, Notice
  <2>5. /\ notices' \in Seq(Notice)
        /\ \A i \in 1 .. MaxRows :
             AcceptedNotices(i)' = AcceptedNotices(i) \cup
                (IF i = f THEN {Len(notices) + 1} ELSE {})
    BY <1>5, <1>7, <2>3, <2>4, NoticeAppended
  <2>6. /\ messages' \in Seq(Message)
        /\ \/ \A i \in 1 .. MaxRows : Intros(i)' = Intros(i)
           \/ \A i \in 1 .. MaxRows :
                Intros(i)' = Intros(i) \cup (IF i = f THEN {Len(messages) + 1} ELSE {})
    <3>1. CASE UNCHANGED messages
      BY <1>5, <3>1 DEF Intros
    <3>2. CASE ~UNCHANGED messages
      <4> DEFINE m == [sender |-> friendship.requester, intro |-> f]
      <4>1. messages' = Append(messages, m)
        BY <1>7, <2>1, <3>2 DEF WithIntro
      <4>2. m \in Message /\ m.intro = f
        BY <1>2, <2>1 DEF Message
      <4> HIDE DEF m
      <4> QED BY <1>5, <4>1, <4>2, MessageAppended
    <3> QED BY <3>1, <3>2
  <2>7. AcceptedNotices(f) = {} /\ Intros(f) = {} /\ f <= rows
    BY <1>2, <2>1 DEF IInv, AnswerKnown, Once, Numbered
  <2>8. Numbered'
    BY <1>1, <2>2, <2>5, <2>7 DEF IInv, Numbered
  <2>9. AnswerKnown'
    BY <2>2, <2>5, <2>1 DEF AnswerKnown
  <2>10. Once'
    <3>1. ASSUME NEW i \in 1 .. MaxRows, i # f
          PROVE  AcceptedNotices(i)' = AcceptedNotices(i) /\ Intros(i)' = Intros(i)
      BY <2>5, <2>6, <3>1
    <3>2. AcceptedNotices(f)' = {Len(notices) + 1} /\ Intros(f)' \subseteq {Len(messages) + 1}
      BY <2>5, <2>6, <2>7, <2>1
    <3>3. ASSUME NEW i \in 1 .. MaxRows
          PROVE  /\ \A m, n \in AcceptedNotices(i)' : m = n
                 /\ \A m, n \in Intros(i)' : m = n
                 /\ AcceptedNotices(i)' = {} => Intros(i)' = {}
      BY <3>1, <3>2 DEF IInv, Once
    <3> QED BY <3>3 DEF Once
  <2>11. TypeOK'
    <3>1. conversation' \in BOOLEAN
      BY <1>7
    <3> QED BY <1>1, <1>3, <1>5, <2>2, <2>5, <2>6, <3>1 DEF TypeOK, Doing
  <2> QED BY <1>4, <2>8, <2>9, <2>10, <2>11 DEF IInv
<1> QED BY <1>6, <1>7 DEF CommitAccept

\* Every step keeps the invariant.
LEMMA NextKeeps == IInv /\ [Next]_vars => IInv'
<1> SUFFICES ASSUME IInv, [Next]_vars PROVE IInv'
  OBVIOUS
<1>1. CASE UNCHANGED vars
  <2>1. UNCHANGED <<friendship, rows, lock, conversation, messages, notices, request>>
    BY <1>1 DEF vars
  <2>2. TypeOK'
    BY <2>1 DEF IInv, TypeOK
  <2>3. LockKept'
    BY <2>1 DEF IInv, LockKept, At, StillPending, StillThere
  <2>4. Numbered' /\ AnswerKnown' /\ Once'
    BY <2>1, SameHistory, HistoryStays
  <2> QED BY <2>2, <2>3, <2>4 DEF IInv
<1>2. ASSUME NEW r \in Request, Proceed(r) PROVE IInv'
  BY <1>2, CreateKeeps, NotifyKeeps, LockedWritesKeep, AcceptKeeps, CommitKeeps, MessagesKeep
     DEF Proceed
<1>3. ASSUME NEW r \in Request, NEW u \in User, Ask(r, u) PROVE IInv'
  BY <1>3, AskKeeps
<1> QED BY <1>1, <1>2, <1>3 DEF Next

LEMMA InvariantHolds == Spec => []IInv
BY InitHolds, NextKeeps, PTL DEF Spec

-----------------------------------------------------------------------------
\* Every variable keeps its type, and the row what the migrations ask of it.
THEOREM TypeCorrect == Spec => []TypeOK
<1>1. IInv => TypeOK
  BY DEF IInv
<1> QED BY InvariantHolds, <1>1, PTL

\* However many tabs accept, and whatever crosses them: a row is accepted once, and its intro
\* is posted at most once.
THEOREM RowAcceptedOnce == Spec => []AcceptedOnce
<1>1. ASSUME IInv PROVE AcceptedOnce
  <2>1. ASSUME NEW S, \A m, n \in S : m = n
        PROVE  Cardinality(S) = IF S = {} THEN 0 ELSE 1
    <3>1. CASE S = {}
      BY <3>1, FS_EmptySet
    <3>2. CASE S # {}
      <4>1. PICK m \in S : S = {m}
        BY <2>1, <3>2
      <4> QED BY <4>1, FS_Singleton
    <3> QED BY <3>1, <3>2
  <2>2. ASSUME NEW i \in 1 .. MaxRows
        PROVE  /\ Cardinality(AcceptedNotices(i)) <= 1
               /\ Cardinality(Intros(i)) <= Cardinality(AcceptedNotices(i))
    <3>1. /\ Cardinality(AcceptedNotices(i)) = IF AcceptedNotices(i) = {} THEN 0 ELSE 1
          /\ Cardinality(Intros(i)) = IF Intros(i) = {} THEN 0 ELSE 1
          /\ AcceptedNotices(i) = {} => Intros(i) = {}
      BY <1>1, <2>1 DEF IInv, Once
    <3> QED BY <3>1
  <2> QED BY <1>1, <2>2 DEF IInv, AnswerKnown, AcceptedOnce
<1> QED BY InvariantHolds, <1>1, PTL

\* The steps that write the row, as the moves of the state machine.
LEMMA RowMoves ==
  ASSUME IInv, NEW r \in Request, Proceed(r), friendship' # friendship
  PROVE  /\ F!Next
         /\ friendship # None /\ friendship.status = "BLOCKED"
              => At(r, "unblock") /\ request[r].user = friendship.blockedBy
<1> DEFINE Goal ==
      /\ F!Next
      /\ friendship # None /\ friendship.status = "BLOCKED"
           => At(r, "unblock") /\ request[r].user = friendship.blockedBy
<1>1. /\ friendship # None => friendship \in Row
      /\ friendship # None => (friendship.blockedBy # None <=> friendship.status = "BLOCKED")
      /\ \A row \in Row : row # None
      /\ request \in [Request -> Doing]
  BY RowFacts, Typed DEF IInv
<1>2. CASE CreateFriendRequest(r)
  <2> DEFINE row == [id |-> rows + 1, requester |-> request[r].user, intro |-> request[r].intro,
                     status |-> "PENDING", blockedBy |-> None]
  <2>1. friendship = None /\ friendship' = row
    BY <1>2 DEF CreateFriendRequest
  <2>2. request[r].user \in User /\ request[r].intro \in BOOLEAN
    BY <1>1, <1>2, Knows DEF CreateFriendRequest
  <2>3. row # None
    BY <1>2, <2>2, RowFacts, NoneIsNoRow DEF IInv, CreateFriendRequest
  <2>4. relation = None /\ relation' = F!Pending(request[r].user)
    BY <2>1, <2>3 DEF relation, F!Pending
  <2> QED BY <2>1, <2>2, <2>4 DEF F!Next, F!Befriend
<1>3. CASE Reject(r)
  <2>1. /\ friendship # None /\ friendship.status = "PENDING" /\ friendship' = None
        /\ friendship.requester \in User
    BY <1>1, <1>3 DEF Reject, StillPending, StillThere, Row
  <2>2. relation = F!Pending(friendship.requester) /\ relation' = None
    BY <2>1 DEF relation, F!Pending
  <2> QED BY <2>1, <2>2 DEF F!Next, F!Withdraw
<1>4. CASE CommitAccept(r)
  <2>1. /\ friendship # None /\ friendship.status = "PENDING" /\ friendship.requester \in User
        /\ friendship \in Row
    BY <1>1, <1>4 DEF CommitAccept, IInv, LockKept, StillPending, StillThere, Row
  <2>2. friendship' = [friendship EXCEPT !.status = "ACCEPTED", !.blockedBy = None]
    BY <1>4 DEF CommitAccept
  <2>3. friendship' # None /\ friendship'.status = "ACCEPTED" /\ friendship'.blockedBy = None
    BY <1>1, <2>1, <2>2 DEF Row
  <2>4. relation = F!Pending(friendship.requester) /\ relation' = F!Accepted
    BY <2>1, <2>3 DEF relation, F!Pending, F!Accepted
  <2> QED BY <2>1, <2>4 DEF F!Next, F!Accept
<1>5. CASE Delete(r)
  <2>1. /\ friendship # None /\ friendship' = None
        /\ friendship.requester \in User
        /\ friendship.status = "ACCEPTED" \/ friendship.status = "PENDING"
    BY <1>1, <1>5 DEF Delete, StillRemovable, StillThere, Row
  <2>2. /\ relation' = None
        /\ relation = F!Accepted \/ relation = F!Pending(friendship.requester)
    BY <1>1, <2>1 DEF relation, F!Pending, F!Accepted
  <2> QED BY <2>1, <2>2 DEF F!Next, F!Withdraw, F!Unfriend
<1>6. CASE Block(r)
  <2>1. /\ friendship # None /\ friendship.status = "ACCEPTED" /\ friendship \in Row
        /\ friendship' = [friendship EXCEPT !.status = "BLOCKED", !.blockedBy = request[r].user]
    BY <1>1, <1>6 DEF Block, StillBlockable, StillThere
  <2>2. request[r].user \in User
    BY <1>1, <1>6, Knows DEF Block
  <2>3. /\ friendship' # None /\ friendship'.status = "BLOCKED"
        /\ friendship'.blockedBy = request[r].user
    BY <1>1, <2>1, <2>2 DEF Row
  <2>4. relation = F!Accepted /\ relation' = F!Blocked(request[r].user)
    BY <1>1, <2>1, <2>3 DEF relation, F!Blocked, F!Accepted
  <2> QED BY <2>1, <2>2, <2>4 DEF F!Next, F!Block
<1>7. CASE Unblock(r)
  <2>1. /\ friendship # None /\ friendship.status = "BLOCKED" /\ friendship \in Row
        /\ friendship.blockedBy = request[r].user /\ At(r, "unblock")
        /\ friendship' = FriendsAgain(friendship)
    BY <1>1, <1>7 DEF Unblock, StillUnblockable, StillThere
  <2>2. request[r].user \in User
    BY <1>1, <2>1, Knows
  <2>3. friendship' # None /\ friendship'.status = "ACCEPTED" /\ friendship'.blockedBy = None
    BY <1>1, <2>1 DEF Row, FriendsAgain
  <2>4. relation = F!Blocked(request[r].user) /\ relation' = F!Accepted
    BY <2>1, <2>3 DEF relation, F!Blocked, F!Accepted
  <2> QED BY <2>1, <2>2, <2>4 DEF F!Next, F!Unblock
<1>8. \/ CreateFriendRequest(r) \/ Reject(r) \/ CommitAccept(r) \/ Delete(r) \/ Block(r)
      \/ Unblock(r)
  BY DEF Proceed, NotifyRequest, Accept, OpenConversation, CheckFriends, SaveMessage
<1> QED BY <1>2, <1>3, <1>4, <1>5, <1>6, <1>7, <1>8

\* A user who only asks writes no row.
LEMMA OnlyProceedMoves ==
  ASSUME [Next]_vars, friendship' # friendship
  PROVE  \E r \in Request : Proceed(r)
BY DEF Next, vars, Ask, SendFriendRequest, RespondToFriendRequest, DeleteRelationship, BlockUser,
       UnblockUser, StartConversation, SendMessage

\* The rows, the locks and the requests that read before they lock implement the state machine
\* of friendships: no interleaving of any number of requests makes a move it does not have.
THEOREM ImplementsFriendship == Spec => FollowsLifecycle
<1>1. Init => F!Init
  BY DEF Init, F!Init, relation
<1>2. IInv /\ [Next]_vars => [F!Next]_relation
  <2>1. friendship' = friendship => relation' = relation
    BY DEF relation
  <2> QED BY <2>1, RowMoves, OnlyProceedMoves
<1> QED BY InvariantHolds, <1>1, <1>2, PTL DEF Spec, FollowsLifecycle, F!Spec

\* Only the blocker's unblock ends a block.
THEOREM OnlyBlockerUnblocks == Spec => BlockStands
<1>1. IInv /\ [Next]_vars =>
        [friendship # None /\ friendship.status = "BLOCKED" /\ friendship' # friendship
           => \E r \in Request : At(r, "unblock") /\ request[r].user = friendship.blockedBy]_vars
  BY RowMoves, OnlyProceedMoves
<1> QED BY InvariantHolds, <1>1, PTL DEF Spec, BlockStands

\* Nobody gets past the friendship check when there is no friendship.
THEOREM SendsEnd == Spec => SendsDryUp
<1>1. ASSUME IInv, [Next]_vars, ~Friends
      PROVE  Sending' \subseteq Sending
  <2>1. request \in [Request -> Doing]
    BY <1>1, Typed DEF IInv
  <2>2. ASSUME NEW r \in Request, NEW next, Becomes(r, next), next.pc # "save"
        PROVE  Sending' \subseteq Sending
    BY <2>1, <2>2 DEF Becomes, Sending, At
  <2>3. Idle.pc # "save"
    BY DEF Idle
  <2>4. ASSUME NEW r \in Request, Proceed(r)
        PROVE  \E next : Becomes(r, next) /\ next.pc # "save"
    <3>1. CASE Ends(r)
      BY <2>3, <3>1 DEF Ends
    <3>2. CASE CreateFriendRequest(r)
      BY <2>3, <3>2 DEF CreateFriendRequest, Ends
    <3>3. CASE Accept(r)
      <4>1. At(r, "accept") => [request[r] EXCEPT !.pc = "commit"].pc # "save"
        BY <2>1, Knows
      <4> QED BY <2>3, <3>3, <4>1 DEF Accept, Ends
    <3>4. CASE OpenConversation(r)
      <4>1. At(r, "open") => [request[r] EXCEPT !.pc = "check"].pc # "save"
        BY <2>1, Knows
      <4> QED BY <2>3, <3>4, <4>1 DEF OpenConversation, Ends
    <3>5. CASE CheckFriends(r)
      BY <1>1, <2>3, <3>5 DEF CheckFriends, MaySend, Ends
    <3> QED BY <2>4, <3>1, <3>2, <3>3, <3>4, <3>5
            DEF Proceed, NotifyRequest, Reject, CommitAccept, Delete, Block, Unblock, SaveMessage
  <2>5. ASSUME NEW r \in Request, NEW u \in User, Ask(r, u)
        PROVE  \E next : Becomes(r, next) /\ next.pc # "save"
    <3>1. \A pc : Found(pc, u).pc = pc
      BY DEF Found
    <3>2. CASE \E intro \in BOOLEAN : SendFriendRequest(r, u, intro)
      BY <3>2 DEF SendFriendRequest
    <3>3. CASE \E answer \in {"accept", "reject"} : RespondToFriendRequest(r, u, answer)
      BY <3>1, <3>3 DEF RespondToFriendRequest
    <3>4. CASE DeleteRelationship(r, u) \/ BlockUser(r, u) \/ UnblockUser(r, u)
      BY <3>1, <3>4 DEF DeleteRelationship, BlockUser, UnblockUser
    <3>5. CASE StartConversation(r, u) \/ SendMessage(r, u)
      BY <3>5 DEF StartConversation, SendMessage
    <3> QED BY <2>5, <3>2, <3>3, <3>4, <3>5 DEF Ask
  <2>6. CASE UNCHANGED vars
    BY <2>6 DEF vars, Sending, At
  <2> QED BY <1>1, <2>2, <2>4, <2>5, <2>6 DEF Next
<1>2. IInv /\ [Next]_vars => [~Friends => Sending' \subseteq Sending]_vars
  BY <1>1
<1> QED BY InvariantHolds, <1>2, PTL DEF Spec, SendsDryUp
=============================================================================
