--------------------------- MODULE DirectMessages ---------------------------
(***************************************************************************)
(* The inbox of one user: the store of its page                            *)
(* (client/src/stores/useDirectMessageStore.js), the conversations behind  *)
(* it (server/src/modules/messages) and what comes over the socket in      *)
(* between.                                                                *)
(*                                                                         *)
(* A list of conversations, a thread, a read mark are each several reads   *)
(* and writes of the server, and the answer meets a store that socket      *)
(* events have changed meanwhile; `call' has the requests between two of   *)
(* their awaits, with what they have read.                                 *)
(*                                                                         *)
(* The n-th message of a conversation is n, and so is the time from its    *)
(* createdAt to the next one's: what the code compares of two times is     *)
(* which messages lie before them.  0 is no time.  The friend of a         *)
(* conversation is only what it sends.  Blocks and friendships are in      *)
(* Social, the end of a session in ClientSession.  The total of the unread *)
(* counts is always recomputed from them, and is left out, as is           *)
(* the user's own cursor as far as the store keeps it, for its own bubbles.*)
(*                                                                         *)
(* InboxInit, InboxNext and InboxSpec are named so as to stand beside      *)
(* those of ClientSession in ClientProofs.                                 *)
(***************************************************************************)
EXTENDS Integers, FiniteSets, SequencesExt

CONSTANTS Conversation,
          Call,           \* requests under way at a time
          ThreadLimit,    \* messages in a thread: 100 in the code, in the store and the server
          TypingLimit,    \* conversations that show somebody typing: 50 in the code
          MaxMessage,     \* bound, of each conversation: messages that one of the two writes
          MaxPending,     \* bound: events on the way
          NoConversation

ASSUME NoConversationAssumption == NoConversation \notin Conversation
ASSUME LimitsAssumption ==
  /\ ThreadLimit \in Nat \ {0} /\ TypingLimit \in Nat \ {0}
  /\ MaxMessage \in [Conversation -> Nat] /\ MaxPending \in Nat

VARIABLES written,       \* of each conversation, who sent its messages: "me" or "friend"
          uncommitted,   \* the messages whose transaction is not committed
          readAt,        \* the cursors of each conversation: mine, the friend's
          marked,        \* the latest time that the friend has marked as read
          pending,       \* the events that the socket has yet to deliver
          entry,         \* the store: its conversations
          thread,        \* the messages of each
          active,        \* the one that is open
          typing,        \* those where the friend is typing, the latest last
          timers,        \* the timers that end that
          call

rows == <<written, uncommitted, readAt, marked>>
inboxStore == <<entry, thread, active, typing, timers>>
inbox == <<rows, pending, inboxStore, call>>

-----------------------------------------------------------------------------
Sender == {"me", "friend"}

Messages(c) == 1 .. Len(written[c])

\* What a query finds.
Committed(c) == {n \in Messages(c) : <<c, n>> \notin uncommitted}

Now(c) == Len(written[c])

\* countUnreadMessagesForConversation.
UnreadSince(c, cursor) ==
  Cardinality({n \in Committed(c) : written[c][n] = "friend" /\ n > cursor})

\* The cursor of the one who asks.
MyLastReadAt(row) == row.me

\* Of the two cursors of a row the other one's.
FriendLastReadAt(row) == row.friend

\* toConversationDto.
Dto(row, unread) ==
  [listed |-> TRUE, unread |-> unread, friendReadAt |-> FriendLastReadAt(row)]

\* The newest messages of a sequence, as many as are kept.
Newest(s) == SubSeq(s, IF Len(s) > ThreadLimit THEN Len(s) - ThreadLimit + 1 ELSE 1, Len(s))

\* A set of messages in the order they were written.
InOrder(messages) ==
  {s \in [1 .. Cardinality(messages) -> messages] :
     \A i, j \in DOMAIN s : i < j => s[i] < s[j]}

\* listMessagesForConversation, in the order of the thread.
Listed(c) == {Newest(s) : s \in InOrder(Committed(c))}

NotListed == [listed |-> FALSE, unread |-> 0, friendReadAt |-> 0]

Idle == [pc |-> "idle"]

At(k, pc) == call[k].pc = pc

Becomes(k, next) == call' = [call EXCEPT ![k] = next]

CanEmit == Len(pending) < MaxPending

InboxInit ==
  /\ written = [c \in Conversation |-> <<>>]
  /\ uncommitted = {}
  /\ readAt = [c \in Conversation |-> [me |-> 0, friend |-> 0]]
  /\ marked = [c \in Conversation |-> 0]
  /\ pending = <<>>
  /\ entry = [c \in Conversation |-> NotListed]
  /\ thread = [c \in Conversation |-> <<>>]
  /\ active = NoConversation
  /\ typing = <<>> /\ timers = {}
  /\ call = [k \in Call |-> Idle]

-----------------------------------------------------------------------------
(* The friend, and the messages.                                           *)

\* createMessageInConversation: createdAt is set, the transaction goes on.
Write(c, who) ==
  /\ Cardinality({n \in Messages(c) : written[c][n] = who}) < MaxMessage[c]
  /\ written' = [written EXCEPT ![c] = Append(@, who)]
  /\ uncommitted' = uncommitted \cup {<<c, Now(c) + 1>>}
  /\ UNCHANGED <<readAt, marked, pending, inboxStore, call>>

\* It commits, with the sender's cursor at the message, and chat:private_message goes to both.
Commit(c, n) ==
  /\ <<c, n>> \in uncommitted /\ CanEmit
  /\ LET who == written[c][n] IN
     /\ readAt' = [readAt EXCEPT ![c][who] = n]
     /\ marked' = IF who = "friend" /\ n > marked[c] THEN [marked EXCEPT ![c] = n] ELSE marked
  /\ uncommitted' = uncommitted \ {<<c, n>>}
  /\ pending' = Append(pending, [type |-> "private_message", conv |-> c, at |-> n])
  /\ UNCHANGED <<written, inboxStore, call>>

\* The friend opens the thread or has it open: its request took its time at any moment up to
\* now.  The cursor is overwritten whatever it is.
FriendReads(c, t) ==
  /\ CanEmit /\ t <= Now(c)
  /\ readAt' = [readAt EXCEPT ![c].friend = t]
  /\ marked' = IF t > marked[c] THEN [marked EXCEPT ![c] = t] ELSE marked
  /\ pending' = Append(pending, [type |-> "conversation_read", conv |-> c, at |-> t])
  /\ UNCHANGED <<written, uncommitted, inboxStore, call>>

\* handlePrivateTyping relays what the friend's page sends.
FriendTypes(c, type) ==
  /\ CanEmit
  /\ pending' = Append(pending, [type |-> type, conv |-> c, at |-> 0])
  /\ UNCHANGED <<rows, inboxStore, call>>

-----------------------------------------------------------------------------
(* Socket events reach the store.                                          *)

\* appendMessage without a look at the messages that are there.
AlwaysAppended(messages, n) == Newest(Append(messages, n))

\* appendMessage.
Appended(messages, n) ==
  IF \E i \in 1 .. Len(messages) : messages[i] = n THEN messages
  ELSE Newest(Append(messages, n))

\* markConversationRead; where Call leaves no room for one more request, it is one that fails.
AskToMark(c) ==
  IF \E k \in Call : At(k, "idle")
  THEN \E k \in Call : At(k, "idle") /\ Becomes(k, [pc |-> "mark", conv |-> c])
  ELSE UNCHANGED call

\* deleteTypingEntry.
Without(list, c) ==
  IF \E i \in DOMAIN list : list[i] = c
  THEN RemoveAt(list, CHOOSE i \in DOMAIN list : list[i] = c)
  ELSE list

\* receiveMessage: an incoming message counts, or, if its thread is open, is marked as read.
ReceiveMessage(c, n) ==
  LET isIncoming == written[c][n] = "friend" IN
  /\ entry' = [entry EXCEPT ![c].listed = TRUE,
                            ![c].unread = IF isIncoming /\ active # c THEN @ + 1 ELSE @]
  /\ thread' = [thread EXCEPT ![c] = Appended(@, n)]
  /\ typing' = Without(typing, c)
  /\ timers' = timers \ {c}
  /\ IF isIncoming /\ active = c
     THEN AskToMark(c)
     ELSE UNCHANGED call
  /\ UNCHANGED active

\* shouldReplaceReadAt.
Later(current, next) == IF next > current THEN next ELSE current

\* markConversationReadByFriend; an entry that is not there is not made.
MarkReadByFriend(c, t) ==
  /\ entry' = IF entry[c].listed /\ t # 0
              THEN [entry EXCEPT ![c].friendReadAt = Later(@, t)] ELSE entry
  /\ UNCHANGED <<thread, active, typing, timers, call>>

\* No limit.
NeverExcess(list) == 0

\* How many no longer fit.
Excess(list) == IF Len(list) > TypingLimit THEN Len(list) - TypingLimit ELSE 0

\* Those are the oldest.
Oldest(list) == Range(SubSeq(list, 1, Excess(list)))

\* A limit that leaves the timers running.
NoTimersOf(gone) == {}

TimersOf(gone) == gone

\* receiveTyping, with limitTypingEntries.
ReceiveTyping(c) ==
  LET list == Append(Without(typing, c), c) IN
  /\ typing' = SubSeq(list, Excess(list) + 1, Len(list))
  /\ timers' = (timers \cup {c}) \ TimersOf(Oldest(list))
  /\ UNCHANGED <<entry, thread, active, call>>

\* clearTyping.
ClearTyping(c) ==
  /\ typing' = Without(typing, c)
  /\ timers' = timers \ {c}
  /\ UNCHANGED <<entry, thread, active, call>>

Deliver ==
  /\ pending # <<>>
  /\ pending' = Tail(pending)
  /\ LET e == Head(pending) IN
     \/ e.type = "private_message" /\ ReceiveMessage(e.conv, e.at)
     \/ e.type = "conversation_read" /\ MarkReadByFriend(e.conv, e.at)
     \/ e.type = "typing" /\ ReceiveTyping(e.conv)
     \/ e.type = "stop_typing" /\ ClearTyping(e.conv)
  /\ UNCHANGED rows

\* The timer that receiveTyping has set.
TypingGoesStale(c) ==
  /\ c \in timers
  /\ ClearTyping(c)
  /\ UNCHANGED <<rows, pending>>

\* The socket was down: what was sent in the meantime is not sent again, and handleConnect loads
\* nothing of the inbox.
Reconnect ==
  /\ pending # <<>>
  /\ pending' = <<>>
  /\ UNCHANGED <<rows, inboxStore, call>>

-----------------------------------------------------------------------------
(* The page's requests.                                                    *)

\* Messages.jsx opens a conversation.
SetActiveConversation(c) ==
  /\ active # c
  /\ active' = c
  /\ UNCHANGED <<rows, pending, entry, thread, typing, timers, call>>

Request(k, next) ==
  /\ At(k, "idle")
  /\ Becomes(k, next)
  /\ UNCHANGED <<rows, pending, inboxStore>>

LoadConversations(k) == Request(k, [pc |-> "list"])

\* The effect of opening a thread: loadMessages, to listMessages of the server.
LoadMessages(k) == active # NoConversation /\ Request(k, [pc |-> "open", conv |-> active])

EnsureConversation(k, c) == Request(k, [pc |-> "ensure", conv |-> c])

\* markAllRead zeroes the counts before it asks.
MarkAllRead(k) ==
  /\ At(k, "idle")
  /\ \E c \in Conversation : entry[c].unread > 0
  /\ entry' = [c \in Conversation |-> [entry[c] EXCEPT !.unread = 0]]
  /\ Becomes(k, [pc |-> "markAll"])
  /\ UNCHANGED <<rows, pending, thread, active, typing, timers>>

\* A request that reads: the store and the rows stay.
Reads(k, next) ==
  /\ Becomes(k, next)
  /\ UNCHANGED <<rows, pending, inboxStore>>

\* listConversations reads the rows, then counts by the cursors it has read.
ListRows(k) == At(k, "list") /\ Reads(k, [pc |-> "count", rows |-> readAt])

CountRows(k) ==
  /\ At(k, "count")
  /\ LET read == call[k].rows IN
     Reads(k, [pc |-> "listed",
               entries |-> [c \in Conversation |-> Dto(read[c], UnreadSince(c, read[c].me))]])

\* The answer replaces the list.
AnswerConversations(k) ==
  /\ At(k, "listed")
  /\ entry' = call[k].entries
  /\ Becomes(k, Idle)
  /\ UNCHANGED <<rows, pending, thread, active, typing, timers>>

\* getOrCreateConversation reads the row and counts; its answer opens the thread.
FindConversation(k) ==
  /\ At(k, "ensure")
  /\ LET c == call[k].conv IN Reads(k, [pc |-> "found", conv |-> c, row |-> readAt[c]])

CountRow(k) ==
  /\ At(k, "found")
  /\ LET c == call[k].conv IN
     Reads(k, [pc |-> "ensured", conv |-> c,
               entry |-> Dto(call[k].row, UnreadSince(c, call[k].row.me))])

AnswerConversation(k) ==
  /\ At(k, "ensured")
  /\ LET c == call[k].conv IN
     /\ entry' = [entry EXCEPT ![c] = call[k].entry]
     /\ active' = c
  /\ Becomes(k, Idle)
  /\ UNCHANGED <<rows, pending, thread, typing, timers>>

\* new Date(), ahead of the write.
TakeTime(k) ==
  \/ /\ At(k, "open")
     /\ LET c == call[k].conv IN Reads(k, [pc |-> "openWrite", conv |-> c, at |-> Now(c)])
  \/ /\ At(k, "mark")
     /\ LET c == call[k].conv IN Reads(k, [pc |-> "markWrite", conv |-> c, at |-> Now(c)])
  \/ /\ At(k, "markAll")
     /\ Reads(k, [pc |-> "markAllWrite", times |-> [c \in Conversation |-> Now(c)],
                  left |-> Conversation])

\* markConversationReadForUser writes the cursor of who asks.
MarkRead(c, t) == readAt' = [readAt EXCEPT ![c].me = t]

WriteRead(k) ==
  /\ \/ /\ At(k, "openWrite")
        /\ MarkRead(call[k].conv, call[k].at)
        /\ Becomes(k, [pc |-> "thread", conv |-> call[k].conv])
     \/ /\ At(k, "markWrite")
        /\ MarkRead(call[k].conv, call[k].at)
        /\ Becomes(k, Idle)
     \/ /\ At(k, "markAllWrite")
        /\ \E c \in call[k].left :
             /\ MarkRead(c, call[k].times[c])
             /\ Becomes(k, IF call[k].left = {c} THEN Idle
                           ELSE [call[k] EXCEPT !.left = @ \ {c}])
  /\ UNCHANGED <<written, uncommitted, marked, pending, inboxStore>>

\* After the mark the messages, and after these the row again.
ListMessages(k) ==
  /\ At(k, "thread")
  /\ LET c == call[k].conv IN
     \E messages \in Listed(c) :
       Reads(k, [pc |-> "refresh", conv |-> c, messages |-> messages])

RefreshRow(k) ==
  /\ At(k, "refresh")
  /\ LET c == call[k].conv IN
     Reads(k, [pc |-> "answer", conv |-> c, messages |-> call[k].messages,
               entry |-> Dto(readAt[c], 0)])

\* The answer replaces the thread.
AnswerMessages(k) ==
  /\ At(k, "answer")
  /\ LET c == call[k].conv IN
     /\ entry' = [entry EXCEPT ![c] = call[k].entry]
     /\ thread' = [thread EXCEPT ![c] = Newest(call[k].messages)]
  /\ Becomes(k, Idle)
  /\ UNCHANGED <<rows, pending, active, typing, timers>>

\* A request that fails has done what it has done.  markAllRead then loads the list.
Fail(k) ==
  /\ ~At(k, "idle")
  /\ Reads(k, IF call[k].pc \in {"markAll", "markAllWrite"} THEN [pc |-> "list"] ELSE Idle)

-----------------------------------------------------------------------------
Server ==
  \/ \E c \in Conversation :
       \/ \E who \in Sender : Write(c, who)
       \/ \E n \in 1 .. 2 * MaxMessage[c] : Commit(c, n) \/ FriendReads(c, n)
       \/ \E type \in {"typing", "stop_typing"} : FriendTypes(c, type)
  \/ Reconnect

Page(k) ==
  \/ LoadConversations(k) \/ LoadMessages(k) \/ MarkAllRead(k)
  \/ \E c \in Conversation : EnsureConversation(k, c)

Proceed(k) ==
  \/ ListRows(k) \/ CountRows(k) \/ AnswerConversations(k)
  \/ FindConversation(k) \/ CountRow(k) \/ AnswerConversation(k)
  \/ TakeTime(k) \/ WriteRead(k) \/ ListMessages(k) \/ RefreshRow(k) \/ AnswerMessages(k)
  \/ Fail(k)

InboxNext ==
  \/ Server \/ Deliver
  \/ \E c \in Conversation : SetActiveConversation(c) \/ TypingGoesStale(c)
  \/ \E k \in Call : Page(k) \/ Proceed(k)

InboxSpec == InboxInit /\ [][InboxNext]_inbox

-----------------------------------------------------------------------------
Time(c) == 0 .. 2 * MaxMessage[c]

\* Every variable keeps its type, and what is kept its limit.
InboxTypeOK ==
  /\ written \in [Conversation -> Seq(Sender)]
  /\ \A c \in Conversation :
       /\ Now(c) \in Time(c)
       /\ readAt[c] \in [me : Time(c), friend : Time(c)]
       /\ marked[c] \in Time(c)
       /\ entry[c] \in [listed : BOOLEAN, unread : Nat, friendReadAt : Time(c)]
       /\ thread[c] \in Seq(Messages(c)) /\ Len(thread[c]) <= ThreadLimit
  /\ \A m \in uncommitted : m[1] \in Conversation /\ m[2] \in Messages(m[1])
  /\ active \in Conversation \cup {NoConversation}
  /\ timers \subseteq Conversation
  /\ Len(typing) <= TypingLimit /\ Len(pending) <= MaxPending

\* A message is in its thread once, though it may come by the socket, in the answer to a load,
\* or in both, in either order.
NoMessageTwice == \A c \in Conversation : IsInjective(thread[c])

\* No message of the user's shows as read unless the friend has marked its conversation read at
\* or after the time it was written, or has sent a later one itself.
SeenWasRead == \A c \in Conversation : entry[c].friendReadAt <= marked[c]

\* Whoever shows as typing has a timer that will end it, and a timer has nobody else's entry to
\* end.
TypingIsTimed == Range(typing) = timers /\ IsInjective(typing)
=============================================================================
