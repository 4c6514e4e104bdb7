SPECIFICATION InboxSpec
CONSTANTS
  c1 = c1
  c2 = c2
  k1 = k1
  Conversation <- TwoConversations
  Call <- OneCall
  ThreadLimit = 2
  TypingLimit = 1
  MaxMessage <- MessagesInOne
  MaxPending = 1
  NoConversation = NoConversation
INVARIANTS
  InboxTypeOK
  NoMessageTwice
  SeenWasRead
  TypingIsTimed
