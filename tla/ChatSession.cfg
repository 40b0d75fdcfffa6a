SPECIFICATION ChatSpec
CONSTANTS
  Chats = {c1, c2}
  NoChat = NoChat
  MaxAsks = 3
  MaxSockets = 3
  MaxTickets = 2
CHECK_DEADLOCK FALSE
INVARIANTS
    TokensInPlace
    WaitsForWhatComes
    ConversationIsShown
