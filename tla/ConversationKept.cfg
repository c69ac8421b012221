SPECIFICATION ConversationSpec
CONSTANTS
  Part <- MCPart
  System <- MCSystem
  UserTurn <- MCUserTurn
  ModelTurn <- MCModelTurn
  Comment <- MCComment
  WindowSize = 2
  MaxTurns = 5
CHECK_DEADLOCK FALSE
INVARIANTS TranslationInv LogInv InjectionOnlyAdds RouterKeepsLatest
PROPERTIES RequestGoesOn
