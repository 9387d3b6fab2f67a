SPECIFICATION FairSpec
CONSTANTS
  Answers <- MCAnswers
  Conversations <- MCConversations
  Customs <- MCCustoms
  Models = {"deepseek-chat", "gpt-4o"}
  DeepseekModels = {"deepseek-chat"}
  Cap = 2
INVARIANTS
  TypeOK
  StreamIsFaithful
PROPERTY
  StreamEnds
CHECK_DEADLOCK FALSE
