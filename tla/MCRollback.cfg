SPECIFICATION Spec
CONSTANTS
  Chat = Chat
  Remote = Remote
  Actors = {Chat, Remote}
  tracked = tracked
  fresh = fresh
  secret = secret
  c1 = c1
  c2 = c2
  Absent = Absent
  NoCheckpoint = NoCheckpoint
  Files <- MCFiles
  ProtectedFiles = {secret}
  Ignored = {secret}
  Chunks <- MCChunks
  Index <- MCIndex
  InitialTrees <- MCTrees
  Replies <- MCReplies
  MaxTurns = 2
  MaxTasks = 1
INVARIANT RollbackRestores
CHECK_DEADLOCK FALSE
