SPECIFICATION FairSpec
CONSTANTS
  Requests = {r1, r2}
  Projects = {p1, p2}
  ProjectOf <- MCProjectOf
  HeaderIds = {h1}
  NoId = NoId
  NoCandidate = NoCandidate
  NoRow = NoRow
  MaxFaults = 2
  Registered = {"openai"}
  ClaudeModels = {"claude-3-opus"}
  GeminiModels = {}
  GPTModels = {}
  OtherModels = {}
  Candidates <- MCCandidates
  Plans <- MCPlans
INVARIANTS
  TypeOK
  FailoverIsExhaustive
  FailoverIsJustified
  AuditMatchesReply
PROPERTIES
  EveryRequestIsAnswered
  EverySuccessIsMetered
CHECK_DEADLOCK FALSE
