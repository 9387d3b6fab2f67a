SPECIFICATION Spec
CONSTANTS
  ClaudeModels = {"claude-3-haiku-20240307", "claude-3-5-sonnet-20241022", "claude-3-opus"}
  GeminiModels = {"gemini-3.6-flash", "gemini-3.7-flash", "gemini-2.5-pro"}
  GPTModels = {"gpt-4o", "gpt-4o-mini", "gpt-5"}
  OtherModels = {"openai", "mistral", "llama-3"}
  Providers = {"gemini", "openai", "anthropic", "mistral"}
  PolicyModels = {"gpt-4o"}
  MaxPolicy = 2
INVARIANTS
  ChainIsComplete
  ChainIsRanked
  RequestIsHonoured
CHECK_DEADLOCK FALSE
