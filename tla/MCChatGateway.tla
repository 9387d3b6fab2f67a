--------------------------- MODULE MCChatGateway ---------------------------
(* Instances of ChatGateway: the chains are those module Routing plans for *)
(* the registered providers and the models the clients ask for.            *)
EXTENDS ChatGateway

CONSTANTS Registered, ClaudeModels, GeminiModels, GPTModels, OtherModels

Engine == INSTANCE Routing

\* No project has a policy: a policy's chain is one more sequence.
MCPlans ==
  UNION {Engine!RoutePlans(Registered, <<>>, model, {}) :
           model \in ClaudeModels \cup GeminiModels \cup GPTModels \cup OtherModels}

MCCandidates == UNION {{chain[i] : i \in DOMAIN chain} : chain \in MCPlans}

\* Every project has a request, which one does not matter.
MCProjectOf == CHOOSE f \in [Requests -> Projects] : \A p \in Projects : \E r \in Requests : f[r] = p
=============================================================================
