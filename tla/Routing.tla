------------------------------ MODULE Routing ------------------------------
(***************************************************************************)
(* The routing engine: internal/routing/engine.go (Engine.RoutePlan,       *)
(* analyzeComplexity, deduplicateCandidates) over internal/provider        *)
(* (Registry).  RoutePlan turns a requested model, the conversation and    *)
(* the project's routing policy into the chain of candidates the chat      *)
(* handler tries in order.                                                 *)
(*                                                                         *)
(* Intents, rationales, confidences and cost estimates only go into the    *)
(* reply and are left out.                                                 *)
(***************************************************************************)
EXTENDS Integers, Sequences, FiniteSets, SequencesExt

CONSTANTS
  ClaudeModels,   \* names a client may ask for that start with "claude-"
  GeminiModels,   \* ... with "gemini-"
  GPTModels,      \* ... with "gpt-"
  OtherModels     \* ... with none of these and that are no preset

-----------------------------------------------------------------------------
(* The conversation, reduced to what analyzeComplexity looks at.           *)
Features == {"heavy", "code", "long", "greeting", "short"}

\* Mutant: the greeting is looked for before anything else.
Scores_GreetingFirst ==
  << <<"greeting", 5>>, <<"heavy", 85>>, <<"code", 75>>, <<"long", 70>>, <<"short", 15>> >>

\* The checks in their order, each with its complexity in hundredths.
\* "long" speaks of the whole conversation, the injected system prompt
\* included, the others of the last user message.
Scores ==
  << <<"heavy", 85>>, <<"code", 75>>, <<"long", 70>>, <<"greeting", 5>>, <<"short", 15>> >>

\* The first check that matches decides; 35 when none does.
analyzeComplexity(prompt) ==
  LET first == SelectInSeq(Scores, LAMBDA check : check[1] \in prompt)
  IN  IF first = 0 THEN 35 ELSE Scores[first][2]

-----------------------------------------------------------------------------
(* The request's model.                                                    *)
ExplorePresets == {"explore", "cheap", "fast"}
SmartPresets   == {"build", "reason", "smart", "quality", "review"}
Presets        == {"", "auto"} \cup ExplorePresets \cup SmartPresets
Models         == Presets \cup ClaudeModels \cup GeminiModels \cup GPTModels \cup OtherModels

\* The provider a named model is looked up at: that of its family, else the
\* one that has the model's name as its identifier.
Owner(model) ==
  CASE model \in ClaudeModels -> "anthropic"
    [] model \in GeminiModels -> "gemini"
    [] model \in GPTModels    -> "openai"
    [] OTHER                  -> model

IsAuto(model) == model \in {"", "auto"}

\* Which pool comes first.
PrefersSmart(model, prompt) ==
  \/ IsAuto(model) /\ analyzeComplexity(prompt) >= 40
  \/ model \in SmartPresets \cup ClaudeModels \cup GPTModels

-----------------------------------------------------------------------------
(* The pools, in the order the engine fills them.                          *)
Candidate(provider, model) == [provider |-> provider, model |-> model]

FastModels ==
  << Candidate("gemini", "gemini-3.6-flash"),
     Candidate("openai", "gpt-4o-mini"),
     Candidate("anthropic", "claude-3-haiku-20240307") >>

SmartModels ==
  << Candidate("openai", "gpt-4o"),
     Candidate("anthropic", "claude-3-5-sonnet-20241022"),
     Candidate("gemini", "gemini-3.7-flash") >>

\* The elements of a sequence at some of its positions, in their order.
ElementsAt(seq, places) ==
  [n \in 1 .. Cardinality(places) |->
     seq[CHOOSE i \in places : Cardinality({j \in places : j <= i}) = n]]

OfRegistered(chain, registered) ==
  ElementsAt(chain, {i \in DOMAIN chain : chain[i].provider \in registered})

\* Mutant: the smart pool has no cross-tier safety net.
Pools_NoSafetyNet(registered, smartFirst) ==
  LET fast  == OfRegistered(FastModels, registered)
      smart == OfRegistered(SmartModels, registered)
  IN  IF smartFirst THEN smart ELSE fast \o smart

Pools(registered, smartFirst) ==
  LET fast  == OfRegistered(FastModels, registered)
      smart == OfRegistered(SmartModels, registered)
  IN  IF smartFirst THEN smart \o fast ELSE fast \o smart

\* A named model leads the chain if its provider is registered.
Leader(registered, model) ==
  IF model \notin Presets /\ Owner(model) \in registered
  THEN <<Candidate(Owner(model), model)>>
  ELSE <<>>

\* Mutant: a repeated candidate keeps its last place.
deduplicateCandidates_KeepLast(chain) ==
  ElementsAt(chain, {i \in DOMAIN chain : \A j \in DOMAIN chain : j > i => chain[j] # chain[i]})

\* Of equal candidates only the first stays.
deduplicateCandidates(chain) ==
  ElementsAt(chain, {i \in DOMAIN chain : \A j \in DOMAIN chain : j < i => chain[j] # chain[i]})

DynamicChain(registered, model, prompt) ==
  deduplicateCandidates(Leader(registered, model)
                          \o Pools(registered, PrefersSmart(model, prompt)))

\* The policy's candidates are neither reordered nor deduplicated.
PolicyChain(registered, policy) == OfRegistered(policy, registered)

\* The chains RoutePlan may return; policy is <<>> when the project has
\* none.  {} stands for its only error, "no providers registered".  When no
\* candidate is left the registry's first provider serves, and a Go map has
\* no first.
RoutePlans(registered, policy, model, prompt) ==
  LET dynamic == DynamicChain(registered, model, prompt)
  IN  CASE registered = {} -> {}
        [] registered # {} /\ PolicyChain(registered, policy) # <<>> ->
             {PolicyChain(registered, policy)}
        [] registered # {} /\ PolicyChain(registered, policy) = <<>> /\ dynamic # <<>> ->
             {dynamic}
        [] OTHER -> {<<Candidate(p, "gemini-3.6-flash")>> : p \in registered}
=============================================================================
