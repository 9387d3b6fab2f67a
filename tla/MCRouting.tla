----------------------------- MODULE MCRouting -----------------------------
(* Routing checked against a reference over every input of a small domain: *)
(* an input is chosen, then RoutePlan answers.                             *)
EXTENDS Routing

CONSTANTS
  Providers,       \* the identifiers that may be registered
  PolicyModels,    \* the models policies name
  MaxPolicy        \* bound on the length of a policy

ASSUME MaxPolicyAssumption == MaxPolicy \in Nat

VARIABLES
  input,    \* the registry's contents, the policy, the model, the prompt
  answer,   \* "none" before RoutePlan returns, then "plan" or "error"
  chain     \* the plan's candidates

Policies == SeqOf([provider : Providers \cup {"deepseek"}, model : PolicyModels], MaxPolicy)

Init ==
  /\ input \in [registered : SUBSET Providers, policy : Policies,
                model : Models, prompt : SUBSET Features]
  \* The prompt matters for "auto" alone, the model when no policy decides.
  /\ IsAuto(input.model) \/ input.prompt = {}
  /\ PolicyChain(input.registered, input.policy) # <<>> => input.model = "build"
  /\ answer = "none"
  /\ chain = <<>>

Plan ==
  /\ answer = "none"
  /\ LET plans == RoutePlans(input.registered, input.policy, input.model, input.prompt)
     IN  \/ plans = {} /\ answer' = "error" /\ UNCHANGED chain
         \/ answer' = "plan" /\ chain' \in plans
  /\ UNCHANGED input

Spec == Init /\ [][Plan]_<<input, answer, chain>>

-----------------------------------------------------------------------------
(* The reference: what belongs in a dynamic chain and in which order, with *)
(* no mention of how it is put together.                                   *)
Planned == answer = "plan"
Dynamic == Planned /\ PolicyChain(input.registered, input.policy) = <<>>

SmartSuits ==
  \/ input.model \in SmartPresets \cup ClaudeModels \cup GPTModels
  \/ IsAuto(input.model) /\ input.prompt \cap {"heavy", "code", "long"} # {}

Preferred == IF SmartSuits THEN SmartModels ELSE FastModels
CrossTier == IF SmartSuits THEN FastModels ELSE SmartModels

IsRequested(c) == c = Candidate(Owner(input.model), input.model)

\* The position of a candidate: what was asked for, then the tier that suits
\* the request, then the other one, each in the order of its pool.
Rank(c) ==
  IF IsRequested(c) THEN 0
  ELSE CHOOSE n \in 1..6 : c = (Preferred \o CrossTier)[n]

\* Failover can reach every registered provider in both tiers, whatever was
\* asked for; and nothing outside the registry is ever called.
ChainIsComplete ==
  /\ Planned => \A i \in 1 .. Len(chain) : chain[i].provider \in input.registered
  /\ Dynamic => \A c \in ToSet(FastModels) \cup ToSet(SmartModels) :
                  c.provider \in input.registered => c \in ToSet(chain)

\* A dynamic chain exhausts what was asked for, then the tier that suits the
\* request, before it crosses over, and never tries the same model twice:
\* ranks strictly increase.
ChainIsRanked ==
  Dynamic =>
    \A i, j \in 1 .. Len(chain) : i < j => Rank(chain[i]) < Rank(chain[j])

\* A chain starts with what was asked for whenever it can be had: the
\* policy's first registered candidate, or the named model.
RequestIsHonoured ==
  Planned =>
    /\ ~Dynamic => \E n \in 1 .. Len(input.policy) :
                     /\ chain[1] = input.policy[n]
                     /\ \A k \in 1 .. n - 1 : input.policy[k].provider \notin input.registered
    /\ Dynamic /\ input.model \notin Presets /\ Owner(input.model) \in input.registered
         => IsRequested(chain[1])
=============================================================================
