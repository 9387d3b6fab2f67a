------------------------- MODULE MCProviderAdapter -------------------------
(* Model-checking instance of ProviderAdapter: answers of up to three      *)
(* parts, one of them empty, and a channel they fill.                      *)
EXTENDS ProviderAdapter

MCAnswers ==
  {[parts |-> p, stop |-> s, in |-> 2, out |-> 3] :
     p \in {<<>>, <<"text">>, <<"text", "text", "">>, <<"text", "", "text">>},
     s \in {"stop", "length"}}

MCConversations ==
  {<<"system", "user">>, <<"user", "assistant", "System", "user">>}

MCCustoms == {{}, {"anthropic", "deepseek"}, {"openai", "gemini"}}
=============================================================================
