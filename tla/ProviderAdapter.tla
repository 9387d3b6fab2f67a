-------------------------- MODULE ProviderAdapter --------------------------
(***************************************************************************)
(* One call of a provider adapter: internal/provider/openai, anthropic and *)
(* gemini, adapter.go.  Chat reads the provider's answer as a whole;       *)
(* StreamChat starts a goroutine that turns the lines of an event stream   *)
(* into chunks and sends them down a channel to whoever reads it.          *)
(*                                                                         *)
(* The provider and the reader are seen from the adapter.  The reader is   *)
(* any that takes chunks and may go away or be cancelled at any time: no   *)
(* handler of the gateway streams yet.  Lines the adapters skip (empty     *)
(* ones, event names, comments, broken JSON, pings) do nothing and are     *)
(* left out.                                                               *)
(***************************************************************************)
EXTENDS Integers, Sequences, Functions

CONSTANTS
  Answers,       \* what a provider has to say
  Conversations, \* the messages of a request, in the order of the client
  Customs,       \* the providers a request may bring its own keys for
  Models, DeepseekModels,
  Cap            \* of the channel

Kinds == {"openai", "anthropic", "gemini"}
Roles == {"system", "System", "user", "assistant"}

ASSUME AnswersAssumption ==
  Answers \subseteq [parts : Seq({"", "text"}), stop : {"stop", "length"}, in : Nat, out : Nat]
ASSUME ConversationsAssumption == Conversations \subseteq Seq(Roles)
ASSUME CustomsAssumption == Customs \subseteq SUBSET (Kinds \cup {"deepseek"})
ASSUME ModelsAssumption == DeepseekModels \subseteq Models
ASSUME CapAssumption == Cap \in Nat \ {0}

NoUsage  == [in |-> 0, out |-> 0]
Usages   == [in : Nat, out : Nat]
Finishes == {"", "stop", "length"}

\* A chunk's text is the number of the part it carries, 0 if it carries none.
Chunk(part, finish, usage) == [err |-> "none", part |-> part, finish |-> finish, usage |-> usage]
ErrorChunk == [err |-> "read", part |-> 0, finish |-> "", usage |-> NoUsage]
Chunks == [err : {"none", "read"}, part : Nat, finish : Finishes, usage : Usages]

-----------------------------------------------------------------------------
(* The request.                                                            *)

IsSystem(role) == role \in {"system", "System"}
Spoken(conversation) == {i \in DOMAIN conversation : ~IsSystem(conversation[i])}

\* Mutant: Gemini is told the roles of the client.
Prompt_RawRoles(kind, conversation) ==
  IF kind = "openai" THEN conversation ELSE Restrict(conversation, Spoken(conversation))

\* The role each message is told with, by its place in the client's list.
\* OpenAI gets the messages as they are.  The others get the system messages
\* apart, in one text; Gemini calls the assistant model.
Prompt(kind, conversation) ==
  CASE kind = "openai"    -> conversation
    [] kind = "anthropic" -> Restrict(conversation, Spoken(conversation))
    [] kind = "gemini"    ->
         [i \in Spoken(conversation) |->
            IF conversation[i] = "assistant" THEN "model" ELSE conversation[i]]

\* The roles a provider knows, and the messages it is to have.
Told(kind) ==
  CASE kind = "openai"    -> Roles
    [] kind = "anthropic" -> {"user", "assistant"}
    [] kind = "gemini"    -> {"user", "model"}
Heard(kind, conversation) ==
  IF kind = "openai" THEN DOMAIN conversation ELSE Spoken(conversation)
Prompts(kind) == UNION {[Heard(kind, c) -> Told(kind)] : c \in Conversations}

\* Whose key goes along: one the request brings, or the gateway's.
ResolveAPIKey(kind, model, custom) ==
  IF kind = "openai" /\ model \in DeepseekModels /\ "deepseek" \in custom THEN "deepseek"
  ELSE IF kind \in custom THEN kind ELSE "gateway"

Keys(kind) == {kind, "gateway"} \cup {k \in {"deepseek"} : kind = "openai"}

-----------------------------------------------------------------------------
(* The whole answer.                                                       *)

\* The ChatResponse for an answer: all its parts, its end and its usage.
Response(kind, answer) ==
  [parts  |-> {i \in DOMAIN answer.parts : answer.parts[i] # ""},
   finish |-> answer.stop,
   usage  |-> [in |-> answer.in, out |-> answer.out]]

\* isStatusCodeRetryable; 400 and 401 stand for the other codes.
Retryable == {429, 500, 502, 503, 504}
Statuses  == Retryable \cup {400, 401}

\* A ProviderError that says whether to go on to another provider, or an
\* error of reading or decoding that does not say.
Errors == {"retryable", "final", "plain"}
StatusError(status) == IF status \in Retryable THEN "retryable" ELSE "final"

-----------------------------------------------------------------------------
(* The events of a stream, as the provider sends them.                     *)

Events == [type : {"start", "delta", "usage", "stop", "done"}, part : Nat,
           finish : Finishes, usage : Usages]

Event(type, part, finish, usage) == [type |-> type, part |-> part, finish |-> finish, usage |-> usage]

\* An empty part is a line without text.
Part(answer, i)  == IF answer.parts[i] = "" THEN 0 ELSE i
Delta(answer, i) == Event("delta", Part(answer, i), "", NoUsage)
Deltas(answer)   == [i \in DOMAIN answer.parts |-> Delta(answer, i)]

Lines(kind, answer) ==
  CASE kind = "openai" ->
         Deltas(answer) \o <<Event("delta", 0, answer.stop, NoUsage),
                             Event("done", 0, "", NoUsage)>>
    [] kind = "anthropic" ->
         <<Event("start", 0, "", [in |-> answer.in, out |-> 0])>> \o Deltas(answer) \o
         <<Event("usage", 0, answer.stop, [in |-> 0, out |-> answer.out]),
           Event("stop", 0, "", NoUsage)>>
    [] kind = "gemini" ->
         [i \in DOMAIN answer.parts |->
            IF i < Len(answer.parts) THEN Delta(answer, i)
            ELSE Event("delta", Part(answer, i), answer.stop,
                       [in |-> answer.in, out |-> answer.out])]

-----------------------------------------------------------------------------
VARIABLES
  kind,       \* the adapter
  answer,     \* what the provider has to say
  request,    \* what the adapter asks it
  result,     \* what Chat or StreamChat returned
  pc,         \* the call, then the goroutine
  read,       \* lines read
  tokens,     \* inputTokens and outputTokens of Anthropic's goroutine
  pending,    \* the chunk being sent
  last,       \* the goroutine returns after it
  buffer,     \* the channel
  delivered,  \* what the reader got
  reader,
  cancelled   \* the context is done

vars == <<kind, answer, request, result, pc, read, tokens, pending, last,
          buffer, delivered, reader, cancelled>>

TypeOK ==
  /\ kind \in Kinds
  /\ answer \in Answers
  /\ request \in [prompt : Prompts(kind), key : Keys(kind)]
  /\ result \in {"none", "response", "stream"} \cup Errors
  /\ pc \in {"calling", "reading", "sending", "failing", "closed"}
  /\ read \in 0 .. Len(Lines(kind, answer))
  /\ tokens \in Usages
  /\ pending \in Chunks
  /\ last \in BOOLEAN
  /\ buffer \in Seq(Chunks) /\ Len(buffer) <= Cap
  /\ delivered \in Seq(Chunks)
  /\ reader \in {"reading", "gone", "done"}
  /\ cancelled \in BOOLEAN

Init ==
  /\ kind \in Kinds
  /\ answer \in Answers
  /\ request \in {[prompt |-> Prompt(kind, c), key |-> ResolveAPIKey(kind, m, k)] :
                    c \in Conversations, m \in Models, k \in Customs}
  /\ result = "none"
  /\ pc = "calling"
  /\ read = 0
  /\ tokens = NoUsage
  /\ pending = ErrorChunk
  /\ last = FALSE
  /\ buffer = <<>>
  /\ delivered = <<>>
  /\ reader = "reading"
  /\ cancelled = FALSE

-----------------------------------------------------------------------------
(* The call.                                                               *)

Called(outcome, to) ==
  /\ pc = "calling"
  /\ result' = outcome
  /\ pc' = to
  /\ UNCHANGED <<kind, answer, request, read, tokens, pending, last, buffer, delivered,
                 reader, cancelled>>

\* Either call: no connection, a timeout or a cancelled context counts as
\* 504, a status other than 200 as itself.
CallFails ==
  \/ Called("retryable", "closed")
  \/ \E status \in Statuses : Called(StatusError(status), "closed")

\* Chat only: the body breaks off or is no JSON.
ChatBreaks == Called("plain", "closed")

\* Chat's answer is Response(kind, answer).
ChatAnswers == Called("response", "closed")

\* StreamChat starts the goroutine.
StreamOpens == Called("stream", "reading")

-----------------------------------------------------------------------------
(* The goroutine.                                                          *)

Channel == <<buffer, delivered, reader>>
Fixed   == <<kind, answer, request, result>>

\* To send a chunk next, and to return after it or to read on.
Sends(chunk, after) ==
  /\ pc' = "sending"
  /\ pending' = chunk
  /\ last' = after

ReadsOn == pc' = "reading" /\ UNCHANGED <<pending, last>>
Returns == pc' = "closed" /\ UNCHANGED <<pending, last>>

OpenAILine(e) ==
  /\ IF e.type = "done" THEN Returns ELSE Sends(Chunk(e.part, e.finish, e.usage), FALSE)
  /\ UNCHANGED tokens

\* The last chunk says stop, whatever ended the message.
AnthropicLine(e) ==
  CASE e.type = "start" -> tokens' = [tokens EXCEPT !.in = e.usage.in] /\ ReadsOn
    [] e.type = "usage" -> tokens' = [tokens EXCEPT !.out = e.usage.out] /\ ReadsOn
    [] e.type = "delta" ->
         /\ IF e.part = 0 THEN ReadsOn ELSE Sends(Chunk(e.part, "", NoUsage), FALSE)
         /\ UNCHANGED tokens
    [] e.type = "stop" -> Sends(Chunk(0, "stop", tokens), TRUE) /\ UNCHANGED tokens

\* A candidate without text is dropped, with its finish reason and usage.
GeminiLine(e) ==
  /\ IF e.part = 0 THEN ReadsOn ELSE Sends(Chunk(e.part, e.finish, e.usage), FALSE)
  /\ UNCHANGED tokens

ReadLine ==
  /\ pc = "reading"
  /\ read < Len(Lines(kind, answer))
  /\ read' = read + 1
  /\ LET e == Lines(kind, answer)[read + 1] IN
       CASE kind = "openai"    -> OpenAILine(e)
         [] kind = "anthropic" -> AnthropicLine(e)
         [] kind = "gemini"    -> GeminiLine(e)
  /\ UNCHANGED <<Fixed, Channel, cancelled>>

\* The body ends, where the provider meant it to or before.
ReadEnds ==
  /\ pc = "reading"
  /\ Returns
  /\ UNCHANGED <<Fixed, Channel, read, tokens, cancelled>>

\* The connection breaks, the client's 90 s are over, or the context is done;
\* only the last is not worth an error.
ReadFails ==
  /\ pc = "reading"
  /\ pc' = IF cancelled THEN "closed" ELSE "failing"
  /\ UNCHANGED <<Fixed, Channel, read, tokens, pending, last, cancelled>>

HasRoom == Len(buffer) < Cap

\* Mutant: a chunk is dropped rather than waited with.
Send_Drops ==
  /\ pc = "sending"
  /\ buffer' = IF HasRoom THEN Append(buffer, pending) ELSE buffer
  /\ pc' = IF last THEN "closed" ELSE "reading"
  /\ UNCHANGED <<Fixed, delivered, reader, read, tokens, pending, last, cancelled>>

\* The select of a chunk: the channel, or the end of the context where that
\* has come.
Send ==
  /\ pc = "sending"
  /\ HasRoom
  /\ buffer' = Append(buffer, pending)
  /\ pc' = IF last THEN "closed" ELSE "reading"
  /\ UNCHANGED <<Fixed, delivered, reader, read, tokens, pending, last, cancelled>>

\* Mutant: the goroutine waits for the channel alone.
SendCancelled_Waits == FALSE /\ UNCHANGED vars

SendCancelled ==
  /\ pc = "sending"
  /\ cancelled
  /\ pc' = "closed"
  /\ UNCHANGED <<Fixed, Channel, read, tokens, pending, last, cancelled>>

\* The error is sent without a select.
SendError ==
  /\ pc = "failing"
  /\ HasRoom
  /\ buffer' = Append(buffer, ErrorChunk)
  /\ pc' = "closed"
  /\ UNCHANGED <<Fixed, delivered, reader, read, tokens, pending, last, cancelled>>

Stream == ReadLine \/ ReadEnds \/ ReadFails \/ Send \/ SendCancelled \/ SendError

-----------------------------------------------------------------------------
(* The reader.                                                             *)

Reading == result = "stream" /\ reader = "reading"

Receive ==
  /\ Reading
  /\ buffer # <<>>
  /\ delivered' = Append(delivered, Head(buffer))
  /\ buffer' = Tail(buffer)
  /\ UNCHANGED <<Fixed, pc, read, tokens, pending, last, reader, cancelled>>

\* The channel is closed and empty.
SeesEnd ==
  /\ Reading
  /\ buffer = <<>>
  /\ pc = "closed"
  /\ reader' = "done"
  /\ UNCHANGED <<Fixed, pc, read, tokens, pending, last, buffer, delivered, cancelled>>

Leave ==
  /\ Reading
  /\ reader' = "gone"
  /\ UNCHANGED <<Fixed, pc, read, tokens, pending, last, buffer, delivered, cancelled>>

\* The context of the request ends.
Cancel ==
  /\ result = "stream"
  /\ ~cancelled
  /\ cancelled' = TRUE
  /\ UNCHANGED <<Fixed, Channel, pc, read, tokens, pending, last>>

-----------------------------------------------------------------------------
Next ==
  \/ CallFails \/ ChatBreaks \/ ChatAnswers \/ StreamOpens
  \/ Stream
  \/ Receive \/ SeesEnd \/ Leave
  \/ Cancel

Spec == Init /\ [][Next]_vars

\* The client's timeout bounds every read, the runtime schedules goroutines,
\* a reader that has not left reads on, and the context of a request ends
\* once its reader has left.
FairSpec ==
  /\ Spec
  /\ WF_vars(Stream)
  /\ WF_vars(Receive \/ SeesEnd)
  /\ WF_vars(Cancel /\ reader = "gone")

-----------------------------------------------------------------------------
(* Properties.                                                             *)

Sent == delivered \o buffer

PartsOf(chunks) == {chunks[i].part : i \in DOMAIN chunks} \ {0}

\* The parts of an answer reach the reader in their order, none twice, and no
\* error is followed by anything.
SentInOrder ==
  \A i, j \in DOMAIN Sent : i < j =>
    /\ Sent[i].err = "none"
    /\ Sent[j].part # 0 => Sent[i].part < Sent[j].part

\* The reader has seen the end of a stream that the provider had sent whole.
Complete ==
  /\ reader = "done"
  /\ ~cancelled
  /\ read = Len(Lines(kind, answer))
  /\ \A i \in DOMAIN delivered : delivered[i].err = "none"

\* Where the provider's last line has a chunk made of it, this tells the usage.
TellsUsage ==
  \/ kind = "anthropic"
  \/ kind = "gemini" /\ answer.parts # <<>> /\ answer.parts[Len(answer.parts)] # ""

\* A stream is the answer in pieces: put together they have the text that
\* Chat would have answered with, and the last one has its usage.
StreamIsFaithful ==
  /\ SentInOrder
  /\ Complete =>
       /\ PartsOf(delivered) = Response(kind, answer).parts
       /\ TellsUsage => delivered[Len(delivered)].usage = Response(kind, answer).usage

\* The leak: an error waits for room in a channel nobody reads.
Stuck == pc = "failing" /\ ~HasRoom /\ reader = "gone"

\* A goroutine comes to its end and closes the channel, whatever its reader
\* does, but for the leak.
StreamEnds == result = "stream" ~> (pc = "closed" \/ Stuck)

=============================================================================
