---------------------------- MODULE ChatGateway ----------------------------
(***************************************************************************)
(* POST /v1/chat/completions: internal/http/handlers/chat.go (ChatHandler. *)
(* ServeHTTP, saveAndEmit), the audit table of internal/storage/postgres   *)
(* (RequestRecordRepo.Create), and the server's shutdown.                  *)
(*                                                                         *)
(* Every request has a handler goroutine, and once its outcome is known a  *)
(* second goroutine that saves the audit record and emits the usage event, *)
(* concurrently with the reply and with all other requests.  Module        *)
(* Routing says which chains of candidates a request may get.              *)
(***************************************************************************)
EXTENDS Integers, Sequences

CONSTANTS
  Requests,      \* the requests clients send
  Projects,
  ProjectOf,     \* ProjectOf[r]: the project of the API key r is sent with
  HeaderIds,     \* values of the X-Request-ID header
  NoId,          \* the id of a request without that header: the empty string
  Candidates,    \* pairs of a provider and a model
  Plans,         \* the chains RoutePlan may return
  NoCandidate,   \* the empty provider and model of a failed record
  NoRow,         \* no audit row under an id
  MaxFaults      \* bound of the model on the faults of the environment

ASSUME PlansAssumption  == Plans \subseteq Seq(Candidates) \ {<<>>}
ASSUME ProjectAssumption == ProjectOf \in [Requests -> Projects]
ASSUME IdsAssumption    == NoId \notin HeaderIds
ASSUME AbsentAssumption == NoCandidate \notin Candidates
ASSUME FaultsAssumption == MaxFaults \in Nat

Ids == HeaderIds \cup {NoId}

-----------------------------------------------------------------------------
(* Errors, records and replies.                                            *)

\* What an adapter's Chat returns: a *provider.ProviderError, or an error
\* of its own about a body it cannot read or decode.  Never a domain.Error.
Errors == {"ProviderError", "plain"}

\* domain.CodeOf knows domain.Error only.
CodeOf(err) == "internal_error"

\* writeError knows ProviderError as well.
ReplyCode(err) == IF err = "ProviderError" THEN "provider_error" ELSE "internal_error"

Codes == {"", "internal_error", "provider_error"}

\* Mutant: the record names the chain's first candidate, not the one that
\* answered.
Complete_FirstCandidate(chain, n) ==
  [status |-> "success", by |-> chain[1], retries |-> n, code |-> ""]

\* Mutant: the attempt that served is not counted, the first one is.
Complete_CountsRetries(chain, n) ==
  [status |-> "success", by |-> chain[n + 1], retries |-> n - 1, code |-> ""]

\* record.Complete, FallbackUsed and RetryCount: candidate n + 1 of the
\* chain answered.  FallbackUsed is retries > 0.
Complete(chain, n) ==
  [status |-> "success", by |-> chain[n + 1], retries |-> n, code |-> ""]

\* record.Fail leaves the provider and RetryCount at their zero values.
Fail(err) == [status |-> "failed", by |-> NoCandidate, retries |-> 0, code |-> CodeOf(err)]

Pending == [status |-> "pending", by |-> NoCandidate, retries |-> 0, code |-> ""]

Outcomes == [status : {"pending", "success", "failed"}, by : Candidates \cup {NoCandidate},
             retries : Nat, code : Codes]

\* What the client gets: the status, and the X-Nexus-Route and X-Nexus-
\* Fallback-Count headers or the error's code.
OkReply(chain, n) ==
  [kind |-> "ok", by |-> chain[n + 1], fallbacks |-> n, code |-> ""]

ErrorReply(err) ==
  [kind |-> "error", by |-> NoCandidate, fallbacks |-> 0, code |-> ReplyCode(err)]

Without(kind) == [kind |-> kind, by |-> NoCandidate, fallbacks |-> 0, code |-> ""]

Replies == [kind : {"none", "refused", "ok", "error", "lost"},
            by : Candidates \cup {NoCandidate}, fallbacks : Nat, code : Codes]

-----------------------------------------------------------------------------
VARIABLES
  stage,     \* stage[r]: where the handler goroutine of request r stands
  id,        \* its X-Request-ID header
  plan,      \* the chain it got
  failed,    \* candidates that have failed
  lastErr,   \* the last one's error
  outcome,   \* the record's
  reply,     \* what the client got
  link,      \* the connection: open, left by the client, or timed out
  job,       \* job[r]: where the goroutine of saveAndEmit stands
  saved,     \* the record is in the table
  rows,      \* rows[i]: the audit row under request_id i
  working,   \* the candidates whose providers answer at the moment
  steady,    \* steady[r]: those that have since request r came in
  faults     \* faults of the environment so far

handler == <<stage, id, plan, failed, lastErr, outcome, reply, link>>
record  == <<job, saved, rows>>
world   == <<working, steady, faults>>
vars    == <<stage, id, plan, failed, lastErr, outcome, reply, link, job, saved, rows,
             working, steady, faults>>

Rows == [project : Projects, outcome : Outcomes]

ASSUME RowsAssumption == NoRow \notin Rows

TypeOK ==
  /\ stage \in [Requests -> {"idle", "checking", "calling", "responding", "answered"}]
  /\ id \in [Requests -> Ids]
  /\ plan \in [Requests -> Plans \cup {<<>>}]
  /\ failed \in [Requests -> Nat]
  /\ lastErr \in [Requests -> Errors \cup {"nil"}]
  /\ outcome \in [Requests -> Outcomes]
  /\ reply \in [Requests -> Replies]
  /\ link \in [Requests -> {"open", "gone", "expired"}]
  /\ job \in [Requests -> {"none", "saving", "emitting", "done", "lost"}]
  /\ saved \in [Requests -> {"no", "yes"}]
  /\ rows \in [Ids -> {NoRow} \cup Rows]
  /\ working \subseteq Candidates
  /\ steady \in [Requests -> SUBSET Candidates]
  /\ faults \in 0 .. MaxFaults

Init ==
  /\ stage = [r \in Requests |-> "idle"]
  /\ id = [r \in Requests |-> NoId]
  /\ plan = [r \in Requests |-> <<>>]
  /\ failed = [r \in Requests |-> 0]
  /\ lastErr = [r \in Requests |-> "nil"]
  /\ outcome = [r \in Requests |-> Pending]
  /\ reply = [r \in Requests |-> Without("none")]
  /\ link = [r \in Requests |-> "open"]
  /\ job = [r \in Requests |-> "none"]
  /\ saved = [r \in Requests |-> "no"]
  /\ rows = [i \in Ids |-> NoRow]
  /\ working = Candidates
  /\ steady = [r \in Requests |-> {}]
  /\ faults = 0

-----------------------------------------------------------------------------
(* The handler.                                                            *)

Go(r, from, to) == stage[r] = from /\ stage' = [stage EXCEPT ![r] = to]

\* A client's request reaches ServeHTTP, which takes the id from the header;
\* the id RequestIDMiddleware generates is in the context, not the header.
Receive(r) ==
  /\ Go(r, "idle", "checking")
  /\ \E i \in Ids : id' = [id EXCEPT ![r] = i]
  /\ steady' = [steady EXCEPT ![r] = working]
  /\ UNCHANGED <<plan, failed, lastErr, outcome, reply, link, record, working, faults>>

\* The early returns: no bearer token, key, tenant, scope, rate limit, body.
\* They leave no record, and no provider has been called.
Refuse(r) ==
  /\ Go(r, "checking", "answered")
  /\ reply' = [reply EXCEPT ![r] = Without("refused")]
  /\ UNCHANGED <<id, plan, failed, lastErr, outcome, link, record, world>>

\* The checks pass, the policy is read and the engine plans.  RoutePlan's
\* error cannot occur: main registers the adapters before it serves.
Route(r) ==
  /\ Go(r, "checking", "calling")
  /\ \E chain \in Plans : plan' = [plan EXCEPT ![r] = chain]
  /\ UNCHANGED <<id, failed, lastErr, outcome, reply, link, record, world>>

\* The candidate the failover loop has reached.
Current(r) == plan[r][failed[r] + 1]

\* The loop is over: the record is made and handed to saveAndEmit.
Conclude(r, result) ==
  /\ Go(r, "calling", "responding")
  /\ outcome' = [outcome EXCEPT ![r] = result]
  /\ job' = [job EXCEPT ![r] = "saving"]

\* The candidate the loop has reached fails, and it is the last one.
Exhaust(r) ==
  \E err \in Errors :
    /\ lastErr' = [lastErr EXCEPT ![r] = err]
    /\ Conclude(r, Fail(err))

\* Mutant: an error may end the loop early, as one that is not retryable.
CallFails_GivesUp(r) ==
  /\ stage[r] = "calling"
  /\ Current(r) \notin working \/ link[r] = "gone"
  /\ failed' = [failed EXCEPT ![r] = @ + 1]
  /\ Exhaust(r)
  /\ UNCHANGED <<id, plan, reply, link, saved, rows, world>>

\* Mutant: a call is not bound to the client's context.
CallFails_IgnoresClient(r) ==
  /\ stage[r] = "calling"
  /\ Current(r) \notin working
  /\ failed' = [failed EXCEPT ![r] = @ + 1]
  /\ \/ /\ failed[r] + 1 < Len(plan[r])
        /\ UNCHANGED <<stage, lastErr, outcome, job>>
     \/ /\ failed[r] + 1 = Len(plan[r])
        /\ Exhaust(r)
  /\ UNCHANGED <<id, plan, reply, link, saved, rows, world>>

\* A call fails because the provider does or because the client is gone and
\* the context cancelled.  Any error moves on to the next candidate, until
\* there is none.  Only the last error is ever read.
CallFails(r) ==
  /\ stage[r] = "calling"
  /\ Current(r) \notin working \/ link[r] = "gone"
  /\ failed' = [failed EXCEPT ![r] = @ + 1]
  /\ \/ /\ failed[r] + 1 < Len(plan[r])
        /\ UNCHANGED <<stage, lastErr, outcome, job>>
     \/ /\ failed[r] + 1 = Len(plan[r])
        /\ Exhaust(r)
  /\ UNCHANGED <<id, plan, reply, link, saved, rows, world>>

\* Mutant: a working candidate may be passed over.
CallAnswers_Skips(r) ==
  /\ stage[r] = "calling"
  /\ link[r] # "gone"
  /\ \E n \in failed[r] .. Len(plan[r]) - 1 :
       /\ plan[r][n + 1] \in working
       /\ failed' = [failed EXCEPT ![r] = n]
       /\ Conclude(r, Complete(plan[r], n))
  /\ UNCHANGED <<id, plan, lastErr, reply, link, saved, rows, world>>

\* The call succeeds.
CallAnswers(r) ==
  /\ stage[r] = "calling"
  /\ link[r] # "gone"
  /\ Current(r) \in working
  /\ Conclude(r, Complete(plan[r], failed[r]))
  /\ UNCHANGED <<id, plan, failed, lastErr, reply, link, saved, rows, world>>

\* writeJSON or writeError.  Nobody checks whether the write succeeds.
Respond(r) ==
  /\ Go(r, "responding", "answered")
  /\ reply' = [reply EXCEPT ![r] =
                 IF link[r] # "open" THEN Without("lost")
                 ELSE IF outcome[r].status = "success" THEN OkReply(plan[r], failed[r])
                 ELSE ErrorReply(lastErr[r])]
  /\ UNCHANGED <<id, plan, failed, lastErr, outcome, link, record, world>>

-----------------------------------------------------------------------------
(* The goroutine of saveAndEmit, with a context of its own.                *)

\* INSERT ... ON CONFLICT (request_id) DO UPDATE: the first row under an id
\* keeps its project, its outcome becomes that of the last.
Upsert(i, project, result) ==
  rows' = [rows EXCEPT ![i] =
             [project |-> IF rows[i] = NoRow THEN project ELSE rows[i].project,
              outcome |-> result]]

Advance(r, from, to) == job[r] = from /\ job' = [job EXCEPT ![r] = to]

Save(r) ==
  /\ Advance(r, "saving", "emitting")
  /\ Upsert(id[r], ProjectOf[r], outcome[r])
  /\ saved' = [saved EXCEPT ![r] = "yes"]
  /\ UNCHANGED <<handler, world>>

\* The database refuses; the error is logged and the record is lost.
SaveFails(r) ==
  /\ Advance(r, "saving", "emitting")
  /\ faults < MaxFaults
  /\ faults' = faults + 1
  /\ UNCHANGED <<handler, saved, rows, working, steady>>

\* Mutant: no usage event for a record the database refused.
Emit_SavedOnly(r) ==
  /\ saved[r] = "yes"
  /\ Advance(r, "emitting", "done")
  /\ UNCHANGED <<handler, saved, rows, world>>

\* The usage event is emitted whether or not the record was saved.
Emit(r) ==
  /\ Advance(r, "emitting", "done")
  /\ UNCHANGED <<handler, saved, rows, world>>

-----------------------------------------------------------------------------
(* The environment.                                                        *)

\* The client hangs up, which cancels the request's context, or the server's
\* WriteTimeout passes, which does not.  A break during the checks is as
\* one before the first call.
LinkBreaks(r) ==
  /\ faults < MaxFaults
  /\ stage[r] \in {"calling", "responding"}
  /\ link[r] = "open"
  /\ \E how \in {"gone", "expired"} : link' = [link EXCEPT ![r] = how]
  /\ faults' = faults + 1
  /\ UNCHANGED <<stage, id, plan, failed, lastErr, outcome, reply, record, working, steady>>

\* A provider stops answering for a model, or answers again.
Degrade(c) ==
  /\ faults < MaxFaults
  /\ c \in working
  /\ working' = working \ {c}
  /\ steady' = [r \in Requests |-> steady[r] \ {c}]
  /\ faults' = faults + 1
  /\ UNCHANGED <<handler, record>>

Recover(c) ==
  /\ c \in Candidates \ working
  /\ working' = working \cup {c}
  /\ UNCHANGED <<handler, record, steady, faults>>

\* The process ends and a new one takes over.  Shutdown waits for handlers,
\* at most 30 seconds, and for no goroutine of saveAndEmit; a crash waits for
\* nothing.  What is unfinished is lost, the table is not.
Restart ==
  LET cut == {r \in Requests : stage[r] \in {"checking", "calling", "responding"}} IN
  /\ faults < MaxFaults
  /\ faults' = faults + 1
  /\ stage' = [r \in Requests |-> IF r \in cut THEN "answered" ELSE stage[r]]
  /\ reply' = [r \in Requests |-> IF r \in cut THEN Without("lost") ELSE reply[r]]
  /\ job' = [r \in Requests |-> IF job[r] \in {"saving", "emitting"} THEN "lost" ELSE job[r]]
  /\ UNCHANGED <<id, plan, failed, lastErr, outcome, link, saved, rows, working, steady>>

-----------------------------------------------------------------------------
Handle(r) ==
  Refuse(r) \/ Route(r) \/ CallFails(r) \/ CallAnswers(r) \/ Respond(r)

Record(r) == Save(r) \/ SaveFails(r) \/ Emit(r)

Next ==
  \/ \E r \in Requests : Receive(r) \/ Handle(r) \/ Record(r) \/ LinkBreaks(r)
  \/ \E c \in Candidates : Degrade(c) \/ Recover(c)
  \/ Restart

Spec == Init /\ [][Next]_vars

\* The Go scheduler runs every goroutine that can run, and every call of a
\* provider or the database returns: adapters and the server have timeouts.
Fairness == \A r \in Requests : WF_vars(Handle(r)) /\ WF_vars(Record(r))

FairSpec == Spec /\ Fairness

-----------------------------------------------------------------------------
(* Properties. *)

InPlan(r, c) == \E i \in DOMAIN plan[r] : plan[r][i] = c

\* A client that stays is told that its request failed only if every
\* candidate of its plan was out of order at some moment since the request
\* came in: failover ends neither early nor on an error it deems final.
FailoverIsExhaustive ==
  \A r \in Requests :
    reply[r].kind = "error" => \A c \in steady[r] : ~InPlan(r, c)

\* A candidate serves only if each one preferred to it was out of order at
\* some moment since the request came in.
FailoverIsJustified ==
  \A r \in Requests :
    outcome[r].status = "success" =>
      \A i \in 1 .. Len(plan[r]) :
        plan[r][i] \in steady[r] => \E j \in 1 .. i : plan[r][j] = outcome[r].by

\* The audit row of a request whose id nobody else uses tells what the
\* client was told: success or failure, which candidate served and after
\* how many failures.  Save and reply race, and the upsert is shared.
UsedOnce(r) == \A s \in Requests : s # r /\ stage[s] # "idle" => id[s] # id[r]

AuditMatchesReply ==
  \A r \in Requests :
    saved[r] = "yes" /\ reply[r].kind \in {"ok", "error"} /\ UsedOnce(r) =>
      /\ rows[id[r]] # NoRow
      /\ rows[id[r]].project = ProjectOf[r]
      /\ rows[id[r]].outcome.status = (IF reply[r].kind = "ok" THEN "success" ELSE "failed")
      /\ rows[id[r]].outcome.by = reply[r].by
      /\ rows[id[r]].outcome.retries = reply[r].fallbacks

\* A handler that started comes to an end.
EveryRequestIsAnswered ==
  \A r \in Requests : stage[r] = "checking" ~> stage[r] = "answered"

\* Once a provider has answered, the usage is metered, whatever becomes of
\* the client and the database, unless the process ends first.
EverySuccessIsMetered ==
  \A r \in Requests : outcome[r].status = "success" ~> job[r] \in {"done", "lost"}

\* What a comment promises and the code does not keep: a request without an
\* id header is given one of its own, so that the audit row under its id is
\* its own.
AuditRowPerRequest ==
  \A r \in Requests :
    saved[r] = "yes" /\ id[r] = NoId => rows[NoId] = [project |-> ProjectOf[r], outcome |-> outcome[r]]

=============================================================================
