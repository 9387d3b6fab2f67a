------------------------- MODULE ChatGatewayProofs -------------------------
(***************************************************************************)
(* Proofs about ChatGateway, for any requests, ids, chains and candidates, *)
(* any number of faults, and any interleaving of handlers, goroutines and  *)
(* environment.                                                            *)
(***************************************************************************)
EXTENDS ChatGateway, TLAPS

HandlerTypes ==
  /\ stage \in [Requests -> {"idle", "checking", "calling", "responding", "answered"}]
  /\ id \in [Requests -> Ids]
  /\ plan \in [Requests -> Plans \cup {<<>>}]
  /\ failed \in [Requests -> Nat]
  /\ lastErr \in [Requests -> Errors \cup {"nil"}]
  /\ outcome \in [Requests -> Outcomes]
  /\ reply \in [Requests -> Replies]
  /\ link \in [Requests -> {"open", "gone", "expired"}]

RecordTypes ==
  /\ job \in [Requests -> {"none", "saving", "emitting", "done", "lost"}]
  /\ saved \in [Requests -> {"no", "yes"}]
  /\ rows \in [Ids -> {NoRow} \cup Rows]

WorldTypes ==
  /\ working \subseteq Candidates
  /\ steady \in [Requests -> SUBSET Candidates]
  /\ faults \in 0 .. MaxFaults

\* How far a request has come, and what is known of its outcome by then.
Flow(r) ==
  /\ stage[r] = "idle" => saved[r] = "no"
  /\ stage[r] \in {"idle", "checking", "calling"} =>
       outcome[r] = Pending /\ job[r] = "none" /\ saved[r] = "no"
  /\ stage[r] \in {"idle", "checking"} => failed[r] = 0
  /\ stage[r] = "calling" => plan[r] \in Plans /\ failed[r] < Len(plan[r])
  /\ stage[r] = "responding" => outcome[r].status # "pending"
  /\ outcome[r].status = "success" =>
       /\ plan[r] \in Plans /\ failed[r] < Len(plan[r])
       /\ outcome[r] = Complete(plan[r], failed[r])
  /\ outcome[r].status = "failed" => outcome[r].by = NoCandidate /\ outcome[r].retries = 0
  /\ job[r] \in {"none", "saving"} => saved[r] = "no"

\* A reply tells the outcome.
Told(r) ==
  /\ reply[r].kind \in {"ok", "error"} =>
       /\ stage[r] = "answered"
       /\ outcome[r].status = (IF reply[r].kind = "ok" THEN "success" ELSE "failed")
       /\ outcome[r].by = reply[r].by
       /\ outcome[r].retries = reply[r].fallbacks

\* The candidates that have failed a client that is still there were out of
\* order at some moment since its request came in.
Tried(r) ==
  /\ steady[r] \subseteq working
  /\ (stage[r] = "calling" /\ link[r] # "gone") \/ outcome[r].status = "success" =>
       \A i \in 1 .. failed[r] : plan[r][i] \notin steady[r]
  /\ (stage[r] = "responding" /\ outcome[r].status = "failed" /\ link[r] # "gone")
       \/ reply[r].kind = "error" =>
       \A i \in 1 .. Len(plan[r]) : plan[r][i] \notin steady[r]

\* A row is the work of a request that was saved under its id.
RowsOK ==
  /\ \A i \in Ids : rows[i] # NoRow => \E s \in Requests : saved[s] = "yes" /\ id[s] = i
  /\ \A r \in Requests :
       saved[r] = "yes" /\ UsedOnce(r) =>
         rows[id[r]] = [project |-> ProjectOf[r], outcome |-> outcome[r]]

Types == HandlerTypes /\ RecordTypes /\ WorldTypes

IInv == Types /\ (\A r \in Requests : Flow(r) /\ Told(r) /\ Tried(r)) /\ RowsOK

-----------------------------------------------------------------------------
(* Records and chains.                                                     *)

LEMMA ChainType ==
  ASSUME NEW chain \in Plans
  PROVE  /\ chain \in Seq(Candidates) /\ Len(chain) \in Nat /\ Len(chain) > 0
         /\ \A i \in 1 .. Len(chain) : chain[i] \in Candidates
BY PlansAssumption

LEMMA CompleteType ==
  ASSUME NEW chain \in Plans, NEW n \in Nat, n < Len(chain)
  PROVE  /\ Complete(chain, n) \in Outcomes /\ Complete(chain, n).status = "success"
         /\ Complete(chain, n).by = chain[n + 1] /\ Complete(chain, n).retries = n
         /\ OkReply(chain, n) \in Replies /\ OkReply(chain, n).kind = "ok"
         /\ OkReply(chain, n).by = chain[n + 1] /\ OkReply(chain, n).fallbacks = n
<1>1. chain[n + 1] \in Candidates
  BY ChainType
<1>2. QED  BY <1>1 DEF Complete, OkReply, Outcomes, Replies, Codes

LEMMA FailType ==
  ASSUME NEW err
  PROVE  /\ Fail(err) \in Outcomes /\ Fail(err).status = "failed"
         /\ Fail(err).by = NoCandidate /\ Fail(err).retries = 0
         /\ ErrorReply(err) \in Replies /\ ErrorReply(err).kind = "error"
         /\ ErrorReply(err).by = NoCandidate /\ ErrorReply(err).fallbacks = 0
BY DEF Fail, CodeOf, ErrorReply, ReplyCode, Outcomes, Replies, Codes

LEMMA PendingType == Pending \in Outcomes /\ Pending.status = "pending"
BY DEF Pending, Outcomes, Codes

LEMMA WithoutType ==
  ASSUME NEW kind \in {"none", "refused", "lost"}
  PROVE  Without(kind) \in Replies /\ Without(kind).kind = kind
BY DEF Without, Replies, Codes

-----------------------------------------------------------------------------
(* What a step leaves alone.                                               *)

Same(s) ==
  /\ stage'[s] = stage[s] /\ id'[s] = id[s] /\ plan'[s] = plan[s] /\ failed'[s] = failed[s]
  /\ outcome'[s] = outcome[s] /\ reply'[s] = reply[s] /\ link'[s] = link[s]
  /\ saved'[s] = saved[s] /\ job'[s] = job[s]

LEMMA FlowStays ==
  ASSUME NEW s \in Requests, Flow(s), Told(s), Same(s) PROVE Flow(s)' /\ Told(s)'
BY DEF Flow, Told, Same

LEMMA TriedStays ==
  ASSUME NEW s \in Requests, Tried(s), Same(s), steady'[s] \subseteq steady[s], steady'[s] \subseteq working'
  PROVE  Tried(s)'
BY DEF Tried, Same

LEMMA RowsStay ==
  ASSUME Types, RowsOK, rows' = rows, saved' = saved,
         \A s \in Requests : stage[s] # "idle" => stage'[s] # "idle" /\ id'[s] = id[s],
         \A s \in Requests : saved[s] = "yes" => stage[s] # "idle" /\ outcome'[s] = outcome[s]
  PROVE  RowsOK'
<1>1. ASSUME NEW r \in Requests, saved[r] = "yes", UsedOnce(r)' PROVE UsedOnce(r)
  BY <1>1 DEF UsedOnce
<1>2. QED  BY <1>1 DEF RowsOK

\* A step of request r alone.
Alone(r) ==
  /\ Flow(r)' /\ Told(r)' /\ Tried(r)'
  /\ \A s \in Requests \ {r} : Same(s) /\ steady'[s] = steady[s]
  /\ working' = working
  /\ rows' = rows /\ saved' = saved
  /\ stage[r] # "idle" => stage'[r] # "idle" /\ id'[r] = id[r]
  /\ saved[r] = "yes" => outcome'[r] = outcome[r]

LEMMA AloneInv == ASSUME IInv, NEW r \in Requests, Types', Alone(r) PROVE IInv'
<1>1. \A s \in Requests : Flow(s)' /\ Told(s)' /\ Tried(s)'
  <2>1. ASSUME NEW s \in Requests \ {r} PROVE Flow(s)' /\ Told(s)' /\ Tried(s)'
    <3>1. Flow(s) /\ Told(s) /\ Tried(s)  BY DEF IInv
    <3>2. Same(s) /\ steady'[s] \subseteq steady[s] /\ steady'[s] \subseteq working'
      BY <3>1 DEF Alone, Tried
    <3>3. QED  BY <3>1, <3>2, FlowStays, TriedStays
  <2>2. QED  BY <2>1 DEF Alone
<1>2. \A s \in Requests : stage[s] # "idle" => stage'[s] # "idle" /\ id'[s] = id[s]
  BY DEF Alone, Same
<1>3. \A s \in Requests : saved[s] = "yes" => stage[s] # "idle" /\ outcome'[s] = outcome[s]
  BY DEF Alone, Same, IInv, Flow
<1>4. RowsOK'
  BY <1>2, <1>3, RowsStay DEF Alone, IInv
<1>5. QED  BY <1>1, <1>4 DEF IInv

-----------------------------------------------------------------------------
(* The handler.                                                            *)

LEMMA ReceiveInv == ASSUME IInv, NEW r \in Requests, Receive(r) PROVE IInv'
<1> USE DEF IInv, Types
<1>1. Types'
  BY DEF Receive, Go, HandlerTypes, RecordTypes, WorldTypes, record
<1>2. \A s \in Requests \ {r} : Same(s) /\ steady'[s] = steady[s]
  BY DEF Receive, Go, HandlerTypes, WorldTypes, record, Same
<1>3. /\ stage[r] = "idle" /\ stage'[r] = "checking" /\ steady'[r] = working /\ working' = working
      /\ outcome' = outcome /\ reply' = reply /\ failed' = failed /\ job' = job /\ saved' = saved
      /\ rows' = rows /\ link' = link /\ plan' = plan
  BY DEF Receive, Go, HandlerTypes, WorldTypes, record
<1>4. Flow(r)' /\ Told(r)' /\ Tried(r)'
  <2>1. Flow(r)'
    BY <1>3 DEF Flow
  <2>2. Told(r)'
    BY <1>3 DEF Told
  <2>3. outcome[r].status = "pending" /\ reply[r].kind # "error"
    BY <1>3, PendingType DEF Flow, Told
  <2>4. Tried(r)'
    BY <1>3, <2>3 DEF Tried
  <2>5. QED  BY <2>1, <2>2, <2>4
<1>5. Alone(r)
  BY <1>2, <1>3, <1>4 DEF Alone, Flow
<1>6. QED  BY <1>1, <1>5, AloneInv

LEMMA RefuseInv == ASSUME IInv, NEW r \in Requests, Refuse(r) PROVE IInv'
<1> USE DEF IInv, Types
<1>1. Types'
  BY WithoutType DEF Refuse, Go, HandlerTypes, RecordTypes, WorldTypes, record, world
<1>2. \A s \in Requests \ {r} : Same(s) /\ steady'[s] = steady[s]
  BY DEF Refuse, Go, HandlerTypes, WorldTypes, record, world, Same
<1>3. /\ stage[r] = "checking" /\ stage'[r] = "answered" /\ reply'[r] = Without("refused")
      /\ UNCHANGED <<id, plan, failed, outcome, link, job, saved, rows, working, steady>>
  BY DEF Refuse, Go, HandlerTypes, record, world
<1>4. Flow(r)' /\ Told(r)' /\ Tried(r)'
  BY <1>3, WithoutType, PendingType DEF Flow, Told, Tried
<1>5. Alone(r)
  BY <1>2, <1>3, <1>4 DEF Alone
<1>6. QED  BY <1>1, <1>5, AloneInv

LEMMA RouteInv == ASSUME IInv, NEW r \in Requests, Route(r) PROVE IInv'
<1> USE DEF IInv, Types
<1>1. Types'
  BY DEF Route, Go, HandlerTypes, RecordTypes, WorldTypes, record, world
<1>2. \A s \in Requests \ {r} : Same(s) /\ steady'[s] = steady[s]
  BY DEF Route, Go, HandlerTypes, WorldTypes, record, world, Same
<1>3. /\ stage[r] = "checking" /\ stage'[r] = "calling" /\ plan'[r] \in Plans
      /\ UNCHANGED <<id, failed, outcome, reply, link, job, saved, rows, working, steady>>
  BY DEF Route, Go, HandlerTypes, record, world
<1>4. Len(plan'[r]) \in Nat /\ Len(plan'[r]) > 0 /\ failed[r] = 0
  BY <1>3, ChainType DEF Flow
<1>5. Flow(r)' /\ Told(r)' /\ Tried(r)'
  BY <1>3, <1>4, PendingType DEF Flow, Told, Tried
<1>6. Alone(r)
  BY <1>2, <1>3, <1>5 DEF Alone
<1>7. QED  BY <1>1, <1>6, AloneInv

LEMMA CallFailsInv == ASSUME IInv, NEW r \in Requests, CallFails(r) PROVE IInv'
<1> USE DEF IInv, Types
<1>1. /\ stage[r] = "calling" /\ failed'[r] = failed[r] + 1 /\ plan[r] \in Plans
      /\ failed[r] \in Nat /\ failed[r] < Len(plan[r]) /\ Len(plan[r]) \in Nat
      /\ UNCHANGED <<id, plan, reply, link, saved, rows, working, steady, faults>>
  BY ChainType DEF CallFails, HandlerTypes, Flow, world
<1>2. failed' \in [Requests -> Nat]
  BY DEF CallFails, HandlerTypes
<1>3. link[r] # "gone" => \A i \in 1 .. failed[r] + 1 : plan[r][i] \notin steady[r]
  <2> SUFFICES ASSUME link[r] # "gone", NEW i \in 1 .. failed[r] + 1
               PROVE  plan[r][i] \notin steady[r]
    OBVIOUS
  <2>1. CASE i \in 1 .. failed[r]
    BY <1>1, <2>1 DEF Tried
  <2>2. CASE i = failed[r] + 1
    BY <2>2 DEF CallFails, Current, Tried
  <2>3. QED  BY <1>1, <2>1, <2>2
<1>4. CASE failed[r] + 1 < Len(plan[r]) /\ UNCHANGED <<stage, lastErr, outcome, job>>
  <2>1. Types'
    BY <1>1, <1>2, <1>4 DEF HandlerTypes, RecordTypes, WorldTypes
  <2>2. \A s \in Requests \ {r} : Same(s) /\ steady'[s] = steady[s]
    BY <1>1, <1>4 DEF CallFails, HandlerTypes, Same
  <2>3. Flow(r)' /\ Told(r)'
    BY <1>1, <1>4, PendingType DEF Flow, Told
  <2>4. outcome'[r].status = "pending" /\ reply'[r].kind # "error"
    BY <1>1, <1>4, PendingType DEF Flow, Told
  <2>5. Tried(r)'
    BY <1>1, <1>3, <1>4, <2>4 DEF Tried
  <2>6. Alone(r)
    BY <1>1, <1>4, <2>2, <2>3, <2>5 DEF Alone
  <2>7. QED  BY <2>1, <2>6, AloneInv
<1>5. CASE failed[r] + 1 = Len(plan[r]) /\ Exhaust(r)
  <2>1. PICK err \in Errors : lastErr' = [lastErr EXCEPT ![r] = err] /\ Conclude(r, Fail(err))
    BY <1>5 DEF Exhaust
  <2>2. /\ stage' = [stage EXCEPT ![r] = "responding"] /\ job' = [job EXCEPT ![r] = "saving"]
        /\ outcome' = [outcome EXCEPT ![r] = Fail(err)]
    BY <2>1 DEF Conclude, Go
  <2>3. Types'
    BY <1>1, <1>2, <2>1, <2>2, FailType DEF HandlerTypes, RecordTypes, WorldTypes
  <2>4. \A s \in Requests \ {r} : Same(s) /\ steady'[s] = steady[s]
    BY <1>1, <2>2 DEF CallFails, HandlerTypes, RecordTypes, Same
  <2>5. stage'[r] = "responding" /\ outcome'[r] = Fail(err)
    BY <2>2 DEF HandlerTypes
  <2>6. Flow(r)' /\ Told(r)'
    BY <1>1, <2>5, FailType DEF Flow, Told
  <2>7. reply'[r].kind # "error" /\ saved[r] # "yes"
    BY <1>1 DEF Told, Flow
  <2>8. Tried(r)'
    BY <1>1, <1>3, <1>5, <2>5, <2>7, FailType DEF Tried
  <2>9. Alone(r)
    BY <1>1, <2>4, <2>5, <2>6, <2>7, <2>8 DEF Alone
  <2>10. QED  BY <2>3, <2>9, AloneInv
<1>6. QED  BY <1>4, <1>5 DEF CallFails

LEMMA CallAnswersInv == ASSUME IInv, NEW r \in Requests, CallAnswers(r) PROVE IInv'
<1> USE DEF IInv, Types
<1>1. /\ stage[r] = "calling" /\ link[r] # "gone" /\ plan[r] \in Plans
      /\ failed[r] \in Nat /\ failed[r] < Len(plan[r])
      /\ UNCHANGED <<id, plan, failed, lastErr, reply, link, saved, rows, working, steady, faults>>
  BY DEF CallAnswers, HandlerTypes, Flow, world
<1>2. /\ stage' = [stage EXCEPT ![r] = "responding"] /\ job' = [job EXCEPT ![r] = "saving"]
      /\ outcome' = [outcome EXCEPT ![r] = Complete(plan[r], failed[r])]
  BY DEF CallAnswers, Conclude, Go
<1>3. Types'
  BY <1>1, <1>2, CompleteType DEF HandlerTypes, RecordTypes, WorldTypes
<1>4. \A s \in Requests \ {r} : Same(s) /\ steady'[s] = steady[s]
  BY <1>1, <1>2 DEF HandlerTypes, RecordTypes, Same
<1>5. stage'[r] = "responding" /\ outcome'[r] = Complete(plan[r], failed[r])
  BY <1>2 DEF HandlerTypes
<1>6. Flow(r)' /\ Told(r)'
  BY <1>1, <1>5, CompleteType DEF Flow, Told
<1>7. reply'[r].kind # "error" /\ saved[r] # "yes"
  BY <1>1 DEF Told, Flow
<1>8. Tried(r)'
  BY <1>1, <1>5, <1>7, CompleteType DEF Tried
<1>9. Alone(r)
  BY <1>1, <1>4, <1>5, <1>6, <1>7, <1>8 DEF Alone
<1>10. QED  BY <1>3, <1>9, AloneInv

LEMMA RespondInv == ASSUME IInv, NEW r \in Requests, Respond(r) PROVE IInv'
<1> USE DEF IInv, Types
<1> DEFINE answer == IF link[r] # "open" THEN Without("lost")
                     ELSE IF outcome[r].status = "success" THEN OkReply(plan[r], failed[r])
                     ELSE ErrorReply(lastErr[r])
<1>1. /\ stage[r] = "responding" /\ stage' = [stage EXCEPT ![r] = "answered"]
      /\ reply' = [reply EXCEPT ![r] = answer]
      /\ UNCHANGED <<id, plan, failed, lastErr, outcome, link, job, saved, rows, working, steady, faults>>
  BY DEF Respond, Go, record, world
<1>2. /\ outcome[r].status \in {"success", "failed"}
      /\ failed[r] \in Nat
  BY <1>1 DEF Flow, HandlerTypes, Outcomes
<1>3. /\ answer \in Replies
      /\ answer.kind \in {"ok", "error"} =>
           /\ link[r] = "open"
           /\ outcome[r].status = (IF answer.kind = "ok" THEN "success" ELSE "failed")
           /\ outcome[r].by = answer.by /\ outcome[r].retries = answer.fallbacks
  <2>1. CASE link[r] # "open"
    BY <2>1, WithoutType
  <2>2. CASE link[r] = "open" /\ outcome[r].status = "success"
    BY <1>2, <2>2, CompleteType DEF Flow
  <2>3. CASE link[r] = "open" /\ outcome[r].status = "failed"
    BY <2>3, FailType DEF Flow
  <2>4. QED  BY <1>2, <2>1, <2>2, <2>3
<1> HIDE DEF answer
<1>4. Types'
  BY <1>1, <1>3 DEF HandlerTypes, RecordTypes, WorldTypes
<1>5. \A s \in Requests \ {r} : Same(s) /\ steady'[s] = steady[s]
  BY <1>1 DEF HandlerTypes, Same
<1>6. stage'[r] = "answered" /\ reply'[r] = answer
  BY <1>1 DEF HandlerTypes
<1>7. Flow(r)' /\ Told(r)'
  BY <1>1, <1>3, <1>6 DEF Flow, Told
<1>8. Tried(r)'
  BY <1>1, <1>3, <1>6 DEF Tried
<1>9. Alone(r)
  BY <1>1, <1>5, <1>6, <1>7, <1>8 DEF Alone
<1>10. QED  BY <1>4, <1>9, AloneInv

LEMMA LinkBreaksInv == ASSUME IInv, NEW r \in Requests, LinkBreaks(r) PROVE IInv'
<1> USE DEF IInv, Types
<1>1. /\ stage[r] \in {"calling", "responding"} /\ link[r] = "open" /\ faults' = faults + 1
      /\ faults < MaxFaults
      /\ UNCHANGED <<stage, id, plan, failed, lastErr, outcome, reply, job, saved, rows, working, steady>>
  BY DEF LinkBreaks, record
<1>2. PICK how \in {"gone", "expired"} : link' = [link EXCEPT ![r] = how]
  BY DEF LinkBreaks
<1>3. HandlerTypes' /\ RecordTypes'
  BY <1>1, <1>2 DEF HandlerTypes, RecordTypes
<1>4. WorldTypes'
  BY <1>1, FaultsAssumption DEF WorldTypes
<1>5. \A s \in Requests \ {r} : Same(s) /\ steady'[s] = steady[s]
  BY <1>1, <1>2 DEF HandlerTypes, Same
<1>6. Flow(r)' /\ Told(r)'
  BY <1>1 DEF Flow, Told
<1>7. Tried(r)'
  BY <1>1 DEF Tried
<1>8. Alone(r)
  BY <1>1, <1>5, <1>6, <1>7 DEF Alone
<1>9. QED  BY <1>3, <1>4, <1>8, AloneInv

-----------------------------------------------------------------------------
(* The goroutine of saveAndEmit.                                           *)

LEMMA SaveInv == ASSUME IInv, NEW r \in Requests, Save(r) PROVE IInv'
<1> USE DEF IInv, Types
<1> DEFINE i   == id[r]
           new == [project |-> IF rows[i] = NoRow THEN ProjectOf[r] ELSE rows[i].project,
                   outcome |-> outcome[r]]
<1>1. /\ job[r] = "saving" /\ job' = [job EXCEPT ![r] = "emitting"]
      /\ saved' = [saved EXCEPT ![r] = "yes"]
      /\ rows' = [rows EXCEPT ![i] = new]
      /\ UNCHANGED <<stage, id, plan, failed, lastErr, outcome, reply, link, working, steady, faults>>
  BY DEF Save, Advance, Upsert, handler, world
<1>2. i \in Ids /\ new \in Rows
  <2>1. i \in Ids /\ outcome[r] \in Outcomes /\ ProjectOf[r] \in Projects
    BY ProjectAssumption DEF HandlerTypes
  <2>2. rows[i] # NoRow => rows[i].project \in Projects
    BY <2>1 DEF RecordTypes, Rows
  <2>3. QED  BY <2>1, <2>2 DEF Rows
<1>3. new # NoRow  BY <1>2, RowsAssumption
<1>4. new.outcome = outcome[r] /\ (rows[i] = NoRow => new.project = ProjectOf[r])
  OBVIOUS
<1> HIDE DEF new
<1>5. Types'
  BY <1>1, <1>2 DEF HandlerTypes, RecordTypes, WorldTypes
<1>6. \A s \in Requests : Flow(s)' /\ Told(s)' /\ Tried(s)'
  <2>1. ASSUME NEW s \in Requests \ {r} PROVE Flow(s)' /\ Told(s)' /\ Tried(s)'
    <3>1. Same(s) /\ steady'[s] = steady[s] /\ working' = working
      BY <1>1 DEF RecordTypes, Same
    <3>2. QED  BY <3>1, FlowStays, TriedStays DEF Tried
  <2>2. Flow(r)'
    BY <1>1 DEF Flow, RecordTypes
  <2>3. Told(r)' /\ Tried(r)'
    BY <1>1 DEF Told, Tried
  <2>4. QED  BY <2>1, <2>2, <2>3
<1>7. \A k \in Ids : rows'[k] # NoRow => \E s \in Requests : saved'[s] = "yes" /\ id'[s] = k
  <2>1. \A s \in Requests : saved[s] = "yes" => saved'[s] = "yes"
    BY <1>1 DEF RecordTypes
  <2>2. saved'[r] = "yes"
    BY <1>1 DEF RecordTypes
  <2>3. \A k \in Ids \ {i} : rows'[k] = rows[k]
    BY <1>1, <1>2 DEF RecordTypes
  <2>4. QED  BY <1>1, <2>1, <2>2, <2>3 DEF RowsOK
<1>8. ASSUME NEW s \in Requests, saved'[s] = "yes", UsedOnce(s)'
      PROVE  rows'[id[s]] = [project |-> ProjectOf[s], outcome |-> outcome[s]]
  <2>1. UsedOnce(s)
    BY <1>1, <1>8 DEF UsedOnce
  <2>2. stage[r] # "idle"
    BY <1>1 DEF Flow
  <2>3. CASE s # r
    <3>1. id[s] # i /\ saved[s] = "yes" /\ id[s] \in Ids
      BY <1>1, <1>8, <2>1, <2>2, <2>3 DEF UsedOnce, RecordTypes, HandlerTypes
    <3>2. rows'[id[s]] = rows[id[s]]
      BY <1>1, <3>1 DEF RecordTypes
    <3>3. QED  BY <2>1, <3>1, <3>2 DEF RowsOK
  <2>4. CASE s = r
    <3>1. saved[r] # "yes"
      BY <1>1 DEF Flow
    <3>2. rows[i] = NoRow
      BY <1>2, <2>1, <2>4, <3>1 DEF RowsOK, UsedOnce, Flow
    <3>3. rows'[i] = new
      BY <1>1, <1>2 DEF RecordTypes
    <3>4. new = [project |-> new.project, outcome |-> new.outcome]
      BY <1>2 DEF Rows
    <3>5. QED  BY <1>4, <2>4, <3>2, <3>3, <3>4
  <2>5. QED  BY <2>3, <2>4
<1>9. RowsOK'
  BY <1>1, <1>7, <1>8 DEF RowsOK
<1>10. QED  BY <1>5, <1>6, <1>9

LEMMA SaveFailsInv == ASSUME IInv, NEW r \in Requests, SaveFails(r) PROVE IInv'
<1> USE DEF IInv, Types
<1>1. /\ job[r] = "saving" /\ job' = [job EXCEPT ![r] = "emitting"] /\ faults' = faults + 1
      /\ faults < MaxFaults
      /\ UNCHANGED <<stage, id, plan, failed, lastErr, outcome, reply, link, saved, rows, working, steady>>
  BY DEF SaveFails, Advance, handler
<1>2. HandlerTypes' /\ RecordTypes'
  BY <1>1 DEF HandlerTypes, RecordTypes
<1>3. WorldTypes'
  BY <1>1, FaultsAssumption DEF WorldTypes
<1>4. \A s \in Requests \ {r} : Same(s) /\ steady'[s] = steady[s]
  BY <1>1 DEF RecordTypes, Same
<1>5. job'[r] = "emitting"
  BY <1>1 DEF RecordTypes
<1>6. Flow(r)' /\ Told(r)' /\ Tried(r)'
  BY <1>1, <1>5 DEF Flow, Told, Tried
<1>7. Alone(r)
  BY <1>1, <1>4, <1>6 DEF Alone
<1>8. QED  BY <1>2, <1>3, <1>7, AloneInv

LEMMA EmitInv == ASSUME IInv, NEW r \in Requests, Emit(r) PROVE IInv'
<1> USE DEF IInv, Types
<1>1. /\ job[r] = "emitting" /\ job' = [job EXCEPT ![r] = "done"]
      /\ UNCHANGED <<stage, id, plan, failed, lastErr, outcome, reply, link, saved, rows, working, steady, faults>>
  BY DEF Emit, Advance, handler, world
<1>2. Types'
  BY <1>1 DEF HandlerTypes, RecordTypes, WorldTypes
<1>3. \A s \in Requests \ {r} : Same(s) /\ steady'[s] = steady[s]
  BY <1>1 DEF RecordTypes, Same
<1>4. job'[r] = "done"
  BY <1>1 DEF RecordTypes
<1>5. Flow(r)' /\ Told(r)' /\ Tried(r)'
  BY <1>1, <1>4 DEF Flow, Told, Tried
<1>6. Alone(r)
  BY <1>1, <1>3, <1>5 DEF Alone
<1>7. QED  BY <1>2, <1>6, AloneInv

-----------------------------------------------------------------------------
(* The environment.                                                        *)

\* A step that no handler and no record takes part in.
LEMMA OutsideInv ==
  ASSUME IInv, UNCHANGED <<handler, record>>, WorldTypes',
         \A s \in Requests : steady'[s] \subseteq steady[s] /\ steady'[s] \subseteq working'
  PROVE  IInv'
<1>1. UNCHANGED <<stage, id, plan, failed, lastErr, outcome, reply, link, job, saved, rows>>
  BY DEF handler, record
<1>2. Types'
  BY <1>1 DEF IInv, Types, HandlerTypes, RecordTypes
<1>3. ASSUME NEW s \in Requests PROVE Flow(s)' /\ Told(s)' /\ Tried(s)'
  <2>1. Same(s)  BY <1>1 DEF Same
  <2>2. QED  BY <2>1, FlowStays, TriedStays DEF IInv
<1>4. \A s \in Requests : saved[s] = "yes" => stage[s] # "idle"
  BY DEF IInv, Flow
<1>5. RowsOK'
  BY <1>1, <1>4, RowsStay DEF IInv
<1>6. QED  BY <1>2, <1>3, <1>5 DEF IInv

LEMMA DegradeInv == ASSUME IInv, NEW c \in Candidates, Degrade(c) PROVE IInv'
<1>1. /\ working' = working \ {c} /\ steady' = [r \in Requests |-> steady[r] \ {c}]
      /\ faults' = faults + 1 /\ faults < MaxFaults /\ UNCHANGED <<handler, record>>
  BY DEF Degrade
<1>2. WorldTypes'
  BY <1>1, FaultsAssumption DEF IInv, Types, WorldTypes
<1>3. \A s \in Requests : steady'[s] \subseteq steady[s] /\ steady'[s] \subseteq working'
  BY <1>1 DEF IInv, Tried
<1>4. QED  BY <1>1, <1>2, <1>3, OutsideInv

LEMMA RecoverInv == ASSUME IInv, NEW c \in Candidates, Recover(c) PROVE IInv'
<1>1. working' = working \cup {c} /\ UNCHANGED <<handler, record, steady, faults>>
  BY DEF Recover
<1>2. WorldTypes'
  BY <1>1 DEF IInv, Types, WorldTypes
<1>3. \A s \in Requests : steady'[s] \subseteq steady[s] /\ steady'[s] \subseteq working'
  BY <1>1 DEF IInv, Tried
<1>4. QED  BY <1>1, <1>2, <1>3, OutsideInv

LEMMA RestartInv == ASSUME IInv, Restart PROVE IInv'
<1> USE DEF IInv, Types
<1> DEFINE cut == {r \in Requests : stage[r] \in {"checking", "calling", "responding"}}
<1>1. /\ stage' = [r \in Requests |-> IF r \in cut THEN "answered" ELSE stage[r]]
      /\ reply' = [r \in Requests |-> IF r \in cut THEN Without("lost") ELSE reply[r]]
      /\ job' = [r \in Requests |-> IF job[r] \in {"saving", "emitting"} THEN "lost" ELSE job[r]]
      /\ faults' = faults + 1 /\ faults < MaxFaults
      /\ UNCHANGED <<id, plan, failed, lastErr, outcome, link, saved, rows, working, steady>>
  BY DEF Restart
<1>2. HandlerTypes'
  BY <1>1, WithoutType DEF HandlerTypes
<1>3. RecordTypes'
  BY <1>1 DEF RecordTypes
<1>4. WorldTypes'
  BY <1>1, FaultsAssumption DEF WorldTypes
<1>5. ASSUME NEW s \in Requests PROVE Flow(s)' /\ Told(s)' /\ Tried(s)'
  <2>1. Flow(s)'
    BY <1>1 DEF Flow, HandlerTypes
  <2>2. Told(s)'
    BY <1>1, WithoutType DEF Told
  <2>3. Tried(s)'
    BY <1>1, WithoutType DEF Tried, Told
  <2>4. QED  BY <2>1, <2>2, <2>3
<1>6. RowsOK'
  <2>1. \A s \in Requests : stage[s] # "idle" => stage'[s] # "idle" /\ id'[s] = id[s]
    BY <1>1
  <2>2. \A s \in Requests : saved[s] = "yes" => stage[s] # "idle" /\ outcome'[s] = outcome[s]
    BY <1>1 DEF Flow
  <2>3. QED  BY <1>1, <2>1, <2>2, RowsStay
<1>7. QED  BY <1>2, <1>3, <1>4, <1>5, <1>6

-----------------------------------------------------------------------------
(* Invariance.                                                             *)

LEMMA InitInv == Init => IInv
<1> SUFFICES ASSUME Init PROVE IInv
  OBVIOUS
<1>1. HandlerTypes
  BY PendingType, WithoutType DEF Init, HandlerTypes, Ids
<1>2. RecordTypes /\ WorldTypes
  BY FaultsAssumption DEF Init, RecordTypes, WorldTypes
<1>3. ASSUME NEW r \in Requests PROVE Flow(r) /\ Told(r) /\ Tried(r)
  BY PendingType, WithoutType DEF Init, Flow, Told, Tried
<1>4. RowsOK
  BY DEF Init, RowsOK
<1>5. QED  BY <1>1, <1>2, <1>3, <1>4 DEF IInv, Types

LEMMA NextInv == IInv /\ [Next]_vars => IInv'
<1> SUFFICES ASSUME IInv, [Next]_vars PROVE IInv'
  OBVIOUS
<1>1. ASSUME NEW r \in Requests, Receive(r) \/ Handle(r) \/ Record(r) \/ LinkBreaks(r) PROVE IInv'
  <2>1. CASE Receive(r)  BY <2>1, ReceiveInv
  <2>2. CASE Handle(r)
    BY <2>2, RefuseInv, RouteInv, CallFailsInv, CallAnswersInv, RespondInv DEF Handle
  <2>3. CASE Record(r)
    BY <2>3, SaveInv, SaveFailsInv, EmitInv DEF Record
  <2>4. CASE LinkBreaks(r)  BY <2>4, LinkBreaksInv
  <2>5. QED  BY <1>1, <2>1, <2>2, <2>3, <2>4
<1>2. ASSUME NEW c \in Candidates, Degrade(c) \/ Recover(c) PROVE IInv'
  BY <1>2, DegradeInv, RecoverInv
<1>3. CASE Restart  BY <1>3, RestartInv
<1>4. CASE UNCHANGED vars
  <2>1. UNCHANGED <<handler, record>> /\ working' = working /\ steady' = steady /\ faults' = faults
    BY <1>4 DEF vars, handler, record
  <2>2. WorldTypes' /\ \A s \in Requests : steady'[s] \subseteq steady[s] /\ steady'[s] \subseteq working'
    BY <2>1 DEF IInv, Types, WorldTypes, Tried
  <2>3. QED  BY <2>1, <2>2, OutsideInv
<1>5. QED  BY <1>1, <1>2, <1>3, <1>4 DEF Next

LEMMA Invariance == Spec => []IInv
BY InitInv, NextInv, PTL DEF Spec

-----------------------------------------------------------------------------
(* Theorems.                                                               *)

\* Every field of handlers, records and table keeps its type.
THEOREM TypeCorrect == Spec => []TypeOK
<1>1. IInv => TypeOK
  BY DEF IInv, Types, HandlerTypes, RecordTypes, WorldTypes, TypeOK
<1>2. QED  BY <1>1, Invariance, PTL

\* A client is told of a failure only when every candidate of its chain was
\* out of order at some moment since its request came in.
THEOREM FailoverExhausts == Spec => []FailoverIsExhaustive
<1>1. IInv => FailoverIsExhaustive
  <2> SUFFICES ASSUME IInv, NEW r \in Requests, reply[r].kind = "error",
                      NEW c \in steady[r], NEW i \in DOMAIN plan[r], plan[r][i] = c
               PROVE  FALSE
    BY DEF FailoverIsExhaustive, InPlan
  <2>1. DOMAIN plan[r] = 1 .. Len(plan[r])
    BY ChainType DEF IInv, Types, HandlerTypes
  <2>2. QED  BY <2>1 DEF IInv, Tried
<1>2. QED  BY <1>1, Invariance, PTL

\* A later candidate serves only when all before it have been out of order.
THEOREM FailoverJustified == Spec => []FailoverIsJustified
<1>1. IInv => FailoverIsJustified
  <2> SUFFICES ASSUME IInv, NEW r \in Requests, outcome[r].status = "success",
                      NEW i \in 1 .. Len(plan[r]), plan[r][i] \in steady[r]
               PROVE  \E j \in 1 .. i : plan[r][j] = outcome[r].by
    BY DEF FailoverIsJustified
  <2>1. /\ plan[r] \in Plans /\ failed[r] \in Nat /\ failed[r] < Len(plan[r])
        /\ outcome[r] = Complete(plan[r], failed[r])
    BY DEF IInv, Types, HandlerTypes, Flow
  <2>2. outcome[r].by = plan[r][failed[r] + 1] /\ Len(plan[r]) \in Nat
    BY <2>1, CompleteType, ChainType
  <2>3. i \notin 1 .. failed[r]
    BY DEF IInv, Tried
  <2>4. failed[r] + 1 \in 1 .. i
    BY <2>1, <2>2, <2>3
  <2>5. QED  BY <2>2, <2>4
<1>2. QED  BY <1>1, Invariance, PTL

\* An audit row under an id used once tells what the client was told.
THEOREM AuditTellsReply == Spec => []AuditMatchesReply
<1>1. IInv => AuditMatchesReply
  <2> SUFFICES ASSUME IInv, NEW r \in Requests, saved[r] = "yes",
                      reply[r].kind \in {"ok", "error"}, UsedOnce(r)
               PROVE  /\ rows[id[r]] # NoRow
                      /\ rows[id[r]].project = ProjectOf[r]
                      /\ rows[id[r]].outcome.status = (IF reply[r].kind = "ok" THEN "success" ELSE "failed")
                      /\ rows[id[r]].outcome.by = reply[r].by
                      /\ rows[id[r]].outcome.retries = reply[r].fallbacks
    BY DEF AuditMatchesReply
  <2>1. rows[id[r]] = [project |-> ProjectOf[r], outcome |-> outcome[r]]
    BY DEF IInv, RowsOK
  <2>2. rows[id[r]] \in Rows
    BY <2>1, ProjectAssumption DEF IInv, Types, HandlerTypes, Rows
  <2>3. rows[id[r]] # NoRow
    BY <2>2, RowsAssumption
  <2>4. QED  BY <2>1, <2>3 DEF IInv, Told
<1>2. QED  BY <1>1, Invariance, PTL

-----------------------------------------------------------------------------
(* The safety half of EveryRequestIsAnswered and EverySuccessIsMetered:    *)
(* both goroutines of a request only go forward, and reach an end.         *)

StageRank(place) ==
  CASE place = "idle"       -> 4
    [] place = "checking"   -> 3
    [] place = "calling"    -> 2
    [] place = "responding" -> 1
    [] place = "answered"   -> 0

\* A handler goes on to its next stage, or to the next candidate of its chain.
Forward(r) ==
  \/ StageRank(stage'[r]) < StageRank(stage[r])
  \/ /\ stage[r] = "calling" /\ stage'[r] = "calling"
     /\ plan'[r] = plan[r]
     /\ failed'[r] = failed[r] + 1 /\ failed'[r] < Len(plan[r])

HandlersGoForward ==
  \A r \in Requests :
    /\ Handle(r) => Forward(r)
    /\ Forward(r) \/ (stage'[r] = stage[r] /\ plan'[r] = plan[r] /\ failed'[r] = failed[r])

LEMMA HandleForward ==
  ASSUME IInv, NEW r \in Requests, Receive(r) \/ Handle(r)
  PROVE  /\ Forward(r)
         /\ \A s \in Requests \ {r} :
              stage'[s] = stage[s] /\ plan'[s] = plan[s] /\ failed'[s] = failed[s]
<1> USE DEF IInv, Types, HandlerTypes
<1>1. CASE Receive(r) \/ Refuse(r) \/ Route(r) \/ Respond(r)
  BY <1>1 DEF Receive, Refuse, Route, Respond, Go, Forward, StageRank
<1>2. CASE CallAnswers(r)
  BY <1>2 DEF CallAnswers, Conclude, Go, Forward, StageRank
<1>3. CASE CallFails(r)
  <2>1. /\ stage[r] = "calling" /\ plan' = plan /\ failed' = [failed EXCEPT ![r] = @ + 1]
        /\ failed[r] \in Nat
    BY <1>3 DEF CallFails
  <2>2. CASE failed[r] + 1 < Len(plan[r]) /\ stage' = stage
    BY <2>1, <2>2 DEF Forward
  <2>3. CASE stage' = [stage EXCEPT ![r] = "responding"]
    BY <2>1, <2>3 DEF Forward, StageRank
  <2>4. QED  BY <1>3, <2>1, <2>2, <2>3 DEF CallFails, Exhaust, Conclude, Go
<1>4. QED  BY <1>1, <1>2, <1>3 DEF Handle

\* Every step of a handler brings it nearer to its reply, for any chain,
\* and nothing its client, a provider, another request or a restart does
\* takes it back.
THEOREM HandlersAdvance == Spec => [][HandlersGoForward]_vars
<1>1. IInv /\ [Next]_vars => [HandlersGoForward]_vars
  <2> SUFFICES ASSUME IInv, Next PROVE HandlersGoForward
    OBVIOUS
  <2> DEFINE Kept(r) == stage'[r] = stage[r] /\ plan'[r] = plan[r] /\ failed'[r] = failed[r]
  <2>1. ASSUME NEW r \in Requests PROVE Handle(r) => Forward(r)
    BY HandleForward
  <2>2. ASSUME NEW r \in Requests PROVE Forward(r) \/ Kept(r)
    <3>1. ASSUME NEW s \in Requests, Receive(s) \/ Handle(s) PROVE Forward(r) \/ Kept(r)
      BY <3>1, HandleForward
    <3>2. ASSUME NEW s \in Requests, Record(s) \/ LinkBreaks(s) PROVE Kept(r)
      BY <3>2 DEF Record, Save, SaveFails, Emit, LinkBreaks, handler
    <3>3. ASSUME NEW c \in Candidates, Degrade(c) \/ Recover(c) PROVE Kept(r)
      BY <3>3 DEF Degrade, Recover, handler
    <3>4. CASE Restart
      <4>1. stage[r] \in {"idle", "checking", "calling", "responding", "answered"}
        BY DEF IInv, Types, HandlerTypes
      <4>2. /\ stage'[r] = (IF stage[r] \in {"checking", "calling", "responding"}
                            THEN "answered" ELSE stage[r])
            /\ plan' = plan /\ failed' = failed
        BY <3>4 DEF Restart
      <4>3. QED  BY <4>1, <4>2 DEF Forward, StageRank
    <3>5. QED  BY <3>1, <3>2, <3>3, <3>4 DEF Next
  <2>3. QED  BY <2>1, <2>2 DEF HandlersGoForward
<1>2. QED  BY <1>1, Invariance, PTL DEF Spec

JobRank(place) ==
  CASE place = "none"             -> 3
    [] place = "saving"           -> 2
    [] place = "emitting"         -> 1
    [] place \in {"done", "lost"} -> 0

RecordsGoForward ==
  \A r \in Requests :
    /\ Record(r) => JobRank(job'[r]) < JobRank(job[r])
    /\ job'[r] = job[r] \/ JobRank(job'[r]) < JobRank(job[r])

\* Every step of the goroutine of saveAndEmit brings it nearer to its end,
\* whether or not the database takes the record, and none takes it back.
THEOREM RecordsAdvance == Spec => [][RecordsGoForward]_vars
<1>1. IInv /\ [Next]_vars => [RecordsGoForward]_vars
  <2> SUFFICES ASSUME IInv, Next PROVE RecordsGoForward
    OBVIOUS
  <2> USE DEF JobRank
  <2>1. job \in [Requests -> {"none", "saving", "emitting", "done", "lost"}]
    BY DEF IInv, Types, RecordTypes
  <2>2. ASSUME NEW r \in Requests, Record(r)
        PROVE  /\ JobRank(job'[r]) < JobRank(job[r])
               /\ \A s \in Requests \ {r} : job'[s] = job[s]
    BY <2>1, <2>2 DEF Record, Save, SaveFails, Emit, Advance
  <2>3. ASSUME NEW r \in Requests, Receive(r) \/ Refuse(r) \/ Route(r) \/ Respond(r) \/ LinkBreaks(r)
        PROVE  job' = job
    BY <2>3 DEF Receive, Refuse, Route, Respond, LinkBreaks, record
  <2>4. ASSUME NEW r \in Requests, CallFails(r) \/ CallAnswers(r)
        PROVE  job' = job \/ (job[r] = "none" /\ job' = [job EXCEPT ![r] = "saving"])
    BY <2>4 DEF CallFails, CallAnswers, Exhaust, Conclude, IInv, Flow
  <2>5. ASSUME NEW c \in Candidates, Degrade(c) \/ Recover(c) PROVE job' = job
    BY <2>5 DEF Degrade, Recover, record
  <2>6. ASSUME NEW r \in Requests PROVE job'[r] = job[r] \/ JobRank(job'[r]) < JobRank(job[r])
    <3>1. ASSUME NEW s \in Requests, CallFails(s) \/ CallAnswers(s)
          PROVE  job'[r] = job[r] \/ JobRank(job'[r]) < JobRank(job[r])
      BY <2>1, <2>4, <3>1
    <3>2. CASE Restart
      <4>1. job'[r] = IF job[r] \in {"saving", "emitting"} THEN "lost" ELSE job[r]
        BY <3>2 DEF Restart
      <4>2. QED  BY <4>1
    <3>3. QED  BY <2>2, <2>3, <2>5, <3>1, <3>2 DEF Next, Handle
  <2>7. QED  BY <2>2, <2>6 DEF RecordsGoForward
<1>2. QED  BY <1>1, Invariance, PTL DEF Spec

\* What the handlers and goroutines that are under way still have to do.
HasWork ==
  \A r \in Requests :
    /\ stage[r] = "calling" => Current(r) \in Candidates
    /\ outcome[r].status # "pending" => job[r] # "none"

\* No handler runs past the end of its chain, and a request whose outcome is
\* known has a goroutine that meters it.
THEOREM NothingIsForgotten == Spec => []HasWork
<1> DEFINE Metered == \A r \in Requests : outcome[r].status # "pending" => job[r] # "none"
<1>1. Init => Metered
  BY PendingType DEF Init
<1>2. IInv /\ Metered /\ [Next]_vars => Metered'
  <2> SUFFICES ASSUME IInv, Metered, [Next]_vars, NEW r \in Requests,
                      outcome'[r].status # "pending"
               PROVE  job'[r] # "none"
    OBVIOUS
  <2> USE DEF IInv, Types, HandlerTypes, RecordTypes
  <2>1. ASSUME NEW s \in Requests, Receive(s) \/ Handle(s) \/ Record(s) \/ LinkBreaks(s)
        PROVE  job'[r] # "none"
    <3>1. CASE Receive(s) \/ Refuse(s) \/ Route(s) \/ Respond(s) \/ LinkBreaks(s)
      BY <3>1 DEF Receive, Refuse, Route, Respond, LinkBreaks, record
    <3>2. CASE CallFails(s) \/ CallAnswers(s)
      BY <3>2 DEF CallFails, CallAnswers, Exhaust, Conclude
    <3>3. CASE Record(s)
      BY <3>3 DEF Record, Save, SaveFails, Emit, Advance, handler
    <3>4. QED  BY <2>1, <3>1, <3>2, <3>3 DEF Handle
  <2>2. ASSUME NEW c \in Candidates, Degrade(c) \/ Recover(c) PROVE job'[r] # "none"
    BY <2>2 DEF Degrade, Recover, handler, record
  <2>3. CASE Restart
    <3>1. outcome' = outcome /\ job'[r] = IF job[r] \in {"saving", "emitting"} THEN "lost" ELSE job[r]
      BY <2>3 DEF Restart
    <3>2. QED  BY <3>1
  <2>4. CASE UNCHANGED vars
    BY <2>4 DEF vars
  <2>5. QED  BY <2>1, <2>2, <2>3, <2>4 DEF Next
<1>3. IInv /\ Metered => HasWork
  <2> SUFFICES ASSUME IInv, NEW r \in Requests, stage[r] = "calling" PROVE Current(r) \in Candidates
    BY DEF HasWork
  <2>1. plan[r] \in Plans /\ failed[r] \in Nat /\ failed[r] < Len(plan[r])
    BY DEF IInv, Types, HandlerTypes, Flow
  <2>2. Len(plan[r]) \in Nat /\ \A i \in 1 .. Len(plan[r]) : plan[r][i] \in Candidates
    BY <2>1, ChainType
  <2>3. failed[r] + 1 \in 1 .. Len(plan[r])
    BY <2>1, <2>2
  <2>4. QED  BY <2>2, <2>3 DEF Current
<1>4. QED  BY <1>1, <1>2, <1>3, Invariance, PTL DEF Spec

=============================================================================
