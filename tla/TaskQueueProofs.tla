-------------------------- MODULE TaskQueueProofs --------------------------
(***************************************************************************)
(* Proofs about TaskQueue for every set of tasks and workers and any       *)
(* number of faults.  The argument: a task that was claimed has exactly    *)
(* one carrier of its work -- a worker told of its claim, a worker at      *)
(* work, a worker reporting, or a report on its way -- or none any more.   *)
(* That is why Complete, whose UPDATE has no condition on the status,      *)
(* still meets only running rows.                                          *)
(***************************************************************************)
EXTENDS TaskQueue, TLAPS

Working == {"executing", "prompting", "reporting"}

\* The shape of a polling loop at each of its places.
LoopShape ==
  \A w \in Workers :
    /\ worker[w].pc \in Holding <=> worker[w].task \in Tasks
    /\ worker[w].pc \notin {"claiming", "reporting"} => worker[w].reply = "none"
    /\ worker[w].pc = "reporting" => worker[w].outcome \in Outcome
    /\ worker[w].pc # "reporting" => worker[w].outcome = "none"

\* A worker that was told of its claim, and one at work, own the row.
Told(w) == worker[w].pc = "claiming" /\ worker[w].reply = "ok"

ToldOwns ==
  \A w \in Workers :
    Told(w) => /\ row[worker[w].task].status = "running"
               /\ row[worker[w].task].claimedBy = w
               /\ runs[worker[w].task] = 0

WorkerOwns ==
  \A w \in Workers :
    worker[w].pc \in Working =>
      /\ row[worker[w].task].claimedBy = w
      /\ runs[worker[w].task] = 1
      /\ worker[w].reply = "none" => row[worker[w].task].status = "running"
      /\ worker[w].pc = "reporting" => verdict[worker[w].task] = worker[w].outcome

\* A report on its way carries the verdict of work nobody does any more.
LateReports ==
  \A m \in late :
    m.op = "complete" =>
      /\ row[m.task].status = "running"
      /\ row[m.task].claimedBy \in Workers
      /\ runs[m.task] = 1
      /\ verdict[m.task] = m.outcome
      /\ \A w \in Workers : worker[w].task = m.task => worker[w].pc \notin Working
      /\ \A n \in late : n.op = "complete" /\ n.task = m.task => n = m

\* Before a claim nothing has happened to a task; after the report all has.
RowHistory ==
  \A t \in Tasks :
    /\ runs[t] \in {0, 1}
    /\ row[t].status \in {"absent", "pending"} => runs[t] = 0 /\ row[t].claimedBy = NoWorker
    /\ row[t].status \notin {"absent", "pending"} => row[t].claimedBy \in Workers
    /\ row[t].status \in Outcome => runs[t] = 1 /\ verdict[t] = row[t].status

IInv == TypeOK /\ LoopShape /\ ToldOwns /\ WorkerOwns /\ LateReports /\ RowHistory

-----------------------------------------------------------------------------
(* The invariant is inductive: one lemma per action. *)

LEMMA InitInv == Init => IInv
BY FaultsAssumption, TasksAssumption
DEF Init, IInv, TypeOK, LoopShape, ToldOwns, WorkerOwns, LateReports, RowHistory, Row, Loop,
    Holding, Request, Outcome, IdleLoop, Told, Working

LEMMA CreateInv == ASSUME NEW t \in Tasks, IInv, Create(t) PROVE IInv'
<1> USE TasksAssumption, WorkerAssumption, FaultsAssumption
        DEF IInv, Row, Loop, Holding, Outcome, IdleLoop, Told, Working
<1>1. TypeOK'
  BY DEF TypeOK, LoopShape, Create
<1>2. LoopShape'
  BY DEF TypeOK, LoopShape, Create
<1>3. ToldOwns'
  BY DEF TypeOK, LoopShape, ToldOwns, WorkerOwns, LateReports, RowHistory, Create
<1>4. WorkerOwns'
  BY DEF TypeOK, LoopShape, ToldOwns, WorkerOwns, LateReports, RowHistory, Create
<1>5. LateReports'
  BY DEF TypeOK, Request, LoopShape, ToldOwns, WorkerOwns, LateReports, RowHistory, Create
<1>6. RowHistory'
  BY DEF TypeOK, Request, LoopShape, ToldOwns, WorkerOwns, LateReports, RowHistory, Create
<1>7. QED  BY <1>1, <1>2, <1>3, <1>4, <1>5, <1>6

LEMMA HandleClaimInv == ASSUME NEW w \in Workers, IInv, HandleClaim(w) PROVE IInv'
<1> USE TasksAssumption, WorkerAssumption, FaultsAssumption
        DEF IInv, Row, Loop, Holding, Outcome, IdleLoop, Told, Working
<1> DEFINE t == worker[w].task
<1>1. /\ t \in Tasks /\ worker[w].pc = "claiming" /\ worker[w].reply = "none"
      /\ UNCHANGED <<late, runs, verdict>>
  BY DEF HandleClaim, LoopShape
<1>2. PICK r \in {"ok", "refused"} :
        /\ worker' = [worker EXCEPT ![w].reply = r]
        /\ row' = ClaimRow(t, w) \/ row' = row
        /\ r = "ok" => Claimable(t) /\ row' = ClaimRow(t, w)
  BY DEF HandleClaim, StatementFails
<1>3. struck' \subseteq Tasks \X Workers /\ faults' \in 0 .. MaxFaults
  BY <1>1 DEF HandleClaim, StatementFails, TypeOK
<1> HIDE DEF t
<1>4. /\ \A u \in Tasks \ {t} : row'[u] = row[u]
      /\ \/ row'[t] = row[t]
         \/ Claimable(t) /\ row'[t] = [status |-> "running", claimedBy |-> w]
      /\ r = "ok" => Claimable(t) /\ row'[t] = [status |-> "running", claimedBy |-> w]
  BY <1>1, <1>2 DEF ClaimRow, TypeOK
<1>5. TypeOK'
  <2>1. worker' \in [Workers -> Loop]
    BY <1>2 DEF TypeOK
  <2>2. row' \in [Tasks -> Row]
    BY <1>1, <1>2 DEF TypeOK, ClaimRow
  <2>3. QED  BY <1>1, <1>3, <2>1, <2>2 DEF TypeOK
<1>6. LoopShape'
  BY <1>1, <1>2 DEF TypeOK, LoopShape
<1>7. Claimable(t) => runs[t] = 0 /\ row[t].claimedBy = NoWorker
  BY <1>1 DEF RowHistory, Claimable
<1>8. ToldOwns' /\ WorkerOwns'
  BY <1>1, <1>2, <1>4, <1>7 DEF TypeOK, LoopShape, ToldOwns, WorkerOwns, Claimable, t
<1>9. LateReports'
  BY <1>1, <1>2, <1>4 DEF TypeOK, Request, LateReports, Claimable
<1>10. RowHistory'
  BY <1>1, <1>4, <1>7 DEF RowHistory
<1>11. QED  BY <1>5, <1>6, <1>8, <1>9, <1>10

LEMMA HandleCompleteInv == ASSUME NEW w \in Workers, IInv, HandleComplete(w) PROVE IInv'
<1> USE TasksAssumption, WorkerAssumption, FaultsAssumption
        DEF IInv, Row, Loop, Holding, Outcome, IdleLoop, Told, Working
<1> DEFINE t == worker[w].task
           o == worker[w].outcome
<1>1. /\ t \in Tasks /\ o \in Outcome
      /\ worker[w].pc = "reporting" /\ worker[w].reply = "none"
      /\ UNCHANGED <<late, runs, verdict>>
  BY DEF HandleComplete, LoopShape
<1>2. PICK r \in {"ok", "refused"} :
        /\ worker' = [worker EXCEPT ![w].reply = r]
        /\ row' = CompleteRow(t, o) \/ row' = row
  BY DEF HandleComplete, StatementFails
<1>3. struck' \subseteq Tasks \X Workers /\ faults' \in 0 .. MaxFaults
  BY <1>1 DEF HandleComplete, StatementFails, TypeOK
<1>4. row[t].claimedBy = w /\ runs[t] = 1 /\ verdict[t] = o
  BY <1>1 DEF WorkerOwns
<1> HIDE DEF t, o
<1>5. /\ \A u \in Tasks \ {t} : row'[u] = row[u]
      /\ (row'[t] = row[t] \/ row'[t].status = o)
      /\ row'[t].claimedBy = w
  BY <1>1, <1>2, <1>4 DEF CompleteRow, TypeOK
<1>6. TypeOK'
  <2>1. worker' \in [Workers -> Loop]
    BY <1>2 DEF TypeOK
  <2>2. row' \in [Tasks -> Row]
    BY <1>1, <1>2 DEF TypeOK, CompleteRow
  <2>3. QED  BY <1>1, <1>3, <2>1, <2>2 DEF TypeOK
<1>7. LoopShape'
  BY <1>1, <1>2 DEF TypeOK, LoopShape
<1>8. ToldOwns' /\ WorkerOwns'
  BY <1>1, <1>2, <1>4, <1>5 DEF TypeOK, LoopShape, ToldOwns, WorkerOwns, t
<1>9. LateReports'
  <2>1. \A m \in late : m.op = "complete" => m.task # t
    BY <1>1 DEF LateReports, t
  <2>2. QED  BY <1>1, <1>2, <1>5, <2>1 DEF TypeOK, Request, LateReports
<1>10. RowHistory'
  BY <1>1, <1>4, <1>5 DEF RowHistory
<1>11. QED  BY <1>6, <1>7, <1>8, <1>9, <1>10

LEMMA HandleLateInv == ASSUME NEW m \in late, IInv, HandleLate(m) PROVE IInv'
<1> USE TasksAssumption, WorkerAssumption, FaultsAssumption
        DEF IInv, Row, Loop, Holding, Outcome, IdleLoop, Told, Working
<1>1. TypeOK'
  BY DEF TypeOK, LoopShape, HandleLate, ClaimRow, Claimable, CompleteRow, Request
<1>2. LoopShape'
  BY DEF TypeOK, LoopShape, HandleLate, ClaimRow, Claimable, CompleteRow, Request
<1>3. ToldOwns'
  BY DEF TypeOK, LoopShape, ToldOwns, WorkerOwns, LateReports, RowHistory, HandleLate, ClaimRow, Claimable, CompleteRow, Request
<1>4. WorkerOwns'
  BY DEF TypeOK, LoopShape, ToldOwns, WorkerOwns, LateReports, RowHistory, HandleLate, ClaimRow, Claimable, CompleteRow, Request
<1>5. LateReports'
  BY DEF TypeOK, Request, LoopShape, ToldOwns, WorkerOwns, LateReports, RowHistory, HandleLate, ClaimRow, Claimable, CompleteRow, Request
<1>6. RowHistory'
  BY DEF TypeOK, Request, LoopShape, ToldOwns, WorkerOwns, LateReports, RowHistory, HandleLate, ClaimRow, Claimable, CompleteRow, Request
<1>7. QED  BY <1>1, <1>2, <1>3, <1>4, <1>5, <1>6

LEMMA LoseInv == ASSUME NEW m \in late, IInv, Lose(m) PROVE IInv'
<1> USE TasksAssumption, WorkerAssumption, FaultsAssumption
        DEF IInv, Row, Loop, Holding, Outcome, IdleLoop, Told, Working
<1>1. TypeOK'
  BY DEF TypeOK, LoopShape, Lose
<1>2. LoopShape'
  BY DEF TypeOK, LoopShape, Lose
<1>3. ToldOwns'
  BY DEF TypeOK, LoopShape, ToldOwns, WorkerOwns, LateReports, RowHistory, Lose
<1>4. WorkerOwns'
  BY DEF TypeOK, LoopShape, ToldOwns, WorkerOwns, LateReports, RowHistory, Lose
<1>5. LateReports'
  BY DEF TypeOK, Request, LoopShape, ToldOwns, WorkerOwns, LateReports, RowHistory, Lose
<1>6. RowHistory'
  BY DEF TypeOK, Request, LoopShape, ToldOwns, WorkerOwns, LateReports, RowHistory, Lose
<1>7. QED  BY <1>1, <1>2, <1>3, <1>4, <1>5, <1>6

LEMMA FetchInv == ASSUME NEW w \in Workers, IInv, Fetch(w) PROVE IInv'
<1> USE TasksAssumption, WorkerAssumption, FaultsAssumption
        DEF IInv, Row, Loop, Holding, Outcome, IdleLoop, Told, Working
<1>1. TypeOK'
  <2>1. PICK t \in Tasks :
          worker' = [worker EXCEPT ![w] =
            [pc |-> "fetched", task |-> t, reply |-> "none", outcome |-> "none"]]
    BY ZenonT(30) DEF Fetch, Listed
  <2> DEFINE l == [pc |-> "fetched", task |-> t, reply |-> "none", outcome |-> "none"]
  <2>2. l \in Loop
    OBVIOUS
  <2> HIDE DEF l
  <2>3. worker \in [Workers -> Loop] /\ worker' = [worker EXCEPT ![w] = l]
    BY <2>1 DEF TypeOK, l
  <2>4. worker' \in [Workers -> Loop]
    BY <2>2, <2>3, Zenon
  <2>5. QED  BY <2>4 DEF TypeOK, Fetch
<1>2. LoopShape'
  BY DEF TypeOK, LoopShape, Fetch, Listed
<1>3. ToldOwns'
  BY DEF TypeOK, LoopShape, ToldOwns, WorkerOwns, LateReports, RowHistory, Fetch, Listed
<1>4. WorkerOwns'
  BY DEF TypeOK, LoopShape, ToldOwns, WorkerOwns, LateReports, RowHistory, Fetch, Listed
<1>5. LateReports'
  BY DEF TypeOK, Request, LoopShape, ToldOwns, WorkerOwns, LateReports, RowHistory, Fetch, Listed
<1>6. RowHistory'
  BY DEF TypeOK, Request, LoopShape, ToldOwns, WorkerOwns, LateReports, RowHistory, Fetch, Listed
<1>7. QED  BY <1>1, <1>2, <1>3, <1>4, <1>5, <1>6

LEMMA SendClaimInv == ASSUME NEW w \in Workers, IInv, SendClaim(w) PROVE IInv'
<1> USE TasksAssumption, WorkerAssumption, FaultsAssumption
        DEF IInv, Row, Loop, Holding, Outcome, IdleLoop, Told, Working
<1>1. TypeOK'
  BY DEF TypeOK, LoopShape, SendClaim
<1>2. LoopShape'
  BY DEF TypeOK, LoopShape, SendClaim
<1>3. ToldOwns'
  BY DEF TypeOK, LoopShape, ToldOwns, WorkerOwns, LateReports, RowHistory, SendClaim
<1>4. WorkerOwns'
  BY DEF TypeOK, LoopShape, ToldOwns, WorkerOwns, LateReports, RowHistory, SendClaim
<1>5. LateReports'
  BY DEF TypeOK, Request, LoopShape, ToldOwns, WorkerOwns, LateReports, RowHistory, SendClaim
<1>6. RowHistory'
  BY DEF TypeOK, Request, LoopShape, ToldOwns, WorkerOwns, LateReports, RowHistory, SendClaim
<1>7. QED  BY <1>1, <1>2, <1>3, <1>4, <1>5, <1>6

\* What the two steps do that change several fields of a loop.
Becomes(w, pc, outcome) ==
  /\ worker' \in [Workers -> Loop]
  /\ \A v \in Workers \ {w} : worker'[v] = worker[v]
  /\ worker'[w].pc = pc
  /\ worker'[w].task = worker[w].task
  /\ worker'[w].reply = "none"
  /\ worker'[w].outcome = outcome

Heard(w) ==
  /\ worker[w].pc = "claiming"
  /\ worker[w].task \in Tasks
  /\ \/ worker[w].reply = "ok" /\ Becomes(w, "executing", "none")
     \/ /\ worker[w].reply = "refused"
        /\ worker' = [worker EXCEPT ![w] = IdleLoop]
        /\ runs' = runs

Ended(w, o) ==
  /\ worker[w].pc \in {"executing", "prompting"}
  /\ worker[w].task \in Tasks
  /\ worker[w].reply = "none"
  /\ Becomes(w, "reporting", o)
  /\ verdict' = [verdict EXCEPT ![worker[w].task] = o]
  /\ UNCHANGED <<row, late, runs, struck, faults>>

LEMMA ClaimHeard ==
  ASSUME TypeOK, LoopShape, NEW w \in Workers, ClaimAnswered(w) PROVE Heard(w)
<1>1. worker[w] \in Loop /\ worker[w].outcome = "none" /\ worker[w].pc = "claiming"
  BY DEF TypeOK, LoopShape, ClaimAnswered
<1>2. worker[w].task \in Tasks
  BY <1>1 DEF LoopShape, Holding
<1>3. CASE worker[w].reply = "ok"
  <2> DEFINE l == [worker[w] EXCEPT !.pc = "executing", !.reply = "none"]
  <2>1. l \in Loop /\ l.pc = "executing" /\ l.task = worker[w].task
        /\ l.reply = "none" /\ l.outcome = "none"
    BY <1>1 DEF Loop, Holding
  <2>2. worker' = [worker EXCEPT ![w] = l]
    BY <1>3 DEF ClaimAnswered
  <2> HIDE DEF l
  <2>3. Becomes(w, "executing", "none")
    BY <2>1, <2>2 DEF Becomes, TypeOK
  <2>4. QED  BY <1>1, <1>2, <1>3, <2>3 DEF Heard
<1>4. CASE worker[w].reply # "ok"
  BY <1>1, <1>2, <1>4 DEF ClaimAnswered, Heard
<1>5. QED  BY <1>3, <1>4

LEMMA WorkEnds ==
  ASSUME TypeOK, LoopShape, NEW w \in Workers, Execute(w) \/ AnswerPrompt(w)
  PROVE  \E o \in Outcome : Ended(w, o)
<1>1. PICK o \in Outcome : worker[w].pc \in {"executing", "prompting"} /\ EndWork(w, o)
  BY DEF Execute, AnswerPrompt
<1> DEFINE l == [worker[w] EXCEPT !.pc = "reporting", !.outcome = o]
<1>2. worker[w] \in Loop /\ worker[w].reply = "none" /\ worker[w].task \in Tasks
  BY <1>1 DEF TypeOK, LoopShape, Holding
<1>3. l \in Loop /\ l.pc = "reporting" /\ l.task = worker[w].task
      /\ l.reply = "none" /\ l.outcome = o
  BY <1>2 DEF Loop, Holding
<1>4. worker' = [worker EXCEPT ![w] = l]
  BY <1>1 DEF EndWork
<1> HIDE DEF l
<1>5. Becomes(w, "reporting", o)
  BY <1>3, <1>4 DEF Becomes, TypeOK
<1>6. QED  BY <1>1, <1>2, <1>5 DEF EndWork, Ended

LEMMA ClaimAnsweredInv == ASSUME NEW w \in Workers, IInv, ClaimAnswered(w) PROVE IInv'
<1> USE TasksAssumption, WorkerAssumption DEF IInv, Row, Loop, Holding, Outcome, IdleLoop, Told, Working
<1> DEFINE t == worker[w].task
<1>1. t \in Tasks /\ UNCHANGED <<row, late, verdict, struck, faults>>
  BY DEF LoopShape, ClaimAnswered
<1>2. CASE worker[w].reply = "ok"
  <2>1. /\ runs' = [runs EXCEPT ![t] = @ + 1]
        /\ Told(w)
    BY <1>2 DEF ClaimAnswered
  <2>2. runs[t] = 0 /\ row[t].status = "running" /\ row[t].claimedBy = w
    BY <2>1 DEF ToldOwns
  <2>10. /\ worker' \in [Workers -> Loop]
         /\ \A v \in Workers \ {w} : worker'[v] = worker[v]
         /\ worker'[w].pc = "executing" /\ worker'[w].task = t
         /\ worker'[w].reply = "none" /\ worker'[w].outcome = "none"
    BY <1>2, ClaimHeard DEF Heard, Becomes
  <2> HIDE DEF t
  <2>3. runs' = [runs EXCEPT ![t] = 1]
    BY <2>1, <2>2
  <2>4. TypeOK'
    BY <1>1, <2>10, <2>3 DEF TypeOK
  <2>5. LoopShape'
    BY <1>1, <2>10 DEF TypeOK, LoopShape, t
  <2>6. ToldOwns' /\ WorkerOwns'
    <3>1. \A v \in Workers \ {w} : worker[v].pc \in Working => worker[v].task # t
      BY <2>2 DEF WorkerOwns
    <3>3. \A v \in Workers \ {w} : Told(v) => worker[v].task # t
      <4>1. \A v \in Workers : Told(v) => row[worker[v].task].claimedBy = v
        BY DEF ToldOwns
      <4>2. row[t].claimedBy = w
        BY <2>2
      <4>3. QED  BY <4>1, <4>2
    <3>4. ToldOwns'
      BY <1>1, <2>10, <2>2, <2>3, <3>3 DEF TypeOK, LoopShape, ToldOwns
    <3>2. QED  BY <1>1, <2>10, <2>2, <2>3, <3>1, <3>4 DEF TypeOK, LoopShape, WorkerOwns
  <2>7. LateReports'
    <3>1. \A m \in late : m.op = "complete" => m.task # t
      BY <2>2 DEF LateReports
    <3>2. QED  BY <1>1, <2>10, <2>3, <3>1 DEF TypeOK, Request, LateReports, t
  <2>8. RowHistory'
    BY <1>1, <2>2, <2>3 DEF TypeOK, RowHistory
  <2>9. QED  BY <2>4, <2>5, <2>6, <2>7, <2>8
<1>3. CASE worker[w].reply # "ok"
  <2>1. worker' = [worker EXCEPT ![w] = IdleLoop] /\ UNCHANGED runs
    BY <1>3 DEF ClaimAnswered
  <2>2. TypeOK'
    <3>1. worker' \in [Workers -> Loop]
      BY <2>1 DEF TypeOK
    <3>2. QED  BY <1>1, <2>1, <3>1 DEF TypeOK
  <2>6. LoopShape'
    BY <1>1, <2>1 DEF TypeOK, LoopShape
  <2>3. ToldOwns' /\ WorkerOwns'
    BY <1>1, <2>1 DEF TypeOK, LoopShape, ToldOwns, WorkerOwns
  <2>4. LateReports' /\ RowHistory'
    BY <1>1, <2>1 DEF TypeOK, LoopShape, LateReports, RowHistory
  <2>5. QED  BY <2>2, <2>3, <2>4, <2>6
<1>4. QED  BY <1>2, <1>3

LEMMA PromptInv == ASSUME NEW w \in Workers, IInv, Prompt(w) PROVE IInv'
<1> USE TasksAssumption, WorkerAssumption, FaultsAssumption
        DEF IInv, Row, Loop, Holding, Outcome, IdleLoop, Told, Working
<1>1. TypeOK'
  BY DEF TypeOK, LoopShape, Prompt
<1>2. LoopShape'
  BY DEF TypeOK, LoopShape, Prompt
<1>3. ToldOwns'
  BY DEF TypeOK, LoopShape, ToldOwns, WorkerOwns, LateReports, RowHistory, Prompt
<1>4. WorkerOwns'
  BY DEF TypeOK, LoopShape, ToldOwns, WorkerOwns, LateReports, RowHistory, Prompt
<1>5. LateReports'
  BY DEF TypeOK, Request, LoopShape, ToldOwns, WorkerOwns, LateReports, RowHistory, Prompt
<1>6. RowHistory'
  BY DEF TypeOK, Request, LoopShape, ToldOwns, WorkerOwns, LateReports, RowHistory, Prompt
<1>7. QED  BY <1>1, <1>2, <1>3, <1>4, <1>5, <1>6

LEMMA ExecuteInv ==
  ASSUME NEW w \in Workers, IInv, Execute(w) \/ AnswerPrompt(w) PROVE IInv'
<1> USE TasksAssumption, WorkerAssumption
        DEF IInv, Row, Loop, Holding, Outcome, IdleLoop, Told, Working
<1>1. PICK o \in Outcome :
        /\ worker' \in [Workers -> Loop]
        /\ \A v \in Workers \ {w} : worker'[v] = worker[v]
        /\ worker[w].pc \in {"executing", "prompting"} /\ worker[w].reply = "none"
        /\ worker'[w].pc = "reporting" /\ worker'[w].task = worker[w].task
        /\ worker'[w].reply = "none" /\ worker'[w].outcome = o
        /\ verdict' = [verdict EXCEPT ![worker[w].task] = o]
        /\ UNCHANGED <<row, late, runs, struck, faults>>
  BY WorkEnds DEF Ended, Becomes
<1> DEFINE t == worker[w].task
<1>2. t \in Tasks /\ row[t].status = "running" /\ row[t].claimedBy = w /\ runs[t] = 1
  BY <1>1 DEF TypeOK, LoopShape, WorkerOwns
<1>3. TypeOK'
  BY <1>1, <1>2 DEF TypeOK
<1>4. LoopShape'
  BY <1>1, <1>2 DEF LoopShape
<1> HIDE DEF t
<1>5. \A v \in Workers \ {w} : worker[v].pc \in Working => worker[v].task # t
  BY <1>2 DEF WorkerOwns
<1>6. ToldOwns' /\ WorkerOwns'
  <2>1. ToldOwns'
    BY <1>1 DEF ToldOwns
  <2>2. \A v \in Workers : worker[v].task \in Tasks \ {t} => verdict'[worker[v].task] = verdict[worker[v].task]
    BY <1>1, <1>2 DEF TypeOK, t
  <2>3. verdict'[t] = o
    BY <1>1, <1>2 DEF TypeOK, t
  <2>4. \A v \in Workers : worker[v].pc \in Working => worker[v].task \in Tasks
    BY DEF LoopShape
  <2>5. WorkerOwns'
    BY <1>1, <1>2, <1>5, <2>2, <2>3, <2>4 DEF WorkerOwns, t
  <2>6. QED  BY <2>1, <2>5
<1>7. LateReports'
  <2>1. \A m \in late : m.op = "complete" => m.task \in Tasks \ {t}
    BY <1>1 DEF TypeOK, Request, LateReports, t
  <2>2. QED  BY <1>1, <2>1 DEF TypeOK, LateReports, t
<1>8. RowHistory'
  <2>1. \A u \in Tasks : u # t => verdict'[u] = verdict[u]
    BY <1>1 DEF TypeOK, t
  <2>2. QED  BY <1>1, <1>2, <2>1 DEF RowHistory
<1>9. QED  BY <1>3, <1>4, <1>6, <1>7, <1>8

LEMMA ReportAnsweredInv == ASSUME NEW w \in Workers, IInv, ReportAnswered(w) PROVE IInv'
<1> USE TasksAssumption, WorkerAssumption, FaultsAssumption
        DEF IInv, Row, Loop, Holding, Outcome, IdleLoop, Told, Working
<1>1. TypeOK'
  BY DEF TypeOK, LoopShape, ReportAnswered
<1>2. LoopShape'
  BY DEF TypeOK, LoopShape, ReportAnswered
<1>3. ToldOwns'
  BY DEF TypeOK, LoopShape, ToldOwns, WorkerOwns, LateReports, RowHistory, ReportAnswered
<1>4. WorkerOwns'
  BY DEF TypeOK, LoopShape, ToldOwns, WorkerOwns, LateReports, RowHistory, ReportAnswered
<1>5. LateReports'
  BY DEF TypeOK, Request, LoopShape, ToldOwns, WorkerOwns, LateReports, RowHistory, ReportAnswered
<1>6. RowHistory'
  BY DEF TypeOK, Request, LoopShape, ToldOwns, WorkerOwns, LateReports, RowHistory, ReportAnswered
<1>7. QED  BY <1>1, <1>2, <1>3, <1>4, <1>5, <1>6

LEMMA TimeoutInv == ASSUME NEW w \in Workers, IInv, Timeout(w) PROVE IInv'
<1> USE TasksAssumption, WorkerAssumption, FaultsAssumption
        DEF IInv, Row, Loop, Holding, Outcome, IdleLoop, Told, Working
<1>1. TypeOK'
  BY DEF TypeOK, LoopShape, Timeout, Unhandled, Request
<1>2. LoopShape'
  BY DEF TypeOK, LoopShape, Timeout, Unhandled, Request
<1>3. ToldOwns'
  BY DEF TypeOK, LoopShape, ToldOwns, WorkerOwns, LateReports, RowHistory, Timeout, Unhandled, Request
<1>4. WorkerOwns'
  BY DEF TypeOK, LoopShape, ToldOwns, WorkerOwns, LateReports, RowHistory, Timeout, Unhandled, Request
<1>5. LateReports'
  BY DEF TypeOK, Request, LoopShape, ToldOwns, WorkerOwns, LateReports, RowHistory, Timeout, Unhandled, Request
<1>6. RowHistory'
  BY DEF TypeOK, Request, LoopShape, ToldOwns, WorkerOwns, LateReports, RowHistory, Timeout, Unhandled, Request
<1>7. QED  BY <1>1, <1>2, <1>3, <1>4, <1>5, <1>6

LEMMA CrashInv == ASSUME NEW w \in Workers, IInv, Crash(w) PROVE IInv'
<1> USE TasksAssumption, WorkerAssumption, FaultsAssumption
        DEF IInv, Row, Loop, Holding, Outcome, IdleLoop, Told, Working
<1>1. TypeOK'
  BY DEF TypeOK, LoopShape, Crash, Unhandled, Request
<1>2. LoopShape'
  BY DEF TypeOK, LoopShape, Crash, Unhandled, Request
<1>3. ToldOwns'
  BY DEF TypeOK, LoopShape, ToldOwns, WorkerOwns, LateReports, RowHistory, Crash, Unhandled, Request
<1>4. WorkerOwns'
  BY DEF TypeOK, LoopShape, ToldOwns, WorkerOwns, LateReports, RowHistory, Crash, Unhandled, Request
<1>5. LateReports'
  BY DEF TypeOK, Request, LoopShape, ToldOwns, WorkerOwns, LateReports, RowHistory, Crash, Unhandled, Request
<1>6. RowHistory'
  BY DEF TypeOK, Request, LoopShape, ToldOwns, WorkerOwns, LateReports, RowHistory, Crash, Unhandled, Request
<1>7. QED  BY <1>1, <1>2, <1>3, <1>4, <1>5, <1>6

LEMMA RestartInv == ASSUME NEW w \in Workers, IInv, Restart(w) PROVE IInv'
<1> USE TasksAssumption, WorkerAssumption, FaultsAssumption
        DEF IInv, Row, Loop, Holding, Outcome, IdleLoop, Told, Working
<1>1. TypeOK'
  BY DEF TypeOK, LoopShape, Restart
<1>2. LoopShape'
  BY DEF TypeOK, LoopShape, Restart
<1>3. ToldOwns'
  BY DEF TypeOK, LoopShape, ToldOwns, WorkerOwns, LateReports, RowHistory, Restart
<1>4. WorkerOwns'
  BY DEF TypeOK, LoopShape, ToldOwns, WorkerOwns, LateReports, RowHistory, Restart
<1>5. LateReports'
  BY DEF TypeOK, Request, LoopShape, ToldOwns, WorkerOwns, LateReports, RowHistory, Restart
<1>6. RowHistory'
  BY DEF TypeOK, Request, LoopShape, ToldOwns, WorkerOwns, LateReports, RowHistory, Restart
<1>7. QED  BY <1>1, <1>2, <1>3, <1>4, <1>5, <1>6

LEMMA StutterInv == ASSUME IInv, UNCHANGED vars PROVE IInv'
BY DEF IInv, TypeOK, LoopShape, ToldOwns, Told, WorkerOwns, LateReports, RowHistory, vars

LEMMA StepInv == IInv /\ [Next]_vars => IInv'
BY CreateInv, HandleClaimInv, HandleCompleteInv, HandleLateInv, LoseInv, FetchInv,
   SendClaimInv, ClaimAnsweredInv, PromptInv, ExecuteInv,
   ReportAnsweredInv, TimeoutInv, CrashInv, RestartInv, StutterInv
DEF Next, Serve, Poll

THEOREM Inductive == Spec => []IInv
BY InitInv, StepInv, PTL DEF Spec

-----------------------------------------------------------------------------
(* What the invariant gives. *)

\* Every reachable state of the task queue is well typed.
THEOREM TypeCorrect == Spec => []TypeOK
<1>1. IInv => TypeOK
  BY DEF IInv
<1>2. QED  BY <1>1, Inductive, PTL

\* However requests are lost or delayed and workers restarted, the work of a
\* task is started at most once.
THEOREM WorkStartsAtMostOnce == Spec => []AtMostOnce
<1>1. IInv => AtMostOnce
  BY DEF IInv, RowHistory, AtMostOnce
<1>2. QED  BY <1>1, Inductive, PTL

\* The worker at work on a task is the one its row names.
THEOREM WorkIsClaimed == Spec => []ExecutorIsClaimant
<1>1. IInv => ExecutorIsClaimant
  BY DEF IInv, WorkerOwns, Working, ExecutorIsClaimant, Executing
<1>2. QED  BY <1>1, Inductive, PTL

\* The outcome in a row is the outcome of the work.
THEOREM OutcomesAreTrue == Spec => []OutcomeIsTrue
<1>1. IInv => OutcomeIsTrue
  BY DEF IInv, RowHistory, OutcomeIsTrue
<1>2. QED  BY <1>1, Inductive, PTL

-----------------------------------------------------------------------------
(* Nothing is abandoned without a fault of its own.  The strengthening: a  *)
(* running row whose worker was not struck has that worker on its way to a *)
(* report, and every request nobody waits for was struck.                  *)

Attends(w, t) ==
  /\ worker[w].task = t
  /\ \/ Told(w)
     \/ worker[w].pc \in Working /\ worker[w].reply = "none"

Attended ==
  /\ \A m \in late : <<m.task, m.from>> \in struck
  /\ \A t \in Tasks :
       row[t].status = "running" /\ ~Struck(t) => Attends(row[t].claimedBy, t)

LEMMA StruckGrows == ASSUME IInv, [Next]_vars PROVE struck \subseteq struck'
BY DEF Next, vars, Create, Serve, HandleClaim, HandleComplete, StatementFails, Poll, Fetch,
   SendClaim, ClaimAnswered, Execute, EndWork, ReportAnswered, Prompt, AnswerPrompt,
   Timeout, Crash, Restart, HandleLate, Lose

LEMMA AttendedStep == ASSUME IInv, Attended, [Next]_vars PROVE Attended'
<1>1. /\ struck \subseteq struck'
      /\ \A m \in late : <<m.task, m.from>> \in struck
      /\ \A t \in Tasks :
           row[t].status = "running" /\ ~Struck(t) => Attends(row[t].claimedBy, t)
  BY StruckGrows DEF Attended
<1>2. TypeOK /\ LoopShape /\ ToldOwns /\ WorkerOwns /\ RowHistory
  BY DEF IInv
<1> USE WorkerAssumption DEF Struck
\* Rows and late requests as they were: who attends goes on attending.
<1>3. ASSUME late' = late, row' = row,
             \A w \in Workers, t \in Tasks :
               Attends(w, t) => Attends(w, t)' \/ row[t].status # "running"
                                \/ <<t, w>> \in struck'
      PROVE  Attended'
  <2>1. \A t \in Tasks : row[t].status = "running" => row[t].claimedBy \in Workers
    BY <1>2 DEF RowHistory
  <2>2. QED  BY <1>1, <1>3, <2>1 DEF Attended, Attends, Told
<1> USE DEF Attends, Told, Working
<1>4. CASE UNCHANGED vars
  BY <1>1, <1>4 DEF vars, Attended
<1>5. ASSUME NEW t \in Tasks, Create(t) PROVE Attended'
  BY <1>1, <1>2, <1>5 DEF Create, Attended, TypeOK, Row
<1>6. ASSUME NEW w \in Workers, HandleClaim(w) PROVE Attended'
  <2> DEFINE t == worker[w].task
  <2>1. /\ t \in Tasks /\ late' = late
        /\ worker[w].pc = "claiming" /\ worker[w].reply = "none"
    BY <1>2, <1>6 DEF HandleClaim, LoopShape, Holding
  <2>2. CASE row' = ClaimRow(t, w) /\ Claimable(t)
    <3>1. worker'[w].pc = "claiming" /\ worker'[w].task = t
          /\ (worker'[w].reply = "ok" \/ <<t, w>> \in struck')
          /\ \A v \in Workers \ {w} : worker'[v] = worker[v]
      BY <1>2, <1>6, <2>1, <2>2 DEF HandleClaim, StatementFails, TypeOK, Loop
    <3>2. /\ row'[t] = [status |-> "running", claimedBy |-> w]
          /\ \A u \in Tasks \ {t} : row'[u] = row[u]
      BY <1>2, <2>1, <2>2 DEF ClaimRow, TypeOK
    <3> HIDE DEF t
    <3>3. \A u \in Tasks \ {t} : row[u].status = "running" =>
            row[u].claimedBy \in Workers /\ (Attends(row[u].claimedBy, u) => Attends(row[u].claimedBy, u)')
      BY <1>2, <2>1, <3>1, <3>2 DEF RowHistory, t
    <3>4. QED  BY <1>1, <2>1, <3>1, <3>2, <3>3 DEF Attended
  <2>3. CASE row' = row
    <3>1. \A v \in Workers : worker'[v].pc = worker[v].pc /\ worker'[v].task = worker[v].task
                            /\ (v # w => worker'[v].reply = worker[v].reply)
      BY <1>2, <1>6 DEF HandleClaim, StatementFails, TypeOK, Loop
    <3>2. QED  BY <1>3, <2>1, <2>3, <3>1
  <2>4. QED  BY <1>6, <2>2, <2>3 DEF HandleClaim, StatementFails, ClaimRow
<1>7. ASSUME NEW w \in Workers, HandleComplete(w) PROVE Attended'
  <2> DEFINE t == worker[w].task
  <2>1. /\ t \in Tasks /\ late' = late
        /\ worker[w].outcome \in Outcome /\ row[t].claimedBy = w
    BY <1>2, <1>7 DEF HandleComplete, LoopShape, Holding, WorkerOwns
  <2>2. /\ \A v \in Workers \ {w} : worker'[v] = worker[v]
        /\ \A u \in Tasks \ {t} : row'[u] = row[u]
    BY <1>2, <1>7, <2>1
    DEF HandleComplete, StatementFails, CompleteRow, TypeOK
  <2>3. row'[t].status # "running" \/ (<<t, w>> \in struck' /\ row'[t].claimedBy = w)
    BY <1>2, <1>7, <2>1
    DEF HandleComplete, StatementFails, CompleteRow, TypeOK, Row, Outcome
  <2> HIDE DEF t
  <2>4. \A u \in Tasks \ {t} : row[u].status = "running" =>
          row[u].claimedBy \in Workers /\ (Attends(row[u].claimedBy, u) => Attends(row[u].claimedBy, u)')
    BY <1>2, <2>1, <2>2 DEF RowHistory, t
  <2>5. QED  BY <1>1, <2>1, <2>2, <2>3, <2>4 DEF Attended
<1>8. ASSUME NEW w \in Workers, Fetch(w) PROVE Attended'
  <2>1. /\ late' = late /\ row' = row /\ worker[w].pc = "idle"
        /\ \A v \in Workers \ {w} : worker'[v] = worker[v]
    BY <1>2, <1>8 DEF Fetch, TypeOK
  <2>2. QED  BY <1>3, <2>1
<1>9. ASSUME NEW w \in Workers, SendClaim(w) PROVE Attended'
  <2>1. /\ late' = late /\ row' = row /\ worker[w].pc = "fetched"
        /\ \A v \in Workers \ {w} : worker'[v] = worker[v]
    BY <1>2, <1>9 DEF SendClaim, TypeOK
  <2>2. QED  BY <1>3, <2>1
<1>10. ASSUME NEW w \in Workers, ClaimAnswered(w) PROVE Attended'
  <2>1. /\ late' = late /\ row' = row /\ worker[w].pc = "claiming"
        /\ \A v \in Workers \ {w} : worker'[v] = worker[v]
    BY <1>2, <1>10 DEF ClaimAnswered, TypeOK
  <2>2. Told(w) => /\ worker'[w].task = worker[w].task
                   /\ worker'[w].pc = "executing" /\ worker'[w].reply = "none"
    BY <1>2, <1>10, ClaimHeard DEF Heard, Becomes
  <2>3. QED  BY <1>3, <2>1, <2>2
<1>11. ASSUME NEW w \in Workers, Prompt(w) PROVE Attended'
  <2>1. /\ late' = late /\ row' = row
        /\ \A v \in Workers : worker'[v].task = worker[v].task /\ worker'[v].reply = worker[v].reply
        /\ \A v \in Workers \ {w} : worker'[v] = worker[v]
        /\ worker[w].pc = "executing" /\ worker'[w].pc = "prompting"
    BY <1>2, <1>11 DEF Prompt, TypeOK, Loop
  <2>2. QED  BY <1>3, <2>1
<1>12. ASSUME NEW w \in Workers, Execute(w) \/ AnswerPrompt(w) PROVE Attended'
  <2>1. /\ \A v \in Workers \ {w} : worker'[v] = worker[v]
        /\ worker[w].pc \in {"executing", "prompting"} /\ worker[w].reply = "none"
        /\ worker'[w].task = worker[w].task /\ worker'[w].pc = "reporting"
        /\ worker'[w].reply = "none"
        /\ row' = row /\ late' = late
    <3>1. PICK o \in Outcome : Ended(w, o)
      BY <1>2, <1>12, WorkEnds
    <3>2. QED  BY <3>1 DEF Ended, Becomes
  <2>2. QED  BY <1>3, <2>1
<1>13. ASSUME NEW w \in Workers, ReportAnswered(w) PROVE Attended'
  <2>1. /\ late' = late /\ row' = row /\ worker[w].pc = "reporting" /\ worker[w].reply # "none"
        /\ \A v \in Workers \ {w} : worker'[v] = worker[v]
    BY <1>2, <1>13 DEF ReportAnswered, TypeOK
  <2>2. QED  BY <1>3, <2>1
<1>14. ASSUME NEW w \in Workers, Timeout(w) \/ Crash(w) PROVE Attended'
  <2>1. /\ late' = late \cup Unhandled(w) /\ row' = row
        /\ \A v \in Workers \ {w} : worker'[v] = worker[v]
    BY <1>2, <1>14 DEF Timeout, Crash, TypeOK
  <2>2. worker[w].pc \in Holding => <<worker[w].task, w>> \in struck'
    BY <1>14 DEF Timeout, Crash, Holding
  <2>3. \A m \in Unhandled(w) : <<m.task, m.from>> \in struck'
    BY <2>2 DEF Unhandled, Holding
  <2>4. \A m \in late' : <<m.task, m.from>> \in struck'
    BY <1>1, <2>1, <2>3
  <2>5. \A v \in Workers, t \in Tasks : Attends(v, t) => Attends(v, t)' \/ <<t, v>> \in struck'
    BY <2>1, <2>2 DEF Holding
  <2>6. \A t \in Tasks : row[t].status = "running" => row[t].claimedBy \in Workers
    BY <1>2 DEF RowHistory
  <2>7. QED  BY <1>1, <2>1, <2>4, <2>5, <2>6 DEF Attended
<1>15. ASSUME NEW w \in Workers, Restart(w) PROVE Attended'
  <2>1. /\ late' = late /\ row' = row /\ worker[w].pc = "down"
        /\ \A v \in Workers \ {w} : worker'[v] = worker[v]
    BY <1>2, <1>15 DEF Restart, TypeOK
  <2>2. QED  BY <1>3, <2>1
<1>16. ASSUME NEW m \in late, HandleLate(m) \/ Lose(m) PROVE Attended'
  <2>1. /\ late' \subseteq late /\ worker' = worker /\ struck' = struck /\ m \in Request
        /\ <<m.task, m.from>> \in struck
    BY <1>1, <1>2, <1>16 DEF HandleLate, Lose, TypeOK
  <2>2. \A t \in Tasks :
          \/ row'[t] = row[t]
          \/ row'[t].status # "running"
          \/ t = m.task /\ row'[t].claimedBy = m.from
    BY <1>2, <1>16, <2>1
    DEF HandleLate, Lose, ClaimRow, CompleteRow, TypeOK, Row, Request, Outcome
  <2>3. QED  BY <1>1, <2>1, <2>2 DEF Attended
<1>17. QED
  BY <1>4, <1>5, <1>6, <1>7, <1>8, <1>9, <1>10, <1>11, <1>12, <1>13, <1>14, <1>15,
     <1>16 DEF Next, Serve, Poll

\* A task is orphaned by a fault of its own worker alone -- a request of that
\* worker for that task that timed out or whose statement failed, or that
\* worker killed while it held the task.  However many other faults happen,
\* every other running task has its worker on the way to a report.
THEOREM FaultsAloneOrphan == Spec => []NoOrphanWithoutFault
<1>1. Init => Attended
  BY DEF Init, Attended
<1>2. IInv /\ Attended /\ [Next]_vars => Attended'
  BY AttendedStep
<1>3. IInv /\ Attended => NoOrphanWithoutFault
  BY DEF IInv, RowHistory, Attended, NoOrphanWithoutFault, Orphan, Attends, Told, Working
<1>4. QED  BY <1>1, <1>2, <1>3, Inductive, PTL DEF Spec

-----------------------------------------------------------------------------
(* Refinement. *)

\* Every step of the queue is a step of the lifecycle, or does not touch it.
LEMMA LifecycleStep == ASSUME IInv, [Next]_vars
                       PROVE  [Lifecycle!Next]_<<[t \in Tasks |-> row[t].status],
                                                 [t \in Tasks |-> row[t].claimedBy]>>
<1> DEFINE st == [t \in Tasks |-> row[t].status]
           ow == [t \in Tasks |-> row[t].claimedBy]
<1>1. CASE UNCHANGED row
  BY <1>1
<1>2. ASSUME NEW t \in Tasks, row[t].status = "absent",
             row' = [row EXCEPT ![t].status = "pending"]
      PROVE  Lifecycle!Next
  <2>1. Lifecycle!Submit(t)
    BY <1>2 DEF Lifecycle!Submit, IInv, TypeOK, Row
  <2>2. QED  BY <2>1 DEF Lifecycle!Next
<1>3. ASSUME NEW t \in Tasks, NEW w \in Workers, row' = ClaimRow(t, w)
      PROVE  Lifecycle!Next \/ UNCHANGED row
  <2>1. CASE Claimable(t)
    <3>1. Lifecycle!Assign(t, w)
      BY <1>3, <2>1 DEF Lifecycle!Assign, ClaimRow, Claimable, IInv, TypeOK, Row
    <3>2. QED  BY <3>1 DEF Lifecycle!Next
  <2>2. CASE ~Claimable(t)
    BY <1>3, <2>2 DEF ClaimRow
  <2>3. QED  BY <2>1, <2>2
<1>4. ASSUME NEW t \in Tasks, NEW o \in Outcome, row[t].status = "running",
             row' = CompleteRow(t, o)
      PROVE  Lifecycle!Next
  <2>1. Lifecycle!Settle(t, o)
    BY <1>4 DEF Lifecycle!Settle, CompleteRow, IInv, TypeOK, Row
  <2>2. QED  BY <2>1 DEF Lifecycle!Next, Lifecycle!Outcome, Outcome
<1>5. ASSUME NEW t \in Tasks, Create(t) PROVE Lifecycle!Next
  BY <1>2, <1>5 DEF Create
<1>6. ASSUME NEW w \in Workers, HandleClaim(w) PROVE Lifecycle!Next \/ UNCHANGED row
  BY <1>3, <1>6 DEF HandleClaim, StatementFails, IInv, LoopShape, Holding
<1>7. ASSUME NEW w \in Workers, HandleComplete(w) PROVE Lifecycle!Next \/ UNCHANGED row
  <2>1. /\ worker[w].task \in Tasks /\ worker[w].outcome \in Outcome
        /\ row[worker[w].task].status = "running"
    BY <1>7 DEF HandleComplete, IInv, LoopShape, Holding, WorkerOwns, Working
  <2>2. row' = row \/ row' = CompleteRow(worker[w].task, worker[w].outcome)
    BY <1>7 DEF HandleComplete, StatementFails
  <2>3. QED  BY <1>4, <2>1, <2>2
<1>8. ASSUME NEW m \in late, HandleLate(m) PROVE Lifecycle!Next \/ UNCHANGED row
  <2>1. m \in Request
    BY DEF IInv, TypeOK
  <2>2. CASE m.op = "claim"
    BY <1>3, <1>8, <2>1, <2>2 DEF HandleLate, Request
  <2>3. CASE m.op = "complete"
    <3>1. m.task \in Tasks /\ m.outcome \in Outcome /\ row[m.task].status = "running"
      BY <2>1, <2>3 DEF Request, IInv, LateReports
    <3>2. QED  BY <1>4, <1>8, <2>3, <3>1 DEF HandleLate
  <2>4. QED  BY <2>1, <2>2, <2>3 DEF Request
<1>9. CASE Next
  BY <1>1, <1>5, <1>6, <1>7, <1>8, <1>9
  DEF Next, Serve, Poll, Fetch, SendClaim, ClaimAnswered, Execute, EndWork, ReportAnswered,
      Prompt, AnswerPrompt, Timeout, Crash, Restart, Lose
<1>10. QED  BY <1>1, <1>9 DEF vars

\* The task queue implements the lifecycle: no task is assigned twice,
\* changes hands, or leaves an outcome.
THEOREM QueueImplementsLifecycle == Spec => ImplementsLifecycle
<1>1. Init => Lifecycle!Init
  BY DEF Init, Lifecycle!Init
<1>2. QED
  BY <1>1, LifecycleStep, Inductive, PTL DEF Spec, ImplementsLifecycle, Lifecycle!Spec
-----------------------------------------------------------------------------
(* The safety half of RunningIsSettled and PendingIsTaken: every poll comes *)
(* to its end or waits, and what has become an orphan stays one.            *)

LoopRank(l) ==
  CASE l.pc = "fetched"                        -> 7
    [] l.pc = "claiming" /\ l.reply = "none"   -> 6
    [] l.pc = "claiming" /\ l.reply # "none"   -> 5
    [] l.pc = "executing"                      -> 4
    [] l.pc = "prompting"                      -> 3
    [] l.pc = "reporting" /\ l.reply = "none"  -> 2
    [] l.pc = "reporting" /\ l.reply # "none"  -> 1
    [] l.pc \in {"idle", "down"}               -> 0

\* A poll that has begun goes on towards its end, and no step of the gateway,
\* of another worker or of the network takes it back.
PollsGoForward ==
  \A w \in Workers :
    worker[w].pc \in Holding =>
      /\ worker'[w] = worker[w] \/ LoopRank(worker'[w]) < LoopRank(worker[w])
      /\ Serve(w) \/ Poll(w) => LoopRank(worker'[w]) < LoopRank(worker[w])

LEMMA PollForward ==
  ASSUME IInv, NEW w \in Workers,
         \/ Serve(w) \/ Poll(w) \/ Prompt(w) \/ AnswerPrompt(w)
         \/ Timeout(w) \/ Crash(w) \/ Restart(w)
  PROVE  /\ worker[w].pc \in Holding => LoopRank(worker'[w]) < LoopRank(worker[w])
         /\ \A v \in Workers \ {w} : worker'[v] = worker[v]
<1> USE DEF IInv, TypeOK, LoopShape, Loop, Holding, LoopRank, IdleLoop
<1>1. CASE Serve(w)
  BY <1>1 DEF Serve, HandleClaim, HandleComplete, StatementFails
<1>2. CASE Fetch(w) \/ SendClaim(w)
  <2>1. CASE Fetch(w)
    <3>1. PICK u \in Listed : worker' = [worker EXCEPT ![w] = [IdleLoop EXCEPT !.pc = "fetched", !.task = u]]
      BY <2>1 DEF Fetch
    <3>2. worker[w].pc = "idle"
      BY <2>1 DEF Fetch
    <3>3. QED  BY <3>1, <3>2
  <2>2. CASE SendClaim(w)
    BY <2>2 DEF SendClaim
  <2>3. QED  BY <1>2, <2>1, <2>2
<1>3. CASE ClaimAnswered(w)
  <2>1. /\ \A v \in Workers \ {w} : worker'[v] = worker[v]
        /\ worker[w].pc = "claiming" /\ worker[w].reply \in {"ok", "refused"}
        /\ worker'[w].pc = "executing" \/ worker'[w].pc = "idle"
    BY <1>3, ClaimHeard DEF Heard, Becomes
  <2>2. QED  BY <2>1
<1>4. CASE Execute(w) \/ AnswerPrompt(w)
  <2>1. /\ \A v \in Workers \ {w} : worker'[v] = worker[v]
        /\ worker[w].pc \in {"executing", "prompting"}
        /\ worker'[w].pc = "reporting" /\ worker'[w].reply = "none"
    <3>1. PICK o \in Outcome : Ended(w, o)
      BY <1>4, WorkEnds
    <3>2. QED  BY <3>1 DEF Ended, Becomes
  <2>2. QED  BY <2>1
<1>5. CASE Prompt(w) \/ ReportAnswered(w)
  BY <1>5 DEF Prompt, ReportAnswered
<1>6. CASE Timeout(w) \/ Crash(w) \/ Restart(w)
  BY <1>6 DEF Timeout, Crash, Restart
<1>7. QED  BY <1>1, <1>2, <1>3, <1>4, <1>5, <1>6 DEF Poll

\* Every poll runs down: a worker is never kept from its next tick by
\* anything but a request without an answer or a question at the terminal.
THEOREM PollsAdvance == Spec => [][PollsGoForward]_vars
<1>1. IInv /\ [Next]_vars => [PollsGoForward]_vars
  <2> SUFFICES ASSUME IInv, Next, NEW w \in Workers, worker[w].pc \in Holding
               PROVE  /\ worker'[w] = worker[w] \/ LoopRank(worker'[w]) < LoopRank(worker[w])
                      /\ Serve(w) \/ Poll(w) => LoopRank(worker'[w]) < LoopRank(worker[w])
    BY DEF PollsGoForward
  <2>1. Serve(w) \/ Poll(w) => LoopRank(worker'[w]) < LoopRank(worker[w])
    BY PollForward
  <2>2. worker'[w] = worker[w] \/ LoopRank(worker'[w]) < LoopRank(worker[w])
    <3>1. ASSUME NEW v \in Workers,
                 \/ Serve(v) \/ Poll(v) \/ Prompt(v) \/ AnswerPrompt(v)
                 \/ Timeout(v) \/ Crash(v) \/ Restart(v)
          PROVE  worker'[w] = worker[w] \/ LoopRank(worker'[w]) < LoopRank(worker[w])
      BY <3>1, PollForward
    <3>2. ASSUME NEW t \in Tasks, Create(t) PROVE worker'[w] = worker[w]
      BY <3>2 DEF Create
    <3>3. ASSUME NEW m \in late, HandleLate(m) \/ Lose(m) PROVE worker'[w] = worker[w]
      BY <3>3 DEF HandleLate, Lose
    <3>4. QED  BY <3>1, <3>2, <3>3 DEF Next
  <2>3. QED  BY <2>1, <2>2
<1>2. QED  BY <1>1, Inductive, PTL DEF Spec

\* A running row that no worker and no report will ever settle.
Abandoned(t) ==
  /\ row[t].status = "running"
  /\ \A w \in Workers : ~Attends(w, t)
  /\ \A m \in late : ~(m.op = "complete" /\ m.task = t)

LEMMA AbandonedStays ==
  ASSUME IInv, NEW t \in Tasks, Abandoned(t), [Next]_vars PROVE Abandoned(t)'
<1>1. TypeOK /\ LoopShape
  BY DEF IInv
<1>2. row[t].status = "running" /\ \A m \in late : ~(m.op = "complete" /\ m.task = t)
  BY DEF Abandoned
<1>3. \A w \in Workers : worker[w].task = t => worker[w].pc \notin Working \/ worker[w].reply # "none"
  BY DEF Abandoned, Attends
<1>4. \A w \in Workers : worker[w].task = t => ~Told(w)
  BY DEF Abandoned, Attends
<1> USE DEF Attends, Told, Working, Abandoned
<1>5. CASE UNCHANGED vars
  BY <1>5 DEF vars
<1>6. ASSUME NEW u \in Tasks, Create(u) PROVE Abandoned(t)'
  BY <1>1, <1>6 DEF Create, TypeOK, Row
<1>7. ASSUME NEW w \in Workers, HandleClaim(w) PROVE Abandoned(t)'
  <2> DEFINE u == worker[w].task
  <2>1. /\ u \in Tasks /\ late' = late /\ worker[w].pc = "claiming"
        /\ row' = ClaimRow(u, w) \/ row' = row
    BY <1>1, <1>7 DEF HandleClaim, StatementFails, LoopShape, Holding
  <2>2. row'[t] = row[t]
    BY <1>1, <1>2, <2>1 DEF ClaimRow, Claimable, TypeOK
  <2>3. /\ \A v \in Workers \ {w} : worker'[v] = worker[v]
        /\ worker'[w].pc = "claiming" /\ worker'[w].task = u
        /\ worker'[w].reply = "ok" => Claimable(u)
    BY <1>1, <1>7, <2>1 DEF HandleClaim, StatementFails, TypeOK, Loop
  <2>4. Claimable(u) => u # t
    BY <1>2 DEF Claimable
  <2>5. QED  BY <1>2, <1>3, <1>4, <2>1, <2>2, <2>3, <2>4
<1>8. ASSUME NEW w \in Workers, HandleComplete(w) PROVE Abandoned(t)'
  <2> DEFINE u == worker[w].task
  <2>1. /\ u \in Tasks \ {t} /\ late' = late
        /\ row' = CompleteRow(u, worker[w].outcome) \/ row' = row
    BY <1>1, <1>3, <1>8 DEF HandleComplete, StatementFails, LoopShape, Holding
  <2>2. row'[t] = row[t]
    BY <1>1, <2>1 DEF CompleteRow, TypeOK
  <2>3. /\ \A v \in Workers \ {w} : worker'[v] = worker[v]
        /\ worker'[w].task = u
    BY <1>1, <1>8 DEF HandleComplete, StatementFails, TypeOK, Loop
  <2>4. QED  BY <1>2, <1>3, <1>4, <2>1, <2>2, <2>3
<1>9. ASSUME NEW w \in Workers, Fetch(w) \/ SendClaim(w) PROVE Abandoned(t)'
  <2>1. /\ row' = row /\ late' = late
        /\ \A v \in Workers \ {w} : worker'[v] = worker[v]
    BY <1>1, <1>9 DEF Fetch, SendClaim, TypeOK
  <2>2. worker'[w].pc \in {"fetched", "claiming"} /\ worker'[w].reply # "ok"
    <3>1. CASE Fetch(w)
      <4>1. PICK u \in Listed : worker' = [worker EXCEPT ![w] = [IdleLoop EXCEPT !.pc = "fetched", !.task = u]]
        BY <3>1 DEF Fetch
      <4>2. QED  BY <1>1, <4>1 DEF TypeOK, IdleLoop
    <3>2. CASE SendClaim(w)
      BY <1>1, <3>2 DEF SendClaim, TypeOK, LoopShape, Loop
    <3>3. QED  BY <1>9, <3>1, <3>2
  <2>3. QED  BY <2>1, <2>2
<1>10. ASSUME NEW w \in Workers, ClaimAnswered(w) PROVE Abandoned(t)'
  <2>1. /\ \A v \in Workers \ {w} : worker'[v] = worker[v]
        /\ worker[w].pc = "claiming" /\ worker[w].reply \in {"ok", "refused"}
        /\ worker[w].reply = "ok" => worker'[w].task = worker[w].task
        /\ worker[w].reply = "refused" => worker'[w].pc = "idle"
        /\ row' = row /\ late' = late
    <3>1. Heard(w) /\ row' = row /\ late' = late
      BY <1>1, <1>10, ClaimHeard DEF ClaimAnswered
    <3>2. QED  BY <1>1, <3>1 DEF Heard, Becomes, IdleLoop, TypeOK
  <2>2. QED  BY <1>2, <1>3, <1>4, <2>1
<1>11. ASSUME NEW w \in Workers, Prompt(w) PROVE Abandoned(t)'
  BY <1>1, <1>11 DEF Prompt, TypeOK, Loop
<1>12. ASSUME NEW w \in Workers, Execute(w) \/ AnswerPrompt(w) PROVE Abandoned(t)'
  <2>1. /\ \A v \in Workers \ {w} : worker'[v] = worker[v]
        /\ worker[w].pc \in {"executing", "prompting"} /\ worker[w].reply = "none"
        /\ worker'[w].task = worker[w].task /\ worker'[w].pc = "reporting"
        /\ row' = row /\ late' = late
    <3>1. PICK o \in Outcome : Ended(w, o)
      BY <1>1, <1>12, WorkEnds
    <3>2. QED  BY <3>1 DEF Ended, Becomes
  <2>2. QED  BY <1>2, <1>3, <1>4, <2>1
<1>13. ASSUME NEW w \in Workers, ReportAnswered(w) \/ Restart(w) PROVE Abandoned(t)'
  BY <1>1, <1>13 DEF ReportAnswered, Restart, TypeOK, Loop, IdleLoop
<1>14. ASSUME NEW w \in Workers, Timeout(w) \/ Crash(w) PROVE Abandoned(t)'
  <2>1. /\ row' = row /\ late' = late \cup Unhandled(w)
        /\ \A v \in Workers \ {w} : worker'[v] = worker[v]
        /\ worker'[w].pc \in {"idle", "down"}
    BY <1>1, <1>14 DEF Timeout, Crash, IdleLoop, TypeOK, Loop
  <2>2. \A m \in Unhandled(w) : ~(m.op = "complete" /\ m.task = t)
    BY <1>3 DEF Unhandled
  <2>3. \A m \in late' : ~(m.op = "complete" /\ m.task = t)
    BY <1>2, <2>1, <2>2
  <2>4. QED  BY <2>1, <2>3
<1>15. ASSUME NEW m \in late, HandleLate(m) \/ Lose(m) PROVE Abandoned(t)'
  <2>1. worker' = worker /\ late' = late \ {m} /\ m \in Request
    BY <1>1, <1>15 DEF HandleLate, Lose, TypeOK
  <2>2. row'[t] = row[t]
    BY <1>1, <1>2, <1>15, <2>1 DEF HandleLate, Lose, ClaimRow, Claimable, CompleteRow, TypeOK, Row, Request
  <2>3. QED  BY <2>1, <2>2
<1>16. QED
  BY <1>5, <1>6, <1>7, <1>8, <1>9, <1>10, <1>11, <1>12, <1>13, <1>14, <1>15 DEF Next, Serve, Poll

\* The queue has no lease: a task that was orphaned once says running for
\* ever, whoever polls, claims, reports or is started again.
THEOREM OrphansStay ==
  ASSUME NEW t \in Tasks
  PROVE  Spec => [](Orphan(t) => [](row[t].status = "running"))
<1>1. Orphan(t) => Abandoned(t)
  BY DEF Orphan, Abandoned, Attends, Told, Working
<1>2. IInv /\ Abandoned(t) /\ [Next]_vars => Abandoned(t)'
  BY AbandonedStays
<1>3. Abandoned(t) => row[t].status = "running"
  BY DEF Abandoned
<1>4. QED  BY <1>1, <1>2, <1>3, Inductive, PTL DEF Spec
=============================================================================
