----------------------------- MODULE TaskQueue -----------------------------
(***************************************************************************)
(* The remote task queue: the tasks table (internal/storage/postgres/      *)
(* task_repo.go) behind the /v1/tasks handlers (internal/http/handlers/    *)
(* tasks.go), and the workers that poll it: the daemon of cmd/switchyard/  *)
(* daemon.go and the background poller of an interactive chat.             *)
(*                                                                         *)
(* A worker and the gateway talk HTTP: a request is sent, handled (one SQL *)
(* statement), and answered.  The statement can fail, which the worker is  *)
(* told.  The worker may give up waiting, after which the request can      *)
(* still be handled later, unheard, or never.  A worker can be killed at   *)
(* any point and started again with nothing remembered.                    *)
(*                                                                         *)
(* All tasks belong to the one project the workers poll.                   *)
(***************************************************************************)
EXTENDS Integers, FiniteSets

CONSTANTS
  Tasks,       \* the tasks, as their created_at times
  Workers,     \* the worker processes
  NoWorker,    \* claimed_by of a task nobody claimed
  NoTask,      \* a worker that holds no task
  MaxFaults    \* bound of the model on timeouts, crashes and failed statements

ASSUME TasksAssumption  == Tasks \subseteq Nat /\ NoTask \notin Tasks
ASSUME WorkerAssumption == NoWorker \notin Workers
ASSUME FaultsAssumption == MaxFaults \in Nat

VARIABLES
  row,       \* row[t]: the row of task t in table tasks
  worker,    \* worker[w]: where the polling loop of w stands
  late,      \* requests whose sender no longer waits for the answer
  runs,      \* history: how often the work of task t was started
  verdict,   \* history: how the work of task t ended
  struck,    \* history: <<t, w>> when a fault hit w while it held task t
  faults     \* timeouts, crashes and failed statements so far

vars == <<row, worker, late, runs, verdict, struck, faults>>

Outcome == {"completed", "failed"}
Row     == [status : {"absent", "pending", "running"} \cup Outcome,
            claimedBy : Workers \cup {NoWorker}]
Request == [op : {"claim"}, task : Tasks, from : Workers, outcome : {"none"}]
             \cup [op : {"complete"}, task : Tasks, from : Workers, outcome : Outcome]
Holding == {"fetched", "claiming", "executing", "prompting", "reporting"}
Loop    == [pc : {"idle", "down"} \cup Holding, task : Tasks \cup {NoTask},
            reply : {"none", "ok", "refused"}, outcome : Outcome \cup {"none"}]

TypeOK ==
  /\ row \in [Tasks -> Row]
  /\ worker \in [Workers -> Loop]
  /\ late \subseteq Request
  /\ runs \in [Tasks -> Nat]
  /\ verdict \in [Tasks -> Outcome \cup {"none"}]
  /\ struck \subseteq Tasks \X Workers
  /\ faults \in 0 .. MaxFaults

IdleLoop == [pc |-> "idle", task |-> NoTask, reply |-> "none", outcome |-> "none"]

Init ==
  /\ row = [t \in Tasks |-> [status |-> "absent", claimedBy |-> NoWorker]]
  /\ worker = [w \in Workers |-> IdleLoop]
  /\ late = {}
  /\ runs = [t \in Tasks |-> 0]
  /\ verdict = [t \in Tasks |-> "none"]
  /\ struck = {}
  /\ faults = 0

\* Mutant: the list also shows tasks that are still running.
Listed_Unfinished == {t \in Tasks : row[t].status \in {"pending", "running"}}

\* What ListPending selects: WHERE status = 'pending'.
Listed == {t \in Tasks : row[t].status = "pending"}

-----------------------------------------------------------------------------
(* The gateway: one SQL statement per request. *)

\* Mutant: an upsert, so a client's retry puts a finished task back.
Create_Upsert(t) ==
  /\ row[t].status \in {"absent"} \cup Outcome
  /\ row' = [row EXCEPT ![t].status = "pending"]
  /\ UNCHANGED <<worker, late, runs, verdict, struck, faults>>

(* POST /v1/tasks: Create inserts a pending row.  created_at is read before *)
(* the insert, so rows can appear in any order of it.                       *)
Create(t) ==
  /\ row[t].status = "absent"
  /\ row' = [row EXCEPT ![t].status = "pending"]
  /\ UNCHANGED <<worker, late, runs, verdict, struck, faults>>

\* Mutant: a running task can be claimed again.
Claimable_Unfinished(t) == row[t].status \in {"pending", "running"}

\* The WHERE of Claim's UPDATE; with no row matching it answers not found.
Claimable(t) == row[t].status = "pending"

\* Mutant: Claim enters the state 'claimed' that domain/task.go declares.
ClaimRow_ToClaimed(t, w) ==
  IF Claimable(t) THEN [row EXCEPT ![t] = [status |-> "claimed", claimedBy |-> w]] ELSE row

ClaimRow(t, w) ==
  IF Claimable(t) THEN [row EXCEPT ![t] = [status |-> "running", claimedBy |-> w]] ELSE row

\* Mutants: the failed flag is ignored; a completed row needs a status that
\* Claim never sets.
CompleteRow_IgnoresFailed(t, outcome) == [row EXCEPT ![t].status = "completed"]

CompleteRow_FromClaimed(t, outcome) ==
  IF row[t].status = "claimed" THEN [row EXCEPT ![t].status = outcome] ELSE row

\* Complete's UPDATE: its WHERE names the id alone, not the status.
CompleteRow(t, outcome) == [row EXCEPT ![t].status = outcome]

(* The store reports an error (a connection lost, the pool exhausted): the  *)
(* handler answers 500, and the statement may have taken effect or not.     *)
StatementFails(w, written) ==
  /\ faults < MaxFaults
  /\ faults' = faults + 1
  /\ struck' = struck \cup {<<worker[w].task, w>>}
  /\ row' \in {row, written}
  /\ worker' = [worker EXCEPT ![w].reply = "refused"]

HandleClaim(w) ==
  LET t == worker[w].task
  IN  /\ worker[w].pc = "claiming"
      /\ worker[w].reply = "none"
      /\ \/ /\ row' = ClaimRow(t, w)
            /\ worker' = [worker EXCEPT ![w].reply =
                            IF Claimable(t) THEN "ok" ELSE "refused"]
            /\ UNCHANGED <<struck, faults>>
         \/ StatementFails(w, ClaimRow(t, w))
      /\ UNCHANGED <<late, runs, verdict>>

HandleComplete(w) ==
  LET written == CompleteRow(worker[w].task, worker[w].outcome)
  IN  /\ worker[w].pc = "reporting"
      /\ worker[w].reply = "none"
      /\ \/ /\ row' = written
            /\ worker' = [worker EXCEPT ![w].reply = "ok"]
            /\ UNCHANGED <<struck, faults>>
         \/ StatementFails(w, written)
      /\ UNCHANGED <<late, runs, verdict>>

(* A request its sender gave up on is handled after all, or is lost; nobody *)
(* hears whether its statement failed.                                      *)
HandleLate(m) ==
  /\ m \in late
  /\ late' = late \ {m}
  /\ row' = IF m.op = "claim" THEN ClaimRow(m.task, m.from) ELSE CompleteRow(m.task, m.outcome)
  /\ UNCHANGED <<worker, runs, verdict, struck, faults>>

Lose(m) ==
  /\ m \in late
  /\ late' = late \ {m}
  /\ UNCHANGED <<row, worker, runs, verdict, struck, faults>>

-----------------------------------------------------------------------------
(* The worker: PollAndExecuteSingleTask, once per tick of its ticker. *)

(* fetchPendingTasks, ordered by created_at; the first one is picked.  An   *)
(* empty list and a failed fetch leave the loop as it is.                   *)
Fetch(w) ==
  /\ worker[w].pc = "idle"
  /\ \E t \in Listed :
       /\ \A u \in Listed : t <= u
       /\ worker' = [worker EXCEPT ![w] = [IdleLoop EXCEPT !.pc = "fetched", !.task = t]]
  /\ UNCHANGED <<row, late, runs, verdict, struck, faults>>

SendClaim(w) ==
  /\ worker[w].pc = "fetched"
  /\ worker' = [worker EXCEPT ![w].pc = "claiming"]
  /\ UNCHANGED <<row, late, runs, verdict, struck, faults>>

(* claimTask returns: 200 starts the work, any other status ends the poll.  *)
ClaimAnswered(w) ==
  LET t == worker[w].task
  IN  /\ worker[w].pc = "claiming"
      /\ \/ /\ worker[w].reply = "ok"
            /\ worker' = [worker EXCEPT ![w] = [@ EXCEPT !.pc = "executing", !.reply = "none"]]
            /\ runs' = [runs EXCEPT ![t] = @ + 1]
         \/ /\ worker[w].reply = "refused"
            /\ worker' = [worker EXCEPT ![w] = IdleLoop]
            /\ UNCHANGED runs
      /\ UNCHANGED <<row, late, verdict, struck, faults>>

(* executeRemoteTaskLocally: the chat request fails or answers, edits are   *)
(* applied or not.  Under the approve policy an edit waits at the terminal. *)
Prompt(w) ==
  /\ worker[w].pc = "executing"
  /\ worker' = [worker EXCEPT ![w].pc = "prompting"]
  /\ UNCHANGED <<row, late, runs, verdict, struck, faults>>

EndWork(w, outcome) ==
  /\ worker' = [worker EXCEPT ![w] = [@ EXCEPT !.pc = "reporting", !.outcome = outcome]]
  /\ verdict' = [verdict EXCEPT ![worker[w].task] = outcome]
  /\ UNCHANGED <<row, late, runs, struck, faults>>

\* Mutant: a failed execution returns before it reports.
Execute_FailsSilently(w) ==
  /\ worker[w].pc = "executing"
  /\ \/ EndWork(w, "completed")
     \/ /\ worker' = [worker EXCEPT ![w] = IdleLoop]
        /\ verdict' = [verdict EXCEPT ![worker[w].task] = "failed"]
        /\ UNCHANGED <<row, late, runs, struck, faults>>

Execute(w) == worker[w].pc = "executing" /\ \E o \in Outcome : EndWork(w, o)

AnswerPrompt(w) == worker[w].pc = "prompting" /\ \E o \in Outcome : EndWork(w, o)

(* reportTaskCompletion returns, perhaps with an error that is printed;     *)
(* nothing is retried.                                                      *)
ReportAnswered(w) ==
  /\ worker[w].pc = "reporting"
  /\ worker[w].reply # "none"
  /\ worker' = [worker EXCEPT ![w] = IdleLoop]
  /\ UNCHANGED <<row, late, runs, verdict, struck, faults>>

-----------------------------------------------------------------------------
(* Faults. *)

\* The request of w that the gateway has not handled yet, if there is one.
Unhandled(w) ==
  IF worker[w].pc \in {"claiming", "reporting"} /\ worker[w].reply = "none"
  THEN {[op |-> IF worker[w].pc = "claiming" THEN "claim" ELSE "complete",
         task |-> worker[w].task, from |-> w, outcome |-> worker[w].outcome]}
  ELSE {}

(* The HTTP client times out or the connection breaks: the poll ends.       *)
Timeout(w) ==
  /\ worker[w].pc \in {"claiming", "reporting"}
  /\ faults < MaxFaults
  /\ faults' = faults + 1
  /\ struck' = struck \cup {<<worker[w].task, w>>}
  /\ late' = late \cup Unhandled(w)
  /\ worker' = [worker EXCEPT ![w] = IdleLoop]
  /\ UNCHANGED <<row, runs, verdict>>

Crash(w) ==
  /\ worker[w].pc # "down"
  /\ faults < MaxFaults
  /\ faults' = faults + 1
  /\ struck' = struck \cup (IF worker[w].pc \in Holding THEN {<<worker[w].task, w>>} ELSE {})
  /\ late' = late \cup Unhandled(w)
  /\ worker' = [worker EXCEPT ![w] = [IdleLoop EXCEPT !.pc = "down"]]
  /\ UNCHANGED <<row, runs, verdict>>

Restart(w) ==
  /\ worker[w].pc = "down"
  /\ worker' = [worker EXCEPT ![w] = IdleLoop]
  /\ UNCHANGED <<row, late, runs, verdict, struck, faults>>

-----------------------------------------------------------------------------
Serve(w) == HandleClaim(w) \/ HandleComplete(w)

Poll(w) ==
  Fetch(w) \/ SendClaim(w) \/ ClaimAnswered(w) \/ Execute(w) \/ ReportAnswered(w)

Next ==
  \/ \E t \in Tasks : Create(t)
  \/ \E w \in Workers :
       \/ Serve(w) \/ Poll(w) \/ Prompt(w) \/ AnswerPrompt(w)
       \/ Timeout(w) \/ Crash(w) \/ Restart(w)
  \/ \E m \in late : HandleLate(m) \/ Lose(m)

Spec == Init /\ [][Next]_vars

(* The gateway serves what it receives, the ticker of a worker keeps        *)
(* ticking, and whoever runs a worker starts it again.  Nobody has to       *)
(* answer a prompt, and nothing has to deliver a late request.              *)
Fairness == \A w \in Workers : WF_vars(Serve(w)) /\ WF_vars(Poll(w)) /\ WF_vars(Restart(w))

FairSpec == Spec /\ Fairness

-----------------------------------------------------------------------------
(* Properties. *)

Executing(w, t) == worker[w].task = t /\ worker[w].pc \in {"executing", "prompting", "reporting"}

\* The work of a task is started at most once, whatever is lost, delayed or
\* restarted: Claim lets one request through, and one worker hears of it.
AtMostOnce == \A t \in Tasks : runs[t] <= 1

\* Whoever works on a task is the worker its row names, and the row still
\* says running until that worker's own report is handled.
ExecutorIsClaimant ==
  \A w \in Workers, t \in Tasks :
    Executing(w, t) =>
      /\ row[t].claimedBy = w
      /\ worker[w].reply = "none" => row[t].status = "running"

\* A row with an outcome shows the outcome the work really had.
OutcomeIsTrue ==
  \A t \in Tasks : row[t].status \in Outcome => runs[t] = 1 /\ verdict[t] = row[t].status

\* A task whose row says running although nobody works on it, is about to,
\* or has a report under way.  The queue has no lease: it stays so.
Orphan(t) ==
  /\ row[t].status = "running"
  /\ \A w \in Workers : worker[w].task = t => worker[w].pc \in {"idle", "fetched", "down"}
  /\ ~\E m \in late : m.task = t /\ m.op = "complete"

\* A fault hit the task's worker while it held the task.
Struck(t) == <<t, row[t].claimedBy>> \in struck

\* A task is orphaned only when the very worker its row names was hit by a
\* fault while it held that task: its request timed out, its statement failed,
\* or it was killed.  Every other path through the handlers and the polling
\* loop ends in a report, and no fault of another worker, of another task's
\* request or of a competing claim can orphan it.
NoOrphanWithoutFault == \A t \in Tasks : Orphan(t) => Struck(t)

\* The queue implements its promise: see TaskLifecycle.
Lifecycle == INSTANCE TaskLifecycle WITH
  status <- [t \in Tasks |-> row[t].status],
  owner  <- [t \in Tasks |-> row[t].claimedBy]
ImplementsLifecycle == Lifecycle!Spec

\* A pending task is taken, however many tasks ahead of it are orphaned,
\* unless every worker ends up waiting at a terminal.
PendingIsTaken ==
  \A t \in Tasks :
    row[t].status = "pending" ~>
      (row[t].status # "pending" \/ \A w \in Workers : worker[w].pc = "prompting")

\* A running task gets an outcome, unless a fault of its own worker orphans it
\* or somebody has to answer at the terminal first.
RunningIsSettled ==
  \A t \in Tasks :
    row[t].status = "running" ~>
      \/ row[t].status \in Outcome
      \/ Struck(t) /\ Orphan(t)
      \/ \E w \in Workers : Executing(w, t) /\ worker[w].pc = "prompting"
      \/ \E m \in late : m.task = t /\ m.op = "complete"
=============================================================================
