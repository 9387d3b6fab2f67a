--------------------------- MODULE TaskLifecycle ---------------------------
(***************************************************************************)
(* What the remote task queue promises of a task, whatever happens to the  *)
(* requests and to the workers: internal/domain/task.go's states, each     *)
(* entered once.  A task is submitted, assigned to one worker, and settled *)
(* with one outcome; nothing leaves an outcome, and no task changes hands. *)
(***************************************************************************)
CONSTANTS Tasks, Workers, NoWorker

VARIABLES
  status,   \* status[t]: where task t stands
  owner     \* owner[t]: the worker it was assigned to

Outcome == {"completed", "failed"}

Init ==
  /\ status = [t \in Tasks |-> "absent"]
  /\ owner = [t \in Tasks |-> NoWorker]

Submit(t) ==
  /\ status[t] = "absent"
  /\ status' = [status EXCEPT ![t] = "pending"]
  /\ UNCHANGED owner

Assign(t, w) ==
  /\ status[t] = "pending"
  /\ status' = [status EXCEPT ![t] = "running"]
  /\ owner' = [owner EXCEPT ![t] = w]

Settle(t, o) ==
  /\ status[t] = "running"
  /\ status' = [status EXCEPT ![t] = o]
  /\ UNCHANGED owner

Next ==
  \E t \in Tasks :
    \/ Submit(t)
    \/ \E w \in Workers : Assign(t, w)
    \/ \E o \in Outcome : Settle(t, o)

Spec == Init /\ [][Next]_<<status, owner>>
=============================================================================
