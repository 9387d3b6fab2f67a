------------------------------ MODULE Session ------------------------------
(***************************************************************************)
(* The processes that run tasks at a user's terminal: cmd/switchyard       *)
(* (main.go: startInteractiveChat, sendChatConversation, runOneShotTask,   *)
(* main; daemon.go: PollAndExecuteSingleTask, executeRemoteTaskLocally)    *)
(* and cmd/nexus-cli (main.go: startInteractiveChat).  They compose the    *)
(* chat loop and the listener for remote tasks over one Workspace.         *)
(*                                                                         *)
(* The gateway is seen as the answers it may give; which task the listener *)
(* gets and what becomes of its report is TaskQueue's matter.              *)
(***************************************************************************)
EXTENDS Workspace

CONSTANTS
  Chat, Remote,  \* the two loops
  Replies,       \* the edit and write blocks of an answer, in its order
  MaxTurns,      \* bound of the model on prompts and commands of a session
  MaxTasks       \* bound of the model on remote tasks of a session

\* All edit blocks come first, then all write blocks, whatever their order
\* in the answer.
ParseProposedEdits(reply) ==
  SelectSeq(reply, LAMBDA e : e.action = "edit") \o SelectSeq(reply, LAMBDA e : e.action = "write")

ASSUME ActorsAssumption  == Actors = {Chat, Remote} /\ Chat # Remote
ASSUME RepliesAssumption == \A r \in Replies : ParseProposedEdits(r) \in Seq(Edits)
ASSUME BoundsAssumption  == MaxTurns \in Nat /\ MaxTasks \in Nat

VARIABLES
  mode,      \* the command the process was started with
  policy,    \* the policy in force in the chat loop
  history,   \* the roles of the conversation's messages
  turns,     \* prompts and commands so far
  tasks      \* remote tasks so far

svars == <<mode, policy, history, turns, tasks>>
vars  == <<inRepo, disk, checkpoint, pc, batch, rolled, since,
           mode, policy, history, turns, tasks>>

Modes == {"chat", "run", "daemon", "nexus"}
Stops == {"idle", "off"} \cup {"sending", "rollback", "clean"} \cup Applying

\* A conversation is questions and answers in turn.
Alternates(messages) ==
  \A k \in DOMAIN messages :
    messages[k] = IF k = 1 \/ messages[k - 1] = "assistant" THEN "user" ELSE "assistant"

TypeOK ==
  /\ inRepo \in BOOLEAN
  /\ disk \in Trees
  /\ checkpoint \in {NoCheckpoint} \cup Trees
  /\ pc \in [Actors -> Stops]
  /\ batch \in [Actors -> Batches]
  /\ rolled \in BOOLEAN
  /\ since \subseteq Files
  /\ mode \in Modes
  /\ policy \in Policies \cup NexusPolicies
  /\ history \in Seq({"user", "assistant"}) /\ Alternates(history)
  /\ turns \in Nat
  /\ tasks \in Nat

\* The policy a chat starts with: .switchyard.json replaces the default,
\* which the code cannot tell from an explicit -policy approve.
InitialPolicy(flag, configured) ==
  IF flag = "approve" /\ configured \in Policies THEN configured ELSE flag

\* An interactive chat listens for remote tasks when it knows its project.
Init ==
  /\ WorkspaceInit
  /\ mode \in Modes
  /\ \/ mode = "chat" /\ \E f \in Policies, c \in Policies \cup {""} : policy = InitialPolicy(f, c)
     \/ mode = "nexus" /\ policy = "ask"
     \/ mode \in {"run", "daemon"} /\ policy \in Policies
  /\ \E listening \in BOOLEAN :
       pc = [a \in Actors |->
               IF a = Chat THEN (IF mode = "daemon" THEN "off" ELSE "idle")
               ELSE IF mode = "daemon" \/ (mode = "chat" /\ listening) THEN "idle" ELSE "off"]
  /\ history = <<>>
  /\ turns = 0
  /\ tasks = 0

Quiet == UNCHANGED <<inRepo, disk, checkpoint, rolled, since>>

Transition(a, from, to) == pc[a] = from /\ pc' = [pc EXCEPT ![a] = to]

-----------------------------------------------------------------------------
(* Commands of the chat loop.                                              *)

AtPrompt == pc[Chat] = "idle" /\ turns < MaxTurns /\ turns' = turns + 1

\* /policy, or /auto-apply of nexus-cli.  An unknown policy changes nothing.
SetPolicy ==
  /\ AtPrompt
  /\ \/ mode = "chat" /\ policy' \in Policies
     \/ mode = "nexus" /\ policy' \in NexusPolicies
  /\ Quiet
  /\ UNCHANGED <<pc, batch, mode, history, tasks>>

\* /clear
Clear ==
  /\ AtPrompt
  /\ mode \in {"chat", "nexus"}
  /\ history' = <<>>
  /\ Quiet
  /\ UNCHANGED <<pc, batch, mode, policy, tasks>>

\* /rollback
Rollback ==
  /\ AtPrompt
  /\ mode = "chat"
  /\ Transition(Chat, "idle", "rollback")
  /\ Quiet
  /\ UNCHANGED <<batch, mode, policy, history, tasks>>

\* The process ends, and with it whatever the listener was doing.
End ==
  /\ pc' = [a \in Actors |-> "off"]
  /\ batch' = [a \in Actors |-> NoBatch]

\* /exit, ^C or the end of input at the prompt; ^C to the daemon is noticed
\* between two tasks.
Exit ==
  /\ \/ pc[Chat] = "idle" /\ mode \in {"chat", "nexus"}
     \/ pc[Remote] = "idle" /\ mode = "daemon"
  /\ End
  /\ Quiet
  /\ UNCHANGED svars

-----------------------------------------------------------------------------
(* A turn of the chat, or the one turn of switchyard run.                  *)

Prompt ==
  /\ AtPrompt
  /\ Transition(Chat, "idle", "sending")
  /\ history' = Append(history, "user")
  /\ Quiet
  /\ UNCHANGED <<batch, mode, policy, tasks>>

\* A turn is over: switchyard run ends with it.
EndTurn == IF mode = "run" THEN End ELSE Move(Chat, "idle", NoBatch)

\* Mutant: the question that was not answered stays.
SendFails_KeepsQuestion ==
  /\ pc[Chat] = "sending"
  /\ EndTurn
  /\ Quiet
  /\ UNCHANGED svars

\* sendChatConversation returns an error: over budget before the call,
\* unreachable, timed out, an error status, no choices.
SendFails ==
  /\ pc[Chat] = "sending"
  /\ history' = SubSeq(history, 1, Len(history) - 1)
  /\ EndTurn
  /\ Quiet
  /\ UNCHANGED <<mode, policy, turns, tasks>>

\* The answer: its edits are applied under the policy in force.
Reply ==
  /\ pc[Chat] = "sending"
  /\ \E reply \in Replies : Begin(Chat, ParseProposedEdits(reply), policy)
  /\ history' = Append(history, "assistant")
  /\ Quiet
  /\ UNCHANGED <<mode, policy, turns, tasks>>

FinishTurn ==
  /\ pc[Chat] = "applied"
  /\ EndTurn
  /\ Quiet
  /\ UNCHANGED svars

-----------------------------------------------------------------------------
(* A remote task.                                                          *)

\* PollAndExecuteSingleTask has claimed a task and asks the gateway.
TakeTask ==
  /\ tasks < MaxTasks
  /\ tasks' = tasks + 1
  /\ Transition(Remote, "idle", "sending")
  /\ Quiet
  /\ UNCHANGED <<batch, mode, policy, history, turns>>

\* An unknown policy of a task counts as approve.
TaskPolicy(text) == IF text \in Policies THEN text ELSE "approve"

TaskReply ==
  /\ pc[Remote] = "sending"
  /\ \E reply \in Replies, text \in Policies \cup {""} :
       Begin(Remote, ParseProposedEdits(reply), TaskPolicy(text))
  /\ Quiet
  /\ UNCHANGED svars

\* The task has failed or is done: it is reported, and the loop goes on.
FinishTask ==
  /\ pc[Remote] \in {"sending", "applied"}
  /\ Move(Remote, "idle", NoBatch)
  /\ Quiet
  /\ UNCHANGED svars

-----------------------------------------------------------------------------
ChatStep ==
  \/ SendFails \/ Reply \/ FinishTurn
  \/ (ApplyStep(Chat) \/ RollbackStep(Chat)) /\ UNCHANGED svars

RemoteStep ==
  \/ TaskReply \/ FinishTask
  \/ ApplyStep(Remote) /\ UNCHANGED svars

Next ==
  \/ SetPolicy \/ Clear \/ Rollback \/ Exit \/ Prompt
  \/ TakeTask
  \/ ChatStep
  \/ RemoteStep

Spec == Init /\ [][Next]_vars

\* Requests have a timeout, the loops are goroutines the runtime schedules,
\* and the user answers every question in the end.
FairSpec == Spec /\ WF_vars(ChatStep) /\ WF_vars(RemoteStep)

-----------------------------------------------------------------------------
(* Properties.                                                             *)

\* Whether an edit of file f may be made under a policy, after an answer.
Permits(pol, f, heard) ==
  \/ pol = "autopilot" \/ pol = "auto-apply"
  \/ pol = "safe-auto" /\ f \notin ProtectedFiles
  \/ pol \in Asking /\ heard = "yes"
  \/ pol \in Asking /\ heard = "" /\ (f \notin ProtectedFiles \/ pol = "ask")

\* The policy loop a works under: the chat's is the one in force now.
PolicyOf(a) == IF a = Chat THEN policy ELSE batch[a].policy

\* A file changes only by a rollback, or by a loop whose policy, with the
\* answer its question got, permits the edit of that very file.
PolicyIsKept ==
  [][\A f \in Files : disk'[f] # disk[f] =>
       \/ pc[Chat] \in {"rollback", "clean"}
       \/ \E a \in Actors :
            /\ pc[a] \in {"apply", "patch"}
            /\ Edit(a).file = f
            /\ Permits(PolicyOf(a), f, batch[a].heard)]_vars

\* After a successful /rollback the working tree is as git tracks it, but for
\* ignored files, which git leaves, and files written since its checkout, be it
\* that a remote task writes back what it had read before.
NoEditSurvivesRollback ==
  rolled => \A f \in Files \ (since \cup Ignored) : disk[f] = Index[f]

\* RollbackGitCheckpoint "restores the working directory to the pre-task
\* state": a rollback nothing interfered with gives back the tree its
\* checkpoint was taken of.
RollbackRestores == rolled /\ since = {} => disk = checkpoint

\* A turn of the chat comes to its end, whatever the remote tasks do.
EveryTurnEnds == pc[Chat] \notin {"idle", "off"} ~> pc[Chat] \in {"idle", "off"}

=============================================================================
