----------------------------- MODULE Workspace -----------------------------
(***************************************************************************)
(* A task's edits on the user's working tree: cmd/switchyard/tools.go      *)
(* (ApplyEditsWithPolicy), its git checkpoints and rollback: safety.go,    *)
(* and PromptAndApplyEdits of cmd/nexus-cli/tools.go, which has neither.   *)
(*                                                                         *)
(* Two loops of one process may be applying edits at the same time: the    *)
(* interactive chat and its background listener for remote tasks.  They    *)
(* share the directory, the terminal and LastCheckpoint, without a lock.   *)
(***************************************************************************)
EXTENDS Integers, Sequences

CONSTANTS
  Actors,         \* the loops that apply edits
  Files,
  ProtectedFiles, \* those IsProtectedFile matches
  Ignored,        \* those .gitignore matches: git clean -fd leaves them
  Chunks,         \* the texts a file may contain; a content is a set of them
  Absent,         \* the content of a file that is not there
  Index,          \* Index[f]: f as git tracks it, Absent if it does not
  InitialTrees,   \* the working trees a session may find
  NoCheckpoint    \* LastCheckpoint is nil

Contents == SUBSET Chunks
Trees    == [Files -> {Absent} \cup Contents]

ASSUME FilesAssumption      == ProtectedFiles \subseteq Files /\ Ignored \subseteq Files
ASSUME AbsentAssumption     == \A content \in Contents : content # Absent
ASSUME TreesAssumption      == Index \in Trees /\ InitialTrees \subseteq Trees
ASSUME IgnoredAssumption    == \A f \in Ignored : Index[f] = Absent
ASSUME CheckpointAssumption == NoCheckpoint \notin Trees

\* A ProposedEdit: replace the text old by new, or write the file anew.
Edits == [file : Files, action : {"edit", "write"}, old : Chunks, new : Chunks]

\* nexus-cli has no policies, only auto-apply on or off.
NexusPolicies == {"auto-apply", "ask"}
ReadOnly      == {"explain", "plan"}
Automatic     == {"safe-auto", "autopilot", "auto-apply"}
Asking        == {"approve", "ask"}
Policies      == ReadOnly \cup {"approve", "safe-auto", "autopilot"}

\* What a line read from the terminal says; at the end of input it is empty.
Answers == {"yes", "no", ""}

-----------------------------------------------------------------------------
VARIABLES
  inRepo,      \* the directory is in a git working tree
  disk,        \* the working tree
  checkpoint,  \* LastCheckpoint: the disk it was taken of
  pc,          \* pc[a]: where loop a stands
  batch,       \* batch[a]: the variables of ApplyEditsWithPolicy in loop a
  rolled,      \* the last /rollback of the session said SUCCESS
  since        \* files written since the last rollback's checkout, if any

wvars == <<inRepo, disk, checkpoint, pc, batch, rolled, since>>

Applying == {"examine", "asking", "save", "apply", "patch", "applied"}

\* What loop a keeps during a call; of the counts and errors it returns
\* only texts are made.
Batches == [edits : Seq(Edits), policy : Policies \cup NexusPolicies, i : Nat, saved : {"yes", "no"},
            heard : Answers \cup {"nothing"}, seen : Contents]

NewBatch(edits, policy) ==
  [edits |-> edits, policy |-> policy, i |-> 1, saved |-> "no",
   heard |-> "nothing", seen |-> {}]

NoBatch == NewBatch(<<>>, "approve")

Edit(a) == batch[a].edits[batch[a].i]

Move(a, to, b) ==
  /\ pc' = [pc EXCEPT ![a] = to]
  /\ batch' = [batch EXCEPT ![a] = b]

\* What was heard and read is of one edit only.
Forget(b) == [b EXCEPT !.heard = "nothing", !.seen = {}]

\* The loop over the edits goes on to the next one, or is done.
Leave(a, b) ==
  Move(a, IF b.i < Len(b.edits) THEN "examine" ELSE "applied", [Forget(b) EXCEPT !.i = b.i + 1])

\* ApplyEditsWithPolicy is called.  The read-only policies block all edits
\* before any is looked at.
Begin(a, edits, policy) ==
  Move(a, IF edits = <<>> \/ policy \in ReadOnly THEN "applied" ELSE "examine",
       NewBatch(edits, policy))

-----------------------------------------------------------------------------
(* One edit.                                                               *)

\* Mutant: the guardrail holds only where the file is in git's index.
Blocked_TrackedOnly(policy, f) ==
  policy = "safe-auto" /\ f \in ProtectedFiles /\ Index[f] # Absent

\* The guardrail of safe-auto.
Blocked(policy, f) == policy = "safe-auto" /\ f \in ProtectedFiles

\* Is the edit blocked, applied without a question, or asked about?
Examine(a) ==
  LET b == batch[a] IN
  /\ pc[a] = "examine"
  /\ \/ /\ Blocked(b.policy, Edit(a).file)
        /\ Leave(a, b)
     \/ /\ ~Blocked(b.policy, Edit(a).file)
        /\ b.policy \in Automatic
        /\ Move(a, "save", b)
     \/ /\ b.policy \in Asking
        /\ Move(a, "asking", b)
  /\ UNCHANGED <<inRepo, disk, checkpoint, rolled, since>>

\* A protected file needs a yes; for another one Enter will do, as will the
\* end of the input.
Accepts(policy, f, answer) ==
  IF policy = "approve" /\ f \in ProtectedFiles THEN answer = "yes" ELSE answer \in {"yes", ""}

\* A line of the terminal reaches the question of loop a.  Any line may: the
\* other loop may be reading the same terminal.
Hear(a) ==
  LET b == batch[a] IN
  /\ pc[a] = "asking"
  /\ \E answer \in Answers :
       IF Accepts(b.policy, Edit(a).file, answer)
         THEN Move(a, "save", [b EXCEPT !.heard = answer])
         ELSE Leave(a, b)
  /\ UNCHANGED <<inRepo, disk, checkpoint, rolled, since>>

\* There is no checkpoint to take: the batch has one, or there is no git.
NeedsNone(a) ==
  \/ batch[a].saved = "yes"
  \/ ~inRepo
  \/ batch[a].policy \in NexusPolicies

SkipCheckpoint(a) ==
  /\ pc[a] = "save"
  /\ NeedsNone(a)
  /\ Move(a, "apply", batch[a])
  /\ UNCHANGED <<inRepo, disk, checkpoint, rolled, since>>

\* CreateGitCheckpoint, before the first edit that is applied.
CreateGitCheckpoint(a) ==
  /\ pc[a] = "save"
  /\ ~NeedsNone(a)
  /\ checkpoint' = disk
  /\ Move(a, "apply", [batch[a] EXCEPT !.saved = "yes"])
  /\ UNCHANGED <<inRepo, disk, rolled, since>>

\* git stash create fails.  The edit is applied all the same, and the next
\* one tries again.
CheckpointFails(a) ==
  /\ pc[a] = "save"
  /\ ~NeedsNone(a)
  /\ Move(a, "apply", batch[a])
  /\ UNCHANGED <<inRepo, disk, checkpoint, rolled, since>>

\* os.WriteFile truncates the file, then writes it; either may fail, and the
\* loop goes on to the next edit.
Put(f, content) ==
  /\ disk' = [disk EXCEPT ![f] = content]
  /\ since' = since \cup {f}

WriteFile(a, content) ==
  /\ \/ Put(Edit(a).file, content)
     \/ Put(Edit(a).file, {})
     \/ UNCHANGED <<disk, since>>
  /\ Leave(a, batch[a])

\* Action "write": the whole file, its directory created first.
ApplyWrite(a) ==
  /\ pc[a] = "apply"
  /\ Edit(a).action = "write"
  /\ WriteFile(a, {Edit(a).new})
  /\ UNCHANGED <<inRepo, checkpoint, rolled>>

\* Mutant: a chunk that is not there is looked for again.
ApplyRead_Retries(a) ==
  LET b == batch[a]
      f == Edit(a).file
  IN
  /\ pc[a] = "apply"
  /\ Edit(a).action = "edit"
  /\ \/ /\ disk[f] # Absent
        /\ Edit(a).old \in disk[f]
        /\ Move(a, "patch", [b EXCEPT !.seen = disk[f]])
     \/ Move(a, "save", b)
  /\ UNCHANGED <<inRepo, disk, checkpoint, rolled, since>>

\* Action "edit", first half: the file is read and searched; either may fail.
ApplyRead(a) ==
  LET b == batch[a]
      f == Edit(a).file
  IN
  /\ pc[a] = "apply"
  /\ Edit(a).action = "edit"
  /\ \/ /\ disk[f] # Absent
        /\ Edit(a).old \in disk[f]
        /\ Move(a, "patch", [b EXCEPT !.seen = disk[f]])
     \/ Leave(a, b)
  /\ UNCHANGED <<inRepo, disk, checkpoint, rolled, since>>

\* Second half: what was read is written back with the first occurrence
\* replaced, whatever has become of the file in between.
ApplyPatch(a) ==
  /\ pc[a] = "patch"
  /\ WriteFile(a, (batch[a].seen \ {Edit(a).old}) \cup {Edit(a).new})
  /\ UNCHANGED <<inRepo, checkpoint, rolled>>

ApplyStep(a) ==
  \/ Examine(a) \/ Hear(a)
  \/ SkipCheckpoint(a) \/ CreateGitCheckpoint(a) \/ CheckpointFails(a)
  \/ ApplyWrite(a) \/ ApplyRead(a) \/ ApplyPatch(a)

-----------------------------------------------------------------------------
(* RollbackGitCheckpoint, called by loop a.                                *)

\* Not in a repository, no checkpoint, or git checkout fails, as it does
\* where nothing is tracked: nothing changes.
RollbackRefused(a) ==
  /\ pc[a] = "rollback"
  /\ pc' = [pc EXCEPT ![a] = "idle"]
  /\ UNCHANGED <<inRepo, disk, checkpoint, batch, rolled, since>>

\* git checkout -- . : tracked files come back from the index, not from the
\* checkpoint.
RollbackCheckout(a) ==
  /\ pc[a] = "rollback"
  /\ inRepo
  /\ checkpoint # NoCheckpoint
  /\ \E f \in Files : Index[f] # Absent
  /\ disk' = [f \in Files |-> IF Index[f] # Absent THEN Index[f] ELSE disk[f]]
  /\ rolled' = FALSE
  /\ since' = {}
  /\ pc' = [pc EXCEPT ![a] = "clean"]
  /\ UNCHANGED <<inRepo, checkpoint, batch>>

\* Mutant: files the tasks created stay.
RollbackClean_Skipped(a) ==
  /\ pc[a] = "clean"
  /\ rolled' = TRUE
  /\ pc' = [pc EXCEPT ![a] = "idle"]
  /\ UNCHANGED <<inRepo, disk, checkpoint, batch, since>>

\* git clean -fd : untracked files go, except ignored ones.  SUCCESS.
RollbackClean(a) ==
  /\ pc[a] = "clean"
  /\ disk' = [f \in Files |-> IF Index[f] = Absent /\ f \notin Ignored THEN Absent ELSE disk[f]]
  /\ rolled' = TRUE
  /\ pc' = [pc EXCEPT ![a] = "idle"]
  /\ UNCHANGED <<inRepo, checkpoint, batch, since>>

\* git clean fails, with any of the files removed.
RollbackCleanFails(a) ==
  /\ pc[a] = "clean"
  /\ \E gone \in SUBSET {f \in Files : Index[f] = Absent /\ f \notin Ignored} :
       disk' = [f \in Files |-> IF f \in gone THEN Absent ELSE disk[f]]
  /\ pc' = [pc EXCEPT ![a] = "idle"]
  /\ UNCHANGED <<inRepo, checkpoint, batch, rolled, since>>

RollbackStep(a) ==
  RollbackRefused(a) \/ RollbackCheckout(a) \/ RollbackClean(a) \/ RollbackCleanFails(a)

-----------------------------------------------------------------------------
WorkspaceInit ==
  /\ inRepo \in BOOLEAN
  /\ disk \in InitialTrees
  /\ checkpoint = NoCheckpoint
  /\ batch = [a \in Actors |-> NoBatch]
  /\ rolled = FALSE
  /\ since = Files

=============================================================================
