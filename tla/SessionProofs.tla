--------------------------- MODULE SessionProofs ---------------------------
(***************************************************************************)
(* Proofs about Session, for any files, edits and answers, any number of   *)
(* prompts and remote tasks, and any interleaving of the two loops.        *)
(***************************************************************************)
EXTENDS Session, TLAPS

Working == {"examine", "asking", "save", "apply", "patch"}
Decided == {"save", "apply", "patch"}

\* A loop at work is at an edit of its batch; it asks only under a policy that
\* does, and what it has decided to apply its policy permits.
LoopOK(stop, b) ==
  /\ stop \in Stops
  /\ b \in Batches
  /\ stop \in Working => b.i \in 1 .. Len(b.edits)
  /\ stop = "asking" => b.policy \in Asking
  /\ stop \in Decided => Permits(b.policy, b.edits[b.i].file, b.heard)

LoopsOK ==
  /\ pc \in [Actors -> Stops]
  /\ batch \in [Actors -> Batches]
  /\ \A a \in Actors : LoopOK(pc[a], batch[a])

\* The chat's policy does not change under an answer that is being applied.
PolicyStays == policy \in Policies \cup NexusPolicies /\ (pc[Chat] \in Working => batch[Chat].policy = policy)

DiskOK == disk \in Trees /\ checkpoint \in {NoCheckpoint} \cup Trees /\ since \subseteq Files

\* Between its two halves a rollback has restored what git tracks.
RollbackOK ==
  /\ rolled \in BOOLEAN
  /\ NoEditSurvivesRollback
  /\ pc[Chat] = "clean" =>
       /\ ~rolled
       /\ \A f \in Files \ since : Index[f] # Absent => disk[f] = Index[f]

\* The last message is a question while it is being answered, else an answer.
HistoryOK ==
  /\ history \in Seq({"user", "assistant"})
  /\ Alternates(history)
  /\ pc[Chat] = "sending" => history # <<>>
  /\ history # <<>> => (history[Len(history)] = "user" <=> pc[Chat] = "sending")

\* The daemon has no chat.
CountsOK ==
  /\ inRepo \in BOOLEAN /\ mode \in Modes /\ turns \in Nat /\ tasks \in Nat
  /\ mode = "daemon" => pc[Chat] = "off"

IInv == LoopsOK /\ PolicyStays /\ DiskOK /\ RollbackOK /\ HistoryOK /\ CountsOK

-----------------------------------------------------------------------------
(* The loops.                                                              *)

LEMMA NoBatchOK == NoBatch \in Batches /\ NewBatch(<<>>, "approve").i = 1
BY DEF NoBatch, NewBatch, Batches, Policies, Contents

LEMMA MoveOK ==
  ASSUME NEW a \in Actors, LoopsOK, NEW to, NEW b, Move(a, to, b), LoopOK(to, b)
  PROVE  LoopsOK'
BY DEF LoopsOK, Move, LoopOK

LEMMA LeaveOK ==
  ASSUME NEW a \in Actors, LoopsOK, NEW b \in Batches, b.i \in 1 .. Len(b.edits), Leave(a, b)
  PROVE  LoopsOK' /\ pc'[a] \in {"examine", "applied"} /\ batch'[a].policy = b.policy
<1> DEFINE to == IF b.i < Len(b.edits) THEN "examine" ELSE "applied"
           c  == [Forget(b) EXCEPT !.i = b.i + 1]
<1>1. Len(b.edits) \in Nat  BY DEF Batches
<1>2. Forget(b) \in Batches /\ Forget(b).edits = b.edits /\ Forget(b).policy = b.policy
  BY DEF Forget, Batches, Contents
<1>3. c \in Batches /\ c.i = b.i + 1 /\ c.edits = b.edits /\ c.policy = b.policy
  BY <1>1, <1>2 DEF Batches
<1>4. LoopOK(to, c)
  BY <1>1, <1>3 DEF LoopOK, Stops, Applying, Working, Decided
<1>5. Move(a, to, c)  BY DEF Leave
<1>6. pc'[a] = to /\ batch'[a] = c  BY <1>5 DEF Move, LoopsOK
<1>7. QED  BY <1>3, <1>4, <1>5, <1>6, MoveOK

\* What every step of an edit loop does to the loops.
Advances(a) ==
  /\ LoopsOK'
  /\ pc[a] \in Working
  /\ pc'[a] \in Applying
  /\ batch'[a].policy = batch[a].policy
  /\ \A o \in Actors \ {a} : pc'[o] = pc[o] /\ batch'[o] = batch[o]

LEMMA MoveAdvances ==
  ASSUME NEW a \in Actors, LoopsOK, pc[a] \in Working, NEW to \in Applying, NEW b,
         Move(a, to, b), LoopOK(to, b), b.policy = batch[a].policy
  PROVE  Advances(a)
<1>1. LoopsOK'  BY MoveOK
<1>2. QED  BY <1>1 DEF Advances, Move, LoopsOK

LEMMA LeaveAdvances ==
  ASSUME NEW a \in Actors, LoopsOK, pc[a] \in Working, Leave(a, batch[a])
  PROVE  Advances(a)
<1>1. batch[a] \in Batches /\ batch[a].i \in 1 .. Len(batch[a].edits)
  BY DEF LoopsOK, LoopOK
<1>2. LoopsOK' /\ pc'[a] \in Applying /\ batch'[a].policy = batch[a].policy
  BY <1>1, LeaveOK DEF Applying
<1>3. \A o \in Actors \ {a} : pc'[o] = pc[o] /\ batch'[o] = batch[o]
  BY DEF Leave, Move, LoopsOK
<1>4. QED  BY <1>2, <1>3 DEF Advances

LEMMA ExamineAdvances == ASSUME NEW a \in Actors, LoopsOK, Examine(a) PROVE Advances(a)
<1>1. LoopOK(pc[a], batch[a]) /\ pc[a] = "examine" /\ pc[a] \in Working
  BY DEF LoopsOK, Examine, Working
<1>2. CASE Leave(a, batch[a])
  BY <1>1, <1>2, LeaveAdvances
<1>3. CASE /\ ~Blocked(batch[a].policy, Edit(a).file)
           /\ batch[a].policy \in Automatic
           /\ Move(a, "save", batch[a])
  <2>1. LoopOK("save", batch[a])
    BY <1>1, <1>3 DEF LoopOK, Working, Decided, Stops, Applying, Permits, Blocked, Automatic, Edit
  <2>2. QED  BY <1>1, <1>3, <2>1, MoveAdvances DEF Applying
<1>4. CASE batch[a].policy \in Asking /\ Move(a, "asking", batch[a])
  <2>1. LoopOK("asking", batch[a])
    BY <1>1, <1>4 DEF LoopOK, Working, Decided, Stops, Applying
  <2>2. QED  BY <1>1, <1>4, <2>1, MoveAdvances DEF Applying
<1>5. QED  BY <1>2, <1>3, <1>4 DEF Examine

LEMMA HearAdvances == ASSUME NEW a \in Actors, LoopsOK, Hear(a) PROVE Advances(a)
<1>1. LoopOK(pc[a], batch[a]) /\ pc[a] = "asking" /\ pc[a] \in Working
  BY DEF LoopsOK, Hear, Working
<1>2. CASE Leave(a, batch[a])
  BY <1>1, <1>2, LeaveAdvances
<1>3. ASSUME NEW answer \in Answers, Accepts(batch[a].policy, Edit(a).file, answer),
             Move(a, "save", [batch[a] EXCEPT !.heard = answer])
      PROVE  Advances(a)
  <2> DEFINE b == [batch[a] EXCEPT !.heard = answer]
  <2>1. /\ b \in Batches /\ b.heard = answer /\ b.policy = batch[a].policy
        /\ b.i = batch[a].i /\ b.edits = batch[a].edits
    BY <1>1 DEF LoopOK, Batches
  <2>2. Permits(b.policy, b.edits[b.i].file, answer)
    BY <1>1, <1>3, <2>1 DEF LoopOK, Permits, Accepts, Edit, Asking
  <2>3. LoopOK("save", b)
    BY <1>1, <2>1, <2>2 DEF LoopOK, Working, Decided, Stops, Applying
  <2>4. QED  BY <1>1, <1>3, <2>1, <2>3, MoveAdvances DEF Applying
<1>4. QED  BY <1>2, <1>3 DEF Hear

LEMMA SaveAdvances ==
  ASSUME NEW a \in Actors, LoopsOK, SkipCheckpoint(a) \/ CreateGitCheckpoint(a) \/ CheckpointFails(a)
  PROVE  Advances(a)
<1> DEFINE s == [batch[a] EXCEPT !.saved = "yes"]
<1>1. LoopOK(pc[a], batch[a]) /\ pc[a] = "save" /\ pc[a] \in Working
  BY DEF LoopsOK, SkipCheckpoint, CreateGitCheckpoint, CheckpointFails, Working
<1>2. /\ s \in Batches /\ s.heard = batch[a].heard /\ s.policy = batch[a].policy
      /\ s.i = batch[a].i /\ s.edits = batch[a].edits
  BY <1>1 DEF LoopOK, Batches
<1>3. LoopOK("apply", batch[a]) /\ LoopOK("apply", s)
  BY <1>1, <1>2 DEF LoopOK, Working, Decided, Stops, Applying
<1>4. Move(a, "apply", batch[a]) \/ Move(a, "apply", s)
  BY DEF SkipCheckpoint, CreateGitCheckpoint, CheckpointFails
<1>5. QED  BY <1>1, <1>2, <1>3, <1>4, MoveAdvances DEF Applying

LEMMA ReadAdvances == ASSUME NEW a \in Actors, LoopsOK, DiskOK, ApplyRead(a) PROVE Advances(a)
<1> DEFINE s == [batch[a] EXCEPT !.seen = disk[Edit(a).file]]
<1>1. LoopOK(pc[a], batch[a]) /\ pc[a] = "apply" /\ pc[a] \in Working
  BY DEF LoopsOK, ApplyRead, Working
<1>2. CASE Leave(a, batch[a])
  BY <1>1, <1>2, LeaveAdvances
<1>3. CASE disk[Edit(a).file] # Absent /\ Move(a, "patch", s)
  <2>1. Edit(a) \in Edits
    BY <1>1 DEF LoopOK, Working, Batches, Edit
  <2>2. disk[Edit(a).file] \in Contents
    BY <1>3, <2>1 DEF DiskOK, Trees, Edits
  <2>3. /\ s \in Batches /\ s.heard = batch[a].heard /\ s.policy = batch[a].policy
        /\ s.i = batch[a].i /\ s.edits = batch[a].edits
    BY <1>1, <2>2 DEF LoopOK, Batches
  <2>4. LoopOK("patch", s)
    BY <1>1, <2>3 DEF LoopOK, Working, Decided, Stops, Applying
  <2>5. QED  BY <1>1, <1>3, <2>3, <2>4, MoveAdvances DEF Applying
<1>4. QED  BY <1>2, <1>3 DEF ApplyRead

LEMMA WriteAdvances == ASSUME NEW a \in Actors, LoopsOK, ApplyWrite(a) \/ ApplyPatch(a) PROVE Advances(a)
<1>1. Leave(a, batch[a]) /\ pc[a] \in Working
  BY DEF ApplyWrite, ApplyPatch, WriteFile, Working
<1>2. QED  BY <1>1, LeaveAdvances

LEMMA ApplyAdvances == ASSUME NEW a \in Actors, LoopsOK, DiskOK, ApplyStep(a) PROVE Advances(a)
BY ExamineAdvances, HearAdvances, SaveAdvances, ReadAdvances, WriteAdvances DEF ApplyStep

-----------------------------------------------------------------------------
(* The working tree.                                                       *)

\* Loop a writes a file that its policy lets it write.
Writes(a) ==
  /\ pc[a] \in {"apply", "patch"}
  /\ Edit(a) \in Edits
  /\ Permits(batch[a].policy, Edit(a).file, batch[a].heard)
  /\ \E content \in Contents : Put(Edit(a).file, content)

LEMMA WriteFileWrites ==
  ASSUME NEW a \in Actors, LoopsOK, pc[a] \in {"apply", "patch"}, NEW content \in Contents,
         WriteFile(a, content)
  PROVE  Writes(a) \/ UNCHANGED <<disk, since>>
<1>1. Edit(a) \in Edits /\ Permits(batch[a].policy, Edit(a).file, batch[a].heard)
  BY DEF LoopsOK, LoopOK, Batches, Edit, Working, Decided
<1>2. {} \in Contents  BY DEF Contents
<1>3. QED  BY <1>1, <1>2 DEF WriteFile, Writes

LEMMA ApplyWrites ==
  ASSUME NEW a \in Actors, LoopsOK, DiskOK, ApplyStep(a)
  PROVE  /\ Writes(a) \/ UNCHANGED <<disk, since>>
         /\ checkpoint' \in {NoCheckpoint} \cup Trees
         /\ inRepo' = inRepo /\ rolled' = rolled
<1>1. CASE Examine(a)  BY <1>1 DEF Examine, DiskOK
<1>2. CASE Hear(a)  BY <1>2 DEF Hear, DiskOK
<1>3. CASE SkipCheckpoint(a) \/ CreateGitCheckpoint(a) \/ CheckpointFails(a)
  BY <1>3 DEF SkipCheckpoint, CreateGitCheckpoint, CheckpointFails, DiskOK
<1>4. CASE ApplyRead(a)  BY <1>4 DEF ApplyRead, DiskOK
<1>5. CASE ApplyWrite(a)
  <2>1. pc[a] = "apply" /\ Edit(a) \in Edits
    BY <1>5 DEF ApplyWrite, LoopsOK, LoopOK, Batches, Edit, Working
  <2>2. {Edit(a).new} \in Contents  BY <2>1 DEF Edits, Contents
  <2>3. Writes(a) \/ UNCHANGED <<disk, since>>
    BY <1>5, <2>1, <2>2, WriteFileWrites DEF ApplyWrite
  <2>4. QED  BY <1>5, <2>3 DEF ApplyWrite, DiskOK
<1>6. CASE ApplyPatch(a)
  <2>1. pc[a] = "patch" /\ Edit(a) \in Edits /\ batch[a].seen \in Contents
    BY <1>6 DEF ApplyPatch, LoopsOK, LoopOK, Batches, Edit, Working
  <2>2. (batch[a].seen \ {Edit(a).old}) \cup {Edit(a).new} \in Contents
    BY <2>1 DEF Edits, Contents
  <2>3. Writes(a) \/ UNCHANGED <<disk, since>>
    BY <1>6, <2>1, <2>2, WriteFileWrites DEF ApplyPatch
  <2>4. QED  BY <1>6, <2>3 DEF ApplyPatch, DiskOK
<1>7. QED  BY <1>1, <1>2, <1>3, <1>4, <1>5, <1>6 DEF ApplyStep

\* A file that is written counts as written since the last rollback.
LEMMA ApplyKeepsTree ==
  ASSUME NEW a \in Actors, LoopsOK, DiskOK, RollbackOK, ApplyStep(a)
  PROVE  DiskOK' /\ RollbackOK'
<1>1. Advances(a)  BY ApplyAdvances
<1>2. pc'[Chat] = "clean" => pc[Chat] = "clean"
  BY <1>1, ActorsAssumption DEF Advances, Applying
<1>3. /\ checkpoint' \in {NoCheckpoint} \cup Trees
      /\ rolled' = rolled
  BY ApplyWrites
<1>4. CASE UNCHANGED <<disk, since>>
  BY <1>2, <1>3, <1>4 DEF DiskOK, RollbackOK, NoEditSurvivesRollback
<1>5. CASE Writes(a)
  <2>1. PICK content \in Contents : Put(Edit(a).file, content)
    BY <1>5 DEF Writes
  <2>2. Edit(a).file \in Files  BY <1>5 DEF Writes, Edits
  <2>3. DiskOK'
    BY <1>3, <2>1, <2>2 DEF Put, DiskOK, Trees
  <2>4. \A f \in Files \ since' : f \notin since /\ disk'[f] = disk[f]
    BY <2>1, <2>2 DEF Put, DiskOK, Trees
  <2>5. RollbackOK'
    BY <1>2, <1>3, <2>4 DEF RollbackOK, NoEditSurvivesRollback
  <2>6. QED  BY <2>3, <2>5
<1>6. QED  BY <1>4, <1>5, ApplyWrites

LEMMA ApplyInv ==
  ASSUME NEW a \in Actors, IInv, ApplyStep(a), UNCHANGED svars
  PROVE  IInv'
<1>1. Advances(a)  BY ApplyAdvances DEF IInv
<1>2. Chat \in Actors  BY ActorsAssumption
<1>3. DiskOK' /\ RollbackOK'  BY ApplyKeepsTree DEF IInv
<1>4. PolicyStays'
  BY <1>1, <1>2 DEF PolicyStays, Advances, IInv, svars
<1>5. pc'[Chat] = "sending" <=> pc[Chat] = "sending"
  BY <1>1, <1>2 DEF Advances, Working, Applying
<1>6. HistoryOK'
  BY <1>5 DEF HistoryOK, Alternates, IInv, svars
<1>7. CountsOK'
  BY <1>1, <1>2, ApplyWrites DEF CountsOK, IInv, svars, Advances, Working
<1>8. QED  BY <1>1, <1>3, <1>4, <1>6, <1>7 DEF IInv, Advances

-----------------------------------------------------------------------------
(* Rollback.                                                               *)

\* A loop that moves to a place where it does not work keeps its batch.
LEMMA RestOK ==
  ASSUME NEW a \in Actors, LoopsOK, NEW to \in Stops \ Working,
         pc' = [pc EXCEPT ![a] = to], batch' = batch
  PROVE  LoopsOK'
<1>1. to \notin Decided /\ to # "asking"  BY DEF Working, Decided
<1>2. QED  BY <1>1 DEF LoopsOK, LoopOK

LEMMA CheckoutTree ==
  ASSUME DiskOK, RollbackCheckout(Chat), pc' = [pc EXCEPT ![Chat] = "clean"],
         pc \in [Actors -> Stops]
  PROVE  DiskOK' /\ RollbackOK'
<1>1. DiskOK'
  BY TreesAssumption DEF RollbackCheckout, DiskOK, Trees
<1>2. rolled' = FALSE /\ (\A f \in Files : Index[f] # Absent => disk'[f] = Index[f])
  BY DEF RollbackCheckout
<1>3. QED  BY <1>1, <1>2 DEF RollbackOK, NoEditSurvivesRollback

LEMMA CleanTree ==
  ASSUME DiskOK, RollbackOK, RollbackClean(Chat) \/ RollbackCleanFails(Chat),
         LoopsOK
  PROVE  DiskOK' /\ RollbackOK'
<1> USE ActorsAssumption
<1>1. pc[Chat] = "clean" /\ pc'[Chat] = "idle" /\ since' = since /\ checkpoint' = checkpoint
  BY DEF RollbackClean, RollbackCleanFails, LoopsOK
<1>2. CASE RollbackClean(Chat)
  <2>1. disk' = [f \in Files |-> IF Index[f] = Absent /\ f \notin Ignored THEN Absent ELSE disk[f]]
    BY <1>2 DEF RollbackClean
  <2>2. DiskOK'
    BY <1>1, <2>1 DEF DiskOK, Trees
  <2>3. \A f \in Files \ (since \cup Ignored) : disk'[f] = Index[f]
    BY <1>1, <2>1 DEF RollbackOK
  <2>4. rolled' \in BOOLEAN
    BY <1>2 DEF RollbackClean
  <2>5. QED  BY <1>1, <2>2, <2>3, <2>4 DEF RollbackOK, NoEditSurvivesRollback
<1>3. CASE RollbackCleanFails(Chat)
  <2>1. rolled' = FALSE
    BY <1>1, <1>3 DEF RollbackCleanFails, RollbackOK
  <2>2. DiskOK'
    BY <1>1, <1>3 DEF RollbackCleanFails, DiskOK, Trees
  <2>3. QED  BY <1>1, <2>1, <2>2 DEF RollbackOK, NoEditSurvivesRollback
<1>4. QED  BY <1>2, <1>3

LEMMA RollbackInv == ASSUME IInv, RollbackStep(Chat), UNCHANGED svars PROVE IInv'
<1> USE ActorsAssumption
<1>1. PICK to \in {"idle", "clean"} : pc' = [pc EXCEPT ![Chat] = to]
  BY DEF RollbackStep, RollbackRefused, RollbackCheckout, RollbackClean, RollbackCleanFails
<1>2. pc[Chat] \in {"rollback", "clean"} /\ batch' = batch /\ inRepo' = inRepo
  BY DEF RollbackStep, RollbackRefused, RollbackCheckout, RollbackClean, RollbackCleanFails
<1>3. pc'[Chat] = to  BY <1>1 DEF IInv, LoopsOK
<1>4. LoopsOK'
  BY <1>1, <1>2, RestOK DEF IInv, Stops, Working
<1>5. PolicyStays'
  BY <1>3 DEF IInv, PolicyStays, svars, Working
<1>6. DiskOK' /\ RollbackOK'
  <2>1. CASE RollbackRefused(Chat)
    BY <2>1 DEF RollbackRefused, IInv, DiskOK, RollbackOK, NoEditSurvivesRollback, LoopsOK
  <2>2. CASE RollbackCheckout(Chat)
    BY <2>2, CheckoutTree DEF RollbackCheckout, IInv, LoopsOK
  <2>3. CASE RollbackClean(Chat) \/ RollbackCleanFails(Chat)
    BY <2>3, CleanTree DEF IInv
  <2>4. QED  BY <2>1, <2>2, <2>3 DEF RollbackStep
<1>7. HistoryOK'
  BY <1>2, <1>3 DEF IInv, HistoryOK, Alternates, svars
<1>8. CountsOK'
  BY <1>2, <1>3 DEF IInv, CountsOK, svars
<1>9. QED  BY <1>4, <1>5, <1>6, <1>7, <1>8 DEF IInv

-----------------------------------------------------------------------------
(* The steps that leave the working tree alone.                            *)

LEMMA BeginOK ==
  ASSUME NEW a \in Actors, LoopsOK, NEW edits \in Seq(Edits),
         NEW p \in Policies \cup NexusPolicies, Begin(a, edits, p)
  PROVE  /\ LoopsOK'
         /\ pc'[a] \in {"examine", "applied"} /\ batch'[a].policy = p
         /\ \A o \in Actors \ {a} : pc'[o] = pc[o] /\ batch'[o] = batch[o]
<1> DEFINE b  == NewBatch(edits, p)
           to == IF edits = <<>> \/ p \in ReadOnly THEN "applied" ELSE "examine"
<1>1. b \in Batches /\ b.policy = p /\ b.i = 1 /\ b.edits = edits
  BY DEF NewBatch, Batches, Contents
<1>2. edits # <<>> => 1 \in 1 .. Len(edits)
  OBVIOUS
<1>3. LoopOK(to, b)
  BY <1>1, <1>2 DEF LoopOK, Stops, Applying, Working, Decided
<1>4. Move(a, to, b)  BY DEF Begin
<1>5. LoopsOK'  BY <1>3, <1>4, MoveOK
<1>6. pc'[a] = to /\ batch'[a] = b /\ \A o \in Actors \ {a} : pc'[o] = pc[o] /\ batch'[o] = batch[o]
  BY <1>4 DEF Move, LoopsOK
<1>7. QED  BY <1>1, <1>5, <1>6

\* A call is over, or the process is.
LEMMA OverOK ==
  ASSUME NEW a \in Actors, LoopsOK, End \/ Move(a, "idle", NoBatch)
  PROVE  /\ LoopsOK'
         /\ pc'[a] \in {"idle", "off"}
         /\ \A o \in Actors \ {a} : (pc'[o] = pc[o] /\ batch'[o] = batch[o]) \/ pc'[o] = "off"
<1>1. LoopOK("idle", NoBatch) /\ LoopOK("off", NoBatch)
  BY NoBatchOK DEF LoopOK, Stops, Working, Decided
<1>2. CASE Move(a, "idle", NoBatch)
  BY <1>1, <1>2, MoveOK DEF Move, LoopsOK
<1>3. CASE End
  BY <1>1, <1>3, NoBatchOK DEF End, LoopsOK, Stops
<1>4. QED  BY <1>2, <1>3

\* The conversation: a question, its withdrawal, an answer.
LEMMA Asked ==
  ASSUME NEW h \in Seq({"user", "assistant"}), Alternates(h),
         h # <<>> => h[Len(h)] # "user",
         NEW g, g = Append(h, "user")
  PROVE  g \in Seq({"user", "assistant"}) /\ Alternates(g) /\ g # <<>> /\ g[Len(g)] = "user"
<1>1. /\ g \in Seq({"user", "assistant"}) /\ Len(g) = Len(h) + 1 /\ Len(h) \in Nat
      /\ g[Len(g)] = "user" /\ \A k \in 1 .. Len(h) : g[k] = h[k]
  OBVIOUS
<1>2. Len(h) > 0 => h[Len(h)] = "assistant"
  OBVIOUS
<1>3. Alternates(g)
  BY <1>1, <1>2 DEF Alternates
<1>4. QED  BY <1>1, <1>3

LEMMA Withdrawn ==
  ASSUME NEW h \in Seq({"user", "assistant"}), Alternates(h), h # <<>>, h[Len(h)] = "user",
         NEW g, g = SubSeq(h, 1, Len(h) - 1)
  PROVE  g \in Seq({"user", "assistant"}) /\ Alternates(g) /\ (g # <<>> => g[Len(g)] # "user")
<1>1. Len(h) \in Nat /\ Len(h) > 0 /\ DOMAIN h = 1 .. Len(h)
  OBVIOUS
<1>2. g = [k \in 1 .. Len(h) - 1 |-> h[k]]
  BY <1>1
<1>3. \A k \in 1 .. Len(h) - 1 : h[k] \in {"user", "assistant"}
  BY <1>1
<1>4. g \in [1 .. Len(h) - 1 -> {"user", "assistant"}]
  BY <1>2, <1>3
<1>5. g \in Seq({"user", "assistant"}) /\ Len(g) = Len(h) - 1
  BY <1>1, <1>4
<1>6. \A k \in 1 .. Len(h) : h[k] = IF k = 1 \/ h[k - 1] = "assistant" THEN "user" ELSE "assistant"
  BY <1>1, Zenon DEF Alternates
<1>7. \A k \in DOMAIN g : g[k] = IF k = 1 \/ g[k - 1] = "assistant" THEN "user" ELSE "assistant"
  BY <1>1, <1>2, <1>6
<1>8. Alternates(g)
  BY <1>7, Zenon DEF Alternates
<1>9. Len(h) > 1 => h[Len(h) - 1] = "assistant"
  BY <1>1, <1>6
<1>10. QED  BY <1>1, <1>2, <1>5, <1>8, <1>9

LEMMA Answered ==
  ASSUME NEW h \in Seq({"user", "assistant"}), Alternates(h), h # <<>>, h[Len(h)] = "user",
         NEW g, g = Append(h, "assistant")
  PROVE  g \in Seq({"user", "assistant"}) /\ Alternates(g) /\ g # <<>> /\ g[Len(g)] # "user"
<1>1. /\ g \in Seq({"user", "assistant"}) /\ Len(g) = Len(h) + 1 /\ Len(h) \in Nat /\ Len(h) > 0
      /\ g[Len(g)] = "assistant" /\ \A k \in 1 .. Len(h) : g[k] = h[k]
  OBVIOUS
<1>2. Alternates(g)
  BY <1>1 DEF Alternates
<1>3. QED  BY <1>1, <1>2

LEMMA QuietTree ==
  ASSUME DiskOK, RollbackOK, Quiet, pc'[Chat] = "clean" => pc[Chat] = "clean"
  PROVE  DiskOK' /\ RollbackOK'
BY DEF DiskOK, RollbackOK, NoEditSurvivesRollback, Quiet

LEMMA CommandInv == ASSUME IInv, SetPolicy \/ Clear \/ Rollback PROVE IInv'
<1> USE ActorsAssumption
<1>1. CASE SetPolicy \/ Clear
  <2>1. pc' = pc /\ batch' = batch /\ pc[Chat] = "idle" /\ turns' = turns + 1 /\ mode' = mode
        /\ tasks' = tasks /\ Quiet
    BY <1>1 DEF SetPolicy, Clear, AtPrompt
  <2>2. DiskOK' /\ RollbackOK'
    BY <2>1, QuietTree DEF IInv
  <2>3. LoopsOK'
    BY <2>1 DEF IInv, LoopsOK
  <2>4. PolicyStays'
    BY <1>1, <2>1 DEF IInv, PolicyStays, SetPolicy, Clear, Working
  <2>5. HistoryOK'
    <3>1. history' = history \/ history' = <<>>
      BY <1>1 DEF SetPolicy, Clear
    <3>2. CASE history' = history
      BY <2>1, <3>2 DEF IInv, HistoryOK, Alternates
    <3>3. CASE history' = <<>>
      BY <2>1, <3>3 DEF HistoryOK, Alternates
    <3>4. QED  BY <3>1, <3>2, <3>3
  <2>6. CountsOK'
    BY <2>1 DEF IInv, CountsOK, Quiet
  <2>7. QED  BY <2>2, <2>3, <2>4, <2>5, <2>6 DEF IInv
<1>2. CASE Rollback
  <2>1. /\ pc[Chat] = "idle" /\ pc' = [pc EXCEPT ![Chat] = "rollback"] /\ batch' = batch
        /\ turns' = turns + 1 /\ Quiet /\ UNCHANGED <<mode, policy, history, tasks>>
    BY <1>2 DEF Rollback, AtPrompt, Transition
  <2>2. pc'[Chat] = "rollback"
    BY <2>1 DEF IInv, LoopsOK
  <2>3. DiskOK' /\ RollbackOK'
    BY <2>1, <2>2, QuietTree DEF IInv
  <2>4. LoopsOK'
    BY <2>1, RestOK DEF IInv, Stops, Working
  <2>5. PolicyStays' /\ HistoryOK'
    BY <2>1, <2>2 DEF IInv, PolicyStays, HistoryOK, Alternates, Working
  <2>6. CountsOK'
    BY <2>1, <2>2 DEF IInv, CountsOK, Quiet
  <2>7. QED  BY <2>3, <2>4, <2>5, <2>6 DEF IInv
<1>3. QED  BY <1>1, <1>2

LEMMA ExitInv == ASSUME IInv, Exit PROVE IInv'
<1> USE ActorsAssumption
<1>1. End /\ Quiet /\ UNCHANGED svars /\ pc[Chat] # "sending"
  BY DEF Exit, IInv, CountsOK
<1>2. LoopsOK' /\ pc'[Chat] = "off"
  BY <1>1, OverOK DEF IInv, End
<1>3. DiskOK' /\ RollbackOK'
  BY <1>1, <1>2, QuietTree DEF IInv
<1>4. PolicyStays' /\ HistoryOK'
  BY <1>1, <1>2 DEF IInv, PolicyStays, HistoryOK, Alternates, svars, Working
<1>5. CountsOK'
  BY <1>1, <1>2 DEF IInv, CountsOK, Quiet, svars
<1>6. QED  BY <1>2, <1>3, <1>4, <1>5 DEF IInv

LEMMA PromptInv == ASSUME IInv, Prompt PROVE IInv'
<1> USE ActorsAssumption
<1>1. /\ pc[Chat] = "idle" /\ pc' = [pc EXCEPT ![Chat] = "sending"] /\ batch' = batch
      /\ history' = Append(history, "user") /\ turns' = turns + 1
      /\ Quiet /\ UNCHANGED <<mode, policy, tasks>>
  BY DEF Prompt, AtPrompt, Transition
<1>2. pc'[Chat] = "sending"
  BY <1>1 DEF IInv, LoopsOK
<1>3. DiskOK' /\ RollbackOK'
  BY <1>1, <1>2, QuietTree DEF IInv
<1>4. LoopsOK'
  BY <1>1, RestOK DEF IInv, Stops, Working
<1>5. PolicyStays'
  BY <1>1, <1>2 DEF IInv, PolicyStays, Working
<1>6. HistoryOK'
  BY <1>1, <1>2, Asked DEF IInv, HistoryOK
<1>7. CountsOK'
  BY <1>1, <1>2 DEF IInv, CountsOK, Quiet
<1>8. QED  BY <1>3, <1>4, <1>5, <1>6, <1>7 DEF IInv

\* The end of a turn, but for the conversation.
LEMMA EndTurnInv ==
  ASSUME IInv, pc[Chat] \in {"sending", "applied"}, EndTurn, Quiet, UNCHANGED <<mode, policy, turns, tasks>>
  PROVE  LoopsOK' /\ PolicyStays' /\ DiskOK' /\ RollbackOK' /\ CountsOK' /\ pc'[Chat] # "sending"
<1> USE ActorsAssumption
<1>1. LoopsOK' /\ pc'[Chat] \in {"idle", "off"}
  BY OverOK DEF EndTurn, IInv
<1>2. DiskOK' /\ RollbackOK'
  BY <1>1, QuietTree DEF IInv
<1>3. PolicyStays' /\ CountsOK'
  BY <1>1 DEF IInv, PolicyStays, CountsOK, Quiet, Working
<1>4. QED  BY <1>1, <1>2, <1>3

LEMMA SendFailsInv == ASSUME IInv, SendFails PROVE IInv'
<1>1. LoopsOK' /\ PolicyStays' /\ DiskOK' /\ RollbackOK' /\ CountsOK' /\ pc'[Chat] # "sending"
  BY EndTurnInv DEF SendFails
<1>2. HistoryOK'
  BY <1>1, Withdrawn DEF IInv, HistoryOK, SendFails
<1>3. QED  BY <1>1, <1>2 DEF IInv

LEMMA FinishTurnInv == ASSUME IInv, FinishTurn PROVE IInv'
<1>1. LoopsOK' /\ PolicyStays' /\ DiskOK' /\ RollbackOK' /\ CountsOK' /\ pc'[Chat] # "sending"
  BY EndTurnInv DEF FinishTurn, svars
<1>2. HistoryOK'
  BY <1>1 DEF IInv, HistoryOK, Alternates, FinishTurn, svars
<1>3. QED  BY <1>1, <1>2 DEF IInv

LEMMA ReplyInv == ASSUME IInv, Reply PROVE IInv'
<1> USE ActorsAssumption
<1>1. PICK reply \in Replies : Begin(Chat, ParseProposedEdits(reply), policy)
  BY DEF Reply
<1>2. LoopsOK' /\ pc'[Chat] \in {"examine", "applied"} /\ batch'[Chat].policy = policy
  BY <1>1, BeginOK, RepliesAssumption DEF IInv, PolicyStays
<1>3. pc[Chat] = "sending" /\ Quiet /\ UNCHANGED <<mode, policy, turns, tasks>>
      /\ history' = Append(history, "assistant")
  BY DEF Reply
<1>4. DiskOK' /\ RollbackOK'
  BY <1>2, <1>3, QuietTree DEF IInv
<1>5. PolicyStays' /\ CountsOK'
  BY <1>2, <1>3 DEF IInv, PolicyStays, CountsOK, Quiet
<1>6. HistoryOK'
  BY <1>2, <1>3, Answered DEF IInv, HistoryOK
<1>7. QED  BY <1>2, <1>4, <1>5, <1>6 DEF IInv

LEMMA TaskInv == ASSUME IInv, TakeTask \/ TaskReply \/ FinishTask PROVE IInv'
<1> USE ActorsAssumption
<1>1. Quiet /\ UNCHANGED <<mode, policy, history, turns>> /\ tasks' \in Nat
  <2>1. tasks \in Nat  BY DEF IInv, CountsOK
  <2>2. CASE TakeTask  BY <2>1, <2>2 DEF TakeTask
  <2>3. CASE TaskReply \/ FinishTask  BY <2>1, <2>3 DEF TaskReply, FinishTask, svars
  <2>4. QED  BY <2>2, <2>3
<1>2. LoopsOK' /\ pc'[Chat] = pc[Chat] /\ batch'[Chat] = batch[Chat]
  <2>1. CASE TakeTask
    <3>1. pc' = [pc EXCEPT ![Remote] = "sending"] /\ batch' = batch
      BY <2>1 DEF TakeTask, Transition
    <3>2. LoopsOK'
      BY <3>1, RestOK DEF IInv, Stops, Working
    <3>3. QED  BY <3>1, <3>2 DEF IInv, LoopsOK
  <2>2. CASE TaskReply
    <3>1. PICK reply \in Replies, text \in Policies \cup {""} :
            Begin(Remote, ParseProposedEdits(reply), TaskPolicy(text))
      BY <2>2 DEF TaskReply
    <3>2. TaskPolicy(text) \in Policies  BY DEF TaskPolicy, Policies
    <3>3. QED  BY <3>1, <3>2, BeginOK, RepliesAssumption DEF IInv
  <2>3. CASE FinishTask
    <3>1. Move(Remote, "idle", NoBatch)  BY <2>3 DEF FinishTask
    <3>2. LoopsOK'  BY <3>1, OverOK DEF IInv
    <3>3. QED  BY <3>1, <3>2 DEF Move, IInv, LoopsOK
  <2>4. QED  BY <2>1, <2>2, <2>3
<1>3. DiskOK' /\ RollbackOK'
  BY <1>1, <1>2, QuietTree DEF IInv
<1>4. PolicyStays' /\ HistoryOK' /\ CountsOK'
  BY <1>1, <1>2 DEF IInv, PolicyStays, HistoryOK, Alternates, CountsOK, Quiet
<1>5. QED  BY <1>2, <1>3, <1>4 DEF IInv

-----------------------------------------------------------------------------
(* The theorems.                                                           *)

LEMMA InitInv == Init => IInv
<1> SUFFICES ASSUME Init PROVE IInv  OBVIOUS
<1> USE ActorsAssumption
<1>1. /\ pc \in [Actors -> {"idle", "off"}] /\ batch = [a \in Actors |-> NoBatch]
      /\ mode = "daemon" => pc[Chat] = "off"
  <2>1. PICK listening \in BOOLEAN :
          pc = [a \in Actors |->
                  IF a = Chat THEN (IF mode = "daemon" THEN "off" ELSE "idle")
                  ELSE IF mode = "daemon" \/ (mode = "chat" /\ listening) THEN "idle" ELSE "off"]
    BY DEF Init
  <2>2. QED  BY <2>1 DEF Init, WorkspaceInit
<1>2. LoopsOK
  BY <1>1, NoBatchOK DEF LoopsOK, LoopOK, Stops, Working, Decided
<1>3. policy \in Policies \cup NexusPolicies
  <2>1. ASSUME NEW f \in Policies, NEW c \in Policies \cup {""}
        PROVE  InitialPolicy(f, c) \in Policies
    BY DEF InitialPolicy
  <2>2. QED  BY <2>1 DEF Init, NexusPolicies
<1>4. PolicyStays
  BY <1>1, <1>3 DEF PolicyStays, Working
<1>5. DiskOK /\ RollbackOK
  BY <1>1, TreesAssumption DEF Init, WorkspaceInit, DiskOK, RollbackOK, NoEditSurvivesRollback, Trees
<1>6. HistoryOK
  <2>1. history = <<>> /\ pc[Chat] # "sending"
    BY <1>1 DEF Init
  <2>2. QED  BY <2>1 DEF HistoryOK, Alternates
<1>7. CountsOK
  BY <1>1 DEF Init, WorkspaceInit, CountsOK, Modes
<1>8. QED  BY <1>2, <1>4, <1>5, <1>6, <1>7 DEF IInv

LEMMA NextInv == IInv /\ [Next]_vars => IInv'
<1> SUFFICES ASSUME IInv, [Next]_vars PROVE IInv'  OBVIOUS
<1>1. CASE UNCHANGED vars
  BY <1>1 DEF vars, IInv, LoopsOK, PolicyStays, DiskOK, RollbackOK, NoEditSurvivesRollback,
      HistoryOK, Alternates, CountsOK
<1>2. CASE Next
  BY <1>2, ActorsAssumption, CommandInv, ExitInv, PromptInv, SendFailsInv, ReplyInv, FinishTurnInv,
     TaskInv, ApplyInv, RollbackInv
  DEF Next, ChatStep, RemoteStep
<1>3. QED  BY <1>1, <1>2

LEMMA Invariance == Spec => []IInv
BY InitInv, NextInv, PTL DEF Spec

\* Type correctness, and with it the shape of the conversation: questions and
\* answers in turn, whatever fails, is cleared or applied in between.
THEOREM TypeCorrect == Spec => []TypeOK
<1>1. IInv => TypeOK
  BY DEF IInv, TypeOK, LoopsOK, PolicyStays, DiskOK, RollbackOK, HistoryOK, CountsOK
<1>2. QED  BY <1>1, Invariance, PTL

\* Only a write of a file adds it to those written since the checkout.
LEMMA StepExempts ==
  ASSUME IInv, Next, NEW f \in Files, f \in since' \ since
  PROVE  \E a \in Actors : pc[a] \in {"apply", "patch"} /\ Edit(a).file = f
<1> USE ActorsAssumption
<1>1. CASE \E a \in Actors : ApplyStep(a)
  <2>1. PICK a \in Actors : ApplyStep(a)  BY <1>1
  <2>2. since' # since  OBVIOUS
  <2>3. ApplyWrite(a) \/ ApplyPatch(a)
    BY <2>1, <2>2 DEF ApplyStep, Examine, Hear, SkipCheckpoint, CreateGitCheckpoint, CheckpointFails,
       ApplyRead
  <2>4. pc[a] \in {"apply", "patch"} /\ since' = since \cup {Edit(a).file}
    BY <2>2, <2>3 DEF ApplyWrite, ApplyPatch, WriteFile, Put
  <2>5. QED  BY <2>4
<1>2. CASE RollbackStep(Chat)
  BY <1>2 DEF RollbackStep, RollbackRefused, RollbackCheckout, RollbackClean, RollbackCleanFails
<1>3. CASE Quiet
  BY <1>3 DEF Quiet
<1>4. QED
  BY <1>1, <1>2, <1>3
  DEF Next, ChatStep, RemoteStep, SetPolicy, Clear, Rollback, Exit, Prompt, SendFails, Reply,
      FinishTurn, TakeTask, TaskReply, FinishTask

\* A file is exempt from the tree a rollback restores only from the step on
\* that writes it, by a loop that is applying an edit of that very file.
ExemptWhenWritten ==
  \A f \in Files : f \in since' \ since =>
    \E a \in Actors : pc[a] \in {"apply", "patch"} /\ Edit(a).file = f

\* A /rollback that says SUCCESS leaves every file as git tracks it, for any
\* tree and any edits, with two exemptions: ignored files, and files written
\* after its checkout.  Those include the write-back by the listener of a file
\* it had read before, which may bring an older edit back; and nothing else
\* than a write of that file ever exempts it.
THEOREM RollbackLeavesNoEdit == Spec => []NoEditSurvivesRollback /\ [][ExemptWhenWritten]_vars
<1>1. IInv => NoEditSurvivesRollback
  BY DEF IInv, RollbackOK
<1>2. ASSUME IInv, Next PROVE ExemptWhenWritten
  BY <1>2, StepExempts DEF ExemptWhenWritten
<1>3. IInv /\ [Next]_vars => [ExemptWhenWritten]_vars
  BY <1>2
<1>4. QED  BY <1>1, <1>3, Invariance, PTL DEF Spec

\* No step changes a file but as a policy in force permits.
LEMMA StepKeepsPolicy ==
  ASSUME IInv, [Next]_vars, NEW f \in Files, disk'[f] # disk[f]
  PROVE  \/ pc[Chat] \in {"rollback", "clean"}
         \/ \E a \in Actors :
              /\ pc[a] \in {"apply", "patch"}
              /\ Edit(a).file = f
              /\ Permits(PolicyOf(a), f, batch[a].heard)
<1> USE ActorsAssumption
<1>1. CASE \E a \in Actors : ApplyStep(a)
  <2>1. PICK a \in Actors : ApplyStep(a)  BY <1>1
  <2>2. Writes(a)
    BY <2>1, ApplyWrites DEF IInv
  <2>3. PICK content \in Contents : Put(Edit(a).file, content)
    BY <2>2 DEF Writes
  <2>4. Edit(a).file = f
    BY <2>3 DEF Put, IInv, DiskOK, Trees
  <2>5. PolicyOf(a) = batch[a].policy
    BY <2>2 DEF Writes, PolicyOf, IInv, PolicyStays, Working
  <2>6. QED  BY <2>2, <2>4, <2>5 DEF Writes
<1>2. CASE RollbackStep(Chat)
  BY <1>2 DEF RollbackStep, RollbackRefused, RollbackCheckout, RollbackClean, RollbackCleanFails
<1>3. CASE Quiet \/ UNCHANGED vars
  BY <1>3 DEF Quiet, vars
<1>4. QED
  BY <1>1, <1>2, <1>3
  DEF Next, ChatStep, RemoteStep, SetPolicy, Clear, Rollback, Exit, Prompt, SendFails, Reply,
      FinishTurn, TakeTask, TaskReply, FinishTask

\* The policy, and the answer where it asks for one, stand before every edit.
THEOREM PoliciesAreKept == Spec => PolicyIsKept
<1>1. IInv /\ [Next]_vars =>
        [\A f \in Files : disk'[f] # disk[f] =>
           \/ pc[Chat] \in {"rollback", "clean"}
           \/ \E a \in Actors :
                /\ pc[a] \in {"apply", "patch"}
                /\ Edit(a).file = f
                /\ Permits(PolicyOf(a), f, batch[a].heard)]_vars
  BY StepKeepsPolicy
<1>2. QED  BY <1>1, Invariance, PTL DEF Spec, PolicyIsKept

-----------------------------------------------------------------------------
(* The safety half of EveryTurnEnds.                                       *)

\* What a loop that has its answer still has to do, at most: five steps for
\* every edit that is left, and one to finish.
Left(stop, b) ==
  LET later == 5 * (Len(b.edits) - b.i) IN
  CASE stop = "examine"       -> later + 6
    [] stop = "asking"        -> later + 5
    [] stop = "save"          -> later + 4
    [] stop = "apply"         -> later + 3
    [] stop = "patch"         -> later + 2
    [] stop = "applied"       -> 1
    [] stop = "rollback"      -> 2
    [] stop = "clean"         -> 1
    [] stop \in {"idle", "off"} -> 0

\* A loop gets its answer, or comes nearer to the end of its turn.
Forward(a) ==
  /\ pc'[a] # "sending"
  /\ Left(pc'[a], batch'[a]) \in Nat
  /\ pc[a] # "sending" => Left(pc'[a], batch'[a]) < Left(pc[a], batch[a])

TurnsGoForward ==
  /\ \A a \in Actors :
       pc[a] \notin {"idle", "off"} =>
         Forward(a) \/ (pc'[a] = pc[a] /\ batch'[a] = batch[a])
  /\ ChatStep => Forward(Chat)
  /\ RemoteStep => Forward(Remote)

LEMMA LeftOf ==
  ASSUME NEW b
  PROVE  LET later == 5 * (Len(b.edits) - b.i) IN
         /\ Left("examine", b) = later + 6 /\ Left("asking", b) = later + 5
         /\ Left("save", b) = later + 4 /\ Left("apply", b) = later + 3
         /\ Left("patch", b) = later + 2 /\ Left("applied", b) = 1
         /\ Left("rollback", b) = 2 /\ Left("clean", b) = 1
         /\ Left("idle", b) = 0 /\ Left("off", b) = 0
BY DEF Left

\* A loop at work has something left to do.
LEMMA LeftType ==
  ASSUME NEW b, Len(b.edits) \in Nat, b.i \in 1 .. Len(b.edits), NEW stop \in Working,
         NEW later, later = 5 * (Len(b.edits) - b.i)
  PROVE  /\ later \in Nat
         /\ Left(stop, b) \in Nat /\ Left(stop, b) >= later + 2 /\ Left(stop, b) > 0
<1>1. later \in Nat
  OBVIOUS
<1>2. /\ Left("examine", b) = later + 6 /\ Left("asking", b) = later + 5
      /\ Left("save", b) = later + 4 /\ Left("apply", b) = later + 3 /\ Left("patch", b) = later + 2
  BY LeftOf
<1>3. QED  BY <1>1, <1>2, SMTT(30) DEF Working

LEMMA LeaveForward ==
  ASSUME NEW a \in Actors, LoopsOK, pc[a] \in Working, Leave(a, batch[a])
  PROVE  Forward(a)
<1> DEFINE b == batch[a]
           c == [Forget(b) EXCEPT !.i = b.i + 1]
<1>1. b \in Batches /\ b.i \in 1 .. Len(b.edits) /\ Len(b.edits) \in Nat
  BY DEF LoopsOK, LoopOK, Batches
<1>2. Forget(b) \in Batches /\ Forget(b).edits = b.edits
  BY <1>1 DEF Forget, Batches, Contents
<1>3. c.i = b.i + 1 /\ c.edits = b.edits
  BY <1>1, <1>2 DEF Batches
<1>4. pc'[a] = (IF b.i < Len(b.edits) THEN "examine" ELSE "applied") /\ batch'[a] = c
  BY DEF Leave, Move, LoopsOK
<1> HIDE DEF b, c
<1> DEFINE later == 5 * (Len(b.edits) - b.i)
<1>5. later \in Nat /\ Left(pc[a], b) \in Nat /\ Left(pc[a], b) >= later + 2
  <2>1. pc[a] \in Working
    OBVIOUS
  <2>2. QED  BY <1>1, <2>1, LeftType
<1>6. CASE b.i < Len(b.edits)
  <2>1. pc'[a] = "examine" /\ Left(pc'[a], c) = 5 * (Len(b.edits) - (b.i + 1)) + 6
    BY <1>3, <1>4, <1>6, LeftOf
  <2>2. Left(pc'[a], c) = later + 1
    BY <1>1, <2>1, SMTT(30)
  <2> HIDE DEF later
  <2>3. Left(pc'[a], c) \in Nat /\ Left(pc'[a], c) < Left(pc[a], b)
    BY <1>5, <2>2
  <2>4. QED  BY <1>4, <2>1, <2>3 DEF Forward, b
<1>7. CASE ~(b.i < Len(b.edits))
  <2>1. pc'[a] = "applied" /\ Left(pc'[a], c) = 1
    BY <1>4, <1>7, LeftOf
  <2> HIDE DEF later
  <2>2. Left(pc'[a], c) \in Nat /\ Left(pc'[a], c) < Left(pc[a], b)
    BY <1>5, <2>1
  <2>3. QED  BY <1>4, <2>1, <2>2 DEF Forward, b
<1>8. QED  BY <1>6, <1>7

LEMMA MoveForward ==
  ASSUME NEW a \in Actors, LoopsOK, NEW b,
         b.i = batch[a].i, b.edits = batch[a].edits, batch'[a] = b,
         \/ pc[a] = "examine" /\ pc'[a] \in {"asking", "save"}
         \/ pc[a] = "asking" /\ pc'[a] = "save"
         \/ pc[a] = "save" /\ pc'[a] = "apply"
         \/ pc[a] = "apply" /\ pc'[a] = "patch"
  PROVE  Forward(a)
<1>1. batch[a].i \in 1 .. Len(batch[a].edits) /\ Len(batch[a].edits) \in Nat
  BY DEF LoopsOK, LoopOK, Batches, Working
<1> DEFINE later == 5 * (Len(b.edits) - b.i)
<1>2. later \in Nat /\ later = 5 * (Len(batch[a].edits) - batch[a].i)
  BY <1>1
<1> DEFINE c == batch[a]
<1>3. /\ Left("asking", b) = later + 5
      /\ Left("save", b) = later + 4 /\ Left("apply", b) = later + 3 /\ Left("patch", b) = later + 2
      /\ Left("examine", c) = later + 6 /\ Left("asking", c) = later + 5
      /\ Left("save", c) = later + 4 /\ Left("apply", c) = later + 3
  BY <1>2, LeftOf
<1> HIDE DEF later, c
<1>4. Left(pc'[a], b) \in Nat /\ Left(pc'[a], b) < Left(pc[a], c)
  <2>1. \/ pc[a] = "examine" /\ pc'[a] = "asking"
        \/ pc[a] = "examine" /\ pc'[a] = "save"
        \/ pc[a] = "asking" /\ pc'[a] = "save"
        \/ pc[a] = "save" /\ pc'[a] = "apply"
        \/ pc[a] = "apply" /\ pc'[a] = "patch"
    OBVIOUS
  <2>2. PICK n, m : n = Left(pc'[a], b) /\ m = Left(pc[a], c)
    OBVIOUS
  <2>3. \/ m = later + 6 /\ n = later + 5
        \/ m = later + 6 /\ n = later + 4
        \/ m = later + 5 /\ n = later + 4
        \/ m = later + 4 /\ n = later + 3
        \/ m = later + 3 /\ n = later + 2
    BY <1>3, <2>1, <2>2, Zenon
  <2>4. n \in Nat /\ n < m
    BY <1>2, <2>3
  <2>5. QED  BY <2>2, <2>4
<1> USE DEF c
<1>5. QED  BY <1>4 DEF Forward

LEMMA ApplyForward == ASSUME NEW a \in Actors, LoopsOK, ApplyStep(a) PROVE Forward(a)
<1> DEFINE b == batch[a]
<1>1. b \in Batches
  BY DEF LoopsOK
<1>2. \A to, c : Move(a, to, c) => pc'[a] = to /\ batch'[a] = c
  BY DEF Move, LoopsOK
<1>3. CASE Examine(a)
  <2>1. CASE Leave(a, b)
    BY <1>3, <2>1, LeaveForward DEF Examine, Working
  <2>2. CASE Move(a, "save", b) \/ Move(a, "asking", b)
    BY <1>2, <1>3, <2>2, MoveForward DEF Examine
  <2>3. QED  BY <1>3, <2>1, <2>2 DEF Examine
<1>4. CASE Hear(a)
  <2>1. CASE Leave(a, b)
    BY <1>4, <2>1, LeaveForward DEF Hear, Working
  <2>2. ASSUME NEW answer \in Answers, Move(a, "save", [b EXCEPT !.heard = answer])
        PROVE  Forward(a)
    <3>1. [b EXCEPT !.heard = answer].i = b.i /\ [b EXCEPT !.heard = answer].edits = b.edits
      BY <1>1 DEF Batches
    <3>2. QED  BY <1>2, <1>4, <2>2, <3>1, MoveForward DEF Hear
  <2>3. QED  BY <1>4, <2>1, <2>2 DEF Hear
<1>5. CASE SkipCheckpoint(a) \/ CreateGitCheckpoint(a) \/ CheckpointFails(a)
  <2>1. pc[a] = "save" /\ (Move(a, "apply", b) \/ Move(a, "apply", [b EXCEPT !.saved = "yes"]))
    BY <1>5 DEF SkipCheckpoint, CreateGitCheckpoint, CheckpointFails
  <2>2. [b EXCEPT !.saved = "yes"].i = b.i /\ [b EXCEPT !.saved = "yes"].edits = b.edits
    BY <1>1 DEF Batches
  <2>3. QED  BY <1>2, <2>1, <2>2, MoveForward
<1>6. CASE ApplyRead(a)
  <2> DEFINE c == [b EXCEPT !.seen = disk[Edit(a).file]]
  <2>1. CASE Leave(a, b)
    BY <1>6, <2>1, LeaveForward DEF ApplyRead, Working
  <2>2. CASE Move(a, "patch", c)
    <3>1. c.i = b.i /\ c.edits = b.edits
      BY <1>1 DEF Batches
    <3>2. QED  BY <1>2, <1>6, <2>2, <3>1, MoveForward DEF ApplyRead
  <2>3. QED  BY <1>6, <2>1, <2>2 DEF ApplyRead
<1>7. CASE ApplyWrite(a) \/ ApplyPatch(a)
  BY <1>7, LeaveForward DEF ApplyWrite, ApplyPatch, WriteFile, Working
<1>8. QED  BY <1>3, <1>4, <1>5, <1>6, <1>7 DEF ApplyStep

\* A turn that ends, and with it the loop of switchyard run.
LEMMA OverForward ==
  ASSUME NEW a \in Actors, LoopsOK, pc[a] \in {"sending", "applied"}, pc'[a] \in {"idle", "off"}
  PROVE  Forward(a)
BY DEF Forward, Left

LEMMA BeginForward ==
  ASSUME NEW a \in Actors, LoopsOK, pc[a] = "sending", NEW edits \in Seq(Edits), NEW p,
         Begin(a, edits, p)
  PROVE  Forward(a)
<1> DEFINE b == NewBatch(edits, p)
<1>1. b.i = 1 /\ b.edits = edits /\ Len(edits) \in Nat /\ (edits # <<>> => Len(edits) >= 1)
  BY DEF NewBatch
<1>2. batch'[a] = b /\ pc'[a] \in {"applied", "examine"} /\ (edits = <<>> => pc'[a] = "applied")
  BY DEF Begin, Move, LoopsOK
<1> HIDE DEF b
<1>3. Left(pc'[a], b) \in Nat
  BY <1>1, <1>2 DEF Left
<1>4. QED  BY <1>2, <1>3 DEF Forward

LEMMA ChatForward ==
  ASSUME IInv, ChatStep
  PROVE  /\ Forward(Chat)
         /\ pc'[Remote] = "off" \/ (pc'[Remote] = pc[Remote] /\ batch'[Remote] = batch[Remote])
<1> USE ActorsAssumption
<1>1. LoopsOK  BY DEF IInv
<1>2. CASE SendFails \/ FinishTurn
  <2>1. pc[Chat] \in {"sending", "applied"} /\ (End \/ Move(Chat, "idle", NoBatch))
    BY <1>2 DEF SendFails, FinishTurn, EndTurn
  <2>2. QED  BY <1>1, <2>1, OverOK, OverForward
<1>3. CASE Reply
  <2>1. PICK reply \in Replies : Begin(Chat, ParseProposedEdits(reply), policy)
    BY <1>3 DEF Reply
  <2>2. pc[Chat] = "sending" /\ ParseProposedEdits(reply) \in Seq(Edits)
    BY <1>3, RepliesAssumption DEF Reply
  <2>3. QED  BY <1>1, <2>1, <2>2, BeginForward DEF Begin, Move, LoopsOK
<1>4. CASE ApplyStep(Chat)
  <2>1. Advances(Chat)
    BY <1>4, ApplyAdvances DEF IInv
  <2>2. QED  BY <1>1, <1>4, <2>1, ApplyForward DEF Advances
<1>5. CASE RollbackStep(Chat)
  BY <1>1, <1>5
  DEF RollbackStep, RollbackRefused, RollbackCheckout, RollbackClean, RollbackCleanFails,
      Forward, Left, LoopsOK
<1>6. QED  BY <1>2, <1>3, <1>4, <1>5 DEF ChatStep

LEMMA RemoteForward ==
  ASSUME IInv, RemoteStep
  PROVE  Forward(Remote) /\ pc'[Chat] = pc[Chat] /\ batch'[Chat] = batch[Chat]
<1> USE ActorsAssumption
<1>1. LoopsOK  BY DEF IInv
<1>2. CASE TaskReply
  <2>1. PICK reply \in Replies, text \in Policies \cup {""} :
          Begin(Remote, ParseProposedEdits(reply), TaskPolicy(text))
    BY <1>2 DEF TaskReply
  <2>2. pc[Remote] = "sending" /\ ParseProposedEdits(reply) \in Seq(Edits)
    BY <1>2, RepliesAssumption DEF TaskReply
  <2>3. QED  BY <1>1, <2>1, <2>2, BeginForward DEF Begin, Move, LoopsOK
<1>3. CASE FinishTask
  <2>1. pc[Remote] \in {"sending", "applied"} /\ Move(Remote, "idle", NoBatch)
    BY <1>3 DEF FinishTask
  <2>2. QED  BY <1>1, <2>1, OverForward DEF Move, LoopsOK
<1>4. CASE ApplyStep(Remote)
  <2>1. Advances(Remote)
    BY <1>4, ApplyAdvances DEF IInv
  <2>2. QED  BY <1>1, <1>4, <2>1, ApplyForward DEF Advances
<1>5. QED  BY <1>2, <1>3, <1>4 DEF RemoteStep

\* Every step of a loop brings its turn or task nearer to its end, for any
\* answer and any number of edits, and neither the other loop nor a command
\* takes it back: a turn can only wait, for an answer or at the terminal.
THEOREM TurnsAdvance == Spec => [][TurnsGoForward]_vars
<1> USE ActorsAssumption
<1>1. IInv /\ [Next]_vars => [TurnsGoForward]_vars
  <2> SUFFICES ASSUME IInv, Next PROVE TurnsGoForward
    OBVIOUS
  <2>1. (ChatStep => Forward(Chat)) /\ (RemoteStep => Forward(Remote))
    BY ChatForward, RemoteForward
  <2> DEFINE Kept(a) == pc'[a] = pc[a] /\ batch'[a] = batch[a]
  <2>2. ASSUME NEW a \in Actors, pc[a] \notin {"idle", "off"} PROVE Forward(a) \/ Kept(a)
    <3>1. LoopsOK /\ LoopOK(pc[a], batch[a])
      BY DEF IInv, LoopsOK
    <3>2. pc'[a] = "off" => Forward(a)
      <4>1. pc[a] # "sending" => Left(pc[a], batch[a]) > 0 /\ Left(pc[a], batch[a]) \in Nat
        <5>1. pc[a] \in Working => Left(pc[a], batch[a]) > 0 /\ Left(pc[a], batch[a]) \in Nat
          BY <3>1, LeftType DEF LoopOK, Batches
        <5>2. QED  BY <2>2, <3>1, <5>1, LeftOf DEF LoopOK, Stops, Applying, Working
      <4>2. ASSUME pc'[a] = "off" PROVE Left(pc'[a], batch'[a]) = 0
        BY <4>2 DEF Left
      <4> HIDE DEF Left
      <4>3. QED  BY <4>1, <4>2 DEF Forward
    <3>3. CASE SetPolicy \/ Clear
      BY <3>3 DEF SetPolicy, Clear
    <3>4. CASE Rollback \/ Prompt
      BY <2>2, <3>1, <3>4 DEF Rollback, Prompt, Transition, LoopsOK
    <3>5. CASE TakeTask
      BY <2>2, <3>1, <3>5 DEF TakeTask, Transition, LoopsOK
    <3>6. CASE Exit
      BY <3>2, <3>6 DEF Exit, End
    <3>7. CASE ChatStep
      BY <3>2, <3>7, ChatForward
    <3>8. CASE RemoteStep
      BY <3>8, RemoteForward
    <3>9. QED  BY <3>3, <3>4, <3>5, <3>6, <3>7, <3>8 DEF Next
  <2>3. QED  BY <2>1, <2>2 DEF TurnsGoForward
<1>2. QED  BY <1>1, Invariance, PTL DEF Spec

=============================================================================
