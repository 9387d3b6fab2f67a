--------------------------- MODULE CliLoginProofs ---------------------------
(***************************************************************************)
(* Proofs about CliLogin, for any number of commands, callbacks and keys,  *)
(* and any interleaving of them.                                           *)
(***************************************************************************)
EXTENDS CliLogin, TLAPS

\* What a job keeps at its stage.  A callback that waits to report has written
\* its key, or nothing.
JobOK(stage, k, d, r) ==
  /\ stage \in {"new", "over"} => k = "none" /\ d = Missing /\ r = "none"
  /\ stage \in Saving =>
       /\ k # "none" /\ d.state = "whole" /\ (k = "callback" => d.key \in Keys)
       /\ r = "stale" => k = "keys"
       /\ r = "mixed" => stage = "open"
       /\ r = "lost" => stage = "open" /\ k = "nexus"
  /\ stage = "post" =>
       /\ k = "callback" /\ r = "none"
       /\ d = Missing \/ (d.key \in Keys /\ d.key \in saved \cup spoilt)

JobsOK ==
  /\ pc \in [Jobs -> {"new", "loaded", "open", "post", "over"}]
  /\ kind \in [Jobs -> Kinds]
  /\ draft \in [Jobs -> FileStates]
  /\ race \in [Jobs -> Races]
  /\ saved \subseteq Keys /\ spoilt \subseteq Keys
  /\ \A j \in Jobs : JobOK(pc[j], kind[j], draft[j], race[j])

FilesOK ==
  /\ files \in [Files -> FileStates]
  /\ inForce \in [Files -> Keys \cup {NoKey, "borrowed"}]
  /\ inForce["nexus"] # "borrowed"
  /\ astray \subseteq Files

WebOK ==
  /\ login \in {"new", "waiting", "closing", "returned", "ended"}
  /\ results \in Seq(Keys \cup {"save failed"}) /\ Len(results) <= 1
  /\ results # <<>> => results[1] \in saved \cup spoilt \cup {"save failed"}
  /\ outcome \in saved \cup spoilt \cup Failures \cup {"none"}

\* A file holds the key of its tool's last login or logout; switchyard has
\* none of its own as long as it borrows nexus-cli's.
Holds(file, f, k) ==
  IF k = "borrowed" THEN file.state = "missing"
  ELSE file.state # "torn" /\ file.key = k /\ (f = "switchyard" => file.state = "whole")

Settled(f) == f \notin astray /\ \A j \in Jobs : ~Writes(j, f)

FilesRight == \A f \in Files : Settled(f) => Holds(files[f], f, inForce[f])

\* A keys command is about to save the key switchyard goes by, unless another
\* job has come in its way or that key is in doubt already.
DraftsRight ==
  \A j \in Jobs :
    pc[j] \in Saving /\ kind[j] = "keys" /\ race[j] = "none" /\ ~Astray("switchyard") =>
      draft[j].key = InForce("switchyard")

IInv == JobsOK /\ FilesOK /\ WebOK /\ FilesRight /\ DraftsRight

-----------------------------------------------------------------------------
(* Records.                                                                *)

LEMMA MissingType == Missing \in FileStates /\ Missing.state = "missing" /\ Missing.key = NoKey
BY DEF Missing, File, FileStates

LEMMA TornType == Torn \in FileStates /\ Torn.state = "torn" /\ Torn.key = NoKey
BY DEF Torn, File, FileStates

LEMMA SavedType ==
  ASSUME NEW k \in Keys \cup {NoKey}
  PROVE  Saved(k) \in FileStates /\ Saved(k).state = "whole" /\ Saved(k).key = k
BY DEF Saved, File, FileStates

LEMMA OneResult ==
  ASSUME NEW S, NEW x \in S
  PROVE  <<x>> \in Seq(S) /\ Len(<<x>>) <= 1 /\ <<x>>[1] = x
OBVIOUS

LEMMA NoResult == ASSUME NEW S PROVE <<>> \in Seq(S) /\ Len(<<>>) <= 1
OBVIOUS

LEMMA HeadIsFirst == ASSUME NEW S, NEW s \in Seq(S), s # <<>> PROVE Head(s) = s[1] /\ Tail(s) \in Seq(S)
OBVIOUS

LEMMA LoadType ==
  ASSUME NEW fs \in [Files -> FileStates]
  PROVE  Load(fs).key \in Keys \cup {NoKey}
BY DEF Load, Files, FileStates

LEMMA TargetType == ASSUME NEW j \in Jobs PROVE Target(j) \in Files
BY DEF Target, Files

LEMMA InForceType == ASSUME FilesOK PROVE InForce("switchyard") \in Keys \cup {NoKey}
BY BorrowedAssumption, KeysAssumption DEF FilesOK, InForce, Files

\* Where nobody writes to what switchyard goes by and none of it is in doubt,
\* its loader finds the key in force.
LEMMA LoadRight ==
  ASSUME FilesOK, FilesRight, ~Astray("switchyard"),
         \A j \in Jobs, f \in Sources("switchyard") : ~Writes(j, f)
  PROVE  Load(files).state # "torn" /\ Load(files).key = InForce("switchyard")
<1>1. Holds(files["switchyard"], "switchyard", inForce["switchyard"])
  BY DEF FilesRight, Settled, Astray, Sources, Files
<1>2. CASE inForce["switchyard"] = "borrowed"
  <2>1. Holds(files["nexus"], "nexus", inForce["nexus"])
    BY <1>2 DEF FilesRight, Settled, Astray, Sources, Files
  <2>2. QED  BY <1>1, <1>2, <2>1 DEF Holds, FilesOK, Load, InForce
<1>3. CASE inForce["switchyard"] # "borrowed"
  BY <1>1, <1>3 DEF Holds, Load, InForce
<1>4. QED  BY <1>2, <1>3

-----------------------------------------------------------------------------
(* Jobs come to the files.                                                 *)

LEMMA BeginInv ==
  ASSUME IInv, NEW j \in Jobs, NEW k \in Kinds \ {"none"}, NEW d \in FileStates,
         d.state = "whole", k = "callback" => d.key \in Keys,
         k = "keys" => d.key = Load(files).key,
         Begin(j, k, d), UNCHANGED web
  PROVE  IInv'
<1> DEFINE met == k = "keys" /\ \E o \in Jobs, f \in Sources("switchyard") : Writes(o, f)
<1>1. /\ pc[j] = "new" /\ pc' = [pc EXCEPT ![j] = "loaded"]
      /\ kind' = [kind EXCEPT ![j] = k] /\ draft' = [draft EXCEPT ![j] = d]
      /\ race' = [race EXCEPT ![j] = IF met THEN "stale" ELSE "none"]
      /\ UNCHANGED <<files, saved, spoilt, inForce, astray, login, results, outcome>>
  BY DEF Begin, web
<1>2. met => k = "keys"  OBVIOUS
<1> HIDE DEF met
<1>3. JobsOK'
  BY <1>1, <1>2 DEF IInv, JobsOK, JobOK, Saving, Races
<1>4. FilesOK' /\ WebOK'
  BY <1>1 DEF IInv, FilesOK, WebOK
<1>5. \A o \in Jobs, f \in Files : Writes(o, f)' <=> Writes(o, f)
  BY <1>1 DEF IInv, JobsOK, Writes, Target
<1>6. FilesRight'
  BY <1>1, <1>5 DEF IInv, FilesRight, Settled
<1>7. InForce("switchyard")' = InForce("switchyard") /\ Astray("switchyard")' = Astray("switchyard")
  BY <1>1 DEF InForce, Astray
<1>8. ASSUME NEW o \in Jobs, pc'[o] \in Saving, kind'[o] = "keys", race'[o] = "none",
             ~Astray("switchyard")
      PROVE  draft'[o].key = InForce("switchyard")
  <2>1. CASE o # j
    BY <1>1, <1>8, <2>1 DEF IInv, JobsOK, DraftsRight
  <2>2. CASE o = j
    <3>1. k = "keys" /\ ~met /\ draft'[o] = d
      BY <1>1, <1>8, <2>2 DEF IInv, JobsOK
    <3>2. \A p \in Jobs, f \in Sources("switchyard") : ~Writes(p, f)
      BY <3>1 DEF met
    <3>3. QED  BY <1>8, <3>1, <3>2, LoadRight DEF IInv
  <2>3. QED  BY <2>1, <2>2
<1>9. DraftsRight'
  BY <1>7, <1>8 DEF DraftsRight
<1>10. QED  BY <1>3, <1>4, <1>6, <1>9 DEF IInv

LEMMA CommandInv ==
  ASSUME IInv, NEW j \in Jobs, LoginKey(j) \/ NexusLogin(j) \/ KeysCommand(j) \/ Callback(j)
  PROVE  IInv'
<1>1. CASE LoginKey(j) \/ NexusLogin(j)
  <2>1. PICK k \in Keys \cup {NoKey}, what \in {"login", "nexus"} : Begin(j, what, Saved(k)) /\ UNCHANGED web
    BY <1>1 DEF LoginKey, NexusLogin
  <2>2. Saved(k) \in FileStates /\ Saved(k).state = "whole"
    BY SavedType
  <2>3. QED  BY <2>1, <2>2, BeginInv DEF Kinds
<1>2. CASE KeysCommand(j)
  <2>1. Begin(j, "keys", Saved(Load(files).key)) /\ UNCHANGED web
    BY <1>2 DEF KeysCommand
  <2>2. Load(files).key \in Keys \cup {NoKey}
    BY LoadType DEF IInv, FilesOK
  <2>3. /\ Saved(Load(files).key) \in FileStates /\ Saved(Load(files).key).state = "whole"
        /\ Saved(Load(files).key).key = Load(files).key
    BY <2>2, SavedType
  <2>4. QED  BY <2>1, <2>3, BeginInv DEF Kinds
<1>3. CASE Callback(j)
  <2>1. PICK k \in Keys : Begin(j, "callback", Saved(k)) /\ UNCHANGED web
    BY <1>3 DEF Callback, Accepted
  <2>2. Saved(k) \in FileStates /\ Saved(k).state = "whole" /\ Saved(k).key = k
    BY SavedType
  <2>3. QED  BY <2>1, <2>2, BeginInv DEF Kinds
<1>4. QED  BY <1>1, <1>2, <1>3

LEMMA LogoutInv == ASSUME IInv, NEW j \in Jobs, NexusLogout(j) PROVE IInv'
<1>1. /\ pc[j] = "new" /\ pc' = [pc EXCEPT ![j] = "over"]
      /\ files' = [files EXCEPT !["nexus"] = Missing]
      /\ race' = [o \in Jobs |-> IF Writes(o, "nexus") THEN "lost"
                                 ELSE IF Outdated(o, "nexus") THEN "stale" ELSE race[o]]
      /\ inForce' = [inForce EXCEPT !["nexus"] = NoKey] /\ astray' = astray \ {"nexus"}
      /\ UNCHANGED <<kind, draft, login, results, outcome, saved, spoilt>>
  BY DEF NexusLogout, web
<1>2. \A o \in Jobs : JobOK(pc[o], kind[o], draft[o], race[o])'
  <2> TAKE o \in Jobs
  <2>1. JobOK(pc[o], kind[o], draft[o], race[o])
    BY DEF IInv, JobsOK
  <2>2. CASE Writes(o, "nexus")
    <3>1. pc'[o] = "open" /\ kind[o] = "nexus" /\ race'[o] = "lost"
      BY <1>1, <2>2 DEF IInv, JobsOK, Writes, Target
    <3>2. QED  BY <1>1, <2>1, <3>1 DEF JobOK, Saving
  <2>3. CASE ~Writes(o, "nexus") /\ Outdated(o, "nexus")
    <3>1. kind[o] = "keys" /\ race'[o] = "stale"
      BY <1>1, <2>3 DEF Outdated
    <3>2. pc[o] \in Saving /\ pc'[o] = pc[o]
      BY <1>1, <2>1, <3>1 DEF IInv, JobsOK, JobOK, Saving
    <3>3. QED  BY <1>1, <2>1, <3>1, <3>2 DEF JobOK, Saving
  <2>4. CASE ~Writes(o, "nexus") /\ ~Outdated(o, "nexus")
    BY <1>1, <2>1, <2>4 DEF IInv, JobsOK, JobOK, Saving
  <2>5. QED  BY <2>2, <2>3, <2>4
<1>3. JobsOK'
  BY <1>1, <1>2 DEF IInv, JobsOK, Races
<1>4. FilesOK' /\ WebOK'
  BY <1>1, MissingType, BorrowedAssumption DEF IInv, FilesOK, WebOK, Files
<1>5. \A o \in Jobs : Writes(o, "switchyard")' <=> Writes(o, "switchyard")
  BY <1>1 DEF IInv, JobsOK, Writes, Target, Outdated
<1>6. FilesRight'
  <2>1. Holds(files["nexus"], "nexus", inForce["nexus"])'
    BY <1>1, MissingType, BorrowedAssumption DEF IInv, FilesOK, Files, Holds
  <2>2. Settled("switchyard")' => Settled("switchyard")
    BY <1>1, <1>5 DEF Settled
  <2>3. files'["switchyard"] = files["switchyard"] /\ inForce'["switchyard"] = inForce["switchyard"]
    BY <1>1 DEF IInv, FilesOK, Files
  <2>4. Settled("switchyard")' => Holds(files["switchyard"], "switchyard", inForce["switchyard"])'
    BY <2>2, <2>3 DEF IInv, FilesRight, Holds, Files
  <2>5. QED  BY <2>1, <2>4 DEF FilesRight, Files
<1>7. DraftsRight'
  <2> SUFFICES ASSUME NEW o \in Jobs, pc'[o] \in Saving, kind'[o] = "keys", race'[o] = "none",
                      ~Astray("switchyard")'
               PROVE  draft'[o].key = InForce("switchyard")'
    BY DEF DraftsRight
  <2>1. race[o] = "none" /\ ~Outdated(o, "nexus") /\ pc[o] \in Saving /\ kind[o] = "keys"
    BY <1>1 DEF IInv, JobsOK, Saving
  <2>2. inForce["switchyard"] # "borrowed"
    BY <2>1 DEF Outdated, Sources, Files
  <2>3. inForce'["switchyard"] = inForce["switchyard"]
    BY <1>1 DEF IInv, FilesOK, Files
  <2>4. InForce("switchyard")' = InForce("switchyard") /\ ~Astray("switchyard")
    BY <1>1, <2>2, <2>3 DEF InForce, Astray
  <2>5. QED  BY <1>1, <2>1, <2>4 DEF IInv, DraftsRight
<1>8. QED  BY <1>3, <1>4, <1>6, <1>7 DEF IInv

-----------------------------------------------------------------------------
(* They save.                                                              *)

LEMMA TruncateInv == ASSUME IInv, NEW j \in Jobs, Truncate(j) PROVE IInv'
<1>1. /\ pc[j] = "loaded" /\ pc' = [pc EXCEPT ![j] = "open"]
      /\ files' = [files EXCEPT ![Target(j)] = Torn]
      /\ UNCHANGED <<kind, draft, race, login, results, outcome, saved, spoilt, inForce, astray>>
  BY DEF Truncate, web
<1>2. JobsOK'
  BY <1>1 DEF IInv, JobsOK, JobOK, Saving
<1>3. FilesOK' /\ WebOK'
  BY <1>1, TornType, TargetType DEF IInv, FilesOK, WebOK
<1>4. race[j] # "lost"
  BY <1>1 DEF IInv, JobsOK, JobOK, Saving
<1>5. \A o \in Jobs, f \in Files : Writes(o, f)' <=> Writes(o, f) \/ (o = j /\ f = Target(j))
  BY <1>1, <1>4 DEF IInv, JobsOK, Writes, Target
<1>6. FilesRight'
  BY <1>1, <1>5 DEF IInv, FilesOK, FilesRight, Settled
<1>7. InForce("switchyard")' = InForce("switchyard") /\ Astray("switchyard")' = Astray("switchyard")
  BY <1>1 DEF InForce, Astray
<1>8. DraftsRight'
  BY <1>1, <1>7 DEF IInv, JobsOK, DraftsRight, Saving
<1>9. QED  BY <1>2, <1>3, <1>6, <1>8 DEF IInv

\* What others do to a job at the files fits its stage.
Fits(o, r) ==
  \/ r = race[o]
  \/ r = "mixed" /\ pc[o] = "open"
  \/ r = "stale" /\ pc[o] \in Saving /\ kind[o] = "keys"

\* A callback goes on, a command is over.
LEMMA GoOnJobs ==
  ASSUME JobsOK, NEW j \in Jobs, pc[j] \in Saving, NEW d \in FileStates, GoOn(j, d),
         saved' \in SUBSET Keys, saved \subseteq saved',
         spoilt' \in SUBSET Keys, spoilt \subseteq spoilt',
         race' \in [Jobs -> Races], race'[j] = "none",
         \A o \in Jobs \ {j} : Fits(o, race'[o]),
         kind[j] = "callback" => d = Missing \/ (d.key \in Keys /\ d.key \in saved' \cup spoilt')
  PROVE  /\ JobsOK'
         /\ pc'[j] \notin Saving
         /\ \A o \in Jobs \ {j} : pc'[o] = pc[o] /\ kind'[o] = kind[o] /\ draft'[o] = draft[o]
<1>1. \A o \in Jobs : JobOK(pc[o], kind[o], draft[o], race[o])
  BY DEF JobsOK
<1>2. CASE kind[j] = "callback"
  <2>1. /\ pc' = [pc EXCEPT ![j] = "post"] /\ draft' = [draft EXCEPT ![j] = d] /\ kind' = kind
    BY <1>2 DEF GoOn
  <2>2. \A o \in Jobs : JobOK(pc[o], kind[o], draft[o], race[o])'
    BY <1>1, <1>2, <2>1 DEF JobsOK, JobOK, Saving, Fits
  <2>3. QED  BY <2>1, <2>2 DEF JobsOK, Saving
<1>3. CASE kind[j] # "callback"
  <2>1. /\ pc' = [pc EXCEPT ![j] = "over"] /\ draft' = [draft EXCEPT ![j] = Missing]
        /\ kind' = [kind EXCEPT ![j] = "none"]
    BY <1>3 DEF GoOn, Done
  <2>2. \A o \in Jobs : JobOK(pc[o], kind[o], draft[o], race[o])'
    BY <1>1, <2>1 DEF JobsOK, JobOK, Saving, Fits
  <2>3. QED  BY <2>1, <2>2, MissingType DEF JobsOK, Saving, Kinds
<1>4. QED  BY <1>2, <1>3

\* When job j is through with its file, the others have open what they had.
LEMMA OthersWrite ==
  ASSUME JobsOK, NEW j \in Jobs, pc'[j] \notin Saving,
         \A o \in Jobs \ {j} : pc'[o] = pc[o] /\ kind'[o] = kind[o],
         \A o \in Jobs \ {j} : race'[o] # race[o] => race'[o] # "lost" /\ race[o] # "lost"
  PROVE  \A o \in Jobs, f \in Files : Writes(o, f)' <=> Writes(o, f) /\ o # j
BY DEF Writes, Target, Saving

LEMMA WriteInv == ASSUME IInv, NEW j \in Jobs, Write(j) PROVE IInv'
<1>1. /\ pc[j] = "open" /\ pc[j] \in Saving /\ race[j] # "lost" /\ Writes(j, Target(j))
      /\ WriteWhole(j) \/ WriteGarbled(j)
      /\ GoOn(j, draft[j]) /\ KeyChanges(j)
      /\ UNCHANGED <<login, results, outcome>>
  BY DEF Write, web, Saving, Writes
<1>2. race' = [o \in Jobs |->
                IF o = j THEN "none"
                ELSE IF MixedBy(j, o) THEN "mixed"
                ELSE IF kind[j] # "keys" /\ Outdated(o, Target(j)) THEN "stale"
                ELSE race[o]]
  BY DEF Write
<1>3. draft[j] \in FileStates /\ draft[j].state = "whole" /\ kind[j] # "none"
      /\ (kind[j] = "callback" => draft[j].key \in Keys)
  BY <1>1 DEF IInv, JobsOK, JobOK
<1>4. /\ saved' \in SUBSET Keys /\ saved \subseteq saved' /\ spoilt' \in SUBSET Keys /\ spoilt \subseteq spoilt'
      /\ kind[j] = "callback" => draft[j].key \in saved' \cup spoilt'
  BY <1>1, <1>3 DEF WriteWhole, WriteGarbled, IInv, JobsOK
<1>5. race' \in [Jobs -> Races] /\ race'[j] = "none"
  BY <1>2 DEF IInv, JobsOK, Races
<1>6. \A o \in Jobs : kind[o] = "keys" => pc[o] \in Saving
  BY DEF IInv, JobsOK, JobOK, Saving
<1>7. ASSUME NEW o \in Jobs \ {j}
      PROVE  Fits(o, race'[o]) /\ (race'[o] # race[o] => race'[o] # "lost" /\ race[o] # "lost")
  BY <1>2, <1>6, <1>7 DEF Fits, MixedBy, Writes, Outdated
<1>8. /\ JobsOK' /\ pc'[j] \notin Saving
      /\ \A o \in Jobs \ {j} : pc'[o] = pc[o] /\ kind'[o] = kind[o] /\ draft'[o] = draft[o]
  BY <1>1, <1>3, <1>4, <1>5, <1>7, GoOnJobs DEF IInv
<1>9. \A o \in Jobs, f \in Files : Writes(o, f)' <=> Writes(o, f) /\ o # j
  BY <1>7, <1>8, OthersWrite DEF IInv
<1>10. /\ files' \in [Files -> FileStates] /\ astray' \subseteq Files
       /\ \A f \in Files \ {Target(j)} : files'[f] = files[f]
  BY <1>1, <1>3, TornType, TargetType DEF WriteWhole, WriteGarbled, Rightly, IInv, FilesOK, Files
<1>11. /\ inForce' = [inForce EXCEPT ![Target(j)] =
                        IF kind[j] = "keys" THEN InForce("switchyard") ELSE draft[j].key]
       /\ InForce("switchyard") \in Keys \cup {NoKey} /\ draft[j].key \in Keys \cup {NoKey}
  BY <1>1, <1>3, InForceType DEF KeyChanges, IInv, FileStates
<1>12. inForce'[Target(j)] # "borrowed" /\ \A f \in Files : f # Target(j) => inForce'[f] = inForce[f]
  BY <1>11, TargetType, KeysAssumption, BorrowedAssumption DEF IInv, FilesOK
<1>13. FilesOK' /\ WebOK'
  <2>1. inForce' \in [Files -> Keys \cup {NoKey, "borrowed"}] /\ inForce'["nexus"] # "borrowed"
    BY <1>11, <1>12, TargetType DEF IInv, FilesOK, Files
  <2>2. WebOK'
    BY <1>1, <1>4 DEF IInv, WebOK
  <2>3. QED  BY <1>10, <2>1, <2>2 DEF FilesOK
\* A keys command leaves what is in force and what is in doubt.
<1>14. ASSUME kind[j] = "keys"
       PROVE  /\ Target(j) = "switchyard" /\ InForce("switchyard")' = InForce("switchyard")
              /\ ~Astray("switchyard")' => ~Astray("switchyard") /\ WriteWhole(j)
              /\ "switchyard" \notin astray' => race[j] = "none" /\ ~Astray("switchyard")
  <2>1. Target(j) = "switchyard" /\ inForce'["switchyard"] = InForce("switchyard")
    BY <1>11, <1>14 DEF Target, IInv, FilesOK, Files
  <2>2. InForce("switchyard")' = InForce("switchyard")
    BY <1>12, <2>1 DEF InForce
  <2>3. "switchyard" \notin astray' => race[j] = "none" /\ ~Astray("switchyard") /\ WriteWhole(j)
    BY <1>1, <1>14, <2>1 DEF WriteWhole, WriteGarbled, Rightly
  <2>4. QED  BY <2>1, <2>2, <2>3 DEF Astray
<1>15. FilesRight'
  <2> SUFFICES ASSUME NEW f \in Files, Settled(f)' PROVE Holds(files'[f], f, inForce'[f])
    BY DEF FilesRight
  <2>1. CASE f # Target(j)
    <3>1. f \notin astray
      <4>1. astray \subseteq astray' \cup {Target(j)}
        BY <1>1 DEF WriteWhole, WriteGarbled, Rightly
      <4>2. QED  BY <2>1, <4>1 DEF Settled
    <3>2. ~Writes(j, f)
      BY <2>1 DEF Writes
    <3>3. Settled(f)
      BY <1>9, <3>1, <3>2 DEF Settled
    <3>4. QED  BY <1>10, <1>12, <2>1, <3>3 DEF IInv, FilesRight
  <2>2. CASE f = Target(j)
    <3>1. WriteWhole(j)
      BY <1>1, <2>2 DEF WriteGarbled, Settled
    <3>2. files'[f] = draft[j]
      BY <2>2, <3>1 DEF WriteWhole, IInv, FilesOK
    <3>3. inForce'[f] = draft[j].key
      <4>1. CASE kind[j] = "keys"
        <5>1. draft[j].key = InForce("switchyard")
          BY <1>1, <1>14, <2>2, <4>1 DEF IInv, DraftsRight, Settled
        <5>2. QED  BY <1>11, <2>2, <4>1, <5>1 DEF IInv, FilesOK
      <4>2. CASE kind[j] # "keys"
        BY <1>11, <2>2, <4>2 DEF IInv, FilesOK
      <4>3. QED  BY <4>1, <4>2
    <3>4. QED  BY <1>3, <1>12, <2>2, <3>2, <3>3 DEF Holds
  <2>3. QED  BY <2>1, <2>2
<1>16. DraftsRight'
  <2> SUFFICES ASSUME NEW o \in Jobs, pc'[o] \in Saving, kind'[o] = "keys", race'[o] = "none",
                      ~Astray("switchyard")'
               PROVE  draft'[o].key = InForce("switchyard")'
    BY DEF DraftsRight
  <2>1. o # j /\ pc[o] \in Saving /\ kind[o] = "keys" /\ draft'[o] = draft[o]
    BY <1>8
  <2>2. race[o] = "none" /\ (kind[j] = "keys" \/ ~Outdated(o, Target(j)))
    BY <1>2, <2>1
  <2>3. CASE kind[j] = "keys"
    BY <1>14, <2>1, <2>2, <2>3 DEF IInv, DraftsRight
  <2>4. CASE kind[j] # "keys"
    <3>1. Target(j) \notin Sources("switchyard")
      BY <2>1, <2>2, <2>4 DEF Outdated
    <3>2. inForce["switchyard"] # "borrowed" /\ Target(j) # "switchyard"
      BY <3>1, TargetType DEF Sources
    <3>3. inForce'["switchyard"] = inForce["switchyard"]
      BY <1>12, <3>2 DEF Files
    <3>4. InForce("switchyard")' = InForce("switchyard")
      BY <3>2, <3>3 DEF InForce
    <3>5. ~Astray("switchyard")
      <4>1. astray \subseteq astray' \cup {Target(j)}
        BY <1>1 DEF WriteWhole, WriteGarbled, Rightly
      <4>2. QED  BY <3>2, <3>3, <4>1 DEF Astray
    <3>6. QED  BY <2>1, <2>2, <3>4, <3>5 DEF IInv, DraftsRight
  <2>5. QED  BY <2>3, <2>4
<1>17. QED  BY <1>8, <1>13, <1>15, <1>16 DEF IInv

LEMMA WriteNowhereInv == ASSUME IInv, NEW j \in Jobs, WriteNowhere(j) PROVE IInv'
<1>1. /\ pc[j] = "open" /\ pc[j] \in Saving /\ race[j] = "lost" /\ GoOn(j, draft[j])
      /\ race' = [race EXCEPT ![j] = "none"]
      /\ UNCHANGED <<files, login, results, outcome, saved, spoilt, inForce, astray>>
  BY DEF WriteNowhere, web, Saving
<1>2. draft[j] \in FileStates /\ kind[j] # "callback"
  BY <1>1 DEF IInv, JobsOK, JobOK
<1>3. race' \in [Jobs -> Races] /\ race'[j] = "none" /\ \A o \in Jobs \ {j} : race'[o] = race[o]
  BY <1>1 DEF IInv, JobsOK, Races
<1>4. saved' \in SUBSET Keys /\ spoilt' \in SUBSET Keys /\ saved \subseteq saved' /\ spoilt \subseteq spoilt'
  BY <1>1 DEF IInv, JobsOK
<1>5. /\ JobsOK' /\ pc'[j] \notin Saving
      /\ \A o \in Jobs \ {j} : pc'[o] = pc[o] /\ kind'[o] = kind[o] /\ draft'[o] = draft[o]
  BY <1>1, <1>2, <1>3, <1>4, GoOnJobs DEF IInv, Fits
<1>6. \A o \in Jobs, f \in Files : Writes(o, f)' <=> Writes(o, f)
  <2>1. \A o \in Jobs, f \in Files : Writes(o, f)' <=> Writes(o, f) /\ o # j
    BY <1>3, <1>5, OthersWrite DEF IInv
  <2>2. \A f \in Files : ~Writes(j, f)
    BY <1>1 DEF Writes
  <2>3. QED  BY <2>1, <2>2
<1>7. FilesOK' /\ WebOK' /\ FilesRight'
  BY <1>1, <1>6 DEF IInv, FilesOK, WebOK, FilesRight, Settled
<1>8. DraftsRight'
  BY <1>1, <1>3, <1>5 DEF IInv, DraftsRight, InForce, Astray
<1>9. QED  BY <1>5, <1>7, <1>8 DEF IInv

\* What a job puts in doubt when it breaks off, it has had open.
LEMMA DoubtRight ==
  ASSUME IInv, astray \subseteq astray', inForce' = inForce,
         \A f \in Files \ astray' : files'[f] = files[f],
         \A o \in Jobs, f \in Files : Writes(o, f) => Writes(o, f)' \/ f \in astray',
         \A o \in Jobs : pc'[o] \in Saving /\ kind'[o] = "keys" /\ race'[o] = "none" =>
           pc[o] \in Saving /\ kind[o] = "keys" /\ race[o] = "none" /\ draft'[o] = draft[o]
  PROVE  FilesRight' /\ DraftsRight'
<1>1. FilesRight'
  BY DEF IInv, FilesRight, Settled
<1>2. Astray("switchyard") => Astray("switchyard")'
  BY DEF Astray
<1>3. InForce("switchyard")' = InForce("switchyard")
  BY DEF InForce
<1>4. DraftsRight'
  BY <1>2, <1>3 DEF IInv, DraftsRight
<1>5. QED  BY <1>1, <1>4

LEMMA FailureInv == ASSUME IInv, NEW j \in Jobs, SaveFails(j) \/ Kill(j) PROVE IInv'
<1>1. /\ GoOn(j, Missing) /\ pc[j] \in Saving
      /\ \/ UNCHANGED files
         \/ race[j] = "mixed" /\ files' = [files EXCEPT ![Target(j)] = Torn]
      /\ astray' = astray \cup {f \in Files : Writes(j, f)}
      /\ race' = [o \in Jobs |-> IF o = j THEN "none" ELSE IF MixedBy(j, o) THEN "mixed" ELSE race[o]]
      /\ UNCHANGED <<login, results, outcome, saved, spoilt, inForce>>
  BY DEF SaveFails, Kill, GoOn, BreaksOff, web
<1>2. race' \in [Jobs -> Races] /\ race'[j] = "none"
  BY <1>1 DEF IInv, JobsOK, Races
<1>3. ASSUME NEW o \in Jobs \ {j}
      PROVE  Fits(o, race'[o]) /\ (race'[o] # race[o] => race'[o] = "mixed" /\ race[o] # "lost")
  BY <1>1, <1>3 DEF Fits, MixedBy, Writes
<1>4. saved' \in SUBSET Keys /\ spoilt' \in SUBSET Keys /\ saved \subseteq saved' /\ spoilt \subseteq spoilt'
  BY <1>1 DEF IInv, JobsOK
<1>5. /\ JobsOK' /\ pc'[j] \notin Saving
      /\ \A o \in Jobs \ {j} : pc'[o] = pc[o] /\ kind'[o] = kind[o] /\ draft'[o] = draft[o]
  BY <1>1, <1>2, <1>3, <1>4, GoOnJobs, MissingType DEF IInv
<1>6. \A o \in Jobs, f \in Files : Writes(o, f)' <=> Writes(o, f) /\ o # j
  BY <1>3, <1>5, OthersWrite DEF IInv
<1>7. FilesOK' /\ WebOK'
  BY <1>1, TornType, TargetType DEF IInv, FilesOK, WebOK
<1>8. race[j] = "mixed" => Writes(j, Target(j))
  BY <1>1 DEF IInv, JobsOK, JobOK, Writes
<1>9. \A f \in Files \ astray' : files'[f] = files[f]
  BY <1>1, <1>8, TargetType DEF IInv, FilesOK
<1>10. \A o \in Jobs, f \in Files : Writes(o, f) => Writes(o, f)' \/ f \in astray'
  BY <1>1, <1>6
<1>11. \A o \in Jobs : pc'[o] \in Saving /\ kind'[o] = "keys" /\ race'[o] = "none" =>
         pc[o] \in Saving /\ kind[o] = "keys" /\ race[o] = "none" /\ draft'[o] = draft[o]
  BY <1>3, <1>5
<1>12. astray \subseteq astray' /\ inForce' = inForce
  BY <1>1
<1>13. FilesRight' /\ DraftsRight'
  BY <1>9, <1>10, <1>11, <1>12, DoubtRight
<1>14. QED  BY <1>5, <1>7, <1>13 DEF IInv

-----------------------------------------------------------------------------
(* The web login.                                                          *)

\* What leaves the files, the keys in force and the jobs at the files alone
\* leaves them right.
LEMMA SameRight ==
  ASSUME IInv, UNCHANGED <<files, race, inForce, astray>>,
         \A o \in Jobs : pc'[o] \in Saving \/ pc[o] \in Saving =>
           pc'[o] = pc[o] /\ kind'[o] = kind[o] /\ draft'[o] = draft[o]
  PROVE  FilesOK' /\ FilesRight' /\ DraftsRight'
<1>1. \A o \in Jobs, f \in Files : Writes(o, f)' <=> Writes(o, f)
  BY DEF Writes, Target, Saving
<1>2. FilesOK' /\ FilesRight'
  BY <1>1 DEF IInv, FilesOK, FilesRight, Settled
<1>3. DraftsRight'
  BY DEF IInv, DraftsRight, InForce, Astray
<1>4. QED  BY <1>2, <1>3

LEMMA PostInv == ASSUME IInv, NEW j \in Jobs, Post(j) PROVE IInv'
<1>1. /\ pc[j] = "post" /\ Done(j)
      /\ results' = <<IF draft[j] = Missing THEN "save failed" ELSE draft[j].key>>
      /\ UNCHANGED <<files, race, login, outcome, saved, spoilt, inForce, astray>>
  BY DEF Post
<1>2. JobsOK'
  BY <1>1, MissingType DEF Done, IInv, JobsOK, JobOK, Saving, Kinds
<1>3. draft[j] = Missing \/ (draft[j].key \in Keys /\ draft[j].key \in saved \cup spoilt)
  BY <1>1 DEF IInv, JobsOK, JobOK
<1>4. WebOK'
  <2>1. PICK x \in Keys \cup {"save failed"} :
          results' = <<x>> /\ x \in saved \cup spoilt \cup {"save failed"}
    BY <1>1, <1>3
  <2>2. results' \in Seq(Keys \cup {"save failed"}) /\ Len(results') <= 1 /\ results'[1] = x
    BY <2>1, OneResult
  <2>3. /\ login \in {"new", "waiting", "closing", "returned", "ended"}
        /\ outcome \in saved \cup spoilt \cup Failures \cup {"none"}
    BY DEF IInv, WebOK
  <2>4. login' = login /\ outcome' = outcome /\ saved' = saved /\ spoilt' = spoilt
    BY <1>1
  <2>5. results'[1] \in saved \cup spoilt \cup {"save failed"}
    BY <2>1, <2>2, Zenon
  <2>6. QED  BY <2>2, <2>3, <2>4, <2>5, Zenon DEF WebOK
<1>5. \A o \in Jobs : pc'[o] \in Saving \/ pc[o] \in Saving =>
        pc'[o] = pc[o] /\ kind'[o] = kind[o] /\ draft'[o] = draft[o]
  BY <1>1 DEF Done, IInv, JobsOK, Saving
<1>6. FilesOK' /\ FilesRight' /\ DraftsRight'
  BY <1>1, <1>5, SameRight
<1>7. QED  BY <1>2, <1>4, <1>6 DEF IInv

LEMMA WebInv == ASSUME IInv, StartLogin \/ Receive \/ GiveUp \/ Shutdown PROVE IInv'
<1>1. UNCHANGED <<files, pc, kind, draft, race, saved, spoilt, inForce, astray>>
  BY DEF StartLogin, Receive, GiveUp, Shutdown, jobs, Unmoved
<1>2. JobsOK' /\ FilesOK' /\ FilesRight' /\ DraftsRight'
  BY <1>1, SameRight DEF IInv, JobsOK, JobOK
<1>3. WebOK'
  <2>1. CASE StartLogin \/ GiveUp \/ Shutdown
    BY <1>1, <2>1 DEF IInv, WebOK, StartLogin, GiveUp, Shutdown, Failures
  <2>2. CASE Receive
    <3>1. results # <<>> /\ outcome' = Head(results) /\ results' = <<>> /\ login' = "closing"
      BY <2>2 DEF Receive
    <3>2. Head(results) = results[1]
      BY <3>1, HeadIsFirst DEF IInv, WebOK
    <3>3. outcome' \in saved \cup spoilt \cup {"save failed"}
      <4>1. results # <<>> => results[1] \in saved \cup spoilt \cup {"save failed"}
        BY DEF IInv, WebOK
      <4>2. QED  BY <3>1, <3>2, <4>1, Zenon
    <3>4. results' \in Seq(Keys \cup {"save failed"}) /\ Len(results') <= 1
      BY <3>1, NoResult, Zenon
    <3>5. QED  BY <1>1, <3>1, <3>3, <3>4 DEF WebOK, Failures
  <2>3. QED  BY <2>1, <2>2
<1>4. QED  BY <1>2, <1>3 DEF IInv

LEMMA ExitInv == ASSUME IInv, Exit PROVE IInv'
<1> DEFINE left  == {j \in Jobs : kind[j] = "callback"}
           broke == {j \in left : pc[j] = "open"}
<1>1. /\ login' = "ended"
      /\ pc' = [j \in Jobs |-> IF j \in left THEN "over" ELSE pc[j]]
      /\ kind' = [j \in Jobs |-> IF j \in left THEN "none" ELSE kind[j]]
      /\ draft' = [j \in Jobs |-> IF j \in left THEN Missing ELSE draft[j]]
      /\ \/ UNCHANGED files
         \/ (\E j \in broke : race[j] = "mixed") /\ files' = [files EXCEPT !["switchyard"] = Torn]
      /\ astray' = IF broke = {} THEN astray ELSE astray \cup {"switchyard"}
      /\ race' = [j \in Jobs |-> IF j \in left THEN "none"
                                 ELSE IF \E o \in broke : MixedBy(o, j) THEN "mixed" ELSE race[j]]
      /\ UNCHANGED <<results, outcome, saved, spoilt, inForce>>
  BY DEF Exit
<1>2. \A j \in Jobs : JobOK(pc[j], kind[j], draft[j], race[j])
  BY DEF IInv, JobsOK
<1>3. \A j \in Jobs \ left : race'[j] # race[j] =>
        race'[j] = "mixed" /\ pc[j] = "open" /\ race[j] # "lost"
  BY <1>1 DEF MixedBy, Writes
<1>4. \A j \in Jobs : JobOK(pc[j], kind[j], draft[j], race[j])'
  <2> TAKE j \in Jobs
  <2>1. CASE j \in left
    BY <1>1, <2>1 DEF JobOK, Saving
  <2>2. CASE j \notin left
    <3>1. pc'[j] = pc[j] /\ kind'[j] = kind[j] /\ draft'[j] = draft[j]
      BY <1>1, <2>2
    <3>2. QED  BY <1>1, <1>2, <1>3, <2>2, <3>1 DEF JobOK, Saving
  <2>3. QED  BY <2>1, <2>2
<1>5. JobsOK'
  <2>1. /\ pc' \in [Jobs -> {"new", "loaded", "open", "post", "over"}]
        /\ kind' \in [Jobs -> Kinds] /\ draft' \in [Jobs -> FileStates] /\ race' \in [Jobs -> Races]
    BY <1>1, MissingType DEF IInv, JobsOK, Kinds, Races
  <2>2. QED  BY <1>1, <1>4, <2>1 DEF IInv, JobsOK
<1>6. FilesOK' /\ WebOK'
  BY <1>1, TornType DEF IInv, FilesOK, WebOK, Files
<1>7. \A f \in Files \ astray' : files'[f] = files[f]
  BY <1>1 DEF IInv, FilesOK, Files
<1>8. \A o \in Jobs, f \in Files : Writes(o, f) => Writes(o, f)' \/ f \in astray'
  <2> TAKE o \in Jobs, f \in Files
  <2> SUFFICES ASSUME Writes(o, f) PROVE Writes(o, f)' \/ f \in astray'  OBVIOUS
  <2>1. CASE o \in left
    <3>1. o \in broke /\ f = "switchyard"
      BY <2>1 DEF Writes, Target
    <3>2. QED  BY <1>1, <3>1
  <2>2. CASE o \notin left
    <3>1. pc'[o] = pc[o] /\ kind'[o] = kind[o] /\ race'[o] # "lost"
      BY <1>1, <1>3, <2>2 DEF Writes
    <3>2. QED  BY <3>1 DEF Writes, Target
  <2>3. QED  BY <2>1, <2>2
<1>9. \A o \in Jobs : pc'[o] \in Saving /\ kind'[o] = "keys" /\ race'[o] = "none" =>
        pc[o] \in Saving /\ kind[o] = "keys" /\ race[o] = "none" /\ draft'[o] = draft[o]
  BY <1>1, <1>3
<1>10. astray \subseteq astray' /\ inForce' = inForce
  BY <1>1
<1>11. FilesRight' /\ DraftsRight'
  BY <1>7, <1>8, <1>9, <1>10, DoubtRight
<1>12. QED  BY <1>5, <1>6, <1>11 DEF IInv

-----------------------------------------------------------------------------
(* The theorems.                                                           *)

LEMMA InitInv == Init => IInv
<1> SUFFICES ASSUME Init PROVE IInv  OBVIOUS
<1>1. PICK fs \in [Files -> {Missing} \cup {Saved(k) : k \in OldKeys}] : files = fs
  BY DEF Init
<1>2. \A f \in Files : files[f] = Missing \/ \E k \in Keys : files[f] = Saved(k)
  BY <1>1, OldKeysAssumption
<1>3. ASSUME NEW f \in Files
      PROVE  /\ files[f] \in FileStates /\ files[f].state # "torn" /\ files[f].key \in Keys \cup {NoKey}
             /\ files[f] # Missing => files[f].state = "whole"
  BY <1>2, MissingType, SavedType
<1>4. files \in [Files -> FileStates]
  BY <1>1, <1>3
<1>5. JobsOK
  BY MissingType DEF Init, JobsOK, JobOK, Saving, Kinds, Races
<1>6. /\ inForce = [f \in Files |-> IF f = "switchyard" /\ files[f] = Missing
                                      THEN "borrowed" ELSE files[f].key]
      /\ astray = {}
  BY DEF Init
<1>7. FilesOK
  BY <1>3, <1>4, <1>6, KeysAssumption, BorrowedAssumption DEF FilesOK, Files
<1>8. WebOK
  BY DEF Init, WebOK
<1>9. FilesRight
  <2> SUFFICES ASSUME NEW f \in Files PROVE Holds(files[f], f, inForce[f])
    BY DEF FilesRight
  <2>1. CASE f = "switchyard" /\ files[f] = Missing
    BY <1>6, <2>1, MissingType DEF Holds
  <2>2. CASE ~(f = "switchyard" /\ files[f] = Missing)
    <3>1. inForce[f] = files[f].key /\ inForce[f] # "borrowed"
      BY <1>3, <1>6, <2>2, KeysAssumption, BorrowedAssumption
    <3>2. QED  BY <1>3, <2>2, <3>1 DEF Holds
  <2>3. QED  BY <2>1, <2>2
<1>10. DraftsRight
  BY DEF Init, DraftsRight, Saving
<1>11. QED  BY <1>5, <1>7, <1>8, <1>9, <1>10 DEF IInv

LEMMA NextInv == IInv /\ [Next]_vars => IInv'
<1> SUFFICES ASSUME IInv, [Next]_vars PROVE IInv'  OBVIOUS
<1>1. CASE UNCHANGED vars
  <2>1. UNCHANGED <<files, pc, kind, draft, race, login, results, outcome, saved, spoilt, inForce, astray>>
    BY <1>1 DEF vars
  <2>2. JobsOK' /\ WebOK'
    BY <2>1 DEF IInv, JobsOK, JobOK, WebOK
  <2>3. FilesOK' /\ FilesRight' /\ DraftsRight'
    BY <2>1, SameRight
  <2>4. QED  BY <2>2, <2>3 DEF IInv
<1>2. CASE Next
  BY <1>2, CommandInv, LogoutInv, TruncateInv, WriteInv, WriteNowhereInv, FailureInv, PostInv,
     WebInv, ExitInv
  DEF Next, Job
<1>3. QED  BY <1>1, <1>2

LEMMA Invariance == Spec => []IInv
BY InitInv, NextInv, PTL DEF Spec

\* Type correctness; the result channel holds at most one result.
THEOREM TypeCorrect == Spec => []TypeOK
<1>1. IInv => TypeOK
  BY DEF IInv, TypeOK, JobsOK, FilesOK, WebOK
<1>2. QED  BY <1>1, Invariance, PTL

\* However many callbacks, timers and signals race, success is said of a key
\* only that a callback has written out to the end: a save that failed or broke
\* off is never reported.  That file was whole, unless another job had written
\* it while the callback had it open.
THEOREM SuccessMeansSaved == Spec => []SuccessIsSaved
<1>1. IInv => SuccessIsSaved
  BY KeysAssumption DEF IInv, WebOK, SuccessIsSaved
<1>2. QED  BY <1>1, Invariance, PTL

\* When nobody is writing to the files a tool goes by, its own loader finds the
\* key of its last login or logout, after any number of commands of both tools
\* and callbacks, however they overlapped: a file is in doubt only from a write
\* over another job's, a write that broke off or a keys command that saved a
\* key it had loaded before another's login was through, until its next login.
THEOREM LastLoginSticks == Spec => []LoginSticks
<1>1. IInv => LoginSticks
  <2> SUFFICES ASSUME IInv, NEW tool \in Files, ~Astray(tool),
                      \A j \in Jobs, f \in Sources(tool) : ~Writes(j, f)
               PROVE  Found(tool).state # "torn" /\ Found(tool).key = InForce(tool)
    BY DEF LoginSticks
  <2>1. CASE tool = "switchyard"
    BY <2>1, LoadRight DEF IInv, Found
  <2>2. CASE tool = "nexus"
    <3>1. inForce["nexus"] # "borrowed"
      BY DEF IInv, FilesOK
    <3>2. Holds(files["nexus"], "nexus", inForce["nexus"])
      BY <2>2, <3>1 DEF IInv, FilesRight, Settled, Astray, Sources, Files
    <3>3. QED  BY <2>2, <3>1, <3>2 DEF Found, NexusLoad, InForce, Holds
  <2>3. QED  BY <2>1, <2>2 DEF Files
<1>2. QED  BY <1>1, Invariance, PTL

-----------------------------------------------------------------------------
(* The safety half of LoginReturns: a web login goes forward and decides   *)
(* once, and so does every job.                                            *)

LoginRank(place) ==
  CASE place = "new"      -> 4
    [] place = "waiting"  -> 3
    [] place = "closing"  -> 2
    [] place = "returned" -> 1
    [] place = "ended"    -> 0

JobRank(place) ==
  CASE place = "new"    -> 4
    [] place = "loaded" -> 3
    [] place = "open"   -> 2
    [] place = "post"   -> 1
    [] place = "over"   -> 0

LoginGoesForward ==
  /\ \/ login' = login /\ outcome' = outcome
     \/ LoginRank(login') < LoginRank(login)
  /\ outcome # "none" => outcome' = outcome
  /\ \A j \in Jobs :
       /\ Job(j) => JobRank(pc'[j]) < JobRank(pc[j])
       /\ pc'[j] = pc[j] \/ JobRank(pc'[j]) < JobRank(pc[j])

\* A login that has not decided has no outcome.
Undecided == login \in {"new", "waiting"} => outcome = "none"

LEMMA JobForward ==
  ASSUME IInv, NEW j \in Jobs, Job(j)
  PROVE  /\ UNCHANGED <<login, outcome>>
         /\ JobRank(pc'[j]) < JobRank(pc[j])
         /\ \A k \in Jobs \ {j} : pc'[k] = pc[k]
<1> USE DEF IInv, JobsOK, JobRank, web
<1>1. CASE LoginKey(j) \/ NexusLogin(j) \/ KeysCommand(j) \/ Callback(j)
  <2>1. UNCHANGED <<login, outcome>> /\ \E k, d : Begin(j, k, d)
    BY <1>1 DEF LoginKey, NexusLogin, KeysCommand, Callback
  <2>2. QED  BY <2>1 DEF Begin
<1>2. CASE NexusLogout(j) \/ Truncate(j)
  BY <1>2 DEF NexusLogout, Truncate
<1>3. CASE Write(j) \/ SaveFails(j)
  <2>1. /\ UNCHANGED <<login, outcome>> /\ pc[j] \in {"loaded", "open"}
        /\ \E d : GoOn(j, d)
    BY <1>3 DEF Write, SaveFails, BreaksOff, Saving
  <2>2. pc' = [pc EXCEPT ![j] = "post"] \/ pc' = [pc EXCEPT ![j] = "over"]
    BY <2>1 DEF GoOn, Done
  <2>3. QED  BY <2>1, <2>2
<1>4. CASE Kill(j)
  BY <1>4 DEF Kill, BreaksOff, Done, Saving
<1>5. CASE WriteNowhere(j)
  <2>1. UNCHANGED <<login, outcome>> /\ pc[j] = "open" /\ GoOn(j, draft[j])
    BY <1>5 DEF WriteNowhere
  <2>2. pc' = [pc EXCEPT ![j] = "post"] \/ pc' = [pc EXCEPT ![j] = "over"]
    BY <2>1 DEF GoOn, Done
  <2>3. QED  BY <2>1, <2>2
<1>6. CASE Post(j)
  <2>1. pc[j] = "post" /\ login' = login /\ outcome' = outcome /\ Done(j)
    BY <1>6 DEF Post
  <2>2. pc' = [pc EXCEPT ![j] = "over"]
    BY <2>1 DEF Done
  <2>3. QED  BY <2>1, <2>2
<1>7. QED  BY <1>1, <1>2, <1>3, <1>4, <1>5, <1>6 DEF Job

LEMMA WebForward ==
  ASSUME IInv, Undecided, StartLogin \/ Receive \/ GiveUp \/ Shutdown \/ Exit
  PROVE  /\ LoginRank(login') < LoginRank(login) /\ (outcome # "none" => outcome' = outcome)
         /\ \A j \in Jobs : pc'[j] = pc[j] \/ JobRank(pc'[j]) < JobRank(pc[j])
         /\ Undecided'
<1> USE DEF Undecided, LoginRank, jobs
<1>1. CASE StartLogin \/ Receive \/ GiveUp \/ Shutdown
  <2>1. pc' = pc
    BY <1>1 DEF StartLogin, Receive, GiveUp, Shutdown
  <2>2. \/ login = "new" /\ login' = "waiting" /\ outcome' = outcome
        \/ login \in {"new", "waiting"} /\ login' \in {"returned", "closing"}
        \/ login = "closing" /\ login' = "returned" /\ outcome' = outcome
    BY <1>1 DEF StartLogin, Receive, GiveUp, Shutdown
  <2>3. LoginRank(login') < LoginRank(login)
    BY <2>2
  <2>4. QED  BY <2>1, <2>2, <2>3
<1>2. CASE Exit
  <2>1. /\ login = "returned" /\ login' = "ended" /\ outcome' = outcome
        /\ pc' = [j \in Jobs |-> IF j \in {k \in Jobs : kind[k] = "callback"} THEN "over" ELSE pc[j]]
    BY <1>2 DEF Exit
  <2>2. ASSUME NEW j \in Jobs PROVE pc'[j] = pc[j] \/ JobRank(pc'[j]) < JobRank(pc[j])
    <3>1. CASE kind[j] = "callback"
      <4>1. pc[j] \in {"loaded", "open", "post"} /\ pc'[j] = "over"
        BY <2>1, <3>1 DEF IInv, JobsOK, JobOK
      <4>2. QED  BY <4>1 DEF JobRank
    <3>2. CASE kind[j] # "callback"
      BY <2>1, <3>2
    <3>3. QED  BY <3>1, <3>2
  <2>3. QED  BY <2>1, <2>2
<1>3. QED  BY <1>1, <1>2

\* Whatever callbacks, the timer and signals do, a web login only goes towards
\* its return and, once it has an outcome, keeps it; and every command and
\* callback goes towards its end, where only a full channel can hold it up.
THEOREM LoginAdvances == Spec => [][LoginGoesForward]_vars
<1>1. Init => Undecided
  BY DEF Init, Undecided
<1>2. IInv /\ Undecided /\ [Next]_vars => [LoginGoesForward]_vars /\ Undecided'
  <2> SUFFICES ASSUME IInv, Undecided, [Next]_vars PROVE [LoginGoesForward]_vars /\ Undecided'
    OBVIOUS
  <2>1. CASE UNCHANGED vars
    BY <2>1 DEF vars, Undecided
  <2>2. ASSUME NEW j \in Jobs, Job(j) PROVE LoginGoesForward /\ Undecided'
    <3>1. \A k \in Jobs : pc'[k] = pc[k] \/ JobRank(pc'[k]) < JobRank(pc[k])
      BY <2>2, JobForward
    <3>2. \A k \in Jobs : Job(k) => JobRank(pc'[k]) < JobRank(pc[k])
      BY JobForward
    <3>3. QED  BY <2>2, <3>1, <3>2, JobForward DEF LoginGoesForward, Undecided
  <2>3. CASE StartLogin \/ Receive \/ GiveUp \/ Shutdown \/ Exit
    <3>1. \A k \in Jobs : Job(k) => JobRank(pc'[k]) < JobRank(pc[k])
      BY JobForward
    <3>2. QED  BY <2>3, <3>1, WebForward DEF LoginGoesForward
  <2>4. QED  BY <2>1, <2>2, <2>3 DEF Next
<1>3. QED  BY <1>1, <1>2, Invariance, PTL DEF Spec

=============================================================================
