------------------------------ MODULE CliLogin ------------------------------
(***************************************************************************)
(* The credentials of the command line tools and the web login that gets   *)
(* them: cmd/switchyard/login_web.go (StartWebAuthFlow), and the commands  *)
(* of cmd/switchyard/main.go (login, keys) and cmd/nexus-cli/main.go       *)
(* (login, logout) that read and write the same two files.                 *)
(*                                                                         *)
(* A job is one command, or the handling of one callback of the browser,   *)
(* which is a goroutine of the process that does the web login.  Nothing   *)
(* is locked, and a file is truncated before it is written.                *)
(*                                                                         *)
(* The two tools are called by the file each saves to.  nexus-cli reads    *)
(* its own file only; switchyard reads nexus-cli's while it has none.      *)
(***************************************************************************)
EXTENDS Integers, Sequences

CONSTANTS
  Jobs,
  Keys,      \* API keys of the gateway
  OldKeys,   \* those the files may hold at first
  NoKey      \* the empty string

ASSUME NoKeyAssumption == NoKey \notin Keys
ASSUME OldKeysAssumption == OldKeys \subseteq Keys

\* A key is not one of the other outcomes of a web login.
Failures == {"no port", "save failed", "timed out", "cancelled"}
ASSUME KeysAssumption == \A k \in Keys : k \notin Failures \cup {"none", "borrowed"}
ASSUME BorrowedAssumption == NoKey # "borrowed"

Files == {"switchyard", "nexus"}

\* A file's state, and the gateway key it holds when it is whole; the project,
\* the URL and the users' keys of providers are left out.
File(state, key) == [state |-> state, key |-> key]
Missing    == File("missing", NoKey)
Torn       == File("torn", NoKey)
Saved(key) == File("whole", key)
FileStates == [state : {"missing", "torn", "whole"}, key : Keys \cup {NoKey}]

Kinds == {"none", "login", "keys", "nexus", "callback"}

VARIABLES
  files,    \* ~/.switchyard/credentials.json and ~/.nexus/credentials.json
  pc,       \* pc[j]: where job j stands
  kind,     \* kind[j]: what job j is
  draft,    \* draft[j]: the credentials it saves
  race,     \* race[j]: what other jobs have done to it at the files
  login,    \* the web login
  results,  \* resultCh
  outcome,  \* what StartWebAuthFlow returned
  saved,    \* history: the keys callbacks have saved whole
  spoilt,   \* history: those they wrote over another job's text, garbling it
  inForce,  \* history: the key of each tool's last login or logout
  astray    \* history: the files that may not hold what they ought to

jobs == <<pc, kind, draft, race>>
web  == <<login, results, outcome>>
vars == <<files, pc, kind, draft, race, login, results, outcome, saved, spoilt, inForce, astray>>

Saving == {"loaded", "open"}

(* Another job has written the file j has open ("mixed") or has removed it  *)
(* ("lost"), or a keys command has loaded its key in the midst of another's *)
(* write or before another's login or logout ("stale").                     *)
Races == {"none", "mixed", "lost", "stale"}

TypeOK ==
  /\ files \in [Files -> FileStates]
  /\ pc \in [Jobs -> {"new", "loaded", "open", "post", "over"}]
  /\ kind \in [Jobs -> Kinds]
  /\ draft \in [Jobs -> FileStates]
  /\ race \in [Jobs -> Races]
  /\ login \in {"new", "waiting", "closing", "returned", "ended"}
  /\ results \in Seq(Keys \cup {"save failed"}) /\ Len(results) <= 1
  /\ outcome \in Keys \cup Failures \cup {"none"}
  /\ saved \subseteq Keys /\ spoilt \subseteq Keys
  /\ inForce \in [Files -> Keys \cup {NoKey, "borrowed"}]
  /\ astray \subseteq Files

\* What loadCredentials of switchyard finds: the .nexus file counts where the
\* other cannot be read; there is nothing where the one that counts is torn.
Load(fs) == IF fs["switchyard"].state = "missing" THEN fs["nexus"] ELSE fs["switchyard"]

\* What loadCredentials of nexus-cli finds; nothing where the file is torn.
NexusLoad(fs) == fs["nexus"]

Init ==
  /\ files \in [Files -> {Missing} \cup {Saved(k) : k \in OldKeys}]
  /\ pc = [j \in Jobs |-> "new"]
  /\ kind = [j \in Jobs |-> "none"]
  /\ draft = [j \in Jobs |-> Missing]
  /\ race = [j \in Jobs |-> "none"]
  /\ login = "new"
  /\ results = <<>>
  /\ outcome = "none"
  /\ saved = {} /\ spoilt = {}
  /\ inForce = [f \in Files |-> IF f = "switchyard" /\ files[f] = Missing
                                  THEN "borrowed" ELSE files[f].key]
  /\ astray = {}

-----------------------------------------------------------------------------
(* Jobs.                                                                   *)

\* The file a job saves to.
Target(j) == IF kind[j] = "nexus" THEN "nexus" ELSE "switchyard"

\* Job j has file f open; one whose file was removed writes to nowhere.
Writes(j, f) == pc[j] = "open" /\ race[j] # "lost" /\ Target(j) = f

\* The files a tool goes by: switchyard borrows nexus-cli's while it has none.
Sources(tool) == IF inForce[tool] = "borrowed" THEN Files ELSE {tool}

Begin(j, k, credentials) ==
  /\ pc[j] = "new"
  /\ pc' = [pc EXCEPT ![j] = "loaded"]
  /\ kind' = [kind EXCEPT ![j] = k]
  /\ draft' = [draft EXCEPT ![j] = credentials]
  /\ race' = [race EXCEPT ![j] =
                IF k = "keys" /\ (\E o \in Jobs, f \in Sources("switchyard") : Writes(o, f))
                THEN "stale" ELSE "none"]
  /\ UNCHANGED <<files, saved, spoilt, inForce, astray>>

\* switchyard login -key: a blank key is trimmed to nothing and saved.
LoginKey(j) ==
  /\ \E k \in Keys \cup {NoKey} : Begin(j, "login", Saved(k))
  /\ UNCHANGED web

\* nexus-cli login: an empty key ends it.
NexusLogin(j) ==
  /\ \E k \in Keys : Begin(j, "nexus", Saved(k))
  /\ UNCHANGED web

\* Mutant: the command starts from new credentials.
KeysCommand_Afresh(j) == Begin(j, "keys", Saved(NoKey)) /\ UNCHANGED web

\* switchyard keys set, keys remove: the credentials are loaded, or empty
\* where they cannot be read, and saved with one provider's key changed.
KeysCommand(j) == Begin(j, "keys", Saved(Load(files).key)) /\ UNCHANGED web

\* A login or logout at file f: keys commands under way have an old key.
Outdated(o, f) == kind[o] = "keys" /\ race[o] = "none" /\ f \in Sources("switchyard")

\* nexus-cli logout: removes the file, even under a login that has it open.
NexusLogout(j) ==
  /\ pc[j] = "new"
  /\ pc' = [pc EXCEPT ![j] = "over"]
  /\ files' = [files EXCEPT !["nexus"] = Missing]
  /\ race' = [o \in Jobs |-> IF Writes(o, "nexus") THEN "lost"
                             ELSE IF Outdated(o, "nexus") THEN "stale" ELSE race[o]]
  /\ inForce' = [inForce EXCEPT !["nexus"] = NoKey]
  /\ astray' = astray \ {"nexus"}
  /\ UNCHANGED <<kind, draft, web, saved, spoilt>>

\* The handler's checks of a callback's nonce and key.
Accepted(state, key) == state = "right" /\ key # NoKey

\* A callback of the browser.  Preflights and callbacks that are refused
\* change nothing.
Callback(j) ==
  /\ login \in {"waiting", "closing"}
  /\ \E state \in {"right", "wrong"}, key \in Keys \cup {NoKey} :
       /\ Accepted(state, key)
       /\ Begin(j, "callback", Saved(key))
  /\ UNCHANGED web

-----------------------------------------------------------------------------
(* saveCredentials.                                                        *)

\* os.WriteFile opens and truncates the file.
Truncate(j) ==
  /\ pc[j] = "loaded"
  /\ files' = [files EXCEPT ![Target(j)] = Torn]
  /\ pc' = [pc EXCEPT ![j] = "open"]
  /\ UNCHANGED <<kind, draft, race, web, saved, spoilt, inForce, astray>>

\* A job is over, and what it kept is gone.
Done(j) ==
  /\ pc' = [pc EXCEPT ![j] = "over"]
  /\ kind' = [kind EXCEPT ![j] = "none"]
  /\ draft' = [draft EXCEPT ![j] = Missing]

\* A callback goes on to report what it saved; a command is over.
GoOn(j, credentials) ==
  IF kind[j] = "callback"
    THEN /\ pc' = [pc EXCEPT ![j] = "post"]
         /\ draft' = [draft EXCEPT ![j] = credentials]
         /\ UNCHANGED kind
    ELSE Done(j)

\* The key a tool goes by, and whether it may find another one.
InForce(tool) == IF inForce[tool] = "borrowed" THEN inForce["nexus"] ELSE inForce[tool]
Astray(tool)  == tool \in astray \/ (inForce[tool] = "borrowed" /\ "nexus" \in astray)

\* Job o has open what job j writes to.
MixedBy(j, o) == o # j /\ Writes(j, Target(j)) /\ Writes(o, Target(j))

\* A login puts its key in force, a keys command makes a borrowed key
\* switchyard's own and else leaves the key as it is.
KeyChanges(j) ==
  inForce' = [inForce EXCEPT ![Target(j)] =
                IF kind[j] = "keys" THEN InForce("switchyard") ELSE draft[j].key]

\* A login that is whole sets its file right; a keys command leaves it as
\* right as it was, unless it saves a stale key.
Rightly(j) ==
  astray' = IF kind[j] # "keys" THEN astray \ {Target(j)}
            ELSE IF race[j] # "none" \/ Astray("switchyard") THEN astray \cup {"switchyard"}
            ELSE astray

\* The text is written over what is there.
WriteWhole(j) ==
  /\ files' = [files EXCEPT ![Target(j)] = draft[j]]
  /\ Rightly(j)
  /\ saved' = IF kind[j] = "callback" THEN saved \cup {draft[j].key} ELSE saved
  /\ UNCHANGED spoilt

\* Where another job has written since, the end of its longer text stays.
WriteGarbled(j) ==
  /\ race[j] = "mixed"
  /\ files' = [files EXCEPT ![Target(j)] = Torn]
  /\ astray' = astray \cup {Target(j)}
  /\ spoilt' = IF kind[j] = "callback" THEN spoilt \cup {draft[j].key} ELSE spoilt
  /\ UNCHANGED saved

Write(j) ==
  /\ pc[j] = "open"
  /\ race[j] # "lost"
  /\ WriteWhole(j) \/ WriteGarbled(j)
  /\ GoOn(j, draft[j])
  /\ KeyChanges(j)
  /\ race' = [o \in Jobs |->
                IF o = j THEN "none"
                ELSE IF MixedBy(j, o) THEN "mixed"
                ELSE IF kind[j] # "keys" /\ Outdated(o, Target(j)) THEN "stale"
                ELSE race[o]]
  /\ UNCHANGED web

\* The file was removed since it was opened: the text is gone with it.
WriteNowhere(j) ==
  /\ pc[j] = "open"
  /\ race[j] = "lost"
  /\ GoOn(j, draft[j])
  /\ race' = [race EXCEPT ![j] = "none"]
  /\ UNCHANGED <<files, web, saved, spoilt, inForce, astray>>

\* A job breaks off; with the file open it may leave some of its text there.
BreaksOff(j) ==
  /\ pc[j] \in Saving
  /\ \/ UNCHANGED files
     \/ race[j] = "mixed" /\ files' = [files EXCEPT ![Target(j)] = Torn]
  /\ astray' = astray \cup {f \in Files : Writes(j, f)}
  /\ race' = [o \in Jobs |-> IF o = j THEN "none" ELSE IF MixedBy(j, o) THEN "mixed" ELSE race[o]]
  /\ UNCHANGED <<web, saved, spoilt, inForce>>

\* Mutant: a callback reports its key although it could not be saved.
SaveFails_Unnoticed(j) == BreaksOff(j) /\ GoOn(j, draft[j])

\* The directory cannot be made or the file not opened, which leaves it as it
\* was, or the text not written, which leaves it torn.
SaveFails(j) == BreaksOff(j) /\ GoOn(j, Missing)

\* The process of a command is killed.
Kill(j) == kind[j] # "callback" /\ BreaksOff(j) /\ Done(j)

\* Mutant: the channel has room for any number of results.
Post_Unbounded(j) ==
  /\ pc[j] = "post"
  /\ results' = Append(results, IF draft[j] = Missing THEN "save failed" ELSE draft[j].key)
  /\ Done(j)
  /\ UNCHANGED <<files, race, login, outcome, saved, spoilt, inForce, astray>>

\* The handler of a callback reports; the channel has room for one result.
Post(j) ==
  /\ pc[j] = "post"
  /\ results = <<>>
  /\ results' = <<IF draft[j] = Missing THEN "save failed" ELSE draft[j].key>>
  /\ Done(j)
  /\ UNCHANGED <<files, race, login, outcome, saved, spoilt, inForce, astray>>

Job(j) ==
  \/ LoginKey(j) \/ NexusLogin(j) \/ KeysCommand(j) \/ NexusLogout(j) \/ Callback(j)
  \/ Truncate(j) \/ Write(j) \/ WriteNowhere(j) \/ SaveFails(j) \/ Kill(j)
  \/ Post(j)

-----------------------------------------------------------------------------
(* StartWebAuthFlow.                                                       *)

Unmoved == UNCHANGED <<files, saved, spoilt, inForce, astray>>

\* It serves on one of eleven ports, unless all of them are taken.
StartLogin ==
  /\ login = "new"
  /\ \/ login' = "waiting" /\ UNCHANGED outcome
     \/ login' = "returned" /\ outcome' = "no port"
  /\ UNCHANGED <<jobs, results>>
  /\ Unmoved

\* The select: a result, five minutes, or a signal.
Receive ==
  /\ login = "waiting"
  /\ results # <<>>
  /\ outcome' = Head(results)
  /\ results' = <<>>
  /\ login' = "closing"
  /\ UNCHANGED jobs
  /\ Unmoved

GiveUp ==
  /\ login = "waiting"
  /\ outcome' \in {"timed out", "cancelled"}
  /\ login' = "closing"
  /\ UNCHANGED <<jobs, results>>
  /\ Unmoved

\* Mutant: Shutdown has no deadline and waits for the handlers.
Shutdown_WaitsForHandlers ==
  /\ login = "closing"
  /\ \A j \in Jobs : kind[j] # "callback"
  /\ login' = "returned"
  /\ UNCHANGED <<jobs, results, outcome>>
  /\ Unmoved

\* The server is shut down: once its handlers are done, or after a second.
Shutdown ==
  /\ login = "closing"
  /\ login' = "returned"
  /\ UNCHANGED <<jobs, results, outcome>>
  /\ Unmoved

\* The process ends, and the handlers that are left with it.
Exit ==
  LET left  == {j \in Jobs : kind[j] = "callback"}
      broke == {j \in left : pc[j] = "open"}
  IN
  /\ login = "returned"
  /\ login' = "ended"
  /\ pc' = [j \in Jobs |-> IF j \in left THEN "over" ELSE pc[j]]
  /\ kind' = [j \in Jobs |-> IF j \in left THEN "none" ELSE kind[j]]
  /\ draft' = [j \in Jobs |-> IF j \in left THEN Missing ELSE draft[j]]
  /\ \/ UNCHANGED files
     \/ (\E j \in broke : race[j] = "mixed") /\ files' = [files EXCEPT !["switchyard"] = Torn]
  /\ astray' = IF broke = {} THEN astray ELSE astray \cup {"switchyard"}
  /\ race' = [j \in Jobs |-> IF j \in left THEN "none"
                             ELSE IF \E o \in broke : MixedBy(o, j) THEN "mixed" ELSE race[j]]
  /\ UNCHANGED <<results, outcome, saved, spoilt, inForce>>

Next ==
  \/ \E j \in Jobs : Job(j)
  \/ StartLogin \/ Receive \/ GiveUp \/ Shutdown \/ Exit

Spec == Init /\ [][Next]_vars

\* The timer of five minutes runs off, and so does the deadline of Shutdown.
FairSpec == Spec /\ WF_vars(Receive \/ GiveUp) /\ WF_vars(Shutdown)

-----------------------------------------------------------------------------
(* Properties.                                                             *)

\* "Authenticated successfully" is said of no key but one a callback has
\* written out, whichever callbacks, timers and signals race for the result: a
\* save that failed or broke off is never reported as a success.  The file was
\* then whole, unless another job had written it while that callback had it
\* open (spoilt), which no callback notices.
SuccessIsSaved == outcome \in Keys => outcome \in saved \cup spoilt

Found(tool) == IF tool = "switchyard" THEN Load(files) ELSE NexusLoad(files)

\* When nobody is writing, each tool's own loader finds the key of that tool's
\* last login or logout (for switchyard without credentials, nexus-cli's),
\* whatever keys commands, other logins and logouts came before, after and
\* in between.  Three things can lead a file astray, until its next login: a
\* write over another job's, a write that breaks off, and a keys command that
\* had loaded its key before another job's login was through.
LoginSticks ==
  \A tool \in Files :
    (\A j \in Jobs, f \in Sources(tool) : ~Writes(j, f)) /\ ~Astray(tool) =>
      Found(tool).state # "torn" /\ Found(tool).key = InForce(tool)

\* A web login returns, even with callbacks waiting to report.
LoginReturns == login = "waiting" ~> login \in {"returned", "ended"}

=============================================================================
