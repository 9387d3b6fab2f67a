------------------------------ MODULE KeyAuth ------------------------------
(***************************************************************************)
(* API keys: how a chat request is admitted (internal/auth/validator.go,   *)
(* internal/tenant/resolver.go), and where keys come from and go to: the   *)
(* /v1/api-keys handlers, the first login of a CLI user and the rotation   *)
(* of a key (internal/http/handlers/auth_cli.go).                          *)
(*                                                                         *)
(* A call is a handler at work.  Each of its statements on PostgreSQL and  *)
(* commands to Redis is one step, so calls interleave between any two.  A  *)
(* statement may fail, and a failed write may have been executed all the   *)
(* same.                                                                   *)
(*                                                                         *)
(* Time is kept as what is left of each period; Tick takes one off each,   *)
(* and the clocks of the gateway and of Redis are the same.  No statement  *)
(* updates a key's project, scopes or expiry: a copy of a row can differ   *)
(* from the row in its status alone, so a copy is modelled as a status.    *)
(* A user has one organization and one project, named after the user id.   *)
(***************************************************************************)
EXTENDS Integers

CONSTANTS
  Users, Keys, Calls,
  NoUser, NoKey,
  TTL,         \* Validator.cacheTTL, in ticks
  Grants,      \* what POST /v1/api-keys is asked for: scope, expires_in_seconds
  MaxFaults    \* bound of the model on failed statements

ASSUME TTLAssumption    == TTL \in Nat \ {0}
ASSUME FaultsAssumption == MaxFaults \in Nat
Scopes == {"inference", "usage"}   \* admin counts as inference here

ASSUME GrantsAssumption == Grants \subseteq [scope : Scopes, lifetime : Int]
ASSUME NobodyAssumption == NoUser \notin Users /\ NoKey \notin Keys

VARIABLES
  tenant,    \* tenant[u]: the statuses of the user's organization and project
  row,       \* row[k]: the row of key k in table api_keys
  cache,     \* cache[k]: what Redis holds under apikey:<hash of k>
  call,      \* call[c]: where handler c stands
  revoked,   \* history: who revoked k, since when, and during which fills
  faults     \* failed statements so far

vars == <<tenant, row, cache, call, revoked, faults>>

Forever == -1   \* expires_at is NULL

Parts  == {"org", "prj"}
Left   == Nat \cup {Forever}
Row    == [status : {"absent", "active", "revoked"}, user : Users \cup {NoUser},
           left : Left, scope : Scopes]
Copy   == {"none", "active", "revoked"}
Call   == [op : {"none", "validate", "rotate", "login"},
           pc : {"idle", "lookup", "query", "fill", "resolve", "retire",
                 "get", "insert", "refetch", "issue", "done"},
           key : Keys \cup {NoKey}, user : Users \cup {NoUser},
           part : Parts,           \* which of the tenant's rows is looked at
           seen : Copy,            \* the key as it was read
           met : SUBSET Parts,     \* history: what was active since it came in
           barred : SUBSET {"revoked", "expired"},   \* history: see BeginChat
           reply : {"none", "ok", "refused", "failed"}]

TypeOK ==
  /\ tenant \in [Users -> [Parts -> {"absent", "active", "inactive"}]]
  /\ row \in [Keys -> Row]
  /\ cache \in [Keys -> [copy : Copy, left : Left]]
  /\ call \in [Calls -> Call]
  /\ revoked \in [Keys -> [by : {"nobody", "admin", "rotation"}, left : Nat,
                          fills : SUBSET Calls]]
  /\ faults \in 0 .. MaxFaults

Absent  == [status |-> "absent", user |-> NoUser, left |-> Forever, scope |-> "usage"]
NoEntry == [copy |-> "none", left |-> 0]

IdleCall == [op |-> "none", pc |-> "idle", key |-> NoKey, user |-> NoUser, part |-> "prj",
             seen |-> "none", met |-> {}, barred |-> {}, reply |-> "none"]

\* At first a user has both rows of a tenant, from an earlier login, or none.
Init ==
  /\ tenant \in [Users -> {[p \in Parts |-> status] : status \in {"absent", "active"}}]
  /\ row = [k \in Keys |-> Absent]
  /\ cache = [k \in Keys |-> NoEntry]
  /\ call = [c \in Calls |-> IdleCall]
  /\ revoked = [k \in Keys |-> [by |-> "nobody", left |-> 0, fills |-> {}]]
  /\ faults = 0

-----------------------------------------------------------------------------
\* Call c goes on at pc; call c ends with an answer, its variables are gone.
GoTo(c, pc)      == call' = [call EXCEPT ![c].pc = pc]
Reply(c, answer) == call' = [call EXCEPT ![c] =
                              [@ EXCEPT !.pc = "done", !.reply = answer, !.seen = "none"]]
At(c, op, pc)    == call[c].op = op /\ call[c].pc = pc
Fault            == faults < MaxFaults /\ faults' = faults + 1

Exists(k)      == row[k].status # "absent"
IsExpired(k)   == row[k].left = 0
IsActive(k, s) == s = "active" /\ ~IsExpired(k)

MetBy(u) == {p \in Parts : tenant[u][p] = "active"}

Retired(k) == row[k].status = "revoked" /\ revoked[k].left = 0 /\ revoked[k].fills = {}

\* A request comes in, with a key that exists or does not.  Barred is a key
\* that has expired, or whose revocation is a TTL old and was not followed by
\* a fill that was under way.
BeginChat(c, k) ==
  /\ call[c].pc = "idle"
  /\ call' = [call EXCEPT ![c] =
       [IdleCall EXCEPT !.op = "validate", !.pc = "lookup", !.key = k,
          !.met = IF Exists(k) THEN MetBy(row[k].user) ELSE {},
          !.barred = (IF Retired(k) THEN {"revoked"} ELSE {}) \cup
                     (IF IsExpired(k) THEN {"expired"} ELSE {})]]
  /\ UNCHANGED <<tenant, row, cache, revoked, faults>>

BeginRotate(c, k) ==
  /\ call[c].pc = "idle"
  /\ call' = [call EXCEPT ![c] = [IdleCall EXCEPT !.op = "rotate", !.pc = "lookup", !.key = k]]
  /\ UNCHANGED <<tenant, row, cache, revoked, faults>>

\* A login comes in with a token that Supabase accepts; one it does not
\* accept, or not in time, is refused and changes nothing.
BeginLogin(c, u) ==
  /\ call[c].pc = "idle"
  /\ call' = [call EXCEPT ![c] =
       [IdleCall EXCEPT !.op = "login", !.pc = "get", !.user = u, !.part = "org"]]
  /\ UNCHANGED <<tenant, row, cache, revoked, faults>>

\* Keys are random: a new one is none that somebody has tried before.
Fresh(k) == ~Exists(k) /\ \A c \in Calls : call[c].key # k

-----------------------------------------------------------------------------
(* The tables' other writers. *)

(* POST /v1/api-keys: a foreign key ties the row to an existing project.    *)
Create(k, u, grant) ==
  /\ Fresh(k)
  /\ tenant[u]["prj"] # "absent"
  /\ row' = [row EXCEPT ![k] =
       [status |-> "active", user |-> u, scope |-> grant.scope,
        left |-> IF grant.lifetime > 0 THEN grant.lifetime ELSE Forever]]
  /\ UNCHANGED <<tenant, cache, call, revoked, faults>>

\* The validations that have read k as active and not cached it yet.
Fills(k) == {c \in Calls : call[c].key = k /\ call[c].pc = "fill" /\ call[c].seen = "active"}

\* Mutant: the state 'expired', which domain/api_key.go declares.
RevokeRow_Expires(k, by) ==
  /\ row' = [row EXCEPT ![k].status = "expired"]
  /\ revoked' = [revoked EXCEPT ![k] = [by |-> by, left |-> TTL, fills |-> Fills(k)]]

\* Revoke's UPDATE.  The cache is left alone.
RevokeRow(k, by) ==
  /\ row' = [row EXCEPT ![k].status = "revoked"]
  /\ revoked' = IF row[k].status = "active"
                THEN [revoked EXCEPT ![k] = [by |-> by, left |-> TTL, fills |-> Fills(k)]]
                ELSE revoked

\* DELETE /v1/api-keys/{id}; an absent row answers not found.
Revoke(k) ==
  /\ Exists(k)
  /\ RevokeRow(k, "admin")
  /\ UNCHANGED <<tenant, cache, call, faults>>

(* An operator suspends, deletes (softly) or reactivates a tenant's row.    *)
SetStatus(u, p, status) ==
  /\ tenant[u][p] \notin {"absent", status}
  /\ tenant' = [tenant EXCEPT ![u][p] = status]
  /\ call' = [c \in Calls |->
       IF /\ status = "active" /\ call[c].op = "validate"
          /\ Exists(call[c].key) /\ row[call[c].key].user = u
       THEN [call[c] EXCEPT !.met = @ \cup {p}] ELSE call[c]]
  /\ UNCHANGED <<row, cache, revoked, faults>>

-----------------------------------------------------------------------------
(* Admission of a chat request: Validate, Resolve, HasScope. *)

Live(k) == cache[k].copy # "none"

\* validateKeyStatus, of the status that was read or cached.
Judge(c, status) ==
  IF IsActive(call[c].key, status)
  THEN call' = [call EXCEPT ![c] = [@ EXCEPT !.pc = "resolve", !.seen = "none"]]
  ELSE Reply(c, "refused")

CacheHit(c) ==
  /\ At(c, "validate", "lookup")
  /\ Live(call[c].key)
  /\ Judge(c, cache[call[c].key].copy)
  /\ UNCHANGED <<tenant, row, cache, revoked, faults>>

\* Nothing cached, or Redis does not answer.
CacheMiss(c) ==
  /\ At(c, "validate", "lookup")
  /\ (~Live(call[c].key) /\ UNCHANGED faults) \/ Fault
  /\ GoTo(c, "query")
  /\ UNCHANGED <<tenant, row, cache, revoked>>

\* GetByHash: no row and no answer are both "unauthorized".
Query(c) ==
  LET k == call[c].key
  IN  /\ At(c, "validate", "query")
      /\ \/ /\ Exists(k)
            /\ call' = [call EXCEPT ![c] = [@ EXCEPT !.pc = "fill", !.seen = row[k].status]]
            /\ UNCHANGED faults
         \/ ~Exists(k) /\ Reply(c, "refused") /\ UNCHANGED faults
         \/ Reply(c, "refused") /\ Fault
      /\ UNCHANGED <<tenant, row, cache, revoked>>

\* Mutant: SET without TTL.
Fill_Forever(c) ==
  /\ At(c, "validate", "fill")
  /\ cache' = [cache EXCEPT ![call[c].key] = [copy |-> call[c].seen, left |-> Forever]]
  /\ Judge(c, call[c].seen)
  /\ UNCHANGED <<tenant, row, revoked, faults>>

\* SET with TTL, whatever the status is; an error is ignored.  Then the key
\* that was read, not what is in the table by now, is judged.
Fill(c) ==
  /\ At(c, "validate", "fill")
  /\ \/ cache' = [cache EXCEPT ![call[c].key] = [copy |-> call[c].seen, left |-> TTL]]
        /\ UNCHANGED faults
     \/ Fault /\ UNCHANGED cache
  /\ Judge(c, call[c].seen)
  /\ UNCHANGED <<tenant, row, revoked>>

\* Mutant: the organization of an active project is not looked at.
Resolve_ProjectOnly(c) ==
  /\ At(c, "validate", "resolve")
  /\ Reply(c, IF tenant[row[call[c].key].user]["prj"] = "active" /\ row[call[c].key].scope = "inference"
              THEN "ok" ELSE "refused")
  /\ UNCHANGED <<tenant, row, cache, revoked, faults>>

\* Resolve reads the project first, then its organization.  After that only
\* the scope is left to check: inference:write and admin let a request in.
Resolve(c) ==
  LET k      == call[c].key
      p      == call[c].part
      active == tenant[row[k].user][p] = "active"
  IN  /\ At(c, "validate", "resolve")
      /\ \/ active /\ p = "prj" /\ call' = [call EXCEPT ![c].part = "org"] /\ UNCHANGED faults
         \/ /\ active /\ p = "org"
            /\ Reply(c, IF row[k].scope = "inference" THEN "ok" ELSE "refused")
            /\ UNCHANGED faults
         \/ ~active /\ Reply(c, "refused") /\ UNCHANGED faults
         \/ Reply(c, "failed") /\ Fault
      /\ UNCHANGED <<tenant, row, cache, revoked>>

-----------------------------------------------------------------------------
(* RotateKey and the login have their last step in common: a new key. *)

\* A failed INSERT may have been executed.
InsertKey(c, new) ==
  \E k \in Keys :
    /\ Fresh(k)
    /\ \/ row' = [row EXCEPT ![k] = new] /\ Reply(c, "ok") /\ UNCHANGED faults
       \/ row' \in {row, [row EXCEPT ![k] = new]} /\ Reply(c, "failed") /\ Fault
    /\ UNCHANGED <<tenant, cache, revoked>>

\* Mutant: a rotation forgets to revoke.
RotateLookup_SkipsRevoke(c) ==
  LET k == call[c].key
  IN  /\ At(c, "rotate", "lookup")
      /\ IsActive(k, row[k].status)
      /\ call' = [call EXCEPT ![c].pc = "issue"]
      /\ UNCHANGED <<tenant, row, cache, revoked, faults>>

\* GetByHash, straight from the table.
RotateLookup(c) ==
  LET k      == call[c].key
      usable == IsActive(k, row[k].status)
  IN  /\ At(c, "rotate", "lookup")
      /\ \/ /\ usable
            /\ call' = [call EXCEPT ![c].pc = "retire"]
            /\ UNCHANGED faults
         \/ ~usable /\ Reply(c, "refused") /\ UNCHANGED faults
         \/ Reply(c, "refused") /\ Fault
      /\ UNCHANGED <<tenant, row, cache, revoked>>

\* Mutant: the key is looked up only after it was revoked.
Retire_LooksUpAfter(c) ==
  /\ At(c, "rotate", "retire")
  /\ RevokeRow(call[c].key, "rotation")
  /\ GoTo(c, "lookup")
  /\ UNCHANGED <<tenant, cache, faults>>

\* The old key is revoked; an error is ignored.
Retire(c) ==
  /\ At(c, "rotate", "retire")
  /\ \/ RevokeRow(call[c].key, "rotation") /\ UNCHANGED faults
     \/ Fault /\ UNCHANGED <<row, revoked>>
  /\ GoTo(c, "issue")
  /\ UNCHANGED <<tenant, cache>>

\* Project and scopes are inherited, the expiry is not.
Reissue(c) ==
  /\ At(c, "rotate", "issue")
  /\ InsertKey(c, [row[call[c].key] EXCEPT !.status = "active", !.left = Forever])

-----------------------------------------------------------------------------
(* ServeHTTP of POST /v1/auth/cli-key: organization, project, key. *)

\* The part looked at is there: after the organization the project follows.
Have(c) ==
  call' = [call EXCEPT ![c] =
    [@ EXCEPT !.pc = IF call[c].part = "org" THEN "get" ELSE "issue", !.part = "prj"]]

Present(c) == tenant[call[c].user][call[c].part] # "absent"

\* GetByID: not found and no answer both lead to Create.
Get(c) ==
  /\ At(c, "login", "get")
  /\ \/ Present(c) /\ Have(c) /\ UNCHANGED faults
     \/ ~Present(c) /\ GoTo(c, "insert") /\ UNCHANGED faults
     \/ GoTo(c, "insert") /\ Fault
  /\ UNCHANGED <<tenant, row, cache, revoked>>

Inserted(c) == [tenant EXCEPT ![call[c].user][call[c].part] = "active"]

\* Mutant: a failed Create ends the login.
Insert_GivesUp(c) ==
  /\ At(c, "login", "insert")
  /\ \/ ~Present(c) /\ tenant' = Inserted(c) /\ Have(c)
     \/ Present(c) /\ Reply(c, "failed") /\ UNCHANGED tenant
  /\ UNCHANGED <<row, cache, revoked, faults>>

\* Create: somebody else's row with the same id is a conflict.
Insert(c) ==
  /\ At(c, "login", "insert")
  /\ \/ ~Present(c) /\ tenant' = Inserted(c) /\ Have(c) /\ UNCHANGED faults
     \/ Present(c) /\ GoTo(c, "refetch") /\ UNCHANGED <<tenant, faults>>
     \/ /\ tenant' \in {tenant, IF Present(c) THEN tenant ELSE Inserted(c)}
        /\ GoTo(c, "refetch")
        /\ Fault
  /\ UNCHANGED <<row, cache, revoked>>

Refetch(c) ==
  /\ At(c, "login", "refetch")
  /\ \/ Present(c) /\ Have(c) /\ UNCHANGED faults
     \/ ~Present(c) /\ Reply(c, "failed") /\ UNCHANGED faults
     \/ Reply(c, "failed") /\ Fault
  /\ UNCHANGED <<tenant, row, cache, revoked>>

\* A login's key never expires and has every scope.
Issue(c) ==
  /\ At(c, "login", "issue")
  /\ InsertKey(c, [status |-> "active", user |-> call[c].user,
                   left |-> Forever, scope |-> "inference"])

-----------------------------------------------------------------------------
Ticked(n) == IF n > 0 THEN n - 1 ELSE n

\* An entry with no time left is gone.
Tick ==
  /\ row' = [k \in Keys |-> [row[k] EXCEPT !.left = Ticked(@)]]
  /\ cache' = [k \in Keys |-> IF cache[k].left = 1 THEN NoEntry
                              ELSE [cache[k] EXCEPT !.left = Ticked(@)]]
  /\ revoked' = [k \in Keys |-> [revoked[k] EXCEPT !.left = Ticked(@)]]
  /\ UNCHANGED <<tenant, call, faults>>

Validate(c) == CacheHit(c) \/ CacheMiss(c) \/ Query(c) \/ Fill(c)
Admit(c)    == Validate(c) \/ Resolve(c)
Rotate(c)   == RotateLookup(c) \/ Retire(c) \/ Reissue(c)
Login(c)    == Get(c) \/ Insert(c) \/ Refetch(c) \/ Issue(c)

Next ==
  \/ Tick
  \/ \E k \in Keys :
       \/ Revoke(k)
       \/ \E u \in Users, grant \in Grants : Create(k, u, grant)
  \/ \E u \in Users, p \in Parts, status \in {"active", "inactive"} : SetStatus(u, p, status)
  \/ \E c \in Calls :
       \/ \E k \in Keys : BeginChat(c, k) \/ BeginRotate(c, k)
       \/ \E u \in Users : BeginLogin(c, u)
       \/ Admit(c) \/ Rotate(c) \/ Login(c)

Spec == Init /\ [][Next]_vars

-----------------------------------------------------------------------------
(* Properties. *)

Admitted(c) == call[c].op = "validate" /\ call[c].reply = "ok"

\* A revoked key is refused to every request that comes in a cache lifetime
\* or more after its revocation, although revoking leaves the cache alone --
\* unless a validation was under way that had read the key as active and
\* could cache it after the revocation.
RevocationTakesHold == \A c \in Calls : Admitted(c) => "revoked" \notin call[c].barred

\* Whoever is admitted has a key with the scope that had not expired when the
\* request came in, and a project and an organization that were each active
\* at some moment of the request: tenants, unlike keys, are never cached.
AdmissionIsJustified ==
  \A c \in Calls :
    Admitted(c) =>
      /\ row[call[c].key].scope = "inference"
      /\ "expired" \notin call[c].barred
      /\ call[c].met = Parts

\* Logins of one user at the same time do not make each other fail: a login
\* whose token was accepted fails only because a statement did.
LoginsDoNotCollide ==
  faults = 0 => \A c \in Calls : call[c].op = "login" => call[c].reply # "failed"

HasKey(u, status) == \E k \in Keys : row[k].status = status /\ row[k].user = u

\* Rotations alone never leave a user without a key: one that was retired is
\* replaced, however many rotations of it run at the same time, unless a
\* statement fails in between.
NobodyIsLockedOut ==
  faults = 0 =>
    \A u \in Users :
      HasKey(u, "revoked") =>
        \/ HasKey(u, "active")
        \/ \E c \in Calls : At(c, "rotate", "issue") /\ row[call[c].key].user = u
        \/ \E k \in Keys : revoked[k].by = "admin" /\ row[k].user = u

\* A rotation that answers with a new key has retired the old one, as
\* auth_cli_test.go:213 expects.
RotationRevokes ==
  \A c \in Calls :
    call[c].op = "rotate" /\ call[c].reply = "ok" => row[call[c].key].status = "revoked"

\* It has, unless a statement failed: the error of Revoke is ignored.
RotationRetires == faults = 0 => RotationRevokes
=============================================================================
