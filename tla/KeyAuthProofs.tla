--------------------------- MODULE KeyAuthProofs ---------------------------
(***************************************************************************)
(* Proofs about KeyAuth, for any users, keys, calls, grants, cache TTL and *)
(* number of failed statements.                                            *)
(*                                                                         *)
(* Three properties are proved from one inductive invariant, IInv.  Step   *)
(* shows once that IInv survives a step that changes some calls, adds      *)
(* fresh rows and fills cache entries, when the calls it changes are sound *)
(* afterwards; each action but Revoke, Retire and Tick is an instance of   *)
(* it.  Revoking and TickInv treat those three.  Who is admitted may be,   *)
(* and logins do not make each other fail: a second invariant, Sure, adds  *)
(* what those two need.                                                    *)
(***************************************************************************)
EXTENDS KeyAuth, TLAPS

Places  == {"idle", "lookup", "query", "fill", "resolve", "retire",
            "get", "insert", "refetch", "issue", "done"}
Replies == {"none", "ok", "refused", "failed"}

CallType == call \in [Calls -> Call]
RevokedType == revoked \in [Keys -> [by : {"nobody", "admin", "rotation"}, left : Nat,
                                     fills : SUBSET Calls]]
CacheType == cache \in [Keys -> [copy : Copy, left : Left]]

\* TypeOK, one named part per variable whose type the proofs quote alone.
Types == /\ tenant \in [Users -> [Parts -> {"absent", "active", "inactive"}]]
         /\ row \in [Keys -> Row]
         /\ CacheType
         /\ CallType
         /\ RevokedType
         /\ faults \in 0 .. MaxFaults

\* Which places each operation goes through, and what a call there holds:
\* its key exists from the moment a row was found for it.
Shape(c) ==
    /\ call[c].op = "none" <=> call[c].pc = "idle"
    /\ call[c].op = "validate" => call[c].pc \in {"lookup", "query", "fill", "resolve", "done"}
    /\ call[c].op = "rotate" => call[c].pc \in {"lookup", "retire", "issue", "done"}
    /\ call[c].op = "login" => call[c].pc \in {"get", "insert", "refetch", "issue", "done"}
    /\ call[c].op \in {"validate", "rotate"} => call[c].key \in Keys
    /\ call[c].op = "login" => call[c].user \in Users
    /\ call[c].pc # "done" => call[c].reply = "none"
    /\ call[c].pc = "fill" <=> call[c].seen # "none"
    /\ \/ call[c].op = "validate" /\ call[c].pc \in {"fill", "resolve"}
       \/ call[c].op = "rotate" /\ call[c].pc \in {"retire", "issue"}
       \/ call[c].op \in {"validate", "rotate"} /\ call[c].reply = "ok"
       => Exists(call[c].key)
CallShape == \A c \in Calls : Shape(c)

\* Only rows have users, cache entries and revocations, and no entry or
\* revocation has more than a TTL to go.
KeyShape ==
  \A k \in Keys :
    /\ Exists(k) <=> row[k].user \in Users
    /\ cache[k].copy # "none" => Exists(k) /\ cache[k].left \in 1 .. TTL
    /\ revoked[k].by # "nobody" => row[k].status = "revoked"
    /\ revoked[k].left \in 0 .. TTL

\* A request that came in with a long revoked key gets no further than the
\* table's row: it never holds an active copy.
Barred(c) ==
  "revoked" \in call[c].barred =>
    /\ call[c].op = "validate"
    /\ Retired(call[c].key)
    /\ call[c].pc # "resolve"
    /\ call[c].seen # "active"
    /\ call[c].reply # "ok"

\* Once k was revoked during no fill, nobody is about to cache it as active,
\* and what is cached as active lives no longer than a TTL from then.
Quiet(k) ==
  row[k].status = "revoked" /\ revoked[k].fills = {} =>
    /\ \A c \in Calls : call[c].key = k => call[c].seen # "active"
    /\ cache[k].copy = "active" => cache[k].left <= revoked[k].left

Revocation == (\A c \in Calls : Barred(c)) /\ (\A k \in Keys : Quiet(k))

\* A rotation issues a key only when it has revoked the old one.
Replaces(c) ==
  call[c].op = "rotate" /\ (call[c].pc = "issue" \/ call[c].reply = "ok") =>
    row[call[c].key].status = "revoked"

Retirement == faults = 0 => \A c \in Calls : Replaces(c)

\* NobodyIsLockedOut is inductive together with the others.
IInv == Types /\ CallShape /\ KeyShape /\ Revocation /\ Retirement /\ NobodyIsLockedOut

-----------------------------------------------------------------------------
(* How one call moves. *)

\* Call c, and no other, goes on at pc with these values; what it was asked
\* for and its history stay.
Moves(c, pc, part, seen, reply) ==
  /\ CallType'
  /\ \A d \in Calls \ {c} : call'[d] = call[d]
  /\ call'[c].op = call[c].op
  /\ call'[c].key = call[c].key
  /\ call'[c].user = call[c].user
  /\ call'[c].met = call[c].met
  /\ call'[c].barred = call[c].barred
  /\ call'[c].pc = pc
  /\ call'[c].part = part
  /\ call'[c].seen = seen
  /\ call'[c].reply = reply

\* EXCEPT on one call.
LEMMA Updated ==
  ASSUME CallType, NEW c \in Calls, NEW y \in Call, call' = [call EXCEPT ![c] = y]
  PROVE  CallType' /\ (\A d \in Calls \ {c} : call'[d] = call[d]) /\ call'[c] = y
BY DEF CallType

\* EXCEPT on the four fields that handlers change.
LEMMA Moved ==
  ASSUME CallType, NEW c \in Calls, NEW pc \in Places, NEW part \in Parts, NEW seen \in Copy,
         NEW reply \in Replies, NEW y,
         y = [call[c] EXCEPT !.pc = pc, !.part = part, !.seen = seen, !.reply = reply],
         call' = [call EXCEPT ![c] = y]
  PROVE  Moves(c, pc, part, seen, reply)
<1>1. call[c] \in Call
  BY DEF CallType
<1>2. y \in Call
  BY <1>1 DEF Call, Places, Replies
<1>4. CallType' /\ (\A d \in Calls \ {c} : call'[d] = call[d]) /\ call'[c] = y
  BY <1>2, Updated
<1>5. /\ y.op = call[c].op /\ y.key = call[c].key /\ y.user = call[c].user
      /\ y.met = call[c].met /\ y.barred = call[c].barred
      /\ y.pc = pc /\ y.part = part /\ y.seen = seen /\ y.reply = reply
  BY <1>1 DEF Call
<1> QED
  BY <1>4, <1>5 DEF Moves

\* GoTo changes the place alone.
LEMMA GoToMoves ==
  ASSUME CallType, NEW c \in Calls, NEW pc \in Places, GoTo(c, pc)
  PROVE  Moves(c, pc, call[c].part, call[c].seen, call[c].reply)
<1>1. call[c] \in Call
  BY DEF CallType
<1> DEFINE y == [call[c] EXCEPT !.pc = pc]
<1>2. y = [call[c] EXCEPT !.pc = pc, !.part = call[c].part, !.seen = call[c].seen,
                          !.reply = call[c].reply]
  BY <1>1 DEF Call
<1>3. call' = [call EXCEPT ![c] = y] BY DEF GoTo
<1>4. call[c].part \in Parts /\ call[c].seen \in Copy /\ call[c].reply \in Replies
  BY <1>1 DEF Call, Replies
<1> QED BY <1>2, <1>3, <1>4, Moved

\* Reply ends the call and drops what it had read.
LEMMA ReplyMoves ==
  ASSUME CallType, NEW c \in Calls, NEW a \in Replies, Reply(c, a)
  PROVE  Moves(c, "done", call[c].part, "none", a)
<1>1. call[c] \in Call
  BY DEF CallType
<1> DEFINE y == [call[c] EXCEPT !.pc = "done", !.reply = a, !.seen = "none"]
<1>2. y = [call[c] EXCEPT !.pc = "done", !.part = call[c].part, !.seen = "none", !.reply = a]
  BY <1>1 DEF Call
<1>3. call' = [call EXCEPT ![c] = y] BY DEF Reply
<1>4. call[c].part \in Parts /\ "done" \in Places /\ "none" \in Copy
  BY <1>1 DEF Call, Places, Copy
<1> QED BY <1>2, <1>3, <1>4, Moved


\* Who reads k as active may do so: k is, or was while somebody was filling.
Open(k) == row[k].status = "revoked" => revoked[k].fills # {}

\* A rotation leaves issue only when a key was inserted for its user.
Leaves(c) ==
  At(c, "rotate", "issue") =>
    \/ At(c, "rotate", "issue")' /\ call'[c].key = call[c].key
    \/ \E k \in Keys : row'[k].status = "active" /\ row'[k].user = row[call[c].key].user

\* The invariant survives every step but a revocation and a tick.
LEMMA Step ==
  ASSUME IInv, NEW W \in SUBSET Calls, Types',
         revoked' = revoked, faults' \in {faults, faults + 1},
         \A k \in Keys :
           \/ row'[k] = row[k]
           \/ Fresh(k) /\ row'[k].status = "active" /\ row'[k].user \in Users,
         \A k \in Keys :
           \/ cache'[k] = cache[k]
           \/ /\ Exists(k)
              /\ cache'[k].left = TTL
              /\ cache'[k].copy = "active" => Open(k),
         \A c \in Calls \ W : call'[c] = call[c],
         \A c \in W :
           /\ Shape(c)'
           /\ Barred(c)'
           /\ call'[c].seen = "active" => Open(call'[c].key)
           /\ faults' = 0 => Replaces(c)' /\ Leaves(c)
  PROVE  IInv'
<1> USE FaultsAssumption, TTLAssumption DEF IInv
<1>1. faults \in Nat /\ (faults' = 0 => faults = 0)
  BY DEF Types
<1>2. \A k \in Keys : Exists(k) => row'[k] = row[k]
  BY DEF Fresh
<1>3. CallShape'
  <2> SUFFICES ASSUME NEW c \in Calls, c \notin W PROVE Shape(c)'
    BY DEF CallShape
  <2>1. call'[c] = call[c] /\ Shape(c)
    BY DEF CallShape
  <2>2. call[c].op \in {"validate", "rotate"} /\ Exists(call[c].key) => Exists(call[c].key)'
    BY <1>2, <2>1 DEF Shape, Exists
  <2> QED BY <2>1, <2>2 DEF Shape
<1>4. KeyShape'
  <2> SUFFICES ASSUME NEW k \in Keys
               PROVE  /\ (Exists(k) <=> row[k].user \in Users)'
                      /\ (cache[k].copy # "none" => Exists(k) /\ cache[k].left \in 1 .. TTL)'
                      /\ (revoked[k].by # "nobody" => row[k].status = "revoked")'
                      /\ (revoked[k].left \in 0 .. TTL)'
    BY DEF KeyShape
  <2>1. /\ Exists(k) <=> row[k].user \in Users
        /\ cache[k].copy # "none" => Exists(k) /\ cache[k].left \in 1 .. TTL
        /\ revoked[k].by # "nobody" => row[k].status = "revoked"
        /\ revoked[k].left \in 0 .. TTL
    BY DEF KeyShape
  <2>2. CASE row'[k] = row[k]
    BY <2>1, <2>2 DEF Exists
  <2>3. CASE Fresh(k) /\ row'[k].status = "active" /\ row'[k].user \in Users
    <3>1. ~Exists(k) /\ row[k].status # "revoked"
      BY <2>3 DEF Fresh, Exists
    <3> QED BY <2>1, <2>3, <3>1 DEF Exists
  <2> QED BY <2>2, <2>3
<1>5. Revocation'
  <2>1. ASSUME NEW c \in Calls PROVE Barred(c)'
    <3> SUFFICES ASSUME c \notin W PROVE Barred(c)'
      OBVIOUS
    <3>1. call'[c] = call[c] /\ Barred(c) /\ Shape(c)
      BY DEF Revocation, CallShape
    <3>2. call[c].op = "validate" /\ Retired(call[c].key) => Retired(call[c].key)'
      BY <1>2, <3>1 DEF Retired, Exists, Shape
    <3> QED BY <3>1, <3>2 DEF Barred
  <2>2. ASSUME NEW k \in Keys PROVE Quiet(k)'
    <3> SUFFICES ASSUME row'[k].status = "revoked", revoked[k].fills = {}
                 PROVE  /\ \A c \in Calls : call'[c].key = k => call'[c].seen # "active"
                        /\ cache'[k].copy = "active" => cache'[k].left <= revoked[k].left
      BY DEF Quiet
    <3>1. row'[k] = row[k] /\ ~Open(k)
      BY DEF Open
    <3>2. Quiet(k)
      BY DEF Revocation
    <3>3. ASSUME NEW c \in Calls, call'[c].key = k PROVE call'[c].seen # "active"
      BY <3>1, <3>2, <3>3 DEF Quiet
    <3>4. cache'[k].copy = "active" => cache'[k] = cache[k]
      BY <3>1
    <3> QED BY <3>1, <3>2, <3>3, <3>4 DEF Quiet
  <2> QED BY <2>1, <2>2 DEF Revocation
<1>6. Retirement'
  <2> SUFFICES ASSUME faults' = 0, NEW c \in Calls, c \notin W PROVE Replaces(c)'
    BY DEF Retirement
  <2>1. call'[c] = call[c] /\ Replaces(c) /\ Shape(c)
    BY <1>1 DEF Retirement, CallShape
  <2>2. call[c].op = "rotate" /\ row[call[c].key].status = "revoked" =>
          row'[call[c].key].status = "revoked"
    BY <1>2, <2>1 DEF Shape, Exists
  <2> QED BY <2>1, <2>2 DEF Replaces
<1>7. NobodyIsLockedOut'
  <2> SUFFICES ASSUME faults' = 0, NEW u \in Users, HasKey(u, "revoked")'
               PROVE  \/ HasKey(u, "active")'
                      \/ \E c \in Calls : At(c, "rotate", "issue")' /\ row'[call'[c].key].user = u
                      \/ \E k \in Keys : revoked'[k].by = "admin" /\ row'[k].user = u
    BY DEF NobodyIsLockedOut
  <2>1. HasKey(u, "revoked")
    BY DEF HasKey
  <2>2. \/ HasKey(u, "active")
        \/ \E c \in Calls : At(c, "rotate", "issue") /\ row[call[c].key].user = u
        \/ \E k \in Keys : revoked[k].by = "admin" /\ row[k].user = u
    BY <1>1, <2>1 DEF NobodyIsLockedOut
  <2>3. CASE HasKey(u, "active")
    BY <1>2, <2>3 DEF HasKey, Exists
  <2>4. ASSUME NEW c \in Calls, At(c, "rotate", "issue"), row[call[c].key].user = u
        PROVE  \/ HasKey(u, "active")'
               \/ At(c, "rotate", "issue")' /\ row'[call'[c].key].user = u
    <3>1. call[c].key \in Keys /\ row'[call[c].key] = row[call[c].key]
      BY <1>2, <2>4 DEF CallShape, Shape, At
    <3>2. CASE c \in W
      BY <2>4, <3>1, <3>2 DEF Leaves, HasKey
    <3>3. CASE c \notin W
      BY <2>4, <3>1, <3>3 DEF At
    <3> QED BY <3>2, <3>3
  <2>5. ASSUME NEW k \in Keys, revoked[k].by = "admin", row[k].user = u
        PROVE  row'[k].user = u
    BY <1>2, <2>5 DEF KeyShape, Exists
  <2> QED BY <2>2, <2>3, <2>4, <2>5
<1> QED BY <1>3, <1>4, <1>5, <1>6, <1>7

TenantType == tenant \in [Users -> [Parts -> {"absent", "active", "inactive"}]]

Keeps == \/ UNCHANGED faults
         \/ Fault

\* What Step asks of a call that a step changed.
Sound(c) ==
  /\ Shape(c)'
  /\ Barred(c)'
  /\ call'[c].seen = "active" => Open(call'[c].key)
  /\ faults' = 0 => Replaces(c)' /\ Leaves(c)

\* The steps that change one call and, at most, a tenant.
LEMMA Alone ==
  ASSUME IInv, NEW c \in Calls, CallType', \A d \in Calls \ {c} : call'[d] = call[d],
         TenantType', UNCHANGED <<row, cache, revoked>>, Keeps, Sound(c)
  PROVE  IInv'
<1> USE FaultsAssumption
<1>1. faults' \in {faults, faults + 1} /\ faults' \in 0 .. MaxFaults
  BY DEF Keeps, Fault, IInv, Types
<1>2. Types'
  BY <1>1 DEF IInv, Types, TenantType, CacheType, RevokedType
<1> QED BY <1>1, <1>2, Step, {c} \in SUBSET Calls DEF Sound

\* validateKeyStatus lets an active key on to Resolve and refuses any other.
LEMMA JudgeMoves ==
  ASSUME CallType, NEW c \in Calls, NEW status, Judge(c, status)
  PROVE  \/ /\ IsActive(call[c].key, status)
            /\ Moves(c, "resolve", call[c].part, "none", call[c].reply)
         \/ Moves(c, "done", call[c].part, "none", "refused")
<1>1. call[c] \in Call
  BY DEF CallType
<1>2. CASE IsActive(call[c].key, status)
  <2> DEFINE y == [call[c] EXCEPT !.pc = "resolve", !.seen = "none"]
  <2>1. y = [call[c] EXCEPT !.pc = "resolve", !.part = call[c].part, !.seen = "none",
                            !.reply = call[c].reply]
    BY <1>1 DEF Call
  <2>2. call' = [call EXCEPT ![c] = y]
    BY <1>2 DEF Judge
  <2>3. /\ call[c].part \in Parts /\ call[c].reply \in Replies
        /\ "resolve" \in Places /\ "none" \in Copy
    BY <1>1 DEF Call, Places, Replies, Copy
  <2>4. Moves(c, "resolve", call[c].part, "none", call[c].reply)
    BY <2>1, <2>2, <2>3, Moved
  <2> QED BY <1>2, <2>4
<1>3. CASE ~IsActive(call[c].key, status)
  <2>1. Reply(c, "refused")
    BY <1>3 DEF Judge
  <2> QED BY <2>1, ReplyMoves DEF Replies
<1> QED BY <1>2, <1>3

\* A login goes on with the project, or with the key.
LEMMA HaveMoves ==
  ASSUME CallType, NEW c \in Calls, Have(c)
  PROVE  Moves(c, IF call[c].part = "org" THEN "get" ELSE "issue", "prj",
               call[c].seen, call[c].reply)
<1>1. call[c] \in Call
  BY DEF CallType
<1> DEFINE pc == IF call[c].part = "org" THEN "get" ELSE "issue"
           y == [call[c] EXCEPT !.pc = pc, !.part = "prj"]
<1>2. y = [call[c] EXCEPT !.pc = pc, !.part = "prj", !.seen = call[c].seen, !.reply = call[c].reply]
  BY <1>1 DEF Call
<1>3. call' = [call EXCEPT ![c] = y]
  BY DEF Have
<1>4. /\ call[c].seen \in Copy /\ call[c].reply \in Replies
      /\ pc \in Places /\ "prj" \in Parts
  BY <1>1 DEF Call, Places, Replies, Parts
<1> HIDE DEF pc
<1>5. Moves(c, pc, "prj", call[c].seen, call[c].reply)
  BY <1>2, <1>3, <1>4, Moved
<1> QED BY <1>5 DEF pc

\* What the invariant says of one call.
LEMMA Now ==
  ASSUME IInv, NEW c \in Calls
  PROVE  /\ CallType /\ TenantType
         /\ Shape(c) /\ Barred(c)
         /\ call[c].seen = "active" => Open(call[c].key)
         /\ faults = 0 => Replaces(c)
<1> USE DEF IInv, Types, CallShape, Revocation, Retirement
<1>1. CallType /\ TenantType /\ Shape(c) /\ Barred(c) /\ (faults = 0 => Replaces(c))
  BY DEF TenantType
<1>2. ASSUME call[c].seen = "active" PROVE Open(call[c].key)
  <2>1. call[c].op \in {"none", "validate", "rotate", "login"}
    BY <1>1 DEF CallType, Call
  <2>2. call[c].key \in Keys
    BY <1>1, <1>2, <2>1 DEF Shape
  <2> QED BY <1>2, <2>2 DEF Open, Quiet
<1> QED BY <1>1, <1>2

\* A cached copy: Quiet says that it is not active a TTL after a revocation.
LEMMA HitInv == ASSUME IInv, NEW c \in Calls, CacheHit(c) PROVE IInv'
<1> DEFINE k == call[c].key
<1>1. Shape(c) /\ Barred(c) /\ (faults = 0 => Replaces(c)) /\ CallType /\ TenantType
  BY Now
<1>2. /\ UNCHANGED <<tenant, row, cache, revoked, faults>>
      /\ call[c].op = "validate" /\ call[c].pc = "lookup" /\ Live(k)
  BY DEF CacheHit, At
<1>3. k \in Keys /\ cache[k].left \in 1 .. TTL /\ Exists(k)
  BY <1>1, <1>2 DEF IInv, KeyShape, Shape, Live
<1>4. \/ /\ IsActive(k, cache[k].copy)
         /\ Moves(c, "resolve", call[c].part, "none", call[c].reply)
      \/ Moves(c, "done", call[c].part, "none", "refused")
  BY <1>1, JudgeMoves DEF CacheHit
<1>5. ASSUME cache[k].copy = "active" PROVE ~Retired(k)
  <2>1. Quiet(k) BY <1>3 DEF IInv, Revocation
  <2> QED BY <1>3, <1>5, <2>1, TTLAssumption DEF Quiet, Retired
<1>6. Sound(c)
  <2>1. Shape(c)'
    BY <1>1, <1>2, <1>3, <1>4 DEF Moves, Shape, Exists
  <2>2. Barred(c)'
    BY <1>1, <1>2, <1>4, <1>5 DEF Moves, Barred, Retired, IsActive
  <2>3. call'[c].seen # "active"
    BY <1>4 DEF Moves
  <2>4. Replaces(c)' /\ Leaves(c)
    BY <1>2, <1>4 DEF Moves, Replaces, Leaves, At
  <2> QED BY <2>1, <2>2, <2>3, <2>4 DEF Sound
<1>7. CallType' /\ TenantType' /\ \A d \in Calls \ {c} : call'[d] = call[d]
  BY <1>1, <1>2, <1>4 DEF Moves, TenantType
<1> QED BY <1>2, <1>6, <1>7, Alone DEF Keeps

-----------------------------------------------------------------------------
(* The actions. *)

\* A request, a rotation, a login comes in.
LEMMA BeginChatInv == ASSUME IInv, NEW c \in Calls, NEW k \in Keys, BeginChat(c, k) PROVE IInv'
<1> DEFINE y == [IdleCall EXCEPT !.op = "validate", !.pc = "lookup", !.key = k,
                 !.met = IF Exists(k) THEN MetBy(row[k].user) ELSE {},
                 !.barred = (IF Retired(k) THEN {"revoked"} ELSE {}) \cup
                            (IF IsExpired(k) THEN {"expired"} ELSE {})]
<1>1. /\ call[c].pc = "idle" /\ call' = [call EXCEPT ![c] = y]
      /\ UNCHANGED <<tenant, row, cache, revoked, faults>>
  BY DEF BeginChat
<1>2. /\ y.op = "validate" /\ y.pc = "lookup" /\ y.key = k /\ y.user = NoUser
      /\ y.seen = "none" /\ y.reply = "none" /\ y.barred = ((IF Retired(k) THEN {"revoked"} ELSE {}) \cup
                        (IF IsExpired(k) THEN {"expired"} ELSE {}))
  BY DEF IdleCall
<1>3. y \in Call
  BY DEF IdleCall, Call, Parts, Copy, MetBy
<1> HIDE DEF y
<1>4. CallType /\ TenantType /\ Shape(c)
  BY Now
<1>5. CallType' /\ (\A d \in Calls \ {c} : call'[d] = call[d]) /\ call'[c] = y
  BY <1>1, <1>3, <1>4, Updated
<1>6. Sound(c)
  <2>1. Shape(c)' BY <1>2, <1>5 DEF Shape
  <2>2. Barred(c)' BY <1>1, <1>2, <1>5 DEF Barred, Retired
  <2>3. call'[c].seen # "active" BY <1>2, <1>5
  <2>4. Replaces(c)' BY <1>2, <1>5 DEF Replaces
  <2>5. Leaves(c) BY <1>1 DEF Leaves, At
  <2> QED BY <2>1, <2>2, <2>3, <2>4, <2>5 DEF Sound
<1> QED BY <1>1, <1>4, <1>5, <1>6, Alone DEF Keeps, TenantType

LEMMA BeginRotateInv == ASSUME IInv, NEW c \in Calls, NEW k \in Keys, BeginRotate(c, k) PROVE IInv'
<1> DEFINE y == [IdleCall EXCEPT !.op = "rotate", !.pc = "lookup", !.key = k]
<1>1. /\ call[c].pc = "idle" /\ call' = [call EXCEPT ![c] = y]
      /\ UNCHANGED <<tenant, row, cache, revoked, faults>>
  BY DEF BeginRotate
<1>2. /\ y.op = "rotate" /\ y.pc = "lookup" /\ y.key = k /\ y.user = NoUser
      /\ y.seen = "none" /\ y.reply = "none" /\ y.barred = {}
  BY DEF IdleCall
<1>3. y \in Call
  BY DEF IdleCall, Call, Parts, Copy, MetBy
<1> HIDE DEF y
<1>4. CallType /\ TenantType /\ Shape(c)
  BY Now
<1>5. CallType' /\ (\A d \in Calls \ {c} : call'[d] = call[d]) /\ call'[c] = y
  BY <1>1, <1>3, <1>4, Updated
<1>6. Sound(c)
  <2>1. Shape(c)' BY <1>2, <1>5 DEF Shape
  <2>2. Barred(c)' BY <1>1, <1>2, <1>5 DEF Barred, Retired
  <2>3. call'[c].seen # "active" BY <1>2, <1>5
  <2>4. Replaces(c)' BY <1>2, <1>5 DEF Replaces
  <2>5. Leaves(c) BY <1>1 DEF Leaves, At
  <2> QED BY <2>1, <2>2, <2>3, <2>4, <2>5 DEF Sound
<1> QED BY <1>1, <1>4, <1>5, <1>6, Alone DEF Keeps, TenantType

LEMMA BeginLoginInv == ASSUME IInv, NEW c \in Calls, NEW u \in Users, BeginLogin(c, u) PROVE IInv'
<1> DEFINE y == [IdleCall EXCEPT !.op = "login", !.pc = "get", !.user = u, !.part = "org"]
<1>1. /\ call[c].pc = "idle" /\ call' = [call EXCEPT ![c] = y]
      /\ UNCHANGED <<tenant, row, cache, revoked, faults>>
  BY DEF BeginLogin
<1>2. /\ y.op = "login" /\ y.pc = "get" /\ y.key = NoKey /\ y.user = u
      /\ y.seen = "none" /\ y.reply = "none" /\ y.barred = {}
  BY DEF IdleCall
<1>3. y \in Call
  BY DEF IdleCall, Call, Parts, Copy, MetBy
<1> HIDE DEF y
<1>4. CallType /\ TenantType /\ Shape(c)
  BY Now
<1>5. CallType' /\ (\A d \in Calls \ {c} : call'[d] = call[d]) /\ call'[c] = y
  BY <1>1, <1>3, <1>4, Updated
<1>6. Sound(c)
  <2>1. Shape(c)' BY <1>2, <1>5 DEF Shape
  <2>2. Barred(c)' BY <1>1, <1>2, <1>5 DEF Barred, Retired
  <2>3. call'[c].seen # "active" BY <1>2, <1>5
  <2>4. Replaces(c)' BY <1>2, <1>5 DEF Replaces
  <2>5. Leaves(c) BY <1>1 DEF Leaves, At
  <2> QED BY <2>1, <2>2, <2>3, <2>4, <2>5 DEF Sound
<1> QED BY <1>1, <1>4, <1>5, <1>6, Alone DEF Keeps, TenantType

\* A miss leads to the table.
LEMMA MissInv == ASSUME IInv, NEW c \in Calls, CacheMiss(c) PROVE IInv'
<1>1. Shape(c) /\ Barred(c) /\ CallType /\ TenantType
  BY Now
<1>2. /\ UNCHANGED <<tenant, row, cache, revoked>> /\ Keeps
      /\ call[c].op = "validate" /\ call[c].pc = "lookup"
  BY DEF CacheMiss, Keeps, At
<1>3. Moves(c, "query", call[c].part, call[c].seen, call[c].reply)
  BY <1>1, GoToMoves DEF CacheMiss, Places
<1>4. Sound(c)
  BY <1>1, <1>2, <1>3 DEF Sound, Moves, Shape, Barred, Retired, Replaces, Leaves, At
<1> QED BY <1>1, <1>2, <1>3, <1>4, Alone DEF Moves, TenantType

\* A read of the table: no revoked row is read as active.
LEMMA QueryInv == ASSUME IInv, NEW c \in Calls, Query(c) PROVE IInv'
<1> DEFINE k == call[c].key
<1>1. Shape(c) /\ Barred(c) /\ CallType /\ TenantType
  BY Now
<1>2. /\ UNCHANGED <<tenant, row, cache, revoked>> /\ Keeps
      /\ call[c].op = "validate" /\ call[c].pc = "query"
  BY DEF Query, Keeps, At
<1>3. \/ /\ Exists(k) /\ row[k].status \in {"active", "revoked"}
         /\ Moves(c, "fill", call[c].part, row[k].status, call[c].reply)
      \/ Moves(c, "done", call[c].part, "none", "refused")
  <2>1. CASE Reply(c, "refused")
    BY <1>1, <2>1, ReplyMoves DEF Replies
  <2>2. CASE Exists(k) /\ call' = [call EXCEPT ![c] = [@ EXCEPT !.pc = "fill", !.seen = row[k].status]]
    <3> DEFINE y == [call[c] EXCEPT !.pc = "fill", !.seen = row[k].status]
    <3>1. call[c] \in Call
      BY <1>1 DEF CallType
    <3>2. y = [call[c] EXCEPT !.pc = "fill", !.part = call[c].part, !.seen = row[k].status,
                              !.reply = call[c].reply]
      BY <3>1 DEF Call
    <3>3. row[k].status \in {"active", "revoked"}
      BY <1>1, <1>2, <2>2 DEF Shape, Exists, IInv, Types, Row
    <3>4. /\ call[c].part \in Parts /\ call[c].reply \in Replies
          /\ "fill" \in Places /\ row[k].status \in Copy
      BY <3>1, <3>3 DEF Call, Places, Replies, Copy
    <3>5. call' = [call EXCEPT ![c] = y]
      BY <2>2
    <3>6. Moves(c, "fill", call[c].part, row[k].status, call[c].reply)
      BY <1>1, <3>2, <3>4, <3>5, Moved
    <3> QED BY <2>2, <3>3, <3>6
  <2> QED BY <2>1, <2>2 DEF Query
<1>4. Sound(c)
  <2>1. CASE /\ Exists(k) /\ row[k].status \in {"active", "revoked"}
             /\ Moves(c, "fill", call[c].part, row[k].status, call[c].reply)
    <3>1. Shape(c)'
      BY <1>1, <1>2, <2>1 DEF Moves, Shape, Exists
    <3>2. Barred(c)'
      BY <1>1, <1>2, <2>1 DEF Moves, Barred, Retired
    <3> QED BY <1>1, <1>2, <2>1, <3>1, <3>2 DEF Moves, Sound, Shape, Open, Replaces, Leaves, At
  <2>2. CASE Moves(c, "done", call[c].part, "none", "refused")
    BY <1>1, <1>2, <2>2 DEF Sound, Moves, Shape, Barred, Retired, Replaces, Leaves, At
  <2> QED BY <1>3, <2>1, <2>2
<1> QED BY <1>1, <1>2, <1>3, <1>4, Alone DEF Moves, TenantType

\* A fill caches what was read before: Open says that it may.
LEMMA FillInv == ASSUME IInv, NEW c \in Calls, Fill(c) PROVE IInv'
<1> USE FaultsAssumption, TTLAssumption
<1> DEFINE k == call[c].key
<1>1. Shape(c) /\ Barred(c) /\ CallType /\ TenantType /\ (call[c].seen = "active" => Open(k))
  BY Now
<1>2. /\ UNCHANGED <<tenant, row, revoked>> /\ Keeps
      /\ call[c].op = "validate" /\ call[c].pc = "fill"
      /\ \/ cache' = cache
         \/ cache' = [cache EXCEPT ![k] = [copy |-> call[c].seen, left |-> TTL]]
  BY DEF Fill, Keeps, At
<1>3. \/ /\ IsActive(k, call[c].seen)
         /\ Moves(c, "resolve", call[c].part, "none", call[c].reply)
      \/ Moves(c, "done", call[c].part, "none", "refused")
  BY <1>1, JudgeMoves DEF Fill
<1>4. k \in Keys /\ Exists(k) /\ call[c].seen \in Copy /\ TTL \in Left
  BY <1>1, <1>2 DEF Shape, CallType, Call, Left
<1>5. CacheType'
  BY <1>2, <1>4 DEF IInv, Types, CacheType
<1>6. faults' \in {faults, faults + 1} /\ faults' \in 0 .. MaxFaults
  BY <1>2 DEF Keeps, Fault, IInv, Types
<1>7. Types'
  <2>1. CallType' BY <1>3 DEF Moves
  <2> QED BY <1>2, <1>5, <1>6, <2>1 DEF IInv, Types, RevokedType
<1>8. \A q \in Keys :
        \/ cache'[q] = cache[q]
        \/ /\ Exists(q)
           /\ cache'[q].left = TTL
           /\ cache'[q].copy = "active" => Open(q)
  <2> SUFFICES ASSUME NEW q \in Keys
               PROVE  \/ cache'[q] = cache[q]
                      \/ /\ Exists(q)
                         /\ cache'[q].left = TTL
                         /\ cache'[q].copy = "active" => Open(q)
    OBVIOUS
  <2>1. CASE q = k /\ cache' # cache
    <3>1. cache'[k] = [copy |-> call[c].seen, left |-> TTL]
      BY <1>2, <1>4, <2>1 DEF IInv, Types, CacheType
    <3> QED BY <1>1, <1>4, <2>1, <3>1
  <2>2. CASE q # k \/ cache' = cache
    BY <1>2, <2>2 DEF IInv, Types, CacheType
  <2> QED BY <2>1, <2>2
<1>9. Sound(c)
  <2>1. Shape(c)'
    BY <1>1, <1>2, <1>3, <1>4 DEF Moves, Shape, Exists
  <2>2. Barred(c)'
    BY <1>1, <1>2, <1>3 DEF Moves, Barred, Retired, IsActive
  <2>3. call'[c].seen # "active"
    BY <1>3 DEF Moves
  <2>4. Replaces(c)' /\ Leaves(c)
    BY <1>2, <1>3 DEF Moves, Replaces, Leaves, At
  <2> QED BY <2>1, <2>2, <2>3, <2>4 DEF Sound
<1>10. \A d \in Calls \ {c} : call'[d] = call[d]
  BY <1>3 DEF Moves
<1> QED BY <1>2, <1>6, <1>7, <1>8, <1>9, <1>10, Step, {c} \in SUBSET Calls DEF Sound

\* Resolve admits no call that was barred, as none gets here.
LEMMA ResolveInv == ASSUME IInv, NEW c \in Calls, Resolve(c) PROVE IInv'
<1>1. Shape(c) /\ Barred(c) /\ CallType /\ TenantType
  BY Now
<1>2. /\ UNCHANGED <<tenant, row, cache, revoked>> /\ Keeps
      /\ call[c].op = "validate" /\ call[c].pc = "resolve" /\ call[c].seen = "none"
  BY <1>1 DEF Resolve, Keeps, At, Shape
<1>3. \/ Moves(c, "resolve", "org", "none", call[c].reply)
      \/ Moves(c, "done", call[c].part, "none", "ok")
      \/ Moves(c, "done", call[c].part, "none", "refused")
      \/ Moves(c, "done", call[c].part, "none", "failed")
  <2>1. CASE Reply(c, "ok")
    BY <1>1, <2>1, ReplyMoves DEF Replies
  <2>2. CASE Reply(c, "refused")
    BY <1>1, <2>2, ReplyMoves DEF Replies
  <2>3. CASE Reply(c, "failed")
    BY <1>1, <2>3, ReplyMoves DEF Replies
  <2>4. CASE call' = [call EXCEPT ![c].part = "org"]
    <3> DEFINE y == [call[c] EXCEPT !.part = "org"]
    <3>1. call[c] \in Call
      BY <1>1 DEF CallType
    <3>2. y = [call[c] EXCEPT !.pc = "resolve", !.part = "org", !.seen = "none", !.reply = call[c].reply]
      BY <1>2, <3>1 DEF Call
    <3>3. /\ call[c].reply \in Replies /\ "org" \in Parts
          /\ "resolve" \in Places /\ "none" \in Copy
      BY <3>1 DEF Call, Places, Replies, Copy, Parts
    <3>4. call' = [call EXCEPT ![c] = y]
      BY <2>4
    <3> QED BY <1>1, <3>2, <3>3, <3>4, Moved
  <2> QED BY <2>1, <2>2, <2>3, <2>4 DEF Resolve
<1>4. Sound(c)
  BY <1>1, <1>2, <1>3 DEF Sound, Moves, Shape, Exists, Barred, Retired, Replaces, Leaves, At
<1> QED BY <1>1, <1>2, <1>3, <1>4, Alone DEF Moves, TenantType

\* A rotation finds its key active, or ends.
LEMMA RotateLookupInv == ASSUME IInv, NEW c \in Calls, RotateLookup(c) PROVE IInv'
<1> DEFINE k == call[c].key
<1>1. Shape(c) /\ Barred(c) /\ CallType /\ TenantType
  BY Now
<1>2. /\ UNCHANGED <<tenant, row, cache, revoked>> /\ Keeps
      /\ call[c].op = "rotate" /\ call[c].pc = "lookup" /\ call[c].seen = "none"
  BY <1>1 DEF RotateLookup, Keeps, At, Shape
<1>3. \/ Exists(k) /\ Moves(c, "retire", call[c].part, call[c].seen, call[c].reply)
      \/ Moves(c, "done", call[c].part, "none", "refused")
  <2>1. CASE Reply(c, "refused")
    BY <1>1, <2>1, ReplyMoves DEF Replies
  <2>2. CASE row[k].status = "active" /\ GoTo(c, "retire")
    BY <1>1, <2>2, GoToMoves DEF Places, Exists
  <2> QED BY <2>1, <2>2 DEF RotateLookup, IsActive, GoTo
<1>4. Sound(c)
  BY <1>1, <1>2, <1>3 DEF Sound, Moves, Shape, Exists, Barred, Retired, Replaces, Leaves, At
<1> QED BY <1>1, <1>2, <1>3, <1>4, Alone DEF Moves, TenantType

\* The statements of a login change no key.
LEMMA GetInv == ASSUME IInv, NEW c \in Calls, Get(c) PROVE IInv'
<1>1. Shape(c) /\ Barred(c) /\ CallType /\ TenantType
  BY Now
<1>2. /\ UNCHANGED <<tenant, row, cache, revoked>> /\ Keeps
      /\ call[c].op = "login" /\ call[c].pc = "get" /\ call[c].seen = "none"
  BY <1>1 DEF Get, Keeps, At, Shape
<1>3. \E pc \in {"get", "issue", "insert"}, part \in Parts :
        Moves(c, pc, part, call[c].seen, call[c].reply)
  <2>1. CASE Have(c)
    BY <1>1, <2>1, HaveMoves DEF Parts
  <2>2. CASE GoTo(c, "insert")
    <3>1. call[c].part \in Parts
      BY <1>1 DEF CallType, Call
    <3> QED BY <1>1, <2>2, <3>1, GoToMoves DEF Places
  <2> QED BY <2>1, <2>2 DEF Get
<1>4. Sound(c)
  BY <1>1, <1>2, <1>3 DEF Sound, Moves, Shape, Exists, Barred, Retired, Replaces, Leaves, At
<1> QED BY <1>1, <1>2, <1>3, <1>4, Alone DEF Moves, TenantType

LEMMA InsertInv == ASSUME IInv, NEW c \in Calls, Insert(c) PROVE IInv'
<1>1. Shape(c) /\ Barred(c) /\ CallType /\ TenantType
  BY Now
<1>2. /\ UNCHANGED <<row, cache, revoked>> /\ Keeps
      /\ tenant' \in {tenant, Inserted(c)}
      /\ call[c].op = "login" /\ call[c].pc = "insert" /\ call[c].seen = "none"
  BY <1>1 DEF Insert, Keeps, At, Shape
<1>3. \E pc \in {"get", "issue", "refetch"}, part \in Parts :
        Moves(c, pc, part, call[c].seen, call[c].reply)
  <2>1. CASE Have(c)
    BY <1>1, <2>1, HaveMoves DEF Parts
  <2>2. CASE GoTo(c, "refetch")
    <3>1. call[c].part \in Parts
      BY <1>1 DEF CallType, Call
    <3> QED BY <1>1, <2>2, <3>1, GoToMoves DEF Places
  <2> QED BY <2>1, <2>2 DEF Insert
<1>4. Sound(c)
  BY <1>1, <1>2, <1>3 DEF Sound, Moves, Shape, Exists, Barred, Retired, Replaces, Leaves, At
<1>5. TenantType'
  <2>1. Inserted(c) \in [Users -> [Parts -> {"absent", "active", "inactive"}]]
    BY <1>1 DEF TenantType, Inserted
  <2> QED BY <1>1, <1>2, <2>1 DEF TenantType
<1> QED BY <1>1, <1>2, <1>3, <1>4, <1>5, Alone DEF Moves

LEMMA RefetchInv == ASSUME IInv, NEW c \in Calls, Refetch(c) PROVE IInv'
<1>1. Shape(c) /\ Barred(c) /\ CallType /\ TenantType
  BY Now
<1>2. /\ UNCHANGED <<tenant, row, cache, revoked>> /\ Keeps
      /\ call[c].op = "login" /\ call[c].pc = "refetch" /\ call[c].seen = "none"
  BY <1>1 DEF Refetch, Keeps, At, Shape
<1>3. \/ \E pc \in {"get", "issue"}, part \in Parts :
           Moves(c, pc, part, call[c].seen, call[c].reply)
      \/ Moves(c, "done", call[c].part, "none", "failed")
  <2>1. CASE Have(c)
    BY <1>1, <2>1, HaveMoves DEF Parts
  <2>2. CASE Reply(c, "failed")
    BY <1>1, <2>2, ReplyMoves DEF Replies
  <2> QED BY <2>1, <2>2 DEF Refetch
<1>4. Sound(c)
  BY <1>1, <1>2, <1>3 DEF Sound, Moves, Shape, Exists, Barred, Retired, Replaces, Leaves, At
<1> QED BY <1>1, <1>2, <1>3, <1>4, Alone DEF Moves, TenantType

\* A new key, whoever asked for it.
LEMMA RowKept ==
  ASSUME IInv, NEW k \in Keys, Fresh(k), NEW new \in Row, new.status = "active", new.user \in Users,
         row' = row \/ row' = [row EXCEPT ![k] = new]
  PROVE  /\ row' \in [Keys -> Row]
         /\ \A q \in Keys : \/ row'[q] = row[q]
                            \/ Fresh(q) /\ row'[q].status = "active" /\ row'[q].user \in Users
<1>1. row \in [Keys -> Row]
  BY DEF IInv, Types
<1> QED BY <1>1

\* The three writers of new keys.
LEMMA CreateInv ==
  ASSUME IInv, NEW k \in Keys, NEW u \in Users, NEW grant \in Grants, Create(k, u, grant) PROVE IInv'
<1> DEFINE new == [status |-> "active", user |-> u, scope |-> grant.scope,
                   left |-> IF grant.lifetime > 0 THEN grant.lifetime ELSE Forever]
<1>1. new \in Row
  BY GrantsAssumption DEF Row, Left
<1>2. Fresh(k) /\ row' = [row EXCEPT ![k] = new] /\ UNCHANGED <<tenant, cache, call, revoked, faults>>
  BY DEF Create
<1>3. new.status = "active" /\ new.user \in Users
  OBVIOUS
<1> HIDE DEF new
<1>4. /\ row' \in [Keys -> Row]
      /\ \A q \in Keys : \/ row'[q] = row[q]
                         \/ Fresh(q) /\ row'[q].status = "active" /\ row'[q].user \in Users
  BY <1>1, <1>2, <1>3, RowKept
<1>5. Types'
  BY <1>2, <1>4 DEF IInv, Types, CallType, CacheType, RevokedType
<1> QED BY <1>2, <1>4, <1>5, Step, {} \in SUBSET Calls

LEMMA InsertKeyInv ==
  ASSUME IInv, NEW c \in Calls, call[c].op \in {"rotate", "login"}, call[c].pc = "issue",
         NEW new \in Row, new.status = "active", new.user \in Users,
         call[c].op = "rotate" => new.user = row[call[c].key].user,
         InsertKey(c, new)
  PROVE  IInv'
<1>1. Shape(c) /\ Barred(c) /\ CallType /\ TenantType /\ (faults = 0 => Replaces(c))
  BY Now
<1>2. PICK k \in Keys :
        /\ Fresh(k)
        /\ \/ row' = [row EXCEPT ![k] = new] /\ Reply(c, "ok") /\ UNCHANGED faults
           \/ row' \in {row, [row EXCEPT ![k] = new]} /\ Reply(c, "failed") /\ Fault
        /\ UNCHANGED <<tenant, cache, revoked>>
  BY DEF InsertKey
<1>3. \/ Moves(c, "done", call[c].part, "none", "ok")
      \/ Moves(c, "done", call[c].part, "none", "failed")
  <2>1. CASE Reply(c, "ok")
    BY <1>1, <2>1, ReplyMoves DEF Replies
  <2>2. CASE Reply(c, "failed")
    BY <1>1, <2>2, ReplyMoves DEF Replies
  <2> QED BY <1>2, <2>1, <2>2
<1>4. /\ row' \in [Keys -> Row]
      /\ \A q \in Keys : \/ row'[q] = row[q]
                         \/ Fresh(q) /\ row'[q].status = "active" /\ row'[q].user \in Users
  BY <1>2, RowKept
<1>5. /\ faults' \in {faults, faults + 1} /\ faults' \in 0 .. MaxFaults
      /\ faults \in Nat /\ (faults' = 0 => faults = 0 /\ row' = [row EXCEPT ![k] = new])
  BY <1>2, FaultsAssumption DEF Fault, IInv, Types
<1>6. Types'
  <2>1. CallType'
    BY <1>3 DEF Moves
  <2> QED BY <1>2, <1>4, <1>5, <2>1 DEF IInv, Types, CacheType, RevokedType
<1>7. call[c].op = "rotate" => /\ call[c].key \in Keys /\ call[c].key # k
                               /\ Exists(call[c].key) /\ row'[call[c].key] = row[call[c].key]
  BY <1>1, <1>2, <1>4 DEF Shape, Fresh
<1>8. Sound(c)
  <2>1. Shape(c)'
    BY <1>1, <1>3, <1>7 DEF Moves, Shape, Exists
  <2>2. Barred(c)'
    BY <1>1, <1>3 DEF Moves, Barred
  <2>3. call'[c].seen # "active"
    BY <1>3 DEF Moves
  <2>4. faults' = 0 => Replaces(c)'
    BY <1>1, <1>3, <1>5, <1>7 DEF Moves, Replaces
  <2>5. faults' = 0 => Leaves(c)
    <3> SUFFICES ASSUME faults' = 0, call[c].op = "rotate"
                 PROVE  \E q \in Keys : row'[q].status = "active" /\ row'[q].user = row[call[c].key].user
      BY DEF Leaves, At
    <3>1. row'[k] = new
      BY <1>5 DEF IInv, Types
    <3> QED BY <3>1
  <2> QED BY <2>1, <2>2, <2>3, <2>4, <2>5 DEF Sound
<1>9. \A d \in Calls \ {c} : call'[d] = call[d]
  BY <1>3 DEF Moves
<1> QED BY <1>2, <1>4, <1>5, <1>6, <1>8, <1>9, Step, {c} \in SUBSET Calls DEF Sound

LEMMA ReissueInv == ASSUME IInv, NEW c \in Calls, Reissue(c) PROVE IInv'
<1> DEFINE old == row[call[c].key]
           new == [old EXCEPT !.status = "active", !.left = Forever]
<1>1. call[c].op = "rotate" /\ call[c].pc = "issue" /\ InsertKey(c, new)
  BY DEF Reissue, At
<1>2. call[c].key \in Keys /\ Exists(call[c].key)
  BY <1>1, Now DEF Shape
<1>3. old \in Row /\ old.user \in Users
  BY <1>2 DEF IInv, Types, KeyShape
<1> HIDE DEF old
<1>4. new \in Row /\ new.status = "active" /\ new.user = old.user
  BY <1>3 DEF Row, Left
<1> QED BY <1>1, <1>3, <1>4, InsertKeyInv DEF old

LEMMA IssueInv == ASSUME IInv, NEW c \in Calls, Issue(c) PROVE IInv'
<1> DEFINE new == [status |-> "active", user |-> call[c].user, left |-> Forever, scope |-> "inference"]
<1>1. call[c].op = "login" /\ call[c].pc = "issue" /\ InsertKey(c, new)
  BY DEF Issue, At
<1>2. call[c].user \in Users
  BY <1>1, Now DEF Shape
<1>3. new \in Row /\ new.status = "active" /\ new.user \in Users
  BY <1>2 DEF Row, Left, Scopes
<1> HIDE DEF new
<1> QED BY <1>1, <1>3, InsertKeyInv

\* No part of the invariant depends on the tenants' statuses.
LEMMA SetStatusInv ==
  ASSUME IInv, NEW u \in Users, NEW p \in Parts, NEW status \in {"active", "inactive"},
         SetStatus(u, p, status)
  PROVE  IInv'
<1>1. UNCHANGED <<row, cache, revoked, faults>> /\ TenantType'
  BY Now DEF SetStatus, TenantType, IInv, Types
<1>2. call \in [Calls -> Call]
  BY DEF IInv, Types, CallType
<1>3. \A c \in Calls : call'[c] \in {call[c], [call[c] EXCEPT !.met = @ \cup {p}]}
  BY DEF SetStatus
<1>4. \A c \in Calls :
        /\ call'[c] \in Call
        /\ call'[c].op = call[c].op /\ call'[c].pc = call[c].pc /\ call'[c].key = call[c].key
        /\ call'[c].user = call[c].user /\ call'[c].seen = call[c].seen
        /\ call'[c].barred = call[c].barred /\ call'[c].reply = call[c].reply
  BY <1>2, <1>3 DEF Call
<1>5. CallType'
  <2>1. call' = [c \in Calls |-> call'[c]]
    BY DEF SetStatus
  <2> QED BY <1>4, <2>1 DEF CallType
<1>6. Types'
  BY <1>1, <1>5, FaultsAssumption DEF IInv, Types, TenantType, CacheType, RevokedType
<1>7. ASSUME NEW c \in Calls PROVE Sound(c)
  <2>1. /\ Shape(c) /\ Barred(c)
        /\ call[c].seen = "active" => Open(call[c].key)
        /\ faults = 0 => Replaces(c)
    BY Now
  <2>2. Shape(c)'
    BY <1>1, <1>4, <2>1 DEF Shape, Exists
  <2>3. Barred(c)'
    BY <1>1, <1>4, <2>1 DEF Barred, Retired
  <2>4. faults' = 0 => Replaces(c)' /\ Leaves(c)
    BY <1>1, <1>4, <2>1 DEF Replaces, Leaves, At
  <2> QED BY <1>4, <2>1, <2>2, <2>3, <2>4 DEF Sound
<1> QED BY <1>1, <1>6, <1>7, Step, Calls \in SUBSET Calls DEF Sound

-----------------------------------------------------------------------------
(* Revocation and time. *)

\* RevokeRow, field by field.
LEMMA RevokedRow ==
  ASSUME IInv, NEW k \in Keys, Exists(k), NEW by \in {"admin", "rotation"}, RevokeRow(k, by)
  PROVE  /\ row' \in [Keys -> Row] /\ RevokedType'
         /\ \A q \in Keys : /\ row'[q].user = row[q].user
                            /\ q # k => row'[q] = row[q] /\ revoked'[q] = revoked[q]
         /\ row'[k].status = "revoked"
         /\ \/ row[k].status = "revoked" /\ revoked'[k] = revoked[k]
            \/ /\ row[k].status = "active"
               /\ revoked'[k].by = by /\ revoked'[k].left = TTL /\ revoked'[k].fills = Fills(k)
<1> USE TTLAssumption DEF IInv, Types
<1>1. row[k] \in Row /\ row[k].status \in {"active", "revoked"}
  BY DEF Exists, Row
<1>2. /\ [row[k] EXCEPT !.status = "revoked"] \in Row
      /\ [row[k] EXCEPT !.status = "revoked"].user = row[k].user
  BY <1>1 DEF Row
<1>3. row' = [row EXCEPT ![k] = [row[k] EXCEPT !.status = "revoked"]]
  BY DEF RevokeRow
<1>4. /\ row' \in [Keys -> Row]
      /\ \A q \in Keys : row'[q].user = row[q].user /\ (q # k => row'[q] = row[q])
  BY <1>2, <1>3
<1>5. row'[k].status = "revoked"
  BY <1>1, <1>3 DEF Row
<1>6. Fills(k) \in SUBSET Calls
  BY DEF Fills
<1>7. CASE row[k].status = "revoked"
  <2>1. revoked' = revoked
    BY <1>7 DEF RevokeRow
  <2> QED BY <1>4, <1>5, <1>7, <2>1 DEF RevokedType
<1>8. CASE row[k].status = "active"
  <2> DEFINE new == [by |-> by, left |-> TTL, fills |-> Fills(k)]
  <2>1. revoked' = [revoked EXCEPT ![k] = new]
    BY <1>8 DEF RevokeRow
  <2>2. /\ new \in [by : {"nobody", "admin", "rotation"}, left : Nat, fills : SUBSET Calls]
        /\ new.by = by /\ new.left = TTL /\ new.fills = Fills(k)
    BY <1>6
  <2> HIDE DEF new
  <2>3. RevokedType' /\ revoked'[k] = new /\ \A q \in Keys : q # k => revoked'[q] = revoked[q]
    BY <2>1, <2>2 DEF RevokedType
  <2> QED BY <1>4, <1>5, <1>8, <2>2, <2>3
<1> QED BY <1>1, <1>7, <1>8

\* A revocation, alone or by a rotation that then issues a key: no call
\* reads k as active in between, or it is one of the fills noted.
LEMMA Revoking ==
  ASSUME IInv, NEW k \in Keys, Exists(k), NEW by \in {"admin", "rotation"}, RevokeRow(k, by),
         CallType', UNCHANGED <<tenant, cache, faults>>,
         \A c \in Calls :
           \/ call'[c] = call[c]
           \/ /\ At(c, "rotate", "retire") /\ call[c].key = k
              /\ Moves(c, "issue", call[c].part, call[c].seen, call[c].reply),
         by = "rotation" => \E c \in Calls : At(c, "rotate", "issue")' /\ call'[c].key = k
  PROVE  IInv'
<1> USE TTLAssumption, FaultsAssumption
<1>1. /\ row' \in [Keys -> Row] /\ RevokedType'
      /\ \A q \in Keys : /\ row'[q].user = row[q].user
                         /\ q # k => row'[q] = row[q] /\ revoked'[q] = revoked[q]
      /\ row'[k].status = "revoked"
      /\ \/ row[k].status = "revoked" /\ revoked'[k] = revoked[k]
         \/ /\ row[k].status = "active"
            /\ revoked'[k].by = by /\ revoked'[k].left = TTL /\ revoked'[k].fills = Fills(k)
  BY RevokedRow
<1>2. \A q \in Keys : /\ row'[q].status # "absent" <=> row[q].status # "absent"
                      /\ row[q].status = "revoked" =>
                           row'[q].status = "revoked" /\ revoked'[q] = revoked[q]
  BY <1>1
<1>3. \A c \in Calls :
        /\ call'[c].op = call[c].op /\ call'[c].key = call[c].key /\ call'[c].user = call[c].user
        /\ call'[c].seen = call[c].seen /\ call'[c].barred = call[c].barred
        /\ call'[c].reply = call[c].reply
        /\ \/ call'[c].pc = call[c].pc
           \/ At(c, "rotate", "retire") /\ call[c].key = k /\ call'[c].pc = "issue"
  BY DEF Moves
<1>4. Types'
  BY <1>1 DEF IInv, Types, CacheType
<1>5. CallShape'
  <2> SUFFICES ASSUME NEW c \in Calls PROVE Shape(c)'
    BY DEF CallShape
  <2>1. Shape(c)
    BY Now
  <2>2. call[c].op \in {"validate", "rotate"} /\ Exists(call[c].key) => Exists(call[c].key)'
    BY <1>2, <1>3, <2>1 DEF Shape, Exists
  <2>3. CASE call'[c].pc = call[c].pc
    BY <1>3, <2>1, <2>2, <2>3 DEF Shape
  <2>4. CASE At(c, "rotate", "retire") /\ call'[c].pc = "issue"
    BY <1>3, <2>1, <2>2, <2>4 DEF Shape, At
  <2> QED BY <1>3, <2>3, <2>4
<1>6. KeyShape'
  <2> SUFFICES ASSUME NEW q \in Keys
               PROVE  /\ (Exists(q) <=> row[q].user \in Users)'
                      /\ (cache[q].copy # "none" => Exists(q) /\ cache[q].left \in 1 .. TTL)'
                      /\ (revoked[q].by # "nobody" => row[q].status = "revoked")'
                      /\ (revoked[q].left \in 0 .. TTL)'
    BY DEF KeyShape
  <2>1. /\ Exists(q) <=> row[q].user \in Users
        /\ cache[q].copy # "none" => Exists(q) /\ cache[q].left \in 1 .. TTL
        /\ revoked[q].by # "nobody" => row[q].status = "revoked"
        /\ revoked[q].left \in 0 .. TTL
    BY DEF IInv, KeyShape
  <2> QED BY <1>1, <1>2, <2>1 DEF Exists
<1>7. Revocation'
  <2>1. ASSUME NEW c \in Calls PROVE Barred(c)'
    <3>1. Barred(c) /\ Shape(c)
      BY Now
    <3>2. call[c].op = "validate" /\ Retired(call[c].key) => Retired(call[c].key)'
      <4> SUFFICES ASSUME call[c].op = "validate", Retired(call[c].key)
                   PROVE  Retired(call[c].key)'
        OBVIOUS
      <4>1. call[c].key \in Keys /\ call'[c].key = call[c].key
        BY <1>3, <3>1 DEF Shape
      <4>2. /\ row'[call[c].key].status = "revoked"
            /\ revoked'[call[c].key] = revoked[call[c].key]
        BY <1>2, <4>1 DEF Retired
      <4> QED BY <4>1, <4>2 DEF Retired
    <3>3. call[c].op = "validate" => call'[c].pc = call[c].pc
      BY <1>3 DEF At
    <3> QED BY <1>3, <3>1, <3>2, <3>3 DEF Barred
  <2>2. ASSUME NEW q \in Keys PROVE Quiet(q)'
    <3>1. Quiet(q)
      BY DEF IInv, Revocation
    <3>2. CASE row'[q].status = row[q].status /\ revoked'[q] = revoked[q]
      BY <1>3, <3>1, <3>2 DEF Quiet
    <3>3. CASE /\ q = k /\ row[k].status = "active"
               /\ revoked'[k].left = TTL /\ revoked'[k].fills = Fills(k)
      <4> SUFFICES ASSUME Fills(k) = {}
                   PROVE  /\ \A c \in Calls : call[c].key = k => call[c].seen # "active"
                          /\ cache[k].copy = "active" => cache[k].left <= TTL
        BY <1>3, <3>3 DEF Quiet
      <4>1. ASSUME NEW c \in Calls, call[c].key = k, call[c].seen = "active" PROVE FALSE
        <5>1. call[c].pc = "fill"
          BY <4>1, Now DEF Shape
        <5> QED BY <4>1, <5>1 DEF Fills
      <4>2. cache[k].copy = "active" => cache[k].left <= TTL
        BY DEF IInv, KeyShape
      <4> QED BY <4>1, <4>2
    <3> QED BY <1>1, <3>2, <3>3
  <2> QED BY <2>1, <2>2 DEF Revocation
<1>8. Retirement'
  <2> SUFFICES ASSUME faults' = 0, NEW c \in Calls PROVE Replaces(c)'
    BY DEF Retirement
  <2>1. Replaces(c) /\ Shape(c)
    BY Now
  <2> QED BY <1>1, <1>2, <1>3, <2>1 DEF Replaces, Shape
<1>9. NobodyIsLockedOut'
  <2> SUFFICES ASSUME faults = 0, NEW u \in Users, HasKey(u, "revoked")'
               PROVE  \/ HasKey(u, "active")'
                      \/ \E c \in Calls : At(c, "rotate", "issue")' /\ row'[call'[c].key].user = u
                      \/ \E q \in Keys : revoked'[q].by = "admin" /\ row'[q].user = u
    BY DEF NobodyIsLockedOut
  <2>1. CASE row[k].user = u /\ row[k].status = "active"
    <3>1. CASE by = "admin"
      BY <1>1, <2>1, <3>1
    <3>2. CASE by = "rotation"
      BY <1>1, <2>1, <3>2
    <3> QED BY <3>1, <3>2
  <2>2. CASE ~(row[k].user = u /\ row[k].status = "active")
    <3>1. HasKey(u, "revoked")
      BY <1>1, <2>2 DEF HasKey
    <3>2. \/ HasKey(u, "active")
          \/ \E c \in Calls : At(c, "rotate", "issue") /\ row[call[c].key].user = u
          \/ \E q \in Keys : revoked[q].by = "admin" /\ row[q].user = u
      BY <3>1 DEF IInv, NobodyIsLockedOut
    <3>3. CASE HasKey(u, "active")
      BY <1>1, <2>2, <3>3 DEF HasKey
    <3>4. ASSUME NEW c \in Calls, At(c, "rotate", "issue"), row[call[c].key].user = u
          PROVE  At(c, "rotate", "issue")' /\ row'[call'[c].key].user = u
      <4>1. call[c].key \in Keys
        BY <3>4, Now DEF At, Shape
      <4> QED BY <1>1, <1>3, <3>4, <4>1 DEF At
    <3>5. ASSUME NEW q \in Keys, revoked[q].by = "admin", row[q].user = u
          PROVE  revoked'[q].by = "admin" /\ row'[q].user = u
      <4>1. row[q].status = "revoked"
        BY <3>5 DEF IInv, KeyShape
      <4> QED BY <1>1, <1>2, <3>5, <4>1
    <3> QED BY <3>2, <3>3, <3>4, <3>5
  <2> QED BY <2>1, <2>2
<1> QED BY <1>4, <1>5, <1>6, <1>7, <1>8, <1>9 DEF IInv

\* By the administrator, and by a rotation.
LEMMA RevokeInv == ASSUME IInv, NEW k \in Keys, Revoke(k) PROVE IInv'
<1>1. CallType'
  BY Now DEF Revoke, IInv, Types, CallType
<1> QED BY <1>1, Revoking DEF Revoke

LEMMA RetireInv == ASSUME IInv, NEW c \in Calls, Retire(c) PROVE IInv'
<1> DEFINE k == call[c].key
<1>1. Shape(c) /\ Barred(c) /\ CallType /\ TenantType
  BY Now
<1>2. /\ UNCHANGED <<tenant, cache>>
      /\ call[c].op = "rotate" /\ call[c].pc = "retire" /\ call[c].seen = "none"
  BY <1>1 DEF Retire, At, Shape
<1>3. Moves(c, "issue", call[c].part, call[c].seen, call[c].reply)
  BY <1>1, GoToMoves DEF Retire, Places
<1>4. k \in Keys /\ Exists(k)
  BY <1>1, <1>2 DEF Shape
<1>5. CASE RevokeRow(k, "rotation") /\ UNCHANGED faults
  <2>1. CallType' /\ At(c, "rotate", "issue")' /\ call'[c].key = k
    BY <1>2, <1>3 DEF Moves, At
  <2>2. \A d \in Calls :
          \/ call'[d] = call[d]
          \/ /\ At(d, "rotate", "retire") /\ call[d].key = k
             /\ Moves(d, "issue", call[d].part, call[d].seen, call[d].reply)
    <3> SUFFICES ASSUME NEW d \in Calls, d # c PROVE call'[d] = call[d]
      BY <1>2, <1>3 DEF At
    <3> QED BY <1>3 DEF Moves
  <2> QED BY <1>2, <1>4, <1>5, <2>1, <2>2, Revoking
<1>6. CASE Fault /\ UNCHANGED <<row, revoked>>
  <2>1. faults' # 0
    BY <1>6, FaultsAssumption DEF Fault, IInv, Types
  <2>2. Sound(c)
    BY <1>1, <1>2, <1>3, <1>6, <2>1 DEF Sound, Moves, Shape, Exists, Barred
  <2> QED BY <1>1, <1>2, <1>3, <1>6, <2>2, Alone DEF Moves, TenantType, Keeps
<1> QED BY <1>5, <1>6 DEF Retire

\* A tick takes one off a period that has something left.
LEMMA TickedLeft ==
  ASSUME NEW n \in Left
  PROVE  /\ Ticked(n) \in Left /\ Ticked(n) <= n
         /\ n > 0 => Ticked(n) = n - 1
         /\ n <= 0 => Ticked(n) = n
BY DEF Ticked, Left, Forever

\* A tick takes as much off a cache entry as off the time since a revocation.
LEMMA TickInv == ASSUME IInv, Tick PROVE IInv'
<1> USE TTLAssumption, FaultsAssumption
<1>1. UNCHANGED <<tenant, call, faults>>
  BY DEF Tick
<1>2. ASSUME NEW k \in Keys
      PROVE  /\ row'[k] \in Row /\ row'[k].status = row[k].status /\ row'[k].user = row[k].user
  <2>1. row[k] \in Row /\ row'[k] = [row[k] EXCEPT !.left = Ticked(row[k].left)]
    BY DEF Tick, IInv, Types
  <2>2. Ticked(row[k].left) \in Left
    BY <2>1, TickedLeft DEF Row
  <2> QED BY <2>1, <2>2 DEF Row
<1>3. ASSUME NEW k \in Keys
      PROVE  /\ revoked'[k] \in [by : {"nobody", "admin", "rotation"}, left : Nat, fills : SUBSET Calls]
             /\ revoked'[k].by = revoked[k].by /\ revoked'[k].fills = revoked[k].fills
             /\ revoked[k].left \in Nat
             /\ revoked[k].left = 0 => revoked'[k].left = 0
             /\ revoked[k].left > 0 => revoked'[k].left = revoked[k].left - 1
  <2>1. /\ revoked[k] \in [by : {"nobody", "admin", "rotation"}, left : Nat, fills : SUBSET Calls]
        /\ revoked'[k] = [revoked[k] EXCEPT !.left = Ticked(revoked[k].left)]
    BY DEF Tick, IInv, Types, RevokedType
  <2>2. revoked[k].left \in Nat
    BY <2>1
  <2>3. /\ Ticked(revoked[k].left) \in Nat
        /\ revoked[k].left = 0 => Ticked(revoked[k].left) = 0
        /\ revoked[k].left > 0 => Ticked(revoked[k].left) = revoked[k].left - 1
    BY <2>2 DEF Ticked
  <2> QED BY <2>1, <2>2, <2>3
<1>4. ASSUME NEW k \in Keys
      PROVE  /\ cache'[k] \in [copy : Copy, left : Left]
             /\ cache'[k].copy # "none" =>
                  /\ cache'[k].copy = cache[k].copy
                  /\ cache[k].left \in 1 .. TTL =>
                       cache[k].left # 1 /\ cache'[k].left = cache[k].left - 1
  <2>1. /\ cache[k] \in [copy : Copy, left : Left]
        /\ cache'[k] = IF cache[k].left = 1 THEN NoEntry
                       ELSE [cache[k] EXCEPT !.left = Ticked(cache[k].left)]
    BY DEF Tick, IInv, Types, CacheType
  <2>2. /\ Ticked(cache[k].left) \in Left /\ cache[k].left \in Int
        /\ cache[k].left > 0 => Ticked(cache[k].left) = cache[k].left - 1
    BY <2>1, TickedLeft DEF Left, Forever
  <2>3. CASE cache[k].left = 1
    BY <2>1, <2>2, <2>3 DEF NoEntry, Copy, Left
  <2>4. CASE cache[k].left # 1
    BY <2>1, <2>2, <2>4
  <2> QED BY <2>3, <2>4
<1>5. Types'
  <2>1. row' \in [Keys -> Row]
    <3>1. row' = [k \in Keys |-> row'[k]]
      BY DEF Tick
    <3> QED BY <1>2, <3>1
  <2>2. RevokedType'
    <3>1. revoked' = [k \in Keys |-> revoked'[k]]
      BY DEF Tick
    <3> QED BY <1>3, <3>1 DEF RevokedType
  <2>3. CacheType'
    <3>1. cache' = [k \in Keys |-> cache'[k]]
      BY DEF Tick
    <3> QED BY <1>4, <3>1 DEF CacheType
  <2> QED BY <1>1, <2>1, <2>2, <2>3 DEF IInv, Types, CallType
<1>6. CallShape'
  <2> SUFFICES ASSUME NEW c \in Calls PROVE Shape(c)'
    BY DEF CallShape
  <2>1. Shape(c)
    BY Now
  <2> QED BY <1>1, <1>2, <2>1 DEF Shape, Exists
<1>7. KeyShape'
  <2> SUFFICES ASSUME NEW k \in Keys
               PROVE  /\ (Exists(k) <=> row[k].user \in Users)'
                      /\ (cache[k].copy # "none" => Exists(k) /\ cache[k].left \in 1 .. TTL)'
                      /\ (revoked[k].by # "nobody" => row[k].status = "revoked")'
                      /\ (revoked[k].left \in 0 .. TTL)'
    BY DEF KeyShape
  <2>1. /\ Exists(k) <=> row[k].user \in Users
        /\ cache[k].copy # "none" => Exists(k) /\ cache[k].left \in 1 .. TTL
        /\ revoked[k].by # "nobody" => row[k].status = "revoked"
        /\ revoked[k].left \in 0 .. TTL
    BY DEF IInv, KeyShape
  <2>2. (cache[k].copy # "none" => Exists(k) /\ cache[k].left \in 1 .. TTL)'
    <3> SUFFICES ASSUME cache'[k].copy # "none"
                 PROVE  row'[k].status # "absent" /\ cache'[k].left \in 1 .. TTL
      BY DEF Exists
    <3>1. /\ cache'[k].copy = cache[k].copy
          /\ cache[k].left \in 1 .. TTL =>
               cache[k].left # 1 /\ cache'[k].left = cache[k].left - 1
      BY <1>4
    <3>2. cache[k].left \in 1 .. TTL /\ row[k].status # "absent"
      BY <2>1, <3>1 DEF Exists
    <3>3. cache'[k].left \in 1 .. TTL
      BY <3>1, <3>2
    <3> QED BY <1>2, <3>2, <3>3
  <2>3. (revoked[k].left \in 0 .. TTL)'
    BY <1>3, <2>1
  <2> QED BY <1>2, <1>3, <2>1, <2>2, <2>3 DEF Exists
<1>8. Revocation'
  <2>1. ASSUME NEW c \in Calls PROVE Barred(c)'
    <3>1. Barred(c) /\ Shape(c)
      BY Now
    <3>2. call[c].op = "validate" /\ Retired(call[c].key) => Retired(call[c].key)'
      BY <1>1, <1>2, <1>3, <3>1 DEF Retired, Shape
    <3> QED BY <1>1, <3>1, <3>2 DEF Barred
  <2>2. ASSUME NEW k \in Keys PROVE Quiet(k)'
    <3>1. Quiet(k) /\ (cache[k].copy # "none" => cache[k].left \in 1 .. TTL)
      BY DEF IInv, Revocation, KeyShape
    <3>2. row[k].status = "revoked" /\ revoked[k].fills = {} /\ cache'[k].copy = "active" =>
            cache'[k].left <= revoked'[k].left
      <4> SUFFICES ASSUME row[k].status = "revoked", revoked[k].fills = {}, cache'[k].copy = "active"
                   PROVE  cache'[k].left <= revoked'[k].left
        OBVIOUS
      <4>1. /\ cache[k].copy = "active"
            /\ cache[k].left \in 1 .. TTL =>
                 cache[k].left # 1 /\ cache'[k].left = cache[k].left - 1
        BY <1>4
      <4>2. /\ revoked[k].left \in Nat
            /\ revoked[k].left > 0 => revoked'[k].left = revoked[k].left - 1
        BY <1>3
      <4>3. cache[k].left \in 1 .. TTL /\ cache[k].left <= revoked[k].left
        BY <3>1, <4>1 DEF Quiet
      <4> QED BY <4>1, <4>2, <4>3
    <3> QED BY <1>1, <1>2, <1>3, <3>1, <3>2 DEF Quiet
  <2> QED BY <2>1, <2>2 DEF Revocation
<1>9. Retirement'
  <2> SUFFICES ASSUME faults' = 0, NEW c \in Calls PROVE Replaces(c)'
    BY DEF Retirement
  <2>1. Replaces(c) /\ Shape(c)
    BY <1>1, Now
  <2> QED BY <1>1, <1>2, <2>1 DEF Replaces, Shape
<1>10. NobodyIsLockedOut'
  <2> SUFFICES ASSUME faults = 0, NEW u \in Users, HasKey(u, "revoked")'
               PROVE  \/ HasKey(u, "active")'
                      \/ \E c \in Calls : At(c, "rotate", "issue")' /\ row'[call'[c].key].user = u
                      \/ \E q \in Keys : revoked'[q].by = "admin" /\ row'[q].user = u
    BY <1>1 DEF NobodyIsLockedOut
  <2>1. HasKey(u, "revoked")
    BY <1>2 DEF HasKey
  <2>2. \/ HasKey(u, "active")
        \/ \E c \in Calls : At(c, "rotate", "issue") /\ row[call[c].key].user = u
        \/ \E q \in Keys : revoked[q].by = "admin" /\ row[q].user = u
    BY <2>1 DEF IInv, NobodyIsLockedOut
  <2>3. CASE HasKey(u, "active")
    BY <1>2, <2>3 DEF HasKey
  <2>4. ASSUME NEW c \in Calls, At(c, "rotate", "issue"), row[call[c].key].user = u
        PROVE  At(c, "rotate", "issue")' /\ row'[call'[c].key].user = u
    <3>1. call[c].key \in Keys
      BY <2>4, Now DEF At, Shape
    <3> QED BY <1>1, <1>2, <2>4, <3>1 DEF At
  <2>5. ASSUME NEW q \in Keys, revoked[q].by = "admin", row[q].user = u
        PROVE  revoked'[q].by = "admin" /\ row'[q].user = u
    BY <1>2, <1>3, <2>5
  <2> QED BY <2>2, <2>3, <2>4, <2>5
<1> QED BY <1>5, <1>6, <1>7, <1>8, <1>9, <1>10 DEF IInv

-----------------------------------------------------------------------------
(* The invariant holds, and what follows. *)

LEMMA InitInv == Init => IInv
<1> SUFFICES ASSUME Init PROVE IInv
  OBVIOUS
<1> USE FaultsAssumption, TTLAssumption, NobodyAssumption DEF Init
<1>1. /\ Absent \in Row /\ Absent.status = "absent" /\ Absent.user = NoUser
      /\ NoEntry \in [copy : Copy, left : Left] /\ NoEntry.copy = "none"
  BY DEF Absent, Row, Left, Forever, Scopes, NoEntry, Copy
<1>2. /\ IdleCall \in Call /\ IdleCall.op = "none" /\ IdleCall.pc = "idle"
      /\ IdleCall.seen = "none" /\ IdleCall.barred = {} /\ IdleCall.reply = "none"
  BY DEF IdleCall, Call, Parts, Copy
<1>3. Types
  <2>1. row \in [Keys -> Row] /\ CacheType /\ CallType /\ faults \in 0 .. MaxFaults
    BY <1>1, <1>2 DEF CacheType, CallType
  <2>2. RevokedType
    BY DEF RevokedType
  <2>3. tenant \in [Users -> [Parts -> {"absent", "active", "inactive"}]]
    OBVIOUS
  <2> QED BY <2>1, <2>2, <2>3 DEF Types
<1>4. CallShape
  BY <1>2 DEF CallShape, Shape
<1>5. KeyShape
  BY <1>1 DEF KeyShape, Exists
<1>6. Revocation
  BY <1>1, <1>2 DEF Revocation, Barred, Quiet
<1>7. Retirement
  BY <1>2 DEF Retirement, Replaces
<1>8. NobodyIsLockedOut
  BY <1>1 DEF NobodyIsLockedOut, HasKey
<1> QED BY <1>3, <1>4, <1>5, <1>6, <1>7, <1>8 DEF IInv

LEMMA NextInv == IInv /\ [Next]_vars => IInv'
<1> SUFFICES ASSUME IInv, [Next]_vars PROVE IInv'
  OBVIOUS
<1>1. CASE Tick
  BY <1>1, TickInv
<1>2. ASSUME NEW k \in Keys, Revoke(k) PROVE IInv'
  BY <1>2, RevokeInv
<1>3. ASSUME NEW k \in Keys, NEW u \in Users, NEW grant \in Grants, Create(k, u, grant) PROVE IInv'
  BY <1>3, CreateInv
<1>4. ASSUME NEW u \in Users, NEW p \in Parts, NEW status \in {"active", "inactive"},
             SetStatus(u, p, status)
      PROVE  IInv'
  BY <1>4, SetStatusInv
<1>5. ASSUME NEW c \in Calls, NEW k \in Keys, BeginChat(c, k) \/ BeginRotate(c, k) PROVE IInv'
  BY <1>5, BeginChatInv, BeginRotateInv
<1>6. ASSUME NEW c \in Calls, NEW u \in Users, BeginLogin(c, u) PROVE IInv'
  BY <1>6, BeginLoginInv
<1>7. ASSUME NEW c \in Calls, Admit(c) PROVE IInv'
  BY <1>7, HitInv, MissInv, QueryInv, FillInv, ResolveInv DEF Admit, Validate
<1>8. ASSUME NEW c \in Calls, Rotate(c) PROVE IInv'
  BY <1>8, RotateLookupInv, RetireInv, ReissueInv DEF Rotate
<1>9. ASSUME NEW c \in Calls, Login(c) PROVE IInv'
  BY <1>9, GetInv, InsertInv, RefetchInv, IssueInv DEF Login
<1>10. CASE UNCHANGED vars
  <2>1. Types'
    BY <1>10 DEF vars, IInv, Types, CallType, CacheType, RevokedType
  <2>2. \A c \in {} : /\ Shape(c)'
                      /\ Barred(c)'
                      /\ call'[c].seen = "active" => Open(call'[c].key)
                      /\ faults' = 0 => Replaces(c)' /\ Leaves(c)
    OBVIOUS
  <2> QED BY <1>10, <2>1, <2>2, Step, {} \in SUBSET Calls DEF vars
<1> QED BY <1>1, <1>2, <1>3, <1>4, <1>5, <1>6, <1>7, <1>8, <1>9, <1>10 DEF Next

LEMMA Invariance == Spec => []IInv
BY InitInv, NextInv, PTL DEF Spec

\* Every variable keeps its type: no action writes a status, place or period
\* that is not one.
THEOREM TypeCorrect == Spec => []TypeOK
<1>1. IInv => TypeOK
  BY DEF IInv, Types, CallType, CacheType, RevokedType, TypeOK
<1> QED BY <1>1, Invariance, PTL

\* Validate: a key that was revoked a cache lifetime ago admits nobody, but
\* for a fill that was under way at its revocation.
THEOREM RevocationHolds == Spec => []RevocationTakesHold
<1>1. IInv => RevocationTakesHold
  BY DEF IInv, Revocation, Barred, RevocationTakesHold, Admitted
<1> QED BY <1>1, Invariance, PTL

\* RotateKey: without a failed statement, a rotation that succeeds has revoked
\* the key it replaces.
THEOREM RotationRetiresKey == Spec => []RotationRetires
<1>1. IInv => RotationRetires
  BY DEF IInv, Retirement, Replaces, RotationRetires, RotationRevokes
<1> QED BY <1>1, Invariance, PTL

\* RotateKey: without a failed statement, a user whose keys were revoked only
\* by rotations has an active key or is being issued one.
THEOREM NobodyLockedOut == Spec => []NobodyIsLockedOut
<1>1. IInv => NobodyIsLockedOut
  BY DEF IInv
<1> QED BY <1>1, Invariance, PTL

-----------------------------------------------------------------------------
(* Admission and logins.  The invariant, Sure, rests on IInv: a key never  *)
(* changes hands, and a tenant that has a key stays complete.              *)

\* A project is created after its organization, a key after both, and no row
\* of a tenant is ever removed.
Rooted ==
  /\ \A u \in Users : tenant[u]["prj"] # "absent" => tenant[u]["org"] # "absent"
  /\ \A k \in Keys : Exists(k) => tenant[row[k].user]["prj"] # "absent"

\* What call c has been asked about: a part of the tenant that is active now
\* has been met, and a key that had expired still has.
Asked(c) ==
  call[c].op = "validate" =>
    /\ Exists(call[c].key) =>
         \A p \in Parts : tenant[row[call[c].key].user][p] = "active" => p \in call[c].met
    /\ "expired" \in call[c].barred => IsExpired(call[c].key)

\* How far an admission may have come by that.
Checked(c) ==
  call[c].op = "validate" =>
    /\ call[c].pc \in {"lookup", "query", "fill"} => call[c].part = "prj"
    /\ "expired" \in call[c].barred => call[c].pc # "resolve" /\ call[c].reply # "ok"
    /\ call[c].pc = "resolve" /\ call[c].part = "org" => "prj" \in call[c].met
    /\ call[c].reply = "ok" => call[c].met = Parts /\ row[call[c].key].scope = "inference"

\* A login goes on only from a part that is there.
Founded(c) ==
  call[c].op = "login" =>
    /\ call[c].pc # "done" /\ call[c].part = "prj" => tenant[call[c].user]["org"] # "absent"
    /\ call[c].pc = "issue" => tenant[call[c].user]["prj"] # "absent"
    /\ faults = 0 => /\ call[c].reply # "failed"
                     /\ call[c].pc = "refetch" => tenant[call[c].user][call[c].part] # "absent"

Sure == Rooted /\ \A c \in Calls : Asked(c) /\ Checked(c) /\ Founded(c)

-----------------------------------------------------------------------------
(* Steps.                                                                  *)

\* What every step does to the tables, but for statuses set by an operator.
TenantsGrow ==
  \A u \in Users, p \in Parts :
    /\ tenant[u][p] # "absent" => tenant'[u][p] # "absent"
    /\ tenant'[u][p] = "active" => tenant[u][p] \in {"active", "absent"}

RowsGrow ==
  \A k \in Keys :
    \/ /\ Exists(k)' <=> Exists(k)
       /\ row'[k].user = row[k].user /\ row'[k].scope = row[k].scope
       /\ IsExpired(k) => IsExpired(k)'
    \/ Fresh(k) /\ row'[k].user \in Users /\ tenant'[row'[k].user]["prj"] # "absent"

\* What a step leaves alone of a call it changes.
Same(c) ==
  /\ call'[c].op = call[c].op /\ call'[c].key = call[c].key /\ call'[c].user = call[c].user
  /\ call'[c].met = call[c].met /\ call'[c].barred = call[c].barred

\* A key that a call was asked about stays the key it was.
LEMMA KeyStays ==
  ASSUME RowsGrow, NEW c \in Calls, call[c].key \in Keys
  PROVE  /\ (row'[call[c].key].status # "absent") <=> Exists(call[c].key)
         /\ row'[call[c].key].user = row[call[c].key].user
         /\ row'[call[c].key].scope = row[call[c].key].scope
         /\ IsExpired(call[c].key) => row'[call[c].key].left = 0
BY DEF RowsGrow, Fresh, Exists, IsExpired

LEMMA RootedStays ==
  ASSUME IInv, Rooted, TenantsGrow, RowsGrow,
         \A u \in Users : tenant'[u]["prj"] # "absent" => tenant'[u]["org"] # "absent"
  PROVE  Rooted'
<1> SUFFICES ASSUME NEW k \in Keys, Exists(k)' PROVE tenant'[row'[k].user]["prj"] # "absent"
  BY DEF Rooted
<1>1. CASE Fresh(k) /\ row'[k].user \in Users /\ tenant'[row'[k].user]["prj"] # "absent"
  BY <1>1
<1>2. CASE (Exists(k)' <=> Exists(k)) /\ row'[k].user = row[k].user
  <2>1. row[k].user \in Users /\ tenant[row[k].user]["prj"] # "absent"
    BY <1>2 DEF IInv, KeyShape, Rooted
  <2>2. tenant'[row[k].user]["prj"] # "absent"
    BY <2>1 DEF TenantsGrow, Parts
  <2> QED BY <1>2, <2>2
<1> QED BY <1>1, <1>2 DEF RowsGrow

LEMMA AskedStays ==
  ASSUME IInv, Rooted, TenantsGrow, RowsGrow, NEW c \in Calls, Asked(c), Same(c)
  PROVE  Asked(c)'
<1> DEFINE k == call[c].key
<1> SUFFICES ASSUME call[c].op = "validate"
             PROVE  /\ row'[k].status # "absent" =>
                         \A p \in Parts : tenant'[row'[k].user][p] = "active" => p \in call[c].met
                    /\ "expired" \in call[c].barred => row'[k].left = 0
  BY DEF Asked, Same, Exists, IsExpired
<1>1. k \in Keys
  BY Now DEF Shape
<1>2. /\ (row'[k].status # "absent") <=> Exists(k)
      /\ row'[k].user = row[k].user
      /\ IsExpired(k) => row'[k].left = 0
  BY <1>1, KeyStays
<1>3. ASSUME Exists(k), NEW p \in Parts, tenant'[row[k].user][p] = "active"
      PROVE  p \in call[c].met
  <2>1. row[k].user \in Users
    BY <1>1, <1>3 DEF IInv, KeyShape
  <2>2. tenant[row[k].user]["prj"] # "absent" /\ tenant[row[k].user]["org"] # "absent"
    BY <1>1, <1>3, <2>1 DEF Rooted
  <2>3. tenant[row[k].user][p] = "active"
    BY <1>3, <2>1, <2>2 DEF TenantsGrow, Parts
  <2> QED BY <1>3, <2>3 DEF Asked
<1> QED BY <1>2, <1>3 DEF Asked

\* A call that does not move is as far as it was.
LEMMA StandsStill ==
  ASSUME IInv, TenantsGrow, RowsGrow, faults' = 0 => faults = 0,
         NEW c \in Calls, Checked(c), Founded(c), call'[c] = call[c]
  PROVE  Checked(c)' /\ Founded(c)'
<1>1. Shape(c) /\ call[c] \in Call
  BY Now DEF CallType
<1>2. Checked(c)'
  <2> SUFFICES ASSUME call[c].op = "validate", call[c].reply = "ok"
               PROVE  row'[call[c].key].scope = "inference"
    BY DEF Checked
  <2>1. call[c].key \in Keys
    BY <1>1 DEF Shape
  <2> QED BY <2>1, KeyStays DEF Checked
<1>3. Founded(c)'
  <2> SUFFICES ASSUME call[c].op = "login" PROVE Founded(c)'
    BY DEF Founded
  <2>1. call[c].user \in Users /\ call[c].part \in Parts
    BY <1>1 DEF Shape, Call
  <2>2. \A p \in Parts : tenant[call[c].user][p] # "absent" => tenant'[call[c].user][p] # "absent"
    BY <2>1 DEF TenantsGrow
  <2> QED BY <2>1, <2>2 DEF Founded, Parts
<1> QED BY <1>2, <1>3

\* The invariant survives every step that changes no status, when the calls
\* it changes are in order.
LEMMA Stays ==
  ASSUME IInv, Sure, TenantsGrow, RowsGrow, faults' = 0 => faults = 0,
         \A u \in Users : tenant'[u]["prj"] # "absent" => tenant'[u]["org"] # "absent",
         \A c \in Calls :
           \/ call'[c] = call[c]
           \/ Same(c) /\ Checked(c)' /\ Founded(c)'
           \/ Asked(c)' /\ Checked(c)' /\ Founded(c)'
  PROVE  Sure'
<1>1. Rooted'
  BY RootedStays DEF Sure
<1>2. ASSUME NEW c \in Calls PROVE Asked(c)' /\ Checked(c)' /\ Founded(c)'
  <2>1. Rooted /\ Asked(c) /\ Checked(c) /\ Founded(c)
    BY DEF Sure
  <2>2. CASE call'[c] = call[c]
    BY <2>1, <2>2, AskedStays, StandsStill DEF Same
  <2>3. CASE Same(c) /\ Checked(c)' /\ Founded(c)'
    BY <2>1, <2>3, AskedStays
  <2> QED BY <2>2, <2>3
<1> QED BY <1>1, <1>2 DEF Sure

\* The steps that change one call and nothing in the tables.
LEMMA OneCall ==
  ASSUME IInv, Sure, NEW c \in Calls, UNCHANGED <<tenant, row>>, Keeps,
         \A d \in Calls \ {c} : call'[d] = call[d],
         (Same(c) \/ Asked(c)') /\ Checked(c)' /\ Founded(c)'
  PROVE  Sure'
<1>1. faults' = 0 => faults = 0
  BY FaultsAssumption DEF Keeps, Fault, IInv, Types
<1>2. TenantsGrow /\ RowsGrow
  BY DEF TenantsGrow, RowsGrow, Exists, IsExpired
<1>3. \A u \in Users : tenant'[u]["prj"] # "absent" => tenant'[u]["org"] # "absent"
  BY DEF Sure, Rooted
<1> QED BY <1>1, <1>2, <1>3, Stays

LEMMA Here ==
  ASSUME IInv, Sure, NEW c \in Calls
  PROVE  /\ CallType /\ TenantType /\ Shape(c) /\ call[c] \in Call
         /\ Rooted /\ Asked(c) /\ Checked(c) /\ Founded(c)
BY Now DEF Sure, CallType

-----------------------------------------------------------------------------
(* Requests come in.                                                       *)

LEMMA BeginChatSure ==
  ASSUME IInv, Sure, NEW c \in Calls, NEW k \in Keys, BeginChat(c, k) PROVE Sure'
<1> DEFINE met    == IF Exists(k) THEN MetBy(row[k].user) ELSE {}
           barred == (IF Retired(k) THEN {"revoked"} ELSE {}) \cup
                     (IF IsExpired(k) THEN {"expired"} ELSE {})
           y == [IdleCall EXCEPT !.op = "validate", !.pc = "lookup", !.key = k,
                                 !.met = met, !.barred = barred]
<1>1. call' = [call EXCEPT ![c] = y] /\ UNCHANGED <<tenant, row, faults>>
  BY DEF BeginChat
<1>2. /\ y.op = "validate" /\ y.pc = "lookup" /\ y.key = k /\ y.part = "prj"
      /\ y.reply = "none" /\ y.met = met /\ y.barred = barred
  BY DEF IdleCall
<1>3. Exists(k) => met = MetBy(row[k].user)
  OBVIOUS
<1>4. "expired" \in barred => IsExpired(k)
  OBVIOUS
<1> HIDE DEF y, met, barred
<1>5. (\A d \in Calls \ {c} : call'[d] = call[d]) /\ call'[c] = y
  BY <1>1, Here DEF CallType
<1>6. Asked(c)'
  BY <1>1, <1>2, <1>3, <1>4, <1>5 DEF Asked, MetBy, Exists, IsExpired
<1>7. Checked(c)' /\ Founded(c)'
  BY <1>2, <1>5 DEF Checked, Founded
<1> QED BY <1>1, <1>5, <1>6, <1>7, OneCall DEF Keeps

LEMMA BeginRotateSure ==
  ASSUME IInv, Sure, NEW c \in Calls, NEW k \in Keys, BeginRotate(c, k) PROVE Sure'
<1> DEFINE y == [IdleCall EXCEPT !.op = "rotate", !.pc = "lookup", !.key = k]
<1>1. call' = [call EXCEPT ![c] = y] /\ UNCHANGED <<tenant, row, faults>>
  BY DEF BeginRotate
<1>2. y.op = "rotate"
  BY DEF IdleCall
<1> HIDE DEF y
<1>3. (\A d \in Calls \ {c} : call'[d] = call[d]) /\ call'[c] = y
  BY <1>1, Here DEF CallType
<1>4. Asked(c)' /\ Checked(c)' /\ Founded(c)'
  BY <1>2, <1>3 DEF Asked, Checked, Founded
<1> QED BY <1>1, <1>3, <1>4, OneCall DEF Keeps

LEMMA BeginLoginSure ==
  ASSUME IInv, Sure, NEW c \in Calls, NEW u \in Users, BeginLogin(c, u) PROVE Sure'
<1> DEFINE y == [IdleCall EXCEPT !.op = "login", !.pc = "get", !.user = u, !.part = "org"]
<1>1. call' = [call EXCEPT ![c] = y] /\ UNCHANGED <<tenant, row, faults>>
  BY DEF BeginLogin
<1>2. y.op = "login" /\ y.pc = "get" /\ y.part = "org" /\ y.reply = "none"
  BY DEF IdleCall
<1> HIDE DEF y
<1>3. (\A d \in Calls \ {c} : call'[d] = call[d]) /\ call'[c] = y
  BY <1>1, Here DEF CallType
<1>4. Asked(c)' /\ Checked(c)' /\ Founded(c)'
  BY <1>2, <1>3 DEF Asked, Checked, Founded
<1> QED BY <1>1, <1>3, <1>4, OneCall DEF Keeps

-----------------------------------------------------------------------------
(* Admission.                                                              *)

\* A status that is judged active is no expired key's.
LEMMA JudgeSure ==
  ASSUME IInv, Sure, NEW c \in Calls, NEW status, Judge(c, status),
         call[c].op = "validate", call[c].pc \in {"lookup", "fill"},
         UNCHANGED <<tenant, row>>, Keeps
  PROVE  Sure'
<1>1. CallType /\ Shape(c) /\ Asked(c) /\ Checked(c)
  BY Here
<1>2. \/ /\ IsActive(call[c].key, status)
         /\ Moves(c, "resolve", call[c].part, "none", call[c].reply)
      \/ Moves(c, "done", call[c].part, "none", "refused")
  BY <1>1, JudgeMoves
<1>3. Same(c) /\ \A d \in Calls \ {c} : call'[d] = call[d]
  BY <1>2 DEF Moves, Same
<1>4. Checked(c)' /\ Founded(c)'
  BY <1>1, <1>2 DEF Moves, Checked, Founded, Asked, IsActive, Shape
<1> QED BY <1>3, <1>4, OneCall

LEMMA HitSure == ASSUME IInv, Sure, NEW c \in Calls, CacheHit(c) PROVE Sure'
BY JudgeSure DEF CacheHit, At, Keeps

LEMMA FillSure == ASSUME IInv, Sure, NEW c \in Calls, Fill(c) PROVE Sure'
BY JudgeSure DEF Fill, At, Keeps

LEMMA MissSure == ASSUME IInv, Sure, NEW c \in Calls, CacheMiss(c) PROVE Sure'
<1>1. CallType /\ Shape(c) /\ Checked(c) /\ call[c].op = "validate" /\ call[c].pc = "lookup"
  BY Here DEF CacheMiss, At
<1>2. Moves(c, "query", call[c].part, call[c].seen, call[c].reply)
  BY <1>1, GoToMoves DEF CacheMiss, Places
<1>3. Same(c) /\ Checked(c)' /\ Founded(c)' /\ \A d \in Calls \ {c} : call'[d] = call[d]
  BY <1>1, <1>2 DEF Moves, Same, Checked, Founded, Shape
<1> QED BY <1>3, OneCall DEF CacheMiss, Keeps

LEMMA QuerySure == ASSUME IInv, Sure, NEW c \in Calls, Query(c) PROVE Sure'
<1> DEFINE k == call[c].key
<1>1. /\ CallType /\ Shape(c) /\ Checked(c) /\ call[c] \in Call
      /\ call[c].op = "validate" /\ call[c].pc = "query"
  BY Here DEF Query, At
<1>2. Same(c) /\ Checked(c)' /\ Founded(c)' /\ \A d \in Calls \ {c} : call'[d] = call[d]
  <2>1. CASE Reply(c, "refused")
    <3>1. Moves(c, "done", call[c].part, "none", "refused")
      BY <1>1, <2>1, ReplyMoves DEF Replies
    <3> QED BY <1>1, <3>1 DEF Moves, Same, Checked, Founded
  <2>2. CASE Exists(k) /\ call' = [call EXCEPT ![c] = [@ EXCEPT !.pc = "fill", !.seen = row[k].status]]
    <3> DEFINE y == [call[c] EXCEPT !.pc = "fill", !.seen = row[k].status]
    <3>1. /\ y.op = call[c].op /\ y.key = k /\ y.user = call[c].user /\ y.met = call[c].met
          /\ y.barred = call[c].barred /\ y.part = call[c].part /\ y.pc = "fill"
          /\ y.reply = call[c].reply
      BY <1>1 DEF Call
    <3> HIDE DEF y
    <3>2. call'[c] = y /\ \A d \in Calls \ {c} : call'[d] = call[d]
      BY <1>1, <2>2 DEF CallType, y
    <3> QED BY <1>1, <3>1, <3>2 DEF Same, Checked, Founded, Shape
  <2> QED BY <2>1, <2>2 DEF Query
<1> QED BY <1>2, OneCall DEF Query, Keeps

\* Of two active parts the project is met first, the organization last.
LEMMA ResolveSure == ASSUME IInv, Sure, NEW c \in Calls, Resolve(c) PROVE Sure'
<1> DEFINE k == call[c].key
           p == call[c].part
           active == tenant[row[k].user][p] = "active"
<1>1. /\ CallType /\ Shape(c) /\ Asked(c) /\ Checked(c) /\ call[c] \in Call
      /\ call[c].op = "validate" /\ call[c].pc = "resolve"
      /\ UNCHANGED <<tenant, row>> /\ Keeps
  BY Here DEF Resolve, At, Keeps
<1>2. active => p \in call[c].met
  BY <1>1 DEF Asked, Shape, Call
<1>3. Same(c) /\ Checked(c)' /\ Founded(c)' /\ \A d \in Calls \ {c} : call'[d] = call[d]
  <2>1. CASE active /\ p = "prj" /\ call' = [call EXCEPT ![c].part = "org"]
    <3> DEFINE y == [call[c] EXCEPT !.part = "org"]
    <3>1. /\ y.op = call[c].op /\ y.key = k /\ y.user = call[c].user /\ y.met = call[c].met
          /\ y.barred = call[c].barred /\ y.part = "org" /\ y.pc = "resolve"
          /\ y.reply = call[c].reply
      BY <1>1 DEF Call
    <3> HIDE DEF y
    <3>2. call'[c] = y /\ \A d \in Calls \ {c} : call'[d] = call[d]
      BY <1>1, <2>1 DEF CallType, y
    <3>3. "prj" \in call[c].met
      BY <1>2, <2>1
    <3> QED BY <1>1, <3>1, <3>2, <3>3 DEF Same, Checked, Founded, Shape
  <2>2. CASE active /\ p = "org" /\ row[k].scope = "inference" /\ Reply(c, "ok")
    <3>1. Moves(c, "done", call[c].part, "none", "ok")
      BY <1>1, <2>2, ReplyMoves DEF Replies
    <3>2. call[c].met = Parts
      BY <1>1, <1>2, <2>2 DEF Checked, Call, Parts
    <3> QED BY <1>1, <2>2, <3>1, <3>2 DEF Moves, Same, Checked, Founded
  <2>3. ASSUME NEW a \in {"refused", "failed"}, Reply(c, a)
        PROVE  Same(c) /\ Checked(c)' /\ Founded(c)' /\ \A d \in Calls \ {c} : call'[d] = call[d]
    <3>1. Moves(c, "done", call[c].part, "none", a)
      BY <1>1, <2>3, ReplyMoves DEF Replies
    <3> QED BY <1>1, <3>1 DEF Moves, Same, Checked, Founded
  <2> QED BY <2>1, <2>2, <2>3 DEF Resolve
<1> QED BY <1>1, <1>3, OneCall

-----------------------------------------------------------------------------
(* Revocations, rotations and new keys.                                    *)

LEMMA Faultless == ASSUME IInv, Keeps PROVE faults' = 0 => UNCHANGED faults
BY FaultsAssumption DEF Keeps, Fault, IInv, Types

\* A revocation changes a row's status, to another that is there.
LEMMA RevokedStays ==
  ASSUME IInv, NEW k \in Keys, Exists(k), NEW by, RevokeRow(k, by)
  PROVE  RowsGrow
<1>1. row \in [Keys -> Row] /\ row[k] \in Row
  BY DEF IInv, Types
<1> DEFINE new == [row[k] EXCEPT !.status = "revoked"]
<1>2. row' = [row EXCEPT ![k] = new]
  BY DEF RevokeRow
<1>3. /\ new.status = "revoked" /\ new.user = row[k].user /\ new.scope = row[k].scope
      /\ new.left = row[k].left
  BY <1>1 DEF Row
<1> HIDE DEF new
<1>4. row'[k] = new /\ \A q \in Keys \ {k} : row'[q] = row[q]
  BY <1>1, <1>2
<1> QED BY <1>3, <1>4 DEF RowsGrow, Exists, IsExpired

LEMMA TenantsStay ==
  ASSUME Sure, UNCHANGED tenant
  PROVE  TenantsGrow /\ \A u \in Users : tenant'[u]["prj"] # "absent" => tenant'[u]["org"] # "absent"
BY DEF TenantsGrow, Sure, Rooted

LEMMA RevokeSure == ASSUME IInv, Sure, NEW k \in Keys, Revoke(k) PROVE Sure'
<1>1. RowsGrow /\ UNCHANGED <<tenant, call, faults>>
  BY RevokedStays DEF Revoke
<1> QED BY <1>1, TenantsStay, Stays

\* Nothing is asserted of a rotation.
LEMMA RotationSure ==
  ASSUME NEW c \in Calls, call[c].op = "rotate", Same(c)
  PROVE  Checked(c)' /\ Founded(c)'
BY DEF Same, Checked, Founded

LEMMA RotateLookupSure == ASSUME IInv, Sure, NEW c \in Calls, RotateLookup(c) PROVE Sure'
<1>1. /\ CallType /\ call[c].op = "rotate" /\ UNCHANGED <<tenant, row>> /\ Keeps
  BY Here DEF RotateLookup, At, Keeps
<1>2. \E pc \in {"retire", "done"}, seen \in Copy, reply \in Replies :
        Moves(c, pc, call[c].part, seen, reply)
  <2>1. CASE Reply(c, "refused")
    BY <1>1, <2>1, ReplyMoves DEF Replies, Copy
  <2>2. CASE GoTo(c, "retire")
    <3>1. call[c].seen \in Copy /\ call[c].reply \in Replies
      BY <1>1 DEF CallType, Call, Replies
    <3> QED BY <1>1, <2>2, <3>1, GoToMoves DEF Places
  <2> QED BY <2>1, <2>2 DEF RotateLookup, GoTo
<1>3. Same(c) /\ \A d \in Calls \ {c} : call'[d] = call[d]
  BY <1>2 DEF Moves, Same
<1> QED BY <1>1, <1>3, RotationSure, OneCall

LEMMA RetireSure == ASSUME IInv, Sure, NEW c \in Calls, Retire(c) PROVE Sure'
<1>1. /\ CallType /\ Shape(c) /\ call[c].op = "rotate" /\ call[c].pc = "retire"
      /\ UNCHANGED tenant /\ Keeps
  BY Here DEF Retire, At, Keeps
<1>2. Same(c) /\ \A d \in Calls \ {c} : call'[d] = call[d]
  <2>1. Moves(c, "issue", call[c].part, call[c].seen, call[c].reply)
    BY <1>1, GoToMoves DEF Retire, Places
  <2> QED BY <2>1 DEF Moves, Same
<1>3. RowsGrow
  <2>1. CASE RevokeRow(call[c].key, "rotation")
    <3>1. call[c].key \in Keys /\ Exists(call[c].key)
      BY <1>1 DEF Shape
    <3> QED BY <2>1, <3>1, RevokedStays
  <2>2. CASE UNCHANGED row
    BY <2>2 DEF RowsGrow, Exists, IsExpired
  <2> QED BY <2>1, <2>2 DEF Retire
<1> QED BY <1>1, <1>2, <1>3, Faultless, TenantsStay, RotationSure, Stays

\* A new key of a user who has a project.
LEMMA AddedStays ==
  ASSUME IInv, NEW k \in Keys, Fresh(k), NEW new, new.user \in Users,
         UNCHANGED tenant, tenant[new.user]["prj"] # "absent",
         row' = row \/ row' = [row EXCEPT ![k] = new]
  PROVE  RowsGrow
<1>1. row \in [Keys -> Row]
  BY DEF IInv, Types
<1>2. \A q \in Keys : row'[q] = row[q] \/ (q = k /\ row'[q] = new)
  BY <1>1
<1> QED BY <1>2 DEF RowsGrow, Exists, IsExpired

LEMMA CreateSure ==
  ASSUME IInv, Sure, NEW k \in Keys, NEW u \in Users, NEW grant \in Grants, Create(k, u, grant)
  PROVE  Sure'
<1> DEFINE new == [status |-> "active", user |-> u, scope |-> grant.scope,
                   left |-> IF grant.lifetime > 0 THEN grant.lifetime ELSE Forever]
<1>1. /\ Fresh(k) /\ tenant[u]["prj"] # "absent" /\ row' = [row EXCEPT ![k] = new]
      /\ UNCHANGED <<tenant, call, faults>>
  BY DEF Create
<1>2. new.user = u
  OBVIOUS
<1> HIDE DEF new
<1>3. RowsGrow
  BY <1>1, <1>2, AddedStays
<1> QED BY <1>1, <1>3, TenantsStay, Stays

\* The last step of a rotation or of a login.
LEMMA InsertKeySure ==
  ASSUME IInv, Sure, NEW c \in Calls, call[c].op \in {"rotate", "login"},
         NEW new, new.user \in Users, tenant[new.user]["prj"] # "absent", InsertKey(c, new)
  PROVE  Sure'
<1>1. PICK k \in Keys :
        /\ Fresh(k)
        /\ \/ row' = [row EXCEPT ![k] = new] /\ Reply(c, "ok") /\ UNCHANGED faults
           \/ row' \in {row, [row EXCEPT ![k] = new]} /\ Reply(c, "failed") /\ Fault
        /\ UNCHANGED tenant
  BY DEF InsertKey
<1>2. RowsGrow
  BY <1>1, AddedStays
<1>3. /\ \/ Moves(c, "done", call[c].part, "none", "ok")
         \/ Moves(c, "done", call[c].part, "none", "failed") /\ Fault
      /\ Keeps
  <2>1. CallType
    BY Here
  <2> QED BY <1>1, <2>1, ReplyMoves DEF Replies, Keeps
<1>4. Same(c) /\ \A d \in Calls \ {c} : call'[d] = call[d]
  BY <1>3 DEF Moves, Same
<1>5. Checked(c)' /\ Founded(c)'
  <2>1. Fault => faults' # 0
    BY FaultsAssumption DEF Fault, IInv, Types
  <2> QED BY <1>3, <2>1 DEF Moves, Checked, Founded
<1> QED BY <1>1, <1>2, <1>3, <1>4, <1>5, Faultless, TenantsStay, Stays

LEMMA ReissueSure == ASSUME IInv, Sure, NEW c \in Calls, Reissue(c) PROVE Sure'
<1> DEFINE old == row[call[c].key]
           new == [old EXCEPT !.status = "active", !.left = Forever]
<1>1. call[c].op = "rotate" /\ call[c].pc = "issue" /\ InsertKey(c, new)
  BY DEF Reissue, At
<1>2. call[c].key \in Keys /\ Exists(call[c].key)
  BY <1>1, Here DEF Shape
<1>3. old \in Row /\ old.user \in Users /\ tenant[old.user]["prj"] # "absent"
  BY <1>2, Here DEF IInv, Types, KeyShape, Rooted
<1> HIDE DEF old
<1>4. new.user = old.user
  BY <1>3 DEF Row
<1> QED BY <1>1, <1>3, <1>4, InsertKeySure DEF old

LEMMA IssueSure == ASSUME IInv, Sure, NEW c \in Calls, Issue(c) PROVE Sure'
<1> DEFINE new == [status |-> "active", user |-> call[c].user, left |-> Forever, scope |-> "inference"]
<1>1. call[c].op = "login" /\ call[c].pc = "issue" /\ InsertKey(c, new)
  BY DEF Issue, At
<1>2. call[c].user \in Users /\ tenant[call[c].user]["prj"] # "absent"
  BY <1>1, Here DEF Shape, Founded
<1>3. new.user = call[c].user
  OBVIOUS
<1> HIDE DEF new
<1> QED BY <1>1, <1>2, <1>3, InsertKeySure

-----------------------------------------------------------------------------
(* Logins.                                                                 *)

\* A login goes on from a part that is there by then.
LEMMA HaveSure ==
  ASSUME IInv, Sure, NEW c \in Calls, call[c].op = "login", call[c].reply = "none", Have(c),
         tenant'[call[c].user][call[c].part] # "absent",
         call[c].part = "prj" => tenant'[call[c].user]["org"] # "absent"
  PROVE  /\ Same(c) /\ \A d \in Calls \ {c} : call'[d] = call[d]
         /\ Checked(c)' /\ Founded(c)'
<1>1. CallType /\ call[c] \in Call
  BY Here
<1>2. Moves(c, IF call[c].part = "org" THEN "get" ELSE "issue", "prj", call[c].seen, call[c].reply)
  BY <1>1, HaveMoves
<1>3. call[c].part \in {"org", "prj"}
  BY <1>1 DEF Call, Parts
<1> QED BY <1>2, <1>3 DEF Moves, Same, Checked, Founded

\* A login goes on with the same part.
LEMMA LoginGoesOn ==
  ASSUME IInv, Sure, NEW c \in Calls, call[c].op = "login", call[c].pc # "done",
         NEW pc \in {"insert", "refetch"}, GoTo(c, pc), TenantsGrow,
         pc = "refetch" /\ faults' = 0 => tenant'[call[c].user][call[c].part] # "absent"
  PROVE  /\ Same(c) /\ \A d \in Calls \ {c} : call'[d] = call[d]
         /\ Checked(c)' /\ Founded(c)'
<1>1. CallType /\ call[c] \in Call /\ Shape(c) /\ Founded(c)
  BY Here
<1>2. Moves(c, pc, call[c].part, call[c].seen, call[c].reply)
  BY <1>1, GoToMoves DEF Places
<1>3. tenant[call[c].user]["org"] # "absent" => tenant'[call[c].user]["org"] # "absent"
  BY <1>1 DEF TenantsGrow, Parts, Shape
<1> QED BY <1>1, <1>2, <1>3 DEF Moves, Same, Checked, Founded, Shape

LEMMA GetSure == ASSUME IInv, Sure, NEW c \in Calls, Get(c) PROVE Sure'
<1>1. /\ CallType /\ Shape(c) /\ Founded(c) /\ call[c].op = "login" /\ call[c].pc = "get"
      /\ UNCHANGED <<tenant, row>> /\ Keeps /\ call[c].reply = "none"
  BY Here DEF Get, At, Keeps, Shape
<1>2. TenantsGrow
  BY <1>1, TenantsStay
<1>3. Same(c) /\ Checked(c)' /\ Founded(c)' /\ \A d \in Calls \ {c} : call'[d] = call[d]
  <2>1. CASE Present(c) /\ Have(c)
    BY <1>1, <2>1, HaveSure DEF Present, Founded
  <2>2. CASE GoTo(c, "insert")
    BY <1>1, <1>2, <2>2, LoginGoesOn
  <2> QED BY <2>1, <2>2 DEF Get
<1> QED BY <1>1, <1>3, OneCall

\* Either the part was there, or this login has made it, or a statement failed.
LEMMA InsertSure == ASSUME IInv, Sure, NEW c \in Calls, Insert(c) PROVE Sure'
<1> DEFINE u == call[c].user
           p == call[c].part
<1>1. /\ CallType /\ TenantType /\ Shape(c) /\ Founded(c) /\ call[c] \in Call /\ Rooted
      /\ call[c].op = "login" /\ call[c].pc = "insert" /\ call[c].reply = "none"
      /\ UNCHANGED row /\ Keeps
  BY Here DEF Insert, At, Keeps, Shape
<1>2. u \in Users /\ p \in Parts
  BY <1>1 DEF Shape, Call
<1>3. /\ Inserted(c)[u][p] = "active"
      /\ \A v \in Users, q \in Parts :
           v # u \/ q # p => Inserted(c)[v][q] = tenant[v][q]
  BY <1>1, <1>2 DEF Inserted, TenantType
<1>4. tenant' = tenant \/ (~Present(c) /\ tenant' = Inserted(c))
  BY DEF Insert
<1>5. \A v \in Users, q \in Parts :
        \/ tenant'[v][q] = tenant[v][q]
        \/ v = u /\ q = p /\ tenant[v][q] = "absent" /\ tenant'[v][q] = "active"
  BY <1>3, <1>4 DEF Present
<1>6. TenantsGrow /\ RowsGrow
  BY <1>1, <1>5 DEF TenantsGrow, RowsGrow, Exists, IsExpired
<1>7. p = "prj" => tenant[u]["org"] # "absent" /\ tenant'[u]["org"] # "absent"
  BY <1>1, <1>2, <1>6 DEF Founded, TenantsGrow, Parts
<1>8. \A v \in Users : tenant'[v]["prj"] # "absent" => tenant'[v]["org"] # "absent"
  <2> SUFFICES ASSUME NEW v \in Users, tenant'[v]["prj"] # "absent"
               PROVE  tenant'[v]["org"] # "absent"
    OBVIOUS
  <2>1. CASE v = u /\ p = "prj"
    BY <1>7, <2>1
  <2>2. CASE ~(v = u /\ p = "prj")
    <3>1. tenant[v]["prj"] # "absent"
      BY <1>5, <2>2 DEF Parts
    <3> QED BY <1>1, <1>6, <3>1 DEF Rooted, TenantsGrow, Parts
  <2> QED BY <2>1, <2>2
<1>9. Same(c) /\ Checked(c)' /\ Founded(c)' /\ \A d \in Calls \ {c} : call'[d] = call[d]
  <2>1. CASE tenant' = Inserted(c) /\ Have(c)
    BY <1>1, <1>3, <1>7, <2>1, HaveSure
  <2>2. CASE Present(c) /\ GoTo(c, "refetch") /\ UNCHANGED <<tenant, faults>>
    BY <1>1, <1>6, <2>2, LoginGoesOn DEF Present
  <2>3. CASE GoTo(c, "refetch") /\ Fault
    <3>1. faults' # 0
      BY <2>3, FaultsAssumption DEF Fault, IInv, Types
    <3> QED BY <1>1, <1>6, <2>3, <3>1, LoginGoesOn
  <2> QED BY <2>1, <2>2, <2>3 DEF Insert
<1> QED BY <1>1, <1>6, <1>8, <1>9, Faultless, Stays

\* Without a failed statement the part is there, and the login goes on.
LEMMA RefetchSure == ASSUME IInv, Sure, NEW c \in Calls, Refetch(c) PROVE Sure'
<1>1. /\ CallType /\ Shape(c) /\ Founded(c) /\ call[c].op = "login" /\ call[c].pc = "refetch"
      /\ UNCHANGED <<tenant, row>> /\ Keeps /\ call[c].reply = "none"
  BY Here DEF Refetch, At, Keeps, Shape
<1>2. Same(c) /\ Checked(c)' /\ Founded(c)' /\ \A d \in Calls \ {c} : call'[d] = call[d]
  <2>1. CASE Present(c) /\ Have(c)
    BY <1>1, <2>1, HaveSure DEF Present, Founded
  <2>2. CASE Reply(c, "failed") /\ ((~Present(c) /\ UNCHANGED faults) \/ Fault)
    <3>1. faults' # 0
      BY <1>1, <2>2, FaultsAssumption DEF Founded, Present, Fault, IInv, Types
    <3>2. Moves(c, "done", call[c].part, "none", "failed")
      BY <1>1, <2>2, ReplyMoves DEF Replies
    <3> QED BY <1>1, <3>1, <3>2 DEF Moves, Same, Checked, Founded
  <2> QED BY <2>1, <2>2 DEF Refetch
<1> QED BY <1>1, <1>2, OneCall

-----------------------------------------------------------------------------
(* Operators and time.                                                     *)

\* A part that becomes active is met by every request of its tenant's keys.
LEMMA SetStatusSure ==
  ASSUME IInv, Sure, NEW u \in Users, NEW p \in Parts, NEW status \in {"active", "inactive"},
         SetStatus(u, p, status)
  PROVE  Sure'
<1>1. UNCHANGED <<row, faults>> /\ tenant[u][p] # "absent" /\ TenantType
  BY Now DEF SetStatus, IInv, Types, TenantType
<1>2. /\ tenant'[u][p] = status
      /\ \A v \in Users, q \in Parts : v # u \/ q # p => tenant'[v][q] = tenant[v][q]
  BY <1>1 DEF SetStatus, TenantType
<1>3. \A v \in Users, q \in Parts : tenant[v][q] # "absent" <=> tenant'[v][q] # "absent"
  BY <1>1, <1>2
<1>4. Rooted'
  <2> SUFFICES ASSUME NEW k \in Keys, Exists(k) PROVE tenant'[row[k].user]["prj"] # "absent"
    BY <1>1, <1>3 DEF Sure, Rooted, Parts, Exists
  <2>1. row[k].user \in Users
    BY DEF IInv, KeyShape
  <2> QED BY <1>3, <2>1 DEF Sure, Rooted, Parts
<1>5. ASSUME NEW c \in Calls PROVE Asked(c)' /\ Checked(c)' /\ Founded(c)'
  <2>1. /\ CallType /\ Shape(c) /\ call[c] \in Call
        /\ Asked(c) /\ Checked(c) /\ Founded(c)
    BY Here
  <2> DEFINE k == call[c].key
             meets == status = "active" /\ call[c].op = "validate" /\ Exists(k) /\ row[k].user = u
  <2>2. /\ call'[c].op = call[c].op /\ call'[c].pc = call[c].pc /\ call'[c].key = call[c].key
        /\ call'[c].user = call[c].user /\ call'[c].part = call[c].part
        /\ call'[c].barred = call[c].barred /\ call'[c].reply = call[c].reply
        /\ call[c].met \subseteq call'[c].met /\ call'[c].met \subseteq Parts
        /\ meets => p \in call'[c].met
    <3>1. call'[c] = IF meets THEN [call[c] EXCEPT !.met = call[c].met \cup {p}] ELSE call[c]
      BY DEF SetStatus
    <3> QED BY <2>1, <3>1 DEF Call
  <2>3. Asked(c)'
    <3> SUFFICES ASSUME call[c].op = "validate", Exists(k), NEW q \in Parts,
                        tenant'[row[k].user][q] = "active"
                 PROVE  q \in call'[c].met
      BY <1>1, <2>1, <2>2 DEF Asked, Exists, IsExpired
    <3>1. row[k].user \in Users
      BY <2>1 DEF Shape, IInv, KeyShape
    <3>2. CASE row[k].user = u /\ q = p
      BY <1>2, <2>2, <3>2
    <3>3. CASE ~(row[k].user = u /\ q = p)
      BY <1>2, <2>1, <2>2, <3>1, <3>3 DEF Asked
    <3> QED BY <3>2, <3>3
  <2>4. Checked(c)'
    BY <1>1, <2>1, <2>2 DEF Checked
  <2>5. Founded(c)'
    <3> SUFFICES ASSUME call[c].op = "login" PROVE Founded(c)'
      BY <2>2 DEF Founded
    <3>1. call[c].user \in Users /\ call[c].part \in Parts
      BY <2>1 DEF Shape, Call
    <3> QED BY <1>1, <1>3, <2>1, <2>2, <3>1 DEF Founded, Parts
  <2> QED BY <2>3, <2>4, <2>5
<1> QED BY <1>4, <1>5 DEF Sure

LEMMA TickSure == ASSUME IInv, Sure, Tick PROVE Sure'
<1>1. UNCHANGED <<tenant, call, faults>>
  BY DEF Tick
<1>2. RowsGrow
  <2> SUFFICES ASSUME NEW k \in Keys
               PROVE  /\ row'[k].status = row[k].status /\ row'[k].user = row[k].user
                      /\ row'[k].scope = row[k].scope /\ (row[k].left = 0 => row'[k].left = 0)
    BY DEF RowsGrow, Exists, IsExpired
  <2>1. row[k] \in Row /\ row'[k] = [row[k] EXCEPT !.left = Ticked(row[k].left)]
    BY DEF Tick, IInv, Types
  <2>2. row[k].left = 0 => Ticked(row[k].left) = 0
    BY DEF Ticked
  <2> QED BY <2>1, <2>2 DEF Row
<1> QED BY <1>1, <1>2, TenantsStay, Stays

-----------------------------------------------------------------------------
(* The invariant holds, and what follows. *)

LEMMA InitSure == Init => Sure
<1> SUFFICES ASSUME Init PROVE Sure
  OBVIOUS
<1>1. /\ \A k \in Keys : ~Exists(k)
      /\ \A c \in Calls : call[c].op = "none"
  BY DEF Init, Absent, IdleCall, Exists
<1>2. \A u \in Users : tenant[u]["prj"] # "absent" => tenant[u]["org"] # "absent"
  BY DEF Init, Parts
<1> QED BY <1>1, <1>2 DEF Sure, Rooted, Asked, Checked, Founded

LEMMA NextSure == IInv /\ Sure /\ [Next]_vars => Sure'
<1> SUFFICES ASSUME IInv, Sure, [Next]_vars PROVE Sure'
  OBVIOUS
<1>1. CASE Tick
  BY <1>1, TickSure
<1>2. ASSUME NEW k \in Keys, Revoke(k) PROVE Sure'
  BY <1>2, RevokeSure
<1>3. ASSUME NEW k \in Keys, NEW u \in Users, NEW grant \in Grants, Create(k, u, grant) PROVE Sure'
  BY <1>3, CreateSure
<1>4. ASSUME NEW u \in Users, NEW p \in Parts, NEW status \in {"active", "inactive"},
             SetStatus(u, p, status)
      PROVE  Sure'
  BY <1>4, SetStatusSure
<1>5. ASSUME NEW c \in Calls, NEW k \in Keys, BeginChat(c, k) \/ BeginRotate(c, k) PROVE Sure'
  BY <1>5, BeginChatSure, BeginRotateSure
<1>6. ASSUME NEW c \in Calls, NEW u \in Users, BeginLogin(c, u) PROVE Sure'
  BY <1>6, BeginLoginSure
<1>7. ASSUME NEW c \in Calls, Admit(c) PROVE Sure'
  BY <1>7, HitSure, MissSure, QuerySure, FillSure, ResolveSure DEF Admit, Validate
<1>8. ASSUME NEW c \in Calls, Rotate(c) PROVE Sure'
  BY <1>8, RotateLookupSure, RetireSure, ReissueSure DEF Rotate
<1>9. ASSUME NEW c \in Calls, Login(c) PROVE Sure'
  BY <1>9, GetSure, InsertSure, RefetchSure, IssueSure DEF Login
<1>10. CASE UNCHANGED vars
  <2>1. UNCHANGED <<tenant, row, call, faults>>
    BY <1>10 DEF vars
  <2>2. RowsGrow
    BY <2>1 DEF RowsGrow, Exists, IsExpired
  <2> QED BY <2>1, <2>2, TenantsStay, Stays
<1> QED BY <1>1, <1>2, <1>3, <1>4, <1>5, <1>6, <1>7, <1>8, <1>9, <1>10 DEF Next

LEMMA SureAlways == Spec => []Sure
BY Invariance, InitSure, NextSure, PTL DEF Spec

\* Validate, Resolve and HasScope: whoever is admitted has a key with the
\* scope, which had not expired when the request came in, and a project and
\* an organization that were each active during the request.
THEOREM AdmissionJustified == Spec => []AdmissionIsJustified
<1>1. Sure => AdmissionIsJustified
  <2> SUFFICES ASSUME Sure, NEW c \in Calls, Admitted(c)
               PROVE  /\ row[call[c].key].scope = "inference"
                      /\ "expired" \notin call[c].barred
                      /\ call[c].met = Parts
    BY DEF AdmissionIsJustified
  <2> QED BY DEF Sure, Checked, Admitted
<1> QED BY <1>1, SureAlways, PTL

\* POST /v1/auth/cli-key: without a failed statement no login fails, whatever
\* other logins of the same user create at the same time.
THEOREM LoginsSucceed == Spec => []LoginsDoNotCollide
<1>1. Sure => LoginsDoNotCollide
  BY DEF Sure, Founded, LoginsDoNotCollide
<1> QED BY <1>1, SureAlways, PTL

-----------------------------------------------------------------------------
(* What no step undoes.                                                    *)

\* What becomes of key k: once its row is there it keeps its owner and its
\* scope, and never leaves the states revoked, expired and, when its grace is
\* over, Retired.  A new row is active and its key is one nobody has tried.
KeyLasts(k) ==
  \/ /\ Exists(k) /\ Exists(k)'
     /\ row'[k].user = row[k].user /\ row'[k].scope = row[k].scope
     /\ row[k].status = "revoked" => row'[k].status = "revoked"
     /\ IsExpired(k) => IsExpired(k)'
     /\ Retired(k) => Retired(k)'
  \/ Fresh(k) /\ row'[k].status = "active" /\ row'[k].user \in Users
  \/ ~Exists(k) /\ ~Exists(k)'

KeysLast ==
  /\ \A k \in Keys : KeyLasts(k)
  /\ \A u \in Users, p \in Parts : tenant[u][p] # "absent" => tenant'[u][p] # "absent"

\* A key that a step does not touch.
LEMMA UntouchedLasts ==
  ASSUME NEW k \in Keys, row'[k] = row[k], revoked'[k] = revoked[k]
  PROVE  KeyLasts(k)
BY DEF KeyLasts, Exists, IsExpired, Retired

LEMMA UntouchedLast ==
  ASSUME UNCHANGED <<row, revoked>>,
         \A u \in Users, p \in Parts : tenant[u][p] # "absent" => tenant'[u][p] # "absent"
  PROVE  KeysLast
BY UntouchedLasts DEF KeysLast

\* Revoking a revoked key again does not start its grace anew.
LEMMA RevokedLasts ==
  ASSUME IInv, NEW k \in Keys, Exists(k), NEW by \in {"admin", "rotation"}, RevokeRow(k, by),
         UNCHANGED tenant
  PROVE  KeysLast
<1>1. /\ \A q \in Keys : q # k => row'[q] = row[q] /\ revoked'[q] = revoked[q]
      /\ row'[k].status = "revoked"
      /\ \/ row[k].status = "revoked" /\ revoked'[k] = revoked[k]
         \/ row[k].status = "active"
  BY RevokedRow
<1>2. KeyLasts(k)
  <2>1. row' = [row EXCEPT ![k] = [row[k] EXCEPT !.status = "revoked"]] /\ row[k] \in Row
    BY DEF RevokeRow, IInv, Types
  <2>2. row'[k].user = row[k].user /\ row'[k].scope = row[k].scope /\ row'[k].left = row[k].left
    BY <2>1 DEF Row, IInv, Types
  <2> QED BY <1>1, <2>2 DEF KeyLasts, Exists, IsExpired, Retired
<1> QED BY <1>1, <1>2, UntouchedLasts DEF KeysLast

\* A row is inserted under a fresh key only.
LEMMA InsertedLasts ==
  ASSUME IInv, NEW k \in Keys, Fresh(k), NEW new, new.status = "active", new.user \in Users,
         row' = row \/ row' = [row EXCEPT ![k] = new], UNCHANGED <<tenant, revoked>>
  PROVE  KeysLast
<1>1. row \in [Keys -> Row]
  BY DEF IInv, Types
<1>2. \A q \in Keys : row'[q] = row[q] \/ (q = k /\ row'[q] = new)
  BY <1>1
<1>3. ASSUME NEW q \in Keys PROVE KeyLasts(q)
  BY <1>2, UntouchedLasts DEF KeyLasts
<1> QED BY <1>3 DEF KeysLast

LEMMA IssuedLasts ==
  ASSUME IInv, NEW c \in Calls, NEW new, new.status = "active", new.user \in Users,
         InsertKey(c, new)
  PROVE  KeysLast
BY InsertedLasts DEF InsertKey

LEMMA TickLasts == ASSUME IInv, Tick PROVE KeysLast
<1>1. ASSUME NEW k \in Keys PROVE KeyLasts(k)
  <2>1. /\ row[k] \in Row /\ row'[k] = [row[k] EXCEPT !.left = Ticked(row[k].left)]
        /\ revoked[k] \in [by : {"nobody", "admin", "rotation"}, left : Nat, fills : SUBSET Calls]
        /\ revoked'[k] = [revoked[k] EXCEPT !.left = Ticked(revoked[k].left)]
    BY DEF Tick, IInv, Types, RevokedType
  <2>2. Ticked(0) = 0
    BY DEF Ticked
  <2>3. /\ row'[k].status = row[k].status /\ row'[k].user = row[k].user
        /\ row'[k].scope = row[k].scope /\ (row[k].left = 0 => row'[k].left = 0)
    BY <2>1, <2>2 DEF Row
  <2>4. revoked'[k].fills = revoked[k].fills /\ (revoked[k].left = 0 => revoked'[k].left = 0)
    BY <2>1, <2>2
  <2> QED BY <2>3, <2>4 DEF KeyLasts, Exists, IsExpired, Retired
<1> QED BY <1>1 DEF KeysLast, Tick

\* A login's Create adds a row to a tenant, an operator changes one's status.
LEMMA TenantsLast ==
  ASSUME IInv, (\E c \in Calls : Login(c)) \/
               (\E u \in Users, p \in Parts, status \in {"active", "inactive"} : SetStatus(u, p, status))
  PROVE  \A u \in Users, p \in Parts : tenant[u][p] # "absent" => tenant'[u][p] # "absent"
<1>1. tenant \in [Users -> [Parts -> {"absent", "active", "inactive"}]]
  BY DEF IInv, Types
<1>2. ASSUME NEW c \in Calls, tenant' = Inserted(c)
      PROVE  \A u \in Users, p \in Parts : tenant[u][p] # "absent" => tenant'[u][p] # "absent"
  BY <1>1, <1>2 DEF Inserted
<1>3. ASSUME NEW c \in Calls, Login(c)
      PROVE  tenant' = tenant \/ tenant' = Inserted(c)
  BY <1>3 DEF Login, Get, Insert, Refetch, Issue, InsertKey
<1>4. ASSUME NEW u \in Users, NEW p \in Parts, NEW status \in {"active", "inactive"},
             SetStatus(u, p, status)
      PROVE  \A v \in Users, q \in Parts : tenant[v][q] # "absent" => tenant'[v][q] # "absent"
  BY <1>1, <1>4 DEF SetStatus
<1> QED BY <1>2, <1>3, <1>4

\* Over every step of the tables and the handlers: a key that was revoked or
\* has expired never works again, the grace of a revocation is not renewed by
\* revoking or rotating the key once more, a key never changes hands or
\* scope, a new key is one nobody has tried, and no row is ever removed.
\* With RevocationHolds this bounds for good what a revoked key can do.
THEOREM RevocationIsFinal == Spec => [][KeysLast]_vars
<1>1. ASSUME IInv, Next PROVE KeysLast
  <2>1. CASE Tick
    BY <1>1, <2>1, TickLasts
  <2>2. ASSUME NEW k \in Keys, Revoke(k) PROVE KeysLast
    BY <1>1, <2>2, RevokedLasts DEF Revoke
  <2>3. ASSUME NEW k \in Keys, NEW u \in Users, NEW grant \in Grants, Create(k, u, grant)
        PROVE  KeysLast
    <3> DEFINE new == [status |-> "active", user |-> u, scope |-> grant.scope,
                       left |-> IF grant.lifetime > 0 THEN grant.lifetime ELSE Forever]
    <3>1. Fresh(k) /\ row' = [row EXCEPT ![k] = new] /\ UNCHANGED <<tenant, revoked>>
      BY <2>3 DEF Create
    <3>2. new.status = "active" /\ new.user = u
      OBVIOUS
    <3> HIDE DEF new
    <3> QED BY <1>1, <3>1, <3>2, InsertedLasts
  <2>4. ASSUME NEW u \in Users, NEW p \in Parts, NEW status \in {"active", "inactive"},
               SetStatus(u, p, status)
        PROVE  KeysLast
    <3>1. UNCHANGED <<row, revoked>>
      BY <2>4 DEF SetStatus
    <3> QED BY <1>1, <2>4, <3>1, TenantsLast, UntouchedLast
  <2>5. ASSUME NEW c \in Calls, NEW k \in Keys, BeginChat(c, k) \/ BeginRotate(c, k) PROVE KeysLast
    BY <2>5, UntouchedLast DEF BeginChat, BeginRotate
  <2>6. ASSUME NEW c \in Calls, NEW u \in Users, BeginLogin(c, u) PROVE KeysLast
    BY <2>6, UntouchedLast DEF BeginLogin
  <2>7. ASSUME NEW c \in Calls, Admit(c) PROVE KeysLast
    <3>1. UNCHANGED <<tenant, row, revoked>>
      BY <2>7 DEF Admit, Validate, CacheHit, CacheMiss, Query, Fill, Resolve
    <3> QED BY <3>1, UntouchedLast
  <2>8. ASSUME NEW c \in Calls, RotateLookup(c) PROVE KeysLast
    BY <2>8, UntouchedLast DEF RotateLookup
  <2>9. ASSUME NEW c \in Calls, Retire(c) PROVE KeysLast
    <3>1. UNCHANGED tenant /\ call[c].op = "rotate" /\ call[c].pc = "retire"
      BY <2>9 DEF Retire, At
    <3>2. call[c].key \in Keys /\ Exists(call[c].key)
      BY <1>1, <3>1, Now DEF Shape
    <3>3. CASE RevokeRow(call[c].key, "rotation")
      BY <1>1, <3>1, <3>2, <3>3, RevokedLasts
    <3>4. CASE UNCHANGED <<row, revoked>>
      BY <3>1, <3>4, UntouchedLast
    <3> QED BY <2>9, <3>3, <3>4 DEF Retire
  <2>10. ASSUME NEW c \in Calls, Reissue(c) PROVE KeysLast
    <3> DEFINE old == row[call[c].key]
               new == [old EXCEPT !.status = "active", !.left = Forever]
    <3>1. call[c].op = "rotate" /\ call[c].pc = "issue" /\ InsertKey(c, new)
      BY <2>10 DEF Reissue, At
    <3>2. call[c].key \in Keys /\ Exists(call[c].key)
      BY <1>1, <3>1, Now DEF Shape
    <3>3. old \in Row /\ old.user \in Users
      BY <1>1, <3>2 DEF IInv, Types, KeyShape
    <3> HIDE DEF old
    <3>4. new.status = "active" /\ new.user = old.user
      BY <3>3 DEF Row
    <3> HIDE DEF new
    <3> QED BY <1>1, <3>1, <3>3, <3>4, IssuedLasts
  <2>11. ASSUME NEW c \in Calls, Login(c) PROVE KeysLast
    <3>1. CASE Issue(c)
      <4> DEFINE new == [status |-> "active", user |-> call[c].user,
                         left |-> Forever, scope |-> "inference"]
      <4>1. InsertKey(c, new) /\ call[c].op = "login"
        BY <3>1 DEF Issue, At
      <4>2. new.status = "active" /\ new.user = call[c].user
        OBVIOUS
      <4>3. call[c].user \in Users
        BY <1>1, <4>1, Now DEF Shape
      <4> HIDE DEF new
      <4> QED BY <1>1, <4>1, <4>2, <4>3, IssuedLasts
    <3>2. CASE Get(c) \/ Insert(c) \/ Refetch(c)
      <4>1. UNCHANGED <<row, revoked>>
        BY <3>2 DEF Get, Insert, Refetch
      <4> QED BY <1>1, <2>11, <4>1, TenantsLast, UntouchedLast
    <3> QED BY <2>11, <3>1, <3>2 DEF Login
  <2> QED BY <1>1, <2>1, <2>2, <2>3, <2>4, <2>5, <2>6, <2>7, <2>8, <2>9, <2>10, <2>11 DEF Next, Rotate
<1> QED BY <1>1, Invariance, PTL DEF Spec

-----------------------------------------------------------------------------
(* Calls come to an end.                                                   *)

\* The statements and commands a call has ahead of it at most: a login looks
\* for, inserts and looks again for two parts before it issues a key.
Ahead(pc, part) ==
  CASE pc = "idle"    -> 8
    [] pc = "get"     -> IF part = "org" THEN 7 ELSE 4
    [] pc = "insert"  -> IF part = "org" THEN 6 ELSE 3
    [] pc = "refetch" -> IF part = "org" THEN 5 ELSE 2
    [] pc = "lookup"  -> 5
    [] pc = "query"   -> 4
    [] pc = "fill"    -> 3
    [] pc = "resolve" -> IF part = "org" THEN 1 ELSE 2
    [] pc = "retire"  -> 2
    [] pc = "issue"   -> 1
    [] pc = "done"    -> 0

LEMMA AheadOf ==
  \A part \in Parts :
    /\ Ahead("idle", part) = 8
    /\ Ahead("get", part) = IF part = "org" THEN 7 ELSE 4
    /\ Ahead("insert", part) = IF part = "org" THEN 6 ELSE 3
    /\ Ahead("refetch", part) = IF part = "org" THEN 5 ELSE 2
    /\ Ahead("lookup", part) = 5
    /\ Ahead("query", part) = 4
    /\ Ahead("fill", part) = 3
    /\ Ahead("resolve", part) = IF part = "org" THEN 1 ELSE 2
    /\ Ahead("retire", part) = 2
    /\ Ahead("issue", part) = 1
    /\ Ahead("done", part) = 0
BY DEF Ahead

LEMMA AheadType == \A pc \in Places, part \in Parts : Ahead(pc, part) \in 0 .. 8
BY AheadOf DEF Places, Parts

\* What a call was asked.
Task(c) == <<call[c].op, call[c].key, call[c].user>>

\* Call c has one statement less ahead; what it was asked for is settled when
\* it comes in, and what it answers when it ends.
GoesOn(c) ==
  /\ Ahead(call'[c].pc, call'[c].part) < Ahead(call[c].pc, call[c].part)
  /\ call[c].pc # "idle" => UNCHANGED Task(c)
  /\ call'[c].reply # "none" <=> call'[c].pc = "done"

Rests(c) ==
  /\ UNCHANGED Task(c)
  /\ call'[c].pc = call[c].pc /\ call'[c].part = call[c].part
  /\ call'[c].seen = call[c].seen /\ call'[c].reply = call[c].reply

CallsGoForward == \A c \in Calls : Rests(c) \/ GoesOn(c)

LEMMA Resting == ASSUME NEW c \in Calls, call'[c] = call[c] PROVE Rests(c)
BY DEF Rests, Task

LEMMA NobodyMoves == ASSUME UNCHANGED call PROVE CallsGoForward
BY Resting DEF CallsGoForward

\* A call that moves to an earlier rank, alone.
LEMMA MovesOn ==
  ASSUME NEW c \in Calls, NEW pc, NEW part, NEW seen, NEW reply, Moves(c, pc, part, seen, reply),
         Ahead(pc, part) < Ahead(call[c].pc, call[c].part),
         reply # "none" <=> pc = "done"
  PROVE  CallsGoForward
<1>1. ASSUME NEW d \in Calls, d # c PROVE Rests(d)
  BY <1>1, Resting DEF Moves
<1>2. GoesOn(c)
  BY DEF Moves, GoesOn, Task
<1> QED BY <1>1, <1>2 DEF CallsGoForward

LEMMA RepliesOn ==
  ASSUME CallType, NEW c \in Calls, call[c].pc \in Places \ {"done"},
         NEW a \in {"ok", "refused", "failed"}, Reply(c, a)
  PROVE  CallsGoForward
<1>1. call[c].part \in Parts
  BY DEF CallType, Call
<1>2. Moves(c, "done", call[c].part, "none", a)
  BY ReplyMoves DEF Replies
<1>3. Ahead("done", call[c].part) < Ahead(call[c].pc, call[c].part)
  BY <1>1, AheadOf DEF Places, Parts
<1> QED BY <1>2, <1>3, MovesOn

\* Steps of handlers that go to another place.
LEMMA GoesToOn ==
  ASSUME CallType, NEW c \in Calls, NEW pc \in Places \ {"done"}, GoTo(c, pc),
         call[c].reply = "none",
         \A part \in Parts : Ahead(pc, part) < Ahead(call[c].pc, part)
  PROVE  CallsGoForward
<1>1. call[c].part \in Parts
  BY DEF CallType, Call
<1>2. Moves(c, pc, call[c].part, call[c].seen, call[c].reply)
  BY GoToMoves
<1> QED BY <1>1, <1>2, MovesOn

LEMMA JudgesOn ==
  ASSUME CallType, NEW c \in Calls, NEW status, Judge(c, status), Shape(c),
         call[c].op = "validate", call[c].pc \in {"lookup", "fill"}
  PROVE  CallsGoForward
<1>1. call[c].part \in Parts /\ call[c].reply = "none"
  BY DEF CallType, Call, Shape
<1>2. \A part \in Parts : /\ Ahead("resolve", part) < Ahead(call[c].pc, part)
                          /\ Ahead("done", part) < Ahead(call[c].pc, part)
  BY AheadOf DEF Parts
<1>3. \/ Moves(c, "resolve", call[c].part, "none", call[c].reply)
      \/ Moves(c, "done", call[c].part, "none", "refused")
  BY JudgeMoves
<1> QED BY <1>1, <1>2, <1>3, MovesOn

LEMMA HavesOn ==
  ASSUME CallType, NEW c \in Calls, Have(c), call[c].reply = "none",
         call[c].pc \in {"get", "insert", "refetch"}
  PROVE  CallsGoForward
<1>1. call[c].part \in {"org", "prj"} /\ "org" \in Parts /\ "prj" \in Parts
  BY DEF CallType, Call, Parts
<1> DEFINE pc == IF call[c].part = "org" THEN "get" ELSE "issue"
<1>2. Moves(c, pc, "prj", call[c].seen, call[c].reply)
  BY HaveMoves
<1>3. Ahead(pc, "prj") < Ahead(call[c].pc, call[c].part)
  <2>1. CASE call[c].part = "org"
    BY <1>1, <2>1, AheadOf
  <2>2. CASE call[c].part = "prj"
    BY <1>1, <2>2, AheadOf
  <2> QED BY <1>1, <2>1, <2>2
<1>4. pc # "done"
  OBVIOUS
<1> HIDE DEF pc
<1> QED BY <1>2, <1>3, <1>4, MovesOn

\* A call that comes in.
LEMMA BeginsOn ==
  ASSUME CallType, NEW c \in Calls, call[c].pc = "idle", NEW y, call' = [call EXCEPT ![c] = y],
         y.pc \in {"lookup", "get"}, y.part \in Parts, y.reply = "none"
  PROVE  CallsGoForward
<1>1. call'[c] = y /\ \A d \in Calls \ {c} : call'[d] = call[d]
  BY DEF CallType
<1>2. Ahead(y.pc, y.part) < Ahead(call[c].pc, call[c].part)
  <2>1. call[c].part \in Parts
    BY DEF CallType, Call
  <2> QED BY <2>1, AheadOf
<1>3. GoesOn(c)
  BY <1>1, <1>2 DEF GoesOn
<1> QED BY <1>1, <1>3, Resting DEF CallsGoForward

\* Over every step of a handler: it goes to a statement further on and never
\* back, at most eight in all, keeps to the key or the user it was called
\* for, and answers once, with its last step.  No conflict with another login
\* makes it start again.
THEOREM CallsAdvance == Spec => [][CallsGoForward]_vars
<1>1. ASSUME IInv, NEW c \in Calls, Admit(c) PROVE CallsGoForward
  <2>1. CallType /\ Shape(c) /\ call[c] \in Call
    BY <1>1, Now DEF CallType
  <2>2. CASE CacheHit(c) \/ Fill(c)
    BY <2>1, <2>2, JudgesOn DEF CacheHit, Fill, At
  <2>3. CASE CacheMiss(c)
    <3>1. GoTo(c, "query") /\ call[c].pc = "lookup" /\ call[c].reply = "none"
      BY <2>1, <2>3 DEF CacheMiss, At, Shape
    <3>2. \A part \in Parts : Ahead("query", part) < Ahead("lookup", part)
      BY AheadOf
    <3> QED BY <2>1, <3>1, <3>2, GoesToOn DEF Places
  <2>4. CASE Query(c)
    <3>1. call[c].pc = "query" /\ call[c].reply = "none" /\ call[c].part \in Parts
      BY <2>1, <2>4 DEF Query, At, Shape, Call
    <3>2. CASE Reply(c, "refused")
      BY <2>1, <3>1, <3>2, RepliesOn DEF Places
    <3>3. CASE call' = [call EXCEPT ![c] = [@ EXCEPT !.pc = "fill", !.seen = row[call[c].key].status]]
      <4> DEFINE y == [call[c] EXCEPT !.pc = "fill", !.seen = row[call[c].key].status]
      <4>1. /\ y.op = call[c].op /\ y.key = call[c].key /\ y.user = call[c].user
            /\ y.part = call[c].part /\ y.pc = "fill" /\ y.reply = call[c].reply
        BY <2>1 DEF Call
      <4>2. call' = [call EXCEPT ![c] = y]
        BY <3>3
      <4> HIDE DEF y
      <4>3. call'[c] = y /\ \A d \in Calls \ {c} : call'[d] = call[d]
        BY <2>1, <4>2 DEF CallType
      <4>4. Ahead("fill", call[c].part) < Ahead("query", call[c].part)
        BY <3>1, AheadOf
      <4>5. GoesOn(c)
        BY <3>1, <4>1, <4>3, <4>4 DEF GoesOn, Task
      <4> QED BY <4>3, <4>5, Resting DEF CallsGoForward
    <3> QED BY <2>4, <3>2, <3>3 DEF Query
  <2>5. CASE Resolve(c)
    <3>1. call[c].pc = "resolve" /\ call[c].reply = "none" /\ call[c].part \in Parts
      BY <2>1, <2>5 DEF Resolve, At, Shape, Call
    <3>2. ASSUME NEW a \in {"ok", "refused", "failed"}, Reply(c, a) PROVE CallsGoForward
      BY <2>1, <3>1, <3>2, RepliesOn DEF Places
    <3>3. CASE call[c].part = "prj" /\ call' = [call EXCEPT ![c].part = "org"]
      <4> DEFINE y == [call[c] EXCEPT !.part = "org"]
      <4>1. /\ y.op = call[c].op /\ y.key = call[c].key /\ y.user = call[c].user
            /\ y.part = "org" /\ y.pc = "resolve" /\ y.reply = call[c].reply
        BY <2>1, <3>1 DEF Call
      <4>2. call' = [call EXCEPT ![c] = y]
        BY <3>3
      <4> HIDE DEF y
      <4>3. call'[c] = y /\ \A d \in Calls \ {c} : call'[d] = call[d]
        BY <2>1, <4>2 DEF CallType
      <4>4. Ahead("resolve", "org") < Ahead("resolve", "prj")
        BY AheadOf DEF Parts
      <4>5. GoesOn(c)
        BY <3>1, <3>3, <4>1, <4>3, <4>4 DEF GoesOn, Task
      <4> QED BY <4>3, <4>5, Resting DEF CallsGoForward
    <3> QED BY <2>5, <3>2, <3>3 DEF Resolve
  <2> QED BY <1>1, <2>2, <2>3, <2>4, <2>5 DEF Admit, Validate
<1>2. ASSUME IInv, NEW c \in Calls, NEW new, InsertKey(c, new), call[c].pc = "issue"
      PROVE  CallsGoForward
  <2>1. CallType
    BY <1>2, Now
  <2> QED BY <1>2, <2>1, RepliesOn DEF InsertKey, Places
<1>3. ASSUME IInv, NEW c \in Calls, Rotate(c) PROVE CallsGoForward
  <2>1. CallType /\ Shape(c) /\ call[c] \in Call
    BY <1>3, Now DEF CallType
  <2>2. CASE RotateLookup(c)
    <3>1. call[c].pc = "lookup" /\ call[c].reply = "none"
      BY <2>1, <2>2 DEF RotateLookup, At, Shape
    <3>2. \A part \in Parts : Ahead("retire", part) < Ahead("lookup", part)
      BY AheadOf
    <3> QED BY <2>1, <2>2, <3>1, <3>2, RepliesOn, GoesToOn DEF RotateLookup, GoTo, Places
  <2>3. CASE Retire(c)
    <3>1. call[c].pc = "retire" /\ call[c].reply = "none" /\ GoTo(c, "issue")
      BY <2>1, <2>3 DEF Retire, At, Shape
    <3>2. \A part \in Parts : Ahead("issue", part) < Ahead("retire", part)
      BY AheadOf
    <3> QED BY <2>1, <3>1, <3>2, GoesToOn DEF Places
  <2>4. CASE Reissue(c)
    BY <1>2, <1>3, <2>4 DEF Reissue, At
  <2> QED BY <1>3, <2>2, <2>3, <2>4 DEF Rotate
<1>4. ASSUME IInv, NEW c \in Calls, Login(c) PROVE CallsGoForward
  <2>1. CallType /\ Shape(c) /\ call[c] \in Call
    BY <1>4, Now DEF CallType
  <2>2. CASE Get(c)
    <3>1. call[c].pc = "get" /\ call[c].reply = "none"
      BY <2>1, <2>2 DEF Get, At, Shape
    <3>2. \A part \in Parts : Ahead("insert", part) < Ahead("get", part)
      BY AheadOf DEF Parts
    <3> QED BY <2>1, <2>2, <3>1, <3>2, HavesOn, GoesToOn DEF Get, Places
  <2>3. CASE Insert(c)
    <3>1. call[c].pc = "insert" /\ call[c].reply = "none"
      BY <2>1, <2>3 DEF Insert, At, Shape
    <3>2. \A part \in Parts : Ahead("refetch", part) < Ahead("insert", part)
      BY AheadOf DEF Parts
    <3> QED BY <2>1, <2>3, <3>1, <3>2, HavesOn, GoesToOn DEF Insert, Places
  <2>4. CASE Refetch(c)
    <3>1. call[c].pc = "refetch" /\ call[c].reply = "none"
      BY <2>1, <2>4 DEF Refetch, At, Shape
    <3> QED BY <2>1, <2>4, <3>1, HavesOn, RepliesOn DEF Refetch, Places
  <2>5. CASE Issue(c)
    BY <1>2, <1>4, <2>5 DEF Issue, At
  <2> QED BY <1>4, <2>2, <2>3, <2>4, <2>5 DEF Login
<1>5. ASSUME IInv, NEW c \in Calls, NEW k \in Keys, BeginChat(c, k) \/ BeginRotate(c, k)
      PROVE  CallsGoForward
  <2>1. CallType
    BY <1>5, Now
  <2>2. CASE BeginChat(c, k)
    <3> DEFINE y == [IdleCall EXCEPT !.op = "validate", !.pc = "lookup", !.key = k,
          !.met = IF Exists(k) THEN MetBy(row[k].user) ELSE {},
          !.barred = (IF Retired(k) THEN {"revoked"} ELSE {}) \cup
                     (IF IsExpired(k) THEN {"expired"} ELSE {})]
    <3>1. call[c].pc = "idle" /\ call' = [call EXCEPT ![c] = y]
      BY <2>2 DEF BeginChat
    <3>2. y.pc = "lookup" /\ y.part \in Parts /\ y.reply = "none"
      BY DEF IdleCall, Parts
    <3> HIDE DEF y
    <3> QED BY <2>1, <3>1, <3>2, BeginsOn
  <2>3. CASE BeginRotate(c, k)
    <3> DEFINE y == [IdleCall EXCEPT !.op = "rotate", !.pc = "lookup", !.key = k]
    <3>1. call[c].pc = "idle" /\ call' = [call EXCEPT ![c] = y]
      BY <2>3 DEF BeginRotate
    <3>2. y.pc = "lookup" /\ y.part \in Parts /\ y.reply = "none"
      BY DEF IdleCall, Parts
    <3> HIDE DEF y
    <3> QED BY <2>1, <3>1, <3>2, BeginsOn
  <2> QED BY <1>5, <2>2, <2>3
<1>6. ASSUME IInv, NEW c \in Calls, NEW u \in Users, BeginLogin(c, u) PROVE CallsGoForward
  <2> DEFINE y == [IdleCall EXCEPT !.op = "login", !.pc = "get", !.user = u, !.part = "org"]
  <2>1. call[c].pc = "idle" /\ call' = [call EXCEPT ![c] = y]
    BY <1>6 DEF BeginLogin
  <2>2. y.pc = "get" /\ y.part \in Parts /\ y.reply = "none"
    BY DEF IdleCall, Parts
  <2> HIDE DEF y
  <2> QED BY <1>6, <2>1, <2>2, Now, BeginsOn
<1>7. ASSUME IInv, NEW u \in Users, NEW p \in Parts, NEW status \in {"active", "inactive"},
             SetStatus(u, p, status)
      PROVE  CallsGoForward
  <2> SUFFICES ASSUME NEW c \in Calls PROVE Rests(c)
    BY DEF CallsGoForward
  <2>1. call[c] \in Call
    BY <1>7, Now DEF CallType
  <2>2. call'[c] \in {[call[c] EXCEPT !.met = call[c].met \cup {p}], call[c]}
    BY <1>7 DEF SetStatus
  <2> QED BY <2>1, <2>2 DEF Rests, Task, Call
<1>8. ASSUME IInv, Next PROVE CallsGoForward
  <2>1. CASE UNCHANGED call
    BY <2>1, NobodyMoves
  <2> QED BY <1>1, <1>3, <1>4, <1>5, <1>6, <1>7, <1>8, <2>1 DEF Next, Tick, Revoke, Create
<1> QED BY <1>8, Invariance, PTL DEF Spec
=============================================================================
